------------------------------ MODULE Protocol ------------------------------
(***************************************************************************)
(* What a protocol is to the two ends of a channel: the numbers of its     *)
(* messages, the graph of them that the locator hands to clients, and how  *)
(* the arguments of a message are taken out of the array that arrives.     *)
(* A tag is a tuple of its name and, for the two generic protocols, the    *)
(* number of values they carry.                                            *)
(***************************************************************************)
EXTENDS Integers, Sequences, FiniteSets, SequencesExt, TLC

CONSTANT Plugged    \* tag -> protocol, of those that plugins bring

\* The largest std::uint16_t.
MaxId == 65535

Void == <<"void">>
Req == "required"
Opt == "optional"
Message(name, arguments, dispatch, upstream) ==
  [name |-> name, arguments |-> arguments, dispatch |-> dispatch, upstream |-> upstream]
Idl(messages) == [messages |-> messages, parent |-> Void, transition |-> FALSE]

Primitive(n) == <<"primitive", n>>
Streaming(n) == <<"streaming", n>>
Required(n) == [i \in 1..n |-> Req]
ErrorMessage == Message("error", <<Req, Opt>>, Void, Void)
PrimitiveIdl(n) ==
  [Idl(<<Message("value", Required(n), Void, Void), ErrorMessage>>) EXCEPT !.transition = TRUE]
StreamingIdl(n) ==
  [Idl(<<Message("write", Required(n), Streaming(n), Void), ErrorMessage, Message("close", <<>>, Void, Void)>>)
     EXCEPT !.transition = TRUE]

ControlIdl == Idl(<<
  Message("revoke", Required(2), Void, Primitive(0)), Message("settings", <<>>, Void, Primitive(0)),
  Message("ping", <<>>, Void, Primitive(0)), Message("goaway", Required(1), Void, Primitive(0))>>)

StorageIdl == Idl(<<
  Message("read", Required(2), Void, Primitive(1)), Message("write", <<Req, Req, Req, Opt>>, Void, Primitive(0)),
  Message("remove", Required(2), Void, Primitive(0)), Message("find", Required(2), Void, Primitive(1))>>)

LogIdl == Idl(<<
  Message("emit", <<Req, Req, Req, Opt>>, Void, Void), Message("verbosity", <<>>, Void, Primitive(1)),
  Message("set_verbosity", Required(1), Void, Primitive(0))>>)

LocatorIdl == Idl(<<
  Message("resolve", <<Req, Opt>>, Void, Primitive(3)), Message("connect", Required(1), Void, Streaming(2)),
  Message("refresh", Required(1), Void, Primitive(0)), Message("cluster", <<>>, Void, Primitive(1)),
  Message("publish", <<Req, Req, Opt>>, <<"publish">>, Primitive(0)),
  Message("routing", Required(1), <<"routing">>, Streaming(1))>>)
LockIdl == Idl(<<Message("discard", <<>>, Void, Void)>>)

ContextIdl == Idl([i \in 1..5 |->
  Message(<<"prepared", "shutdown", "os_signal", "exposed", "removed">>[i],
          Required(IF i <= 2 THEN 0 ELSE 2), <<"context">>, Void)])

Tags == {<<"control">>, <<"storage">>, <<"log">>, <<"locator">>, <<"publish">>, <<"routing">>, <<"context">>}
          \cup {Primitive(n) : n \in 0..3} \cup {Streaming(n) : n \in 1..2} \cup DOMAIN Plugged

\* Those that a session is started with.
Prototypes == {<<"storage">>, <<"log">>, <<"locator">>} \cup {t \in DOMAIN Plugged : ~Plugged[t].transition}

protocol(t) ==
  CASE t = Void -> Idl(<<>>)
    [] t[1] = "primitive" -> PrimitiveIdl(t[2])
    [] t[1] = "streaming" -> StreamingIdl(t[2])
    [] t = <<"control">> -> ControlIdl
    [] t = <<"storage">> -> StorageIdl
    [] t = <<"log">> -> LogIdl
    [] t = <<"locator">> -> LocatorIdl
    [] t \in {<<"publish">>, <<"routing">>} -> LockIdl
    [] t = <<"context">> -> ContextIdl
    [] OTHER -> Plugged[t]

-----------------------------------------------------------------------------
\* A message with the tag it is declared under.
Own(t) == [i \in DOMAIN protocol(t).messages |-> [tag |-> t] @@ protocol(t).messages[i]]


RECURSIVE Flatten(_)
\* The messages of a protocol: those of its ancestors, then its own.
Flatten(t) == IF protocol(t).parent = Void THEN Own(t) ELSE Flatten(protocol(t).parent) \o Own(t)

\* Control messages come with every protocol that starts a channel; one that
\* is moved to, the void one and the context's signals have none.
Control(t) == IF t \in {Void, <<"context">>} \/ protocol(t).transition THEN <<>> ELSE Own(<<"control">>)

Full(t) == Flatten(t) \o Reverse(Control(t))

\* mapped_messages: numbers from 0 upwards for messages, from the largest
\* downwards for control messages.  A later insertion replaces an earlier one.
Numbered(t) ==
  LET Numbers(s, Number(_)) == [e \in ToSet(s) |-> Number((CHOOSE i \in DOMAIN s : s[i] = e) - 1)]
  IN  Numbers(Control(t), LAMBDA k : MaxId - k) @@ Numbers(Flatten(t), LAMBDA k : k)

\* event_traits::id, which both ends use for a message.
Id(e) == Numbered(e.tag)[e]

Recursed(e) == e.dispatch = e.tag
\* The dispatch of the channel after a message.
After(t, e) == IF Recursed(e) THEN t ELSE e.dispatch

None == <<"none">>
RECURSIVE VertexByTag(_)
\* Mutant: recurrent is what leads back to the protocol that is traversed.
VertexByTag(t) ==
  LET numbered == Numbered(t)
  IN  [i \in {numbered[e] : e \in DOMAIN numbered} |->
         LET e == CHOOSE x \in DOMAIN numbered : numbered[x] = i
         IN  [name |-> e.name, dispatch |-> IF e.dispatch = t THEN None ELSE <<"some", VertexByTag(e.dispatch)>>]]

RECURSIVE Vertex(_)
\* traverse(): by number, the name and the vertex after the message; none if
\* it is recurrent.
Vertex(t) ==
  LET numbered == Numbered(t)
  IN  [i \in {numbered[e] : e \in DOMAIN numbered} |->
         LET e == CHOOSE x \in DOMAIN numbered : numbered[x] = i
         IN  [name |-> e.name, dispatch |-> IF Recursed(e) THEN None ELSE <<"some", Vertex(e.dispatch)>>]]

\* The root of a graph also tells what may be answered.
Root(t) ==
  LET numbered == Numbered(t)
  IN  [i \in DOMAIN Vertex(t) |->
         [upstream |-> <<"some", Vertex((CHOOSE e \in DOMAIN numbered : numbered[e] = i).upstream)>>] @@ Vertex(t)[i]]

\* select_dispatch(): the session's own dispatch takes what is behind the
\* prototype's messages.
SelectDispatch(t, id) == IF id < Cardinality(DOMAIN Numbered(t)) THEN t ELSE <<"control">>

-----------------------------------------------------------------------------

\* sanitize: nothing required follows what is optional.
Sanitized(arguments) ==
  SelectSeq(arguments, LAMBDA a : a = Req) \o SelectSeq(arguments, LAMBDA a : a = Opt) = arguments

Minimal(arguments) == Len(SelectSeq(arguments, LAMBDA a : a = Req))

RECURSIVE UnpackSequence(_, _, _)
\* One parameter after the other; "end" is what lies behind the array.
UnpackSequence(arguments, it, size) ==
  IF arguments = <<>> THEN <<>>
  ELSE IF Head(arguments) = Opt /\ it > size THEN <<"default">> \o UnpackSequence(Tail(arguments), it, size)
  ELSE <<IF it > size THEN "end" ELSE ToString(it)>> \o UnpackSequence(Tail(arguments), it + 1, size)

UnpackArguments(arguments, size) ==
  IF size < Minimal(arguments) THEN <<"size_error">> ELSE UnpackSequence(arguments, 1, size)

-----------------------------------------------------------------------------
VARIABLE case    \* what is looked at: a protocol, a walk in it, or an array of arguments

ProtocolInit(words, sizes, lists) ==
  \/ \E t \in Tags : case = [kind |-> "ids", tag |-> t]
  \/ \E t \in Prototypes, w \in words : case = [kind |-> "walk", tag |-> t, ids |-> w]
  \/ \E l \in lists, n \in sizes : Sanitized(l) /\ case = [kind |-> "arguments", list |-> l, size |-> n]

(* No two messages of a protocol have one number, and a message has the    *)
(* same number in every protocol that has it, its own, one that extends it *)
(* or one that it controls: both ends number by the message's own tag.     *)
IdsAgree ==
  case.kind = "ids" =>
    LET t == case.tag
    IN  /\ \A d, e \in DOMAIN Numbered(t) : Numbered(t)[d] = Numbered(t)[e] => d = e
        /\ \A e \in DOMAIN Numbered(t) : Numbered(t)[e] = Id(e)
        /\ ToSet(Full(t)) = DOMAIN Numbered(t)

IsControl(id) == id > MaxId - Len(ControlIdl.messages)

RECURSIVE WalkGraph(_, _, _)
\* What a client takes the numbers for that it sends by the graph.  Control
\* messages are for the session and open a channel of their own.
WalkGraph(v, ids, first) ==
  IF ids = <<>> THEN <<>>
  ELSE LET id == Head(ids)
       IN  IF id \notin DOMAIN v \/ (~first /\ IsControl(id)) THEN <<"refused">>
           ELSE <<v[id].name>> \o WalkGraph(IF v[id].dispatch = None THEN v ELSE v[id].dispatch[2], Tail(ids), FALSE)

RECURSIVE WalkDispatch(_, _)
\* What the dispatches of a channel take them for, one after the other.
WalkDispatch(t, ids) ==
  IF ids = <<>> THEN <<>>
  ELSE LET found == {e \in ToSet(Flatten(t)) : Id(e) = Head(ids)}
       IN  IF found = {} THEN <<"refused">>
           ELSE LET e == CHOOSE x \in found : TRUE IN <<e.name>> \o WalkDispatch(After(t, e), Tail(ids))

(* A client that follows the graph of a service, as the locator gives it   *)
(* out, means by every number what the dispatch behind the channel takes   *)
(* it for, and is refused exactly where that dispatch refuses it; and it   *)
(* takes the answers for what the service means by them.                   *)
GraphFollowsDispatch ==
  case.kind = "walk" =>
    \E root \in {Root(case.tag)}, first \in {SelectDispatch(case.tag, case.ids[1])} :
      /\ WalkGraph(root, case.ids, TRUE) = WalkDispatch(first, case.ids)
      /\ \A e \in ToSet(Flatten(first)) : Id(e) = case.ids[1] =>
           WalkGraph(root[Id(e)].upstream[2], Tail(case.ids), FALSE) = WalkDispatch(e.upstream, Tail(case.ids))

(* Every parameter gets the element at its own place or, if the array is   *)
(* shorter and it is optional, its default; nothing behind the array is    *)
(* read, and only an array that lacks what is required is refused.         *)
ArgumentsInPlace ==
  case.kind = "arguments" =>
    LET got == UnpackArguments(case.list, case.size)
    IN  IF \E i \in DOMAIN case.list : i > case.size /\ case.list[i] = Req
        THEN got = <<"size_error">>
        ELSE got = [i \in DOMAIN case.list |-> IF i <= case.size THEN ToString(i) ELSE "default"]

\* A message means the same at both ends of a channel: its number, the place
\* in the graph that the number leads to, and the places of its arguments.
EndsAgree == IdsAgree /\ GraphFollowsDispatch /\ ArgumentsInPlace
=============================================================================
