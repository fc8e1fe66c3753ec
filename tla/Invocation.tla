----------------------------- MODULE Invocation -----------------------------
(***************************************************************************)
(* A dispatch and what happens to a message it processes.  Engine threads  *)
(* look a slot up, call the service's function and reply; owners register  *)
(* and drop slots meanwhile; workers of the service write to the deferred  *)
(* or streamed object that the function returned, possibly before the      *)
(* engine thread has attached it to the client; and the client may be      *)
(* disconnected at any moment.  A section under a mutex is one step, except*)
(* attach(), which replays the buffered operations one push at a time.     *)
(***************************************************************************)
EXTENDS Naturals, Sequences, Functions

CONSTANTS
  Calls,          \* messages being processed, each on its own channel
  Events,         \* the events of the protocol
  Kind,           \* the slot type that select<> picks for an event's handler
  Recursed,       \* events whose dispatch_type is their own tag
  Middlewares,    \* what a slot_builder may be given, in order
  MaxOps,         \* bound on the operations of a call's workers
  MaxSlots        \* bound on the slots ever registered

ASSUME InvocationAssumption ==
  /\ Kind \in [Events -> {"blocking", "mute", "generic", "deferred", "streamed"}]
  /\ Recursed \subseteq Events
  /\ MaxOps \in Nat /\ MaxSlots \in Nat

NoSlot == [id |-> 0, chain |-> <<>>]

VARIABLES
  m_slots,        \* event -> slot
  registered,     \* history: middlewares of slot i in the order of registration
  pc,             \* what the engine thread does next for a call
  event,          \* the message type of a call
  slot,           \* the slot that process() has copied
  ran,            \* history: callables entered by a call, in order
  reply,          \* what the slot is about to send itself
  result,         \* what process() returned or threw
  transports,     \* is the call's session attached?
  state,          \* streamed: "open" or "closed"
  m_operations,   \* operation log of the call's message queue
  replayed,       \* operations that attach() has sent so far
  m_upstream,     \* has the message queue its upstream?
  ops,            \* operations the workers have tried
  accepted,       \* history: operations that returned no error
  delivered,      \* history: messages of the queue on the wire
  answered        \* history: messages of the slot itself on the wire

slotVars == <<m_slots, registered>>
callVars == <<pc, event, slot, ran, reply, result>>
queueVars == <<state, m_operations, replayed, m_upstream>>
sentVars == <<delivered, answered>>
invocationVars == <<slotVars, callVars, transports, queueVars, ops, accepted, sentVars>>

InvocationInit ==
  /\ m_slots = [e \in Events |-> NoSlot]
  /\ registered = <<>>
  /\ pc = [c \in Calls |-> "idle"]
  /\ event = [c \in Calls |-> "none"]
  /\ slot = [c \in Calls |-> NoSlot]
  /\ ran = [c \in Calls |-> <<>>]
  /\ reply = [c \in Calls |-> "none"]
  /\ result = [c \in Calls |-> "none"]
  /\ transports = [c \in Calls |-> TRUE]
  /\ state = [c \in Calls |-> "open"]
  /\ m_operations = [c \in Calls |-> <<>>]
  /\ replayed = [c \in Calls |-> 0]
  /\ m_upstream = [c \in Calls |-> FALSE]
  /\ ops = [c \in Calls |-> 0]
  /\ accepted = [c \in Calls |-> <<>>]
  /\ delivered = [c \in Calls |-> <<>>] /\ answered = [c \in Calls |-> <<>>]

-----------------------------------------------------------------------------
(* dispatch<Tag> *)

\* with_middleware() puts the new middleware at the front of the tuple.
WithMiddleware(ms, m) == <<m>> \o ms

Builder(ms) ==
  LET built[i \in 0..Len(ms)] == IF i = 0 THEN <<>> ELSE WithMiddleware(built[i - 1], ms[i])
  IN  built[Len(ms)]

\* composer::apply wraps the callable with the head of the tuple first, so
\* that the tail ends up outside.
Compose(ms) ==
  LET wrapped[i \in 0..Len(ms)] == IF i = 0 THEN <<"handler">> ELSE <<ms[i]>> \o wrapped[i - 1]
  IN  wrapped[Len(ms)]

\* on<Event>().with_middleware(...).execute(fn), and on<Event>(fn) for no
\* middlewares; a slot that is there stays (duplicate_slot is thrown).
On(e, ms) ==
  /\ m_slots[e] = NoSlot
  /\ Len(registered) < MaxSlots
  /\ registered' = Append(registered, ms)
  /\ m_slots' = [m_slots EXCEPT ![e] =
       [id |-> Len(registered'), chain |-> Compose(Builder(ms))]]
  /\ UNCHANGED <<callVars, transports, queueVars, ops, accepted, sentVars>>

\* drop<Event>(), which throws slot_not_found when there is none.
Drop(e) ==
  /\ m_slots[e] # NoSlot
  /\ m_slots' = [m_slots EXCEPT ![e] = NoSlot]
  /\ UNCHANGED <<registered, callVars, transports, queueVars, ops, accepted, sentVars>>

\* halt()
Halt ==
  /\ \E e \in Events : m_slots[e] # NoSlot
  /\ m_slots' = [e \in Events |-> NoSlot]
  /\ UNCHANGED <<registered, callVars, transports, queueVars, ops, accepted, sentVars>>

\* process() ends: by an exception, or with a transition of the channel.
Throw(c) ==
  /\ pc' = [pc EXCEPT ![c] = "done"]
  /\ result' = [result EXCEPT ![c] = "thrown"]

Return(c) ==
  /\ pc' = [pc EXCEPT ![c] = "done"]
  /\ result' = [result EXCEPT ![c] = IF event[c] \in Recursed THEN "recurrent" ELSE "terminal"]

\* Arguments that do not fit the event throw invalid_argument.
BadArguments(c) == Throw(c)

\* process(): the slot pointer is copied under the lock and used after it.
\* Without a slot it throws slot_not_found.
Process(c, e) ==
  /\ pc[c] = "idle"
  /\ event' = [event EXCEPT ![c] = e]
  /\ \/ /\ m_slots[e] # NoSlot
        /\ slot' = [slot EXCEPT ![c] = m_slots[e]]
        /\ pc' = [pc EXCEPT ![c] = "call"] /\ UNCHANGED result
     \/ m_slots[e] = NoSlot /\ Throw(c) /\ UNCHANGED slot
     \/ m_slots[e] # NoSlot /\ BadArguments(c) /\ UNCHANGED slot
  /\ UNCHANGED <<slotVars, ran, reply, transports, queueVars, ops, accepted, sentVars>>

-----------------------------------------------------------------------------
(* Slots *)

\* The slot type of the call's event.
CallKind(c) == Kind[event[c]]
Streaming(c) == CallKind(c) \in {"deferred", "streamed"}

\* The exception of a function: a slot with an upstream replies with it, the
\* others pass it on to the session.
Fail(c) ==
  IF CallKind(c) \in {"mute", "generic"} THEN Throw(c) /\ UNCHANGED reply
  ELSE /\ reply' = [reply EXCEPT ![c] = "error"]
       /\ pc' = [pc EXCEPT ![c] = "reply"]
       /\ UNCHANGED result

\* The slot calls its middlewares, from the outermost to the handler; each of
\* them may throw.
Enter(c) ==
  /\ pc[c] = "call"
  /\ \/ /\ ran' = [ran EXCEPT ![c] = slot[c].chain]
        /\ pc' = [pc EXCEPT ![c] = "body"]
        /\ UNCHANGED <<reply, result>>
     \/ \E k \in 1..(Len(slot[c].chain) - 1) :
          ran' = [ran EXCEPT ![c] = SubSeq(slot[c].chain, 1, k)] /\ Fail(c)
  /\ UNCHANGED <<slotVars, event, slot, transports, queueVars, ops, accepted, sentVars>>

\* A generic slot hands over what its callable returns.
GenericResult(c) ==
  /\ CallKind(c) = "generic"
  /\ result' \in {[result EXCEPT ![c] = r] : r \in {"recurrent", "terminal", "next"}}
  /\ pc' = [pc EXCEPT ![c] = "done"]

\* The handler returns or throws.  Its result is a value, nothing, a dispatch
\* (generic) or an object its workers may already be using.
Body(c) ==
  /\ pc[c] = "body"
  /\ \/ Fail(c)
     \/ /\ CallKind(c) = "blocking"
        /\ reply' = [reply EXCEPT ![c] = "value"]
        /\ pc' = [pc EXCEPT ![c] = "reply"] /\ UNCHANGED result
     \/ CallKind(c) = "mute" /\ Return(c) /\ UNCHANGED reply
     \/ GenericResult(c) /\ UNCHANGED reply
     \/ Streaming(c) /\ pc' = [pc EXCEPT ![c] = "attach"] /\ UNCHANGED <<reply, result>>
  /\ UNCHANGED <<slotVars, event, slot, ran, transports, queueVars, ops, accepted, sentVars>>

OwnMessage(c) == [mode |-> "slot", type |-> reply[c], n |-> 0]

\* Mutant: the error of a failed send is not sent, and process() returns.
ReplySwallows(c) ==
  /\ pc[c] = "reply"
  /\ answered' = IF transports[c] THEN [answered EXCEPT ![c] = Append(@, OwnMessage(c))] ELSE answered
  /\ Return(c)
  /\ UNCHANGED <<slotVars, event, slot, ran, reply, transports, queueVars, ops, accepted, delivered>>

\* send() on the upstream.  Without a transport it throws, the error that the
\* slot then tries to send throws as well, and so does process().
Reply(c) ==
  /\ pc[c] = "reply"
  /\ \/ /\ transports[c]
        /\ answered' = [answered EXCEPT ![c] = Append(@, OwnMessage(c))]
        /\ Return(c)
     \/ ~transports[c] /\ Throw(c) /\ UNCHANGED answered
  /\ UNCHANGED <<slotVars, event, slot, ran, reply, transports, queueVars, ops, accepted, delivered>>

-----------------------------------------------------------------------------
(* message_queue, deferred and streamed *)

\* attach(upstream) takes the mutex of the object and holds it to its end.
Attach(c) ==
  /\ pc[c] = "attach"
  /\ pc' = [pc EXCEPT ![c] = "replay"]
  /\ UNCHANGED <<slotVars, event, slot, ran, reply, result, transports, queueVars, ops, accepted, sentVars>>

\* The next operation of the log is sent; if that throws, the log stays, no
\* upstream is attached, and the slot tries to send the error.
Replay(c) ==
  /\ pc[c] = "replay"
  /\ replayed[c] < Len(m_operations[c])
  /\ \/ /\ transports[c]
        /\ delivered' = [delivered EXCEPT ![c] = Append(@, m_operations[c][replayed[c] + 1])]
        /\ replayed' = [replayed EXCEPT ![c] = @ + 1]
        /\ UNCHANGED <<pc, reply>>
     \/ /\ ~transports[c]
        /\ pc' = [pc EXCEPT ![c] = "reply"]
        /\ reply' = [reply EXCEPT ![c] = "error"]
        /\ UNCHANGED <<delivered, replayed>>
  /\ UNCHANGED <<slotVars, event, slot, ran, result, transports, state, m_operations, m_upstream, ops, accepted, answered>>

\* Mutant: the log is dropped, replayed or not.
AttachedDrops(c) ==
  /\ pc[c] = "replay"
  /\ m_operations' = [m_operations EXCEPT ![c] = <<>>]
  /\ replayed' = [replayed EXCEPT ![c] = 0]
  /\ m_upstream' = [m_upstream EXCEPT ![c] = TRUE]
  /\ Return(c)
  /\ UNCHANGED <<slotVars, event, slot, ran, reply, transports, state, ops, accepted, sentVars>>

\* The log was sent: it is cleared and the upstream is set.
Attached(c) ==
  /\ pc[c] = "replay"
  /\ replayed[c] = Len(m_operations[c])
  /\ m_operations' = [m_operations EXCEPT ![c] = <<>>]
  /\ replayed' = [replayed EXCEPT ![c] = 0]
  /\ m_upstream' = [m_upstream EXCEPT ![c] = TRUE]
  /\ Return(c)
  /\ UNCHANGED <<slotVars, event, slot, ran, reply, transports, state, ops, accepted, sentVars>>

\* An event frozen with its arguments, which number the operation.
Frozen(c, type) == [mode |-> CallKind(c), type |-> type, n |-> ops[c] + 1]

Accepted(c, msg) == accepted' = [accepted EXCEPT ![c] = Append(@, msg)]

\* append(): buffered without an upstream; else sent, and a throw of the send
\* becomes the error code of the operation.
QueueAppend(c, msg) ==
  \/ /\ ~m_upstream[c]
     /\ m_operations' = [m_operations EXCEPT ![c] = Append(@, msg)]
     /\ Accepted(c, msg) /\ UNCHANGED delivered
  \/ /\ m_upstream[c] /\ transports[c]
     /\ delivered' = [delivered EXCEPT ![c] = Append(@, msg)]
     /\ Accepted(c, msg) /\ UNCHANGED m_operations
  \/ m_upstream[c] /\ ~transports[c] /\ UNCHANGED <<m_operations, accepted, delivered>>

\* attach() is the only section under the object's mutex of several steps.
Unlocked(c) == pc[c] # "replay"

\* A worker uses the object from the moment the handler has made it.
Usable(c) ==
  /\ Unlocked(c)
  /\ ran[c] # <<>> /\ ran[c][Len(ran[c])] = "handler"
  /\ ops[c] < MaxOps

Worker(c) ==
  /\ ops' = [ops EXCEPT ![c] = @ + 1]
  /\ UNCHANGED <<slotVars, callVars, transports, replayed, m_upstream, answered>>

\* deferred::write(), close() and abort()
Deferred(c) ==
  /\ Usable(c) /\ CallKind(c) = "deferred"
  /\ \E type \in {"value", "error"} :
       QueueAppend(c, Frozen(c, type)) /\ Worker(c)
  /\ UNCHANGED state

\* streamed::write(), which returns closed_upstream on a closed stream.
StreamWrite(c) ==
  /\ Usable(c) /\ CallKind(c) = "streamed"
  /\ IF state[c] = "closed" THEN UNCHANGED <<m_operations, accepted, delivered>>
     ELSE QueueAppend(c, Frozen(c, "chunk"))
  /\ Worker(c)
  /\ UNCHANGED state

\* Mutant: only the success of the append closes the stream for writers.
StreamEndOpen(c) ==
  /\ Usable(c) /\ CallKind(c) = "streamed" /\ state[c] = "open"
  /\ \E type \in {"choke", "error"} :
       QueueAppend(c, Frozen(c, type)) /\ Worker(c)
  /\ state' = [state EXCEPT ![c] = IF m_upstream[c] THEN "closed" ELSE "open"]

\* streamed::close() and abort(): the state is exchanged before the append,
\* and a second end returns closed_upstream.
StreamEnd(c) ==
  /\ Usable(c) /\ CallKind(c) = "streamed"
  /\ \E type \in {"choke", "error"} :
       IF state[c] = "closed" THEN UNCHANGED <<m_operations, accepted, delivered>>
       ELSE QueueAppend(c, Frozen(c, type))
  /\ Worker(c)
  /\ state' = [state EXCEPT ![c] = "closed"]

\* The client goes away: the session drops its transport for good.
Disconnect(c) ==
  /\ transports[c]
  /\ transports' = [transports EXCEPT ![c] = FALSE]
  /\ UNCHANGED <<slotVars, callVars, queueVars, ops, accepted, sentVars>>

Engine(c) == Enter(c) \/ Body(c) \/ Reply(c) \/ Attach(c) \/ Replay(c) \/ Attached(c)

InvocationNext ==
  \/ \E e \in Events : Drop(e) \/ \E ms \in Middlewares : On(e, ms)
  \/ Halt
  \/ \E c \in Calls :
       \/ Engine(c) \/ Deferred(c) \/ StreamWrite(c) \/ StreamEnd(c) \/ Disconnect(c)
       \/ \E e \in Events : Process(c, e)

InvocationSpec == InvocationInit /\ [][InvocationNext]_invocationVars

\* Handlers return and the engine threads go on with what they have begun.
InvocationFairSpec == InvocationSpec /\ \A c \in Calls : WF_invocationVars(Engine(c))

-----------------------------------------------------------------------------
(* Properties *)

\* When process() returns, the client has heard from exactly one side, the
\* slot or the object that it returned; when it throws, and the session is
\* about to be closed, the slot has said nothing.
AnsweredOnce ==
  \A c \in Calls : pc[c] = "done" =>
    /\ result[c] = "thrown" => answered[c] = <<>>
    /\ result[c] # "thrown" /\ CallKind(c) = "blocking" => Len(answered[c]) = 1 /\ delivered[c] = <<>>
    /\ result[c] # "thrown" /\ Streaming(c) =>
         IF m_upstream[c] THEN answered[c] = <<>>
         ELSE Len(answered[c]) = 1 /\ delivered[c] = <<>>

EndsStream(msg) == msg.mode = "streamed" /\ msg.type \in {"choke", "error"}

Stream == INSTANCE MessageStream WITH Streams <- Calls, Ends <- EndsStream

\* Whatever mix of early writes, attach(), later writes and disconnection: the
\* operations that were accepted arrive in order, none twice and none left
\* out, and a streamed object accepts nothing behind its end.
ImplementsStream == Stream!StreamSpec

\* What was accepted is delivered, unless the client is gone or the handler
\* threw and left its object without an upstream: the operations are bounded,
\* so in the end none is left behind.
AcceptedArrives ==
  <>[](\A c \in Calls :
         \/ Range(accepted[c]) \subseteq Range(delivered[c])
         \/ ~transports[c]
         \/ pc[c] = "done" /\ ~m_upstream[c])
=============================================================================
