------------------------------ MODULE Session ------------------------------
(***************************************************************************)
(* A session: one connection that carries many virtual channels.  The      *)
(* engine thread (Io) pulls messages and runs slots; service threads share *)
(* the session through its upstreams and may fork new channels or detach   *)
(* the session at any moment.  Each section under the channels lock is one *)
(* step; everything else the engine thread does between two sections is a  *)
(* step of its own, so that the other threads interleave with it.          *)
(***************************************************************************)
EXTENDS Naturals, Sequences

CONSTANTS
  Threads,        \* service threads
  Io,             \* the engine thread that owns the socket
  MaxChannelId,   \* bound on channel ids (2^64 in the code)
  MaxDepth,       \* bound on the transitions of one dispatch graph
  Control,        \* service_dispatch, which handles the control messages
  None            \* a null dispatch_ptr_t; also: no message

ASSUME SessionAssumption ==
  /\ MaxChannelId \in Nat
  /\ MaxDepth \in Nat
  /\ Io \notin Threads
  /\ Control \notin Nat
  /\ None \notin Nat
  /\ None # Control

Ids == 1..MaxChannelId
Node == 0..MaxDepth            \* a place in a service's dispatch graph
Dispatch == Node \cup {Control}
Actors == Threads \cup {Io}

\* A service call, the four control messages (settings has no slot either, so
\* goaway stands for both) and a message that cannot open a channel: its type
\* is not in the protocol or its trace headers are malformed.
MessageTypes == {"call", "ping", "revoke", "goaway", "undefined"}

\* The span is the channel; id is the argument of control::revoke.
Message == {m \in [span : Ids, type : MessageTypes, id : Ids] :
              m.type # "revoke" => m.id = m.span}

VARIABLES
  transport,      \* is the session attached to its connection?
  max_channel_id, \* the largest channel id the session has processed
  channels,       \* ids in the channel map
  dispatch,       \* channel->dispatch of every channel object ever created
  detaching,      \* actors between the two halves of detach()
  at,             \* what the pull loop does next
  msg,            \* the message it works on
  next,           \* the dispatch process() has returned
  discards        \* history: the dispatches discarded, per channel

chanVars == <<max_channel_id, channels, dispatch, discards>>
pullVars == <<at, msg, next>>
vars == <<transport, chanVars, detaching, pullVars>>

Init ==
  /\ transport = TRUE
  /\ max_channel_id = 0
  /\ channels = {}
  /\ dispatch = [id \in Ids |-> None]
  /\ detaching = {}
  /\ at = "reading"
  /\ msg = None
  /\ next = None
  /\ discards = [id \in Ids |-> <<>>]

-----------------------------------------------------------------------------
(* Channel map *)

\* A channel id that is not in the map and not above the maximum was revoked.
Revoked(id) == id <= max_channel_id

\* discard() is called on the dispatch of every channel of S that has one.
Discard(S) ==
  [id \in Ids |-> IF id \in S /\ dispatch[id] # None
                    THEN Append(discards[id], dispatch[id]) ELSE discards[id]]

\* revoke(id, ec) on a channel of the map.
Erase(id) ==
  /\ id \in channels
  /\ discards' = Discard({id})
  /\ channels' = channels \ {id}
  /\ UNCHANGED <<max_channel_id, dispatch>>

\* revoke(id, ec), which ignores unknown channels.
Revoke(id) == Erase(id) \/ (id \notin channels /\ UNCHANGED chanVars)

SelectDispatch(m) == IF m.type = "call" THEN 0 ELSE Control

\* A new channel for id, bound to d.
Insert(id, d) ==
  /\ channels' = channels \cup {id}
  /\ dispatch' = [dispatch EXCEPT ![id] = d]
  /\ max_channel_id' = id
  /\ UNCHANGED discards

\* First half of detach(): whoever takes the transport goes on to discard.
Swap(a) ==
  /\ transport' = FALSE
  /\ detaching' = IF transport THEN detaching \cup {a} ELSE detaching

-----------------------------------------------------------------------------
(* The operations any thread may call; the engine thread calls them from   *)
(* inside a slot or from another handler of its loop.                      *)

CanCall(a) ==
  /\ a \notin detaching
  /\ a = Io => at \in {"reading", "process", "stopped"}

\* fork(dispatch): a null dispatch takes the id and inserts no channel.
Fork(a) ==
  /\ CanCall(a)
  /\ max_channel_id < MaxChannelId
  /\ \/ Insert(max_channel_id + 1, 0)
     \/ /\ max_channel_id' = max_channel_id + 1
        /\ UNCHANGED <<channels, dispatch, discards>>
  /\ UNCHANGED <<transport, detaching, pullVars>>

\* detach(ec), first half.
Detach(a) ==
  /\ CanCall(a)
  /\ Swap(a)
  /\ UNCHANGED <<chanVars, pullVars>>

\* Mutant: the map is cleared without discarding anything.
SweepSilently(a) ==
  /\ a \in detaching
  /\ channels' = {}
  /\ detaching' = detaching \ {a}
  /\ UNCHANGED <<transport, max_channel_id, dispatch, discards, pullVars>>

\* Mutant: the dispatches are discarded but the map is not cleared.
SweepKeeps(a) ==
  /\ a \in detaching
  /\ discards' = Discard(channels)
  /\ detaching' = detaching \ {a}
  /\ UNCHANGED <<transport, max_channel_id, channels, dispatch, pullVars>>

\* detach(ec), second half, under the channels lock.
Sweep(a) ==
  /\ a \in detaching
  /\ discards' = Discard(channels)
  /\ channels' = {}
  /\ detaching' = detaching \ {a}
  /\ UNCHANGED <<transport, max_channel_id, dispatch, pullVars>>

-----------------------------------------------------------------------------
(* The pull loop, on the engine thread.                                    *)

\* The reader has decoded a message and posted finalize().
Read ==
  /\ at = "reading" /\ Io \notin detaching
  /\ msg' \in Message
  /\ at' = "finalize"
  /\ UNCHANGED <<transport, chanVars, detaching, next>>

\* finalize(ec) with an error, and the end of the loop by an exception.
Stop ==
  /\ at' = "stopped"
  /\ msg' = None
  /\ Swap(Io)
  /\ UNCHANGED next

ReadError ==
  /\ at = "reading" /\ Io \notin detaching
  /\ Stop
  /\ UNCHANGED chanVars

\* The socket was closed under the pending read: the handler is not called.
ReadAborted ==
  /\ at = "reading" /\ Io \notin detaching
  /\ ~transport
  /\ at' = "stopped"
  /\ UNCHANGED <<transport, chanVars, detaching, msg, next>>

\* Mutant: messages are handled even when the session is detached.
FinalizeUnchecked ==
  /\ at = "finalize" /\ Io \notin detaching
  /\ at' = "handle"
  /\ UNCHANGED <<transport, chanVars, detaching, msg, next>>

\* finalize() looks at the transport before the message is handled.
Finalize ==
  /\ at = "finalize" /\ Io \notin detaching
  /\ \/ transport /\ at' = "handle" /\ UNCHANGED msg
     \/ ~transport /\ at' = "stopped" /\ msg' = None
  /\ UNCHANGED <<transport, chanVars, detaching, next>>

\* handle(), the section under the lock: find the channel or create it.
Lookup ==
  /\ at = "handle" /\ Io \notin detaching
  /\ LET id == msg.span IN
     \/ /\ id \in channels
        /\ at' = "process"
        /\ UNCHANGED <<transport, chanVars, detaching, msg, next>>
     \/ /\ id \notin channels
        /\ Revoked(id) \/ msg.type = "undefined"
        /\ Stop
        /\ UNCHANGED chanVars
     \/ /\ id \notin channels
        /\ ~Revoked(id) /\ msg.type # "undefined"
        /\ Insert(id, SelectDispatch(msg))
        /\ at' = "process"
        /\ UNCHANGED <<transport, detaching, msg, next>>

\* What process() may return: none keeps the dispatch, a null pointer ends
\* the channel, anything else is the next place in the graph.
Transitions(d) == {d, None} \cup {n \in Node : n = d + 1}

\* A slot of the service runs to its end; the channel keeps its old dispatch.
ProcessCall ==
  /\ at = "process" /\ Io \notin detaching
  /\ msg.type = "call" /\ dispatch[msg.span] \in Node
  /\ next' \in Transitions(dispatch[msg.span])
  /\ at' = "assign"
  /\ UNCHANGED <<transport, chanVars, detaching, msg>>

\* control::ping and control::revoke; both are terminal and send a reply.
ProcessControl ==
  /\ at = "process" /\ Io \notin detaching
  /\ msg.type \in {"ping", "revoke"} /\ dispatch[msg.span] = Control
  /\ IF msg.type = "revoke" THEN Revoke(msg.id) ELSE UNCHANGED chanVars
  /\ \/ next' = None /\ at' = "assign" /\ UNCHANGED <<transport, detaching, msg>>
     \/ ~transport /\ Stop

\* No such slot, an unbound channel, bad arguments, or an exception of a slot.
ProcessThrow ==
  /\ at = "process" /\ Io \notin detaching
  /\ Stop
  /\ UNCHANGED chanVars

\* channel->dispatch = ..., outside the lock; then the revocation is decided.
Assign ==
  /\ at = "assign" /\ Io \notin detaching
  /\ dispatch' = [dispatch EXCEPT ![msg.span] = next]
  /\ IF next = None /\ msg.span \in channels
       THEN at' = "revoke" /\ UNCHANGED msg
       ELSE at' = "reading" /\ msg' = None
  /\ next' = None
  /\ UNCHANGED <<transport, max_channel_id, channels, detaching, discards>>

\* handle() revokes the channel whose last message was processed.
RevokeEnded ==
  /\ at = "revoke" /\ Io \notin detaching
  /\ Revoke(msg.span)
  /\ at' = "reading" /\ msg' = None
  /\ UNCHANGED <<transport, detaching, next>>

Pull ==
  \/ ReadAborted
  \/ Finalize
  \/ Lookup
  \/ ProcessCall
  \/ ProcessControl
  \/ ProcessThrow
  \/ Assign
  \/ RevokeEnded

Next ==
  \/ Read
  \/ ReadError
  \/ Pull
  \/ \E a \in Actors : Fork(a) \/ Detach(a) \/ Sweep(a)

Spec == Init /\ [][Next]_vars

\* The engine thread keeps running its handlers and slots return; a thread
\* inside detach() finishes it.
FairSpec ==
  /\ Spec
  /\ WF_vars(Pull)
  /\ \A a \in Actors : WF_vars(Sweep(a))

-----------------------------------------------------------------------------
(* Properties *)

\* Types; a channel in the map never has an id above the largest processed one.
TypeOK ==
  /\ transport \in BOOLEAN
  /\ max_channel_id \in 0..MaxChannelId
  /\ channels \in SUBSET (1..max_channel_id)
  /\ dispatch \in [Ids -> Dispatch \cup {None}]
  /\ detaching \in SUBSET Actors
  /\ at \in {"reading", "finalize", "handle", "process", "assign", "revoke", "stopped"}
  /\ msg \in Message \cup {None}
  /\ next \in Dispatch \cup {None}
  /\ discards \in [Ids -> Seq(Dispatch)]

\* An id that is out of the map and not above the maximum never comes back,
\* whichever mix of peer messages and forks moved the maximum: the infinite
\* TIME_WAIT that session.hpp describes for max_channel_id.
InfiniteTimeWait ==
  [][\A id \in Ids :
       id <= max_channel_id /\ id \notin channels => id \notin channels']_vars

\* At most one discard() per channel, although a control revocation, the end
\* of the graph and a detach by another thread compete for the channel.
DiscardOnce == \A id \in Ids : Len(discards[id]) <= 1

\* No channel leaves the map in silence: either its dispatch reached the end
\* of its graph or it was told by discard().
NoSilentClose ==
  \A id \in Ids : id \notin channels => dispatch[id] = None \/ discards[id] # <<>>

\* The unbound_dispatch guard of handle() never fires: a channel whose graph
\* has ended is out of the map before the next message is looked up.
AlwaysBound == at = "process" => dispatch[msg.span] # None

\* Ids above the maximum are untouched.
FreshUntouched ==
  \A id \in Ids : ~Revoked(id) => dispatch[id] = None /\ discards[id] = <<>>

\* A channel of the map was not told yet, and it is bound except while
\* handle() is about to revoke it.
OpenBound ==
  \A id \in channels :
    /\ discards[id] = <<>>
    /\ dispatch[id] = None => at = "revoke" /\ msg.span = id

\* The message being handled belongs to an id already counted, and its
\* dispatch stays in place until process() has returned.
HandledBound ==
  /\ at \in {"finalize", "handle", "process", "assign", "revoke"} => msg \in Message
  /\ at \in {"process", "assign", "revoke"} => Revoked(msg.span)
  /\ at \in {"process", "assign"} => dispatch[msg.span] # None

\* Why the three invariants above hold, as one inductive statement about
\* handle(), revoke(), fork() and detach().
SessionInv ==
  /\ TypeOK
  /\ DiscardOnce
  /\ NoSilentClose
  /\ FreshUntouched
  /\ OpenBound
  /\ HandledBound

\* Once the transport is gone, the pull loop ends and the detach completes.
PullStops == ~transport ~> (at = "stopped" /\ detaching = {})

\* The life cycle of a channel, as the map and the maximum show it.
Status == [id \in Ids |-> IF id \in channels THEN "open"
                          ELSE IF id <= max_channel_id THEN "closed" ELSE "fresh"]

Told == [id \in Ids |-> Len(discards[id])]

Lifecycle == INSTANCE ChannelLifecycle WITH status <- Status, told <- Told

\* Every step of the session is a step of the life cycle of its channels:
\* ids are taken in order, never reopened, and discard() comes with the close.
ImplementsLifecycle == Lifecycle!LifecycleSpec

\* Nothing is under way any more: the pull loop has stopped for good and
\* nobody is inside detach().
Quiet == ~transport /\ detaching = {} /\ at = "stopped"

\* What basic_dispatch.hpp promises of discard(): after the transport is gone,
\* every dispatch that has not reached the end of its graph was told.
DetachDiscardsAll ==
  Quiet => \A id \in Ids : dispatch[id] # None => discards[id] = <<dispatch[id]>>
=============================================================================
