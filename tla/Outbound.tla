------------------------------ MODULE Outbound ------------------------------
(***************************************************************************)
(* The way out of a session: any thread pushes messages, push() hands them *)
(* to the engine's loop (inline when it already runs there), and the       *)
(* writable stream encodes them onto a non-blocking socket that may take   *)
(* any part of what it is offered.                                         *)
(***************************************************************************)
EXTENDS Naturals, Sequences, Functions

CONSTANTS
  PushThreads,    \* service threads that push
  Io,             \* the engine thread
  MaxPush,        \* bound on the messages of one sender
  Size            \* encoded bytes of a message

ASSUME OutboundAssumption == Io \notin PushThreads /\ MaxPush \in Nat /\ Size \in Nat \ {0}

Pushers == PushThreads \cup {Io}
Message == [from : Pushers, n : 1..MaxPush]

\* What is left of an encoded message: its bytes from an offset on.
Chunk == [m : Message, at : 1..Size]

VARIABLES
  transport,      \* is the session attached to its transport?
  tasks,          \* the queue of the engine's loop
  pushes,         \* how many messages each sender has pushed
  written,        \* history: messages in the order of write()
  m_messages,     \* chunks not yet accepted by the socket, in order
  m_state,        \* "idle" or "flushing"
  op,             \* bytes offered to the pending async_write_some, 0 if none
  broken,         \* the peer is gone: every further write fails
  wire,           \* bytes the socket has accepted
  results         \* history: what each message's handler was called with

writerVars == <<m_messages, m_state, op>>
outboundVars == <<transport, tasks, pushes, written, writerVars, broken, wire, results>>

OutboundInit ==
  /\ transport = TRUE
  /\ tasks = <<>>
  /\ pushes = [t \in Pushers |-> 0]
  /\ written = <<>>
  /\ m_messages = <<>> /\ m_state = "idle" /\ op = 0
  /\ broken = FALSE
  /\ wire = <<>>
  /\ results = [m \in Message |-> <<>>]

PushTask(m) == [kind |-> "push", m |-> m]
DoneTask(m, ok) == [kind |-> "done", m |-> m, ok |-> ok]

\* The socket is closed with the last reference to the transport, which the
\* session and every push waiting in the loop hold.
Open == transport \/ \E k \in DOMAIN tasks : tasks[k].kind = "push"

-----------------------------------------------------------------------------
(* writable_stream *)

Bytes(c) == [k \in 1..(Size - c.at + 1) |-> <<c.m, c.at + k - 1>>]

\* The first k chunks of q, one after the other.
Joined(q, k) ==
  LET all[i \in 0..k] == IF i = 0 THEN <<>> ELSE all[i - 1] \o Bytes(q[i]) IN all[k]

Covered(q, k) == Len(Joined(q, k))
Remaining == Joined(m_messages, Len(m_messages))

\* Mutant: the rest of a message is sent from its first byte again.
EnqueueAll(m, n) ==
  /\ m_messages' = Append(m_messages, [m |-> m, at |-> 1])
  /\ m_state' = "flushing"
  /\ op' = IF m_state = "flushing" THEN op ELSE Covered(m_messages', Len(m_messages'))

\* What write() does with a message of which the socket has taken n bytes.
Enqueue(m, n) ==
  /\ m_messages' = Append(m_messages, [m |-> m, at |-> n + 1])
  /\ m_state' = "flushing"
  /\ op' = IF m_state = "flushing" THEN op ELSE Covered(m_messages', Len(m_messages'))

\* write(message, handle) when it runs with the loop's queue at q: an idle
\* stream tries the socket first, which takes all, a part or nothing.
Write(m, q) ==
  /\ written' = Append(written, m)
  /\ \/ /\ m_state = "idle" /\ ~broken
        /\ wire' = wire \o Bytes([m |-> m, at |-> 1])
        /\ tasks' = Append(q, DoneTask(m, TRUE))
        /\ UNCHANGED writerVars
     \/ \E n \in 0..(Size - 1) :
          /\ n > 0 => m_state = "idle" /\ ~broken
          /\ wire' = wire \o SubSeq(Bytes([m |-> m, at |-> 1]), 1, n)
          /\ Enqueue(m, n)
          /\ tasks' = q

\* Mutant: a chunk that was taken to its last byte stays at the front.
WholeStrict(n) ==
  CHOOSE k \in 0..Len(m_messages) :
    /\ k = 0 \/ Covered(m_messages, k) < n
    /\ k = Len(m_messages) \/ Covered(m_messages, k + 1) >= n

\* How many chunks at the front are complete when n bytes were taken.
Whole(n) ==
  CHOOSE k \in 0..Len(m_messages) :
    /\ Covered(m_messages, k) <= n
    /\ k = Len(m_messages) \/ Covered(m_messages, k + 1) > n

\* The chunks that are left after n bytes.
After(n) ==
  LET k == Whole(n)
      rest == SubSeq(m_messages, k + 1, Len(m_messages))
      part == n - Covered(m_messages, k)
  IN  IF part = 0 THEN rest ELSE [rest EXCEPT ![1].at = @ + part]

\* Mutant: a partial write is not continued.
RearmForgotten(q) ==
  /\ m_state' = IF q = <<>> THEN "idle" ELSE m_state
  /\ op' = 0

\* flush() ends idle, or offers the rest to the socket.
Rearm(q) ==
  /\ m_state' = IF q = <<>> THEN "idle" ELSE m_state
  /\ op' = IF q = <<>> THEN 0 ELSE Covered(q, Len(q))

\* flush(ec, bytes_written) without an error.
Flush ==
  /\ op > 0 /\ Open /\ ~broken
  /\ \E n \in 1..op :
       /\ wire' = wire \o SubSeq(Remaining, 1, n)
       /\ m_messages' = After(n)
       /\ tasks' = tasks \o [k \in 1..Whole(n) |-> DoneTask(m_messages[k].m, TRUE)]
       /\ Rearm(m_messages')
  /\ UNCHANGED <<transport, pushes, written, broken, results>>

\* flush(ec): every queued message fails; the state stays "flushing".
FlushError ==
  /\ op > 0 /\ Open /\ broken
  /\ tasks' = tasks \o [k \in DOMAIN m_messages |-> DoneTask(m_messages[k].m, FALSE)]
  /\ m_messages' = <<>> /\ op' = 0
  /\ UNCHANGED <<transport, pushes, written, m_state, broken, wire, results>>

\* flush(operation_aborted): the socket was closed, no handler is called.
FlushAborted ==
  /\ op > 0 /\ ~Open
  /\ op' = 0
  /\ UNCHANGED <<transport, tasks, pushes, written, m_messages, m_state, broken, wire, results>>

-----------------------------------------------------------------------------
(* session_t *)

\* Mutant: an idle stream is written to from any thread.
DispatchWhenIdle(t, m) ==
  IF t = Io \/ m_state = "idle" THEN Write(m, tasks)
  ELSE tasks' = Append(tasks, PushTask(m)) /\ UNCHANGED <<written, writerVars, wire>>

\* io_service.dispatch(): inline on the engine thread, queued elsewhere.
Dispatch(t, m) ==
  IF t = Io THEN Write(m, tasks)
  ELSE tasks' = Append(tasks, PushTask(m)) /\ UNCHANGED <<written, writerVars, wire>>

\* push(message); without a transport it throws and nothing happens.
Push(t) ==
  /\ transport
  /\ pushes[t] < MaxPush
  /\ pushes' = [pushes EXCEPT ![t] = @ + 1]
  /\ Dispatch(t, [from |-> t, n |-> pushes[t] + 1])
  /\ UNCHANGED <<transport, broken, results>>

\* The loop runs a queued push.
RunPushed ==
  /\ tasks # <<>> /\ Head(tasks).kind = "push"
  /\ Write(Head(tasks).m, Tail(tasks))
  /\ UNCHANGED <<transport, pushes, broken, results>>

\* The loop runs a handler: push_action_t::finalize(), which detaches the
\* session after an error.
RunDone ==
  /\ tasks # <<>> /\ Head(tasks).kind = "done"
  /\ tasks' = Tail(tasks)
  /\ results' = [results EXCEPT ![Head(tasks).m] = Append(@, Head(tasks).ok)]
  /\ transport' = (transport /\ Head(tasks).ok)
  /\ UNCHANGED <<pushes, written, writerVars, broken, wire>>

\* detach() by anyone else.
Detach ==
  /\ transport
  /\ transport' = FALSE
  /\ UNCHANGED <<tasks, pushes, written, writerVars, broken, wire, results>>

\* The peer goes away.
Break ==
  /\ ~broken
  /\ broken' = TRUE
  /\ UNCHANGED <<transport, tasks, pushes, written, writerVars, wire, results>>

WriterLoop == RunPushed \/ RunDone \/ Flush \/ FlushError \/ FlushAborted

OutboundNext == WriterLoop \/ Detach \/ Break \/ \E t \in Pushers : Push(t)

OutboundSpec == OutboundInit /\ [][OutboundNext]_outboundVars

\* The engine's loop runs what is queued, and the socket of a live peer
\* becomes writable again.
OutboundFairSpec == OutboundSpec /\ WF_outboundVars(RunPushed \/ RunDone) /\ WF_outboundVars(Flush \/ FlushError \/ FlushAborted)

-----------------------------------------------------------------------------
(* Properties *)

\* Everything the session was asked to write, byte by byte.
Chunks == [i \in DOMAIN written |-> [m |-> written[i], at |-> 1]]
EncodedBytes == Joined(Chunks, Len(written))

\* Messages written and then given up by flush() after an error.
Failed == \E m \in Message : \/ FALSE \in Range(results[m])
                             \/ DoneTask(m, FALSE) \in Range(tasks)

\* However the socket splits its writes, the bytes on the wire and those still
\* queued are exactly the messages in the order of write(): no byte is lost,
\* repeated or put inside another message.  After a failure the wire is a
\* prefix of that.
Conservation ==
  /\ Len(wire) <= Len(EncodedBytes) /\ \A i \in DOMAIN wire : wire[i] = EncodedBytes[i]
  /\ ~Failed => wire \o Remaining = EncodedBytes

Completed(m, ok) == ok \in Range(results[m]) \/ DoneTask(m, ok) \in Range(tasks)

\* A handler is called with success exactly when the socket has taken the
\* whole message, and no handler is called twice.
AckedIffSent ==
  \A m \in Message :
    /\ Completed(m, TRUE) <=> <<m, Size>> \in Range(wire)
    /\ ~(Completed(m, TRUE) /\ Completed(m, FALSE))
    /\ Len(results[m]) <= 1

\* What one thread pushes is written in the order it pushed it, although
\* pushes of the engine thread overtake the queue.
SenderOrder ==
  \A i, j \in DOMAIN written :
    i < j /\ written[i].from = written[j].from => written[i].n < written[j].n

\* Every push is completed, or the connection is lost: the pushes are bounded,
\* so in the end none is left open.
PushCompletes ==
  <>[](\A m \in Message :
         pushes[m.from] >= m.n => results[m] # <<>> \/ broken \/ ~transport)
=============================================================================
