---------------------------- MODULE EngineProofs ----------------------------
(***************************************************************************)
(* Proofs about the engine of a session. Session, for every number of      *)
(* threads, every bound on ids and every depth of the dispatch graphs:     *)
(* channels are opened, moved and closed as both ends agree. Engine, for   *)
(* any sessions and descriptors: a session that an attach has announced is *)
(* on its way into m_sessions or in it. Invocation, for any calls, events  *)
(* and middlewares, and any number of operations: a call is answered once, *)
(* by its slot or by the object that the slot returned, and what an object *)
(* sends is what its workers wrote, in order, as MessageStream asks for.   *)
(***************************************************************************)
EXTENDS Invocation, Engine, Session, SequenceFacts

-----------------------------------------------------------------------------
(* Invocation *)

\* What goes over the stream of a call.
Written == [mode : {"deferred", "streamed"}, type : {"value", "error", "chunk", "choke"}, n : Nat]

\* Where the worker of a call is, and what the slot returned.
Places == {"idle", "call", "body", "reply", "attach", "replay", "done"}
Results == {"none", "thrown", "recurrent", "terminal", "next"}

\* What the variables hold.
CallType ==
  /\ pc \in [Calls -> Places]
  /\ event \in [Calls -> Events \cup {"none"}]
  /\ result \in [Calls -> Results]
  /\ transports \in [Calls -> BOOLEAN]
  /\ m_upstream \in [Calls -> BOOLEAN]
  /\ state \in [Calls -> {"open", "closed"}]
  /\ m_operations \in [Calls -> Seq(Written)]
  /\ replayed \in [Calls -> Nat]
  /\ ops \in [Calls -> Nat]
  /\ accepted \in [Calls -> Seq(Written)]
  /\ delivered \in [Calls -> Seq(Written)]
  /\ DOMAIN answered = Calls
  /\ DOMAIN ran = Calls

\* How far process() has come with a call, and what was sent for it by then.
Progress(c) ==
  /\ pc[c] \in {"idle", "call"} => ran[c] = <<>> /\ accepted[c] = <<>>
  /\ pc[c] # "idle" => event[c] \in Events
  /\ pc[c] = "reply" => CallKind(c) \in {"blocking", "deferred", "streamed"}
  /\ pc[c] \in {"attach", "replay"} => Streaming(c)

\* The log of a queue without an upstream is all that was accepted, and what
\* was sent of it is its beginning; with an upstream nothing is held back.
Log(c) ==
  /\ ~m_upstream[c] =>
       /\ m_operations[c] = accepted[c]
       /\ replayed[c] = Len(delivered[c])
       /\ Len(delivered[c]) <= Len(accepted[c])
       /\ \A i \in 1..Len(delivered[c]) : delivered[c][i] = accepted[c][i]
  /\ m_upstream[c] =>
       /\ pc[c] = "done" /\ result[c] # "thrown" /\ Streaming(c)
       /\ delivered[c] = accepted[c]

\* Only operations of the call's own kind are accepted, and a streamed object
\* that is open has accepted no end.
Accepting(c) ==
  \A i \in 1..Len(accepted[c]) :
    /\ accepted[c][i].mode = CallKind(c)
    /\ EndsStream(accepted[c][i]) => state[c] = "closed"

\* The slot speaks last, and only for a queue that has sent nothing.
Answering(c) ==
  /\ pc[c] # "done" => answered[c] = <<>>
  /\ pc[c] = "done" /\ result[c] = "thrown" => answered[c] = <<>>
  /\ m_upstream[c] => answered[c] = <<>>
  /\ pc[c] \notin {"replay", "reply", "done"} => delivered[c] = <<>>
  /\ pc[c] = "reply" /\ transports[c] => delivered[c] = <<>>
  /\ pc[c] # "idle" /\ CallKind(c) = "blocking" => delivered[c] = <<>>
  /\ pc[c] = "done" /\ result[c] # "thrown" /\ ~m_upstream[c] /\ CallKind(c) \in {"blocking", "deferred", "streamed"} =>
       Len(answered[c]) = 1 /\ delivered[c] = <<>>

\* What one call keeps to, and all of them: the inductive invariant.
CallInv(c) == Progress(c) /\ Log(c) /\ Accepting(c) /\ Answering(c)

\* The inductive invariant of the calls.
InvocationInv == CallType /\ \A c \in Calls : CallInv(c)

-----------------------------------------------------------------------------

\* No call has begun.
LEMMA InvocationInitHolds == InvocationInit => InvocationInv
  BY SMTT(30) DEF InvocationInit, InvocationInv, CallType, CallInv, Progress, Log, Accepting, Answering, Written, Places, Results

\* The actions that touch no call.
LEMMA SlotsKeep ==
  ASSUME InvocationInv, UNCHANGED <<callVars, transports, queueVars, ops, accepted, sentVars>>
  PROVE  InvocationInv'
  BY SMTT(30) DEF InvocationInv, CallType, CallInv, Progress, Log, Accepting, Answering, CallKind, Streaming,
         callVars, queueVars, sentVars

\* A call is told from the others by what is indexed with it.
SameCall(d) ==
  /\ pc'[d] = pc[d] /\ event'[d] = event[d] /\ ran'[d] = ran[d] /\ result'[d] = result[d]
  /\ transports'[d] = transports[d] /\ state'[d] = state[d]
  /\ m_operations'[d] = m_operations[d] /\ replayed'[d] = replayed[d] /\ m_upstream'[d] = m_upstream[d]
  /\ accepted'[d] = accepted[d] /\ delivered'[d] = delivered[d] /\ answered'[d] = answered[d]

\* A step keeps the calls it does not touch.
LEMMA SameCallKeeps ==
  ASSUME NEW d \in Calls, CallInv(d), SameCall(d)
  PROVE  CallInv(d)'
  BY DEF SameCall, CallInv, Progress, Log, Accepting, Answering, CallKind, Streaming

\* process() finds the slot of the event, or throws.
LEMMA ProcessKeeps ==
  ASSUME InvocationInv, NEW c \in Calls, NEW e \in Events, Process(c, e)
  PROVE  InvocationInv'
<1>1. /\ pc[c] = "idle"
      /\ event' = [event EXCEPT ![c] = e]
      /\ UNCHANGED <<ran, transports, queueVars, ops, accepted, sentVars>>
  BY Zenon DEF Process
<1>2. \/ pc' = [pc EXCEPT ![c] = "call"] /\ result' = result
      \/ pc' = [pc EXCEPT ![c] = "done"] /\ result' = [result EXCEPT ![c] = "thrown"]
  BY Zenon DEF Process, Throw, BadArguments
<1>3. pc' \in [Calls -> Places] /\ result' \in [Calls -> Results]
  <2>1. pc \in [Calls -> Places] /\ result \in [Calls -> Results]
    BY Zenon DEF InvocationInv, CallType
  <2>2. QED
    BY Zenon, <1>2, <2>1 DEF Places, Results
<1>4. CallType'
  BY ZenonT(30), <1>1, <1>3 DEF InvocationInv, CallType, queueVars, sentVars
<1>5. CallInv(c)'
  BY <1>1, <1>2 DEF InvocationInv, CallType, queueVars, sentVars,
         CallInv, Progress, Log, Accepting, Answering, CallKind, Streaming
<1>6. ASSUME NEW d \in Calls \ {c} PROVE SameCall(d)
  BY ZenonT(30), <1>1, <1>2 DEF InvocationInv, CallType, queueVars, sentVars, SameCall
<1>7. QED
  BY Zenon, <1>4, <1>5, <1>6, SameCallKeeps DEF InvocationInv

\* A slot replies with the exception of its function, or passes it on.
LEMMA FailKeeps ==
  ASSUME InvocationInv, NEW c \in Calls, pc[c] \in {"call", "body"}, Fail(c),
         DOMAIN ran' = Calls, \A d \in Calls \ {c} : ran'[d] = ran[d],
         UNCHANGED <<event, transports, queueVars, ops, accepted, sentVars>>
  PROVE  InvocationInv'
<1>1. CallKind(c) \in {"blocking", "mute", "generic", "deferred", "streamed"}
  BY Zenon, InvocationAssumption DEF InvocationInv, CallType, CallInv, Progress, CallKind
<1>2. \/ /\ CallKind(c) \in {"blocking", "deferred", "streamed"}
         /\ pc' = [pc EXCEPT ![c] = "reply"] /\ result' = result
      \/ pc' = [pc EXCEPT ![c] = "done"] /\ result' = [result EXCEPT ![c] = "thrown"]
  BY Zenon, <1>1 DEF Fail, Throw
<1>3. pc' \in [Calls -> Places] /\ result' \in [Calls -> Results]
  <2>1. pc \in [Calls -> Places] /\ result \in [Calls -> Results]
    BY Zenon DEF InvocationInv, CallType
  <2>2. QED
    BY ZenonT(30), <1>2, <2>1 DEF Places, Results
<1>4. CallType'
  BY Zenon, <1>3 DEF InvocationInv, CallType, queueVars, sentVars
<1>5. CallInv(c)'
  <2>1. \/ /\ CallKind(c) \in {"blocking", "deferred", "streamed"}
           /\ pc'[c] = "reply" /\ result'[c] = result[c]
        \/ pc'[c] = "done" /\ result'[c] = "thrown"
    BY ZenonT(30), <1>2 DEF InvocationInv, CallType
  <2>2. CallInv(c) /\ m_upstream[c] \in BOOLEAN
    BY Zenon DEF InvocationInv, CallType
  <2>3. QED
    BY Zenon, <2>1, <2>2 DEF queueVars, sentVars,
         CallInv, Progress, Log, Accepting, Answering, CallKind, Streaming
<1>6. ASSUME NEW d \in Calls \ {c} PROVE SameCall(d)
  BY ZenonT(30), <1>2 DEF InvocationInv, CallType, queueVars, sentVars, SameCall
<1>7. QED
  BY Zenon, <1>4, <1>5, <1>6, SameCallKeeps DEF InvocationInv

\* The slot calls its middlewares and the handler.
LEMMA EnterKeeps ==
  ASSUME InvocationInv, NEW c \in Calls, Enter(c)
  PROVE  InvocationInv'
<1>1. pc[c] = "call" /\ UNCHANGED <<event, transports, queueVars, ops, accepted, sentVars>>
  BY Zenon DEF Enter
<1>2. DOMAIN ran' = Calls /\ \A d \in Calls \ {c} : ran'[d] = ran[d]
  BY Zenon DEF Enter, InvocationInv, CallType
<1>3. CASE pc' = [pc EXCEPT ![c] = "body"] /\ UNCHANGED result
  <2>1. pc' \in [Calls -> Places]
    BY Zenon, <1>3 DEF InvocationInv, CallType, Places
  <2>2. CallType'
    BY ZenonT(30), <1>1, <1>2, <1>3, <2>1 DEF InvocationInv, CallType, queueVars, sentVars
  <2>3. CallInv(c)'
    BY <1>1, <1>3 DEF InvocationInv, CallType, queueVars, sentVars, Places,
           CallInv, Progress, Log, Accepting, Answering, CallKind, Streaming
  <2>4. ASSUME NEW d \in Calls \ {c} PROVE SameCall(d)
    BY Zenon, <1>1, <1>2, <1>3 DEF InvocationInv, CallType, queueVars, sentVars, SameCall
  <2>5. QED
    BY Zenon, <2>2, <2>3, <2>4, SameCallKeeps DEF InvocationInv
<1>4. CASE Fail(c)
  BY Zenon, <1>1, <1>2, <1>4, FailKeeps
<1>5. QED
  BY Zenon, <1>3, <1>4 DEF Enter

\* The handler returns or throws.
LEMMA BodyKeeps ==
  ASSUME InvocationInv, NEW c \in Calls, Body(c)
  PROVE  InvocationInv'
<1>1. pc[c] = "body" /\ UNCHANGED <<event, ran, transports, queueVars, ops, accepted, sentVars>>
  BY Zenon DEF Body
<1>2. CASE Fail(c)
  BY Zenon, <1>1, <1>2, FailKeeps DEF InvocationInv, CallType
<1>3. CASE ~Fail(c)
  <2>1. \/ CallKind(c) = "blocking" /\ pc' = [pc EXCEPT ![c] = "reply"] /\ result' = result
        \/ Streaming(c) /\ pc' = [pc EXCEPT ![c] = "attach"] /\ result' = result
        \/ /\ CallKind(c) \in {"mute", "generic"}
           /\ pc' = [pc EXCEPT ![c] = "done"]
           /\ \E r \in {"recurrent", "terminal", "next"} : result' = [result EXCEPT ![c] = r]
    BY Zenon, <1>3 DEF Body, Return, GenericResult
  <2>2. pc' \in [Calls -> Places] /\ result' \in [Calls -> Results]
    <3>1. pc \in [Calls -> Places] /\ result \in [Calls -> Results]
      BY Zenon DEF InvocationInv, CallType
    <3>2. QED
      BY Zenon, <2>1, <3>1 DEF Places, Results
  <2>3. CallType'
    BY ZenonT(30), <1>1, <2>2 DEF InvocationInv, CallType, queueVars, sentVars
  <2>4. CallInv(c)'
    BY <1>1, <2>1 DEF InvocationInv, CallType, queueVars, sentVars,
           CallInv, Progress, Log, Accepting, Answering, CallKind, Streaming
  <2>5. ASSUME NEW d \in Calls \ {c} PROVE SameCall(d)
    BY ZenonT(30), <1>1, <2>1 DEF InvocationInv, CallType, queueVars, sentVars, SameCall
  <2>6. QED
    BY Zenon, <2>3, <2>4, <2>5, SameCallKeeps DEF InvocationInv
<1>4. QED
  BY Zenon, <1>2, <1>3

\* The slot sends its reply, or process() throws.
LEMMA ReplyKeeps ==
  ASSUME InvocationInv, NEW c \in Calls, Reply(c)
  PROVE  InvocationInv'
<1>1. pc[c] = "reply" /\ UNCHANGED <<event, ran, transports, queueVars, ops, accepted, delivered>>
  BY Zenon DEF Reply
<1>2. PICK r \in Results :
        /\ pc' = [pc EXCEPT ![c] = "done"] /\ result' = [result EXCEPT ![c] = r]
        /\ \/ /\ transports[c] /\ r # "thrown"
              /\ answered' = [answered EXCEPT ![c] = Append(@, OwnMessage(c))]
           \/ r = "thrown" /\ answered' = answered
  BY Zenon DEF Reply, Return, Throw, Results
<1>3. pc' \in [Calls -> Places] /\ result' \in [Calls -> Results]
  <2>1. pc \in [Calls -> Places] /\ result \in [Calls -> Results]
    BY Zenon DEF InvocationInv, CallType
  <2>2. QED
    BY Zenon, <1>2, <2>1 DEF Places
<1>4. CallType'
  <2>1. DOMAIN answered' = Calls
    BY Zenon, <1>2 DEF InvocationInv, CallType
  <2>2. QED
    BY Zenon, <1>1, <1>3, <2>1 DEF InvocationInv, CallType, queueVars
<1>5. CallInv(c)'
  <2>1. pc'[c] = "done" /\ result'[c] = r
    BY Zenon, <1>2 DEF InvocationInv, CallType
  <2>2. CallInv(c) /\ m_upstream[c] \in BOOLEAN
    BY Zenon DEF InvocationInv, CallType
  <2>3. \/ transports[c] /\ r # "thrown" /\ answered'[c] = Append(answered[c], OwnMessage(c))
        \/ r = "thrown" /\ answered'[c] = answered[c]
    BY Zenon, <1>2 DEF InvocationInv, CallType
  <2>4. answered[c] = <<>> /\ ~m_upstream[c]
    BY Zenon, <1>1, <2>2 DEF CallInv, Answering, Log, Streaming, CallKind
  <2>5. r # "thrown" => Len(answered'[c]) = 1
    <3>1. Len(Append(<<>>, OwnMessage(c))) = 1
      OBVIOUS
    <3>2. QED
      BY Zenon, <2>3, <2>4, <3>1
  <2>6. QED
    BY Zenon, <1>1, <2>1, <2>2, <2>3, <2>4, <2>5 DEF queueVars,
       CallInv, Progress, Log, Accepting, Answering, CallKind, Streaming
<1>6. ASSUME NEW d \in Calls \ {c} PROVE SameCall(d)
  BY Zenon, <1>1, <1>2 DEF InvocationInv, CallType, queueVars, SameCall
<1>7. QED
  BY Zenon, <1>4, <1>5, <1>6, SameCallKeeps DEF InvocationInv

\* attach() takes the mutex of the object ...
LEMMA AttachKeeps ==
  ASSUME InvocationInv, NEW c \in Calls, Attach(c)
  PROVE  InvocationInv'
<1>1. /\ pc[c] = "attach" /\ pc' = [pc EXCEPT ![c] = "replay"]
      /\ UNCHANGED <<event, ran, result, transports, queueVars, ops, accepted, sentVars>>
  BY Zenon DEF Attach
<1>2. CallType'
  <2>1. pc' \in [Calls -> Places]
    BY Zenon, <1>1 DEF InvocationInv, CallType, Places
  <2>2. QED
    BY Zenon, <1>1, <2>1 DEF InvocationInv, CallType, queueVars, sentVars
<1>3. CallInv(c)'
  <2>1. pc'[c] = "replay" /\ CallInv(c)
    BY Zenon, <1>1 DEF InvocationInv, CallType
  <2>2. QED
    BY Zenon, <1>1, <2>1 DEF queueVars, sentVars,
       CallInv, Progress, Log, Accepting, Answering, CallKind, Streaming
<1>4. ASSUME NEW d \in Calls \ {c} PROVE SameCall(d)
  BY Zenon, <1>1 DEF InvocationInv, CallType, queueVars, sentVars, SameCall
<1>5. QED
  BY Zenon, <1>2, <1>3, <1>4, SameCallKeeps DEF InvocationInv

\* ... sends the log ...
LEMMA ReplayKeeps ==
  ASSUME InvocationInv, NEW c \in Calls, Replay(c)
  PROVE  InvocationInv'
<1>1. /\ pc[c] = "replay" /\ replayed[c] < Len(m_operations[c])
      /\ UNCHANGED <<event, ran, result, transports, state, m_operations, m_upstream, ops, accepted, answered>>
  BY Zenon DEF Replay
<1>2. CallInv(c) /\ m_upstream[c] \in BOOLEAN /\ transports[c] \in BOOLEAN
  BY Zenon DEF InvocationInv, CallType
<1>3. /\ ~m_upstream[c] /\ m_operations[c] = accepted[c] /\ replayed[c] = Len(delivered[c])
      /\ accepted[c] \in Seq(Written) /\ delivered[c] \in Seq(Written)
  BY Zenon, <1>1, <1>2 DEF CallInv, Log, InvocationInv, CallType
<1>4. CASE /\ delivered' = [delivered EXCEPT ![c] = Append(@, m_operations[c][replayed[c] + 1])]
           /\ replayed' = [replayed EXCEPT ![c] = @ + 1]
           /\ UNCHANGED pc
  <2>1. /\ delivered'[c] = Append(delivered[c], accepted[c][Len(delivered[c]) + 1])
        /\ replayed'[c] = Len(delivered[c]) + 1 /\ pc'[c] = pc[c]
    BY Zenon, <1>3, <1>4 DEF InvocationInv, CallType
  <2>2. accepted[c][Len(delivered[c]) + 1] \in Written
    BY SMTT(30), <1>1, <1>3
  <2>3. delivered'[c] \in Seq(Written) /\ Len(delivered'[c]) = Len(delivered[c]) + 1
    BY SMTT(30), <2>1, <2>2, <1>3
  <2>4. CallType'
    BY SMTT(30), <1>1, <1>3, <1>4, <2>2 DEF InvocationInv, CallType
  <2>5. \A i \in 1..Len(delivered'[c]) : delivered'[c][i] = accepted[c][i]
    BY SMTT(30), <1>1, <1>2, <1>3, <2>1, <2>2, <2>3 DEF CallInv, Log, Streaming, CallKind
  <2>6. Log(c)'
    BY SMTT(30), <1>1, <1>3, <2>1, <2>3, <2>5 DEF Log, Streaming, CallKind
  <2>7. Progress(c)' /\ Accepting(c)' /\ Answering(c)'
    BY Zenon, <1>1, <1>2, <1>3, <2>1 DEF CallInv, Progress, Accepting, Answering, CallKind, Streaming
  <2>8. ASSUME NEW d \in Calls \ {c} PROVE SameCall(d)
    BY Zenon, <1>1, <1>4 DEF InvocationInv, CallType, SameCall
  <2>9. QED
    BY Zenon, <2>4, <2>6, <2>7, <2>8, SameCallKeeps DEF InvocationInv, CallInv
<1>5. CASE ~transports[c] /\ pc' = [pc EXCEPT ![c] = "reply"] /\ UNCHANGED <<delivered, replayed>>
  <2>1. pc' \in [Calls -> Places] /\ pc'[c] = "reply"
    BY Zenon, <1>5 DEF InvocationInv, CallType, Places
  <2>2. CallType'
    BY Zenon, <1>1, <1>5, <2>1 DEF InvocationInv, CallType
  <2>3. CallInv(c)'
    BY Zenon, <1>1, <1>2, <1>3, <1>5, <2>1 DEF CallInv, Log, Progress, Accepting, Answering, CallKind, Streaming
  <2>4. ASSUME NEW d \in Calls \ {c} PROVE SameCall(d)
    BY Zenon, <1>1, <1>5 DEF InvocationInv, CallType, SameCall
  <2>5. QED
    BY Zenon, <2>2, <2>3, <2>4, SameCallKeeps DEF InvocationInv
<1>6. QED
  BY Zenon, <1>4, <1>5 DEF Replay

\* ... and sets the upstream.
LEMMA AttachedKeeps ==
  ASSUME InvocationInv, NEW c \in Calls, Attached(c)
  PROVE  InvocationInv'
<1>1. /\ pc[c] = "replay" /\ replayed[c] = Len(m_operations[c])
      /\ m_operations' = [m_operations EXCEPT ![c] = <<>>]
      /\ replayed' = [replayed EXCEPT ![c] = 0]
      /\ m_upstream' = [m_upstream EXCEPT ![c] = TRUE]
      /\ UNCHANGED <<event, ran, transports, state, ops, accepted, sentVars>>
      /\ Return(c)
  BY Zenon DEF Attached
<1>2. /\ pc' = [pc EXCEPT ![c] = "done"]
      /\ result' = [result EXCEPT ![c] = "recurrent"] \/ result' = [result EXCEPT ![c] = "terminal"]
  BY Zenon, <1>1 DEF Return
<1>3. CallInv(c) /\ m_upstream[c] \in BOOLEAN
  BY Zenon DEF InvocationInv, CallType
<1>4. /\ ~m_upstream[c] /\ Len(accepted[c]) = Len(delivered[c])
      /\ accepted[c] \in Seq(Written) /\ delivered[c] \in Seq(Written)
      /\ \A i \in 1..Len(delivered[c]) : delivered[c][i] = accepted[c][i]
  BY Zenon, <1>1, <1>3 DEF CallInv, Log, InvocationInv, CallType
<1>5. delivered[c] = accepted[c]
  BY <1>4
<1>6. pc' \in [Calls -> Places] /\ result' \in [Calls -> Results]
  <2>1. pc \in [Calls -> Places] /\ result \in [Calls -> Results]
    BY Zenon DEF InvocationInv, CallType
  <2>2. QED
    BY Zenon, <1>2, <2>1 DEF Places, Results
<1>7. CallType'
  <2>1. m_operations' \in [Calls -> Seq(Written)] /\ replayed' \in [Calls -> Nat]
    BY <1>1 DEF InvocationInv, CallType
  <2>2. m_upstream' \in [Calls -> BOOLEAN]
    BY Zenon, <1>1 DEF InvocationInv, CallType
  <2>3. QED
    BY Zenon, <1>1, <1>6, <2>1, <2>2 DEF InvocationInv, CallType, sentVars
<1>8. CallInv(c)'
  <2>1. pc'[c] = "done" /\ result'[c] # "thrown" /\ m_upstream'[c]
    BY Zenon, <1>1, <1>2 DEF InvocationInv, CallType
  <2>2. QED
    BY Zenon, <1>1, <1>3, <1>4, <1>5, <2>1 DEF sentVars,
       CallInv, Log, Progress, Accepting, Answering, CallKind, Streaming
<1>9. ASSUME NEW d \in Calls \ {c} PROVE SameCall(d)
  BY Zenon, <1>1, <1>2 DEF InvocationInv, CallType, SameCall, sentVars
<1>10. QED
  BY Zenon, <1>7, <1>8, <1>9, SameCallKeeps DEF InvocationInv

\* The client goes away.
LEMMA DisconnectKeeps ==
  ASSUME InvocationInv, NEW c \in Calls, Disconnect(c)
  PROVE  InvocationInv'
<1>1. /\ transports' = [transports EXCEPT ![c] = FALSE]
      /\ UNCHANGED <<callVars, queueVars, ops, accepted, sentVars>>
  BY Zenon DEF Disconnect
<1>2. CallType'
  BY Zenon, <1>1 DEF InvocationInv, CallType, callVars, queueVars, sentVars
<1>3. CallInv(c)'
  <2>1. CallInv(c) /\ ~transports'[c]
    BY Zenon, <1>1 DEF InvocationInv, CallType
  <2>2. QED
    BY Zenon, <1>1, <2>1 DEF callVars, queueVars, sentVars,
       CallInv, Log, Progress, Accepting, Answering, CallKind, Streaming
<1>4. ASSUME NEW d \in Calls \ {c} PROVE SameCall(d)
  BY Zenon, <1>1 DEF InvocationInv, CallType, SameCall, callVars, queueVars, sentVars
<1>5. QED
  BY Zenon, <1>2, <1>3, <1>4, SameCallKeeps DEF InvocationInv

\* A worker's operation: it is refused, or appended with what the kind of the
\* call and the state of its object allow.
LEMMA WorkerKeeps ==
  ASSUME InvocationInv, NEW c \in Calls, Usable(c), Streaming(c), Worker(c),
         NEW m \in Written, m.mode = CallKind(c),
         NEW st \in {"open", "closed"}, state' = [state EXCEPT ![c] = st],
         state[c] = "closed" => st = "closed", EndsStream(m) => st = "closed",
         \/ QueueAppend(c, m)
         \/ UNCHANGED <<m_operations, accepted, delivered>>
  PROVE  InvocationInv'
<1>1. UNCHANGED <<callVars, transports, replayed, m_upstream, answered>> /\ ops' = [ops EXCEPT ![c] = @ + 1]
  BY Zenon DEF Worker
<1>2. CallInv(c) /\ m_upstream[c] \in BOOLEAN /\ accepted[c] \in Seq(Written) /\ delivered[c] \in Seq(Written)
  BY Zenon DEF InvocationInv, CallType
<1>3. pc[c] \notin {"idle", "call", "replay"}
  BY ZenonT(30), <1>2 DEF Usable, Unlocked, CallInv, Progress
<1>4. ASSUME NEW d \in Calls \ {c} PROVE SameCall(d)
  BY ZenonT(30), <1>1 DEF InvocationInv, CallType, SameCall, callVars, QueueAppend, Accepted
<1>5. state' \in [Calls -> {"open", "closed"}] /\ ops' \in [Calls -> Nat] /\ state'[c] = st
  BY <1>1 DEF InvocationInv, CallType
<1>6. CASE UNCHANGED <<m_operations, accepted, delivered>>
  <2>1. CallType'
    BY Zenon, <1>1, <1>5, <1>6 DEF InvocationInv, CallType, callVars
  <2>2. CallInv(c)'
    BY ZenonT(30), <1>1, <1>2, <1>5, <1>6 DEF callVars, CallInv, Log, Progress, Accepting, Answering, CallKind, Streaming
  <2>3. QED
    BY Zenon, <1>4, <2>1, <2>2, SameCallKeeps DEF InvocationInv
<1>7. CASE /\ Accepted(c, m)
           /\ \/ /\ ~m_upstream[c] /\ m_operations' = [m_operations EXCEPT ![c] = Append(@, m)]
                 /\ UNCHANGED delivered
              \/ /\ m_upstream[c] /\ delivered' = [delivered EXCEPT ![c] = Append(@, m)]
                 /\ UNCHANGED m_operations
  <2>1. /\ accepted' \in [Calls -> Seq(Written)] /\ delivered' \in [Calls -> Seq(Written)]
        /\ m_operations' \in [Calls -> Seq(Written)]
    <3>1. /\ accepted \in [Calls -> Seq(Written)] /\ delivered \in [Calls -> Seq(Written)]
          /\ m_operations \in [Calls -> Seq(Written)]
      BY Zenon DEF InvocationInv, CallType
    <3>2. accepted' \in [Calls -> Seq(Written)]
      BY <1>7, <3>1 DEF Accepted
    <3>3. CASE m_operations' = [m_operations EXCEPT ![c] = Append(@, m)] /\ UNCHANGED delivered
      BY <3>1, <3>2, <3>3
    <3>4. CASE delivered' = [delivered EXCEPT ![c] = Append(@, m)] /\ UNCHANGED m_operations
      BY SMTT(30), <3>1, <3>2, <3>4
    <3>5. QED
      BY Zenon, <1>7, <3>3, <3>4
  <2>2. CallType'
    BY Zenon, <1>1, <1>5, <2>1 DEF InvocationInv, CallType, callVars
  <2>3. accepted'[c] = Append(accepted[c], m)
    BY Zenon, <1>7 DEF InvocationInv, CallType, Accepted
  <2>4. \/ ~m_upstream[c] /\ m_operations'[c] = Append(m_operations[c], m) /\ delivered'[c] = delivered[c]
        \/ m_upstream[c] /\ delivered'[c] = Append(delivered[c], m)
    BY ZenonT(30), <1>7 DEF InvocationInv, CallType
  <2>5. Log(c)'
    <3>1. /\ \A i \in 1..Len(accepted[c]) : accepted'[c][i] = accepted[c][i]
          /\ Len(accepted'[c]) = Len(accepted[c]) + 1
      BY SMTT(30), <1>2, <2>3
    <3>2. CASE ~m_upstream[c]
      BY SMTT(30), <1>1, <1>2, <2>3, <2>4, <3>1, <3>2 DEF CallInv, Log, Streaming, CallKind
    <3>3. CASE m_upstream[c]
      BY Zenon, <1>1, <1>2, <2>3, <2>4, <3>3 DEF callVars, CallInv, Log, Streaming, CallKind
    <3>4. QED
      BY Zenon, <3>2, <3>3
  <2>6. Accepting(c)'
    <3>1. /\ Len(accepted'[c]) = Len(accepted[c]) + 1 /\ Len(accepted[c]) \in Nat
          /\ accepted'[c][Len(accepted[c]) + 1] = m
          /\ \A i \in 1..Len(accepted[c]) : accepted'[c][i] = accepted[c][i]
      BY SMTT(30), <1>2, <2>3
    <3>2. \A i \in 1..Len(accepted'[c]) : i \in 1..Len(accepted[c]) \/ i = Len(accepted[c]) + 1
      BY SMTT(30), <3>1
    <3>3. CallKind(c)' = CallKind(c) /\ state'[c] = st
      BY Zenon, <1>1, <1>5 DEF callVars, CallKind
    <3>4. QED
      BY ZenonT(30), <1>2, <3>1, <3>2, <3>3 DEF CallInv, Accepting
  <2>7. Progress(c)' /\ Answering(c)'
    BY Zenon, <1>1, <1>2, <1>3, <2>4 DEF callVars, CallInv, Log, Progress, Answering, CallKind, Streaming
  <2>8. QED
    BY Zenon, <1>4, <2>2, <2>5, <2>6, <2>7, SameCallKeeps DEF InvocationInv, CallInv
<1>8. QED
  BY Zenon, <1>6, <1>7 DEF QueueAppend

\* The operations of deferred and streamed objects.
LEMMA WorkersKeep ==
  ASSUME InvocationInv, NEW c \in Calls, Deferred(c) \/ StreamWrite(c) \/ StreamEnd(c)
  PROVE  InvocationInv'
<1>1. ops[c] \in Nat /\ state \in [Calls -> {"open", "closed"}]
  BY Zenon DEF InvocationInv, CallType
<1>2. CASE Deferred(c)
  <2>1. PICK type \in {"value", "error"} : QueueAppend(c, Frozen(c, type)) /\ Worker(c)
    BY Zenon, <1>2 DEF Deferred
  <2>2. /\ Frozen(c, type) \in Written /\ Frozen(c, type).mode = CallKind(c)
        /\ ~EndsStream(Frozen(c, type)) /\ Usable(c) /\ Streaming(c)
    BY <1>1, <1>2 DEF Deferred, Frozen, Written, EndsStream, Streaming
  <2>3. state' = [state EXCEPT ![c] = state[c]] /\ state[c] \in {"open", "closed"}
    BY Zenon, <1>1, <1>2 DEF Deferred
  <2>4. QED
    BY Zenon, <2>1, <2>2, <2>3, WorkerKeeps
<1>3. CASE StreamWrite(c)
  <2>1. /\ Frozen(c, "chunk") \in Written /\ Frozen(c, "chunk").mode = CallKind(c)
        /\ ~EndsStream(Frozen(c, "chunk")) /\ Usable(c) /\ Streaming(c)
    BY <1>1, <1>3 DEF StreamWrite, Frozen, Written, EndsStream, Streaming
  <2>2. state' = [state EXCEPT ![c] = state[c]] /\ state[c] \in {"open", "closed"}
    BY Zenon, <1>1, <1>3 DEF StreamWrite
  <2>3. /\ Worker(c)
        /\ QueueAppend(c, Frozen(c, "chunk")) \/ UNCHANGED <<m_operations, accepted, delivered>>
    BY Zenon, <1>3 DEF StreamWrite
  <2>4. QED
    BY Zenon, <2>1, <2>2, <2>3, WorkerKeeps
<1>4. CASE StreamEnd(c)
  <2>1. PICK type \in {"choke", "error"} :
          QueueAppend(c, Frozen(c, type)) \/ UNCHANGED <<m_operations, accepted, delivered>>
    BY Zenon, <1>4 DEF StreamEnd
  <2>2. /\ Frozen(c, type) \in Written /\ Frozen(c, type).mode = CallKind(c)
        /\ Usable(c) /\ Streaming(c)
    BY <1>1, <1>4 DEF StreamEnd, Frozen, Written, Streaming
  <2>3. Worker(c) /\ state' = [state EXCEPT ![c] = "closed"] /\ "closed" \in {"open", "closed"}
    BY Zenon, <1>4 DEF StreamEnd
  <2>4. QED
    BY Zenon, <2>1, <2>2, <2>3, WorkerKeeps
<1>5. QED
  BY Zenon, <1>2, <1>3, <1>4

\* The invariant above holds in every reachable state.
THEOREM InvocationInvariant == InvocationSpec => []InvocationInv
<1>1. InvocationInv /\ [InvocationNext]_invocationVars => InvocationInv'
  <2> SUFFICES ASSUME InvocationInv, [InvocationNext]_invocationVars PROVE InvocationInv'
    BY Zenon
  <2>2. CASE UNCHANGED invocationVars
    BY Zenon, <2>2, SlotsKeep DEF invocationVars
  <2>3. ASSUME NEW e \in Events, Drop(e) \/ \E ms \in Middlewares : On(e, ms) PROVE InvocationInv'
    BY Zenon, <2>3, SlotsKeep DEF Drop, On
  <2>4. CASE Halt
    BY Zenon, <2>4, SlotsKeep DEF Halt
  <2>5. ASSUME NEW c \in Calls, Engine(c) PROVE InvocationInv'
    BY Zenon, <2>5, EnterKeeps, BodyKeeps, ReplyKeeps, AttachKeeps, ReplayKeeps, AttachedKeeps DEF Engine
  <2>6. ASSUME NEW c \in Calls, Deferred(c) \/ StreamWrite(c) \/ StreamEnd(c) PROVE InvocationInv'
    BY Zenon, <2>6, WorkersKeep
  <2>7. ASSUME NEW c \in Calls, Disconnect(c) PROVE InvocationInv'
    BY Zenon, <2>7, DisconnectKeeps
  <2>8. ASSUME NEW c \in Calls, NEW e \in Events, Process(c, e) PROVE InvocationInv'
    BY Zenon, <2>8, ProcessKeeps
  <2>9. QED
    BY Zenon, <2>2, <2>3, <2>4, <2>5, <2>6, <2>7, <2>8 DEF InvocationNext
<1>2. QED
  BY <1>1, InvocationInitHolds, PTL DEF InvocationSpec

\* However the handler, its middlewares, its workers and the disconnection of
\* the client interleave: a call that process() returns from was answered by
\* the slot or by the returned object, and one that it throws from was not
\* answered by the slot.
THEOREM CallsAnsweredOnce == InvocationSpec => []AnsweredOnce
<1>1. InvocationInv => AnsweredOnce
  <2> SUFFICES ASSUME InvocationInv, NEW c \in Calls, pc[c] = "done" PROVE AnsweredOnce!(c)!2
    BY Zenon DEF AnsweredOnce
  <2>1. Answering(c) /\ Log(c) /\ m_upstream[c] \in BOOLEAN
    BY Zenon DEF InvocationInv, CallType, CallInv
  <2>2. QED
    BY Zenon, <2>1 DEF Answering, Log, Streaming
<1>2. QED
  BY <1>1, InvocationInvariant, PTL

-----------------------------------------------------------------------------
(* The message queue implements the reply stream. *)

\* The stream starts empty.
LEMMA StreamInitHolds == InvocationInit => Stream!StreamInit
  BY Zenon DEF InvocationInit, Stream!StreamInit

\* A step of the replay is a delivery of the abstract stream, or none of its steps.
LEMMA ReplayDelivers ==
  ASSUME InvocationInv, NEW c \in Calls, Replay(c)
  PROVE  [Stream!StreamNext]_(Stream!streamVars)
<1>1. /\ pc[c] = "replay" /\ replayed[c] < Len(m_operations[c]) /\ UNCHANGED accepted
  BY Zenon DEF Replay
<1>2. CallInv(c) /\ m_upstream[c] \in BOOLEAN
  BY Zenon DEF InvocationInv, CallType
<1>3. /\ ~m_upstream[c] /\ m_operations[c] = accepted[c] /\ replayed[c] = Len(delivered[c])
  BY Zenon, <1>1, <1>2 DEF CallInv, Log, Streaming, CallKind
<1>4. CASE delivered' = [delivered EXCEPT ![c] = Append(@, m_operations[c][replayed[c] + 1])]
  <2>1. Stream!Deliver(c)
    BY Zenon, <1>1, <1>3, <1>4 DEF Stream!Deliver, InvocationInv, CallType
  <2>2. QED
    BY Zenon, <1>1, <2>1 DEF Stream!StreamNext
<1>5. CASE UNCHANGED delivered
  BY Zenon, <1>1, <1>5 DEF Stream!streamVars
<1>6. QED
  BY Zenon, <1>4, <1>5 DEF Replay

\* An append is a step of the abstract stream, or none.
LEMMA AppendAccepts ==
  ASSUME InvocationInv, NEW c \in Calls, NEW m \in Written, QueueAppend(c, m),
         Streaming(c), CallKind(c) = "deferred" \/ state[c] # "closed"
  PROVE  [Stream!StreamNext]_(Stream!streamVars)
<1>1. CallInv(c) /\ m_upstream[c] \in BOOLEAN /\ accepted[c] \in Seq(Written)
  BY Zenon DEF InvocationInv, CallType
<1>2. ~Stream!Ended(c)
  BY <1>1 DEF CallInv, Accepting, Stream!Ended, EndsStream
<1>3. ASSUME Accepted(c, m) PROVE Stream!Accept(c) /\ accepted'[c] = Append(accepted[c], m)
  <2>1. /\ accepted'[c] = Append(accepted[c], m)
        /\ \A d \in Calls \ {c} : accepted'[d] = accepted[d]
    BY Zenon, <1>3 DEF Accepted, InvocationInv, CallType
  <2>2. /\ Len(accepted'[c]) = Len(accepted[c]) + 1
        /\ SubSeq(accepted'[c], 1, Len(accepted[c])) = accepted[c]
    BY <1>1, <2>1
  <2>3. QED
    BY Zenon, <1>2, <2>1, <2>2 DEF Stream!Accept
<1>4. CASE Accepted(c, m) /\ UNCHANGED delivered
  BY Zenon, <1>3, <1>4 DEF Stream!StreamNext
<1>5. CASE m_upstream[c] /\ Accepted(c, m) /\ delivered' = [delivered EXCEPT ![c] = Append(@, m)]
  <2>1. delivered[c] = accepted[c]
    BY Zenon, <1>1, <1>5 DEF CallInv, Log, Streaming, CallKind
  <2>2. accepted'[c][Len(delivered[c]) + 1] = m /\ Len(delivered[c]) < Len(accepted'[c])
    BY SMTT(30), <1>1, <1>3, <1>5, <2>1
  <2>3. Stream!Deliver(c)
    BY Zenon, <1>5, <2>2 DEF Stream!Deliver
  <2>4. QED
    BY Zenon, <1>3, <1>5, <2>3 DEF Stream!StreamNext
<1>6. CASE UNCHANGED <<accepted, delivered>>
  BY Zenon, <1>6 DEF Stream!streamVars
<1>7. QED
  BY Zenon, <1>4, <1>5, <1>6 DEF QueueAppend

\* Every interleaving of early writes, attach(), later writes and disconnection
\* is a behaviour of the reply stream: what was accepted is delivered in that
\* order, without holes or repetitions, and nothing is accepted behind the end.
THEOREM InvocationImplementsStream == InvocationSpec => ImplementsStream
<1>1. InvocationInv /\ [InvocationNext]_invocationVars => [Stream!StreamNext]_(Stream!streamVars)
  <2> SUFFICES ASSUME InvocationInv, [InvocationNext]_invocationVars,
                      ~UNCHANGED <<accepted, delivered>>
               PROVE  [Stream!StreamNext]_(Stream!streamVars)
    BY Zenon DEF Stream!streamVars
  <2>2. PICK c \in Calls : Replay(c) \/ Deferred(c) \/ StreamWrite(c) \/ StreamEnd(c)
    BY ZenonT(30) DEF InvocationNext, invocationVars, sentVars, Drop, On, Halt, Engine, Enter, Body, Reply,
                Attach, Attached, Disconnect, Process
  <2>3. ops[c] \in Nat /\ state[c] \in {"open", "closed"}
    BY Zenon DEF InvocationInv, CallType
  <2>4. CASE Replay(c)
    BY Zenon, <2>4, ReplayDelivers
  <2>5. CASE Deferred(c)
    <3>1. PICK type \in {"value", "error"} : QueueAppend(c, Frozen(c, type))
      BY Zenon, <2>5 DEF Deferred
    <3>2. Frozen(c, type) \in Written /\ CallKind(c) = "deferred"
      BY <2>3, <2>5 DEF Deferred, Frozen, Written
    <3>3. QED
      BY Zenon, <3>1, <3>2, AppendAccepts DEF Streaming
  <2>6. CASE StreamWrite(c) \/ StreamEnd(c)
    <3>1. PICK type \in {"chunk", "choke", "error"} : QueueAppend(c, Frozen(c, type)) /\ state[c] # "closed"
      BY Zenon, <2>6 DEF StreamWrite, StreamEnd
    <3>2. Frozen(c, type) \in Written /\ CallKind(c) = "streamed"
      BY <2>3, <2>6 DEF StreamWrite, StreamEnd, Frozen, Written
    <3>3. QED
      BY Zenon, <3>1, <3>2, AppendAccepts DEF Streaming
  <2>7. QED
    BY Zenon, <2>2, <2>4, <2>5, <2>6
<1>2. QED
  BY <1>1, StreamInitHolds, InvocationInvariant, PTL DEF InvocationSpec, ImplementsStream, Stream!StreamSpec

-----------------------------------------------------------------------------
(* Engine *)

\* What waits in the loop's queue.
Kinds == {"none", "insert", "pull", "eof", "gc", "gc_tick", "stats", "stop", "cancel"}
HandlerSet == [kind : Kinds, session : Sessions \cup {Null}, fd : Fds \cup {Null}]

\* What the variables hold.
EngineTypeOK ==
  /\ queue \in Seq(HandlerSet)
  /\ m_sessions \in [Fds -> Sessions \cup {Null}]
  /\ fd \in [Sessions -> Fds \cup {Null}]
  /\ attaching \in [Attachers -> HandlerSet]

\* A registration under descriptor d.
Inserts(h, d) == h.kind = "insert" /\ h.fd = d

\* No attach is about to register descriptor d.
NoneAttaching(d) == \A a \in Attachers : ~Inserts(attaching[a], d)

\* Where session s with descriptor d stands: its registration is still to be
\* posted, or is the last one of d in the queue, or it has run and none of d
\* is on its way.
Posting(s, d) == \E a \in Attachers : attaching[a] = Handler("insert", s, d)
Posted(s, d) ==
  /\ NoneAttaching(d)
  /\ \E i \in DOMAIN queue :
       /\ queue[i] = Handler("insert", s, d)
       /\ \A j \in DOMAIN queue : j > i => ~Inserts(queue[j], d)
Entered(s, d) ==
  /\ NoneAttaching(d)
  /\ m_sessions[d] = s
  /\ \A i \in DOMAIN queue : ~Inserts(queue[i], d)

Place(s, d) == Posting(s, d) \/ Posted(s, d) \/ Entered(s, d)

\* A session that has a descriptor is at one of the three places.
Standing(s) == \A d \in Fds : fd[s] = d => Place(s, d)

\* The inductive invariant of the engine.
EngineInv == EngineTypeOK /\ \A s \in Sessions : Standing(s)

\* It holds before the first attach.
LEMMA EngineStart == EngineInit => EngineInv
<1> SUFFICES ASSUME EngineInit PROVE EngineInv
  BY Zenon
<1>1. \A k \in Kinds : Handler(k, Null, Null) \in HandlerSet
  BY Zenon DEF Handler, HandlerSet
<1>2. Post(<<>>, "stats") \in Seq(HandlerSet)
  BY <1>1, Appended DEF Post, Kinds
<1>3. queue \in Seq(HandlerSet)
  BY Zenon, <1>1, <1>2, Appended DEF EngineInit, Post, Kinds
<1>4. EngineTypeOK
  BY Zenon, <1>1, <1>3 DEF EngineInit, EngineTypeOK, Kinds
<1>5. QED
  BY Zenon, <1>4, EngineAssumption DEF EngineInit, EngineInv, Standing

\* What a step leaves of the place of a session with descriptor d.
LEMMA QueueGrows ==
  ASSUME EngineTypeOK, NEW h \in HandlerSet, queue' = Append(queue, h), h.kind # "insert",
         NEW s, NEW d, UNCHANGED <<attaching, m_sessions>>,
         Place(s, d)
  PROVE  queue' \in Seq(HandlerSet) /\ Place(s, d)'
<1>1. /\ queue' \in Seq(HandlerSet) /\ DOMAIN queue = 1..Len(queue) /\ Len(queue) \in Nat
      /\ DOMAIN queue' = DOMAIN queue \cup {Len(queue) + 1} /\ Len(queue) + 1 \notin DOMAIN queue
      /\ queue'[Len(queue) + 1] = h
      /\ \A i \in DOMAIN queue : queue'[i] = queue[i]
  BY Appended DEF EngineTypeOK
<1>2. NoneAttaching(d) => NoneAttaching(d)'
  BY Zenon DEF NoneAttaching, Inserts
<1>3. ~Inserts(h, d)
  BY Zenon DEF Inserts
<1>4. CASE Posting(s, d)
  BY Zenon, <1>1, <1>4 DEF Posting, Place
<1>5. CASE Posted(s, d)
  <2>1. PICK i \in DOMAIN queue : /\ queue[i] = Handler("insert", s, d)
                                  /\ \A j \in DOMAIN queue : j > i => ~Inserts(queue[j], d)
    BY Zenon, <1>5 DEF Posted
  <2>2. queue'[i] = Handler("insert", s, d) /\ \A j \in DOMAIN queue' : j > i => ~Inserts(queue'[j], d)
    BY Zenon, <1>1, <1>3, <2>1
  <2>3. QED
    BY Zenon, <1>1, <1>2, <1>5, <2>2 DEF Posted, Inserts, Place
<1>6. CASE Entered(s, d)
  BY Zenon, <1>1, <1>2, <1>3, <1>6 DEF Entered, Inserts, Place
<1>7. QED
  BY Zenon, <1>1, <1>4, <1>5, <1>6 DEF Place
\* Running the first handler leaves the registrations behind it.
LEMMA QueueShrinks ==
  ASSUME EngineTypeOK, queue # <<>>, queue' = Tail(queue), Head(queue).kind # "insert",
         NEW s, NEW d, UNCHANGED attaching, m_sessions[d] = s => m_sessions'[d] = s,
         Place(s, d)
  PROVE  Place(s, d)'
<1>1. /\ DOMAIN queue = 1..Len(queue) /\ Len(queue) \in Nat
      /\ Head(queue) = queue[1] /\ DOMAIN queue' = 1..Len(queue) - 1
      /\ \A i \in 1..Len(queue) - 1 : i + 1 \in DOMAIN queue /\ queue'[i] = queue[i + 1]
      /\ \A i \in DOMAIN queue : i = 1 \/ (i - 1 \in 1..Len(queue) - 1 /\ queue'[i - 1] = queue[i])
  BY HeadTail DEF EngineTypeOK
<1>2. NoneAttaching(d) => NoneAttaching(d)'
  BY Zenon DEF NoneAttaching, Inserts
<1>4. CASE Posting(s, d)
  BY Zenon, <1>4 DEF Posting, Place
<1>5. CASE Posted(s, d)
  <2>1. PICK i \in DOMAIN queue : /\ queue[i] = Handler("insert", s, d)
                                  /\ \A j \in DOMAIN queue : j > i => ~Inserts(queue[j], d)
    BY Zenon, <1>5 DEF Posted
  <2>2. i # 1
    BY <1>1, <2>1 DEF Handler
  <2>3. i - 1 \in DOMAIN queue' /\ queue'[i - 1] = Handler("insert", s, d)
    BY ZenonT(30), <1>1, <2>1, <2>2
  <2>4. ASSUME NEW j \in DOMAIN queue', j > i - 1 PROVE ~Inserts(queue'[j], d)
    BY SMTT(30), <1>1, <2>1, <2>4
  <2>5. QED
    BY Zenon, <1>2, <1>5, <2>3, <2>4 DEF Posted, Inserts, Place
<1>6. CASE Entered(s, d)
  BY <1>1, <1>2, <1>6 DEF Entered, Inserts, Place
<1>7. QED
  BY Zenon, <1>4, <1>5, <1>6 DEF Place

\* attach() takes a descriptor that nobody holds.
LEMMA AttachPullInv ==
  ASSUME EngineInv, NEW a \in Attachers, NEW s \in Sessions, AttachPull(a, s)
  PROVE  EngineInv'
<1>1. PICK d \in FreeFds :
        /\ fd' = [fd EXCEPT ![s] = d]
        /\ attaching' = [attaching EXCEPT ![a] = Handler("insert", s, d)]
  BY Zenon DEF AttachPull
<1>2. /\ queue' = Append(queue, Handler("pull", s, Null))
      /\ attaching[a].kind = "none" /\ m_sessions' = m_sessions
  BY Zenon DEF AttachPull
<1>3. d \in Fds /\ \A t \in Sessions : fd[t] # d
  BY Zenon, <1>1 DEF FreeFds
<1>4. Handler("pull", s, Null) \in HandlerSet /\ Handler("insert", s, d) \in HandlerSet
  BY Zenon, <1>3 DEF HandlerSet, Handler, Kinds
<1>5. EngineTypeOK'
  BY Zenon, <1>1, <1>2, <1>3, <1>4, Appended DEF EngineInv, EngineTypeOK
<1>6. Standing(s)'
  BY Zenon, <1>1 DEF Standing, Place, Posting, EngineInv, EngineTypeOK
<1>7. ASSUME NEW t \in Sessions, t # s PROVE Standing(t)'
  <2> SUFFICES ASSUME NEW e \in Fds, fd'[t] = e PROVE Place(t, e)'
    BY Zenon DEF Standing
  <2>1. fd[t] = e /\ e # d
    BY Zenon, <1>1, <1>3, <1>7 DEF EngineInv, EngineTypeOK
  <2>2. Place(t, e)
    BY Zenon, <2>1 DEF EngineInv, Standing
  <2>3. /\ attaching'[a] = Handler("insert", s, d)
        /\ \A b \in Attachers \ {a} : attaching'[b] = attaching[b]
    BY ZenonT(30), <1>1 DEF EngineInv, EngineTypeOK
  <2>4. NoneAttaching(e) => NoneAttaching(e)'
    BY SMTT(30), <2>1, <2>3 DEF NoneAttaching, Inserts, Handler
  <2>5. /\ DOMAIN queue = 1..Len(queue) /\ Len(queue) \in Nat
        /\ DOMAIN queue' = DOMAIN queue \cup {Len(queue) + 1} /\ Len(queue) + 1 \notin DOMAIN queue
        /\ queue'[Len(queue) + 1] = Handler("pull", s, Null)
        /\ \A i \in DOMAIN queue : queue'[i] = queue[i]
    BY <1>2, <1>4, Appended DEF EngineInv, EngineTypeOK
  <2>6. ~Inserts(Handler("pull", s, Null), e)
    BY ZenonT(30) DEF Inserts, Handler
  <2>7. CASE Posting(t, e)
    BY <1>2, <2>3, <2>7 DEF Posting, Handler, Place
  <2>8. CASE Posted(t, e)
    <3>1. PICK i \in DOMAIN queue : /\ queue[i] = Handler("insert", t, e)
                                    /\ \A j \in DOMAIN queue : j > i => ~Inserts(queue[j], e)
      BY Zenon, <2>8 DEF Posted
    <3>2. queue'[i] = Handler("insert", t, e) /\ \A j \in DOMAIN queue' : j > i => ~Inserts(queue'[j], e)
      BY Zenon, <2>5, <2>6, <3>1
    <3>3. QED
      BY Zenon, <2>4, <2>5, <2>8, <3>2 DEF Posted, Place
  <2>9. CASE Entered(t, e)
    BY Zenon, <1>2, <2>4, <2>5, <2>6, <2>9 DEF Entered, Place
  <2>10. QED
    BY Zenon, <2>2, <2>7, <2>8, <2>9 DEF Place
<1>8. QED
  BY Zenon, <1>5, <1>6, <1>7 DEF EngineInv

\* With one attaching thread at most, what it posts is the last registration
\* of its descriptor.
LEMMA AttachPostInv ==
  ASSUME EngineInv, \A a, b \in Attachers : a = b, NEW a \in Attachers, AttachPost(a)
  PROVE  EngineInv'
<1>1. /\ queue' = Append(queue, attaching[a]) /\ attaching[a].kind = "insert"
      /\ attaching' = [attaching EXCEPT ![a] = Handler("none", Null, Null)]
      /\ m_sessions' = m_sessions /\ fd' = fd
  BY Zenon DEF AttachPost
<1>2. Handler("none", Null, Null) \in HandlerSet /\ attaching[a] \in HandlerSet
  BY Zenon DEF EngineInv, EngineTypeOK, HandlerSet, Handler, Kinds
<1>3. EngineTypeOK'
  BY Zenon, <1>1, <1>2, Appended DEF EngineInv, EngineTypeOK
<1>4. \A b \in Attachers : attaching'[b] = Handler("none", Null, Null)
  BY ZenonT(30), <1>1 DEF EngineInv, EngineTypeOK
<1>5. \A d : NoneAttaching(d)'
  BY SMTT(30), <1>4 DEF NoneAttaching, Inserts, Handler
<1>6. /\ DOMAIN queue = 1..Len(queue) /\ Len(queue) \in Nat
      /\ DOMAIN queue' = DOMAIN queue \cup {Len(queue) + 1} /\ Len(queue) + 1 \notin DOMAIN queue
      /\ queue'[Len(queue) + 1] = attaching[a]
      /\ \A i \in DOMAIN queue : queue'[i] = queue[i]
  BY <1>1, <1>2, Appended DEF EngineInv, EngineTypeOK
<1>7. ASSUME NEW t \in Sessions, NEW e \in Fds, fd'[t] = e PROVE Place(t, e)'
  <2>1. Place(t, e)
    BY Zenon, <1>1, <1>7 DEF EngineInv, Standing
  <2>2. CASE Posting(t, e)
    <3>1. queue'[Len(queue) + 1] = Handler("insert", t, e)
      BY Zenon, <1>6, <2>2 DEF Posting
    <3>2. \A j \in DOMAIN queue' : ~(j > Len(queue) + 1)
      BY <1>6
    <3>3. QED
      BY Zenon, <1>5, <1>6, <3>1, <3>2 DEF Posted, Place
  <2>3. CASE Posted(t, e)
    <3>1. PICK i \in DOMAIN queue : /\ queue[i] = Handler("insert", t, e)
                                    /\ \A j \in DOMAIN queue : j > i => ~Inserts(queue[j], e)
      BY Zenon, <2>3 DEF Posted
    <3>2. ~Inserts(attaching[a], e)
      BY Zenon, <2>3 DEF Posted, NoneAttaching
    <3>3. queue'[i] = Handler("insert", t, e) /\ \A j \in DOMAIN queue' : j > i => ~Inserts(queue'[j], e)
      BY Zenon, <1>6, <3>1, <3>2
    <3>4. QED
      BY Zenon, <1>5, <1>6, <3>1, <3>3 DEF Posted, Place
  <2>4. CASE Entered(t, e)
    <3>1. ~Inserts(attaching[a], e)
      BY Zenon, <2>4 DEF Entered, NoneAttaching
    <3>2. \A j \in DOMAIN queue' : ~Inserts(queue'[j], e)
      BY Zenon, <1>6, <2>4, <3>1 DEF Entered
    <3>3. QED
      BY Zenon, <1>1, <1>5, <2>4, <3>2 DEF Entered, Place
  <2>5. QED
    BY Zenon, <2>1, <2>2, <2>3, <2>4 DEF Place
<1>8. QED
  BY Zenon, <1>3, <1>7 DEF EngineInv, Standing

\* The handler of the last registration of a descriptor enters its session.
LEMMA RunInsertInv ==
  ASSUME EngineInv, RunInsert
  PROVE  EngineInv'
<1>1. /\ queue # <<>> /\ Head(queue).kind = "insert" /\ queue' = Tail(queue)
      /\ m_sessions' = [m_sessions EXCEPT ![Head(queue).fd] = Head(queue).session]
      /\ fd' = fd /\ attaching' = attaching
  BY Zenon DEF RunInsert, Runs
<1>2. /\ Head(queue) \in HandlerSet /\ Tail(queue) \in Seq(HandlerSet)
      /\ DOMAIN queue = 1..Len(queue) /\ Len(queue) \in Nat
      /\ Head(queue) = queue[1] /\ 1 \in DOMAIN queue /\ DOMAIN queue' = 1..Len(queue) - 1
      /\ \A i \in 1..Len(queue) - 1 : i + 1 \in DOMAIN queue /\ queue'[i] = queue[i + 1]
      /\ \A i \in DOMAIN queue : i = 1 \/ (i - 1 \in 1..Len(queue) - 1 /\ queue'[i - 1] = queue[i])
  BY <1>1, HeadTail DEF EngineInv, EngineTypeOK
<1>3. EngineTypeOK'
  BY Zenon, <1>1, <1>2 DEF EngineInv, EngineTypeOK, HandlerSet
<1>4. \A d : NoneAttaching(d) => NoneAttaching(d)'
  BY Zenon, <1>1 DEF NoneAttaching, Inserts
<1>5. ASSUME NEW t \in Sessions, NEW e \in Fds, fd'[t] = e PROVE Place(t, e)'
  <2>1. Place(t, e)
    BY Zenon, <1>1, <1>5 DEF EngineInv, Standing
  <2>2. CASE Posting(t, e)
    BY Zenon, <1>1, <2>2 DEF Posting, Place
  <2>3. CASE Posted(t, e)
    <3>1. PICK i \in DOMAIN queue : /\ queue[i] = Handler("insert", t, e)
                                    /\ \A j \in DOMAIN queue : j > i => ~Inserts(queue[j], e)
      BY Zenon, <2>3 DEF Posted
    <3>2. CASE i = 1
      <4>1. m_sessions'[e] = t
        BY <1>1, <1>2, <3>1, <3>2 DEF Handler, EngineInv, EngineTypeOK
      <4>2. \A j \in DOMAIN queue' : ~Inserts(queue'[j], e)
        BY SMTT(30), <1>2, <3>1, <3>2
      <4>3. QED
        BY ZenonT(30), <1>4, <2>3, <4>1, <4>2 DEF Posted, Entered, Place
    <3>3. CASE i # 1
      <4>1. i - 1 \in DOMAIN queue' /\ queue'[i - 1] = Handler("insert", t, e)
        BY Zenon, <1>2, <3>1, <3>3
      <4>2. ASSUME NEW j \in DOMAIN queue', j > i - 1 PROVE ~Inserts(queue'[j], e)
        BY SMTT(30), <1>2, <3>1, <4>2
      <4>3. QED
        BY Zenon, <1>4, <2>3, <4>1, <4>2 DEF Posted, Place
    <3>4. QED
      BY Zenon, <3>2, <3>3
  <2>4. CASE Entered(t, e)
    <3>1. Head(queue).fd # e
      BY Zenon, <1>1, <1>2, <2>4 DEF Entered, Inserts
    <3>2. m_sessions'[e] = t
      BY Zenon, <1>1, <2>4, <3>1 DEF Entered, EngineInv, EngineTypeOK
    <3>3. \A j \in DOMAIN queue' : ~Inserts(queue'[j], e)
      BY Zenon, <1>2, <2>4 DEF Entered
    <3>4. QED
      BY Zenon, <1>4, <2>4, <3>2, <3>3 DEF Entered, Place
  <2>5. QED
    BY Zenon, <2>1, <2>2, <2>3, <2>4 DEF Place
<1>6. QED
  BY Zenon, <1>3, <1>5 DEF EngineInv, Standing

\* A handler that is no registration is posted.
LEMMA PostInv ==
  ASSUME EngineInv, NEW h \in HandlerSet, h.kind # "insert", queue' = Append(queue, h),
         UNCHANGED <<attaching, m_sessions, fd>>
  PROVE  EngineInv'
<1>1. EngineTypeOK'
  BY Zenon, Appended DEF EngineInv, EngineTypeOK
<1>2. ASSUME NEW t \in Sessions, NEW e \in Fds, fd'[t] = e PROVE Place(t, e)'
  BY Zenon, <1>2, QueueGrows DEF EngineInv, Standing
<1>3. QED
  BY Zenon, <1>1, <1>2 DEF EngineInv, Standing

\* A handler that is no registration runs: sessions may lose their
\* descriptors, and those that keep theirs stay in the map.
LEMMA RunInv ==
  ASSUME EngineInv, queue # <<>>, Head(queue).kind # "insert", queue' = Tail(queue), UNCHANGED attaching,
         fd' \in [Sessions -> Fds \cup {Null}], m_sessions' \in [Fds -> Sessions \cup {Null}],
         \A t \in Sessions : fd'[t] \in {Null, fd[t]},
         \A t \in Sessions, e \in Fds : fd[t] = e /\ m_sessions[e] = t => m_sessions'[e] = t
  PROVE  EngineInv'
<1>1. EngineTypeOK'
  BY Zenon, HeadTail DEF EngineInv, EngineTypeOK
<1>2. ASSUME NEW t \in Sessions, NEW e \in Fds, fd'[t] = e PROVE Place(t, e)'
  <2>1. fd[t] = e
    BY Zenon, <1>2, EngineAssumption
  <2>2. QED
    BY ZenonT(30), <2>1, QueueShrinks DEF EngineInv, Standing
<1>3. QED
  BY Zenon, <1>1, <1>2 DEF EngineInv, Standing

\* Every step keeps the places, if one thread attaches at a time.
LEMMA EngineStep ==
  ASSUME EngineInv, \A a, b \in Attachers : a = b, [EngineNext]_engineVars
  PROVE  EngineInv'
<1> USE DEF Runs
<1>0. /\ fd \in [Sessions -> Fds \cup {Null}] /\ m_sessions \in [Fds -> Sessions \cup {Null}]
      /\ \A k \in Kinds, s \in Sessions \cup {Null} : Handler(k, s, Null) \in HandlerSet /\ Handler(k, s, Null).kind = k
  BY Zenon DEF EngineInv, EngineTypeOK, HandlerSet, Handler
<1>1. CASE \E a \in Attachers, s \in Sessions : AttachPull(a, s)
  BY Zenon, <1>1, AttachPullInv
<1>2. CASE \E a \in Attachers : AttachPost(a)
  BY Zenon, <1>2, AttachPostInv
<1>3. CASE \E s \in Sessions : PeerCloses(s)
  BY Zenon, <1>0, <1>3, PostInv DEF PeerCloses, Kinds
<1>4. CASE CronExpires
  BY Zenon, <1>0, <1>4, PostInv DEF CronExpires, Post, Kinds
<1>5. CASE StatsExpires
  BY Zenon, <1>0, <1>5, PostInv DEF StatsExpires, Post, Kinds
<1>6. CASE RunPull
  BY Zenon, <1>0, <1>6, RunInv DEF RunPull
<1>7. CASE RunInsert
  BY Zenon, <1>7, RunInsertInv
<1>8. CASE RunEof
  <2>1. fd' = [fd EXCEPT ![Head(queue).session] = Null] /\ UNCHANGED <<m_sessions, attaching>>
    BY Zenon, <1>8 DEF RunEof
  <2>2. fd' \in [Sessions -> Fds \cup {Null}] /\ \A t \in Sessions : fd'[t] \in {Null, fd[t]}
    BY Zenon, <1>0, <2>1
  <2>3. QED
    BY Zenon, <1>0, <1>8, <2>1, <2>2, RunInv DEF RunEof
<1>9. CASE RunGc
  BY Zenon, <1>0, <1>9, RunInv DEF RunGc
<1>10. CASE RunGcTick
  <2>1. /\ m_sessions' \in [Fds -> Sessions \cup {Null}] /\ UNCHANGED <<fd, attaching>>
        /\ \A e \in Fds : m_sessions[e] # Null /\ fd[m_sessions[e]] # Null => m_sessions'[e] = m_sessions[e]
    BY Zenon, <1>0, <1>10 DEF RunGcTick, Recyclable
  <2>2. \A t \in Sessions, e \in Fds : fd[t] = e /\ m_sessions[e] = t => m_sessions'[e] = t
    BY Zenon, <2>1, EngineAssumption
  <2>3. QED
    BY Zenon, <1>0, <1>10, <2>1, <2>2, RunInv DEF RunGcTick
<1>11. CASE RunStats
  BY Zenon, <1>0, <1>11, RunInv DEF RunStats
<1>12. CASE RunStop
  <2>1. /\ fd' \in [Sessions -> Fds \cup {Null}] /\ UNCHANGED <<m_sessions, attaching>>
        /\ \A t \in Sessions : fd'[t] \in {Null, fd[t]}
    BY Zenon, <1>0, <1>12 DEF RunStop
  <2>2. QED
    BY Zenon, <1>0, <1>12, <2>1, RunInv DEF RunStop
<1>13. CASE RunCancel
  BY Zenon, <1>0, <1>13, RunInv DEF RunCancel
<1>14. CASE PostStop
  BY Zenon, <1>0, <1>14, PostInv DEF PostStop, Post, Kinds
<1>15. CASE Cancel
  BY ZenonT(30), <1>0, <1>15, PostInv DEF Cancel, Post, Kinds
<1>16. CASE Join \/ Destroyed \/ UNCHANGED engineVars
  BY SMTT(30), <1>16 DEF Join, Destroyed, engineVars, EngineInv, EngineTypeOK, Standing, Place, Posting, Posted, Entered,
               NoneAttaching, Inserts
<1>17. QED
  BY Zenon, <1>1, <1>2, <1>3, <1>4, <1>5, <1>6, <1>7, <1>8, <1>9, <1>10, <1>11, <1>12, <1>13, <1>14, <1>15, <1>16
     DEF EngineNext, RunHandler

\* A session in one of its places is not forgotten.
LEMMA StandingKnown == EngineInv => NoneForgotten
<1> SUFFICES ASSUME EngineInv, NEW s \in Sessions, fd[s] # Null PROVE m_sessions[fd[s]] = s \/ Registering(s)
  BY Zenon DEF NoneForgotten
<1>1. fd[s] \in Fds
  BY Zenon DEF EngineInv, EngineTypeOK
<1>2. Place(s, fd[s])
  BY Zenon, <1>1 DEF EngineInv, Standing
<1>3. QED
  BY <1>2 DEF Place, Posting, Posted, Entered, Registering, Handler

\* An engine with one attaching thread at most, as the acceptor thread is on a
\* node without a locator, never forgets a session: attach(), the collector
\* and the reuse of descriptors by dup() can come in any order.
THEOREM SessionsKept ==
  ASSUME \A a, b \in Attachers : a = b
  PROVE  EngineSpec => []NoneForgotten
<1>1. EngineInit => EngineInv
  BY Zenon, EngineStart
<1>2. EngineInv /\ [EngineNext]_engineVars => EngineInv'
  BY Zenon, EngineStep
<1>3. EngineInv => NoneForgotten
  BY Zenon, StandingKnown
<1>4. QED
  BY <1>1, <1>2, <1>3, PTL DEF EngineSpec

-----------------------------------------------------------------------------
(* Session *)

\* A history of one dispatch is a sequence of length one.
LEMMA OneDiscard ==
  ASSUME NEW d \in Dispatch
  PROVE  /\ Append(<<>>, d) = <<d>>
         /\ <<d>> \in Seq(Dispatch)
         /\ Len(<<d>>) = 1 /\ <<d>> # <<>>
         /\ Len(<<>>) = 0
OBVIOUS

\* revoke() and detach() tell the bound channels of S, which were not told
\* before, exactly once, and leave the other histories alone.
LEMMA DiscardEffect ==
  ASSUME TypeOK, NEW S \in SUBSET Ids, \A id \in S : discards[id] = <<>>
  PROVE  /\ Discard(S) \in [Ids -> Seq(Dispatch)]
         /\ \A id \in Ids :
              Discard(S)[id] = IF id \in S /\ dispatch[id] # None
                                 THEN <<dispatch[id]>> ELSE discards[id]
<1> DEFINE T(id) == IF id \in S /\ dispatch[id] # None
                      THEN <<dispatch[id]>> ELSE discards[id]
<1>1. ASSUME NEW id \in Ids
      PROVE  T(id) \in Seq(Dispatch) /\ Discard(S)[id] = T(id)
  <2>1. CASE id \in S /\ dispatch[id] # None
    <3>1. dispatch[id] \in Dispatch /\ discards[id] = <<>>
      BY Zenon, <2>1, <1>1 DEF TypeOK
    <3>2. Discard(S)[id] = Append(<<>>, dispatch[id])
      BY <2>1, <3>1, <1>1, Zenon DEF Discard
    <3> QED
      BY Zenon, <3>1, <3>2, <2>1, OneDiscard
  <2>2. CASE ~(id \in S /\ dispatch[id] # None)
    BY Zenon, <2>2, <1>1 DEF Discard, TypeOK
  <2> QED
    BY Zenon, <2>1, <2>2
<1>2. Discard(S) = [id \in Ids |-> Discard(S)[id]]
  BY Zenon DEF Discard
<1> QED
  BY <1>1, <1>2, ZenonT(30)

\* The places in a dispatch graph that process() may return are dispatches or
\* the null pointer.
LEMMA TransitionsType ==
  ASSUME NEW d \in Node
  PROVE  Transitions(d) \subseteq Dispatch \cup {None}
BY Zenon, SessionAssumption DEF Transitions, Dispatch, Node

\* A message names ids of the model.
LEMMA MessageType ==
  ASSUME NEW m \in Message
  PROVE  m.span \in Ids /\ m.id \in Ids
BY ZenonT(30) DEF Message

\* The session starts with no channel and no message.
LEMMA InitInv == Init => SessionInv
<1> SUFFICES ASSUME Init PROVE SessionInv
  BY Zenon
<1>1. TypeOK
  BY SessionAssumption DEF Init, TypeOK
<1> QED
  BY <1>1 DEF Init, SessionInv, DiscardOnce, NoSilentClose, FreshUntouched,
              OpenBound, HandledBound

\* handle() and fork() open a channel: only ids above the maximum are taken,
\* and those were never bound and never told.
LEMMA InsertInv ==
  ASSUME SessionInv, NEW id \in Ids, ~Revoked(id), NEW d \in Dispatch, Insert(id, d)
  PROVE  /\ max_channel_id' \in 0..MaxChannelId
         /\ channels' \in SUBSET (1..max_channel_id')
         /\ dispatch' \in [Ids -> Dispatch \cup {None}]
         /\ discards' \in [Ids -> Seq(Dispatch)]
         /\ DiscardOnce' /\ NoSilentClose' /\ FreshUntouched'
         /\ discards'[id] = <<>> /\ dispatch'[id] = d /\ d # None
         /\ max_channel_id < id /\ max_channel_id' = id
<1> USE SessionAssumption DEF SessionInv, TypeOK, Insert, Revoked, Ids
<1>1. d # None
  BY DEF Dispatch, Node
<1>2. max_channel_id < id /\ max_channel_id' = id
  OBVIOUS
<1>3. /\ max_channel_id' \in 0..MaxChannelId
      /\ channels' \in SUBSET (1..max_channel_id')
  BY <1>2
<1>4. /\ dispatch' \in [Ids -> Dispatch \cup {None}]
      /\ discards' \in [Ids -> Seq(Dispatch)]
  BY Zenon
<1>5. discards'[id] = <<>> /\ dispatch'[id] = d
  BY Zenon DEF FreshUntouched
<1>6. DiscardOnce'
  BY Zenon DEF DiscardOnce
<1>7. NoSilentClose'
  BY Zenon DEF NoSilentClose
<1>8. FreshUntouched'
  BY <1>2, SMTT(30) DEF FreshUntouched
<1> QED
  BY ZenonT(30), <1>1, <1>2, <1>3, <1>4, <1>5, <1>6, <1>7, <1>8

\* revoke() and detach() close the channels of S and tell the bound ones.
LEMMA CloseInv ==
  ASSUME SessionInv, NEW S \in SUBSET channels,
         discards' = Discard(S), channels' = channels \ S,
         UNCHANGED <<max_channel_id, dispatch>>
  PROVE  /\ channels' \in SUBSET (1..max_channel_id')
         /\ discards' \in [Ids -> Seq(Dispatch)]
         /\ DiscardOnce' /\ NoSilentClose' /\ FreshUntouched'
         /\ \A id \in channels' : discards'[id] = discards[id]
<1>1. channels \in SUBSET Ids
  BY SessionAssumption DEF SessionInv, TypeOK, Ids
<1>2. /\ discards' \in [Ids -> Seq(Dispatch)]
      /\ \A id \in Ids :
           discards'[id] = IF id \in S /\ dispatch[id] # None
                             THEN <<dispatch[id]>> ELSE discards[id]
  BY Zenon, <1>1, DiscardEffect DEF SessionInv, OpenBound
<1>3. \A id \in Ids : dispatch[id] # None => dispatch[id] \in Dispatch
  BY Zenon DEF SessionInv, TypeOK
<1>4. DiscardOnce'
  <2>1. ASSUME NEW id \in Ids PROVE Len(discards'[id]) <= 1
    <3>1. CASE id \in S /\ dispatch[id] # None
      <4>1. discards'[id] = <<dispatch[id]>> /\ dispatch[id] \in Dispatch
        BY Zenon, <3>1, <1>2, <1>3
      <4>2. Len(<<dispatch[id]>>) = 1
        BY Zenon, <4>1, OneDiscard
      <4> QED
        BY SMTT(30), <4>1, <4>2
    <3>2. CASE ~(id \in S /\ dispatch[id] # None)
      BY Zenon, <3>2, <1>2 DEF SessionInv, DiscardOnce
    <3> QED
      BY Zenon, <3>1, <3>2
  <2> QED
    BY Zenon, <2>1 DEF DiscardOnce
<1>5. NoSilentClose'
  BY <1>2, <1>3, OneDiscard, ZenonT(30) DEF SessionInv, NoSilentClose
<1>6. FreshUntouched'
  BY Zenon, <1>1, <1>2 DEF SessionInv, FreshUntouched, Revoked
<1>7. channels' \in SUBSET (1..max_channel_id')
  BY Zenon DEF SessionInv, TypeOK
<1> QED
  BY ZenonT(30), <1>1, <1>2, <1>4, <1>5, <1>6, <1>7

\* The steps that leave the channel map and the pull loop alone.
LEMMA StutterInv ==
  ASSUME SessionInv, UNCHANGED <<chanVars, pullVars>>,
         transport' \in BOOLEAN, detaching' \in SUBSET Actors
  PROVE  SessionInv'
BY Zenon DEF SessionInv, TypeOK, DiscardOnce, NoSilentClose, FreshUntouched, OpenBound,
       HandledBound, chanVars, pullVars, Revoked

\* fork() preserves the invariant: a message in progress has a smaller id.
LEMMA ForkInv ==
  ASSUME SessionInv, NEW a \in Actors, Fork(a)
  PROVE  SessionInv'
<1> DEFINE id == max_channel_id + 1
<1>1. id \in Ids /\ ~Revoked(id) /\ 0 \in Dispatch
  BY SessionAssumption DEF Fork, SessionInv, TypeOK, Ids, Revoked, Dispatch, Node
<1>2. CASE Insert(id, 0)
  <2>1. /\ max_channel_id' \in 0..MaxChannelId
        /\ channels' \in SUBSET (1..max_channel_id')
        /\ dispatch' \in [Ids -> Dispatch \cup {None}]
        /\ discards' \in [Ids -> Seq(Dispatch)]
        /\ DiscardOnce' /\ NoSilentClose' /\ FreshUntouched'
        /\ discards'[id] = <<>> /\ dispatch'[id] = 0 /\ 0 # None
        /\ max_channel_id < id /\ max_channel_id' = id
    BY Zenon, <1>1, <1>2, InsertInv
  <2>2. TypeOK'
    BY ZenonT(30), <2>1 DEF TypeOK, SessionInv, Fork, pullVars
  <2>3. OpenBound'
    BY SMTT(30), <2>1, <1>2 DEF OpenBound, SessionInv, Fork, pullVars, Insert, TypeOK
  <2>4. HandledBound'
    <3>1. ASSUME at \in {"process", "assign", "revoke"}
          PROVE  msg.span \in Ids /\ msg.span # id /\ msg.span <= id
      BY <3>1, <1>1, MessageType, SessionAssumption
         DEF SessionInv, HandledBound, Revoked, TypeOK, Ids
    <3> QED
      BY ZenonT(30), <3>1, <2>1, <1>2 DEF HandledBound, SessionInv, Fork, pullVars, Insert, Revoked, TypeOK
  <2> QED
    BY Zenon, <2>1, <2>2, <2>3, <2>4 DEF SessionInv
<1>3. CASE max_channel_id' = id /\ UNCHANGED <<channels, dispatch, discards>>
  <2>1. TypeOK'
    BY SMTT(30), <1>1, <1>3 DEF TypeOK, SessionInv, Fork, pullVars, Ids
  <2>2. OpenBound' /\ DiscardOnce' /\ NoSilentClose'
    BY ZenonT(30), <1>3 DEF OpenBound, DiscardOnce, NoSilentClose, SessionInv, Fork, pullVars
  <2>3. FreshUntouched'
    BY SMTT(30), <1>1, <1>3, SessionAssumption DEF FreshUntouched, SessionInv, Revoked, TypeOK, Ids
  <2>4. HandledBound'
    <3>1. ASSUME at \in {"process", "assign", "revoke"} PROVE msg.span <= id
      BY SMTT(30), <3>1, <1>1, MessageType, SessionAssumption
         DEF SessionInv, HandledBound, Revoked, TypeOK, Ids
    <3> QED
      BY Zenon, <3>1, <1>3 DEF HandledBound, SessionInv, Fork, pullVars, Revoked
  <2> QED
    BY ZenonT(30), <2>1, <2>2, <2>3, <2>4 DEF SessionInv
<1> QED
  BY Zenon, <1>2, <1>3 DEF Fork

\* The second half of detach() preserves the invariant: the map becomes empty
\* and every bound channel of it is told for the first time.
LEMMA SweepInv ==
  ASSUME SessionInv, NEW a \in Actors, Sweep(a)
  PROVE  SessionInv'
<1>1. channels' = channels \ channels /\ channels \in SUBSET channels
  BY Zenon DEF Sweep
<1>2. /\ channels' \in SUBSET (1..max_channel_id')
      /\ discards' \in [Ids -> Seq(Dispatch)]
      /\ DiscardOnce' /\ NoSilentClose' /\ FreshUntouched'
  BY Zenon, <1>1, CloseInv DEF Sweep
<1>3. TypeOK'
  BY Zenon, <1>2 DEF TypeOK, SessionInv, Sweep, pullVars
<1>4. OpenBound' /\ HandledBound'
  BY Zenon DEF OpenBound, HandledBound, SessionInv, Sweep, pullVars, Revoked
<1> QED
  BY Zenon, <1>2, <1>3, <1>4 DEF SessionInv

\* The first half of detach() keeps the types of what it touches.
LEMMA SwapType ==
  ASSUME TypeOK, NEW a \in Actors, Swap(a)
  PROVE  transport' \in BOOLEAN /\ detaching' \in SUBSET Actors
BY Zenon DEF Swap, TypeOK

\* The engine thread moves on without touching the map: every channel of the
\* map is bound unless a revocation is under way.
LEMMA MoveInv ==
  ASSUME SessionInv, UNCHANGED chanVars, at # "revoke",
         transport' \in BOOLEAN, detaching' \in SUBSET Actors,
         at' \in {"reading", "finalize", "handle", "process", "assign", "stopped"},
         msg' \in Message \cup {None}, next' \in Dispatch \cup {None},
         HandledBound'
  PROVE  SessionInv'
<1>1. TypeOK'
  BY Zenon DEF SessionInv, TypeOK, chanVars
<1>2. OpenBound'
  BY Zenon DEF SessionInv, OpenBound, chanVars
<1>3. DiscardOnce' /\ NoSilentClose' /\ FreshUntouched'
  BY Zenon DEF SessionInv, DiscardOnce, NoSilentClose, FreshUntouched, chanVars, Revoked
<1> QED
  BY Zenon, <1>1, <1>2, <1>3 DEF SessionInv

\* The end of the pull loop preserves the invariant.
LEMMA StopInv ==
  ASSUME SessionInv, Stop, at # "revoke", UNCHANGED chanVars
  PROVE  SessionInv'
<1>1. transport' \in BOOLEAN /\ detaching' \in SUBSET Actors
  BY Zenon, SwapType DEF Stop, SessionInv, Actors
<1>2. HandledBound'
  BY Zenon DEF Stop, HandledBound
<1>3. next' \in Dispatch \cup {None}
  BY Zenon DEF Stop, SessionInv, TypeOK
<1> QED
  BY Zenon, <1>1, <1>2, <1>3, MoveInv DEF Stop

\* handle(), the section under the lock, preserves the invariant.
LEMMA LookupInv ==
  ASSUME SessionInv, Lookup
  PROVE  SessionInv'
<1> DEFINE id == msg.span
<1>1. id \in Ids /\ msg \in Message /\ at = "handle"
  BY ZenonT(30), MessageType DEF Lookup, SessionInv, HandledBound
<1>2. CASE /\ id \in channels /\ at' = "process"
           /\ UNCHANGED <<transport, chanVars, detaching, msg, next>>
  <2>1. dispatch[id] # None /\ Revoked(id)
    <3>1. dispatch[id] # None
      BY ZenonT(30), <1>1, <1>2 DEF SessionInv, OpenBound
    <3>2. id \in 1..max_channel_id
      BY <1>2, Zenon DEF SessionInv, TypeOK
    <3> QED
      BY SMTT(30), <3>1, <3>2 DEF Revoked
  <2>2. HandledBound'
    BY Zenon, <1>1, <1>2, <2>1 DEF HandledBound, chanVars, Revoked
  <2> QED
    BY Zenon, <1>1, <1>2, <2>2, MoveInv DEF SessionInv, TypeOK
<1>3. CASE Stop /\ UNCHANGED chanVars
  BY Zenon, <1>1, <1>3, StopInv
<1>4. CASE /\ ~Revoked(id) /\ Insert(id, SelectDispatch(msg)) /\ at' = "process"
           /\ UNCHANGED <<transport, detaching, msg, next>>
  <2> DEFINE d == SelectDispatch(msg)
  <2>1. d \in Dispatch
    BY SessionAssumption DEF SelectDispatch, Dispatch, Node
  <2> HIDE DEF d
  <2>2. Insert(id, d)
    BY Zenon, <1>4 DEF d
  <2>3. /\ max_channel_id' \in 0..MaxChannelId
        /\ channels' \in SUBSET (1..max_channel_id')
        /\ dispatch' \in [Ids -> Dispatch \cup {None}]
        /\ discards' \in [Ids -> Seq(Dispatch)]
        /\ DiscardOnce' /\ NoSilentClose' /\ FreshUntouched'
        /\ discards'[id] = <<>> /\ dispatch'[id] = d /\ d # None
        /\ max_channel_id < id /\ max_channel_id' = id
    BY Zenon, <1>1, <1>4, <2>1, <2>2, InsertInv
  <2>4. TypeOK'
    BY ZenonT(30), <1>4, <2>3 DEF TypeOK, SessionInv
  <2>5. OpenBound'
    BY SMTT(30), <1>1, <2>2, <2>3 DEF OpenBound, SessionInv, Insert, TypeOK
  <2>6. HandledBound'
    BY SMTT(30), <1>1, <1>4, <2>3 DEF HandledBound, Revoked, Ids
  <2> QED
    BY Zenon, <2>3, <2>4, <2>5, <2>6 DEF SessionInv
<1> QED
  BY Zenon, <1>2, <1>3, <1>4 DEF Lookup

\* revoke(id) preserves what does not depend on the pull loop, and closes at
\* most id.
LEMMA RevokeInv ==
  ASSUME SessionInv, NEW id \in Ids, Revoke(id)
  PROVE  /\ channels' \in SUBSET (1..max_channel_id')
         /\ discards' \in [Ids -> Seq(Dispatch)]
         /\ DiscardOnce' /\ NoSilentClose' /\ FreshUntouched'
         /\ channels' = channels \ {id}
         /\ \A j \in channels' : discards'[j] = discards[j]
         /\ UNCHANGED <<max_channel_id, dispatch>>
<1>1. CASE Erase(id)
  <2>1. {id} \in SUBSET channels /\ UNCHANGED <<max_channel_id, dispatch>>
    BY Zenon, <1>1 DEF Erase
  <2> QED
    BY <1>1, <2>1, CloseInv, Zenon DEF Erase
<1>2. CASE id \notin channels /\ UNCHANGED chanVars
  BY Zenon, <1>2 DEF SessionInv, TypeOK, DiscardOnce, NoSilentClose, FreshUntouched,
              chanVars, Revoked
<1> QED
  BY Zenon, <1>1, <1>2 DEF Revoke

\* control::ping and control::revoke preserve the invariant, also when they
\* revoke the very channel they came in on.
LEMMA ControlInv ==
  ASSUME SessionInv, ProcessControl
  PROVE  SessionInv'
<1>1. msg \in Message /\ msg.id \in Ids /\ msg.span \in Ids /\ at = "process"
  BY Zenon, MessageType DEF ProcessControl, SessionInv, HandledBound
<1>2. /\ channels' \in SUBSET (1..max_channel_id')
      /\ discards' \in [Ids -> Seq(Dispatch)]
      /\ DiscardOnce' /\ NoSilentClose' /\ FreshUntouched'
      /\ channels' \subseteq channels
      /\ \A j \in channels' : discards'[j] = discards[j]
      /\ UNCHANGED <<max_channel_id, dispatch>>
  <2>1. CASE Revoke(msg.id)
    BY Zenon, <1>1, <2>1, RevokeInv
  <2>2. CASE UNCHANGED chanVars
    BY Zenon, <2>2 DEF SessionInv, TypeOK, DiscardOnce, NoSilentClose, FreshUntouched,
                chanVars, Revoked
  <2> QED
    BY Zenon, <2>1, <2>2 DEF ProcessControl
<1>3. OpenBound'
  BY <1>1, <1>2, ZenonT(30) DEF SessionInv, OpenBound
<1>4. CASE next' = None /\ at' = "assign" /\ UNCHANGED <<transport, detaching, msg>>
  <2>1. TypeOK'
    BY Zenon, <1>2, <1>4 DEF SessionInv, TypeOK
  <2>2. HandledBound'
    BY Zenon, <1>1, <1>2, <1>4 DEF SessionInv, HandledBound, Revoked
  <2> QED
    BY Zenon, <1>2, <1>3, <2>1, <2>2 DEF SessionInv
<1>5. CASE Stop
  <2>1. transport' \in BOOLEAN /\ detaching' \in SUBSET Actors
    BY Zenon, <1>5, SwapType DEF Stop, SessionInv, Actors
  <2>2. TypeOK'
    BY Zenon, <1>2, <1>5, <2>1 DEF SessionInv, TypeOK, Stop
  <2>3. HandledBound'
    BY Zenon, <1>5 DEF Stop, HandledBound
  <2> QED
    BY Zenon, <1>2, <1>3, <2>2, <2>3 DEF SessionInv
<1> QED
  BY Zenon, <1>4, <1>5 DEF ProcessControl

\* The unlocked assignment of handle() preserves the invariant: a channel that
\* another thread has removed meanwhile was told, since it was bound.
LEMMA AssignInv ==
  ASSUME SessionInv, Assign
  PROVE  SessionInv'
<1> DEFINE id == msg.span
<1>1. /\ msg \in Message /\ id \in Ids /\ at = "assign"
      /\ Revoked(id) /\ dispatch[id] # None
  BY Zenon, MessageType DEF Assign, SessionInv, HandledBound
<1>2. /\ dispatch' \in [Ids -> Dispatch \cup {None}]
      /\ dispatch'[id] = next
      /\ \A j \in Ids : j # id => dispatch'[j] = dispatch[j]
  BY Zenon, <1>1 DEF Assign, SessionInv, TypeOK
<1>3. /\ at' = "revoke" \/ at' = "reading"
      /\ msg' = msg \/ msg' = None
      /\ at' = "revoke" => msg' = msg
      /\ next = None /\ id \in channels => at' = "revoke"
  BY Zenon DEF Assign
<1>4. TypeOK'
  BY Zenon, <1>2, <1>3 DEF Assign, SessionInv, TypeOK
<1>5. DiscardOnce'
  BY Zenon DEF Assign, SessionInv, DiscardOnce
<1>6. NoSilentClose'
  BY Zenon, <1>1, <1>2 DEF Assign, SessionInv, NoSilentClose
<1>7. FreshUntouched'
  BY Zenon, <1>1, <1>2 DEF Assign, SessionInv, FreshUntouched, Revoked
<1>8. OpenBound'
  <2>1. channels \subseteq Ids
    BY SMTT(30), SessionAssumption DEF SessionInv, TypeOK, Ids
  <2> QED
    BY ZenonT(30), <1>1, <1>2, <1>3, <2>1 DEF Assign, SessionInv, OpenBound
<1>9. HandledBound'
  BY Zenon, <1>1, <1>3 DEF Assign, HandledBound, Revoked
<1> QED
  BY ZenonT(30), <1>4, <1>5, <1>6, <1>7, <1>8, <1>9 DEF SessionInv

\* The revocation of an ended channel preserves the invariant.
LEMMA RevokeEndedInv ==
  ASSUME SessionInv, RevokeEnded
  PROVE  SessionInv'
<1>1. msg.span \in Ids /\ at' = "reading" /\ msg' = None
  BY Zenon, MessageType DEF RevokeEnded, SessionInv, HandledBound
<1>2. /\ channels' \in SUBSET (1..max_channel_id')
      /\ discards' \in [Ids -> Seq(Dispatch)]
      /\ DiscardOnce' /\ NoSilentClose' /\ FreshUntouched'
      /\ channels' = channels \ {msg.span}
      /\ \A j \in channels' : discards'[j] = discards[j]
      /\ UNCHANGED <<max_channel_id, dispatch>>
  BY Zenon, <1>1, RevokeInv DEF RevokeEnded
<1>3. TypeOK'
  BY Zenon, <1>1, <1>2 DEF SessionInv, TypeOK, RevokeEnded
<1>4. OpenBound' /\ HandledBound'
  BY ZenonT(30), <1>1, <1>2 DEF SessionInv, OpenBound, HandledBound
<1> QED
  BY Zenon, <1>2, <1>3, <1>4 DEF SessionInv

\* Every step of the session preserves the invariant.
LEMMA NextInv == SessionInv /\ [Next]_vars => SessionInv'
<1> SUFFICES ASSUME SessionInv, [Next]_vars PROVE SessionInv'
  BY Zenon
<1>1. CASE UNCHANGED vars
  BY Zenon, <1>1, StutterInv DEF vars, SessionInv, TypeOK
<1>2. CASE Read
  <2>1. HandledBound'
    BY Zenon, <1>2 DEF Read, HandledBound
  <2> QED
    BY Zenon, <1>2, <2>1, MoveInv DEF Read, SessionInv, TypeOK
<1>3. CASE ReadError
  BY Zenon, <1>3, StopInv DEF ReadError
<1>4. CASE ReadAborted
  <2>1. HandledBound'
    BY Zenon, <1>4 DEF ReadAborted, HandledBound
  <2> QED
    BY Zenon, <1>4, <2>1, MoveInv DEF ReadAborted, SessionInv, TypeOK
<1>5. CASE Finalize
  <2>1. HandledBound' /\ msg' \in Message \cup {None} /\ at' \in {"handle", "stopped"}
    BY ZenonT(30), <1>5 DEF Finalize, HandledBound, SessionInv, TypeOK
  <2> QED
    BY Zenon, <1>5, <2>1, MoveInv DEF Finalize, SessionInv, TypeOK
<1>6. CASE Lookup
  BY Zenon, <1>6, LookupInv
<1>7. CASE ProcessCall
  <2>1. next' \in Dispatch \cup {None}
    BY Zenon, <1>7, TransitionsType DEF ProcessCall
  <2>2. HandledBound'
    BY Zenon, <1>7 DEF ProcessCall, SessionInv, HandledBound, chanVars, Revoked
  <2> QED
    BY Zenon, <1>7, <2>1, <2>2, MoveInv DEF ProcessCall, SessionInv, TypeOK
<1>8. CASE ProcessControl
  BY Zenon, <1>8, ControlInv
<1>9. CASE ProcessThrow
  BY Zenon, <1>9, StopInv DEF ProcessThrow
<1>10. CASE Assign
  BY Zenon, <1>10, AssignInv
<1>11. CASE RevokeEnded
  BY Zenon, <1>11, RevokeEndedInv
<1>12. ASSUME NEW a \in Actors, Fork(a) PROVE SessionInv'
  BY Zenon, <1>12, ForkInv
<1>13. ASSUME NEW a \in Actors, Detach(a) PROVE SessionInv'
  BY Zenon, <1>13, StutterInv, SwapType DEF Detach, SessionInv
<1>14. ASSUME NEW a \in Actors, Sweep(a) PROVE SessionInv'
  BY Zenon, <1>14, SweepInv
<1> QED
  BY SMTT(30), <1>1, <1>2, <1>3, <1>4, <1>5, <1>6, <1>7, <1>8, <1>9, <1>10, <1>11, <1>12,
     <1>13, <1>14 DEF Next, Pull

\* The inductive invariant of the session holds in every reachable state, for
\* any number of threads that fork and detach while handle() runs.
THEOREM SessionCorrect == Spec => []SessionInv
BY InitInv, NextInv, PTL DEF Spec

\* The session keeps the types of its state.
THEOREM TypeCorrect == Spec => []TypeOK
<1>1. SessionInv => TypeOK
  BY Zenon DEF SessionInv
<1> QED
  BY <1>1, SessionCorrect, PTL

\* No channel is told twice by discard(), whatever revoke() and detach() do.
THEOREM DiscardsAtMostOnce == Spec => []DiscardOnce
<1>1. SessionInv => DiscardOnce
  BY Zenon DEF SessionInv
<1> QED
  BY <1>1, SessionCorrect, PTL

\* A channel that leaves the map has ended or was told by discard().
THEOREM NeverSilent == Spec => []NoSilentClose
<1>1. SessionInv => NoSilentClose
  BY Zenon DEF SessionInv
<1> QED
  BY <1>1, SessionCorrect, PTL

\* handle() never finds a null dispatch: error::unbound_dispatch is not thrown.
THEOREM NeverUnbound == Spec => []AlwaysBound
<1>1. SessionInv => AlwaysBound
  BY Zenon DEF SessionInv, HandledBound, AlwaysBound
<1> QED
  BY <1>1, SessionCorrect, PTL

-----------------------------------------------------------------------------
(* Every step of the session is one of four kinds for the channel map.      *)

\* Nothing happens to the channel map.
Still == UNCHANGED <<max_channel_id, channels, discards>>

\* A fresh id is taken, with a channel or without.
Takes(id) ==
  /\ ~Revoked(id)
  /\ max_channel_id' = id
  /\ channels' = channels \cup {id} \/ channels' = channels
  /\ UNCHANGED discards

\* The channels in S are closed and their dispatches told.
Closes(S) ==
  /\ channels' = channels \ S
  /\ discards' = Discard(S)
  /\ UNCHANGED <<max_channel_id, dispatch>>

\* handle(), fork(), revoke() and detach() are the only steps that touch the
\* channel map, and they take a fresh id or close channels of the map.
LEMMA MapStep ==
  ASSUME SessionInv, [Next]_vars
  PROVE  \/ Still
         \/ \E id \in Ids : Takes(id)
         \/ \E S \in SUBSET channels : Closes(S)
<1>1. ASSUME NEW id \in Ids, Revoke(id)
      PROVE  Still \/ \E S \in SUBSET channels : Closes(S)
  <2>1. CASE Erase(id)
    <3>1. {id} \in SUBSET channels /\ Closes({id})
      BY Zenon, <2>1 DEF Erase, Closes
    <3> QED
      BY Zenon, <3>1
  <2>2. CASE UNCHANGED chanVars
    BY Zenon, <2>2 DEF Still, chanVars
  <2> QED
    BY Zenon, <1>1, <2>1, <2>2 DEF Revoke
<1>2. CASE Lookup
  <2>1. msg.span \in Ids
    BY Zenon, <1>2, MessageType DEF Lookup, SessionInv, HandledBound
  <2>2. CASE UNCHANGED chanVars
    BY Zenon, <2>2 DEF Still, chanVars
  <2>3. CASE ~Revoked(msg.span) /\ Insert(msg.span, SelectDispatch(msg))
    BY Zenon, <2>1, <2>3 DEF Takes, Insert
  <2> QED
    BY Zenon, <1>2, <2>2, <2>3 DEF Lookup
<1>3. ASSUME NEW a \in Actors, Fork(a) PROVE \E id \in Ids : Takes(id)
  <2>1. max_channel_id + 1 \in Ids /\ ~Revoked(max_channel_id + 1)
    BY <1>3, SessionAssumption DEF Fork, SessionInv, TypeOK, Ids, Revoked
  <2>2. Takes(max_channel_id + 1)
    BY Zenon, <1>3, <2>1 DEF Fork, Takes, Insert
  <2> QED
    BY Zenon, <2>1, <2>2
<1>4. ASSUME NEW a \in Actors, Sweep(a) PROVE \E S \in SUBSET channels : Closes(S)
  <2>1. channels \in SUBSET channels /\ Closes(channels)
    BY Zenon, <1>4 DEF Sweep, Closes
  <2> QED
    BY Zenon, <2>1
<1>5. CASE ProcessControl
  <2>1. msg.id \in Ids
    BY Zenon, <1>5, MessageType DEF ProcessControl, SessionInv, HandledBound
  <2> QED
    BY Zenon, <1>1, <1>5, <2>1 DEF ProcessControl, Still, chanVars
<1>6. CASE RevokeEnded
  <2>1. msg.span \in Ids
    BY Zenon, <1>6, MessageType DEF RevokeEnded, SessionInv, HandledBound
  <2> QED
    BY Zenon, <1>1, <1>6, <2>1 DEF RevokeEnded
<1>7. CASE \/ Read \/ ReadError \/ ReadAborted \/ Finalize \/ ProcessCall
           \/ ProcessThrow \/ Assign \/ \E a \in Actors : Detach(a)
  BY Zenon, <1>7 DEF Read, ReadError, ReadAborted, Finalize, ProcessCall, ProcessThrow,
              Assign, Detach, Still, chanVars
<1>8. CASE UNCHANGED vars
  BY Zenon, <1>8 DEF vars, chanVars, Still
<1> QED
  BY ZenonT(30), <1>2, <1>3, <1>4, <1>5, <1>6, <1>7, <1>8 DEF Next, Pull

\* A revoked channel id never comes back into the map: the infinite TIME_WAIT
\* that session.hpp describes holds for every mix of handle() and fork().
THEOREM NeverReopened == Spec => InfiniteTimeWait
<1> DEFINE Stays == \A id \in Ids :
                       id <= max_channel_id /\ id \notin channels => id \notin channels'
<1>1. SessionInv /\ [Next]_vars => [Stays]_vars
  <2> SUFFICES ASSUME SessionInv, [Next]_vars PROVE Stays
    BY Zenon
  <2>1. CASE Still
    BY Zenon, <2>1 DEF Still
  <2>2. ASSUME NEW id \in Ids, Takes(id) PROVE Stays
    BY Zenon, <2>2 DEF Takes, Revoked
  <2>3. ASSUME NEW S \in SUBSET channels, Closes(S) PROVE Stays
    BY Zenon, <2>3 DEF Closes
  <2> QED
    BY Zenon, <2>1, <2>2, <2>3, MapStep
<1> QED
  BY <1>1, SessionCorrect, PTL DEF Spec, InfiniteTimeWait

\* A step that takes a fresh id is a Take of the life cycle.
LEMMA TakesRefines ==
  ASSUME SessionInv, NEW id \in Ids, Takes(id)
  PROVE  \E mode \in {"open", "closed"} : Lifecycle!Take(id, mode)
<1> USE SessionAssumption DEF SessionInv, TypeOK, Ids
<1> DEFINE mode == IF id \in channels' THEN "open" ELSE "closed"
<1>1. max_channel_id < id /\ max_channel_id' = id /\ id \notin channels
  BY SMTT(30) DEF Takes, Revoked
<1>2. \A j \in Ids : j >= id => Status[j] = "fresh"
  BY SMTT(30), <1>1 DEF Status, Revoked
<1>3. \A j \in Ids :
        Status'[j] = IF j = id THEN mode
                     ELSE IF j < id /\ Status[j] = "fresh" THEN "closed"
                     ELSE Status[j]
  BY <1>1 DEF Status, Takes, Revoked
<1>4. Status' = [j \in Ids |-> IF j = id THEN mode
                               ELSE IF j < id /\ Status[j] = "fresh" THEN "closed"
                               ELSE Status[j]]
  BY <1>3, ZenonT(30) DEF Status
<1>5. UNCHANGED Told
  BY Zenon DEF Takes, Told
<1> QED
  BY ZenonT(30), <1>2, <1>4, <1>5 DEF Lifecycle!Take

\* A step that closes channels is a Close of the life cycle, and it tells the
\* channels of S that are bound.
LEMMA ClosesRefines ==
  ASSUME SessionInv, NEW S \in SUBSET channels, Closes(S)
  PROVE  \E T \in SUBSET Ids : \E D \in SUBSET T : Lifecycle!Close(T, D)
<1> DEFINE D == {id \in S : dispatch[id] # None}
<1>1. channels \in SUBSET Ids /\ \A id \in channels : Revoked(id)
  BY SessionAssumption DEF SessionInv, TypeOK, Ids, Revoked
<1>2. \A id \in S : Status[id] = "open"
  BY Zenon, <1>1 DEF Status
<1>3. Status' = [j \in Ids |-> IF j \in S THEN "closed" ELSE Status[j]]
  <2>1. ASSUME NEW j \in Ids
        PROVE  Status'[j] = IF j \in S THEN "closed" ELSE Status[j]
    BY Zenon, <1>1 DEF Status, Closes, Revoked
  <2> QED
    BY <2>1, Zenon DEF Status
<1>4. Told' = [j \in Ids |-> IF j \in D THEN Told[j] + 1 ELSE Told[j]]
  <2>1. \A j \in Ids :
          discards'[j] = IF j \in S /\ dispatch[j] # None
                           THEN <<dispatch[j]>> ELSE discards[j]
    BY Zenon, <1>1, DiscardEffect DEF SessionInv, OpenBound, Closes
  <2>2. ASSUME NEW j \in Ids
        PROVE  Len(discards'[j]) = IF j \in D THEN Len(discards[j]) + 1 ELSE Len(discards[j])
    <3>1. CASE j \in D
      <4>1. dispatch[j] \in Dispatch /\ discards'[j] = <<dispatch[j]>> /\ discards[j] = <<>>
        BY <2>1, <3>1, ZenonT(30) DEF SessionInv, TypeOK, OpenBound
      <4>2. Len(<<dispatch[j]>>) = 1 /\ Len(<<>>) = 0
        BY Zenon, <4>1, OneDiscard
      <4> QED
        BY <3>1, <4>1, <4>2
    <3>2. CASE j \notin D
      BY <2>1, <3>2, Zenon
    <3> QED
      BY Zenon, <3>1, <3>2
  <2> QED
    BY Zenon, <2>2 DEF Told
<1>5. D \in SUBSET S /\ S \in SUBSET Ids
  BY Zenon, <1>1
<1> HIDE DEF D
<1>6. Lifecycle!Close(S, D)
  BY Zenon, <1>2, <1>3, <1>4, <1>5 DEF Lifecycle!Close
<1> QED
  BY Zenon, <1>5, <1>6

\* The session implements the life cycle of channels: whatever the threads do,
\* ids are taken in order, never reopened, and told once, as they close.
THEOREM SessionImplementsLifecycle == Spec => ImplementsLifecycle
<1>1. Init => Lifecycle!LifecycleInit
  <2> SUFFICES ASSUME Init PROVE Lifecycle!LifecycleInit
    BY Zenon
  <2>1. Status = [id \in Ids |-> "fresh"]
    BY SessionAssumption DEF Init, Status, Revoked, Ids
  <2>2. Told = [id \in Ids |-> 0]
    BY Zenon DEF Init, Told
  <2> QED
    BY Zenon, <2>1, <2>2 DEF Lifecycle!LifecycleInit
<1>2. SessionInv /\ [Next]_vars => [Lifecycle!LifecycleNext]_(Lifecycle!lifecycleVars)
  <2> SUFFICES ASSUME SessionInv, [Next]_vars
               PROVE  Lifecycle!LifecycleNext \/ UNCHANGED Lifecycle!lifecycleVars
    BY Zenon
  <2>1. CASE Still
    BY Zenon, <2>1 DEF Still, Lifecycle!lifecycleVars, Status, Told, Revoked
  <2>2. ASSUME NEW id \in Ids, Takes(id) PROVE Lifecycle!LifecycleNext
    BY Zenon, <2>2, TakesRefines DEF Lifecycle!LifecycleNext
  <2>3. ASSUME NEW S \in SUBSET channels, Closes(S) PROVE Lifecycle!LifecycleNext
    BY Zenon, <2>3, ClosesRefines DEF Lifecycle!LifecycleNext
  <2> QED
    BY Zenon, <2>1, <2>2, <2>3, MapStep
<1> QED
  BY <1>1, <1>2, SessionCorrect, PTL DEF Spec, ImplementsLifecycle, Lifecycle!LifecycleSpec
=============================================================================
