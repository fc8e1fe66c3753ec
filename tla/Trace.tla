------------------------------- MODULE Trace -------------------------------
(***************************************************************************)
(* The trace of a request as it follows the request through the threads of *)
(* the process: each thread has a current trace, scopes set and restore    *)
(* it, callbacks carry a copy to the thread that runs them, and channels   *)
(* keep the one their messages belong to.                                  *)
(***************************************************************************)
EXTENDS Naturals, Sequences

CONSTANTS
  EngineThread,   \* the engine's thread, which handles and encodes messages
  ServiceThread,  \* a thread of a service
  Incoming,       \* the trace headers an invocation may bring: <<>> or ids
  MaxChannel,     \* bound on the channels of the session
  MaxFresh,       \* bound on the spans generated
  MaxJobs,        \* bound on the callbacks that wait for a thread
  MaxSent         \* bound on the messages sent

ASSUME TraceAssumption ==
  /\ EngineThread # ServiceThread
  /\ \A ids \in Incoming : ids = <<>> \/ ids \in Nat \X Nat \X Nat

VARIABLES
  current,        \* trace_t::current() of each thread
  scopes,         \* the guards open on each thread, the innermost last
  running,        \* what each thread executes: a record with its channel
  jobs,           \* callbacks posted to each thread
  channels,       \* channel -> its trace
  maxChannel,     \* max_channel_id
  fresh,          \* spans generated so far
  sent,           \* messages encoded: ids in the headers, ids of the sender
  asserted        \* an assertion of pop() failed

traceVars == <<current, scopes, running, jobs, channels, maxChannel, fresh, sent, asserted>>

Threads == {EngineThread, ServiceThread}

-----------------------------------------------------------------------------
(* trace_t *)

State(span, parent) == [span |-> span, parent |-> parent]

Trace0 == [id |-> 0, state |-> State(0, 0), previous |-> State(0, 0), pushed |-> FALSE]

Empty(t) == t.id = 0

\* get_trace_id(), get_id(), get_parent_id()
Ids(t) == <<t.id, t.state.span, t.state.parent>>

\* What the constructor refuses: ids next to no trace, a trace without a span.
ValidIds(ids) == IF ids[1] = 0 THEN ids[2] = 0 /\ ids[3] = 0 ELSE ids[2] # 0

TraceOf(ids) == [Trace0 EXCEPT !.id = ids[1], !.state = State(ids[2], ids[3])]

PushTrace(t, span) ==
  IF Empty(t) THEN t
  ELSE [t EXCEPT !.pushed = TRUE, !.previous = t.state, !.state = State(span, t.state.span)]

PopTrace(t) == IF Empty(t) THEN t ELSE [t EXCEPT !.state = t.previous, !.pushed = FALSE]

PopFails(t) == ~Empty(t) /\ (t.state.parent = 0 \/ ~t.pushed)

\* A span generate_id() returns: it is random, so it is taken to be new.
FreshSpan == 1000 + fresh

\* restore_scope_t: an empty trace leaves the current one in place.
Scope(th, new) == [old |-> current[th], restored |-> ~Empty(new)]
Restored(th, new) == IF Empty(new) THEN current[th] ELSE new

-----------------------------------------------------------------------------
Idle == [kind |-> "idle", channel |-> 0]

TraceInit ==
  /\ current = [th \in Threads |-> Trace0]
  /\ scopes = [th \in Threads |-> <<>>]
  /\ running = [th \in Threads |-> Idle]
  /\ jobs = [th \in Threads |-> <<>>]
  /\ channels = <<>>
  /\ maxChannel = 0
  /\ fresh = 0
  /\ sent = <<>>
  /\ asserted = FALSE

Busy(th) == running[th] # Idle

\* The part of handle() from the scope on: a message of a forked channel
\* ends the span that was pushed for it.
EnterHandler(ch, t) ==
  LET now == Restored(EngineThread, t)
  IN  /\ scopes' = [scopes EXCEPT ![EngineThread] = <<Scope(EngineThread, t)>>]
      /\ running' = [running EXCEPT ![EngineThread] = [kind |-> "message", channel |-> ch]]
      /\ current' = [current EXCEPT ![EngineThread] = IF now.pushed THEN PopTrace(now) ELSE now]
      /\ asserted' = (asserted \/ (now.pushed /\ PopFails(now)))

\* handle() of a message on a new channel, with the trace of its headers.
HandleNew(ids) ==
  /\ ~Busy(EngineThread) /\ maxChannel < MaxChannel
  /\ ids # <<>> => ValidIds(ids)
  /\ LET t == IF ids = <<>> THEN Trace0 ELSE TraceOf(ids)
     IN  /\ channels' = Append(channels, t)
         /\ maxChannel' = maxChannel + 1
         /\ EnterHandler(maxChannel + 1, t)
  /\ UNCHANGED <<jobs, fresh, sent>>

\* handle() of a message on a channel there is.
HandleKnown(ch) ==
  /\ ~Busy(EngineThread)
  /\ EnterHandler(ch, channels[ch])
  /\ UNCHANGED <<jobs, channels, maxChannel, fresh, sent>>

\* fork(): the new channel gets a copy of the current trace with a span of
\* its own pushed on it.
Fork(th) ==
  /\ Busy(th) /\ maxChannel < MaxChannel /\ fresh < MaxFresh
  /\ channels' = Append(channels, PushTrace(current[th], FreshSpan))
  /\ maxChannel' = maxChannel + 1
  /\ fresh' = fresh + 1
  /\ UNCHANGED <<current, scopes, running, jobs, sent, asserted>>

\* The message push_action_t encodes on the loop under trace t, sent by a
\* thread whose trace had these ids.
Encoded(t, from) == [ids |-> Ids(t), from |-> from]

\* push() on the loop itself: dispatch() calls the bound action at once.
SendHere ==
  /\ Busy(EngineThread) /\ Len(sent) < MaxSent
  /\ sent' = Append(sent, Encoded(Restored(EngineThread, current[EngineThread]), Ids(current[EngineThread])))
  /\ UNCHANGED <<current, scopes, running, jobs, channels, maxChannel, fresh, asserted>>

Job(kind, th) == [kind |-> kind, trace |-> current[th], from |-> Ids(current[th])]

\* Mutant: push() posts its action without the trace.
PostUnbound(kind, th, to) ==
  /\ Busy(th) /\ Len(jobs[to]) < MaxJobs
  /\ jobs' = [jobs EXCEPT ![to] = Append(@, [Job(kind, th) EXCEPT !.trace = IF kind = "push" THEN Trace0 ELSE @])]
  /\ UNCHANGED <<current, scopes, running, channels, maxChannel, fresh, sent, asserted>>

\* bind() and post: push() from another thread, or work handed to a thread.
PostJob(kind, th, to) ==
  /\ Busy(th) /\ Len(jobs[to]) < MaxJobs
  /\ jobs' = [jobs EXCEPT ![to] = Append(@, Job(kind, th))]
  /\ UNCHANGED <<current, scopes, running, channels, maxChannel, fresh, sent, asserted>>

\* callable_wrapper of a push action: scope, encode, end of the scope.
RunPush ==
  /\ ~Busy(EngineThread) /\ jobs[EngineThread] # <<>> /\ Len(sent) < MaxSent
  /\ LET j == Head(jobs[EngineThread])
     IN  sent' = Append(sent, Encoded(Restored(EngineThread, j.trace), j.from))
  /\ jobs' = [jobs EXCEPT ![EngineThread] = Tail(@)]
  /\ UNCHANGED <<current, scopes, running, channels, maxChannel, fresh, asserted>>

\* callable_wrapper of work for the service's thread.
RunTask ==
  /\ ~Busy(ServiceThread) /\ jobs[ServiceThread] # <<>>
  /\ LET t == Head(jobs[ServiceThread]).trace
     IN  /\ scopes' = [scopes EXCEPT ![ServiceThread] = <<Scope(ServiceThread, t)>>]
         /\ current' = [current EXCEPT ![ServiceThread] = Restored(ServiceThread, t)]
  /\ running' = [running EXCEPT ![ServiceThread] = [kind |-> "task", channel |-> 0]]
  /\ jobs' = [jobs EXCEPT ![ServiceThread] = Tail(@)]
  /\ UNCHANGED <<channels, maxChannel, fresh, sent, asserted>>

\* The service's thread starts on something of its own, outside any trace.
RunOwn ==
  /\ ~Busy(ServiceThread) /\ jobs[ServiceThread] = <<>>
  /\ running' = [running EXCEPT ![ServiceThread] = [kind |-> "own", channel |-> 0]]
  /\ UNCHANGED <<current, scopes, jobs, channels, maxChannel, fresh, sent, asserted>>

PushGuard == [old |-> Trace0, restored |-> FALSE]
InPushScope(th) == scopes[th] # <<>> /\ scopes[th][Len(scopes[th])] = PushGuard /\ Len(scopes[th]) = 2

\* push_scope_t: one level, as was_pushed keeps one.
PushScope(th) ==
  /\ Busy(th) /\ Len(scopes[th]) = 1 /\ fresh < MaxFresh /\ ~Empty(current[th])
  /\ scopes' = [scopes EXCEPT ![th] = Append(@, PushGuard)]
  /\ current' = [current EXCEPT ![th] = PushTrace(@, FreshSpan)]
  /\ fresh' = fresh + 1
  /\ UNCHANGED <<running, jobs, channels, maxChannel, sent, asserted>>

PopScope(th) ==
  /\ InPushScope(th)
  /\ scopes' = [scopes EXCEPT ![th] = SubSeq(@, 1, 1)]
  /\ current' = [current EXCEPT ![th] = PopTrace(@)]
  /\ asserted' = (asserted \/ PopFails(current[th]))
  /\ UNCHANGED <<running, jobs, channels, maxChannel, fresh, sent>>

\* The handler or the callback returns or throws: ~restore_scope_t.
HandlerReturns(th) ==
  /\ Busy(th) /\ ~InPushScope(th)
  /\ current' = [current EXCEPT ![th] =
       IF scopes[th] # <<>> /\ scopes[th][1].restored THEN scopes[th][1].old ELSE @]
  /\ scopes' = [scopes EXCEPT ![th] = <<>>]
  /\ running' = [running EXCEPT ![th] = Idle]
  /\ UNCHANGED <<jobs, channels, maxChannel, fresh, sent, asserted>>

Silent ==
  \/ \E ids \in Incoming : HandleNew(ids)
  \/ \E ch \in DOMAIN channels : HandleKnown(ch)
  \/ \E th \in Threads : Fork(th) \/ PushScope(th) \/ PopScope(th) \/ HandlerReturns(th)
  \/ PostJob("task", EngineThread, ServiceThread)
  \/ PostJob("push", ServiceThread, EngineThread)
  \/ RunTask
  \/ RunOwn

Speaks == SendHere \/ RunPush

TraceSpec == TraceInit /\ [][Silent \/ Speaks]_traceVars

-----------------------------------------------------------------------------
\* The ids in a message are those of the thread that sent it at the moment it
\* called push(), although the loop encodes it later and under a trace of its
\* own; a message sent outside any trace carries none.  A span is ended only
\* where one was begun: no assertion of pop() fails.
TraceOfSender == ~asserted /\ \A i \in DOMAIN sent : sent[i].ids = sent[i].from

=============================================================================
