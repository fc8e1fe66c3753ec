------------------------------- MODULE Engine -------------------------------
(***************************************************************************)
(* An execution unit: one io_service run by one thread (chamber_t), the map *)
(* of the sessions it serves, and two periodic actions, the collector of   *)
(* detached sessions and the load statistics. Sockets are attached from    *)
(* other threads; the destructor posts a handler that detaches everything  *)
(* and then waits until the loop has run out of work.                      *)
(***************************************************************************)
EXTENDS Naturals, Sequences

CONSTANTS
  Sessions,
  Attachers,      \* threads that attach sockets to this engine
  MaxFd,          \* descriptors are 1..MaxFd
  Null

Fds == 1..MaxFd

ASSUME EngineAssumption == MaxFd \in Nat /\ Null \notin Sessions \cup Fds

VARIABLES
  queue,          \* handlers ready to run, in order
  cron,           \* m_cron of the unit: "idle", "armed", "null" or "fault"
  stats,          \* cron of the chamber: "idle" or "armed"
  m_sessions,     \* descriptor -> session or Null
  fd,             \* session -> descriptor of its transport, Null without one
  reading,        \* sessions with an asynchronous read outstanding
  attaching,      \* attacher -> the registration it has yet to post
  dtor            \* "no", "stop" (posted), "cancel" (posted), "joined"

timers == <<cron, stats>>
engineVars == <<queue, timers, m_sessions, fd, reading, attaching, dtor>>

Handler(kind, s, d) == [kind |-> kind, session |-> s, fd |-> d]
Post(q, kind) == Append(q, Handler(kind, Null, Null))

\* The constructors have posted the first rounds of both periodic actions.
EngineInit ==
  /\ queue = Post(Post(<<>>, "stats"), "gc")
  /\ cron = "idle" /\ stats = "idle"
  /\ m_sessions = [d \in Fds |-> Null]
  /\ fd = [s \in Sessions |-> Null]
  /\ reading = {}
  /\ attaching = [a \in Attachers |-> Handler("none", Null, Null)]
  /\ dtor = "no"

\* The registration of a session is on its way.
Registering(s) ==
  \/ \E a \in Attachers : attaching[a].session = s
  \/ \E i \in DOMAIN queue : queue[i].kind = "insert" /\ queue[i].session = s

Fresh == {s \in Sessions : /\ fd[s] = Null /\ ~Registering(s)
                           /\ \A d \in Fds : m_sessions[d] # s
                           /\ \A i \in DOMAIN queue : queue[i].session # s}
FreeFds == {d \in Fds : \A s \in Sessions : fd[s] # d}

-----------------------------------------------------------------------------
(* attach *)

\* dup(), which returns the lowest free descriptor, the new session and its
\* pull(), which is posted to the loop.
AttachPull(a, s) ==
  /\ dtor = "no" /\ attaching[a].kind = "none"
  /\ s \in Fresh
  /\ \E d \in FreeFds :
       /\ \A e \in FreeFds : d <= e
       /\ fd' = [fd EXCEPT ![s] = d]
       /\ attaching' = [attaching EXCEPT ![a] = Handler("insert", s, d)]
  /\ queue' = Append(queue, Handler("pull", s, Null))
  /\ UNCHANGED <<timers, m_sessions, reading, dtor>>

\* The registration is posted.
AttachPost(a) ==
  /\ attaching[a].kind = "insert"
  /\ queue' = Append(queue, attaching[a])
  /\ attaching' = [attaching EXCEPT ![a] = Handler("none", Null, Null)]
  /\ UNCHANGED <<timers, m_sessions, fd, reading, dtor>>

-----------------------------------------------------------------------------
(* What the reactor adds to the queue *)

\* The peer goes away: the read completes with an error.
PeerCloses(s) ==
  /\ s \in reading
  /\ reading' = reading \ {s}
  /\ queue' = Append(queue, Handler("eof", s, Null))
  /\ UNCHANGED <<timers, m_sessions, fd, attaching, dtor>>

CronExpires ==
  /\ cron = "armed"
  /\ cron' = "idle" /\ queue' = Post(queue, "gc_tick")
  /\ UNCHANGED <<stats, m_sessions, fd, reading, attaching, dtor>>

StatsExpires ==
  /\ stats = "armed"
  /\ stats' = "idle" /\ queue' = Post(queue, "stats")
  /\ UNCHANGED <<cron, m_sessions, fd, reading, attaching, dtor>>

-----------------------------------------------------------------------------
(* Handlers, run by the thread of the chamber *)

Runs(kind) == queue # <<>> /\ Head(queue).kind = kind /\ dtor # "joined"

\* pull_action_t::operator(): start to read.
RunPull ==
  /\ Runs("pull")
  /\ reading' = reading \cup {Head(queue).session}
  /\ queue' = Tail(queue)
  /\ UNCHANGED <<timers, m_sessions, fd, attaching, dtor>>

\* m_sessions[fd] = session
RunInsert ==
  /\ Runs("insert")
  /\ m_sessions' = [m_sessions EXCEPT ![Head(queue).fd] = Head(queue).session]
  /\ queue' = Tail(queue)
  /\ UNCHANGED <<timers, fd, reading, attaching, dtor>>

\* pull_action_t::finalize(ec): the session detaches itself and closes.
RunEof ==
  /\ Runs("eof")
  /\ fd' = [fd EXCEPT ![Head(queue).session] = Null]
  /\ queue' = Tail(queue)
  /\ UNCHANGED <<timers, m_sessions, reading, attaching, dtor>>

\* gc_action_t::operator(): "always performs existence check for timer".
ArmCron == IF cron = "null" THEN "null" ELSE "armed"

RunGc ==
  /\ Runs("gc")
  /\ cron' = ArmCron
  /\ queue' = Tail(queue)
  /\ UNCHANGED <<stats, m_sessions, fd, reading, attaching, dtor>>

\* Mutant: sessions without an outstanding read are collected.
IdleSession(s) == s \notin reading

\* memory_pressure() is zero exactly without a transport.
Recyclable(s) == fd[s] = Null

\* gc_action_t::finalize()
RunGcTick ==
  /\ Runs("gc_tick")
  /\ m_sessions' = [d \in Fds |-> IF m_sessions[d] # Null /\ Recyclable(m_sessions[d])
                                    THEN Null ELSE m_sessions[d]]
  /\ cron' = ArmCron
  /\ queue' = Tail(queue)
  /\ UNCHANGED <<stats, fd, reading, attaching, dtor>>

\* stats_periodic_action_t::operator(), alone or at the end of finalize().
RunStats ==
  /\ Runs("stats")
  /\ stats' = "armed"
  /\ queue' = Tail(queue)
  /\ UNCHANGED <<cron, m_sessions, fd, reading, attaching, dtor>>

\* Mutant: only one session is detached.
DetachSome == {CHOOSE s \in Sessions : TRUE} \cap {m_sessions[d] : d \in Fds}

DetachAll == {m_sessions[d] : d \in Fds}

\* The handler of ~execution_unit_t(): detach the sessions of the map, which
\* aborts their reads, and destroy the timer.
RunStop ==
  /\ Runs("stop")
  /\ fd' = [s \in Sessions |-> IF s \in DetachAll THEN Null ELSE fd[s]]
  /\ reading' = reading \ DetachAll
  /\ cron' = "null"
  /\ queue' = Tail(queue)
  /\ UNCHANGED <<stats, m_sessions, attaching, dtor>>

\* The handler of ~chamber_t(): cancel a wait that has not come to its end. An
\* aborted wait does nothing more.
RunCancel ==
  /\ Runs("cancel")
  /\ stats' = "idle"
  /\ queue' = Tail(queue)
  /\ UNCHANGED <<cron, m_sessions, fd, reading, attaching, dtor>>

-----------------------------------------------------------------------------
(* The destructors, after the last attach *)

PostStop ==
  /\ dtor = "no" /\ \A a \in Attachers : attaching[a].kind = "none"
  /\ dtor' = "stop" /\ queue' = Post(queue, "stop")
  /\ UNCHANGED <<timers, m_sessions, fd, reading, attaching>>

Cancel ==
  /\ dtor = "stop"
  /\ dtor' = "cancel" /\ queue' = Post(queue, "cancel")
  /\ UNCHANGED <<timers, m_sessions, fd, reading, attaching>>

\* run() returns once there is neither a handler nor an operation left.
Join ==
  /\ dtor = "cancel"
  /\ queue = <<>> /\ stats # "armed" /\ cron # "armed" /\ reading = {}
  /\ dtor' = "joined"
  /\ UNCHANGED <<queue, timers, m_sessions, fd, reading, attaching>>

Destroyed == dtor = "joined" /\ UNCHANGED engineVars

-----------------------------------------------------------------------------

RunHandler ==
  \/ RunPull \/ RunInsert \/ RunEof \/ RunGc \/ RunGcTick \/ RunStats \/ RunStop \/ RunCancel

EngineNext ==
  \/ \E a \in Attachers, s \in Sessions : AttachPull(a, s)
  \/ \E a \in Attachers : AttachPost(a)
  \/ \E s \in Sessions : PeerCloses(s)
  \/ CronExpires \/ StatsExpires
  \/ RunHandler
  \/ PostStop \/ Cancel \/ Join \/ Destroyed

EngineSpec == EngineInit /\ [][EngineNext]_engineVars

\* The thread runs its loop, timers expire, and a destructor goes on. Nobody
\* has to attach or leave, or to destroy the engine.
EngineFairness ==
  /\ WF_engineVars(RunHandler) /\ WF_engineVars(CronExpires) /\ WF_engineVars(StatsExpires)
  /\ WF_engineVars(Cancel) /\ WF_engineVars(Join)

EngineFairSpec == EngineSpec /\ EngineFairness

-----------------------------------------------------------------------------
(* Properties *)

\* The engine knows every session with a transport, or is about to: it stands
\* in m_sessions under its own descriptor, or its registration is under way.
\* Neither the collector nor a reused descriptor makes the engine forget it.
NoneForgotten ==
  \A s \in Sessions : fd[s] # Null => m_sessions[fd[s]] = s \/ Registering(s)

\* What may still keep the loop of an engine from its end once the destructors
\* have begun: nothing but the statistics of the chamber.
OnlyStats ==
  dtor = "stop" ~>
    \/ dtor = "joined"
    \/ /\ \A i \in DOMAIN queue : queue[i].kind = "stats"
       /\ cron = "null" /\ reading = {}

\* ~chamber_t() returns: the loop stops when nobody else has left operations
\* outstanding.
Stops == dtor = "stop" ~> dtor = "joined"
=============================================================================
