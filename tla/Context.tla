------------------------------ MODULE Context ------------------------------
(***************************************************************************)
(* The registry of services: the list of running services, the services    *)
(* that wait for the end of the bootstrap, the ports they are given, the   *)
(* acceptors that listen for them on the acceptor thread, and the signals  *)
(* that tell subscribers of services coming and going. The context's       *)
(* constructor and destructor run on one thread; services insert and remove *)
(* other services from any thread.                                         *)
(***************************************************************************)
EXTENDS Naturals, Sequences, FiniteSets, Functions

CONSTANTS
  Configured,     \* names of the configured services, a sequence
  Extra,          \* names of services that other services start
  Threads,        \* threads other than the context's own
  Pinned,         \* the pinned ports, by name
  MaxPort,        \* the shared ports are 1..MaxPort
  MaxActor,       \* bound on the actors made
  None

Main == "context"
Callers == Threads \cup {Main}
Names == Range(Configured) \cup Extra
Ports == 1..MaxPort
Actors == 1..MaxActor

ASSUME ContextAssumption ==
  /\ MaxPort \in Nat /\ MaxActor \in Nat /\ IsFiniteSet(Threads)
  /\ Configured \in Seq(Range(Configured))
  /\ \A n \in DOMAIN Pinned : Pinned[n] \notin Ports \cup {None}
  /\ Main \notin Threads /\ None \notin Names \cup Actors \cup Ports

VARIABLES
  m_services,     \* the list: a sequence of actors
  m_unpublished,  \* a sequence of actors
  m_bootstrapped,
  lock,           \* who holds m_services
  name,           \* actor -> its name, None before it is made
  port,           \* actor -> the port it was given
  acceptor,       \* actor -> "none", "listening" or "closed"
  loop,           \* handlers of the acceptor thread, in order
  accepting,      \* actors with an asynchronous accept outstanding
  running,        \* the acceptor thread
  m_shared,       \* the queue of free shared ports
  m_in_use,       \* name -> port or None
  signals,        \* the history of the hub
  pc,             \* where a thread is
  self,           \* the actor a thread works on
  todo            \* configured services the context has still to treat

registry == <<m_services, m_unpublished, m_bootstrapped, lock>>
actorVars == <<name, port, acceptor>>
loopVars == <<loop, accepting, running>>
mapper == <<m_shared, m_in_use>>
threadVars == <<pc, self, todo>>
vars == <<registry, actorVars, loopVars, mapper, signals, threadVars>>

Init ==
  /\ m_services = <<>> /\ m_unpublished = <<>> /\ m_bootstrapped = FALSE /\ lock = None
  /\ name = [a \in Actors |-> None] /\ port = [a \in Actors |-> None]
  /\ acceptor = [a \in Actors |-> "none"]
  /\ loop = <<>> /\ accepting = {} /\ running = TRUE
  /\ m_shared = [p \in Ports |-> p] /\ m_in_use = [n \in Names |-> None]
  /\ signals = <<>>
  /\ pc = [t \in Callers |-> IF t = Main THEN "start" ELSE "idle"]
  /\ self = [t \in Callers |-> None]
  /\ todo = Configured

Listed(n) == \E i \in DOMAIN m_services : name[m_services[i]] = n
Unmade == {a \in Actors : name[a] = None}
Event(kind, n) == [kind |-> kind, service |-> n]
Goto(t, label) == pc' = [pc EXCEPT ![t] = label]

-----------------------------------------------------------------------------
(* Ports *)

Held == {port[a] : a \in {b \in Actors : acceptor[b] = "listening"}}

\* Mutant: assign() does not look whether the name has a port.
AssignableAgain(n) == n \in DOMAIN Pinned \/ m_shared # <<>>

\* assign() refuses a name that has a port and an empty queue.
Assignable(n) == m_in_use[n] = None /\ (n \in DOMAIN Pinned \/ m_shared # <<>>)

NextPort(n) == IF n \in DOMAIN Pinned THEN Pinned[n] ELSE Head(m_shared)

Assign(n) ==
  /\ m_in_use' = [m_in_use EXCEPT ![n] = NextPort(n)]
  /\ m_shared' = IF n \in DOMAIN Pinned THEN m_shared ELSE Tail(m_shared)

Retain(n) ==
  /\ m_in_use' = [m_in_use EXCEPT ![n] = None]
  /\ m_shared' = IF n \in DOMAIN Pinned THEN m_shared ELSE Append(m_shared, m_in_use[n])

\* Mutant: the port is lost with the failed bind.
BindFailedLosesPort(n) ==
  /\ m_in_use' = m_in_use
  /\ m_shared' = IF n \in DOMAIN Pinned THEN m_shared ELSE Tail(m_shared)

\* assign() and, as the endpoint cannot be bound, retain().
BindFailed(n) ==
  /\ m_in_use' = m_in_use
  /\ m_shared' = IF n \in DOMAIN Pinned THEN m_shared ELSE Append(Tail(m_shared), Head(m_shared))

-----------------------------------------------------------------------------
(* publish() and what it calls; the caller holds m_services *)

\* run() and the signal, then the service goes on the list.
Publish(a, n) ==
  /\ Assignable(n) /\ NextPort(n) \notin Held
  /\ Assign(n)
  /\ port' = [port EXCEPT ![a] = NextPort(n)]
  /\ acceptor' = [acceptor EXCEPT ![a] = "listening"]
  /\ loop' = Append(loop, [kind |-> "run", actor |-> a])
  /\ signals' = Append(signals, Event("exposed", n))
  /\ m_services' = Append(m_services, a)

\* Mutant: the signal is fired before run().
PublishFailedSignalled(n) ==
  /\ IF Assignable(n) THEN BindFailed(n) ELSE UNCHANGED mapper
  /\ signals' = Append(signals, Event("exposed", n))
  /\ UNCHANGED <<port, acceptor, loop, m_services>>

\* run() throws, either from assign() or because the port cannot be bound; the
\* actor is destroyed.
PublishFailed(n) ==
  /\ IF Assignable(n) THEN BindFailed(n) ELSE UNCHANGED mapper
  /\ UNCHANGED <<port, acceptor, loop, signals, m_services>>

-----------------------------------------------------------------------------
(* The constructor of the context *)

\* insert() before the end of the bootstrap looks at m_services only.
BootInsert ==
  /\ pc[Main] = "start" /\ todo # <<>> /\ lock = None
  /\ \E a \in Unmade :
       /\ \A b \in Unmade : a <= b
       /\ name' = [name EXCEPT ![a] = Head(todo)]
       /\ m_unpublished' = Append(m_unpublished, a)
  /\ todo' = Tail(todo)
  /\ UNCHANGED <<m_services, m_bootstrapped, lock, port, acceptor, loopVars, mapper, signals, pc, self>>

\* publish_all(), which holds m_services throughout.
BootLock ==
  /\ pc[Main] = "start" /\ todo = <<>> /\ lock = None
  /\ lock' = Main /\ Goto(Main, "publish")
  /\ UNCHANGED <<m_services, m_unpublished, m_bootstrapped, actorVars, loopVars, mapper, signals, self, todo>>

BootPublish ==
  /\ pc[Main] = "publish" /\ m_unpublished # <<>>
  /\ Publish(Head(m_unpublished), name[Head(m_unpublished)])
  /\ m_unpublished' = Tail(m_unpublished)
  /\ UNCHANGED <<m_bootstrapped, lock, name, accepting, running, threadVars>>

\* A service does not start: "emergency core shutdown".
BootFailed ==
  /\ pc[Main] = "publish" /\ m_unpublished # <<>>
  /\ PublishFailed(name[Head(m_unpublished)])
  /\ lock' = None /\ Goto(Main, "terminate")
  /\ UNCHANGED <<m_unpublished, m_bootstrapped, name, accepting, running, self, todo>>

BootDone ==
  /\ pc[Main] = "publish" /\ m_unpublished = <<>>
  /\ m_bootstrapped' = TRUE /\ lock' = None /\ Goto(Main, "prepared")
  /\ UNCHANGED <<m_services, m_unpublished, actorVars, loopVars, mapper, signals, self, todo>>

Prepared ==
  /\ pc[Main] = "prepared"
  /\ signals' = Append(signals, Event("prepared", None))
  /\ Goto(Main, "up")
  /\ UNCHANGED <<registry, actorVars, loopVars, mapper, self, todo>>

-----------------------------------------------------------------------------
(* insert() and remove() *)

\* insert(), on success or when run() throws. A service may start another one
\* before the bootstrap is over.
Insert(n) ==
  /\ running /\ lock = None /\ ~Listed(n)
  /\ \E a \in Unmade :
       /\ \A b \in Unmade : a <= b
       /\ name' = [name EXCEPT ![a] = n]
       /\ \/ /\ ~m_bootstrapped /\ m_unpublished' = Append(m_unpublished, a)
             /\ UNCHANGED <<m_services, port, acceptor, loop, mapper, signals>>
          \/ /\ m_bootstrapped /\ UNCHANGED m_unpublished
             /\ Publish(a, n) \/ PublishFailed(n)
  /\ UNCHANGED <<m_bootstrapped, lock, accepting, running, threadVars>>

Without(list, i) == SubSeq(list, 1, i - 1) \o SubSeq(list, i + 1, Len(list))

\* remove(), under the lock: take the service from the list.
RemoveTake(t, n) ==
  /\ lock = None /\ Listed(n)
  /\ LET i == CHOOSE i \in DOMAIN m_services : name[m_services[i]] = n
     IN  /\ self' = [self EXCEPT ![t] = m_services[i]]
         /\ m_services' = Without(m_services, i)
  /\ UNCHANGED <<m_unpublished, m_bootstrapped, lock, actorVars, loopVars, mapper, signals>>

RemoveService(t, n) ==
  /\ t # Main /\ pc[t] = "idle" /\ running
  /\ RemoveTake(t, n) /\ Goto(t, "stop")
  /\ UNCHANGED todo

\* Its terminate(): post the cancellation and give the port back.
RemoveTerminate(t) ==
  /\ pc[t] = "stop"
  /\ loop' = Append(loop, [kind |-> "cancel", actor |-> self[t]])
  /\ Retain(name[self[t]])
  /\ Goto(t, "signal")
  /\ UNCHANGED <<registry, actorVars, accepting, running, signals, self, todo>>

RemoveSignal(t) ==
  /\ pc[t] = "signal"
  /\ signals' = Append(signals, Event("removed", name[self[t]]))
  /\ self' = [self EXCEPT ![t] = None]
  /\ Goto(t, IF t = Main THEN "remove" ELSE "idle")
  /\ UNCHANGED <<registry, actorVars, loopVars, mapper, todo>>

-----------------------------------------------------------------------------
(* terminate() *)

Terminate ==
  /\ pc[Main] \in {"up", "terminate"}
  /\ signals' = Append(signals, Event("shutdown", None))
  /\ todo' = Configured /\ Goto(Main, "remove")
  /\ UNCHANGED <<registry, actorVars, loopVars, mapper, self>>

TerminateRemove ==
  /\ pc[Main] = "remove" /\ todo # <<>> /\ lock = None
  /\ todo' = Tail(todo)
  /\ IF Listed(Head(todo))
       THEN RemoveTake(Main, Head(todo)) /\ Goto(Main, "stop")
       ELSE UNCHANGED <<registry, actorVars, loopVars, mapper, signals, pc, self>>

\* The acceptor thread is stopped, with whatever is left in its queue.
TerminateStop ==
  /\ pc[Main] = "remove" /\ todo = <<>>
  /\ running' = FALSE /\ Goto(Main, "down")
  /\ UNCHANGED <<registry, actorVars, loop, accepting, mapper, signals, self, todo>>

-----------------------------------------------------------------------------
(* The acceptor thread *)

Accept(a) ==
  /\ running /\ a \in accepting
  /\ accepting' = accepting \ {a}
  /\ loop' = Append(loop, [kind |-> "accepted", actor |-> a])
  /\ UNCHANGED <<registry, actorVars, running, mapper, signals, threadVars>>

\* accept_action_t::run(), and finalize() without an error, which ends in it.
RunAccept ==
  /\ running /\ loop # <<>> /\ Head(loop).kind \in {"run", "accepted"}
  /\ accepting' = accepting \cup {Head(loop).actor}
  /\ loop' = Tail(loop)
  /\ UNCHANGED <<registry, actorVars, running, mapper, signals, threadVars>>

\* acceptor->cancel(): the accept that is outstanding, if any, is aborted and
\* the last reference to the acceptor goes.
RunCancel ==
  /\ running /\ loop # <<>> /\ Head(loop).kind = "cancel"
  /\ LET a == Head(loop).actor
     IN  /\ acceptor' = IF a \in accepting THEN [acceptor EXCEPT ![a] = "closed"] ELSE acceptor
         /\ accepting' = accepting \ {a}
  /\ loop' = Tail(loop)
  /\ UNCHANGED <<registry, name, port, running, mapper, signals, threadVars>>

-----------------------------------------------------------------------------

Next ==
  \/ BootInsert \/ BootLock \/ BootPublish \/ BootFailed \/ BootDone \/ Prepared
  \/ \E n \in Extra : Insert(n)
  \/ \E t \in Threads, n \in Names : RemoveService(t, n)
  \/ \E t \in Callers : RemoveTerminate(t) \/ RemoveSignal(t)
  \/ Terminate \/ TerminateRemove \/ TerminateStop
  \/ \E a \in Actors : Accept(a)
  \/ RunAccept \/ RunCancel

Spec == Init /\ [][Next]_vars

\* The acceptor thread runs its handlers, and remove() and terminate() go on.
FairSpec ==
  /\ Spec /\ WF_vars(RunAccept \/ RunCancel) /\ WF_vars(TerminateRemove \/ TerminateStop)
  /\ WF_vars(pc[Main] = "terminate" /\ Terminate)
  /\ \A t \in Callers : WF_vars(RemoveTerminate(t) \/ RemoveSignal(t))

-----------------------------------------------------------------------------
(* Properties *)

\* No two services of one name run, even though services that wait for the
\* end of the bootstrap are not compared with each other.
UniqueNames ==
  \A i, j \in DOMAIN m_services :
    name[m_services[i]] = name[m_services[j]] => i = j

\* Every shared port is in the queue or in use, once, on every path through
\* start, failure and removal: the pool neither leaks nor doubles a port.
PortsConserved ==
  \A p \in Ports :
    Cardinality({i \in DOMAIN m_shared : m_shared[i] = p})
      + Cardinality({n \in Names : m_in_use[n] = p}) = 1

Count(kind, n) == Cardinality({i \in DOMAIN signals : signals[i] = Event(kind, n)})

\* The history of the hub accounts for every service: exposed and removed
\* signals of a name differ exactly by the services of that name that are
\* listed or whose removal has still to be signalled.
SignalsAddUp ==
  \A n \in Names :
    Count("exposed", n) =
      Count("removed", n)
        + Cardinality({i \in DOMAIN m_services : name[m_services[i]] = n})
        + Cardinality({t \in Callers : self[t] # None /\ name[self[t]] = n})

\* "Service is already terminated" when its removal is signalled: its acceptor
\* is closed, or will be, unless the acceptor thread is stopped first.
TerminatedCloses ==
  \A a \in Actors :
    (\E i \in DOMAIN loop : loop[i] = [kind |-> "cancel", actor |-> a])
      ~> acceptor[a] = "closed" \/ ~running
=============================================================================
