--------------------------- MODULE LocatorRouting ---------------------------
(***************************************************************************)
(* Routing groups.  on_refresh() reads them from the storage into m_rgs    *)
(* and sends all of m_rgs to every router; a router's stream also gets     *)
(* them when it is attached.  Both run on any engine thread, and on_routing *)
(* reads m_rgs, finds the stream and writes to it under different locks.   *)
(***************************************************************************)
EXTENDS Naturals, Sequences

CONSTANTS
  Routings,       \* routing requests, each of a session of its own
  Ruid,           \* request -> router id
  Refreshes,      \* refresh requests
  Listed,         \* request -> the groups to refresh
  Groups,         \* names of routing groups
  MaxStores,      \* bound on the changes of the stored groups
  MaxRouterStreams

Ruids == {Ruid[s] : s \in Routings}

ASSUME RoutingAssumption ==
  /\ Routings \cap Refreshes = {}
  /\ Listed \in [Refreshes -> SUBSET Groups] /\ MaxStores \in Nat /\ MaxRouterStreams \in Nat

VARIABLES
  stored,         \* group -> "none", "bad" for one that cannot be read, or a version
  stores,
  m_rgs,          \* group -> "none" or a version
  m_routers,      \* ruid -> stream, 0 for none
  view,           \* stream -> the groups last written to it
  choked,         \* streams that are closed
  online,         \* routing requests whose session is up
  job,            \* thread -> where it is, and what it has read
  \* History
  stale,          \* streams last written with groups that had changed already
  usurped         \* routers whose stream was erased in place of an older one

routingVars == <<stored, stores, m_rgs, m_routers, view, choked, online, job, stale, usurped>>

Quiet == {"new", "attached", "leaked", "detached", "done", "failed"}
Thread(step, stream) == [step |-> step, results |-> <<>>, stream |-> stream, updated |-> {}, todo |-> {}]

RoutingInit(cast) ==
  /\ stored = [g \in Groups |-> "old"] /\ stores = 0
  /\ m_rgs = [g \in Groups |-> "old"]
  /\ m_routers = [r \in Ruids |-> 0]
  /\ view = <<>> /\ choked = {}
  /\ online = Routings \cap cast
  /\ job = [t \in Routings \cup Refreshes |-> Thread(IF t \in cast THEN "new" ELSE "done", 0)]
  /\ stale = {} /\ usurped = {}

\* The router that a thread is at.
NextOf(todo) == CHOOSE r \in todo : TRUE
At(t) == IF t \in Routings THEN Ruid[t] ELSE NextOf(job[t].todo)
Step(t, step) ==
  job' = [job EXCEPT ![t] = IF step \in Quiet THEN Thread(step, @.stream) ELSE [@ EXCEPT !.step = step]]

\* Somebody changes a group in the storage.
Store(g, v) ==
  /\ stores < MaxStores /\ stored[g] # v
  /\ stored' = [stored EXCEPT ![g] = v] /\ stores' = stores + 1
  /\ UNCHANGED <<m_rgs, m_routers, view, choked, online, job, stale, usurped>>

\* on_refresh(): find(), before any lock.
FindGroups(t) ==
  /\ t \in Refreshes /\ job[t].step = "new"
  /\ job' = [job EXCEPT ![t].step = "found", ![t].updated = {g \in Groups : stored[g] # "none"}]
  /\ UNCHANGED <<stored, stores, m_rgs, m_routers, view, choked, online, stale, usurped>>

Unreadable(t) == {g \in Listed[t] \cap job[t].updated : stored[g] \in {"none", "bad"}}

\* Mutant: groups are changed one by one in place.
ApplyGroupsInPlace(t) ==
  /\ t \in Refreshes /\ job[t].step = "found"
  /\ m_rgs' = [g \in Groups |->
                 IF g \notin Listed[t] THEN m_rgs[g]
                 ELSE IF g \in job[t].updated \ Unreadable(t) THEN stored[g] ELSE "none"]
  /\ Step(t, IF Unreadable(t) # {} THEN "failed" ELSE "listing")
  /\ UNCHANGED <<stored, stores, m_routers, view, choked, online, stale, usurped>>

\* The copy that is updated group by group, under the lock of m_rgs; get()
\* or the continuum of a group may fail, and nothing is changed then.
ApplyGroups(t) ==
  /\ t \in Refreshes /\ job[t].step = "found"
  /\ \/ /\ Unreadable(t) # {}
        /\ Step(t, "failed") /\ UNCHANGED m_rgs
     \/ /\ Unreadable(t) = {}
        /\ m_rgs' = [g \in Groups |->
                       IF g \notin Listed[t] THEN m_rgs[g]
                       ELSE IF g \in job[t].updated THEN stored[g] ELSE "none"]
        /\ Step(t, "listing")
  /\ UNCHANGED <<stored, stores, m_routers, view, choked, online, stale, usurped>>

Turn(t, todo) ==
  job' = [job EXCEPT ![t] = IF todo = {} THEN Thread("done", 0)
                            ELSE [Thread("read", 0) EXCEPT !.todo = todo]]

\* Mutant: the loop begins at the second router.
ListRoutersButOne(t) ==
  /\ t \in Refreshes /\ job[t].step = "listing"
  /\ LET all == {r \in Ruids : m_routers[r] # 0}
     IN  Turn(t, IF all = {} THEN {} ELSE all \ {CHOOSE r \in all : TRUE})
  /\ UNCHANGED <<stored, stores, m_rgs, m_routers, view, choked, online, stale, usurped>>

ListRouters(t) ==
  /\ t \in Refreshes /\ job[t].step = "listing"
  /\ Turn(t, {r \in Ruids : m_routers[r] # 0})
  /\ UNCHANGED <<stored, stores, m_rgs, m_routers, view, choked, online, stale, usurped>>

\* routing_slot_t: on_routing(ruid, true) begins.
Routing(s) ==
  /\ s \in online /\ job[s].step = "new"
  /\ Step(s, "read")
  /\ UNCHANGED <<stored, stores, m_rgs, m_routers, view, choked, online, stale, usurped>>

\* on_routing(): the groups are read,
ReadGroups(t) ==
  /\ job[t].step = "read"
  /\ job' = [job EXCEPT ![t].step = "take", ![t].results = m_rgs]
  /\ UNCHANGED <<stored, stores, m_rgs, m_routers, view, choked, online, stale, usurped>>

\* then a stream is made for a router that has none or attaches anew,
TakeStream(t) ==
  /\ job[t].step = "take"
  /\ LET i == Len(view) + 1
         r == At(t)
     IN  \/ /\ t \in Routings \/ m_routers[r] = 0
            /\ i <= MaxRouterStreams
            /\ view' = [j \in 1..i |-> IF j = i THEN <<>> ELSE view[j]]
            /\ m_routers' = [m_routers EXCEPT ![r] = i]
            /\ job' = [job EXCEPT ![t].step = "write", ![t].stream = i]
         \/ /\ t \notin Routings /\ m_routers[r] # 0
            /\ job' = [job EXCEPT ![t].step = "write", ![t].stream = m_routers[r]]
            /\ UNCHANGED <<view, m_routers>>
  /\ UNCHANGED <<stored, stores, m_rgs, choked, online, stale, usurped>>

\* then written to.  A closed stream is an error: a refresh forgets the
\* router, a routing request fails and leaves the entry.  The slot attaches
\* the stream and returns its lock, in vain if the session is gone.
WriteGroups(t) ==
  /\ job[t].step = "write"
  /\ LET i == job[t].stream
         failed == i \in choked
     IN  /\ view' = IF failed THEN view ELSE [view EXCEPT ![i] = job[t].results]
         /\ stale' = IF failed THEN stale ELSE IF job[t].results = m_rgs THEN stale \ {i} ELSE stale \cup {i}
         /\ usurped' = IF t \in Refreshes /\ failed /\ m_routers[At(t)] \notin {0, i}
                       THEN usurped \cup {At(t)} ELSE usurped
         /\ \/ /\ t \in Routings
               /\ Step(t, IF failed THEN "failed" ELSE IF t \in online THEN "attached" ELSE "leaked")
               /\ UNCHANGED m_routers
            \/ /\ t \in Refreshes
               /\ Turn(t, job[t].todo \ {At(t)})
               /\ m_routers' = IF failed THEN [m_routers EXCEPT ![At(t)] = 0] ELSE m_routers
  /\ UNCHANGED <<stored, stores, m_rgs, choked, online>>

\* The lock is discarded by the client or with its session: it erases the
\* stream of the router, be it its own or not.
Detach(s) ==
  /\ s \in online
  /\ online' = online \ {s}
  /\ \/ /\ job[s].step = "attached"
        /\ Step(s, "detached")
        /\ m_routers' = [m_routers EXCEPT ![Ruid[s]] = 0]
        /\ usurped' = IF m_routers[Ruid[s]] \notin {0, job[s].stream} THEN usurped \cup {Ruid[s]} ELSE usurped
     \/ /\ job[s].step # "attached"
        /\ UNCHANGED <<job, m_routers, usurped>>
  /\ UNCHANGED <<stored, stores, m_rgs, view, choked, stale>>

\* on_context_shutdown(): the streams are closed and stay in the map.
CloseRouters ==
  /\ choked' = choked \cup {m_routers[r] : r \in {r \in Ruids : m_routers[r] # 0}}
  /\ choked' # choked
  /\ UNCHANGED <<stored, stores, m_rgs, m_routers, view, online, job, stale, usurped>>

RoutingNext ==
  \/ \E g \in Groups, v \in {"none", "new", "bad"} : Store(g, v)
  \/ \E t \in Refreshes : FindGroups(t) \/ ApplyGroups(t) \/ ListRouters(t)
  \/ \E s \in Routings : Routing(s) \/ Detach(s)
  \/ \E t \in Routings \cup Refreshes : ReadGroups(t) \/ TakeStream(t) \/ WriteGroups(t)
  \/ CloseRouters

RoutingSpec ==
  /\ \E cast \in SUBSET (Routings \cup Refreshes) : RoutingInit(cast)
  /\ [][RoutingNext]_routingVars

-----------------------------------------------------------------------------
\* When no thread is at it, a router that is attached has its stream in
\* m_routers and was last told the groups in m_rgs, unless a write was
\* overtaken by a refresh, or the end of an older stream of the same router
\* took the newer one out of the map.
RoutersCurrent ==
  (\A t \in Routings \cup Refreshes : job[t].step \in Quiet) =>
    \A s \in Routings :
      LET i == job[s].stream
          newest == \A o \in Routings : Ruid[o] = Ruid[s] => job[o].stream <= i
      IN  job[s].step = "attached" /\ newest /\ i \notin choked /\ Ruid[s] \notin usurped =>
            m_routers[Ruid[s]] = i /\ (i \notin stale => view[i] = m_rgs)

\* A refresh takes effect as a whole: after it every group is as it was in
\* the storage, and one that fails at some group changes none.
RefreshAtomic ==
  [][m_rgs' # m_rgs =>
       /\ \E t \in Refreshes : job[t].step = "found" /\ job'[t].step = "listing"
       /\ \A g \in Groups : m_rgs'[g] \in {"none", m_rgs[g], stored[g]}]_routingVars
=============================================================================
