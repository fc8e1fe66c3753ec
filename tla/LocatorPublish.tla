--------------------------- MODULE LocatorPublish ---------------------------
(***************************************************************************)
(* How a locator makes the services of its node known: local services by  *)
(* the context's signals on the locator's loop, external ones by publish   *)
(* slots on engine threads.  on_service() enters a service in the gateway, *)
(* then looks at m_cluster, then updates the snapshot and the streams to   *)
(* the other locators under one lock; another thread may come in between.  *)
(***************************************************************************)
EXTENDS Naturals, Sequences

CONSTANTS
  Owners,         \* local services and external publishers
  Locals,         \* those of them that are local
  Service,        \* owner -> name
  Location,       \* owner -> location; Nowhere for an empty list of endpoints
  Unversioned,    \* publishers of a protocol without a version
  Services,       \* names of services
  Restricted,     \* m_cfg.restricted
  Peers,          \* the other locators
  MaxStreams,     \* bound on the streams that peers open
  Nowhere

ASSUME PublishAssumption ==
  /\ Locals \subseteq Owners /\ Unversioned \subseteq Owners \ Locals
  /\ Service \in [Owners -> Services] /\ Restricted \subseteq Services
  /\ MaxStreams \in Nat

VARIABLES
  own_gateway,    \* service -> location, of those under the node's own uuid; or Gone
  has_gateway,    \* m_gateway is set
  m_cluster,      \* m_cluster is set
  m_signals,      \* the context's signals are listened to
  m_snapshots,    \* service -> location, or Gone
  m_remotes,      \* peer -> stream, 0 for none
  told,           \* stream -> what its updates say of every service
  peer,           \* stream -> whose it is
  closed,         \* streams that are closed
  at,             \* owner -> where it is in publishing or withdrawing
  connected,      \* publishers with a session
  process,        \* the process runs
  clash           \* history: services that two owners had at a time

publishVars == <<own_gateway, has_gateway, m_cluster, m_signals, m_snapshots, m_remotes,
                 told, peer, closed, at, connected, process, clash>>

Gone == "gone"
InService == {"consumed", "checked", "cleaned", "unchecked"}
Holding == InService \cup {"held", "leaked"}

\* What a remote locator makes of a location: none is a removal.
Heard(location) == IF location = Nowhere THEN Gone ELSE location
Visible == [s \in Services |-> Heard(m_snapshots[s])]
Nothing == [s \in Services |-> Gone]

PublishInit(cast, gateway, cluster) ==
  /\ own_gateway = [s \in Services |-> Gone]
  /\ has_gateway = gateway /\ m_cluster = cluster /\ m_signals = TRUE
  /\ m_snapshots = [s \in Services |-> Gone]
  /\ m_remotes = [q \in Peers |-> 0]
  /\ told = <<>> /\ peer = <<>> /\ closed = {}
  /\ at = [a \in Owners |-> IF a \in cast THEN "idle" ELSE "absent"]
  /\ connected = cast \ Locals
  /\ process = TRUE /\ clash = {}

\* Signals and the shutdown are handled by the locator's loop, one at a time.
LoopFree == \A a \in Locals : at[a] \notin InService
MayRun(a) == process /\ (a \in Locals => LoopFree /\ m_signals)

Go(a, where) == at' = [at EXCEPT ![a] = where]

\* An exception: the slot of a publisher fails, the loop ends the process.
Throw(a, where) ==
  IF a \in Locals THEN process' = FALSE /\ UNCHANGED at ELSE Go(a, where) /\ UNCHANGED process

\* The slot returns.  A lock for a session that is gone is never discarded.
Exposed(a) == IF a \in Locals \cup connected THEN "held" ELSE "leaked"

\* The slot, up to the gateway: consume() refuses a service it has.
Expose(a) ==
  /\ at[a] = "idle" /\ MayRun(a) /\ a \in Locals \cup connected
  /\ LET s == Service[a]
         taken == has_gateway /\ own_gateway[s] # Gone
     IN  \/ /\ a \in Unversioned \/ taken
            /\ Throw(a, "refused")
            /\ UNCHANGED <<own_gateway, clash>>
         \/ /\ a \notin Unversioned /\ ~taken
            /\ own_gateway' = IF has_gateway THEN [own_gateway EXCEPT ![s] = Location[a]] ELSE own_gateway
            /\ clash' = IF \E b \in Owners \ {a} : Service[b] = s /\ at[b] \in Holding
                        THEN clash \cup {s} ELSE clash
            /\ Go(a, "consumed") /\ UNCHANGED process
  /\ UNCHANGED <<has_gateway, m_cluster, m_signals, m_snapshots, m_remotes, told, peer, closed, connected>>

\* on_service() returns for a restricted service or without a cluster; both
\* are looked at before the lock is taken.
CheckCluster(a) ==
  /\ process /\ at[a] \in {"consumed", "cleaned"}
  /\ LET hidden == Service[a] \in Restricted \/ ~m_cluster
     IN  \/ at[a] = "consumed" /\ Go(a, IF hidden THEN Exposed(a) ELSE "checked")
         \/ at[a] = "cleaned" /\ Go(a, IF hidden THEN "left" ELSE "unchecked")
  /\ UNCHANGED <<own_gateway, has_gateway, m_cluster, m_signals, m_snapshots, m_remotes, told, peer,
                 closed, connected, process, clash>>

\* The update goes to every stream; a closed one answers with an error that
\* nobody looks at.
Broadcast(s, location) ==
  told' = [i \in DOMAIN told |->
             IF i \notin closed /\ \E q \in Peers : m_remotes[q] = i
             THEN [told[i] EXCEPT ![s] = Heard(location)] ELSE told[i]]

\* The rest of on_service(), under the lock of m_remotes.
Announce(a) ==
  /\ process /\ at[a] = "checked"
  /\ LET s == Service[a]
     IN  \/ /\ m_snapshots[s] # Gone
            /\ UNCHANGED <<m_snapshots, told>>
         \/ /\ m_snapshots[s] = Gone
            /\ m_snapshots' = [m_snapshots EXCEPT ![s] = Location[a]]
            /\ Broadcast(s, Location[a])
  /\ Go(a, Exposed(a))
  /\ UNCHANGED <<own_gateway, has_gateway, m_cluster, m_signals, m_remotes, peer, closed, connected,
                 process, clash>>

\* A service is removed; a publisher discards its lock or its session ends.
Discard(a) ==
  /\ at[a] = "held" /\ MayRun(a)
  /\ LET s == Service[a]
     IN  \/ /\ has_gateway /\ own_gateway[s] = Gone
            /\ Throw(a, "left")
            /\ UNCHANGED own_gateway
         \/ /\ ~(has_gateway /\ own_gateway[s] = Gone)
            /\ own_gateway' = [own_gateway EXCEPT ![s] = Gone]
            /\ Go(a, "cleaned") /\ UNCHANGED process
  /\ UNCHANGED <<has_gateway, m_cluster, m_signals, m_snapshots, m_remotes, told, peer, closed, connected, clash>>

\* Mutant: the snapshot keeps the service.
WithdrawKeeping(a) ==
  /\ process /\ at[a] = "unchecked"
  /\ Broadcast(Service[a], Nowhere)
  /\ Go(a, "left")
  /\ UNCHANGED <<own_gateway, has_gateway, m_cluster, m_signals, m_snapshots, m_remotes, peer, closed,
                 connected, process, clash>>

Withdraw(a) ==
  /\ process /\ at[a] = "unchecked"
  /\ m_snapshots' = [m_snapshots EXCEPT ![Service[a]] = Gone]
  /\ Broadcast(Service[a], Nowhere)
  /\ Go(a, "left")
  /\ UNCHANGED <<own_gateway, has_gateway, m_cluster, m_signals, m_remotes, peer, closed, connected,
                 process, clash>>

Disconnect(a) ==
  /\ process /\ a \in connected
  /\ connected' = connected \ {a}
  /\ UNCHANGED <<own_gateway, has_gateway, m_cluster, m_signals, m_snapshots, m_remotes, told, peer,
                 closed, at, process, clash>>

\* Mutant: a peer that is known keeps its old stream in the map.
ConnectInserting(q) ==
  LET i == Len(told) + 1
  IN  /\ process /\ i <= MaxStreams
      /\ told' = [j \in 1..i |-> IF j = i THEN Visible ELSE told[j]]
      /\ peer' = [j \in 1..i |-> IF j = i THEN q ELSE peer[j]]
      /\ m_remotes' = IF m_cluster /\ m_remotes[q] = 0 THEN [m_remotes EXCEPT ![q] = i] ELSE m_remotes
      /\ closed' = IF m_cluster THEN closed ELSE closed \cup {i}
      /\ UNCHANGED <<own_gateway, has_gateway, m_cluster, m_signals, m_snapshots, at, connected, process, clash>>

\* on_connect(), under the lock of m_remotes: the first message is the
\* snapshot.  A stream that is replaced stays open.
Connect(q) ==
  LET i == Len(told) + 1
  IN  /\ process /\ i <= MaxStreams
      /\ told' = [j \in 1..i |-> IF j # i THEN told[j] ELSE IF m_cluster THEN Visible ELSE Nothing]
      /\ peer' = [j \in 1..i |-> IF j = i THEN q ELSE peer[j]]
      /\ m_remotes' = IF m_cluster THEN [m_remotes EXCEPT ![q] = i] ELSE m_remotes
      /\ closed' = IF m_cluster THEN closed ELSE closed \cup {i}
      /\ UNCHANGED <<own_gateway, has_gateway, m_cluster, m_signals, m_snapshots, at, connected, process, clash>>

\* on_context_shutdown()
Shutdown ==
  /\ process /\ m_signals /\ LoopFree
  /\ m_cluster' = FALSE /\ m_signals' = FALSE
  /\ closed' = closed \cup {m_remotes[q] : q \in {q \in Peers : m_remotes[q] # 0}}
  /\ UNCHANGED <<own_gateway, has_gateway, m_snapshots, m_remotes, told, peer, at, connected, process, clash>>

PublishNext ==
  \/ \E a \in Owners : Expose(a) \/ CheckCluster(a) \/ Announce(a) \/ Discard(a) \/ Withdraw(a) \/ Disconnect(a)
  \/ \E q \in Peers : Connect(q)
  \/ Shutdown

PublishSpec ==
  /\ \E cast \in SUBSET Owners, gated, clustered \in BOOLEAN : PublishInit(cast, gated, clustered)
  /\ [][PublishNext]_publishVars

-----------------------------------------------------------------------------
LastStream(q) == {i \in DOMAIN peer : peer[i] = q /\ \A j \in DOMAIN peer : peer[j] = q => j <= i}

\* The last stream of every peer tells exactly the services of the snapshot,
\* whichever threads published, withdrew and connected in between; without a
\* cluster, and after on_context_shutdown(), that stream is closed.
PeersFollow ==
  \A q \in Peers : \A i \in LastStream(q) :
    /\ i \in closed <=> ~m_cluster
    /\ m_cluster => told[i] = Visible

\* A service with one owner at a time is in the gateway and in the snapshot
\* exactly while that owner has its lock, with the owner's location; a lock
\* that was handed to a session already gone counts as held for good.
PublishedWhileHeld ==
  \A s \in Services \ clash :
    (\A a \in Owners : Service[a] = s => at[a] \notin InService) =>
      LET holders == {a \in Owners : Service[a] = s /\ at[a] \in {"held", "leaked"}}
          here == IF holders = {} THEN Gone ELSE Location[CHOOSE a \in holders : TRUE]
      IN  /\ has_gateway => own_gateway[s] = here
          /\ m_cluster /\ s \notin Restricted => m_snapshots[s] = here
=============================================================================
