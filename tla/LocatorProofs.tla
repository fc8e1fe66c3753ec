--------------------------- MODULE LocatorProofs ----------------------------
(***************************************************************************)
(* Proofs about the locator. LocatorLink, for any nodes, services and      *)
(* connections: the gateway keeps nothing without a sink to clean it up,   *)
(* and m_clients no session that is gone; the inductive invariant is the   *)
(* order in which a connection gets and loses its session, its sink and    *)
(* its entry in m_clients. LocatorPublish, for any owners, services, peers *)
(* and streams: the streams in m_remotes are the last ones of their peers, *)
(* on each of them the snapshot and the updates since add up to            *)
(* m_snapshots, and a service is published while its lock is held.         *)
(* LocatorRouting, for any groups, routers and requests: the newest stream *)
(* of a router was told the groups or is going to be. Announcer, for every *)
(* set of nodes and any number of datagrams: a node is dropped only by a   *)
(* wait that ran out, and every linked node has a wait or the end of one.  *)
(***************************************************************************)
EXTENDS LocatorLink, LocatorPublish, LocatorRouting, Announcer, SequenceFacts

-----------------------------------------------------------------------------
(* LocatorLink *)

\* The connection has no entry in m_clients.
Parted(c) == \A n \in Nodes : clients[n] # c

\* Until it is connected a connection has neither session nor entry; the
\* session comes before the sink, which goes only with the entry.
Ordered(c) ==
  /\ node[c] = None => link[c] = "none"
  /\ link[c] \in {"none", "connecting"} => session[c] = "none"
  /\ session[c] = "none" => Parted(c)
  /\ link[c] \in {"none", "connecting", "attached"} => sink[c] = "none"
  /\ link[c] \in {"attached", "forked", "sent"} => session[c] # "none"
  /\ link[c] \in {"forked", "sent", "done"} /\ session[c] # "none" => sink[c] # "none"
  /\ sweep[c] # "no" => session[c] = "down"
  /\ busy[c] # None => sink[c] \in {"bound", "told"}
  /\ busy[c] # None /\ sink[c] = "bound" => session[c] = "up" \/ sweep[c] # "no"

\* Whoever drops a node has taken its entry for good.
Dropped(c) ==
  /\ sink[c] \in {"told", "dead"} \/ sweep[c] = "quiet" => Parted(c)
  /\ busy[c] # None /\ busy[c].kind = "closed" => Parted(c)
  /\ \A t \in Threads : holds[t] = c => Parted(c) /\ session[c] # "none"

\* The part of the type invariant that most of the steps need.
ConnTypes ==
  /\ node \in [Conns -> Nodes \cup {None}]
  /\ link \in [Conns -> {"none", "connecting", "attached", "forked", "sent", "done"}]
  /\ session \in [Conns -> {"none", "up", "down"}]
  /\ sweep \in [Conns -> {"no", "error", "quiet"}]
  /\ sink \in [Conns -> {"none", "bound", "told", "dead"}]
  /\ busy \in [Conns -> Slots \cup {None}]

\* The inductive invariant of the links.
LinkInv ==
  /\ LinkTypeOK
  /\ \A c \in Conns : Ordered(c) /\ Dropped(c)
  /\ NoOrphans /\ DeadLinksGo

-----------------------------------------------------------------------------

\* The part of the type invariant that speaks of the connections.
LEMMA TypesOfConns == LinkTypeOK => ConnTypes
  BY Zenon DEF LinkTypeOK, ConnTypes

\* The invariant holds before the first announcement.
LEMMA LinkStarts == LinkInit => LinkInv
  <1> SUFFICES ASSUME LinkInit
               PROVE  LinkInv
    BY Zenon
  <1>1. \A c \in Conns : pipe[c] = <<>> /\ <<>> \in Seq(Messages)
    BY Zenon, EmptySequence DEF LinkInit
  <1>2. LinkTypeOK
    BY Zenon, <1>1, LinkAssumption DEF LinkInit, LinkTypeOK
  <1>3. \A c \in Conns : Ordered(c) /\ Dropped(c)
    BY Zenon, LinkAssumption DEF LinkInit, Ordered, Dropped, Parted
  <1>4. NoOrphans /\ DeadLinksGo
    BY Zenon DEF LinkInit, NoOrphans, DeadLinksGo
  <1> QED BY Zenon, <1>2, <1>3, <1>4 DEF LinkInv

\* A connection in use has a node.
LEMMA NodeKnown ==
  ASSUME LinkInv, NEW c \in Conns, link[c] # "none" \/ session[c] # "none"
  PROVE  node[c] \in Nodes
  <1>1. ConnTypes /\ Ordered(c)
    BY Zenon, TypesOfConns DEF LinkInv
  <1>2. link[c] # "none"
    BY Zenon, <1>1 DEF Ordered
  <1> QED BY Zenon, <1>1, <1>2 DEF Ordered, ConnTypes

\* A step that leaves a connection alone, but for its entry.
LEMMA Untouched ==
  ASSUME LinkInv, NEW d \in Conns, node'[d] = node[d], link'[d] = link[d], session'[d] = session[d],
         sweep'[d] = sweep[d], sink'[d] = sink[d], busy'[d] = busy[d], Parted(d) => Parted(d)'
  PROVE  /\ Ordered(d)'
         /\ (\A t \in Threads : holds'[t] = d => holds[t] = d) => Dropped(d)'
  <1>1. Ordered(d) /\ Dropped(d)
    BY Zenon DEF LinkInv
  <1>2. Ordered(d)'
    BY Zenon, <1>1 DEF Ordered
  <1>3. (\A t \in Threads : holds'[t] = d => holds[t] = d) => Dropped(d)'
    BY Zenon, <1>1 DEF Dropped
  <1> QED BY Zenon, <1>2, <1>3

\* The gateway loses nothing but entries of nodes whose sink has gone.
LEMMA OrphansKept ==
  ASSUME NoOrphans, gateway' \subseteq gateway,
         \A c \in Conns : Live(c) => node'[c] = node[c] /\ (Live(c)' \/ \A e \in gateway' : e[1] # node[c])
  PROVE  NoOrphans'
  BY DEF NoOrphans

\* link_node() takes a connection that was never used.
LEMMA LinkNodeKeeps ==
  ASSUME LinkInv, NEW n \in Nodes, LinkNode(n),
         UNCHANGED <<session, sweep, sink, busy, holds, gateway, remote, stream, pipe, changes>>,
         link_timer' \in [uuid : Nodes, fired : BOOLEAN] \cup {None},
         cluster' \in BOOLEAN, expiring' \in SUBSET Nodes
  PROVE  LinkInv'
  <1>1. CASE UNCHANGED <<clients, node, link>>
    BY <1>1 DEF LinkInv, LinkTypeOK, Ordered, Dropped, Parted, NoOrphans, Live, DeadLinksGo
  <1>2. ASSUME NEW c \in Unused, clients' = [clients EXCEPT ![n] = Pending],
               node' = [node EXCEPT ![c] = n], link' = [link EXCEPT ![c] = "connecting"]
        PROVE  LinkInv'
    <2>1. /\ c \in Conns /\ node[c] = None /\ Ordered(c) /\ Dropped(c)
          /\ LinkTypeOK /\ NoOrphans /\ DeadLinksGo
      BY Zenon DEF Unused, LinkInv
    <2>2. link[c] = "none" /\ session[c] = "none" /\ sink[c] = "none" /\ Parted(c) /\ busy[c] = None
      BY Zenon, <2>1 DEF Ordered
    <2>3. \A d \in Conns : d # Pending /\ (Parted(d) => Parted(d)')
      BY ZenonT(30), <1>2, LinkAssumption DEF LinkInv, LinkTypeOK, Parted
    <2>4. LinkTypeOK'
      BY SMTT(30), <1>2, <2>1, <2>2, <2>3 DEF LinkTypeOK, Parted
    <2>5. \A d \in Conns : Ordered(d)'
      BY SMTT(30), <1>2, <2>1, <2>2, <2>3, LinkAssumption DEF LinkInv, LinkTypeOK, Ordered
    <2>6. \A d \in Conns : Dropped(d)'
      BY Zenon, <1>2, <2>3 DEF LinkInv, Dropped
    <2>7. NoOrphans'
      <3>1. \A d \in Conns : Live(d) => node'[d] = node[d] /\ Live(d)'
        BY Zenon, <1>2, <2>1, <2>2 DEF LinkTypeOK, Live
      <3> QED BY Zenon, <3>1, <2>1, OrphansKept
    <2>8. DeadLinksGo'
      BY ZenonT(30), <1>2, <2>1, <2>2, <2>3 DEF LinkTypeOK, DeadLinksGo
    <2> QED BY Zenon, <2>4, <2>5, <2>6, <2>7, <2>8 DEF LinkInv
  <1> QED BY ZenonT(30), <1>1, <1>2 DEF LinkNode

\* drop_node() takes the entry of the node, whosever it is.
LEMMA DropNodeEffect ==
  ASSUME LinkTypeOK, NEW t \in Threads, NEW n \in Nodes, DropNode(t, n)
  PROVE  /\ clients' \in [Nodes -> Conns \cup {Absent, Pending}]
         /\ holds' \in [Threads -> Conns \cup {None}]
         /\ \A c \in Conns : Parted(c) => Parted(c)'
         /\ \A c \in Conns : node[c] = n => Parted(c)'
         /\ \A c \in Conns : holds'[t] = c => clients[n] = c /\ Parted(c)'
         /\ \A u \in Threads : u # t => holds'[u] = holds[u]
         /\ \A m \in Nodes : clients'[m] \in Conns => clients'[m] = clients[m]
  <1>1. /\ clients \in [Nodes -> Conns \cup {Absent, Pending}] /\ holds \in [Threads -> Conns \cup {None}]
        /\ \A m \in Nodes : clients[m] \in Conns => node[clients[m]] = m
        /\ Absent \notin Conns /\ None \notin Conns
    BY Zenon, LinkAssumption DEF LinkTypeOK
  <1>2. /\ holds' = [holds EXCEPT ![t] = IF clients[n] \in Conns THEN clients[n] ELSE None]
        /\ clients' = [clients EXCEPT ![n] = Absent]
    BY Zenon DEF DropNode
  <1>3. \A c \in Conns : node[c] = n => Parted(c)'
    BY Zenon, <1>1, <1>2 DEF Parted
  <1> QED BY Zenon, <1>1, <1>2, <1>3 DEF Parted

\* Entries leave m_clients and nothing else changes that matters.
LEMMA EntriesLeave ==
  ASSUME LinkInv, clients' \in [Nodes -> Conns \cup {Absent, Pending}],
         \A m \in Nodes : clients'[m] \in Conns => clients'[m] = clients[m],
         UNCHANGED <<node, link, session, sweep, sink, busy, gateway, remote, stream, pipe>>,
         link_timer' \in [uuid : Nodes, fired : BOOLEAN] \cup {None},
         cluster' \in BOOLEAN, expiring' \in SUBSET Nodes,
         holds' \in [Threads -> Conns \cup {None}],
         \A c \in Conns, t \in Threads : holds'[t] = c => holds[t] = c \/ (Parted(c)' /\ session[c] # "none")
  PROVE  LinkInv'
  <1>1. \A c \in Conns : Parted(c) => Parted(c)'
    BY Zenon DEF Parted
  <1>2. LinkTypeOK'
    BY Zenon DEF LinkInv, LinkTypeOK
  <1>3. \A c \in Conns : Ordered(c)'
    BY ZenonT(30), <1>1 DEF LinkInv, Ordered
  <1>4. \A c \in Conns : Dropped(c)'
    BY Zenon, <1>1 DEF LinkInv, Dropped
  <1>5. NoOrphans'
    BY Zenon DEF LinkInv, NoOrphans, Live
  <1>6. DeadLinksGo'
    BY Zenon DEF LinkInv, DeadLinksGo
  <1> QED BY Zenon, <1>2, <1>3, <1>4, <1>5, <1>6 DEF LinkInv

\* Steps of the loop that only take entries away.
LEMMA LoopDrops ==
  ASSUME LinkInv, LinkShutdown \/ \E n \in Nodes : Expire(n)
  PROVE  LinkInv'
  <1> USE DEF LinkInv
  <1>1. CASE LinkShutdown
    <2>1. UNCHANGED <<node, link, session, sweep, sink, busy, gateway, remote, stream, pipe, link_timer, holds>>
      BY Zenon, <1>1 DEF LinkShutdown, sessionVars, remoteVars
    <2>2. clients' = [n \in Nodes |-> Absent] /\ cluster' = FALSE /\ expiring' = {} /\ Absent \notin Conns
      BY Zenon, <1>1, LinkAssumption DEF LinkShutdown
    <2> QED BY <2>1, <2>2, EntriesLeave, Zenon DEF LinkTypeOK
  <1>2. ASSUME NEW n \in Nodes, Expire(n)
        PROVE  LinkInv'
    <2>1. /\ UNCHANGED <<node, link, session, sweep, sink, busy, gateway, remote, stream, pipe, link_timer, cluster>>
          /\ DropNode(Loop, n) /\ expiring' = expiring \ {n} /\ Loop \in Threads
      BY Zenon, <1>2 DEF Expire, sessionVars, remoteVars, Threads
    <2>2. /\ clients' \in [Nodes -> Conns \cup {Absent, Pending}]
          /\ holds' \in [Threads -> Conns \cup {None}]
          /\ \A c \in Conns : holds'[Loop] = c => clients[n] = c /\ Parted(c)'
          /\ \A u \in Threads : u # Loop => holds'[u] = holds[u]
          /\ \A m \in Nodes : clients'[m] \in Conns => clients'[m] = clients[m]
      BY Zenon, <2>1, DropNodeEffect
    <2>3. \A c \in Conns : clients[n] = c => session[c] # "none"
      BY ZenonT(30) DEF Ordered, Parted
    <2> QED BY Zenon, <2>1, <2>2, <2>3, EntriesLeave DEF LinkTypeOK
  <1> QED BY Zenon, <1>1, <1>2

\* detach() of a session that is up, by whoever.
LEMMA DetachKeeps ==
  ASSUME LinkInv, NEW c \in Conns, session[c] = "up", NEW ec \in {"error", "quiet"}, DetachSession(c, ec),
         ec = "quiet" => Parted(c),
         UNCHANGED <<clients, link_timer, node, link, sink, holds, cluster, expiring, remote, stream>>,
         busy' \in [Conns -> Slots \cup {None}],
         \A d \in Conns : (busy'[d] # None <=> busy[d] # None)
                        /\ (busy'[d] # None /\ busy'[d].kind = "closed" => busy[d].kind = "closed"),
         gateway' \in SUBSET (Nodes \X RemoteServices),
         \A e \in gateway' : e \in gateway \/ (e[1] = node[c] /\ busy[c] # None)
  PROVE  LinkInv'
  <1>1. /\ session' = [session EXCEPT ![c] = "down"] /\ sweep' = [sweep EXCEPT ![c] = ec]
        /\ pipe' = [pipe EXCEPT ![c] = <<>>] /\ <<>> \in Seq(Messages)
    BY Zenon, EmptySequence DEF DetachSession
  <1>2. LinkTypeOK'
    BY ZenonT(30), <1>1 DEF LinkInv, LinkTypeOK
  <1>3. \A d \in Conns : Parted(d)' <=> Parted(d)
    BY Zenon DEF Parted
  <1>4. \A d \in Conns : Ordered(d)'
    <2>1. /\ session'[c] = "down" /\ sweep'[c] = ec
          /\ \A d \in Conns : d # c => session'[d] = session[d] /\ sweep'[d] = sweep[d]
      BY Zenon, <1>1, TypesOfConns DEF LinkInv, ConnTypes
    <2>2. ASSUME NEW d \in Conns, d # c
          PROVE  Ordered(d)'
      <3>1. /\ Ordered(d) /\ session'[d] = session[d] /\ sweep'[d] = sweep[d]
            /\ node'[d] = node[d] /\ link'[d] = link[d] /\ sink'[d] = sink[d]
            /\ busy'[d] # None <=> busy[d] # None
            /\ busy'[d] # None /\ busy'[d].kind = "closed" => busy[d].kind = "closed"
        BY Zenon, <2>1, <2>2 DEF LinkInv
      <3> QED BY Zenon, <1>3, <3>1 DEF Ordered
    <2>3. Ordered(c)'
      BY Zenon, <1>3, <2>1 DEF LinkInv, Ordered
    <2> QED BY Zenon, <2>2, <2>3
  <1>5. \A d \in Conns : Dropped(d)'
    <2>1. /\ session'[c] = "down" /\ sweep'[c] = ec
          /\ \A d \in Conns : d # c => session'[d] = session[d] /\ sweep'[d] = sweep[d]
      BY Zenon, <1>1, TypesOfConns DEF LinkInv, ConnTypes
    <2>2. ASSUME NEW d \in Conns, d # c
          PROVE  Dropped(d)'
      <3>1. /\ Dropped(d) /\ session'[d] = session[d] /\ sweep'[d] = sweep[d]
            /\ node'[d] = node[d] /\ link'[d] = link[d] /\ sink'[d] = sink[d] /\ holds' = holds
            /\ busy'[d] # None <=> busy[d] # None
            /\ busy'[d] # None /\ busy'[d].kind = "closed" => busy[d].kind = "closed"
        BY Zenon, <2>1, <2>2 DEF LinkInv
      <3> QED BY Zenon, <1>3, <3>1 DEF Dropped
    <2>3. Dropped(c)'
      BY Zenon, <1>3, <2>1 DEF LinkInv, Dropped
    <2> QED BY Zenon, <2>2, <2>3
  <1>6. NoOrphans'
    <2>1. \A d \in Conns : Live(d) => Live(d)'
      BY ZenonT(30), <1>1 DEF LinkInv, LinkTypeOK, Live
    <2>2. busy[c] # None => Live(c)
      BY Zenon DEF LinkInv, Ordered, Live
    <2> QED BY Zenon, <2>1, <2>2 DEF LinkInv, NoOrphans
  <1>7. DeadLinksGo'
    BY <1>1 DEF LinkInv, LinkTypeOK, DeadLinksGo
  <1> QED BY Zenon, <1>2, <1>4, <1>5, <1>6, <1>7 DEF LinkInv

\* A session detached by a thread that let it go, or lost by the peer, keeps it.
LEMMA DetachSteps ==
  ASSUME LinkInv, (\E t \in Threads : DetachDropped(t)) \/ \E c \in Conns : Lose(c)
  PROVE  LinkInv'
  <1>1. ASSUME NEW t \in Threads, DetachDropped(t)
        PROVE  LinkInv'
    <2>1. /\ holds[t] \in Conns /\ session[holds[t]] = "up" /\ DetachSession(holds[t], "quiet")
          /\ UNCHANGED <<clients, link_timer, node, link, sink, busy, holds, gateway, cluster, expiring, remote, stream>>
      BY Zenon, <1>1 DEF LinkInv, LinkTypeOK, DetachDropped, clientVars, clusterVars
    <2>2. Parted(holds[t])
      BY Zenon, <2>1 DEF LinkInv, Dropped
    <2> QED BY Zenon, <2>1, <2>2, DetachKeeps DEF LinkInv, LinkTypeOK
  <1>2. ASSUME NEW c \in Conns, Lose(c)
        PROVE  LinkInv'
    <2>1. /\ session[c] = "up" /\ DetachSession(c, "error")
          /\ UNCHANGED <<clients, link_timer, node, link, sink, busy, holds, gateway, cluster, expiring, remote, stream>>
      BY Zenon, <1>2 DEF Lose, clientVars, clusterVars
    <2> QED BY Zenon, <2>1, DetachKeeps DEF LinkInv, LinkTypeOK
  <1> QED BY Zenon, <1>1, <1>2

-----------------------------------------------------------------------------
(* The connect handler *)

\* So does the end of the connect, whichever way it ended ...
LEMMA ConnectedKeeps ==
  ASSUME LinkInv, NEW c \in Conns, Connected(c)
  PROVE  LinkInv'
  <1>1. /\ UNCHANGED <<node, sweep, sink, busy, holds, gateway, cluster, expiring, remote, stream, pipe>>
        /\ link[c] = "connecting"
    BY Zenon DEF Connected, clusterVars, remoteVars
  <1>2. /\ LinkTypeOK /\ Ordered(c) /\ node[c] \in Nodes /\ session[c] = "none" /\ sink[c] = "none"
        /\ busy[c] = None /\ sweep[c] = "no" /\ \A t \in Threads : holds[t] # c
    <2>1. LinkTypeOK /\ Ordered(c) /\ Dropped(c)
      BY Zenon DEF LinkInv
    <2>2. session[c] = "none" /\ sink[c] = "none" /\ node[c] # None
      BY Zenon, <2>1, <1>1 DEF Ordered
    <2>3. busy[c] = None /\ sweep[c] = "no"
      BY Zenon, <2>1, <2>2 DEF Ordered
    <2>4. \A t \in Threads : holds[t] # c
      BY Zenon, <2>1, <2>2 DEF Dropped
    <2>5. node[c] \in Nodes
      BY <2>1, <2>2 DEF LinkTypeOK
    <2> QED BY Zenon, <2>1, <2>2, <2>3, <2>4, <2>5
  <1>3. /\ link_timer' \in [uuid : Nodes, fired : BOOLEAN] \cup {None}
        /\ \/ link' = [link EXCEPT ![c] = "done"] /\ session' = session /\ clients' = clients
           \/ link' = [link EXCEPT ![c] = "done"] /\ session' = session /\ clients' = [clients EXCEPT ![node[c]] = Absent]
           \/ /\ link' = [link EXCEPT ![c] = "attached"]
              /\ session' = [session EXCEPT ![c] = "up"] /\ clients' = [clients EXCEPT ![node[c]] = c]
    <2>1. link_timer \in [uuid : Nodes, fired : BOOLEAN] \cup {None}
      BY Zenon, <1>2 DEF LinkTypeOK
    <2>2. [uuid |-> node[c], fired |-> FALSE] \in [uuid : Nodes, fired : BOOLEAN]
      BY Zenon, <1>2
    <2>3. Disappeared(c) \/ ConnectFailed(c) \/ AttachFailed(c) \/ ConnectSucceeded(c)
      BY ZenonT(30) DEF Connected
    <2> QED BY <2>1, <2>2, <2>3, Zenon DEF Disappeared, ConnectFailed, RetryLinkNode, AttachFailed, ConnectSucceeded
  <1>4. \A d \in Conns : d # c /\ Parted(d) => Parted(d)'
    BY SMTT(30), <1>2, <1>3, LinkAssumption DEF LinkTypeOK, Parted
  <1>5. session'[c] = "none" => Parted(c)'
    BY SMTT(30), <1>2, <1>3, LinkAssumption DEF LinkTypeOK, Ordered, Parted
  <1>6. \A d \in Conns : /\ d # c => session'[d] = session[d] /\ link'[d] = link[d]
                         /\ session[d] = "up" => session'[d] = "up"
    BY ZenonT(30), <1>2, <1>3 DEF LinkTypeOK
  <1>7. LinkTypeOK'
    <2>1. link' \in [Conns -> {"none", "connecting", "attached", "forked", "sent", "done"}]
      BY <1>2, <1>3, ZenonT(30) DEF LinkTypeOK
    <2>2. session' \in [Conns -> {"none", "up", "down"}]
      BY Zenon, <1>2, <1>3 DEF LinkTypeOK
    <2>3. clients' \in [Nodes -> Conns \cup {Absent, Pending}]
      <3>1. clients \in [Nodes -> Conns \cup {Absent, Pending}]
        BY Zenon, <1>2 DEF LinkTypeOK
      <3> QED BY Zenon, <1>3, <3>1
    <2>4. \A d \in Conns : sink'[d] # "none" => session'[d] # "none"
      BY ZenonT(30), <1>1, <1>2, <1>6 DEF LinkTypeOK
    <2>5. \A n \in Nodes : clients'[n] \in Conns => node'[clients'[n]] = n
      <3>1. /\ clients \in [Nodes -> Conns \cup {Absent, Pending}]
            /\ \A n \in Nodes : clients[n] \in Conns => node[clients[n]] = n
        BY Zenon, <1>2 DEF LinkTypeOK
      <3> QED BY SMTT(30), <1>1, <1>2, <1>3, <3>1, LinkAssumption
    <2> QED BY Zenon, <1>1, <1>2, <1>3, <2>1, <2>2, <2>3, <2>4, <2>5 DEF LinkTypeOK
  <1>8. \A d \in Conns : Ordered(d)'
    <2>1. (link'[c] = "done" /\ session'[c] = "none") \/ (link'[c] = "attached" /\ session'[c] = "up")
      <3>1. /\ link \in [Conns -> {"none", "connecting", "attached", "forked", "sent", "done"}]
            /\ session \in [Conns -> {"none", "up", "down"}]
        BY Zenon, <1>2 DEF LinkTypeOK
      <3>2. \/ link' = [link EXCEPT ![c] = "done"] /\ session' = session
            \/ link' = [link EXCEPT ![c] = "attached"] /\ session' = [session EXCEPT ![c] = "up"]
        BY Zenon, <1>3
      <3>3. CASE link' = [link EXCEPT ![c] = "done"] /\ session' = session
        <4>1. link'[c] = "done"
          BY Zenon, <3>1, <3>3
        <4> QED BY Zenon, <1>2, <3>3, <4>1
      <3>4. CASE link' = [link EXCEPT ![c] = "attached"] /\ session' = [session EXCEPT ![c] = "up"]
        <4>1. link'[c] = "attached" /\ session'[c] = "up"
          BY Zenon, <3>1, <3>4
        <4> QED BY Zenon, <4>1
      <3> QED BY Zenon, <3>2, <3>3, <3>4
    <2>2. Ordered(c)'
      BY Zenon, <1>1, <1>2, <1>5, <2>1 DEF Ordered
    <2>3. ASSUME NEW d \in Conns, d # c
          PROVE  Ordered(d)'
      BY Zenon, <1>1, <1>4, <1>6, <2>3, Untouched
    <2> QED BY Zenon, <2>2, <2>3
  <1>9. \A d \in Conns : Dropped(d)'
    <2>1. Dropped(c)'
      BY Zenon, <1>1, <1>2 DEF Dropped
    <2>2. \A d \in Conns : d # c => Dropped(d)'
      BY Zenon, <1>1, <1>4, <1>6 DEF LinkInv, Dropped
    <2> QED BY Zenon, <2>1, <2>2
  <1>10. NoOrphans'
    <2>1. \A d \in Conns : Live(d) => node'[d] = node[d] /\ Live(d)'
      BY Zenon, <1>1, <1>6 DEF Live
    <2> QED BY Zenon, <2>1, <1>1, OrphansKept DEF LinkInv
  <1>11. DeadLinksGo'
    <2> SUFFICES ASSUME NEW n \in Nodes, NEW d \in Conns, clients'[n] = d, session'[d] = "down"
                 PROVE  sweep'[d] # "no" \/ link'[d] \in {"attached", "forked"}
      BY Zenon DEF DeadLinksGo
    <2>1. d # c
      BY Zenon, <1>2, <1>3 DEF LinkTypeOK
    <2>2. clients[n] = d
      <3>1. clients \in [Nodes -> Conns \cup {Absent, Pending}]
        BY Zenon, <1>2 DEF LinkTypeOK
      <3> QED BY Zenon, <2>1, <1>2, <1>3, <3>1, LinkAssumption
    <2> QED BY Zenon, <2>1, <2>2, <1>1, <1>6 DEF LinkInv, DeadLinksGo
  <1> QED BY Zenon, <1>7, <1>8, <1>9, <1>10, <1>11 DEF LinkInv

\* ... the fork of the announce sink on the new session ...
LEMMA ForkSinkKeeps ==
  ASSUME LinkInv, NEW c \in Conns, ForkSink(c)
  PROVE  LinkInv'
  <1>1. /\ UNCHANGED <<clients, link_timer, node, session, sweep, busy, holds, gateway, cluster, expiring, remote, stream, pipe>>
        /\ link[c] = "attached" /\ link' = [link EXCEPT ![c] = "forked"] /\ sink' = [sink EXCEPT ![c] = "bound"]
    BY Zenon DEF ForkSink, clientVars, sessionVars, clusterVars, remoteVars
  <1>2. LinkTypeOK /\ sink[c] = "none" /\ session[c] # "none" /\ busy[c] = None
    BY Zenon, <1>1 DEF LinkInv, Ordered
  <1>3. \A d \in Conns : Parted(d)' <=> Parted(d)
    BY Zenon, <1>1 DEF Parted
  <1>4. LinkTypeOK'
    BY Zenon, <1>1, <1>2 DEF LinkTypeOK
  <1>5. \A d \in Conns : Ordered(d)'
    <2>1. /\ link'[c] = "forked" /\ sink'[c] = "bound"
          /\ \A d \in Conns : d # c => link'[d] = link[d] /\ sink'[d] = sink[d]
      BY Zenon, <1>1, <1>2, TypesOfConns DEF ConnTypes
    <2>2. ASSUME NEW d \in Conns, d # c
          PROVE  Ordered(d)'
      BY Zenon, <1>1, <1>3, <2>1, <2>2, Untouched
    <2>3. Ordered(c)'
      BY Zenon, <1>1, <1>2, <1>3, <2>1 DEF LinkInv, Ordered
    <2> QED BY Zenon, <2>2, <2>3
  <1>6. \A d \in Conns : Dropped(d)'
    BY Zenon, <1>1, <1>2, <1>3 DEF LinkInv, Dropped, LinkTypeOK
  <1>7. NoOrphans'
    <2>1. \A d \in Conns : Live(d) => node'[d] = node[d] /\ Live(d)'
      BY Zenon, <1>1, <1>2 DEF LinkTypeOK, Live
    <2> QED BY Zenon, <2>1, <1>1, OrphansKept DEF LinkInv
  <1>8. DeadLinksGo'
    BY ZenonT(30), <1>1, <1>2 DEF LinkInv, LinkTypeOK, DeadLinksGo
  <1> QED BY Zenon, <1>4, <1>5, <1>6, <1>7, <1>8 DEF LinkInv

\* ... and the connect message, sent or refused by a detached session.
LEMMA SendConnectKeeps ==
  ASSUME LinkInv, NEW c \in Conns, SendConnect(c)
  PROVE  LinkInv'
  <1>1. /\ UNCHANGED <<link_timer, node, session, sweep, sink, busy, holds, gateway, cluster, expiring, remote, stream, pipe>>
        /\ link[c] = "forked"
        /\ \/ session[c] = "up" /\ link' = [link EXCEPT ![c] = "sent"] /\ clients' = clients
           \/ link' = [link EXCEPT ![c] = "done"] /\ clients' = [clients EXCEPT ![node[c]] = Absent]
    BY Zenon DEF SendConnect, SendFailed, sessionVars, clusterVars, remoteVars
  <1>2. LinkTypeOK /\ node[c] \in Nodes /\ clients \in [Nodes -> Conns \cup {Absent, Pending}]
    BY Zenon, <1>1, NodeKnown DEF LinkInv, LinkTypeOK
  <1>3. \A d \in Conns : Parted(d) => Parted(d)'
    BY Zenon, <1>1, <1>2, LinkAssumption DEF Parted
  <1>4. LinkTypeOK'
    BY <1>1, <1>2, LinkAssumption, ZenonT(30) DEF LinkTypeOK
  <1>5. \A d \in Conns : Ordered(d)'
    <2>1. \A d \in Conns : link'[d] = link[d] \/ (link[d] = "forked" /\ link'[d] \in {"sent", "done"})
      BY Zenon, <1>1, <1>2, TypesOfConns DEF ConnTypes
    <2>2. \A d \in Conns : link'[d] = link[d] => Ordered(d)'
      BY ZenonT(30), <1>1, <1>3 DEF LinkInv, Ordered
    <2>3. \A d \in Conns : link[d] = "forked" /\ link'[d] \in {"sent", "done"} => Ordered(d)'
      BY Zenon, <1>1, <1>3 DEF LinkInv, Ordered
    <2> QED BY Zenon, <2>1, <2>2, <2>3
  <1>6. \A d \in Conns : Dropped(d)'
    BY Zenon, <1>1, <1>2, <1>3 DEF LinkInv, Dropped
  <1>7. NoOrphans'
    BY Zenon, <1>1 DEF LinkInv, NoOrphans, Live
  <1>8. DeadLinksGo'
    <2> SUFFICES ASSUME NEW n \in Nodes, NEW d \in Conns, clients'[n] = d, session'[d] = "down"
                 PROVE  sweep'[d] # "no" \/ link'[d] \in {"attached", "forked"}
      BY Zenon DEF DeadLinksGo
    <2>1. clients[n] = d /\ node[d] = n
      BY <1>1, <1>2, LinkAssumption, ZenonT(30) DEF LinkTypeOK
    <2>2. d # c
      <3>1. link[c] = "forked" /\ (session[c] = "up" \/ clients' = [clients EXCEPT ![node[c]] = Absent])
        BY Zenon, <1>1
      <3> QED BY Zenon, <2>1, <3>1, <1>1, <1>2, LinkAssumption
    <2> QED BY Zenon, <2>1, <2>2, <1>1 DEF LinkInv, LinkTypeOK, DeadLinksGo
  <1> QED BY Zenon, <1>4, <1>5, <1>6, <1>7, <1>8 DEF LinkInv

-----------------------------------------------------------------------------
(* The remote node *)

\* A message is put into a pipe, or lost.
LEMMA DeliverType ==
  ASSUME LinkTypeOK, NEW c \in Conns, NEW m \in Messages
  PROVE  Deliver(c, m) \in [Conns -> Seq(Messages)]
  <1>1. pipe \in [Conns -> Seq(Messages)] /\ Append(pipe[c], m) \in Seq(Messages)
    BY Zenon, Appended DEF LinkTypeOK
  <1> QED BY Zenon, <1>1 DEF Deliver

\* Only the far end and what is under way change.
LEMMA PipesChange ==
  ASSUME LinkInv, pipe' \in [Conns -> Seq(Messages)], stream' \in [Nodes -> Conns \cup {None}],
         remote' \in [Nodes -> SUBSET RemoteServices],
         UNCHANGED <<clients, link_timer, node, session, sweep, sink, busy, holds, gateway, cluster, expiring>>,
         link' = link \/ \E c \in Conns : link[c] = "sent" /\ link' = [link EXCEPT ![c] = "done"]
  PROVE  LinkInv'
  <1>1. /\ link' \in [Conns -> {"none", "connecting", "attached", "forked", "sent", "done"}]
        /\ \A c \in Conns : link'[c] = link[c] \/ (link[c] = "sent" /\ link'[c] = "done")
    BY ZenonT(30) DEF LinkInv, LinkTypeOK
  <1>2. LinkTypeOK'
    BY Zenon, <1>1 DEF LinkInv, LinkTypeOK
  <1>3. \A c \in Conns : Parted(c)' <=> Parted(c)
    BY Zenon DEF Parted
  <1>4. \A c \in Conns : Ordered(c)'
    BY SMTT(30), <1>1, <1>3 DEF LinkInv, Ordered
  <1>5. \A c \in Conns : Dropped(c)'
    BY Zenon, <1>3 DEF LinkInv, Dropped
  <1>6. NoOrphans'
    BY Zenon DEF LinkInv, NoOrphans, Live
  <1>7. DeadLinksGo'
    BY <1>1, Zenon DEF LinkInv, DeadLinksGo
  <1> QED BY Zenon, <1>2, <1>4, <1>5, <1>6, <1>7 DEF LinkInv

\* What the remote node does keeps it.
LEMMA RemoteSteps ==
  ASSUME LinkInv, \/ \E c \in Conns : RemoteAccept(c)
                  \/ \E n \in Nodes : RemoteClose(n)
                  \/ \E n \in Nodes, s \in RemoteServices : RemoteChange(n, s)
  PROVE  LinkInv'
  <1> USE DEF clientVars, sessionVars, clusterVars
  <1>0. LinkTypeOK /\ \A these, gone \in SUBSET RemoteServices : Update(these, gone) \in Messages
    BY Zenon DEF LinkInv, Update, Messages
  <1>1. ASSUME NEW c \in Conns, RemoteAccept(c)
        PROVE  LinkInv'
    <2>1. node[c] \in Nodes
      <3>1. link[c] = "sent" /\ Ordered(c) /\ ConnTypes
        BY Zenon, <1>0, <1>1, TypesOfConns DEF LinkInv, RemoteAccept
      <3> QED BY Zenon, <3>1 DEF Ordered, ConnTypes
    <2>2. Alien \in Messages /\ Update(remote[node[c]], {}) \in Messages
      BY <2>1, <1>0, Zenon DEF LinkTypeOK, Alien, Messages
    <2>3. pipe' \in [Conns -> Seq(Messages)]
      <3>1. pipe' = Deliver(c, Alien) \/ pipe' = Deliver(c, Update(remote[node[c]], {})) \/ pipe' = pipe
        BY Zenon, <1>1 DEF RemoteAccept
      <3>2. pipe \in [Conns -> Seq(Messages)]
        BY Zenon, <1>0 DEF LinkTypeOK
      <3> QED BY Zenon, <1>0, <2>2, <3>1, <3>2, DeliverType
    <2>4. stream' \in [Nodes -> Conns \cup {None}]
      BY <1>0, <1>1, ZenonT(30) DEF RemoteAccept, LinkTypeOK
    <2> QED BY <1>0, <1>1, <2>3, <2>4, PipesChange, Zenon DEF RemoteAccept, LinkTypeOK
  <1>2. ASSUME NEW n \in Nodes, RemoteClose(n)
        PROVE  LinkInv'
    <2>1. stream[n] \in Conns /\ Choke \in Messages
      BY Zenon, <1>0, <1>2 DEF RemoteClose, LinkTypeOK, Choke, Messages
    <2>2. pipe' \in [Conns -> Seq(Messages)]
      BY Zenon, <1>0, <1>2, <2>1, DeliverType DEF RemoteClose
    <2>3. stream' \in [Nodes -> Conns \cup {None}]
      BY Zenon, <1>0, <1>2 DEF RemoteClose, LinkTypeOK
    <2> QED BY Zenon, <1>0, <1>2, <2>2, <2>3, PipesChange DEF RemoteClose, LinkTypeOK
  <1>3. ASSUME NEW n \in Nodes, NEW s \in RemoteServices, RemoteChange(n, s)
        PROVE  LinkInv'
    <2>1. remote' \in [Nodes -> SUBSET RemoteServices]
      <3>1. remote \in [Nodes -> SUBSET RemoteServices]
        BY Zenon, <1>0 DEF LinkTypeOK
      <3> QED BY ZenonT(30), <1>3, <3>1 DEF RemoteChange
    <2>2. (IF s \in remote[n] THEN Update({}, {s}) ELSE Update({s}, {})) \in Messages
      BY Zenon, <1>0
    <2>3. pipe' \in [Conns -> Seq(Messages)]
      <3>1. CASE stream[n] = None
        BY Zenon, <1>0, <1>3, <3>1 DEF RemoteChange, LinkTypeOK
      <3>2. CASE stream[n] # None
        <4>1. stream[n] \in Conns
          BY Zenon, <1>0, <3>2 DEF LinkTypeOK
        <4> QED BY <1>0, <1>3, <2>2, <3>2, <4>1, DeliverType, Zenon DEF RemoteChange
      <3> QED BY Zenon, <3>1, <3>2
    <2> QED BY <1>0, <1>3, <2>1, <2>3, PipesChange, Zenon DEF RemoteChange, LinkTypeOK
  <1> QED BY Zenon, <1>1, <1>2, <1>3

-----------------------------------------------------------------------------
(* Sinks *)

\* The sweep of a detached session that tells its sink keeps it ...
LEMMA DiscardSinkKeeps ==
  ASSUME LinkInv, NEW c \in Conns, DiscardSink(c)
  PROVE  LinkInv'
  <1> DEFINE t == <<c, "sweep">>
  <1>1. /\ UNCHANGED <<link_timer, node, link, session, sweep, busy, gateway, cluster, expiring, remote, stream, pipe>>
        /\ sweep[c] # "no" /\ sink[c] = "bound" /\ sink' = [sink EXCEPT ![c] = "told"] /\ t \in Threads
    BY Zenon DEF DiscardSink, sessionVars, clusterVars, remoteVars, Threads
  <1>2. LinkTypeOK /\ ConnTypes /\ node[c] \in Nodes /\ session[c] = "down"
    <2>1. session[c] = "down"
      BY Zenon, <1>1 DEF LinkInv, Ordered
    <2> QED BY Zenon, <2>1, NodeKnown, TypesOfConns DEF LinkInv
  <1>3. /\ clients' \in [Nodes -> Conns \cup {Absent, Pending}]
        /\ holds' \in [Threads -> Conns \cup {None}]
        /\ \A d \in Conns : Parted(d) => Parted(d)'
        /\ \A m \in Nodes : clients'[m] \in Conns => clients'[m] = clients[m]
        /\ Parted(c)'
        /\ \A u \in Threads, d \in Conns : holds'[u] = d => holds[u] = d \/ (Parted(d)' /\ session[d] # "none")
    <2>1. CASE sweep[c] = "error"
      <3>1. DropNode(t, node[c])
        BY Zenon, <2>1 DEF DiscardSink
      <3>2. \A d \in Conns : clients[node[c]] = d => session[d] # "none"
        BY Zenon, <1>2 DEF LinkInv, Ordered, Parted
      <3>3. /\ clients' \in [Nodes -> Conns \cup {Absent, Pending}]
            /\ holds' \in [Threads -> Conns \cup {None}]
            /\ \A d \in Conns : Parted(d) => Parted(d)'
            /\ \A d \in Conns : node[d] = node[c] => Parted(d)'
            /\ \A d \in Conns : holds'[t] = d => clients[node[c]] = d /\ Parted(d)'
            /\ \A u \in Threads : u # t => holds'[u] = holds[u]
            /\ \A m \in Nodes : clients'[m] \in Conns => clients'[m] = clients[m]
        BY Zenon, <3>1, <1>1, <1>2, DropNodeEffect
      <3> QED BY Zenon, <3>2, <3>3
    <2>2. CASE sweep[c] # "error"
      <3>1. clients' = clients /\ holds' = holds
        BY Zenon, <2>2 DEF DiscardSink
      <3>2. Parted(c)
        BY Zenon, <2>2, <1>1, <1>2 DEF LinkInv, Dropped, LinkTypeOK
      <3> QED BY Zenon, <3>1, <3>2, <1>2 DEF LinkTypeOK, Parted
    <2> QED BY Zenon, <2>1, <2>2
  <1>4. LinkTypeOK'
    BY Zenon, <1>1, <1>2, <1>3 DEF LinkTypeOK
  <1>5. \A d \in Conns : Ordered(d)'
    <2>1. sink'[c] = "told" /\ \A d \in Conns : d # c => sink'[d] = sink[d]
      BY Zenon, <1>1, <1>2 DEF ConnTypes
    <2>2. ASSUME NEW d \in Conns, d # c
          PROVE  Ordered(d)'
      BY Zenon, <1>1, <1>3, <2>1, <2>2, Untouched
    <2>3. Ordered(c)'
      BY Zenon, <1>1, <1>3, <2>1 DEF LinkInv, Ordered
    <2> QED BY Zenon, <2>2, <2>3
  <1>6. \A d \in Conns : Dropped(d)'
    BY ZenonT(30), <1>1, <1>2, <1>3 DEF LinkInv, Dropped, LinkTypeOK
  <1>7. NoOrphans'
    <2>1. \A d \in Conns : Live(d) => node'[d] = node[d] /\ Live(d)'
      BY Zenon, <1>1, <1>2 DEF LinkTypeOK, Live
    <2> QED BY Zenon, <2>1, <1>1, OrphansKept DEF LinkInv
  <1>8. DeadLinksGo'
    BY Zenon, <1>1, <1>3 DEF LinkInv, DeadLinksGo
  <1> QED BY Zenon, <1>4, <1>5, <1>6, <1>7, <1>8 DEF LinkInv

\* The sweep and the slot let go of the sink in either order; the second one
\* cleans up.
LEMMA SinkGoes ==
  ASSUME LinkInv, NEW c \in Conns, node[c] \in Nodes,
         UNCHANGED <<clients, link_timer, node, link, session, cluster, expiring, remote, stream, pipe>>,
         holds' \in [Threads -> Conns \cup {None}],
         \A t \in Threads, d \in Conns : holds'[t] = d => holds[t] = d,
         \/ /\ sweep' = [sweep EXCEPT ![c] = "no"] /\ busy' = busy
            /\ sink[c] # "bound" /\ session[c] = "down"
         \/ sweep' = sweep /\ busy' = [busy EXCEPT ![c] = None],
         \/ /\ gateway' = {e \in gateway : e[1] # node[c]} /\ sink' = [sink EXCEPT ![c] = "dead"]
            /\ session[c] # "none" /\ busy'[c] = None /\ Parted(c) /\ link[c] \in {"forked", "sent", "done"}
         \/ gateway' = gateway /\ sink' = sink /\ (Live(c) => Live(c)')
  PROVE  LinkInv'
  <1>1. LinkTypeOK /\ ConnTypes /\ NoOrphans /\ DeadLinksGo /\ \A d \in Conns : Ordered(d) /\ Dropped(d)
    BY Zenon, TypesOfConns DEF LinkInv
  <1>2. /\ sweep' \in [Conns -> {"no", "error", "quiet"}] /\ busy' \in [Conns -> Slots \cup {None}]
        /\ \A d \in Conns : d # c => sweep'[d] = sweep[d] /\ busy'[d] = busy[d]
        /\ \/ sweep'[c] = "no" /\ busy'[c] = busy[c] /\ sink[c] # "bound" /\ session[c] = "down"
           \/ sweep'[c] = sweep[c] /\ busy'[c] = None
    <2>1. CASE sweep' = [sweep EXCEPT ![c] = "no"] /\ busy' = busy /\ sink[c] # "bound" /\ session[c] = "down"
      BY ZenonT(30), <1>1, <2>1 DEF ConnTypes
    <2>2. CASE sweep' = sweep /\ busy' = [busy EXCEPT ![c] = None]
      BY ZenonT(30), <1>1, <2>2 DEF ConnTypes
    <2> QED BY Zenon, <2>1, <2>2
  <1>3. /\ sink' \in [Conns -> {"none", "bound", "told", "dead"}]
        /\ \A d \in Conns : d # c => sink'[d] = sink[d]
        /\ \/ sink'[c] = "dead" /\ session[c] # "none" /\ busy'[c] = None /\ Parted(c)
              /\ link[c] \in {"forked", "sent", "done"}
           \/ sink'[c] = sink[c]
    <2>1. sink \in [Conns -> {"none", "bound", "told", "dead"}]
      BY Zenon, <1>1 DEF ConnTypes
    <2>2. CASE sink' = sink
      BY Zenon, <2>1, <2>2
    <2>3. CASE /\ sink' = [sink EXCEPT ![c] = "dead"]
               /\ session[c] # "none" /\ busy'[c] = None /\ Parted(c) /\ link[c] \in {"forked", "sent", "done"}
      BY Zenon, <2>1, <2>3
    <2> QED BY Zenon, <2>2, <2>3
  <1>4. LinkTypeOK'
    <2>1. /\ gateway' \in SUBSET (Nodes \X RemoteServices)
          /\ \A d \in Conns : sink'[d] # "none" => session[d] # "none"
      BY Zenon, <1>1, <1>3 DEF LinkTypeOK
    <2> QED BY Zenon, <1>1, <1>2, <1>3, <2>1 DEF LinkTypeOK
  <1>5. \A d \in Conns : Parted(d)' <=> Parted(d)
    BY Zenon DEF Parted
  <1>6. \A d \in Conns : d # c => Ordered(d)' /\ Dropped(d)'
    <2> SUFFICES ASSUME NEW d \in Conns, d # c
                 PROVE  Ordered(d)' /\ Dropped(d)'
      BY Zenon
    <2>1. /\ node'[d] = node[d] /\ link'[d] = link[d] /\ session'[d] = session[d]
          /\ sweep'[d] = sweep[d] /\ sink'[d] = sink[d] /\ busy'[d] = busy[d]
      BY Zenon, <1>2, <1>3
    <2>2. \A t \in Threads : holds'[t] = d => holds[t] = d
      BY Zenon
    <2> QED BY Zenon, <1>5, <2>1, <2>2, Untouched
  <1>7. Ordered(c)'
    BY ZenonT(30), <1>1, <1>2, <1>3, <1>5 DEF Ordered
  <1>8. Dropped(c)'
    <2>1. sink'[c] \in {"told", "dead"} \/ sweep'[c] = "quiet" => Parted(c)
      BY Zenon, <1>1, <1>2, <1>3 DEF Dropped
    <2>2. busy'[c] # None /\ busy'[c].kind = "closed" => Parted(c)
      BY Zenon, <1>1, <1>2 DEF Dropped
    <2>3. \A t \in Threads : holds'[t] = c => Parted(c) /\ session[c] # "none"
      BY Zenon, <1>1 DEF Dropped
    <2> QED BY Zenon, <1>5, <2>1, <2>2, <2>3 DEF Dropped
  <1>9. NoOrphans'
    <2>1. \A d \in Conns : d # c => (Live(d) => Live(d)')
      BY Zenon, <1>2, <1>3 DEF Live
    <2>2. gateway' \subseteq gateway /\ (Live(c) => Live(c)' \/ \A e \in gateway' : e[1] # node[c])
      BY Zenon
    <2> QED BY Zenon, <1>1, <2>1, <2>2, OrphansKept
  <1>10. DeadLinksGo'
    <2> SUFFICES ASSUME NEW n \in Nodes, NEW d \in Conns, clients[n] = d, session[d] = "down"
                 PROVE  sweep'[d] # "no" \/ link[d] \in {"attached", "forked"}
      BY Zenon DEF DeadLinksGo
    <2>1. CASE sweep'[d] = sweep[d]
      BY Zenon, <1>1, <2>1 DEF DeadLinksGo
    <2>2. CASE d = c /\ sink[c] # "bound" /\ session[c] = "down"
      <3>1. ~Parted(c)
        BY Zenon, <2>2 DEF Parted
      <3>2. sink[c] = "none"
        BY Zenon, <1>1, <2>2, <3>1 DEF Dropped, ConnTypes
      <3> QED BY Zenon, <1>1, <2>2, <3>2 DEF Ordered, ConnTypes
    <2> QED BY Zenon, <1>2, <2>1, <2>2
  <1> QED BY Zenon, <1>4, <1>6, <1>7, <1>8, <1>9, <1>10 DEF LinkInv

\* ... as does its end ...
LEMMA SweepDoneKeeps ==
  ASSUME LinkInv, NEW c \in Conns, SweepDone(c)
  PROVE  LinkInv'
  <1>1. /\ UNCHANGED <<clients, link_timer, node, link, session, busy, cluster, expiring, remote, stream, pipe>>
        /\ sweep[c] # "no" /\ sink[c] # "bound" /\ sweep' = [sweep EXCEPT ![c] = "no"]
        /\ holds' = [holds EXCEPT ![<<c, "sweep">>] = None]
    BY Zenon DEF SweepDone, clientVars, clusterVars, remoteVars
  <1>2. LinkTypeOK /\ session[c] = "down" /\ node[c] \in Nodes
    BY ZenonT(30), <1>1 DEF LinkInv, Ordered, LinkTypeOK
  <1>3. /\ holds' \in [Threads -> Conns \cup {None}]
        /\ \A t \in Threads, d \in Conns : holds'[t] = d => holds[t] = d
    BY SMTT(30), <1>1, <1>2, LinkAssumption DEF LinkTypeOK, Threads
  <1>4. CASE sink[c] = "told" /\ busy[c] = None
    <2>1. gateway' = {e \in gateway : e[1] # node[c]} /\ sink' = [sink EXCEPT ![c] = "dead"]
      BY Zenon, <1>4 DEF SweepDone, ReleaseSink, Cleanup
    <2>2. Parted(c) /\ link[c] \in {"forked", "sent", "done"}
      BY <1>2, <1>4, Zenon DEF LinkInv, Dropped, Ordered, LinkTypeOK
    <2> QED BY <1>1, <1>2, <1>3, <1>4, <2>1, <2>2, SinkGoes, Zenon
  <1>5. CASE ~(sink[c] = "told" /\ busy[c] = None)
    <2>1. gateway' = gateway /\ sink' = sink
      BY Zenon, <1>5 DEF SweepDone, ReleaseSink
    <2>2. Live(c) => Live(c)'
      BY Zenon, <1>1, <1>5, <2>1 DEF Live
    <2> QED BY <1>1, <1>2, <1>3, <2>1, <2>2, SinkGoes, Zenon
  <1> QED BY Zenon, <1>4, <1>5

\* ... the end of a slot of the sink ...
LEMMA SlotDoneKeeps ==
  ASSUME LinkInv, NEW c \in Conns, SlotDone(c)
  PROVE  LinkInv'
  <1>1. /\ UNCHANGED <<clients, link_timer, node, link, session, sweep, cluster, expiring, remote, stream, pipe>>
        /\ busy[c] # None /\ busy' = [busy EXCEPT ![c] = None]
        /\ holds' = [holds EXCEPT ![<<c, "slot">>] = None]
    BY Zenon DEF SlotDone, clientVars, sessionVars, clusterVars, remoteVars
  <1>2. /\ LinkTypeOK /\ sink[c] \in {"bound", "told"} /\ session[c] # "none" /\ node[c] \in Nodes
        /\ link[c] \in {"forked", "sent", "done"} /\ busy'[c] = None
    <2>1. LinkTypeOK /\ Ordered(c)
      BY Zenon DEF LinkInv
    <2>2. sink[c] \in {"bound", "told"} /\ session[c] # "none"
      BY Zenon, <2>1, <1>1 DEF Ordered, LinkTypeOK
    <2>3. link[c] \in {"forked", "sent", "done"}
      BY ZenonT(30), <2>1, <2>2 DEF Ordered, LinkTypeOK
    <2> QED BY Zenon, <2>1, <2>2, <2>3, <1>1 DEF Ordered, LinkTypeOK
  <1>3. /\ holds' \in [Threads -> Conns \cup {None}]
        /\ \A t \in Threads, d \in Conns : holds'[t] = d => holds[t] = d
    BY <1>1, <1>2, LinkAssumption DEF LinkTypeOK, Threads
  <1>4. CASE busy[c].kind = "closed" \/ (sink[c] = "told" /\ sweep[c] = "no")
    <2>1. gateway' = {e \in gateway : e[1] # node[c]} /\ sink' = [sink EXCEPT ![c] = "dead"]
      BY Zenon, <1>4 DEF SlotDone, Cleanup
    <2>2. Parted(c)
      BY Zenon, <1>1, <1>4 DEF LinkInv, Dropped
    <2> QED BY <1>1, <1>2, <1>3, <2>1, <2>2, SinkGoes, Zenon
  <1>5. CASE ~(busy[c].kind = "closed" \/ (sink[c] = "told" /\ sweep[c] = "no"))
    <2>1. gateway' = gateway /\ sink' = sink
      BY Zenon, <1>5 DEF SlotDone
    <2>2. Live(c)'
      BY ZenonT(30), <1>1, <1>2, <1>5, <2>1 DEF LinkInv, Ordered, Live
    <2> QED BY <1>1, <1>2, <1>3, <2>1, <2>2, SinkGoes, Zenon
  <1> QED BY Zenon, <1>4, <1>5

\* ... and a message that reaches the sink.
LEMMA ReceiveKeeps ==
  ASSUME LinkInv, NEW c \in Conns, Receive(c)
  PROVE  LinkInv'
  <1>1. /\ UNCHANGED <<clients, link_timer, node, link, session, sweep, sink, holds, gateway, cluster, expiring, remote, stream>>
        /\ session[c] = "up" /\ sink[c] = "bound" /\ busy[c] = None
        /\ busy' = [busy EXCEPT ![c] = Head(pipe[c])] /\ pipe' = [pipe EXCEPT ![c] = Tail(@)]
    BY Zenon DEF Receive, clientVars, sessionVars, clusterVars
  <1>2. LinkTypeOK
    BY Zenon DEF LinkInv
  <1>3. Head(pipe[c]) \in Messages /\ Tail(pipe[c]) \in Seq(Messages)
    BY Zenon, <1>2, HeadTail DEF Receive, LinkTypeOK
  <1>4. Head(pipe[c]) \in Slots /\ Head(pipe[c]).kind # "closed"
    BY Zenon, <1>3 DEF Messages, Slots
  <1>5. LinkTypeOK'
    <2>1. busy' \in [Conns -> Slots \cup {None}] /\ pipe' \in [Conns -> Seq(Messages)]
      BY Zenon, <1>1, <1>2, <1>3, <1>4 DEF LinkTypeOK
    <2> QED BY Zenon, <1>1, <1>2, <2>1 DEF LinkTypeOK
  <1>6. \A d \in Conns : Parted(d)' <=> Parted(d)
    BY Zenon, <1>1 DEF Parted
  <1>7. \A d \in Conns : Ordered(d)'
    <2>1. \A d \in Conns : d # c => busy'[d] = busy[d]
      BY Zenon, <1>1, <1>2 DEF LinkTypeOK
    <2>2. ASSUME NEW d \in Conns, d # c
          PROVE  Ordered(d)'
      BY Zenon, <1>1, <1>6, <2>1, <2>2, Untouched
    <2>3. Ordered(c)'
      BY Zenon, <1>1, <1>6 DEF LinkInv, Ordered
    <2> QED BY Zenon, <2>2, <2>3
  <1>8. \A d \in Conns : Dropped(d)'
    BY ZenonT(30), <1>1, <1>2, <1>4, <1>6 DEF LinkInv, LinkTypeOK, Dropped
  <1>9. NoOrphans'
    <2>1. \A d \in Conns : Live(d) => node'[d] = node[d] /\ Live(d)'
      BY ZenonT(30), <1>1, <1>2 DEF LinkTypeOK, Live
    <2> QED BY Zenon, <2>1, <1>1, OrphansKept DEF LinkInv
  <1>10. DeadLinksGo'
    BY Zenon, <1>1 DEF LinkInv, DeadLinksGo
  <1> QED BY Zenon, <1>5, <1>7, <1>8, <1>9, <1>10 DEF LinkInv

\* What on_announce() brings in stands while its slot is at work.
LEMMA OnAnnounceKeeps ==
  ASSUME LinkInv, NEW c \in Conns, OnAnnounce(c)
  PROVE  LinkInv'
  <1>1. /\ UNCHANGED <<clients, link_timer, node, link, sink, holds, cluster, expiring, remote, stream>>
        /\ busy[c] # None /\ busy' = [busy EXCEPT ![c] = [@ EXCEPT !.kind = "over"]]
        /\ \E these \in SUBSET busy[c].up, gone \in SUBSET busy[c].gone : Consume(node[c], these, gone)
        /\ \/ UNCHANGED <<session, sweep, pipe>>
           \/ session[c] = "up" /\ DetachSession(c, "error")
    BY Zenon DEF OnAnnounce, clientVars, sessionVars, clusterVars
  <1>2. /\ LinkTypeOK /\ Ordered(c) /\ sink[c] \in {"bound", "told"} /\ node[c] \in Nodes
        /\ busy[c] \in Slots /\ [busy[c] EXCEPT !.kind = "over"] \in Slots
    <2>1. LinkTypeOK /\ Ordered(c) /\ busy[c] \in Slots
      BY Zenon, <1>1 DEF LinkInv, LinkTypeOK
    <2>2. sink[c] \in {"bound", "told"} /\ node[c] \in Nodes
      BY Zenon, <2>1, <1>1 DEF Ordered, LinkTypeOK
    <2>3. [busy[c] EXCEPT !.kind = "over"] \in Slots
      BY Zenon, <2>1 DEF Slots
    <2> QED BY Zenon, <2>1, <2>2, <2>3
  <1>3. /\ busy' \in [Conns -> Slots \cup {None}] /\ busy'[c] # None
        /\ \A d \in Conns : /\ busy'[d] # None <=> busy[d] # None
                            /\ busy'[d] # None /\ busy'[d].kind = "closed" => busy[d].kind = "closed"
    <2>1. busy'[c] = [busy[c] EXCEPT !.kind = "over"] /\ busy'[c].kind = "over"
      BY ZenonT(30), <1>1, <1>2 DEF LinkTypeOK, Slots
    <2>2. busy' \in [Conns -> Slots \cup {None}] /\ \A d \in Conns : d # c => busy'[d] = busy[d]
      BY Zenon, <1>1, <1>2 DEF LinkTypeOK
    <2> QED BY Zenon, <1>1, <1>2, <2>1, <2>2, LinkAssumption
  <1>4. /\ gateway' \in SUBSET (Nodes \X RemoteServices)
        /\ \A e \in gateway' : e \in gateway \/ e[1] = node[c]
    <2>1. PICK these \in SUBSET busy[c].up, gone \in SUBSET busy[c].gone :
            gateway' = (gateway \cup ({node[c]} \X these)) \ ({node[c]} \X gone)
      BY Zenon, <1>1 DEF Consume
    <2>2. these \subseteq RemoteServices
      BY Zenon, <1>2 DEF Slots
    <2> QED BY Zenon, <1>2, <2>1, <2>2 DEF LinkTypeOK
  <1>5. CASE session[c] = "up" /\ DetachSession(c, "error")
    BY Zenon, <1>1, <1>3, <1>4, <1>5, DetachKeeps
  <1>6. CASE UNCHANGED <<session, sweep, pipe>>
    <2>1. LinkTypeOK'
      BY Zenon, <1>1, <1>2, <1>3, <1>4, <1>6 DEF LinkTypeOK
    <2>2. \A d \in Conns : Parted(d)' <=> Parted(d)
      BY Zenon, <1>1 DEF Parted
    <2>3. \A d \in Conns : Ordered(d)'
      BY ZenonT(30), <1>1, <1>3, <1>6, <2>2 DEF LinkInv, Ordered
    <2>4. \A d \in Conns : Dropped(d)'
      BY Zenon, <1>1, <1>3, <1>6, <2>2 DEF LinkInv, Dropped
    <2>5. NoOrphans'
      <3>1. Live(c)' /\ \A d \in Conns : Live(d) => Live(d)'
        BY Zenon, <1>1, <1>2, <1>3, <1>6 DEF Live
      <3> QED BY Zenon, <3>1, <1>1, <1>4 DEF LinkInv, NoOrphans
    <2>6. DeadLinksGo'
      BY Zenon, <1>1, <1>6 DEF LinkInv, DeadLinksGo
    <2> QED BY Zenon, <2>1, <2>3, <2>4, <2>5, <2>6 DEF LinkInv
  <1> QED BY Zenon, <1>1, <1>5, <1>6

\* on_shutdown(), or a uuid mismatch, takes the entry before the slot is over.
LEMMA OnBadNodeKeeps ==
  ASSUME LinkInv, NEW c \in Conns, OnBadNode(c)
  PROVE  LinkInv'
  <1> DEFINE t == <<c, "slot">>
  <1>1. /\ UNCHANGED <<link_timer, node, link, session, sweep, sink, gateway, cluster, expiring, remote, stream, pipe>>
        /\ busy[c] # None /\ t \in Threads
        /\ busy' = [busy EXCEPT ![c] = [@ EXCEPT !.kind = IF @ = "choke" THEN "closed" ELSE "over"]]
    BY Zenon DEF OnBadNode, sessionVars, clusterVars, remoteVars, Threads
  <1>2. LinkTypeOK /\ ConnTypes /\ NoOrphans /\ DeadLinksGo /\ \A d \in Conns : Ordered(d) /\ Dropped(d)
    BY Zenon, TypesOfConns DEF LinkInv
  <1>3. node[c] \in Nodes
    <2>1. sink[c] \in {"bound", "told"}
      BY Zenon, <1>1, <1>2 DEF Ordered
    <2> QED BY ZenonT(30), <1>2, <2>1 DEF Ordered, ConnTypes
  <1>4. /\ clients' \in [Nodes -> Conns \cup {Absent, Pending}]
        /\ holds' \in [Threads -> Conns \cup {None}]
        /\ \A d \in Conns : Parted(d) => Parted(d)'
        /\ Parted(c)'
        /\ \A d \in Conns : holds'[t] = d => clients[node[c]] = d /\ Parted(d)'
        /\ \A u \in Threads : u # t => holds'[u] = holds[u]
        /\ \A m \in Nodes : clients'[m] \in Conns => clients'[m] = clients[m]
    <2>1. DropNode(t, node[c])
      BY Zenon DEF OnBadNode
    <2> QED BY Zenon, <1>1, <1>2, <1>3, <2>1, DropNodeEffect
  <1>5. /\ busy' \in [Conns -> Slots \cup {None}]
        /\ \A d \in Conns : d # c => busy'[d] = busy[d]
        /\ busy'[c] # None
    <2>1. busy[c] \in Slots
      BY Zenon, <1>1, <1>2 DEF ConnTypes
    <2>2. \A k \in {"closed", "over"} : [busy[c] EXCEPT !.kind = k] \in Slots
      BY Zenon, <2>1 DEF Slots
    <2>3. busy'[c] \in Slots
      BY Zenon, <1>1, <1>2, <2>2 DEF ConnTypes
    <2> QED BY Zenon, <1>1, <1>2, <2>3, LinkAssumption DEF ConnTypes
  <1>6. LinkTypeOK'
    BY ZenonT(30), <1>1, <1>2, <1>4, <1>5 DEF LinkTypeOK
  <1>7. \A d \in Conns : Ordered(d)'
    BY <1>1, <1>2, <1>4, <1>5 DEF Ordered
  <1>8. \A d \in Conns : Dropped(d)'
    <2>1. \A d \in Conns : clients[node[c]] = d => session[d] # "none"
      BY ZenonT(30), <1>2, <1>3 DEF Ordered, Parted
    <2>2. ASSUME NEW d \in Conns
          PROVE  Dropped(d)'
      <3>1. sink'[d] \in {"told", "dead"} \/ sweep'[d] = "quiet" => Parted(d)'
        BY Zenon, <1>1, <1>2, <1>4 DEF Dropped
      <3>2. busy'[d] # None /\ busy'[d].kind = "closed" => Parted(d)'
        BY ZenonT(30), <1>2, <1>4, <1>5 DEF Dropped
      <3>3. \A u \in Threads : holds'[u] = d => Parted(d)' /\ session'[d] # "none"
        BY <1>1, <1>2, <1>4, <2>1 DEF Dropped
      <3> QED BY Zenon, <3>1, <3>2, <3>3 DEF Dropped
    <2> QED BY Zenon, <2>2
  <1>9. NoOrphans'
    <2>1. \A d \in Conns : Live(d) => node'[d] = node[d] /\ Live(d)'
      BY Zenon, <1>1, <1>5 DEF Live
    <2> QED BY Zenon, <1>1, <1>2, <2>1, OrphansKept
  <1>10. DeadLinksGo'
    BY ZenonT(30), <1>1, <1>2, <1>4 DEF DeadLinksGo
  <1> QED BY Zenon, <1>6, <1>7, <1>8, <1>9, <1>10 DEF LinkInv

\* An announcement and a retry on the loop keep the invariant.
LEMMA LoopLinks ==
  ASSUME LinkInv, Retry \/ \E n \in Nodes : Announced(n)
  PROVE  LinkInv'
  <1>1. LinkTypeOK
    BY Zenon DEF LinkInv
  <1>2. CASE Retry
    <2>1. /\ link_timer \in [uuid : Nodes, fired : BOOLEAN] /\ LinkNode(link_timer.uuid)
          /\ link_timer' = [link_timer EXCEPT !.fired = TRUE]
          /\ UNCHANGED <<session, sweep, sink, busy, holds, gateway, remote, stream, pipe, changes, cluster, expiring>>
      BY Zenon, <1>1, <1>2 DEF Retry, LinkTypeOK, sessionVars, clusterVars, remoteVars
    <2>2. cluster' \in BOOLEAN /\ expiring' \in SUBSET Nodes
      BY Zenon, <1>1, <2>1 DEF LinkTypeOK
    <2>3. link_timer.uuid \in Nodes /\ link_timer' \in [uuid : Nodes, fired : BOOLEAN] \cup {None}
      BY <2>1, Zenon
    <2> QED BY <2>1, <2>2, <2>3, LinkNodeKeeps, Zenon
  <1>3. ASSUME NEW n \in Nodes, Announced(n)
        PROVE  LinkInv'
    <2>1. /\ UNCHANGED <<session, sweep, sink, busy, holds, gateway, remote, stream, pipe, changes>>
          /\ LinkNode(n) /\ link_timer' = link_timer /\ cluster' = cluster /\ expiring' = expiring \cup {n}
      BY Zenon, <1>3 DEF Announced, sessionVars, remoteVars
    <2>2. /\ link_timer' \in [uuid : Nodes, fired : BOOLEAN] \cup {None}
          /\ cluster' \in BOOLEAN /\ expiring' \in SUBSET Nodes
      BY Zenon, <1>1, <2>1 DEF LinkTypeOK
    <2> QED BY Zenon, <2>1, <2>2, LinkNodeKeeps
  <1> QED BY Zenon, <1>2, <1>3

-----------------------------------------------------------------------------

\* Every step keeps the invariant.
LEMMA LinkSteps == LinkInv /\ [LinkNext]_linkVars => LinkInv'
  <1> SUFFICES ASSUME LinkInv, [LinkNext]_linkVars
               PROVE  LinkInv'
    BY Zenon
  <1>1. CASE UNCHANGED linkVars
    <2>1. UNCHANGED <<clients, link_timer, node, link, session, sweep, sink, busy, holds, gateway, cluster, expiring, remote, stream, pipe>>
      BY Zenon, <1>1 DEF linkVars, clientVars, sessionVars, clusterVars, remoteVars
    <2> QED BY Zenon, <2>1, PipesChange DEF LinkInv, LinkTypeOK
  <1>2. CASE Retry \/ \E n \in Nodes : Announced(n)
    BY Zenon, <1>2, LoopLinks
  <1>3. CASE LinkShutdown \/ \E n \in Nodes : Expire(n)
    BY Zenon, <1>3, LoopDrops
  <1>4. CASE (\E t \in Threads : DetachDropped(t)) \/ \E c \in Conns : Lose(c)
    BY Zenon, <1>4, DetachSteps
  <1>5. CASE \/ \E c \in Conns : RemoteAccept(c)
             \/ \E n \in Nodes : RemoteClose(n)
             \/ \E n \in Nodes, s \in RemoteServices : RemoteChange(n, s)
    BY Zenon, <1>5, RemoteSteps
  <1>6. ASSUME NEW c \in Conns,
               \/ Connected(c) \/ ForkSink(c) \/ SendConnect(c) \/ DiscardSink(c) \/ SweepDone(c)
               \/ Receive(c) \/ OnAnnounce(c) \/ OnBadNode(c) \/ SlotDone(c)
        PROVE  LinkInv'
    BY ZenonT(30), <1>6, ConnectedKeeps, ForkSinkKeeps, SendConnectKeeps, DiscardSinkKeeps, SweepDoneKeeps,
       ReceiveKeeps, OnAnnounceKeeps, OnBadNodeKeeps, SlotDoneKeeps
  <1> QED BY Zenon, <1>1, <1>2, <1>3, <1>4, <1>5, <1>6 DEF LinkNext

\* The invariant of the uplinks holds in every state, however connects,
\* announcements, timers, sweeps and slots interleave.
THEOREM LinkInvariant == LinkSpec => []LinkInv
  BY LinkStarts, LinkSteps, PTL DEF LinkSpec

\* Types of m_clients, the sessions, the sinks and what is under way; an entry
\* of m_clients is a connection made for its own node.
THEOREM LinkTypes == LinkSpec => []LinkTypeOK
  <1>1. LinkInv => LinkTypeOK
    BY Zenon DEF LinkInv
  <1> QED BY <1>1, LinkInvariant, PTL

\* Whatever the gateway has consumed from a node, there is a sink of that node
\* whose destructor is still to clean it up.
THEOREM NothingOrphaned == LinkSpec => []NoOrphans
  <1>1. LinkInv => NoOrphans
    BY Zenon DEF LinkInv
  <1> QED BY <1>1, LinkInvariant, PTL

\* A session that is down leaves m_clients: while its entry stands, somebody is
\* still to take it away.
THEOREM DeadLinksLeave == LinkSpec => []DeadLinksGo
  <1>1. LinkInv => DeadLinksGo
    BY Zenon DEF LinkInv
  <1> QED BY <1>1, LinkInvariant, PTL

-----------------------------------------------------------------------------
(* LocatorPublish: what peers are told *)

\* What the variables of the streams hold.
StreamTypes ==
  /\ m_cluster \in BOOLEAN
  /\ m_remotes \in [Peers -> Nat]
  /\ m_snapshots = [s \in Services |-> m_snapshots[s]]
  /\ \E n \in Nat : DOMAIN told = 1..n /\ DOMAIN peer = 1..n

\* With a cluster no stream is closed and m_remotes has the last ones, which
\* know the snapshot; without one, the last ones are closed.
StreamInv ==
  /\ StreamTypes
  /\ m_cluster => closed = {}
  /\ \A q \in Peers : \A i \in LastStream(q) :
       IF m_cluster THEN m_remotes[q] = i /\ told[i] = Visible ELSE i \in closed

\* The invariant of the streams holds in a new locator ...
LEMMA StreamsStart ==
  ASSUME NEW cast, NEW gated, NEW clustered \in BOOLEAN, PublishInit(cast, gated, clustered)
  PROVE  StreamInv
  <1>1. DOMAIN told = 1..0 /\ DOMAIN peer = 1..0
    BY DEF PublishInit
  <1>2. StreamTypes
    BY Zenon, <1>1 DEF PublishInit, StreamTypes
  <1> QED BY <1>1, <1>2 DEF PublishInit, StreamInv, LastStream

\* An update that is broadcast while the snapshot changes in the same way.
LEMMA UpdateFollows ==
  ASSUME StreamInv, NEW s \in Services, NEW location, NEW entry, Heard(entry) = Heard(location),
         m_snapshots' = [m_snapshots EXCEPT ![s] = entry],
         Broadcast(s, location), UNCHANGED <<m_cluster, m_remotes, peer, closed>>
  PROVE  StreamInv'
  <1>1. PICK n \in Nat : DOMAIN told = 1..n /\ DOMAIN peer = 1..n
    BY Zenon DEF StreamInv, StreamTypes
  <1>2. DOMAIN told' = DOMAIN told
    BY Zenon DEF Broadcast
  <1>3. m_snapshots' = [x \in Services |-> m_snapshots'[x]]
    BY Zenon DEF StreamInv, StreamTypes
  <1>4. StreamTypes'
    BY Zenon, <1>1, <1>2, <1>3 DEF StreamInv, StreamTypes
  <1>5. Visible' = [Visible EXCEPT ![s] = Heard(location)]
    BY Zenon DEF Visible, StreamInv, StreamTypes, Heard
  <1>6. ASSUME NEW q \in Peers, NEW i \in LastStream(q)'
        PROVE  IF m_cluster' THEN m_remotes'[q] = i /\ told'[i] = Visible' ELSE i \in closed'
    <2>1. i \in LastStream(q) /\ i \in DOMAIN told
      BY Zenon, <1>1, <1>6 DEF LastStream
    <2>2. CASE m_cluster
      <3>1. m_remotes[q] = i /\ told[i] = Visible /\ i \notin closed
        BY Zenon, <2>1, <2>2 DEF StreamInv
      <3>2. told'[i] = [told[i] EXCEPT ![s] = Heard(location)]
        BY Zenon, <2>1, <3>1 DEF Broadcast
      <3> QED BY Zenon, <3>1, <3>2, <2>2, <1>5
    <2>3. CASE ~m_cluster
      BY Zenon, <2>1, <2>3 DEF StreamInv
    <2> QED BY Zenon, <2>2, <2>3 DEF StreamInv, StreamTypes
  <1> QED BY Zenon, <1>4, <1>6 DEF StreamInv

\* A new stream is the last one of its peer, and starts with the snapshot.
LEMMA ConnectFollows ==
  ASSUME StreamInv, NEW q \in Peers, Connect(q)
  PROVE  StreamInv'
  <1>1. PICK n \in Nat : DOMAIN told = 1..n /\ DOMAIN peer = 1..n
    BY Zenon DEF StreamInv, StreamTypes
  <1>2. Len(told) + 1 = n + 1
    BY <1>1
  <1>3. /\ told' = [j \in 1..(n + 1) |-> IF j # n + 1 THEN told[j] ELSE IF m_cluster THEN Visible ELSE Nothing]
        /\ peer' = [j \in 1..(n + 1) |-> IF j = n + 1 THEN q ELSE peer[j]]
        /\ m_remotes' = IF m_cluster THEN [m_remotes EXCEPT ![q] = n + 1] ELSE m_remotes
        /\ closed' = IF m_cluster THEN closed ELSE closed \cup {n + 1}
        /\ UNCHANGED <<m_cluster, m_snapshots>>
    BY Zenon, <1>2 DEF Connect
  <1>4. StreamTypes'
    <2>1. n + 1 \in Nat /\ DOMAIN told' = 1..(n + 1) /\ DOMAIN peer' = 1..(n + 1)
      BY <1>1, <1>3
    <2>2. m_remotes' \in [Peers -> Nat]
      BY <1>3 DEF StreamInv, StreamTypes
    <2> QED BY Zenon, <2>1, <2>2, <1>3 DEF StreamInv, StreamTypes
  <1>5. Visible' = Visible
    BY Zenon, <1>3 DEF Visible
  <1>6. ASSUME NEW p \in Peers, NEW i \in LastStream(p)'
        PROVE  IF m_cluster' THEN m_remotes'[p] = i /\ told'[i] = Visible' ELSE i \in closed'
    <2>1. i \in 1..(n + 1) /\ peer'[i] = p /\ \A j \in 1..(n + 1) : peer'[j] = p => j <= i
      BY Zenon, <1>3, <1>6 DEF LastStream
    <2>2. n + 1 \in 1..(n + 1) /\ peer'[n + 1] = q
      BY <1>3
    <2>3. CASE p = q
      <3>1. i = n + 1
        BY <2>1, <2>2, <2>3
      <3> QED BY <3>1, <2>3, <1>3, <1>5 DEF StreamInv, StreamTypes
    <2>4. CASE p # q
      <3>1. i \in 1..n
        BY SMTT(30), <2>1, <2>2, <2>4
      <3>2. i \in LastStream(p)
        BY SMTT(30), <3>1, <2>1, <1>1, <1>3 DEF LastStream
      <3>3. told'[i] = told[i] /\ m_remotes'[p] = m_remotes[p]
        BY <3>1, <2>4, <1>3 DEF StreamInv, StreamTypes
      <3> QED BY ZenonT(30), <3>2, <3>3, <1>3, <1>5 DEF StreamInv
    <2> QED BY Zenon, <2>3, <2>4
  <1> QED BY Zenon, <1>3, <1>4, <1>6 DEF StreamInv

\* on_context_shutdown() closes what is in m_remotes: the last streams.
LEMMA ShutdownFollows ==
  ASSUME StreamInv, Shutdown
  PROVE  StreamInv'
  <1>1. PICK n \in Nat : DOMAIN told = 1..n /\ DOMAIN peer = 1..n
    BY Zenon DEF StreamInv, StreamTypes
  <1>2. ASSUME NEW q \in Peers, NEW i \in LastStream(q)
        PROVE  i \in closed'
    <2>1. i # 0
      BY <1>1 DEF LastStream
    <2> QED BY Zenon, <2>1, <1>2 DEF StreamInv, Shutdown
  <1>3. \A q \in Peers : LastStream(q)' = LastStream(q)
    BY Zenon DEF LastStream, Shutdown
  <1>4. StreamTypes'
    BY Zenon DEF StreamInv, StreamTypes, Shutdown
  <1> QED BY ZenonT(30), <1>2, <1>3, <1>4 DEF StreamInv, Shutdown

\* ... and every step keeps it.
LEMMA StreamsStep == StreamInv /\ [PublishNext]_publishVars => StreamInv'
  <1> SUFFICES ASSUME StreamInv, [PublishNext]_publishVars
               PROVE  StreamInv'
    BY Zenon
  <1>1. ASSUME UNCHANGED <<m_cluster, m_remotes, m_snapshots, told, peer, closed>>
        PROVE  StreamInv'
    BY SMTT(30), <1>1 DEF StreamInv, StreamTypes, LastStream, Visible
  <1>2. ASSUME NEW a \in Owners, Expose(a) \/ CheckCluster(a) \/ Discard(a) \/ Disconnect(a)
        PROVE  StreamInv'
    BY Zenon, <1>1, <1>2 DEF Expose, CheckCluster, Discard, Disconnect
  <1>3. ASSUME NEW a \in Owners, Announce(a)
        PROVE  StreamInv'
    <2>1. Service[a] \in Services /\ UNCHANGED <<m_cluster, m_remotes, peer, closed>>
      BY Zenon, <1>3, PublishAssumption DEF Announce
    <2>2. CASE UNCHANGED <<m_snapshots, told>>
      BY Zenon, <2>1, <2>2, <1>1
    <2>3. CASE /\ m_snapshots' = [m_snapshots EXCEPT ![Service[a]] = Location[a]]
               /\ Broadcast(Service[a], Location[a])
      BY Zenon, <2>1, <2>3, UpdateFollows
    <2> QED BY Zenon, <2>2, <2>3, <1>3 DEF Announce
  <1>4. ASSUME NEW a \in Owners, Withdraw(a)
        PROVE  StreamInv'
    <2>1. Service[a] \in Services /\ UNCHANGED <<m_cluster, m_remotes, peer, closed>>
      BY Zenon, <1>4, PublishAssumption DEF Withdraw
    <2>2. Heard(Gone) = Heard(Nowhere)
      BY Zenon DEF Heard
    <2>3. m_snapshots' = [m_snapshots EXCEPT ![Service[a]] = Gone] /\ Broadcast(Service[a], Nowhere)
      BY Zenon, <1>4 DEF Withdraw
    <2> QED BY Zenon, <2>1, <2>2, <2>3, UpdateFollows
  <1>5. ASSUME NEW q \in Peers, Connect(q)
        PROVE  StreamInv'
    BY Zenon, <1>5, ConnectFollows
  <1>6. CASE Shutdown
    BY Zenon, <1>6, ShutdownFollows
  <1>7. CASE UNCHANGED publishVars
    BY Zenon, <1>1, <1>7 DEF publishVars
  <1> QED BY ZenonT(30), <1>2, <1>3, <1>4, <1>5, <1>6, <1>7 DEF PublishNext

\* The last stream of every peer tells exactly the services of the snapshot,
\* whichever threads publish, withdraw and connect in between, and is closed
\* exactly when there is no cluster.
THEOREM PeersAlwaysFollow == PublishSpec => []PeersFollow
  <1>1. (\E cast \in SUBSET Owners, gated, clustered \in BOOLEAN : PublishInit(cast, gated, clustered)) => StreamInv
    BY Zenon, StreamsStart
  <1>2. StreamInv => PeersFollow
    BY Zenon DEF StreamInv, StreamTypes, PeersFollow
  <1> QED BY <1>1, <1>2, StreamsStep, PTL DEF PublishSpec

-----------------------------------------------------------------------------
(* LocatorPublish: locks *)

\* Where an owner is while the gateway, and while the snapshot, has its service.
InGateway == {"consumed", "checked", "held", "leaked"}
InSnapshot == {"held", "leaked", "cleaned", "unchecked"}

\* The owners of a service that are at one of these stages, and the entry
\* that is due to them.
Holders(s, stages) == {a \in Owners : Service[a] = s /\ at[a] \in stages}
Entry(holders) == IF holders = {} THEN Gone ELSE Location[CHOOSE a \in holders : TRUE]

\* The inductive invariant of a service: one owner at a time holds it, and the
\* gateway and the snapshot have the entry due to it, stage by stage.
Rightly(s) ==
  /\ \A a, b \in Holders(s, Holding) : a = b
  /\ has_gateway => own_gateway[s] = Entry(Holders(s, InGateway))
  /\ m_cluster /\ s \notin Restricted => m_snapshots[s] = Entry(Holders(s, InSnapshot))

\* It holds for every service whose lock two owners did not hold at once.
LockInv ==
  /\ own_gateway = [s \in Services |-> own_gateway[s]]
  /\ m_snapshots = [s \in Services |-> m_snapshots[s]]
  /\ at = [a \in Owners |-> at[a]]
  /\ \A s \in Services \ clash : Rightly(s)

-----------------------------------------------------------------------------
\* The stages that are told apart.
LEMMA Stages ==
  /\ InGateway \subseteq Holding /\ InSnapshot \subseteq Holding
  /\ \A w \in {"idle", "absent", "refused", "left"} : w \notin Holding
  /\ Holding = InService \cup {"held", "leaked"}
  /\ "held" \notin InService /\ "leaked" \notin InService
  BY Zenon DEF Holding, InService, InGateway, InSnapshot

\* The entry due to nobody, and to one owner.
LEMMA EntryOf == Entry({}) = Gone /\ \A a : Entry({a}) = Location[a]
<1>1. \A a : {a} # {} /\ (CHOOSE b \in {a} : TRUE) = a
  BY Zenon
<1>2. QED
  BY Zenon, <1>1 DEF Entry

\* What the invariant says of an owner that is the only one of its service.
LEMMA OnlyOwner ==
  ASSUME LockInv, NEW a \in Owners, Service[a] \notin clash,
         \A b \in Owners : Service[b] = Service[a] /\ at[b] \in Holding => b = a
  PROVE  /\ has_gateway => own_gateway[Service[a]] = IF at[a] \in InGateway THEN Location[a] ELSE Gone
         /\ m_cluster /\ Service[a] \notin Restricted =>
              m_snapshots[Service[a]] = IF at[a] \in InSnapshot THEN Location[a] ELSE Gone
<1>1. Service[a] \in Services /\ Rightly(Service[a])
  BY Zenon, PublishAssumption DEF LockInv
<1>2. ASSUME NEW stages, stages \subseteq Holding
      PROVE  Entry(Holders(Service[a], stages)) = IF at[a] \in stages THEN Location[a] ELSE Gone
  <2>1. Holders(Service[a], stages) = IF at[a] \in stages THEN {a} ELSE {}
    BY Zenon, <1>2 DEF Holders
  <2>2. QED
    BY Zenon, <2>1, EntryOf
<1>3. QED
  BY Zenon, <1>1, <1>2, Stages DEF Rightly

\* An owner that holds a service with one owner at a time is that owner.
LEMMA HolderAlone ==
  ASSUME LockInv, NEW a \in Owners, Service[a] \notin clash, at[a] \in Holding
  PROVE  \A b \in Owners : Service[b] = Service[a] /\ at[b] \in Holding => b = a
<1>1. Service[a] \in Services /\ Rightly(Service[a])
  BY Zenon, PublishAssumption DEF LockInv
<1>2. QED
  BY Zenon, <1>1 DEF Rightly, Holders

\* A step of owner a to stage w.
LEMMA OwnerStep ==
  ASSUME LockInv, NEW a \in Owners, NEW w, at' = [at EXCEPT ![a] = w],
         own_gateway' = [s \in Services |-> own_gateway'[s]],
         m_snapshots' = [s \in Services |-> m_snapshots'[s]],
         \A t \in Services : t # Service[a] => own_gateway'[t] = own_gateway[t] /\ m_snapshots'[t] = m_snapshots[t],
         UNCHANGED <<has_gateway, m_cluster>>, clash \subseteq clash',
         Service[a] \notin clash' =>
           /\ \A b \in Owners : Service[b] = Service[a] /\ at[b] \in Holding => b = a
           /\ has_gateway => own_gateway'[Service[a]] = IF w \in InGateway THEN Location[a] ELSE Gone
           /\ m_cluster /\ Service[a] \notin Restricted =>
                m_snapshots'[Service[a]] = IF w \in InSnapshot THEN Location[a] ELSE Gone
  PROVE  LockInv'
<1>1. at' = [b \in Owners |-> at'[b]] /\ at = [b \in Owners |-> at[b]]
  BY Zenon DEF LockInv
<1>2. ASSUME NEW t \in Services \ clash', t = Service[a] PROVE Rightly(t)'
  <2>1. \A b \in Owners : Service[b] = Service[a] /\ at[b] \in Holding => b = a
    BY Zenon, <1>2
  <2>2. ASSUME NEW stages, stages \subseteq Holding
        PROVE  Holders(Service[a], stages)' = IF w \in stages THEN {a} ELSE {}
    <3>1. at'[a] = w /\ \A b \in Owners : b # a => at'[b] = at[b]
      BY Zenon, <1>1
    <3>2. \A b \in Owners : b # a /\ Service[b] = Service[a] => at'[b] \notin stages
      BY Zenon, <2>1, <2>2, <3>1
    <3>3. CASE w \in stages
      BY ZenonT(30), <3>1, <3>2, <3>3 DEF Holders
    <3>4. CASE w \notin stages
      <4>1. \A b \in Owners : Service[b] = Service[a] => at'[b] \notin stages
        BY ZenonT(30), <3>1, <3>2, <3>4
      <4>2. QED
        BY Zenon, <3>4, <4>1 DEF Holders
    <3>5. QED
      BY Zenon, <3>3, <3>4
  <2>3. \A b, c \in Holders(Service[a], Holding)' : b = c
    BY Zenon, <2>2
  <2>4. /\ Entry(Holders(Service[a], InGateway)') = IF w \in InGateway THEN Location[a] ELSE Gone
        /\ Entry(Holders(Service[a], InSnapshot)') = IF w \in InSnapshot THEN Location[a] ELSE Gone
    BY Zenon, <2>2, Stages, EntryOf
  <2>5. QED
    BY Zenon, <1>2, <2>3, <2>4 DEF Rightly
<1>3. ASSUME NEW t \in Services \ clash', t # Service[a] PROVE Rightly(t)'
  <2>1. ASSUME NEW stages PROVE Holders(t, stages)' = Holders(t, stages)
    BY Zenon, <1>1, <1>3 DEF Holders
  <2>2. Rightly(t) /\ own_gateway'[t] = own_gateway[t] /\ m_snapshots'[t] = m_snapshots[t]
    BY Zenon, <1>3 DEF LockInv
  <2>3. QED
    BY Zenon, <2>1, <2>2 DEF Rightly
<1>4. QED
  BY Zenon, <1>1, <1>2, <1>3 DEF LockInv

\* A step that leaves the entries and the owners where they are.
LEMMA OwnersRest ==
  ASSUME LockInv, UNCHANGED <<own_gateway, has_gateway, m_snapshots, at, clash>>, m_cluster' => m_cluster
  PROVE  LockInv'
<1>1. ASSUME NEW s \in Services \ clash, Rightly(s) PROVE Rightly(s)'
  BY Zenon, <1>1 DEF Rightly, Holders
<1>2. QED
  BY Zenon, <1>1 DEF LockInv

\* Nobody holds anything at the start, except who is cast to.
LEMMA LockStart ==
  ASSUME NEW cast, NEW gated, NEW clustered, PublishInit(cast, gated, clustered)
  PROVE  LockInv
<1>1. ASSUME NEW s PROVE Holders(s, Holding) = {} /\ Holders(s, InGateway) = {} /\ Holders(s, InSnapshot) = {}
  BY Zenon, Stages DEF PublishInit, Holders
<1>2. ASSUME NEW s \in Services PROVE Rightly(s)
  BY Zenon, <1>1, EntryOf DEF PublishInit, Rightly
<1>3. QED
  BY Zenon, <1>2 DEF PublishInit, LockInv

\* expose(): ...
LEMMA ExposeLocks == ASSUME LockInv, NEW a \in Owners, Expose(a) PROVE LockInv'
<1> DEFINE s == Service[a]
           taken == has_gateway /\ own_gateway[s] # Gone
<1>1. /\ at[a] = "idle" /\ UNCHANGED <<has_gateway, m_cluster, m_snapshots>>
      /\ \/ Throw(a, "refused") /\ UNCHANGED <<own_gateway, clash>>
         \/ /\ ~taken
            /\ own_gateway' = IF has_gateway THEN [own_gateway EXCEPT ![s] = Location[a]] ELSE own_gateway
            /\ clash' = IF \E b \in Owners \ {a} : Service[b] = s /\ at[b] \in Holding
                        THEN clash \cup {s} ELSE clash
            /\ Go(a, "consumed")
  BY Zenon DEF Expose
<1>2. s \in Services
  BY Zenon, PublishAssumption
<1>3. CASE Throw(a, "refused") /\ UNCHANGED <<own_gateway, clash>>
  <2>1. CASE UNCHANGED at
    BY Zenon, <1>1, <1>3, <2>1, OwnersRest
  <2>2. CASE at' = [at EXCEPT ![a] = "refused"]
    <3>1. ASSUME NEW t, NEW stages, stages \subseteq Holding PROVE Holders(t, stages)' = Holders(t, stages)
      <4>1. at'[a] = "refused" /\ \A b \in Owners : b # a => at'[b] = at[b]
        BY Zenon, <2>2 DEF LockInv
      <4>2. at[a] \notin stages /\ "refused" \notin stages
        BY Zenon, <1>1, <3>1, Stages
      <4>3. QED
        BY Zenon, <4>1, <4>2 DEF Holders
    <3>2. ASSUME NEW t \in Services \ clash, Rightly(t) PROVE Rightly(t)'
      BY ZenonT(30), <1>1, <1>3, <3>1, <3>2, Stages DEF Rightly
    <3>3. QED
      BY Zenon, <1>1, <1>3, <2>2, <3>2 DEF LockInv
  <2>3. QED
    BY Zenon, <1>3, <2>1, <2>2 DEF Throw, Go
<1>4. CASE /\ own_gateway' = IF has_gateway THEN [own_gateway EXCEPT ![s] = Location[a]] ELSE own_gateway
           /\ clash' = IF \E b \in Owners \ {a} : Service[b] = s /\ at[b] \in Holding
                       THEN clash \cup {s} ELSE clash
           /\ Go(a, "consumed")
  <2>1. own_gateway' = [t \in Services |-> own_gateway'[t]] /\ \A t \in Services : t # s => own_gateway'[t] = own_gateway[t]
    BY Zenon, <1>4 DEF LockInv
  <2>2. m_snapshots' = [t \in Services |-> m_snapshots'[t]] /\ at' = [at EXCEPT ![a] = "consumed"] /\ clash \subseteq clash'
    BY Zenon, <1>1, <1>4 DEF LockInv, Go
  <2>3. ASSUME s \notin clash'
        PROVE  /\ \A b \in Owners : Service[b] = s /\ at[b] \in Holding => b = a
               /\ has_gateway => own_gateway'[s] = Location[a]
               /\ m_cluster /\ s \notin Restricted => m_snapshots'[s] = Gone
    <3>1. \A b \in Owners : Service[b] = s /\ at[b] \in Holding => b = a
      BY Zenon, <1>4, <2>3
    <3>2. m_cluster /\ s \notin Restricted => m_snapshots[s] = Gone
      <4>1. s \notin clash /\ at[a] \notin InSnapshot
        BY ZenonT(30), <1>1, <2>2, <2>3, Stages
      <4>2. QED
        BY Zenon, <3>1, <4>1, OnlyOwner
    <3>3. has_gateway => own_gateway'[s] = Location[a]
      BY Zenon, <1>2, <1>4 DEF LockInv
    <3>4. QED
      BY Zenon, <1>1, <3>1, <3>2, <3>3
  <2>4. "consumed" \in InGateway /\ "consumed" \notin InSnapshot
    BY Zenon DEF InGateway, InSnapshot
  <2>5. QED
    BY Zenon, <1>1, <2>1, <2>2, <2>3, <2>4, OwnerStep
<1>5. QED
  BY Zenon, <1>1, <1>3, <1>4

\* An owner that goes from stage to stage while neither entry changes.
LEMMA OwnerGoes ==
  ASSUME LockInv, NEW a \in Owners, at[a] \in Holding, NEW w, at' = [at EXCEPT ![a] = w],
         UNCHANGED <<own_gateway, has_gateway, m_cluster, m_snapshots, clash>>,
         has_gateway =>
           \/ w \in InGateway <=> at[a] \in InGateway
           \/ own_gateway[Service[a]] = Gone /\ w \notin InGateway,
         m_cluster /\ Service[a] \notin Restricted /\ Service[a] \notin clash =>
           \/ w \in InSnapshot <=> at[a] \in InSnapshot
           \/ m_snapshots[Service[a]] = Gone /\ w \notin InSnapshot
  PROVE  LockInv'
<1>1. ASSUME Service[a] \notin clash'
      PROVE  /\ \A b \in Owners : Service[b] = Service[a] /\ at[b] \in Holding => b = a
             /\ has_gateway => own_gateway'[Service[a]] = IF w \in InGateway THEN Location[a] ELSE Gone
             /\ m_cluster /\ Service[a] \notin Restricted =>
                  m_snapshots'[Service[a]] = IF w \in InSnapshot THEN Location[a] ELSE Gone
  <2>1. Service[a] \notin clash
    BY Zenon, <1>1
  <2>2. \A b \in Owners : Service[b] = Service[a] /\ at[b] \in Holding => b = a
    BY Zenon, <2>1, HolderAlone
  <2>3. /\ has_gateway => own_gateway[Service[a]] = IF at[a] \in InGateway THEN Location[a] ELSE Gone
        /\ m_cluster /\ Service[a] \notin Restricted =>
             m_snapshots[Service[a]] = IF at[a] \in InSnapshot THEN Location[a] ELSE Gone
    BY Zenon, <2>1, <2>2, OnlyOwner
  <2>4. QED
    BY Zenon, <2>1, <2>2, <2>3
<1>2. /\ own_gateway' = [s \in Services |-> own_gateway'[s]] /\ m_snapshots' = [s \in Services |-> m_snapshots'[s]]
      /\ \A t \in Services : own_gateway'[t] = own_gateway[t] /\ m_snapshots'[t] = m_snapshots[t]
      /\ clash \subseteq clash'
  BY Zenon DEF LockInv
<1>3. QED
  BY Zenon, <1>1, <1>2, OwnerStep

\* on_service() looks at m_cluster: ...
LEMMA CheckClusterLocks == ASSUME LockInv, NEW a \in Owners, CheckCluster(a) PROVE LockInv'
<1> DEFINE hidden == Service[a] \in Restricted \/ ~m_cluster
<1>1. /\ UNCHANGED <<own_gateway, has_gateway, m_cluster, m_snapshots, clash>>
      /\ \/ at[a] = "consumed" /\ Go(a, IF hidden THEN Exposed(a) ELSE "checked")
         \/ at[a] = "cleaned" /\ Go(a, IF hidden THEN "left" ELSE "unchecked")
  BY Zenon DEF CheckCluster
<1>2. Exposed(a) \in {"held", "leaked"}
  BY Zenon DEF Exposed
<1>3. PICK w : /\ at' = [at EXCEPT ![a] = w]
               /\ \/ at[a] = "consumed" /\ w \in {"held", "leaked", "checked"} /\ (~hidden => w = "checked")
                  \/ at[a] = "cleaned" /\ w \in {"left", "unchecked"} /\ (~hidden => w = "unchecked")
  <2>1. CASE at[a] = "consumed" /\ Go(a, IF hidden THEN Exposed(a) ELSE "checked")
    BY Zenon, <1>2, <2>1 DEF Go
  <2>2. CASE at[a] = "cleaned" /\ Go(a, IF hidden THEN "left" ELSE "unchecked")
    BY Zenon, <2>2 DEF Go
  <2>3. QED
    BY Zenon, <1>1, <2>1, <2>2
<1>4. at[a] \in Holding /\ (w \in InGateway <=> at[a] \in InGateway) /\ (~hidden => (w \in InSnapshot <=> at[a] \in InSnapshot))
  <2> HIDE DEF hidden
  <2>1. QED
    BY Zenon, <1>3 DEF Holding, InService, InGateway, InSnapshot
<1>5. m_cluster /\ Service[a] \notin Restricted => (w \in InSnapshot <=> at[a] \in InSnapshot)
  BY Zenon, <1>4
<1>6. QED
  <2>1. at[a] \in Holding /\ (w \in InGateway <=> at[a] \in InGateway) /\ at' = [at EXCEPT ![a] = w]
    BY Zenon, <1>3, <1>4
  <2>2. UNCHANGED <<own_gateway, has_gateway, m_cluster, m_snapshots, clash>>
    BY Zenon, <1>1
  <2> HIDE DEF hidden
  <2>3. QED
    BY ZenonT(30), <1>5, <2>1, <2>2, OwnerGoes

\* An owner enters the gateway and then the snapshot.
LEMMA AnnounceLocks == ASSUME LockInv, NEW a \in Owners, Announce(a) PROVE LockInv'
<1> DEFINE s == Service[a]
<1>1. /\ at[a] = "checked" /\ UNCHANGED <<own_gateway, has_gateway, m_cluster, clash>>
      /\ \/ m_snapshots[s] # Gone /\ UNCHANGED m_snapshots
         \/ m_snapshots[s] = Gone /\ m_snapshots' = [m_snapshots EXCEPT ![s] = Location[a]]
  BY Zenon DEF Announce
<1>2. PICK w \in {"held", "leaked"} : at' = [at EXCEPT ![a] = w]
  BY Zenon DEF Announce, Go, Exposed
<1>3. s \in Services
  BY Zenon, PublishAssumption
<1>4. w \in InGateway /\ w \in InSnapshot /\ at[a] \in Holding /\ at[a] \in InGateway /\ at[a] \notin InSnapshot
  BY Zenon, <1>1, <1>2 DEF Holding, InService, InGateway, InSnapshot
<1>5. /\ m_snapshots' = [t \in Services |-> m_snapshots'[t]] /\ own_gateway' = [t \in Services |-> own_gateway'[t]]
      /\ \A t \in Services : t # s => own_gateway'[t] = own_gateway[t] /\ m_snapshots'[t] = m_snapshots[t]
      /\ clash \subseteq clash'
  BY Zenon, <1>1 DEF LockInv
<1>6. ASSUME s \notin clash'
      PROVE  /\ \A b \in Owners : Service[b] = s /\ at[b] \in Holding => b = a
             /\ has_gateway => own_gateway'[s] = Location[a]
             /\ m_cluster /\ s \notin Restricted => m_snapshots'[s] = Location[a]
  <2>1. s \notin clash /\ \A b \in Owners : Service[b] = s /\ at[b] \in Holding => b = a
    BY ZenonT(30), <1>1, <1>4, <1>6, HolderAlone
  <2>2. /\ has_gateway => own_gateway[s] = Location[a]
        /\ m_cluster /\ s \notin Restricted => m_snapshots[s] = Gone
    BY Zenon, <1>4, <2>1, OnlyOwner
  <2>3. m_snapshots[s] = Gone => m_snapshots'[s] = Location[a]
    BY Zenon, <1>1, <1>3 DEF LockInv
  <2>4. QED
    BY Zenon, <1>1, <2>1, <2>2, <2>3
<1>7. QED
  BY ZenonT(30), <1>1, <1>2, <1>4, <1>5, <1>6, OwnerStep

\* discard() leaves both.
LEMMA DiscardLocks == ASSUME LockInv, NEW a \in Owners, Discard(a) PROVE LockInv'
<1> DEFINE s == Service[a]
<1>1. /\ at[a] = "held" /\ UNCHANGED <<has_gateway, m_cluster, m_snapshots, clash>>
      /\ \/ has_gateway /\ own_gateway[s] = Gone /\ Throw(a, "left") /\ UNCHANGED own_gateway
         \/ own_gateway' = [own_gateway EXCEPT ![s] = Gone] /\ Go(a, "cleaned")
  BY Zenon DEF Discard
<1>2. s \in Services
  BY Zenon, PublishAssumption
<1>3. at[a] \in Holding /\ at[a] \in InGateway /\ at[a] \in InSnapshot
  BY Zenon, <1>1 DEF Holding, InGateway, InSnapshot
<1>4. CASE has_gateway /\ own_gateway[s] = Gone /\ Throw(a, "left") /\ UNCHANGED own_gateway
  <2>1. CASE UNCHANGED at
    BY ZenonT(30), <1>1, <1>4, <2>1, OwnersRest
  <2>2. CASE at' = [at EXCEPT ![a] = "left"]
    <3>1. "left" \notin InGateway /\ "left" \notin InSnapshot
      BY Zenon, Stages
    <3>2. m_cluster /\ s \notin Restricted /\ s \notin clash => m_snapshots[s] = Gone
      BY ZenonT(30), <1>3, <1>4, HolderAlone, OnlyOwner
    <3>3. QED
      BY ZenonT(30), <1>1, <1>3, <1>4, <2>2, <3>1, <3>2, OwnerGoes
  <2>3. QED
    BY Zenon, <1>4, <2>1, <2>2 DEF Throw, Go
<1>5. CASE own_gateway' = [own_gateway EXCEPT ![s] = Gone] /\ Go(a, "cleaned")
  <2>1. "cleaned" \notin InGateway /\ "cleaned" \in InSnapshot
    BY Zenon DEF InGateway, InSnapshot
  <2>2. /\ m_snapshots' = [t \in Services |-> m_snapshots'[t]] /\ own_gateway' = [t \in Services |-> own_gateway'[t]]
        /\ \A t \in Services : t # s => own_gateway'[t] = own_gateway[t] /\ m_snapshots'[t] = m_snapshots[t]
        /\ clash \subseteq clash' /\ own_gateway'[s] = Gone /\ at' = [at EXCEPT ![a] = "cleaned"]
    BY ZenonT(30), <1>1, <1>2, <1>5 DEF LockInv, Go
  <2>3. ASSUME s \notin clash'
        PROVE  /\ \A b \in Owners : Service[b] = s /\ at[b] \in Holding => b = a
               /\ m_cluster /\ s \notin Restricted => m_snapshots'[s] = Location[a]
    BY ZenonT(30), <1>1, <1>3, <2>3, HolderAlone, OnlyOwner
  <2>4. QED
    BY ZenonT(30), <1>1, <2>1, <2>2, <2>3, OwnerStep
<1>6. QED
  BY Zenon, <1>1, <1>4, <1>5

\* So does the destructor of the lock, in its own order.
LEMMA WithdrawLocks == ASSUME LockInv, NEW a \in Owners, Withdraw(a) PROVE LockInv'
<1> DEFINE s == Service[a]
<1>1. /\ at[a] = "unchecked" /\ UNCHANGED <<own_gateway, has_gateway, m_cluster, clash>>
      /\ m_snapshots' = [m_snapshots EXCEPT ![s] = Gone] /\ at' = [at EXCEPT ![a] = "left"]
  BY Zenon DEF Withdraw, Go
<1>2. s \in Services
  BY Zenon, PublishAssumption
<1>3. at[a] \in Holding /\ at[a] \notin InGateway /\ "left" \notin InGateway /\ "left" \notin InSnapshot
  BY Zenon, <1>1 DEF Holding, InService, InGateway, InSnapshot
<1>4. /\ m_snapshots' = [t \in Services |-> m_snapshots'[t]] /\ own_gateway' = [t \in Services |-> own_gateway'[t]]
      /\ \A t \in Services : t # s => own_gateway'[t] = own_gateway[t] /\ m_snapshots'[t] = m_snapshots[t]
      /\ clash \subseteq clash' /\ m_snapshots'[s] = Gone
  BY Zenon, <1>1, <1>2 DEF LockInv
<1>5. ASSUME s \notin clash'
      PROVE  /\ \A b \in Owners : Service[b] = s /\ at[b] \in Holding => b = a
             /\ has_gateway => own_gateway'[s] = Gone
  BY Zenon, <1>1, <1>3, <1>5, HolderAlone, OnlyOwner
<1>6. QED
  BY ZenonT(30), <1>1, <1>3, <1>4, <1>5, OwnerStep

\* Every step keeps it, for every owner.
LEMMA LockStep == LockInv /\ [PublishNext]_publishVars => LockInv'
<1> SUFFICES ASSUME LockInv, [PublishNext]_publishVars PROVE LockInv'
  BY Zenon
<1>1. ASSUME NEW a \in Owners, Expose(a) \/ CheckCluster(a) \/ Announce(a) \/ Discard(a) \/ Withdraw(a) PROVE LockInv'
  BY Zenon, <1>1, ExposeLocks, CheckClusterLocks, AnnounceLocks, DiscardLocks, WithdrawLocks
<1>2. ASSUME NEW a \in Owners, Disconnect(a) PROVE LockInv'
  BY Zenon, <1>2, OwnersRest DEF Disconnect
<1>3. ASSUME NEW q \in Peers, Connect(q) PROVE LockInv'
  BY Zenon, <1>3, OwnersRest DEF Connect
<1>4. CASE Shutdown
  BY Zenon, <1>4, OwnersRest DEF Shutdown
<1>5. CASE UNCHANGED publishVars
  BY ZenonT(30), <1>5, OwnersRest DEF publishVars
<1>6. QED
  BY Zenon, <1>1, <1>2, <1>3, <1>4, <1>5 DEF PublishNext

\* A service with one owner at a time is in the gateway and in the snapshot of
\* the locator exactly while the owner has the lock that publish() returned,
\* for any owners, services, peers and streams.
THEOREM EntriesFollowLocks == PublishSpec => []PublishedWhileHeld
<1>1. ASSUME NEW cast \in SUBSET Owners, NEW gated \in BOOLEAN, NEW clustered \in BOOLEAN, PublishInit(cast, gated, clustered)
      PROVE  LockInv
  BY Zenon, <1>1, LockStart
<1>2. (\E cast \in SUBSET Owners, gated, clustered \in BOOLEAN : PublishInit(cast, gated, clustered)) => LockInv
  BY Zenon, <1>1
<1>3. LockInv => PublishedWhileHeld
  <2> SUFFICES ASSUME LockInv, NEW s \in Services \ clash, \A a \in Owners : Service[a] = s => at[a] \notin InService
               PROVE  LET holders == {a \in Owners : Service[a] = s /\ at[a] \in {"held", "leaked"}}
                          here == IF holders = {} THEN Gone ELSE Location[CHOOSE a \in holders : TRUE]
                      IN  /\ has_gateway => own_gateway[s] = here
                          /\ m_cluster /\ s \notin Restricted => m_snapshots[s] = here
    BY Zenon DEF PublishedWhileHeld
  <2>1. Holders(s, InGateway) = Holders(s, {"held", "leaked"}) /\ Holders(s, InSnapshot) = Holders(s, {"held", "leaked"})
    BY Zenon DEF Holders, InGateway, InSnapshot, InService
  <2>2. Rightly(s)
    BY Zenon DEF LockInv
  <2>3. QED
    BY ZenonT(30), <2>1, <2>2 DEF Rightly, Entry, Holders
<1>4. QED
  BY <1>2, <1>3, LockStep, PTL DEF PublishSpec

-----------------------------------------------------------------------------
(* LocatorRouting *)

\* What a group may be, where a request may be and what it carries.
Versions == {"none", "bad", "old", "new"}
Steps == Quiet \cup {"found", "listing", "read", "take", "write"}
Jobs == [step : Steps, results : {<<>>} \cup [Groups -> Versions], stream : Nat,
         updated : SUBSET Groups, todo : SUBSET Ruids]

\* What the variables hold; no routing request has a stream yet to be made.
RoutingTypeOK ==
  /\ job \in [Routings \cup Refreshes -> Jobs]
  /\ stored \in [Groups -> Versions] /\ m_rgs \in [Groups -> Versions]
  /\ m_routers \in [Ruids -> Nat]
  /\ \E n \in Nat : DOMAIN view = 1..n /\ \A s \in Routings : job[s].stream <= n

\* Two requests do not share a stream, and a refresh that is at a router has one.
Apart ==
  /\ \A s, o \in Routings : job[s].stream = job[o].stream /\ job[s].stream # 0 => s = o
  /\ \A s \in Routings : job[s].step \in {"write", "attached"} => job[s].stream # 0
  /\ \A t \in Refreshes : job[t].step \in {"read", "take", "write"} => job[t].todo # {}

\* Refresh t is going to write the groups of m_rgs to router r, on stream i.
Owed(t, r, i) ==
  \/ job[t].step = "listing"
  \/ /\ r \in job[t].todo
     /\ \/ job[t].step = "read"
        \/ job[t].step \in {"take", "write"} /\ r # At(t)
        \/ job[t].step = "take" /\ job[t].results = m_rgs
        \/ job[t].step = "write" /\ job[t].results = m_rgs /\ job[t].stream = i

\* The request has the newest stream of its router.
Newest(s) == \A o \in Routings : Ruid[o] = Ruid[s] => job[o].stream <= job[s].stream

\* The newest stream of a router is in the map, and was told the groups or is
\* going to be.
Current(s) ==
  job[s].step \in {"write", "attached"} /\ Newest(s) /\ job[s].stream \notin choked /\ Ruid[s] \notin usurped =>
    /\ m_routers[Ruid[s]] = job[s].stream
    /\ job[s].step = "attached" /\ job[s].stream \notin stale =>
         view[job[s].stream] = m_rgs \/ \E t \in Refreshes : Owed(t, Ruid[s], job[s].stream)

\* The inductive invariant of routing.
RoutingInv == RoutingTypeOK /\ Apart /\ \A s \in Routings : Current(s)

-----------------------------------------------------------------------------
\* The fields of a job that is set to one of Quiet, or turned to its routers.
LEMMA ThreadFields ==
  ASSUME NEW step, NEW i
  PROVE  /\ Thread(step, i).step = step /\ Thread(step, i).stream = i
         /\ Thread(step, i).todo = {} /\ Thread(step, i).results = <<>>
         /\ step \in Steps /\ i \in Nat => Thread(step, i) \in Jobs
<1>1. /\ Thread(step, i).step = step /\ Thread(step, i).stream = i
      /\ Thread(step, i).todo = {} /\ Thread(step, i).results = <<>>
  BY Zenon DEF Thread
<1>2. step \in Steps /\ i \in Nat => Thread(step, i) \in Jobs
  BY Zenon DEF Thread, Jobs
<1>3. QED
  BY Zenon, <1>1, <1>2

\* The streams so far are numbered: the next one has a new number.
LEMMA NextStream ==
  ASSUME NEW n \in Nat, DOMAIN view = 1..n
  PROVE  Len(view) + 1 = n + 1 /\ n + 1 \in Nat /\ n + 1 # 0 /\ \A i \in Nat : i <= n => i # n + 1
<1>1. Len(view) = n
  OBVIOUS
<1>2. QED
  BY <1>1

\* A request whose job and router are left alone stays current if its stream
\* is written by nobody and no refresh that is to write to it gives up.
LEMMA CurrentKept ==
  ASSUME NEW s \in Routings, Current(s), NEW i, i = job[s].stream, NEW r, r = Ruid[s],
         job'[s] = job[s], Newest(s)' => Newest(s), choked \subseteq choked', usurped \subseteq usurped',
         i \notin choked' /\ r \notin usurped' /\ m_routers[r] = i => m_routers'[r] = i,
         i \notin stale' /\ i \notin choked' /\ m_routers[r] = i =>
           \/ view'[i] = m_rgs'
           \/ \E t \in Refreshes : Owed(t, r, i)'
           \/ /\ i \notin stale /\ view'[i] = view[i] /\ m_rgs' = m_rgs
              /\ \A t \in Refreshes : Owed(t, r, i) => Owed(t, r, i)'
  PROVE  Current(s)'
<1> SUFFICES ASSUME job[s].step \in {"write", "attached"}, Newest(s)', i \notin choked', r \notin usurped'
             PROVE  /\ m_routers'[r] = i
                    /\ job[s].step = "attached" /\ i \notin stale' =>
                         view'[i] = m_rgs' \/ \E t \in Refreshes : Owed(t, r, i)'
  BY Zenon DEF Current
<1>1. Newest(s) /\ i \notin choked /\ r \notin usurped
  BY Zenon
<1>2. m_routers[r] = i
  BY Zenon, <1>1 DEF Current
<1>3. job[s].step = "attached" /\ i \notin stale => view[i] = m_rgs \/ \E t \in Refreshes : Owed(t, r, i)
  BY Zenon, <1>1 DEF Current
<1>4. QED
  BY Zenon, <1>2, <1>3

\* A thread stays at its router while the list of routers does.
LEMMA AtKept == ASSUME NEW t, job'[t].todo = job[t].todo PROVE At(t)' = At(t)
  BY Zenon DEF At

\* What refresh u is to write is left alone with its job and with m_rgs.
LEMMA OwedKept ==
  ASSUME NEW u, job'[u] = job[u], m_rgs' = m_rgs, NEW r, NEW i, Owed(u, r, i)
  PROVE  Owed(u, r, i)'
<1>1. At(u)' = At(u)
  BY Zenon DEF At
<1>2. QED
  BY Zenon, <1>1 DEF Owed

\* The job of thread t becomes j.
Becomes(t, j) == job' = [job EXCEPT ![t] = j]

\* The job of refresh t becomes j.
LEMMA RefreshJob ==
  ASSUME RoutingInv, NEW t \in Refreshes, NEW j \in Jobs, Becomes(t, j),
         j.step \in {"read", "take", "write"} => j.todo # {}
  PROVE  /\ job' \in [Routings \cup Refreshes -> Jobs] /\ Apart'
         /\ job'[t] = j /\ \A u \in Routings \cup Refreshes : u # t => job'[u] = job[u]
         /\ \A s \in Routings : job'[s] = job[s] /\ (Newest(s)' => Newest(s))
<1>1. job \in [Routings \cup Refreshes -> Jobs] /\ t \notin Routings
  BY Zenon, RoutingAssumption DEF RoutingInv, RoutingTypeOK
<1>2. job' \in [Routings \cup Refreshes -> Jobs] /\ job'[t] = j /\ \A u \in Routings \cup Refreshes : u # t => job'[u] = job[u]
  BY Zenon, <1>1 DEF Becomes
<1>3. \A s \in Routings : job'[s] = job[s]
  BY Zenon, <1>1, <1>2
<1>4. \A s \in Routings : Newest(s)' => Newest(s)
  BY Zenon, <1>3 DEF Newest
<1>5. Apart'
  <2>1. ASSUME NEW u \in Refreshes, job'[u].step \in {"read", "take", "write"} PROVE job'[u].todo # {}
    <3>1. CASE u = t
      BY ZenonT(30), <1>2, <2>1, <3>1
    <3>2. CASE u # t
      BY ZenonT(30), <1>2, <2>1, <3>2 DEF RoutingInv, Apart
    <3>3. QED
      BY Zenon, <3>1, <3>2
  <2>2. /\ \A s, o \in Routings : job'[s].stream = job'[o].stream /\ job'[s].stream # 0 => s = o
        /\ \A s \in Routings : job'[s].step \in {"write", "attached"} => job'[s].stream # 0
    BY ZenonT(30), <1>3 DEF RoutingInv, Apart
  <2>3. QED
    BY Zenon, <2>1, <2>2 DEF Apart
<1>6. QED
  BY ZenonT(30), <1>2, <1>3, <1>4, <1>5

\* The job of request o becomes j, with the stream it had.
LEMMA RequestJob ==
  ASSUME RoutingInv, NEW o \in Routings, NEW j \in Jobs, Becomes(o, j),
         j.stream = job[o].stream, j.step \in {"write", "attached"} => j.stream # 0
  PROVE  /\ job' \in [Routings \cup Refreshes -> Jobs] /\ Apart'
         /\ job'[o] = j /\ \A u \in Routings \cup Refreshes : u # o => job'[u] = job[u]
         /\ \A t \in Refreshes : job'[t] = job[t]
         /\ \A s \in Routings : job'[s].stream = job[s].stream /\ (Newest(s)' => Newest(s))
<1>1. job \in [Routings \cup Refreshes -> Jobs] /\ o \notin Refreshes
  BY Zenon, RoutingAssumption DEF RoutingInv, RoutingTypeOK
<1>2. job' \in [Routings \cup Refreshes -> Jobs] /\ job'[o] = j /\ \A u \in Routings \cup Refreshes : u # o => job'[u] = job[u]
  BY Zenon, <1>1 DEF Becomes
<1>3. \A t \in Refreshes : job'[t] = job[t]
  BY Zenon, <1>1, <1>2
<1>4. \A s \in Routings : job'[s].stream = job[s].stream
  BY Zenon, <1>2
<1>5. \A s \in Routings : Newest(s)' => Newest(s)
  BY Zenon, <1>4 DEF Newest
<1>6. Apart'
  <2>1. \A s \in Routings : job'[s].step \in {"write", "attached"} => job'[s].stream # 0
    BY Zenon, <1>2 DEF RoutingInv, Apart
  <2>2. \A s, p \in Routings : job'[s].stream = job'[p].stream /\ job'[s].stream # 0 => s = p
    BY ZenonT(30), <1>4 DEF RoutingInv, Apart
  <2>3. QED
    BY Zenon, <1>3, <2>1, <2>2 DEF RoutingInv, Apart
<1>7. QED
  BY Zenon, <1>2, <1>3, <1>4, <1>5, <1>6

\* The streams and their numbers, when requests keep theirs.
LEMMA BoundKept ==
  ASSUME RoutingInv, DOMAIN view' = DOMAIN view, \A s \in Routings : job'[s].stream = job[s].stream
  PROVE  \E n \in Nat : DOMAIN view' = 1..n /\ \A s \in Routings : job'[s].stream <= n
  BY Zenon DEF RoutingInv, RoutingTypeOK

\* It holds before any request.
LEMMA RoutingStart == ASSUME NEW cast, RoutingInit(cast) PROVE RoutingInv
<1>1. \A t \in Routings \cup Refreshes : /\ job[t] \in Jobs /\ job[t].step \in {"new", "done"}
                                         /\ job[t].stream = 0
  <2>1. 0 \in Nat /\ \A w \in {"new", "done"} : w \in Steps
    BY Zenon DEF Steps, Quiet
  <2>2. \A w \in {"new", "done"} : Thread(w, 0) \in Jobs /\ Thread(w, 0).step = w /\ Thread(w, 0).stream = 0
    BY Zenon, <2>1, ThreadFields
  <2>3. QED
    BY Zenon, <2>2 DEF RoutingInit
<1>2. /\ job \in [Routings \cup Refreshes -> Jobs] /\ m_routers \in [Ruids -> Nat]
      /\ stored \in [Groups -> Versions] /\ m_rgs \in [Groups -> Versions]
  <2>1. 0 \in Nat /\ "old" \in Versions
    BY Zenon DEF Versions
  <2>2. QED
    BY Zenon, <1>1, <2>1 DEF RoutingInit
<1>3. \E n \in Nat : DOMAIN view = 1..n /\ \A s \in Routings : job[s].stream <= n
  <2>1. DOMAIN view = 1..0 /\ 0 \in Nat /\ 0 <= 0
    BY DEF RoutingInit
  <2>2. QED
    BY Zenon, <1>1, <2>1
<1>4. Apart
  BY Zenon, <1>1 DEF Apart
<1>5. ASSUME NEW s \in Routings PROVE Current(s)
  BY Zenon, <1>1 DEF Current
<1>6. QED
  BY Zenon, <1>2, <1>3, <1>4, <1>5 DEF RoutingInv, RoutingTypeOK

\* A step that leaves jobs, maps and streams alone.
LEMMA RoutingRests ==
  ASSUME RoutingInv, UNCHANGED <<m_rgs, m_routers, view, job, stale, usurped>>, choked \subseteq choked',
         stored' \in [Groups -> Versions]
  PROVE  RoutingInv'
<1>1. RoutingTypeOK' /\ Apart'
  BY Zenon DEF RoutingInv, RoutingTypeOK, Apart
<1>2. ASSUME NEW s \in Routings PROVE Current(s)'
  <2>1. PICK i, r : i = job[s].stream /\ r = Ruid[s]
    BY Zenon
  <2>2. Current(s) /\ (Newest(s)' => Newest(s))
    BY Zenon DEF RoutingInv, Newest
  <2>3. \A t \in Refreshes : Owed(t, r, i) => Owed(t, r, i)'
    BY Zenon, OwedKept
  <2>4. QED
    BY ZenonT(30), <2>1, <2>2, <2>3, CurrentKept
<1>3. QED
  BY Zenon, <1>1, <1>2 DEF RoutingInv

\* A refresh that goes on without touching maps, streams and groups.
LEMMA RefreshGoesOn ==
  ASSUME RoutingInv, NEW t \in Refreshes, NEW j \in Jobs, Becomes(t, j),
         j.step \in {"read", "take", "write"} => j.todo # {},
         UNCHANGED <<stored, m_rgs, m_routers, view, choked, stale, usurped>>,
         \A s \in Routings : m_routers[Ruid[s]] = job[s].stream /\ job[s].step = "attached"
                               /\ Owed(t, Ruid[s], job[s].stream) => Owed(t, Ruid[s], job[s].stream)'
  PROVE  RoutingInv'
<1>1. /\ job' \in [Routings \cup Refreshes -> Jobs] /\ Apart'
      /\ job'[t] = j /\ \A u \in Routings \cup Refreshes : u # t => job'[u] = job[u]
      /\ \A s \in Routings : job'[s] = job[s] /\ (Newest(s)' => Newest(s))
  BY Zenon, RefreshJob
<1>2. RoutingTypeOK'
  BY Zenon, <1>1, BoundKept DEF RoutingInv, RoutingTypeOK
<1>3. ASSUME NEW s \in Routings PROVE Current(s)'
  <2>1. PICK i, r : i = job[s].stream /\ r = Ruid[s]
    BY Zenon
  <2>2. Current(s)
    BY Zenon DEF RoutingInv
  <2>3. ASSUME m_routers[r] = i, job[s].step = "attached", NEW u \in Refreshes, Owed(u, r, i) PROVE Owed(u, r, i)'
    <3>1. CASE u = t
      BY ZenonT(30), <1>1, <2>1, <2>3, <3>1
    <3>2. CASE u # t
      BY ZenonT(30), <1>1, <2>3, <3>2, OwedKept
    <3>3. QED
      BY Zenon, <3>1, <3>2
  <2>4. CASE job[s].step = "attached"
    <3>1. m_routers[r] = i => \A u \in Refreshes : Owed(u, r, i) => Owed(u, r, i)'
      BY Zenon, <2>3, <2>4
    <3>2. i \notin stale' /\ i \notin choked' /\ m_routers[r] = i =>
            /\ i \notin stale /\ view'[i] = view[i] /\ m_rgs' = m_rgs
            /\ \A u \in Refreshes : Owed(u, r, i) => Owed(u, r, i)'
      BY Zenon, <3>1
    <3>3. job'[s] = job[s] /\ (Newest(s)' => Newest(s))
      BY Zenon, <1>1
    <3>4. QED
      BY ZenonT(30), <2>1, <2>2, <3>2, <3>3, CurrentKept
  <2>5. CASE job[s].step # "attached"
    BY ZenonT(30), <1>1, <2>1, <2>2, <2>5 DEF Current
  <2>6. QED
    BY Zenon, <2>4, <2>5
<1>4. QED
  BY ZenonT(30), <1>1, <1>2, <1>3 DEF RoutingInv

\* A refresh that fails, or that has changed the groups and is to list the
\* routers, and one that has none to turn to.
LEMMA FindGroupsKeeps == ASSUME RoutingInv, NEW t \in Refreshes, FindGroups(t) PROVE RoutingInv'
<1>1. job \in [Routings \cup Refreshes -> Jobs] /\ job[t] \in Jobs /\ job[t].step = "new"
  BY Zenon DEF RoutingInv, RoutingTypeOK, FindGroups
<1>2. PICK found \in SUBSET Groups : job' = [job EXCEPT ![t] = [job[t] EXCEPT !.step = "found", !.updated = found]]
  <2>1. {g \in Groups : stored[g] # "none"} \in SUBSET Groups
    BY Zenon
  <2>2. job' = [job EXCEPT ![t].step = "found", ![t].updated = {g \in Groups : stored[g] # "none"}]
    BY Zenon DEF FindGroups
  <2>3. job' = [job EXCEPT ![t] = [job[t] EXCEPT !.step = "found", !.updated = {g \in Groups : stored[g] # "none"}]]
    BY Zenon, <1>1, <2>2 DEF Jobs
  <2>4. QED
    BY Zenon, <2>1, <2>3
<1>3. PICK j : j = [job[t] EXCEPT !.step = "found", !.updated = found]
  BY Zenon
<1>4. j \in Jobs /\ j.step = "found"
  BY ZenonT(30), <1>1, <1>2, <1>3 DEF Jobs, Steps
<1>5. ASSUME NEW r, NEW i PROVE ~Owed(t, r, i)
  BY Zenon, <1>1 DEF Owed
<1>6. UNCHANGED <<stored, m_rgs, m_routers, view, choked, stale, usurped>>
  BY Zenon DEF FindGroups
<1>7. j.step \notin {"read", "take", "write"} /\ Becomes(t, j)
  BY Zenon, <1>2, <1>3, <1>4 DEF Becomes
<1>8. QED
  BY ZenonT(30), <1>4, <1>5, <1>6, <1>7, RefreshGoesOn

\* A step that a job is set to when it is given up or goes on.
LEMMA StepTo ==
  ASSUME RoutingTypeOK, NEW t \in Routings \cup Refreshes, NEW step \in Steps, Step(t, step)
  PROVE  \E j \in Jobs : /\ Becomes(t, j) /\ j.step = step /\ j.stream = job[t].stream
<1>1. job \in [Routings \cup Refreshes -> Jobs] /\ job[t] \in Jobs /\ job[t].stream \in Nat
  BY Zenon DEF RoutingTypeOK, Jobs
<1>2. CASE step \in Quiet
  <2>1. job' = [job EXCEPT ![t] = Thread(step, job[t].stream)]
    BY Zenon, <1>2 DEF Step
  <2>2. PICK j : j = Thread(step, job[t].stream)
    BY ZenonT(30)
  <2>3. j \in Jobs /\ j.step = step /\ j.stream = job[t].stream
    BY Zenon, <1>1, <2>2 DEF Jobs, Thread
  <2>4. QED
    BY Zenon, <2>1, <2>2, <2>3 DEF Becomes
<1>3. CASE step \notin Quiet
  <2>1. job' = [job EXCEPT ![t] = [job[t] EXCEPT !.step = step]]
    BY Zenon, <1>3 DEF Step
  <2>2. PICK j : j = [job[t] EXCEPT !.step = step]
    BY Zenon
  <2>3. j \in Jobs /\ j.step = step /\ j.stream = job[t].stream
    BY Zenon, <1>1, <2>2 DEF Jobs
  <2>4. QED
    BY Zenon, <2>1, <2>2, <2>3 DEF Becomes
<1>4. QED
  BY Zenon, <1>2, <1>3

\* A refresh replaces the groups it read: their routers are still to be told.
LEMMA ApplyGroupsKeeps == ASSUME RoutingInv, NEW t \in Refreshes, ApplyGroups(t) PROVE RoutingInv'
<1>1. /\ RoutingTypeOK /\ t \in Routings \cup Refreshes /\ job[t].step = "found"
      /\ UNCHANGED <<stored, m_routers, view, choked, stale, usurped>>
  BY ZenonT(30) DEF RoutingInv, ApplyGroups
<1>2. ASSUME NEW r, NEW i PROVE ~Owed(t, r, i)
  BY Zenon, <1>1 DEF Owed
<1>3. CASE Step(t, "failed") /\ UNCHANGED m_rgs
  <2>1. "failed" \in Steps /\ "failed" \notin {"read", "take", "write"}
    BY Zenon DEF Steps, Quiet
  <2>2. PICK j \in Jobs : Becomes(t, j) /\ j.step = "failed"
    BY ZenonT(30), <1>1, <1>3, <2>1, StepTo
  <2>3. QED
    BY ZenonT(30), <1>1, <1>2, <1>3, <2>1, <2>2, RefreshGoesOn
<1>4. CASE /\ m_rgs' = [g \in Groups |-> IF g \notin Listed[t] THEN m_rgs[g]
                                         ELSE IF g \in job[t].updated THEN stored[g] ELSE "none"]
           /\ Step(t, "listing")
  <2>1. "listing" \in Steps /\ "listing" \notin {"read", "take", "write"} /\ "none" \in Versions
    BY Zenon DEF Steps, Versions
  <2>2. PICK j \in Jobs : Becomes(t, j) /\ j.step = "listing"
    BY ZenonT(30), <1>1, <1>4, <2>1, StepTo
  <2>3. /\ job' \in [Routings \cup Refreshes -> Jobs] /\ Apart' /\ job'[t] = j
        /\ \A s \in Routings : job'[s] = job[s] /\ (Newest(s)' => Newest(s))
    BY Zenon, <2>1, <2>2, RefreshJob
  <2>4. m_rgs' \in [Groups -> Versions]
    BY ZenonT(30), <1>1, <1>4, <2>1 DEF RoutingTypeOK
  <2>5. RoutingTypeOK'
    BY ZenonT(30), <1>1, <2>3, <2>4, BoundKept DEF RoutingTypeOK
  <2>6. ASSUME NEW s \in Routings PROVE Current(s)'
    <3>1. PICK i, r : i = job[s].stream /\ r = Ruid[s]
      BY Zenon
    <3>2. Current(s)
      BY Zenon DEF RoutingInv
    <3>3. Owed(t, r, i)'
      BY Zenon, <2>2, <2>3 DEF Owed
    <3>4. QED
      BY ZenonT(30), <1>1, <2>3, <3>1, <3>2, <3>3, CurrentKept
  <2>7. QED
    BY Zenon, <2>3, <2>5, <2>6 DEF RoutingInv
<1>5. QED
  BY Zenon, <1>3, <1>4 DEF ApplyGroups

\* The next router, or the end of the loop.
LEMMA TurnTo ==
  ASSUME RoutingTypeOK, NEW t \in Refreshes, NEW todo \in SUBSET Ruids, Turn(t, todo)
  PROVE  \E j \in Jobs : /\ Becomes(t, j) /\ j.todo = todo
                         /\ j.step = IF todo = {} THEN "done" ELSE "read"
<1>1. 0 \in Nat /\ "done" \in Steps /\ "read" \in Steps
  BY Zenon DEF Steps, Quiet
<1>2. CASE todo = {}
  <2>1. job' = [job EXCEPT ![t] = Thread("done", 0)]
    BY Zenon, <1>2 DEF Turn
  <2>2. Becomes(t, Thread("done", 0))
    BY Zenon, <2>1 DEF Becomes
  <2>3. QED
    BY ZenonT(30), <1>1, <1>2, <2>2, ThreadFields
<1>3. CASE todo # {}
  <2>1. job' = [job EXCEPT ![t] = [Thread("read", 0) EXCEPT !.todo = todo]]
    BY Zenon, <1>3 DEF Turn
  <2>2. PICK j : j = [Thread("read", 0) EXCEPT !.todo = todo]
    BY Zenon
  <2>3. j \in Jobs /\ j.todo = todo /\ j.step = "read"
    BY Zenon, <1>1, <2>2 DEF Thread, Jobs
  <2>4. QED
    BY ZenonT(30), <1>3, <2>1, <2>2, <2>3 DEF Becomes
<1>4. QED
  BY Zenon, <1>2, <1>3

\* A refresh lists the routers that were there when it replaced the groups.
LEMMA ListRoutersKeeps == ASSUME RoutingInv, NEW t \in Refreshes, ListRouters(t) PROVE RoutingInv'
<1> DEFINE all == {r \in Ruids : m_routers[r] # 0}
<1>1. /\ RoutingTypeOK /\ Apart /\ job[t].step = "listing" /\ Turn(t, all) /\ all \in SUBSET Ruids
      /\ UNCHANGED <<stored, m_rgs, m_routers, view, choked, stale, usurped>>
  BY Zenon DEF RoutingInv, ListRouters
<1>2. PICK j \in Jobs : Becomes(t, j) /\ j.todo = all /\ j.step = IF all = {} THEN "done" ELSE "read"
  BY ZenonT(30), <1>1, TurnTo
<1>3. j.step \in {"read", "take", "write"} => j.todo # {}
  BY Zenon, <1>2
<1>4. job'[t] = j
  BY ZenonT(30), <1>2, <1>3, RefreshJob
<1>5. ASSUME NEW s \in Routings, m_routers[Ruid[s]] = job[s].stream, job[s].step = "attached"
      PROVE  Owed(t, Ruid[s], job[s].stream)'
  <2>1. Ruid[s] \in all
    BY ZenonT(30), <1>1, <1>5 DEF Apart, Ruids
  <2>2. job'[t].step = "read" /\ Ruid[s] \in job'[t].todo
    BY ZenonT(30), <1>2, <1>4, <2>1
  <2>3. QED
    BY Zenon, <2>2 DEF Owed
<1> HIDE DEF all
<1>6. QED
  BY ZenonT(30), <1>1, <1>2, <1>3, <1>5, RefreshGoesOn

\* A refresh reads the groups again for one router.
LEMMA ReadByRefresh == ASSUME RoutingInv, NEW t \in Refreshes, ReadGroups(t) PROVE RoutingInv'
<1>1. /\ RoutingTypeOK /\ Apart /\ job[t].step = "read" /\ job[t].todo # {}
      /\ UNCHANGED <<stored, m_rgs, m_routers, view, choked, stale, usurped>>
  BY Zenon DEF RoutingInv, Apart, ReadGroups
<1>2. job \in [Routings \cup Refreshes -> Jobs] /\ job[t] \in Jobs /\ m_rgs \in [Groups -> Versions]
  BY Zenon, <1>1 DEF RoutingTypeOK
<1>3. PICK j : j = [job[t] EXCEPT !.step = "take", !.results = m_rgs]
  BY Zenon
<1>4. j \in Jobs /\ j.step = "take" /\ j.results = m_rgs /\ j.todo = job[t].todo
  BY Zenon, <1>2, <1>3 DEF Jobs, Steps
<1>5. Becomes(t, j)
  <2>1. job' = [job EXCEPT ![t].step = "take", ![t].results = m_rgs]
    BY Zenon DEF ReadGroups
  <2>2. QED
    BY ZenonT(30), <1>2, <1>3, <2>1 DEF Becomes, Jobs
<1>6. job'[t] = j
  BY ZenonT(30), <1>1, <1>4, <1>5, RefreshJob
<1>7. ASSUME NEW s \in Routings, Owed(t, Ruid[s], job[s].stream)
      PROVE  Owed(t, Ruid[s], job[s].stream)'
  <2>1. Ruid[s] \in job[t].todo
    BY Zenon, <1>1, <1>7 DEF Owed
  <2>2. job'[t].step = "take" /\ Ruid[s] \in job'[t].todo /\ job'[t].results = m_rgs'
    BY ZenonT(30), <1>1, <1>4, <1>6, <2>1
  <2>3. QED
    BY ZenonT(30), <2>2 DEF Owed
<1>8. QED
  BY ZenonT(30), <1>1, <1>4, <1>5, <1>7, RefreshGoesOn

\* A request that goes on, keeping its stream, while all else is left alone.
LEMMA RequestGoesOn ==
  ASSUME RoutingInv, NEW o \in Routings, NEW j \in Jobs, Becomes(o, j), j.stream = job[o].stream,
         j.step \notin {"write", "attached"},
         UNCHANGED <<stored, m_rgs, m_routers, view, choked, stale, usurped>>
  PROVE  RoutingInv'
<1>1. /\ job' \in [Routings \cup Refreshes -> Jobs] /\ Apart'
      /\ job'[o] = j /\ \A u \in Routings \cup Refreshes : u # o => job'[u] = job[u]
      /\ \A t \in Refreshes : job'[t] = job[t]
      /\ \A s \in Routings : job'[s].stream = job[s].stream /\ (Newest(s)' => Newest(s))
  BY Zenon, RequestJob
<1>2. RoutingTypeOK'
  BY Zenon, <1>1, BoundKept DEF RoutingInv, RoutingTypeOK
<1>3. ASSUME NEW s \in Routings PROVE Current(s)'
  <2>1. CASE s = o
    BY ZenonT(30), <1>1, <2>1 DEF Current
  <2>2. CASE s # o
    <3>1. PICK i, r : i = job[s].stream /\ r = Ruid[s]
      BY Zenon
    <3>2. Current(s) /\ job'[s] = job[s] /\ (Newest(s)' => Newest(s))
      BY Zenon, <1>1, <2>2 DEF RoutingInv
    <3>3. \A t \in Refreshes : Owed(t, r, i) => Owed(t, r, i)'
      BY ZenonT(30), <1>1, OwedKept
    <3>4. QED
      BY ZenonT(30), <3>1, <3>2, <3>3, CurrentKept
  <2>3. QED
    BY Zenon, <2>1, <2>2
<1>4. QED
  BY Zenon, <1>1, <1>2, <1>3 DEF RoutingInv

\* A request begins.
LEMMA RoutingKeeps == ASSUME RoutingInv, NEW o \in Routings, Routing(o) PROVE RoutingInv'
<1>1. RoutingTypeOK /\ Step(o, "read") /\ UNCHANGED <<stored, m_rgs, m_routers, view, choked, stale, usurped>>
  BY Zenon DEF RoutingInv, Routing
<1>2. "read" \in Steps /\ "read" \notin {"write", "attached"}
  BY Zenon DEF Steps
<1>3. PICK j \in Jobs : Becomes(o, j) /\ j.step = "read" /\ j.stream = job[o].stream
  BY ZenonT(30), <1>1, <1>2, StepTo
<1>4. QED
  BY ZenonT(30), <1>1, <1>2, <1>3, RequestGoesOn

\* A request reads the groups.
LEMMA ReadByRequest == ASSUME RoutingInv, NEW o \in Routings, ReadGroups(o) PROVE RoutingInv'
<1>1. RoutingTypeOK /\ UNCHANGED <<stored, m_rgs, m_routers, view, choked, stale, usurped>>
  BY Zenon DEF RoutingInv, ReadGroups
<1>2. job \in [Routings \cup Refreshes -> Jobs] /\ job[o] \in Jobs /\ m_rgs \in [Groups -> Versions]
  BY Zenon, <1>1 DEF RoutingTypeOK
<1>3. PICK j : j = [job[o] EXCEPT !.step = "take", !.results = m_rgs]
  BY Zenon
<1>4. j \in Jobs /\ j.step = "take" /\ j.stream = job[o].stream /\ j.step \notin {"write", "attached"}
  BY Zenon, <1>2, <1>3 DEF Jobs, Steps
<1>5. Becomes(o, j)
  <2>1. job' = [job EXCEPT ![o].step = "take", ![o].results = m_rgs]
    BY Zenon DEF ReadGroups
  <2>2. QED
    BY ZenonT(30), <1>2, <1>3, <2>1 DEF Becomes, Jobs
<1>6. QED
  BY ZenonT(30), <1>1, <1>4, <1>5, RequestGoesOn

\* The job of a thread that has taken a stream.
LEMMA TakesStream ==
  ASSUME RoutingTypeOK, NEW t \in Routings \cup Refreshes, NEW i \in Nat,
         job' = [job EXCEPT ![t].step = "write", ![t].stream = i]
  PROVE  \E j \in Jobs : /\ Becomes(t, j) /\ j.step = "write" /\ j.stream = i
                         /\ j.todo = job[t].todo /\ j.results = job[t].results
<1>1. job \in [Routings \cup Refreshes -> Jobs] /\ job[t] \in Jobs
  BY Zenon DEF RoutingTypeOK
<1>2. PICK j : j = [job[t] EXCEPT !.step = "write", !.stream = i]
  BY Zenon
<1>3. j \in Jobs /\ j.step = "write" /\ j.stream = i /\ j.todo = job[t].todo /\ j.results = job[t].results
  BY ZenonT(30), <1>1, <1>2 DEF Jobs, Steps
<1>4. Becomes(t, j)
  BY ZenonT(30), <1>1, <1>2 DEF Becomes, Jobs
<1>5. QED
  BY Zenon, <1>3, <1>4

\* A refresh that finds the stream of the router it is at.
LEMMA TakeKnown ==
  ASSUME RoutingInv, NEW t \in Refreshes, job[t].step = "take",
         job' = [job EXCEPT ![t].step = "write", ![t].stream = m_routers[At(t)]], m_routers[At(t)] \in Nat,
         UNCHANGED <<stored, m_rgs, m_routers, view, choked, stale, usurped>>
  PROVE  RoutingInv'
<1>1. RoutingTypeOK /\ job[t].todo # {}
  BY Zenon DEF RoutingInv, Apart
<1>2. PICK j \in Jobs : /\ Becomes(t, j) /\ j.step = "write" /\ j.stream = m_routers[At(t)]
                        /\ j.todo = job[t].todo /\ j.results = job[t].results
  BY ZenonT(30), <1>1, TakesStream
<1>3. job'[t] = j
  BY Zenon, <1>1, <1>2, RefreshJob
<1>4. At(t)' = At(t)
  BY ZenonT(30), <1>2, <1>3, AtKept
<1>5. ASSUME NEW s \in Routings, m_routers[Ruid[s]] = job[s].stream, Owed(t, Ruid[s], job[s].stream),
             job'[s] = job[s]
      PROVE  Owed(t, Ruid[s], job[s].stream)'
  <2>1. Ruid[s] \in job[t].todo /\ (Ruid[s] # At(t) \/ job[t].results = m_rgs)
    BY Zenon, <1>5 DEF Owed
  <2>2. Ruid[s] \in job'[t].todo /\ job'[t].step = "write" /\ job'[t].results = job[t].results /\ job'[t].stream = m_routers[At(t)]
    BY ZenonT(30), <1>2, <1>3, <2>1
  <2>3. CASE Ruid[s] # At(t)
    BY ZenonT(30), <1>4, <2>2, <2>3 DEF Owed
  <2>4. CASE Ruid[s] = At(t) /\ job[t].results = m_rgs
    BY ZenonT(30), <1>4, <1>5, <2>2, <2>4 DEF Owed
  <2>5. QED
    BY ZenonT(30), <2>1, <2>3, <2>4
<1>6. \A s \in Routings : job'[s] = job[s]
  BY ZenonT(30), <1>1, <1>2, RefreshJob
<1>7. QED
  BY ZenonT(30), <1>1, <1>2, <1>5, <1>6, RefreshGoesOn

\* A refresh that makes a stream for a router that has lost its own.
LEMMA TakeNew ==
  ASSUME RoutingInv, NEW t \in Refreshes, job[t].step = "take", m_routers[At(t)] = 0,
         NEW n \in Nat, DOMAIN view = 1..n, \A s \in Routings : job[s].stream <= n,
         view' = [j \in 1..n + 1 |-> IF j = n + 1 THEN <<>> ELSE view[j]],
         m_routers' = [m_routers EXCEPT ![At(t)] = n + 1],
         job' = [job EXCEPT ![t].step = "write", ![t].stream = n + 1],
         UNCHANGED <<stored, m_rgs, choked, stale, usurped>>
  PROVE  RoutingInv'
<1>1. RoutingTypeOK /\ job[t].todo # {} /\ n + 1 \in Nat
  BY DEF RoutingInv, Apart
<1>2. PICK j \in Jobs : /\ Becomes(t, j) /\ j.step = "write" /\ j.todo = job[t].todo /\ j.results = job[t].results
  BY ZenonT(30), <1>1, TakesStream
<1>3. /\ job' \in [Routings \cup Refreshes -> Jobs] /\ Apart'
      /\ job'[t] = j /\ \A u \in Routings \cup Refreshes : u # t => job'[u] = job[u]
      /\ \A s \in Routings : job'[s] = job[s] /\ (Newest(s)' => Newest(s))
  BY Zenon, <1>1, <1>2, RefreshJob
<1>4. At(t)' = At(t)
  BY ZenonT(30), <1>2, <1>3, AtKept
<1>5. RoutingTypeOK'
  <2>1. \A s \in Routings : job[s].stream \in Nat
    BY Zenon DEF RoutingInv, RoutingTypeOK, Jobs
  <2>2. DOMAIN view' = 1..n + 1 /\ \A s \in Routings : job'[s].stream <= n + 1
    BY <1>3, <2>1
  <2>3. m_routers' \in [Ruids -> Nat]
    BY ZenonT(30), <1>1 DEF RoutingTypeOK
  <2>4. QED
    BY ZenonT(30), <1>1, <1>3, <2>2, <2>3 DEF RoutingTypeOK
<1>6. ASSUME NEW s \in Routings, job[s].step \in {"write", "attached"} PROVE Current(s)'
  <2>1. PICK i, r : i = job[s].stream /\ r = Ruid[s]
    BY ZenonT(30)
  <2>2. i \in Nat /\ i # 0 /\ i <= n /\ i \in 1..n + 1 /\ i # n + 1 /\ r \in Ruids
    BY <1>6, <2>1 DEF RoutingInv, RoutingTypeOK, Apart, Jobs, Ruids
  <2>3. view'[i] = view[i]
    BY Zenon, <2>2
  <2>4. ASSUME m_routers[r] = i PROVE m_routers'[r] = i /\ r # At(t)
    BY ZenonT(30), <2>2, <2>4, <1>1 DEF RoutingTypeOK
  <2>5. ASSUME m_routers[r] = i, NEW u \in Refreshes, Owed(u, r, i) PROVE Owed(u, r, i)'
    <3>1. CASE u = t
      <4>1. r \in job[t].todo
        BY ZenonT(30), <2>5, <3>1 DEF Owed
      <4>2. r \in job'[t].todo /\ job'[t].step = "write" /\ r # At(t)'
        BY ZenonT(30), <1>2, <1>3, <1>4, <2>4, <2>5, <4>1
      <4>3. QED
        BY ZenonT(30), <3>1, <4>2 DEF Owed
    <3>2. CASE u # t
      BY ZenonT(30), <1>3, <2>5, <3>2, OwedKept
    <3>3. QED
      BY ZenonT(30), <3>1, <3>2
  <2>6. Current(s) /\ job'[s] = job[s] /\ (Newest(s)' => Newest(s))
    BY Zenon, <1>3 DEF RoutingInv
  <2>7. i \notin stale' /\ i \notin choked' /\ m_routers[r] = i =>
          /\ i \notin stale /\ view'[i] = view[i] /\ m_rgs' = m_rgs
          /\ \A u \in Refreshes : Owed(u, r, i) => Owed(u, r, i)'
    BY Zenon, <2>3, <2>5
  <2>8. QED
    BY ZenonT(30), <2>1, <2>4, <2>6, <2>7, CurrentKept
<1>7. ASSUME NEW s \in Routings, job[s].step \notin {"write", "attached"} PROVE Current(s)'
  BY Zenon, <1>3, <1>7 DEF Current
<1>8. QED
  BY ZenonT(30), <1>3, <1>5, <1>6, <1>7 DEF RoutingInv

\* A request that makes a stream for its router.
LEMMA TakeByRequest ==
  ASSUME RoutingInv, NEW o \in Routings,
         NEW n \in Nat, DOMAIN view = 1..n, \A s \in Routings : job[s].stream <= n,
         view' = [j \in 1..n + 1 |-> IF j = n + 1 THEN <<>> ELSE view[j]],
         m_routers' = [m_routers EXCEPT ![Ruid[o]] = n + 1],
         job' = [job EXCEPT ![o].step = "write", ![o].stream = n + 1],
         UNCHANGED <<stored, m_rgs, choked, stale, usurped>>
  PROVE  RoutingInv'
<1>1. RoutingTypeOK /\ Apart /\ n + 1 \in Nat /\ n + 1 # 0 /\ o \notin Refreshes
  BY RoutingAssumption DEF RoutingInv
<1>2. PICK j \in Jobs : /\ Becomes(o, j) /\ j.step = "write" /\ j.stream = n + 1
  BY ZenonT(30), <1>1, TakesStream
<1>3. /\ job' \in [Routings \cup Refreshes -> Jobs] /\ job'[o] = j
      /\ \A u \in Routings \cup Refreshes : u # o => job'[u] = job[u]
  BY ZenonT(30), <1>1, <1>2 DEF Becomes, RoutingTypeOK
<1>4. \A s \in Routings : job[s].stream \in Nat /\ job[s].stream # n + 1
  BY DEF RoutingInv, RoutingTypeOK, Jobs
<1>5. Apart'
  <2>1. \A s \in Routings : job'[s].step \in {"write", "attached"} => job'[s].stream # 0
    BY ZenonT(30), <1>1, <1>2, <1>3 DEF Apart
  <2>2. \A t \in Refreshes : job'[t] = job[t]
    BY Zenon, <1>1, <1>3
  <2>3. \A t \in Refreshes : job'[t].step \in {"read", "take", "write"} => job'[t].todo # {}
    BY Zenon, <1>1, <2>2 DEF Apart
  <2>4. ASSUME NEW s \in Routings, NEW p \in Routings, job'[s].stream = job'[p].stream, job'[s].stream # 0 PROVE s = p
    BY ZenonT(30), <1>1, <1>2, <1>3, <1>4, <2>4 DEF Apart
  <2>5. QED
    BY Zenon, <2>1, <2>3, <2>4 DEF Apart
<1>6. RoutingTypeOK'
  <2>1. DOMAIN view' = 1..n + 1 /\ \A s \in Routings : job'[s].stream <= n + 1
    BY <1>2, <1>3, <1>4
  <2>2. m_routers' \in [Ruids -> Nat]
    BY Zenon, <1>1 DEF RoutingTypeOK
  <2>3. QED
    BY Zenon, <1>1, <1>3, <2>1, <2>2 DEF RoutingTypeOK
<1>7. Current(o)'
  <2>1. m_routers'[Ruid[o]] = job'[o].stream /\ job'[o].step # "attached"
    BY Zenon, <1>1, <1>2, <1>3 DEF RoutingTypeOK, Ruids
  <2>2. QED
    BY Zenon, <2>1 DEF Current
<1>8. ASSUME NEW s \in Routings, s # o, job[s].step \in {"write", "attached"}, Newest(s)' PROVE Current(s)'
  <2>1. PICK i, r : i = job[s].stream /\ r = Ruid[s]
    BY Zenon
  <2>2. i \in Nat /\ i # 0 /\ i <= n /\ i \in 1..n + 1 /\ i # n + 1 /\ r \in Ruids /\ ~(n + 1 <= i)
    BY <1>8, <2>1 DEF RoutingInv, RoutingTypeOK, Apart, Jobs, Ruids
  <2>3. view'[i] = view[i] /\ job'[s] = job[s]
    BY ZenonT(30), <1>3, <1>8, <2>2
  <2>4. Ruid[o] # r
    BY ZenonT(30), <1>2, <1>3, <1>8, <2>1, <2>2, <2>3 DEF Newest
  <2>5. m_routers'[r] = m_routers[r]
    BY ZenonT(30), <1>1, <2>2, <2>4 DEF RoutingTypeOK
  <2>6. Newest(s)
    BY ZenonT(30), <1>3, <1>8, <2>1, <2>3, <2>4 DEF Newest
  <2>7. \A u \in Refreshes : Owed(u, r, i) => Owed(u, r, i)'
    BY ZenonT(30), <1>1, <1>3, OwedKept
  <2>8. Current(s)
    BY Zenon DEF RoutingInv
  <2>9. QED
    BY ZenonT(30), <2>1, <2>3, <2>5, <2>6, <2>7, <2>8, CurrentKept
<1>9. ASSUME NEW s \in Routings, s # o, job[s].step \notin {"write", "attached"} \/ ~Newest(s)' PROVE Current(s)'
  BY Zenon, <1>3, <1>9 DEF Current
<1>10. QED
  BY ZenonT(30), <1>5, <1>6, <1>7, <1>8, <1>9 DEF RoutingInv

\* A request puts its stream into the map, a refresh takes one from it.
LEMMA TakeStreamKeeps == ASSUME RoutingInv, NEW t \in Routings \cup Refreshes, TakeStream(t) PROVE RoutingInv'
<1>1. PICK n \in Nat : DOMAIN view = 1..n /\ \A s \in Routings : job[s].stream <= n
  BY Zenon DEF RoutingInv, RoutingTypeOK
<1>2. Len(view) + 1 = n + 1
  BY ZenonT(30), <1>1, NextStream
<1>3. /\ job[t].step = "take" /\ UNCHANGED <<stored, m_rgs, choked, stale, usurped>>
      /\ \/ /\ t \in Routings \/ m_routers[At(t)] = 0
            /\ view' = [j \in 1..n + 1 |-> IF j = n + 1 THEN <<>> ELSE view[j]]
            /\ m_routers' = [m_routers EXCEPT ![At(t)] = n + 1]
            /\ job' = [job EXCEPT ![t].step = "write", ![t].stream = n + 1]
         \/ /\ t \notin Routings
            /\ job' = [job EXCEPT ![t].step = "write", ![t].stream = m_routers[At(t)]]
            /\ UNCHANGED <<view, m_routers>>
  BY Zenon, <1>2 DEF TakeStream
<1>4. t \in Refreshes /\ t \notin Routings => At(t) \in Ruids
  <2>1. job[t].todo \in SUBSET Ruids
    BY Zenon DEF RoutingInv, RoutingTypeOK, Jobs
  <2>2. t \in Refreshes => job[t].todo # {}
    BY Zenon, <1>3 DEF RoutingInv, Apart
  <2>3. job[t].todo # {} => NextOf(job[t].todo) \in job[t].todo
    BY Zenon DEF NextOf
  <2>4. QED
    BY ZenonT(30), <2>1, <2>2, <2>3 DEF At
<1>5. CASE t \in Routings
  <2>1. At(t) = Ruid[t]
    BY Zenon, <1>5 DEF At
  <2>2. QED
    BY ZenonT(30), <1>1, <1>3, <1>5, <2>1, TakeByRequest
<1>6. CASE t \in Refreshes /\ t \notin Routings
  <2>1. m_routers[At(t)] \in Nat
    BY Zenon, <1>4, <1>6 DEF RoutingInv, RoutingTypeOK
  <2>2. CASE /\ t \in Routings \/ m_routers[At(t)] = 0
             /\ view' = [j \in 1..n + 1 |-> IF j = n + 1 THEN <<>> ELSE view[j]]
             /\ m_routers' = [m_routers EXCEPT ![At(t)] = n + 1]
             /\ job' = [job EXCEPT ![t].step = "write", ![t].stream = n + 1]
    BY ZenonT(30), <1>1, <1>3, <1>6, <2>2, TakeNew
  <2>3. CASE /\ job' = [job EXCEPT ![t].step = "write", ![t].stream = m_routers[At(t)]]
             /\ UNCHANGED <<view, m_routers>>
    BY ZenonT(30), <1>3, <1>6, <2>1, <2>3, TakeKnown
  <2>4. QED
    BY ZenonT(30), <1>3, <2>2, <2>3
<1>7. QED
  BY ZenonT(30), <1>5, <1>6

\* What a write does to the streams.
Written(i, results) ==
  /\ view' = IF i \in choked THEN view ELSE [view EXCEPT ![i] = results]
  /\ stale' = IF i \in choked THEN stale ELSE IF results = m_rgs THEN stale \ {i} ELSE stale \cup {i}

\* A stream that is not stale after a write has what it had, or the groups.
LEMMA WriteTells ==
  ASSUME NEW k, NEW results, Written(k, results), UNCHANGED m_rgs, NEW i \in DOMAIN view, i \notin choked, i \notin stale'
  PROVE  view'[i] = m_rgs' \/ (i # k /\ i \notin stale /\ view'[i] = view[i])
<1>1. CASE i = k
  BY Zenon, <1>1 DEF Written
<1>2. CASE i # k
  BY Zenon, <1>2 DEF Written
<1>3. QED
  BY Zenon, <1>1, <1>2

\* A request writes the groups to its stream.
LEMMA WriteByRequest ==
  ASSUME RoutingInv, NEW o \in Routings, WriteGroups(o)
  PROVE  RoutingInv'
<1>1. PICK k : k = job[o].stream
  BY Zenon
<1>2. /\ job[o].step = "write" /\ Written(k, job[o].results) /\ o \notin Refreshes
      /\ UNCHANGED <<stored, m_rgs, m_routers, choked, usurped>>
      /\ Step(o, IF k \in choked THEN "failed" ELSE IF o \in online THEN "attached" ELSE "leaked")
  <2>1. o \notin Refreshes
    BY Zenon, RoutingAssumption
  <2>2. QED
    BY Zenon, <1>1, <2>1 DEF WriteGroups, Written
<1>3. PICK w \in {"failed", "attached", "leaked"} : Step(o, w) /\ (k \in choked => w = "failed")
  BY Zenon, <1>2
<1>4. RoutingTypeOK /\ Apart /\ w \in Steps /\ w # "write"
  BY Zenon, <1>3 DEF RoutingInv, Steps, Quiet
<1>5. PICK j \in Jobs : Becomes(o, j) /\ j.step = w /\ j.stream = job[o].stream
  BY ZenonT(30), <1>3, <1>4, StepTo
<1>6. k \in Nat /\ k # 0
  BY ZenonT(30), <1>1, <1>2, <1>4 DEF RoutingTypeOK, Apart, Jobs
<1>7. /\ job' \in [Routings \cup Refreshes -> Jobs] /\ Apart'
      /\ job'[o] = j /\ \A u \in Routings \cup Refreshes : u # o => job'[u] = job[u]
      /\ \A t \in Refreshes : job'[t] = job[t]
      /\ \A s \in Routings : job'[s].stream = job[s].stream /\ (Newest(s)' => Newest(s))
  BY ZenonT(30), <1>1, <1>5, <1>6, RequestJob
<1>8. DOMAIN view' = DOMAIN view
  BY Zenon, <1>2 DEF Written
<1>9. RoutingTypeOK'
  BY ZenonT(30), <1>2, <1>4, <1>7, <1>8, BoundKept DEF RoutingTypeOK
<1>10. ASSUME NEW s \in Routings, job[s].step \in {"write", "attached"} PROVE job[s].stream \in DOMAIN view
  BY <1>10, <1>4 DEF RoutingTypeOK, Apart, Jobs
<1>11. Current(o)'
  <2>1. CASE w # "attached"
    BY ZenonT(30), <1>4, <1>5, <1>7, <2>1 DEF Current
  <2>2. CASE w = "attached"
    <3>1. k \notin choked
      BY ZenonT(30), <1>3, <2>2
    <3>2. ASSUME Newest(o)', Ruid[o] \notin usurped' PROVE m_routers'[Ruid[o]] = k
      BY ZenonT(30), <1>1, <1>2, <1>7, <3>1, <3>2 DEF RoutingInv, Current
    <3>3. k \notin stale' => view'[k] = m_rgs'
      BY ZenonT(30), <1>1, <1>2, <1>10, <3>1, WriteTells
    <3>4. QED
      BY ZenonT(30), <1>1, <1>5, <1>7, <3>2, <3>3 DEF Current
  <2>3. QED
    BY ZenonT(30), <2>1, <2>2
<1>12. ASSUME NEW s \in Routings, s # o, job[s].step \in {"write", "attached"} PROVE Current(s)'
  <2>1. PICK i, r : i = job[s].stream /\ r = Ruid[s]
    BY Zenon
  <2>2. Current(s) /\ job'[s] = job[s] /\ (Newest(s)' => Newest(s)) /\ i \in DOMAIN view
    BY ZenonT(30), <1>7, <1>10, <1>12, <2>1 DEF RoutingInv
  <2>3. \A t \in Refreshes : Owed(t, r, i) => Owed(t, r, i)'
    BY ZenonT(30), <1>2, <1>7, OwedKept
  <2>4. i \notin stale' /\ i \notin choked' =>
          view'[i] = m_rgs' \/ (i \notin stale /\ view'[i] = view[i])
    BY ZenonT(30), <1>2, <2>2, WriteTells
  <2>5. QED
    BY ZenonT(30), <1>2, <2>1, <2>2, <2>3, <2>4, CurrentKept
<1>13. ASSUME NEW s \in Routings, s # o, job[s].step \notin {"write", "attached"} PROVE Current(s)'
  BY Zenon, <1>7, <1>13 DEF Current
<1>14. QED
  BY ZenonT(30), <1>7, <1>9, <1>11, <1>12, <1>13 DEF RoutingInv

\* A refresh writes the groups to the stream it took.
LEMMA WriteByRefresh ==
  ASSUME RoutingInv, NEW t \in Refreshes, WriteGroups(t)
  PROVE  RoutingInv'
<1>1. PICK k, q : k = job[t].stream /\ q = At(t)
  BY Zenon
<1>2. /\ job[t].step = "write" /\ Written(k, job[t].results)
      /\ UNCHANGED <<stored, m_rgs, choked>>
      /\ usurped' = IF k \in choked /\ m_routers[q] \notin {0, k} THEN usurped \cup {q} ELSE usurped
      /\ Turn(t, job[t].todo \ {q})
      /\ m_routers' = IF k \in choked THEN [m_routers EXCEPT ![q] = 0] ELSE m_routers
  <2>1. t \notin Routings
    BY ZenonT(30), RoutingAssumption
  <2>2. QED
    BY ZenonT(30), <1>1, <2>1 DEF WriteGroups, Written
<1>3. RoutingTypeOK /\ Apart /\ job[t].todo \ {q} \in SUBSET Ruids
  BY Zenon DEF RoutingInv, RoutingTypeOK, Jobs
<1>4. PICK j \in Jobs : /\ Becomes(t, j) /\ j.todo = job[t].todo \ {q}
                        /\ j.step = IF job[t].todo \ {q} = {} THEN "done" ELSE "read"
  BY ZenonT(30), <1>2, <1>3, TurnTo
<1>5. j.step \in {"read", "take", "write"} => j.todo # {}
  BY Zenon, <1>4
<1>6. /\ job' \in [Routings \cup Refreshes -> Jobs] /\ Apart'
      /\ job'[t] = j /\ \A u \in Routings \cup Refreshes : u # t => job'[u] = job[u]
      /\ \A s \in Routings : job'[s] = job[s] /\ (Newest(s)' => Newest(s))
  BY ZenonT(30), <1>4, <1>5, RefreshJob
<1>7. DOMAIN view' = DOMAIN view
  BY Zenon, <1>2 DEF Written
<1>8. RoutingTypeOK'
  <2>1. m_routers' \in [Ruids -> Nat]
    BY ZenonT(30), <1>2, <1>3 DEF RoutingTypeOK
  <2>2. QED
    BY ZenonT(30), <1>2, <1>3, <1>6, <1>7, <2>1, BoundKept DEF RoutingTypeOK
<1>9. ASSUME NEW s \in Routings, job[s].step \in {"write", "attached"} PROVE Current(s)'
  <2>1. PICK i, r : i = job[s].stream /\ r = Ruid[s]
    BY Zenon
  <2>2. i \in DOMAIN view /\ i # 0 /\ r \in Ruids
    BY <1>3, <1>9, <2>1 DEF RoutingTypeOK, Apart, Jobs, Ruids
  <2>3. Current(s) /\ job'[s] = job[s] /\ (Newest(s)' => Newest(s)) /\ usurped \subseteq usurped'
    BY ZenonT(30), <1>2, <1>6 DEF RoutingInv
  <2>4. ASSUME i \notin choked', r \notin usurped', m_routers[r] = i PROVE m_routers'[r] = i
    <3>1. CASE k \notin choked
      BY ZenonT(30), <1>2, <2>4, <3>1
    <3>2. CASE k \in choked
      <4>1. i # k /\ i # 0
        BY ZenonT(30), <1>2, <2>2, <2>4, <3>2
      <4>2. q # r
        BY ZenonT(30), <1>2, <2>4, <3>2, <4>1
      <4>3. QED
        BY ZenonT(30), <1>2, <1>3, <2>2, <2>4, <3>2, <4>2 DEF RoutingTypeOK
    <3>3. QED
      BY ZenonT(30), <3>1, <3>2
  <2>5. i \notin stale' /\ i \notin choked' =>
          view'[i] = m_rgs' \/ (i # k /\ i \notin stale /\ view'[i] = view[i])
    BY ZenonT(30), <1>2, <2>2, WriteTells
  <2>6. ASSUME i # k, NEW u \in Refreshes, Owed(u, r, i) PROVE Owed(u, r, i)'
    <3>1. CASE u = t
      <4>1. r \in job[t].todo /\ r # q
        BY ZenonT(30), <1>1, <1>2, <2>6, <3>1 DEF Owed
      <4>2. r \in job'[t].todo /\ job'[t].step = "read"
        BY ZenonT(30), <1>4, <1>6, <4>1
      <4>3. QED
        BY ZenonT(30), <3>1, <4>2 DEF Owed
    <3>2. CASE u # t
      BY ZenonT(30), <1>2, <1>6, <2>6, <3>2, OwedKept
    <3>3. QED
      BY Zenon, <3>1, <3>2
  <2>7. i # k => \A u \in Refreshes : Owed(u, r, i) => Owed(u, r, i)'
    BY Zenon, <2>6
  <2>8. i \notin stale' /\ i \notin choked' /\ m_routers[r] = i =>
          \/ view'[i] = m_rgs'
          \/ /\ i \notin stale /\ view'[i] = view[i] /\ m_rgs' = m_rgs
             /\ \A u \in Refreshes : Owed(u, r, i) => Owed(u, r, i)'
    BY ZenonT(30), <1>2, <2>5, <2>7
  <2>9. choked \subseteq choked'
    BY Zenon, <1>2
  <2>10. QED
    BY ZenonT(30), <2>1, <2>3, <2>4, <2>8, <2>9, CurrentKept
<1>10. ASSUME NEW s \in Routings, job[s].step \notin {"write", "attached"} PROVE Current(s)'
  BY ZenonT(30), <1>6, <1>10 DEF Current
<1>11. QED
  BY ZenonT(30), <1>6, <1>8, <1>9, <1>10 DEF RoutingInv

\* The end of an attached request takes out the stream of its router: if that
\* is the stream of another one, the router counts as usurped.
LEMMA StreamDropKeeps == ASSUME RoutingInv, NEW o \in Routings, Detach(o) PROVE RoutingInv'
<1>1. RoutingTypeOK /\ Apart /\ UNCHANGED <<stored, m_rgs, view, choked, stale>>
  BY Zenon DEF RoutingInv, Detach
<1>2. CASE UNCHANGED <<job, m_routers, usurped>>
  BY ZenonT(30), <1>1, <1>2, RoutingRests DEF RoutingTypeOK
<1>3. CASE /\ job[o].step = "attached" /\ Step(o, "detached")
           /\ m_routers' = [m_routers EXCEPT ![Ruid[o]] = 0]
           /\ usurped' = IF m_routers[Ruid[o]] \notin {0, job[o].stream} THEN usurped \cup {Ruid[o]} ELSE usurped
  <2>1. "detached" \in Steps /\ "detached" \notin {"write", "attached"}
    BY Zenon DEF Steps, Quiet
  <2>2. PICK j \in Jobs : Becomes(o, j) /\ j.step = "detached" /\ j.stream = job[o].stream
    BY ZenonT(30), <1>1, <1>3, <2>1, StepTo
  <2>3. /\ job' \in [Routings \cup Refreshes -> Jobs] /\ Apart'
        /\ job'[o] = j /\ \A u \in Routings \cup Refreshes : u # o => job'[u] = job[u]
        /\ \A t \in Refreshes : job'[t] = job[t]
        /\ \A s \in Routings : job'[s].stream = job[s].stream /\ (Newest(s)' => Newest(s))
    BY ZenonT(30), <2>1, <2>2, RequestJob
  <2>4. RoutingTypeOK'
    <3>1. m_routers' \in [Ruids -> Nat]
      BY ZenonT(30), <1>1, <1>3 DEF RoutingTypeOK
    <3>2. QED
      BY ZenonT(30), <1>1, <2>3, <3>1, BoundKept DEF RoutingTypeOK
  <2>5. Current(o)'
    BY ZenonT(30), <2>1, <2>2, <2>3 DEF Current
  <2>6. ASSUME NEW s \in Routings, s # o, job[s].step \in {"write", "attached"} PROVE Current(s)'
    <3>1. PICK i, r : i = job[s].stream /\ r = Ruid[s]
      BY Zenon
    <3>2. i # 0 /\ i # job[o].stream /\ r \in Ruids
      BY ZenonT(30), <1>1, <2>6, <3>1 DEF Apart, Ruids
    <3>3. Current(s) /\ job'[s] = job[s] /\ (Newest(s)' => Newest(s)) /\ usurped \subseteq usurped'
      BY ZenonT(30), <1>3, <2>3, <2>6 DEF RoutingInv
    <3>4. ASSUME r \notin usurped', m_routers[r] = i PROVE m_routers'[r] = i
      <4>1. Ruid[o] # r
        BY ZenonT(30), <1>3, <3>2, <3>4
      <4>2. QED
        BY ZenonT(30), <1>1, <1>3, <3>2, <3>4, <4>1 DEF RoutingTypeOK
    <3>5. \A t \in Refreshes : Owed(t, r, i) => Owed(t, r, i)'
      BY ZenonT(30), <1>1, <2>3, OwedKept
    <3>6. QED
      BY ZenonT(30), <1>1, <3>1, <3>3, <3>4, <3>5, CurrentKept
  <2>7. ASSUME NEW s \in Routings, s # o, job[s].step \notin {"write", "attached"} PROVE Current(s)'
    BY Zenon, <2>3, <2>7 DEF Current
  <2>8. QED
    BY ZenonT(30), <2>3, <2>4, <2>5, <2>6, <2>7 DEF RoutingInv
<1>4. QED
  BY ZenonT(30), <1>2, <1>3 DEF Detach

\* Every step of the routing keeps the invariant.
LEMMA RoutingStep == ASSUME RoutingInv, [RoutingNext]_routingVars PROVE RoutingInv'
<1>1. RoutingTypeOK /\ stored \in [Groups -> Versions]
  BY Zenon DEF RoutingInv, RoutingTypeOK
<1>2. ASSUME NEW g \in Groups, NEW v \in {"none", "new", "bad"}, Store(g, v) PROVE RoutingInv'
  <2>1. UNCHANGED <<m_rgs, m_routers, view, choked, job, stale, usurped>> /\ stored' = [stored EXCEPT ![g] = v]
    BY Zenon, <1>2 DEF Store
  <2>2. v \in Versions
    BY Zenon DEF Versions
  <2>3. stored' \in [Groups -> Versions]
    BY ZenonT(30), <1>1, <2>1, <2>2
  <2>4. QED
    BY ZenonT(30), <2>1, <2>3, RoutingRests
<1>3. ASSUME NEW t \in Refreshes, FindGroups(t) \/ ApplyGroups(t) \/ ListRouters(t) PROVE RoutingInv'
  BY ZenonT(30), <1>3, FindGroupsKeeps, ApplyGroupsKeeps, ListRoutersKeeps
<1>4. ASSUME NEW s \in Routings, Routing(s) \/ Detach(s) PROVE RoutingInv'
  BY ZenonT(30), <1>4, RoutingKeeps, StreamDropKeeps
<1>5. ASSUME NEW t \in Routings \cup Refreshes, ReadGroups(t) \/ TakeStream(t) \/ WriteGroups(t) PROVE RoutingInv'
  <2>1. CASE ReadGroups(t)
    BY ZenonT(30), <2>1, ReadByRequest, ReadByRefresh
  <2>2. CASE TakeStream(t)
    BY ZenonT(30), <2>2, TakeStreamKeeps
  <2>3. CASE WriteGroups(t)
    BY ZenonT(30), <2>3, WriteByRequest, WriteByRefresh
  <2>4. QED
    BY ZenonT(30), <1>5, <2>1, <2>2, <2>3
<1>6. CASE CloseRouters
  <2>1. UNCHANGED <<stored, m_rgs, m_routers, view, job, stale, usurped>> /\ choked \subseteq choked'
    BY ZenonT(30), <1>6 DEF CloseRouters
  <2>2. QED
    BY ZenonT(30), <1>1, <2>1, RoutingRests
<1>7. CASE UNCHANGED routingVars
  <2>1. UNCHANGED <<stored, m_rgs, m_routers, view, job, stale, usurped>> /\ choked \subseteq choked'
    BY Zenon, <1>7 DEF routingVars
  <2>2. QED
    BY Zenon, <1>1, <2>1, RoutingRests
<1>8. QED
  BY ZenonT(30), <1>2, <1>3, <1>4, <1>5, <1>6, <1>7 DEF RoutingNext

\* The invariant of the routing: whatever threads, refreshes and routers there
\* are, the newest stream of a router is in the map, and was told the groups or
\* a refresh is on its way to it.
THEOREM RoutingInvariant == RoutingSpec => []RoutingInv
<1>1. (\E cast \in SUBSET (Routings \cup Refreshes) : RoutingInit(cast)) => RoutingInv
  BY ZenonT(30), RoutingStart
<1>2. RoutingInv /\ [RoutingNext]_routingVars => RoutingInv'
  BY Zenon, RoutingStep
<1>3. QED
  BY <1>1, <1>2, PTL DEF RoutingSpec

\* When on_routing() and on_refresh() have all returned, an attached router was
\* told the groups in m_rgs, but for the writes that were overtaken and the
\* routers whose stream an older one took out of the map.
THEOREM RoutersTold == RoutingSpec => []RoutersCurrent
<1>1. RoutingInv => RoutersCurrent
  <2> SUFFICES ASSUME RoutingInv, \A t \in Routings \cup Refreshes : job[t].step \in Quiet,
                      NEW s \in Routings, job[s].step = "attached",
                      \A o \in Routings : Ruid[o] = Ruid[s] => job[o].stream <= job[s].stream,
                      job[s].stream \notin choked, Ruid[s] \notin usurped
               PROVE  /\ m_routers[Ruid[s]] = job[s].stream
                      /\ job[s].stream \notin stale => view[job[s].stream] = m_rgs
    BY Zenon DEF RoutersCurrent
  <2>1. Newest(s) /\ Current(s)
    BY Zenon DEF Newest, RoutingInv
  <2>2. ASSUME NEW t \in Refreshes PROVE ~Owed(t, Ruid[s], job[s].stream)
    <3>1. job[t].step \in Quiet
      BY ZenonT(30)
    <3>2. job[t].step \notin {"listing", "read", "take", "write"}
      BY Zenon, <3>1 DEF Quiet
    <3>3. QED
      BY Zenon, <3>2 DEF Owed
  <2>3. QED
    BY ZenonT(30), <2>1, <2>2 DEF Current
<1>2. QED
  BY <1>1, RoutingInvariant, PTL

\* on_refresh() changes m_rgs once, as a whole, to what it read; a refresh that
\* fails, and every other step, leaves the groups alone.
THEOREM RefreshesAtomic == RoutingSpec => RefreshAtomic
<1> DEFINE Whole == m_rgs' # m_rgs =>
                      /\ \E t \in Refreshes : job[t].step = "found" /\ job'[t].step = "listing"
                      /\ \A g \in Groups : m_rgs'[g] \in {"none", m_rgs[g], stored[g]}
<1>1. ASSUME RoutingInv, [RoutingNext]_routingVars PROVE [Whole]_routingVars
  <2>1. ASSUME NEW t \in Refreshes, ApplyGroups(t), m_rgs' # m_rgs PROVE Whole
    <3>1. /\ job[t].step = "found" /\ Step(t, "listing")
          /\ m_rgs' = [g \in Groups |-> IF g \notin Listed[t] THEN m_rgs[g]
                                        ELSE IF g \in job[t].updated THEN stored[g] ELSE "none"]
      BY Zenon, <2>1 DEF ApplyGroups
    <3>2. "listing" \in Steps /\ RoutingTypeOK
      BY Zenon, <1>1 DEF Steps, RoutingInv
    <3>3. PICK j \in Jobs : Becomes(t, j) /\ j.step = "listing"
      BY ZenonT(30), <3>1, <3>2, StepTo
    <3>4. job'[t].step = "listing"
      BY ZenonT(30), <3>2, <3>3 DEF Becomes, RoutingTypeOK
    <3>5. \A g \in Groups : m_rgs'[g] \in {"none", m_rgs[g], stored[g]}
      BY Zenon, <3>1
    <3>6. QED
      BY ZenonT(30), <3>1, <3>4, <3>5
  <2>2. CASE UNCHANGED m_rgs
    BY ZenonT(30), <2>2
  <2>3. (\E t \in Refreshes : ApplyGroups(t)) \/ UNCHANGED m_rgs
    BY ZenonT(30), <1>1 DEF RoutingNext, Store, FindGroups, ListRouters, Routing, Detach, ReadGroups, TakeStream,
       WriteGroups, CloseRouters, routingVars
  <2>4. QED
    BY ZenonT(30), <2>1, <2>2, <2>3
<1>2. QED
  BY <1>1, RoutingInvariant, PTL DEF RoutingSpec, RefreshAtomic

-----------------------------------------------------------------------------
(* Announcer *)

\* Ends of waits in the queue of the loop, and whether that of u is one of them.
Queued == Remotes \X {"expired", "aborted"}
EndIn(q, u) == \E i \in DOMAIN q : q[i] = <<u, "expired">>

\* The inductive invariant of the announcer.
AnnouncerInv ==
  /\ handlers \in Seq(Queued)
  /\ \A u \in Remotes : Ending(u) => u \in unheard
  /\ known \subseteq Remotes
  /\ ChainsGoOn

\* The end of a wait is still in the queue after a handler is appended.
LEMMA EndingAppend ==
  ASSUME NEW q \in Seq(Queued), NEW h \in Queued, NEW r, r = Append(q, h)
  PROVE  /\ r \in Seq(Queued)
         /\ \A u \in Remotes : EndIn(r, u) <=> EndIn(q, u) \/ h = <<u, "expired">>
  <1>2. /\ r \in Seq(Queued)
        /\ Len(r) = Len(q) + 1
        /\ \A k \in 1..Len(q) : r[k] = q[k]
        /\ r[Len(q) + 1] = h
    BY Appended
  <1>3. /\ DOMAIN q = 1..Len(q) /\ Len(q) \in Nat
        /\ DOMAIN r = 1..(Len(q) + 1)
    BY ZenonT(30), <1>2, Numbered
  <1>4. ASSUME NEW u \in Remotes
        PROVE  EndIn(r, u) <=> EndIn(q, u) \/ h = <<u, "expired">>
    <2>1. ASSUME NEW k \in DOMAIN r, r[k] = <<u, "expired">>
          PROVE  EndIn(q, u) \/ h = <<u, "expired">>
      <3>1. k \in 1..Len(q) \/ k = Len(q) + 1
        BY <1>3
      <3> QED BY ZenonT(30), <3>1, <2>1, <1>2, <1>3 DEF EndIn
    <2>2. ASSUME NEW k \in DOMAIN q, q[k] = <<u, "expired">>
          PROVE  EndIn(r, u)
      <3>1. k \in DOMAIN r /\ r[k] = q[k]
        BY <1>2, <1>3
      <3> QED BY ZenonT(30), <3>1, <2>2 DEF EndIn
    <2>3. ASSUME h = <<u, "expired">>
          PROVE  EndIn(r, u)
      <3>1. Len(q) + 1 \in DOMAIN r
        BY <1>3
      <3> QED BY ZenonT(30), <3>1, <2>3, <1>2 DEF EndIn
    <2> QED BY ZenonT(30), <2>1, <2>2, <2>3 DEF EndIn
  <1> QED BY ZenonT(30), <1>2, <1>4

\* The first handler is taken from the queue.
LEMMA EndingTail ==
  ASSUME NEW q \in Seq(Queued), q # <<>>, NEW r, r = Tail(q)
  PROVE  /\ Head(q) \in Queued
         /\ r \in Seq(Queued)
         /\ \A u \in Remotes : EndIn(q, u) <=> EndIn(r, u) \/ Head(q) = <<u, "expired">>
  <1>2. /\ Head(q) \in Queued
        /\ r \in Seq(Queued)
        /\ Len(r) = Len(q) - 1
        /\ \A k \in 1..Len(r) : r[k] = q[k + 1]
    BY ZenonT(30), HeadTail
  <1>3. Len(q) \in Nat \ {0} /\ Head(q) = q[1]
    BY Zenon, HeadTail, Numbered
  <1>4. DOMAIN q = 1..Len(q) /\ DOMAIN r = 1..(Len(q) - 1)
    BY ZenonT(30), HeadTail, Numbered
  <1>5. \A k \in 1..Len(q) : k = 1 \/ (k - 1 \in 1..Len(r) /\ r[k - 1] = q[k])
    BY SMTT(30), <1>2, <1>3
  <1>6. \A k \in 1..Len(r) : k + 1 \in 1..Len(q)
    BY SMTT(30), <1>2, <1>3
  <1>7. ASSUME NEW u \in Remotes
        PROVE  EndIn(q, u) <=> EndIn(r, u) \/ Head(q) = <<u, "expired">>
    <2>1. ASSUME NEW k \in DOMAIN q, q[k] = <<u, "expired">>
          PROVE  EndIn(r, u) \/ Head(q) = <<u, "expired">>
      <3>1. k = 1 \/ (k - 1 \in DOMAIN r /\ r[k - 1] = q[k])
        BY ZenonT(30), <1>2, <1>4, <1>5
      <3> QED BY ZenonT(30), <3>1, <2>1, <1>3 DEF EndIn
    <2>2. ASSUME NEW k \in DOMAIN r, r[k] = <<u, "expired">>
          PROVE  EndIn(q, u)
      <3>1. k + 1 \in DOMAIN q /\ r[k] = q[k + 1]
        BY ZenonT(30), <1>2, <1>4, <1>6
      <3> QED BY ZenonT(30), <3>1, <2>2 DEF EndIn
    <2>3. ASSUME Head(q) = <<u, "expired">>
          PROVE  EndIn(q, u)
      <3>1. 1 \in DOMAIN q
        BY SMTT(30), <1>3, <1>4
      <3> QED BY ZenonT(30), <3>1, <2>3, <1>3 DEF EndIn
    <2> QED BY ZenonT(30), <2>1, <2>2, <2>3 DEF EndIn
  <1> QED BY ZenonT(30), <1>2, <1>7

\* What an aborted and an expired wait add to the queue.
LEMMA AppendHandler ==
  ASSUME NEW q \in Seq(Queued), NEW v \in Remotes
  PROVE  /\ Append(q, <<v, "aborted">>) \in Seq(Queued) /\ Append(q, <<v, "expired">>) \in Seq(Queued)
         /\ \A u \in Remotes : EndIn(Append(q, <<v, "aborted">>), u) <=> EndIn(q, u)
         /\ \A u \in Remotes : EndIn(Append(q, <<v, "expired">>), u) <=> EndIn(q, u) \/ u = v
  <1>1. <<v, "aborted">> \in Queued /\ <<v, "expired">> \in Queued
    BY Zenon DEF Queued
  <1>2. /\ Append(q, <<v, "aborted">>) \in Seq(Queued)
        /\ \A u \in Remotes :
             EndIn(Append(q, <<v, "aborted">>), u) <=> EndIn(q, u) \/ <<v, "aborted">> = <<u, "expired">>
    BY ZenonT(30), <1>1, EndingAppend
  <1>3. /\ Append(q, <<v, "expired">>) \in Seq(Queued)
        /\ \A u \in Remotes :
             EndIn(Append(q, <<v, "expired">>), u) <=> EndIn(q, u) \/ <<v, "expired">> = <<u, "expired">>
    BY ZenonT(30), <1>1, EndingAppend
  <1> QED BY ZenonT(30), <1>2, <1>3

\* It holds before the first datagram ...
LEMMA AnnouncerStarts == AnnouncerInit => AnnouncerInv
  <1> SUFFICES ASSUME AnnouncerInit
               PROVE  AnnouncerInv
    BY Zenon
  <1>1. handlers = <<>> /\ handlers \in Seq(Queued) /\ DOMAIN handlers = {}
    BY ZenonT(30), EmptySequence DEF AnnouncerInit
  <1> QED BY ZenonT(30), <1>1 DEF AnnouncerInit, AnnouncerInv, ChainsGoOn, Ending

\* ... and every step keeps it.
LEMMA AnnouncerSteps == AnnouncerInv /\ [AnnouncerNext]_announcerVars => AnnouncerInv'
  <1> SUFFICES ASSUME AnnouncerInv, [AnnouncerNext]_announcerVars
               PROVE  AnnouncerInv'
    BY Zenon
  <1> USE DEF AnnouncerInv, ChainsGoOn
  <1>1. ASSUME handlers' = handlers
        PROVE  \A u \in Remotes : Ending(u)' <=> Ending(u)
    BY ZenonT(30), <1>1 DEF Ending
  <1>2. CASE \E located \in BOOLEAN : OnPublish(located)
    BY SMTT(30), <1>1, <1>2 DEF OnPublish
  <1>3. ASSUME NEW from \in Remotes \cup {"undecodable", "itself"}, OnReceive(from)
        PROVE  AnnouncerInv'
    <2>1. CASE handlers' = handlers
      BY ZenonT(30), <1>1, <1>3, <2>1 DEF OnReceive
    <2>2. CASE from \in Remotes /\ handlers' = Append(handlers, <<from, "aborted">>)
      <3>1. /\ handlers' \in Seq(Queued)
            /\ \A u \in Remotes : Ending(u)' <=> Ending(u)
        <4>1. \A u \in Remotes : (Ending(u) <=> EndIn(handlers, u)) /\ (Ending(u)' <=> EndIn(handlers', u))
          BY Zenon DEF Ending, EndIn
        <4>2. handlers \in Seq(Queued)
          BY Zenon
        <4> HIDE DEF AnnouncerInv, ChainsGoOn
        <4> QED BY ZenonT(30), <2>2, <4>1, <4>2, AppendHandler
      <3> QED BY ZenonT(30), <3>1, <1>3, <2>2 DEF OnReceive
    <2> QED BY ZenonT(30), <1>3, <2>1, <2>2 DEF OnReceive
  <1>4. ASSUME NEW v \in Remotes, RunOut(v)
        PROVE  AnnouncerInv'
    <2>1. /\ handlers' \in Seq(Queued)
          /\ \A u \in Remotes : Ending(u)' <=> Ending(u) \/ u = v
      <3>1. \A u \in Remotes : (Ending(u) <=> EndIn(handlers, u)) /\ (Ending(u)' <=> EndIn(handlers', u))
        BY Zenon DEF Ending, EndIn
      <3>2. handlers \in Seq(Queued) /\ handlers' = Append(handlers, <<v, "expired">>)
        BY Zenon, <1>4 DEF RunOut
      <3> HIDE DEF AnnouncerInv, ChainsGoOn
      <3> QED BY ZenonT(30), <3>1, <3>2, AppendHandler
    <2> QED BY ZenonT(30), <2>1, <1>4 DEF RunOut
  <1>5. CASE OnExpired
    <2>1. PICK v \in Remotes, how \in {"expired", "aborted"} : Head(handlers) = <<v, how>>
      BY SMTT(30), <1>5, EndingTail DEF OnExpired, Queued
    <2>2. /\ Tail(handlers) \in Seq(Queued)
          /\ \A u \in Remotes : EndIn(handlers, u) <=> EndIn(Tail(handlers), u) \/ <<v, how>> = <<u, "expired">>
      BY ZenonT(30), <1>5, <2>1, EndingTail DEF OnExpired
    <2>3. /\ Append(Tail(handlers), <<v, "aborted">>) \in Seq(Queued)
          /\ \A u \in Remotes : EndIn(Append(Tail(handlers), <<v, "aborted">>), u) <=> EndIn(Tail(handlers), u)
      BY ZenonT(30), <2>1, <2>2, AppendHandler
    <2>4. handlers' \in {Tail(handlers), Append(Tail(handlers), <<v, "aborted">>)}
      BY SMTT(30), <1>5, <2>1 DEF OnExpired
    <2>5. handlers' \in Seq(Queued) /\ \A u \in Remotes : EndIn(handlers', u) <=> EndIn(Tail(handlers), u)
      BY ZenonT(30), <2>2, <2>3, <2>4
    <2>6. \A u \in Remotes : Ending(u) <=> Ending(u)' \/ (u = v /\ how = "expired")
      BY ZenonT(30), <2>2, <2>5 DEF Ending, EndIn
    <2>7. \/ how = "aborted" /\ known' = known /\ waiting' = waiting
          \/ how = "expired" /\ known' = known \ {v} /\ waiting' = waiting \ {v}
      BY SMTT(30), <1>5, <2>1 DEF OnExpired
    <2>8. UNCHANGED <<announcing, receiving, up, unheard, broken>>
      BY Zenon, <1>5 DEF OnExpired
    <2> QED BY ZenonT(30), <2>5, <2>6, <2>7, <2>8
  <1>6. CASE Destroy
    <2>1. handlers' = <<>> /\ handlers' \in Seq(Queued) /\ DOMAIN handlers' = {}
      BY ZenonT(30), <1>6, EmptySequence DEF Destroy
    <2> QED BY ZenonT(30), <1>6, <2>1 DEF Destroy, Ending
  <1>7. CASE UNCHANGED announcerVars
    BY ZenonT(30), <1>1, <1>7 DEF announcerVars
  <1> QED BY ZenonT(30), <1>2, <1>3, <1>4, <1>5, <1>6, <1>7 DEF AnnouncerNext

\* The invariant of the queue and the waits.
THEOREM AnnouncerInvariant == AnnouncerSpec => []AnnouncerInv
  BY AnnouncerStarts, AnnouncerSteps, PTL DEF AnnouncerSpec

\* While the manager exists its chains go on, and every node it has had
\* linked is watched by a wait or by the end of one.
THEOREM EveryNodeWatched == AnnouncerSpec => []ChainsGoOn
  <1>1. AnnouncerInv => ChainsGoOn
    BY Zenon DEF AnnouncerInv
  <1> QED BY <1>1, AnnouncerInvariant, PTL

\* A node is dropped only after a whole interval without an announcement.
THEOREM DroppedOnlyIfSilent == AnnouncerSpec => DroppedIfSilent
  <1>1. AnnouncerInv /\ [AnnouncerNext]_announcerVars =>
          [\A u \in Remotes : u \in known /\ u \notin known' => u \in unheard]_announcerVars
    <2> SUFFICES ASSUME AnnouncerInv, AnnouncerNext, NEW u \in Remotes, u \in known, u \notin known'
                 PROVE  u \in unheard
      BY ZenonT(30)
    <2>1. OnExpired
      BY Zenon DEF AnnouncerNext, OnPublish, OnReceive, RunOut, Destroy
    <2>2. Head(handlers) \in Queued
      BY ZenonT(30), <2>1, EndingTail DEF OnExpired, AnnouncerInv
    <2>3. Head(handlers) = <<u, "expired">>
      BY SMTT(30), <2>1, <2>2 DEF OnExpired, Queued
    <2>4. Ending(u)
      BY ZenonT(30), <2>1, <2>3, EndingTail DEF OnExpired, AnnouncerInv, Ending, EndIn
    <2> QED BY ZenonT(30), <2>4 DEF AnnouncerInv
  <1> QED BY <1>1, AnnouncerInvariant, PTL DEF AnnouncerSpec, DroppedIfSilent
=============================================================================
