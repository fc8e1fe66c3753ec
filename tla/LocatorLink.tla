----------------------------- MODULE LocatorLink -----------------------------
(***************************************************************************)
(* How a locator keeps itself connected to the other nodes of a cluster.   *)
(* The cluster manager announces and expires nodes; link_node connects and *)
(* opens a stream; the stream brings the services of the remote node, which *)
(* the gateway stores; a lost connection drops the node and cleans up.     *)
(* The locator's loop runs the cluster manager and the connect handlers;   *)
(* every session runs on an engine thread of its own.                      *)
(***************************************************************************)
EXTENDS Naturals, Sequences

CONSTANTS
  Nodes,          \* uuids of the remote nodes
  RemoteServices,       \* names of services
  MaxConn,        \* bound on the connection attempts
  MaxChange,      \* bound on the services a remote node adds or removes
  Absent,         \* not in m_clients
  Pending,        \* in m_clients, without a session yet
  None

Conns == 1..MaxConn

\* Messages to a sink, and a slot at work on one or done with it.
Messages == [kind : {"update", "choke", "alien"}, up : SUBSET RemoteServices, gone : SUBSET RemoteServices]
Slots == [kind : {"update", "choke", "alien", "over", "closed"},
          up : SUBSET RemoteServices, gone : SUBSET RemoteServices]

ASSUME LinkAssumption ==
  /\ MaxConn \in Nat /\ MaxChange \in Nat
  /\ Absent \notin Conns /\ Pending \notin Conns /\ None \notin Conns /\ Absent # Pending
  /\ None \notin Nodes /\ None \notin Slots

VARIABLES
  clients,        \* m_clients: Absent, Pending or the session of the uplink
  link_timer,     \* None, or the node and whether the wait is over
  node,           \* the node a connection was made for
  link,           \* how far linking over a connection has come
  session,        \* "none", "up" or "down"
  sweep,          \* is somebody inside detach() of it, and with what code?
  sink,           \* connect_sink_t: "none", "bound", "told" or "dead"
  busy,           \* the message a slot of the sink is working on
  holds,          \* the session that drop_node() on a thread is to detach
  gateway,        \* services in the gateway, by node
  cluster,        \* m_cluster is set
  expiring,       \* nodes with an armed expiration timer
  remote,         \* services of the remote nodes
  stream,         \* the stream a remote node sends its updates to
  pipe,           \* messages under way to a sink
  changes

clientVars == <<clients, link_timer>>
sessionVars == <<session, sweep>>
clusterVars == <<cluster, expiring>>
remoteVars == <<remote, stream, pipe, changes>>
linkVars == <<clientVars, node, link, sessionVars, sink, busy, holds, gateway, clusterVars, remoteVars>>

\* Who may be inside drop_node(): the locator's loop, the detach() of a
\* session, a slot of a sink.
Loop == <<0, "loop">>
Threads == {Loop} \cup (Conns \X {"sweep", "slot"})

\* Messages to a sink: an update, the end of the stream, or an update from a
\* node that turns out to have another uuid.
Update(up, gone) == [kind |-> "update", up |-> up, gone |-> gone]
Choke == [kind |-> "choke", up |-> {}, gone |-> {}]
Alien == [kind |-> "alien", up |-> {}, gone |-> {}]

LinkInit ==
  /\ clients = [n \in Nodes |-> Absent] /\ link_timer = None
  /\ node = [c \in Conns |-> None]
  /\ link = [c \in Conns |-> "none"]
  /\ session = [c \in Conns |-> "none"]
  /\ sweep = [c \in Conns |-> "no"]
  /\ sink = [c \in Conns |-> "none"]
  /\ busy = [c \in Conns |-> None]
  /\ holds = [t \in Threads |-> None]
  /\ gateway = {} /\ cluster = TRUE /\ expiring = {}
  /\ remote \in [Nodes -> SUBSET RemoteServices]
  /\ stream = [n \in Nodes |-> None]
  /\ pipe = [c \in Conns |-> <<>>]
  /\ changes = 0

\* What is sent to a session that is down is lost.
Deliver(c, m) == IF session[c] = "up" THEN [pipe EXCEPT ![c] = Append(@, m)] ELSE pipe

\* detach(ec): the transport goes, and what was under way with it.
DetachSession(c, ec) ==
  /\ session' = [session EXCEPT ![c] = "down"]
  /\ sweep' = [sweep EXCEPT ![c] = ec]
  /\ pipe' = [pipe EXCEPT ![c] = <<>>]

Unused == {c \in Conns : node[c] = None}

\* A thread is done with the session it took from m_clients. Nobody else can
\* have taken that session, so a quiet sweep of it is this thread's.
Released(t) ==
  holds[t] # None => session[holds[t]] = "down" /\ sweep[holds[t]] # "quiet"

\* The locator's loop is between two handlers.
LinkLoopFree ==
  /\ \A c \in Conns : link[c] \notin {"attached", "forked"}
  /\ Released(Loop)

-----------------------------------------------------------------------------
(* link_node, drop_node and the retry timer *)

\* link_node(uuid, endpoints)
LinkNode(n) ==
  IF clients[n] = Absent
    THEN \E c \in Unused :
           /\ \A d \in Unused : c <= d
           /\ clients' = [clients EXCEPT ![n] = Pending]
           /\ node' = [node EXCEPT ![c] = n]
           /\ link' = [link EXCEPT ![c] = "connecting"]
    ELSE UNCHANGED <<clients, node, link>>

\* retry_link_node(uuid, endpoints)
RetryLinkNode(n) ==
  link_timer' = IF link_timer = None THEN [uuid |-> n, fired |-> FALSE] ELSE link_timer

\* drop_node(uuid), under the lock: erase the entry and keep its session.
DropNode(t, n) ==
  /\ holds' = [holds EXCEPT ![t] = IF clients[n] \in Conns THEN clients[n] ELSE None]
  /\ clients' = [clients EXCEPT ![n] = Absent]

\* The rest of drop_node(uuid): detach({}) of that session, which does nothing
\* when the session is down already.
DetachDropped(t) ==
  /\ holds[t] # None /\ session[holds[t]] = "up"
  /\ DetachSession(holds[t], "quiet")
  /\ UNCHANGED <<clientVars, node, link, sink, busy, holds, gateway, clusterVars, remote, stream, changes>>

\* The retry timer fires.
Retry ==
  /\ LinkLoopFree
  /\ link_timer # None /\ ~link_timer.fired
  /\ clients[link_timer.uuid] = Absent => Unused # {}
  /\ link_timer' = [link_timer EXCEPT !.fired = TRUE]
  /\ LinkNode(link_timer.uuid)
  /\ UNCHANGED <<sessionVars, sink, busy, holds, gateway, clusterVars, remoteVars>>

\* on_context_shutdown()
LinkShutdown ==
  /\ LinkLoopFree /\ cluster
  /\ clients' = [n \in Nodes |-> Absent]
  /\ cluster' = FALSE /\ expiring' = {}
  /\ UNCHANGED <<link_timer, node, link, sessionVars, sink, busy, holds, gateway, remoteVars>>

-----------------------------------------------------------------------------
(* The cluster manager *)

\* multicast_t::on_receive() and predefine_t::on_announce()
Announced(n) ==
  /\ LinkLoopFree /\ cluster
  /\ clients[n] = Absent => Unused # {}
  /\ LinkNode(n)
  /\ expiring' = expiring \cup {n}
  /\ UNCHANGED <<link_timer, sessionVars, sink, busy, holds, gateway, cluster, remoteVars>>

\* multicast_t::on_expired()
Expire(n) ==
  /\ LinkLoopFree /\ n \in expiring
  /\ expiring' = expiring \ {n}
  /\ DropNode(Loop, n)
  /\ UNCHANGED <<link_timer, node, link, sessionVars, sink, busy, gateway, cluster, remoteVars>>

-----------------------------------------------------------------------------
(* The connect handler of link_node *)

\* The entry is gone: "remote disappeared while connecting".
Disappeared(c) ==
  /\ clients[node[c]] = Absent
  /\ link' = [link EXCEPT ![c] = "done"]
  /\ UNCHANGED <<clients, link_timer, session>>

\* async_connect failed.
ConnectFailed(c) ==
  /\ clients[node[c]] # Absent
  /\ clients' = [clients EXCEPT ![node[c]] = Absent]
  /\ RetryLinkNode(node[c])
  /\ link' = [link EXCEPT ![c] = "done"]
  /\ UNCHANGED session

\* The engine refuses the session: the timer is reset before it is set again.
AttachFailed(c) ==
  /\ clients[node[c]] # Absent
  /\ clients' = [clients EXCEPT ![node[c]] = Absent]
  /\ link_timer' = [uuid |-> node[c], fired |-> FALSE]
  /\ link' = [link EXCEPT ![c] = "done"]
  /\ UNCHANGED session

ConnectSucceeded(c) ==
  /\ clients[node[c]] # Absent
  /\ link_timer' = None
  /\ session' = [session EXCEPT ![c] = "up"]
  /\ clients' = [clients EXCEPT ![node[c]] = c]
  /\ link' = [link EXCEPT ![c] = "attached"]

\* async_connect is over; the section under the lock of m_clients.
Connected(c) ==
  /\ LinkLoopFree
  /\ link[c] = "connecting"
  /\ Disappeared(c) \/ ConnectFailed(c) \/ AttachFailed(c) \/ ConnectSucceeded(c)
  /\ UNCHANGED <<node, sweep, sink, busy, holds, gateway, clusterVars, remoteVars>>

\* The sink is forked onto the session, whether or not it is still attached.
ForkSink(c) ==
  /\ link[c] = "attached"
  /\ link' = [link EXCEPT ![c] = "forked"]
  /\ sink' = [sink EXCEPT ![c] = "bound"]
  /\ UNCHANGED <<clientVars, node, sessionVars, busy, holds, gateway, clusterVars, remoteVars>>

SendFailed(n) == clients' = [clients EXCEPT ![n] = Absent]

\* send<locator::connect>, which throws when the session is down.
SendConnect(c) ==
  /\ link[c] = "forked"
  /\ IF session[c] = "up"
       THEN link' = [link EXCEPT ![c] = "sent"] /\ UNCHANGED clients
       ELSE link' = [link EXCEPT ![c] = "done"] /\ SendFailed(node[c])
  /\ UNCHANGED <<link_timer, node, sessionVars, sink, busy, holds, gateway, clusterVars, remoteVars>>

-----------------------------------------------------------------------------
(* The remote node *)

\* on_connect() of the remote locator: it replaces the stream it had for us
\* and writes its snapshot; or the node there is another one.
RemoteAccept(c) ==
  /\ link[c] = "sent"
  /\ link' = [link EXCEPT ![c] = "done"]
  /\ \/ /\ stream' = [stream EXCEPT ![node[c]] = c]
        /\ pipe' = Deliver(c, Update(remote[node[c]], {}))
     \/ pipe' = Deliver(c, Alien) /\ UNCHANGED stream
  /\ UNCHANGED <<clientVars, node, sessionVars, sink, busy, holds, gateway, clusterVars, remote, changes>>

\* on_service() of the remote locator: a service comes or goes.
RemoteChange(n, s) ==
  /\ changes < MaxChange
  /\ changes' = changes + 1
  /\ remote' = [remote EXCEPT ![n] = IF s \in @ THEN @ \ {s} ELSE @ \cup {s}]
  /\ LET u == IF s \in remote[n] THEN Update({}, {s}) ELSE Update({s}, {})
     IN  pipe' = IF stream[n] = None THEN pipe ELSE Deliver(stream[n], u)
  /\ UNCHANGED <<clientVars, node, link, sessionVars, sink, busy, holds, gateway, clusterVars, stream>>

\* on_context_shutdown() of the remote locator closes the stream.
RemoteClose(n) ==
  /\ stream[n] # None
  /\ pipe' = Deliver(stream[n], Choke)
  /\ stream' = [stream EXCEPT ![n] = None]
  /\ UNCHANGED <<clientVars, node, link, sessionVars, sink, busy, holds, gateway, clusterVars, remote, changes>>

-----------------------------------------------------------------------------
(* Sessions and sinks, on the engine threads *)

\* The connection is lost: detach(ec) takes the transport away.
Lose(c) ==
  /\ session[c] = "up"
  /\ DetachSession(c, "error")
  /\ UNCHANGED <<clientVars, node, link, sink, busy, holds, gateway, clusterVars, remote, stream, changes>>

\* connect_sink_t::discard(ec): with an error it drops the node.
DiscardSink(c) ==
  /\ sweep[c] # "no" /\ sink[c] = "bound"
  /\ sink' = [sink EXCEPT ![c] = "told"]
  /\ IF sweep[c] = "error"
       THEN DropNode(<<c, "sweep">>, node[c])
       ELSE UNCHANGED <<holds, clients>>
  /\ UNCHANGED <<link_timer, node, link, sessionVars, busy, gateway, clusterVars, remoteVars>>

\* ~connect_sink_t(), gateway_t::cleanup(uuid)
Cleanup(n) == gateway' = {e \in gateway : e[1] # n}

\* Mutant: as if the sweep destroyed the sink under a slot at work.
DestroySinkAlways(c) ==
  /\ Cleanup(node[c])
  /\ sink' = [sink EXCEPT ![c] = "dead"]

\* The channel map lets go of the sink, which lives on under a slot at work.
ReleaseSink(c) ==
  IF busy[c] = None THEN Cleanup(node[c]) /\ sink' = [sink EXCEPT ![c] = "dead"]
                    ELSE UNCHANGED <<gateway, sink>>

\* detach() comes to its end.
SweepDone(c) ==
  /\ sweep[c] # "no" /\ sink[c] # "bound"
  /\ Released(<<c, "sweep">>)
  /\ sweep' = [sweep EXCEPT ![c] = "no"]
  /\ holds' = [holds EXCEPT ![<<c, "sweep">>] = None]
  /\ IF sink[c] = "told" THEN ReleaseSink(c) ELSE UNCHANGED <<gateway, sink>>
  /\ UNCHANGED <<clientVars, node, link, session, busy, clusterVars, remoteVars>>

\* A message arrives and its slot starts.
Receive(c) ==
  /\ session[c] = "up" /\ sink[c] = "bound" /\ busy[c] = None /\ pipe[c] # <<>>
  /\ busy' = [busy EXCEPT ![c] = Head(pipe[c])]
  /\ pipe' = [pipe EXCEPT ![c] = Tail(@)]
  /\ UNCHANGED <<clientVars, node, link, sessionVars, sink, holds, gateway, clusterVars, remote, stream, changes>>

\* consume() refuses what is there, cleanup() what is not: then the slot
\* throws, with any part of the update applied.
Refused(n, u) ==
  \/ \E s \in u.up : <<n, s>> \in gateway
  \/ \E s \in u.gone : <<n, s>> \notin gateway

\* Mutant: what the remote node has removed is not looked at.
ConsumeUpOnly(n, up, gone) == gateway' = gateway \cup ({n} \X up)

Consume(n, up, gone) == gateway' = (gateway \cup ({n} \X up)) \ ({n} \X gone)

\* on_announce() on an update of the right node. The exception detaches the
\* session with an error, unless somebody was first.
OnAnnounce(c) ==
  LET n == node[c]
      u == busy[c]
  IN  /\ u # None /\ u.kind = "update"
      /\ IF Refused(n, u)
           THEN /\ \E up \in SUBSET u.up, gone \in SUBSET u.gone :
                     /\ ~Refused(n, Update(up, gone))
                     /\ Consume(n, up, gone)
                /\ IF session[c] = "up" THEN DetachSession(c, "error")
                                        ELSE UNCHANGED <<sessionVars, pipe>>
           ELSE Consume(n, u.up, u.gone) /\ UNCHANGED <<sessionVars, pipe>>
      /\ busy' = [busy EXCEPT ![c] = [@ EXCEPT !.kind = "over"]]
      /\ UNCHANGED <<clientVars, node, link, sink, holds, clusterVars, remote, stream, changes>>

\* on_announce() on a uuid mismatch, and on_shutdown(): both drop the node.
OnBadNode(c) ==
  /\ busy[c] # None /\ busy[c].kind \in {"choke", "alien"}
  /\ DropNode(<<c, "slot">>, node[c])
  /\ busy' = [busy EXCEPT ![c] = [@ EXCEPT !.kind = IF @ = "choke" THEN "closed" ELSE "over"]]
  /\ UNCHANGED <<link_timer, node, link, sessionVars, sink, gateway, clusterVars, remoteVars>>

\* The slot returns. The sink goes away if the sweep has let go of it, or if
\* the stream was closed.
SlotDone(c) ==
  /\ busy[c] # None /\ busy[c].kind \in {"over", "closed"}
  /\ Released(<<c, "slot">>)
  /\ busy' = [busy EXCEPT ![c] = None]
  /\ holds' = [holds EXCEPT ![<<c, "slot">>] = None]
  /\ IF \/ busy[c].kind = "closed"
        \/ sink[c] = "told" /\ sweep[c] = "no"
       THEN Cleanup(node[c]) /\ sink' = [sink EXCEPT ![c] = "dead"]
       ELSE UNCHANGED <<gateway, sink>>
  /\ UNCHANGED <<clientVars, node, link, sessionVars, clusterVars, remoteVars>>

-----------------------------------------------------------------------------

LinkNext ==
  \/ Retry \/ LinkShutdown
  \/ \E n \in Nodes : Announced(n) \/ Expire(n) \/ RemoteClose(n)
  \/ \E t \in Threads : DetachDropped(t)
  \/ \E c \in Conns :
       \/ Connected(c) \/ ForkSink(c) \/ SendConnect(c) \/ RemoteAccept(c)
       \/ Lose(c) \/ DiscardSink(c) \/ SweepDone(c)
       \/ Receive(c) \/ OnAnnounce(c) \/ OnBadNode(c) \/ SlotDone(c)
  \/ \E n \in Nodes, s \in RemoteServices : RemoteChange(n, s)

LinkSpec == LinkInit /\ [][LinkNext]_linkVars

-----------------------------------------------------------------------------
(* Properties *)

\* Types; a sink exists only on a session that was attached, and only the
\* node's own connections stand in m_clients.
LinkTypeOK ==
  /\ clients \in [Nodes -> Conns \cup {Absent, Pending}]
  /\ link_timer \in [uuid : Nodes, fired : BOOLEAN] \cup {None}
  /\ node \in [Conns -> Nodes \cup {None}]
  /\ link \in [Conns -> {"none", "connecting", "attached", "forked", "sent", "done"}]
  /\ session \in [Conns -> {"none", "up", "down"}]
  /\ sweep \in [Conns -> {"no", "error", "quiet"}]
  /\ sink \in [Conns -> {"none", "bound", "told", "dead"}]
  /\ busy \in [Conns -> Slots \cup {None}] /\ pipe \in [Conns -> Seq(Messages)]
  /\ holds \in [Threads -> Conns \cup {None}]
  /\ gateway \in SUBSET (Nodes \X RemoteServices)
  /\ cluster \in BOOLEAN /\ expiring \in SUBSET Nodes
  /\ remote \in [Nodes -> SUBSET RemoteServices]
  /\ stream \in [Nodes -> Conns \cup {None}]
  /\ \A c \in Conns : sink[c] # "none" => session[c] # "none"
  /\ \A n \in Nodes : clients[n] \in Conns => node[clients[n]] = n

\* The destructor of this sink is still to come.
Live(c) ==
  /\ sink[c] \in {"bound", "told"}
  /\ session[c] = "up" \/ sweep[c] # "no" \/ busy[c] # None

\* A service stands in the gateway only while some live sink of its node is
\* there to clean it up: no connection that went away, however the loss, the
\* expiry and a slot at work interleave, leaves services behind.
NoOrphans ==
  \A e \in gateway : \E c \in Conns : node[c] = e[1] /\ Live(c)

\* A session that is down leaves m_clients, so that the next announcement can
\* link the node again: it stays there only while its detach(), a slot of its
\* sink or its connect handler is still under way.
DeadLinksGo ==
  \A n \in Nodes : \A c \in Conns :
    clients[n] = c /\ session[c] = "down" =>
      sweep[c] # "no" \/ link[c] \in {"attached", "forked"}

\* After a failed connection a retry is pending: retry_link_node() does nothing
\* only "if the timer is already locked and loaded".
RetryPending ==
  [][\A c \in Conns : link[c] = "connecting" /\ ConnectFailed(c) =>
       link_timer' # None /\ ~link_timer'.fired]_linkVars

\* Nothing is under way.
AtRest ==
  /\ \A c \in Conns : /\ link[c] \in {"none", "done"} /\ sweep[c] = "no"
                      /\ busy[c] = None /\ pipe[c] = <<>>
  /\ \A t \in Threads : Released(t)

\* "Updates are sent out on context service signals, and propagate to all nodes
\* in the cluster": at rest, the gateway knows exactly the services of a node
\* that is linked by a live stream.
UpdatesReach ==
  AtRest =>
    \A n \in Nodes : \A c \in Conns :
      clients[n] = c /\ stream[n] = c /\ session[c] = "up" /\ sink[c] = "bound" =>
        {s \in RemoteServices : <<n, s>> \in gateway} = remote[n]

\* The same for a node that was linked once only, so that no sink of an older
\* connection can clean up behind the new one's back: whatever comes or goes
\* between the snapshot and the updates, on both ends, the gateway follows.
FirstLinkUpdates ==
  AtRest =>
    \A c \in Conns :
      LET n == node[c]
      IN  (\A d \in Conns \ {c} : node[d] # n) /\ n # None =>
            (clients[n] = c /\ stream[n] = c /\ session[c] = "up" /\ sink[c] = "bound" =>
               {s \in RemoteServices : <<n, s>> \in gateway} = remote[n])
=============================================================================
