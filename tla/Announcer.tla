------------------------------ MODULE Announcer ------------------------------
(***************************************************************************)
(* The multicast cluster manager on the locator's loop: a chain of waits   *)
(* that announces this node, a chain of receives, and for every node heard *)
(* of a timer that drops it.  A wait that has expired cannot be taken back *)
(* any more: its handler is in the loop's queue.                           *)
(***************************************************************************)
EXTENDS Naturals, Sequences

CONSTANTS
  Remotes,        \* uuids of other nodes
  MaxDatagrams    \* bound on what is received

ASSUME AnnouncerAssumption == MaxDatagrams \in Nat

VARIABLES
  announcing,     \* on_publish(): "unprepared", "pending" or "ended"
  receiving,      \* a receive is pending
  waiting,        \* nodes with a wait in m_expirations
  handlers,       \* handlers of expirations in the loop's queue
  known,          \* nodes the locator was told to link and not to drop
  up,             \* the manager exists
  datagrams,
  \* History
  unheard,        \* nodes whose wait has run out since they were last linked
  broken          \* chains that ended: "announce", "receive"

announcerVars == <<announcing, receiving, waiting, handlers, known, up, datagrams, unheard, broken>>

AnnouncerInit ==
  /\ announcing = "unprepared" /\ receiving = TRUE /\ up = TRUE
  /\ waiting = {} /\ handlers = <<>> /\ known = {}
  /\ datagrams = 0 /\ unheard = {} /\ broken = {}

\* on_publish(), by the signal that the context is prepared and by its own
\* timer: without a locator in the context it does not go on.
OnPublish(located) ==
  /\ up /\ announcing # "ended"
  /\ announcing' = IF located THEN "pending" ELSE "ended"
  /\ broken' = IF located THEN broken ELSE broken \cup {"announce"}
  /\ UNCHANGED <<receiving, waiting, handlers, known, up, datagrams, unheard>>

\* The end of a wait for the node is in the queue.
Ending(u) == \E i \in DOMAIN handlers : handlers[i] = <<u, "expired">>

\* on_receive(): what cannot be decoded and errors of the socket end the
\* chain; the node's own datagrams are passed over.  A new wait aborts the
\* one before it.
OnReceive(from) ==
  /\ up /\ receiving /\ datagrams < MaxDatagrams
  /\ datagrams' = datagrams + 1
  /\ \/ /\ from = "undecodable"
        /\ receiving' = FALSE /\ broken' = broken \cup {"receive"}
        /\ UNCHANGED <<waiting, handlers, known, unheard>>
     \/ /\ from = "itself"
        /\ UNCHANGED <<receiving, waiting, handlers, known, unheard, broken>>
     \/ /\ from \in Remotes
        /\ known' = known \cup {from}
        /\ waiting' = waiting \cup {from}
        /\ handlers' = IF from \in waiting THEN Append(handlers, <<from, "aborted">>) ELSE handlers
        /\ unheard' = IF from \in known \/ Ending(from) THEN unheard ELSE unheard \ {from}
        /\ UNCHANGED <<receiving, broken>>
  /\ UNCHANGED <<announcing, up>>

\* A wait runs out.
RunOut(u) ==
  /\ up /\ u \in waiting
  /\ waiting' = waiting \ {u}
  /\ handlers' = Append(handlers, <<u, "expired">>)
  /\ unheard' = unheard \cup {u}
  /\ UNCHANGED <<announcing, receiving, known, up, datagrams, broken>>

\* Mutant: the handler of an aborted wait drops the node as well.
OnExpiredAlways ==
  /\ up /\ handlers # <<>>
  /\ LET u == Head(handlers)[1]
     IN  /\ known' = known \ {u} /\ waiting' = waiting \ {u}
         /\ handlers' = Tail(handlers)
  /\ UNCHANGED <<announcing, receiving, up, datagrams, unheard, broken>>

\* on_expired(): erasing the timer aborts a wait that was begun since.
OnExpired ==
  /\ up /\ handlers # <<>>
  /\ LET u == Head(handlers)[1]
     IN  \/ /\ Head(handlers)[2] = "aborted"
            /\ handlers' = Tail(handlers)
            /\ UNCHANGED <<known, waiting>>
         \/ /\ Head(handlers)[2] = "expired"
            /\ known' = known \ {u}
            /\ waiting' = waiting \ {u}
            /\ handlers' = IF u \in waiting THEN Append(Tail(handlers), <<u, "aborted">>) ELSE Tail(handlers)
  /\ UNCHANGED <<announcing, receiving, up, datagrams, unheard, broken>>

\* ~multicast_t()
Destroy ==
  /\ up /\ up' = FALSE
  /\ announcing' = "ended" /\ receiving' = FALSE /\ waiting' = {} /\ handlers' = <<>>
  /\ UNCHANGED <<known, datagrams, unheard, broken>>

AnnouncerNext ==
  \/ \E located \in BOOLEAN : OnPublish(located)
  \/ \E from \in Remotes \cup {"undecodable", "itself"} : OnReceive(from)
  \/ \E u \in Remotes : RunOut(u)
  \/ OnExpired \/ Destroy

AnnouncerSpec == AnnouncerInit /\ [][AnnouncerNext]_announcerVars

-----------------------------------------------------------------------------
\* While the manager exists, its two chains go on, unless on_publish() found
\* no locator or a datagram could not be decoded; and every node it has had
\* linked is watched: a wait is pending for it, or its end is in the queue.
ChainsGoOn ==
  up =>
    /\ "announce" \in broken \/ announcing # "ended"
    /\ "receive" \in broken \/ receiving
    /\ \A u \in known : u \in waiting \/ Ending(u)

\* A node is dropped only if a whole expiration interval passed without an
\* announcement of it since it was linked, or since before that if the loop
\* is late; the timer of an announcement that was followed by another one in
\* time does not drop it.
DroppedIfSilent ==
  [][\A u \in Remotes : u \in known /\ u \notin known' => u \in unheard]_announcerVars
=============================================================================
