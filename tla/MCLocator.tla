----------------------------- MODULE MCLocator -----------------------------
(* The locator in five parts that share no state: the links to the locators
   of other nodes, what it publishes for local services, its routing groups,
   the announces that discover the other nodes, and the continuum of a
   routing group.  A behaviour runs one of them and leaves the others alone. *)
EXTENDS LocatorLink, LocatorPublish, LocatorRouting, Announcer, Continuum

VARIABLE part

MCOwners == {"p1", "p2", "p3", "l1", "l2", "bad"}
MCService == [a \in MCOwners |-> IF a = "p3" THEN "r" ELSE IF a = "l2" THEN "y" ELSE "x"]
MCLocation == [a \in MCOwners |-> IF a = "p3" THEN "nowhere" ELSE a]
Casts == {{"p1", "p2"}, {"p1", "l1", "p3"}, {"p1", "l2"}, {"p2", "bad"}}

MCRuid == [s \in {"s1", "s2"} |-> "router"]
MCListed == [t \in {"f1", "f2"} |-> IF t = "f1" THEN {"g", "h"} ELSE {"g"}]
RoutingCasts == {{"s1", "s2", "f1"}, {"s1", "f1", "f2"}}

MCDigest(v, s) == [k \in 1 .. 2 |-> (v * 7 + s * 5 + k * 11) % 32]

Parts == {"link", "publish", "routing", "announce", "continuum"}

Init ==
  /\ part \in Parts
  /\ LinkInit /\ (part # "link" => remote = [n \in Nodes |-> {}])
  /\ \E cast \in (IF part = "publish" THEN Casts ELSE {{}}),
        g, k \in (IF part = "publish" THEN BOOLEAN ELSE {TRUE}) : PublishInit(cast, g, k)
  /\ \E cast \in (IF part = "routing" THEN RoutingCasts ELSE {{}}) : RoutingInit(cast)
  /\ AnnouncerInit
  /\ IF part = "continuum" THEN ContinuumInit ELSE pick = [group |-> <<>>, value |-> 0, reverse |-> FALSE]

Next ==
  /\ UNCHANGED <<part, pick>>
  /\ \/ part = "link" /\ LinkNext /\ UNCHANGED <<publishVars, routingVars, announcerVars>>
     \/ part = "publish" /\ PublishNext /\ UNCHANGED <<linkVars, routingVars, announcerVars>>
     \/ part = "routing" /\ RoutingNext /\ UNCHANGED <<linkVars, publishVars, announcerVars>>
     \/ part = "announce" /\ AnnouncerNext /\ UNCHANGED <<linkVars, publishVars, routingVars>>

Spec == Init /\ [][Next]_<<part, pick, linkVars, publishVars, routingVars, announcerVars>>
=============================================================================
