-------------------------- MODULE ChannelLifecycle --------------------------
(***************************************************************************)
(* What a session promises about its virtual channels, with no threads, no *)
(* messages and no transport: a channel id is fresh, then possibly open,   *)
(* then closed for good, ids are taken in increasing order, and the        *)
(* dispatch behind a channel is told about an abnormal end (discard) at    *)
(* most once, at the moment the channel is closed.                         *)
(***************************************************************************)
EXTENDS Naturals

CONSTANT Ids      \* channel ids, natural numbers

VARIABLES
  status,         \* "fresh", "open" or "closed", for every id
  told            \* how many times the dispatches of a channel were discarded

lifecycleVars == <<status, told>>

LifecycleInit ==
  /\ status = [id \in Ids |-> "fresh"]
  /\ told = [id \in Ids |-> 0]

\* Taking an id closes every smaller id that was never used.
Take(id, mode) ==
  /\ \A j \in Ids : j >= id => status[j] = "fresh"
  /\ status' = [j \in Ids |-> IF j = id THEN mode
                              ELSE IF j < id /\ status[j] = "fresh" THEN "closed"
                              ELSE status[j]]
  /\ UNCHANGED told

\* The channels of S close together; the dispatches of D are discarded.
Close(S, D) ==
  /\ D \subseteq S
  /\ \A id \in S : status[id] = "open"
  /\ status' = [j \in Ids |-> IF j \in S THEN "closed" ELSE status[j]]
  /\ told' = [j \in Ids |-> IF j \in D THEN told[j] + 1 ELSE told[j]]

LifecycleNext ==
  \/ \E id \in Ids, mode \in {"open", "closed"} : Take(id, mode)
  \/ \E S \in SUBSET Ids : \E D \in SUBSET S : Close(S, D)

LifecycleSpec == LifecycleInit /\ [][LifecycleNext]_lifecycleVars
=============================================================================
