--------------------------- MODULE MessageStream ---------------------------
(***************************************************************************)
(* What a reply stream promises to a service and to its client: what the   *)
(* service was told is accepted reaches the client in that order, without  *)
(* holes and without repetitions, and nothing is accepted after a message  *)
(* that ends the stream.                                                   *)
(***************************************************************************)
EXTENDS Naturals, Sequences

CONSTANTS
  Streams,
  Ends(_)         \* does this message end its stream?

VARIABLES
  accepted,       \* messages of which the service was told "no error"
  delivered       \* messages handed to the connection

streamVars == <<accepted, delivered>>

StreamInit ==
  /\ accepted = [s \in Streams |-> <<>>]
  /\ delivered = [s \in Streams |-> <<>>]

Ended(s) == \E i \in DOMAIN accepted[s] : Ends(accepted[s][i])

Accept(s) ==
  /\ ~Ended(s)
  /\ Len(accepted'[s]) = Len(accepted[s]) + 1
  /\ SubSeq(accepted'[s], 1, Len(accepted[s])) = accepted[s]
  /\ \A r \in Streams \ {s} : accepted'[r] = accepted[r]

\* The oldest message that was not delivered yet.
Deliver(s) ==
  /\ Len(delivered[s]) < Len(accepted'[s])
  /\ delivered' = [delivered EXCEPT ![s] = Append(@, accepted'[s][Len(@) + 1])]

StreamNext ==
  \E s \in Streams :
    \/ Accept(s) /\ (UNCHANGED delivered \/ Deliver(s))
    \/ UNCHANGED accepted /\ Deliver(s)

StreamSpec == StreamInit /\ [][StreamNext]_streamVars
=============================================================================
