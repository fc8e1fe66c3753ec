----------------------------- MODULE Continuum ------------------------------
(***************************************************************************)
(* The ring of a routing group: every value of the group has points on it  *)
(* in proportion to its weight, and a key belongs to the next point after  *)
(* its own.  The digest is external: any function to points.               *)
(***************************************************************************)
EXTENDS Integers, Sequences, FiniteSets, FiniteSetsExt, SequencesExt

CONSTANTS
  Values,         \* what a group may hold
  MaxWeight,      \* bound on weights
  Hashes,         \* hashes of a value with its full weight, 64 in the code
  MaxPoint,       \* the largest point
  Digest(_, _)    \* value and step -> its points

VARIABLE
  pick            \* a group, one of its values, and how equal points end up in order

Points == 0..MaxPoint
StoredGroups == UNION {[V -> 0..MaxWeight] : V \in SUBSET Values}

Weight(group) == FoldSet(LAMBDA v, sum : sum + group[v], 0, DOMAIN group)

\* The constructor throws for the others.
Valid(group) == DOMAIN group # {} /\ Weight(group) > 0

\* Mutant: the number of values is left out of the number of hashes.
StepsUnscaled(group, v) == (2 * group[v] * Hashes + Weight(group)) \div (2 * Weight(group))

\* Number of hashes of a value, rounded half up.
Steps(group, v) ==
  (2 * group[v] * Hashes * Cardinality(DOMAIN group) + Weight(group)) \div (2 * Weight(group))

Element(point, v) == [point |-> point, value |-> v]

\* In the order of the code: by value, then by step.
Unsorted(group) ==
  FlattenSeq([i \in 1..Cardinality(DOMAIN group) |->
    LET v == SetToSortSeq(DOMAIN group, <)[i]
    IN  FlattenSeq([s \in 1..Steps(group, v) |->
          [k \in DOMAIN Digest(v, s - 1) |-> Element(Digest(v, s - 1)[k], v)]])])

\* std::sort() looks at points only; equal ones are left in some order.
Elements(group, reverse) ==
  LET Before(a, b) == a.point < b.point
      s == Unsorted(group)
  IN  SortSeq(IF reverse THEN Reverse(s) ELSE s, Before)

UpperBound(ring, point) == SelectInSeq(ring, LAMBDA e : point < e.point)

\* get(): of a key's point, or of a random one.
Get(ring, point) == LET i == UpperBound(ring, point) IN IF i = 0 THEN ring[1] ELSE ring[i]

\* all(): what routers are told.
All(ring) == [i \in DOMAIN ring |-> <<ring[i].point, ring[i].value>>]

ContinuumInit ==
  \E group \in StoredGroups, reverse \in BOOLEAN :
    /\ Valid(group)
    /\ \E v \in DOMAIN group : pick = [group |-> group, value |-> v, reverse |-> reverse]

\* get() always finds a point, the next greater one or else the least, and a
\* router that walks along what it is told finds the same value.
NextPoint ==
  Valid(pick.group) =>
    \E ring \in {Elements(pick.group, pick.reverse)} : \E told \in {All(ring)} : \A p \in Points :
      LET on == {t[1] : t \in ToSet(told)}
          above == {q \in on : q > p}
          first == SelectInSeq(told, LAMBDA t : t[1] > p)
      IN  /\ ring # <<>> /\ Get(ring, p).point = IF above # {} THEN Min(above) ELSE Min(on)
          /\ Get(ring, p).value = told[IF first = 0 THEN 1 ELSE first][2]

OwnersOf(group, p) == {Get(Elements(group, r), p).value : r \in BOOLEAN}

\* A key belongs to the next point of the ring, for the locator and for the
\* routers alike, so that its keys stay with a value when another one leaves
\* a group of equal weights: only those of the value that left are spread.
KeysStay ==
  LET left == [v \in DOMAIN pick.group \ {pick.value} |-> pick.group[v]]
  IN  /\ NextPoint
      /\ (Valid(pick.group) /\ Valid(left) /\ \A v, w \in DOMAIN pick.group : pick.group[v] = pick.group[w]) =>
           \A p \in Points : pick.value \notin OwnersOf(pick.group, p) => OwnersOf(left, p) = OwnersOf(pick.group, p)
=============================================================================
