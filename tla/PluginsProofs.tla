--------------------------- MODULE PluginsProofs ----------------------------
(***************************************************************************)
(* Proofs about the repository of plugins, for any nodes, plugins and      *)
(* calls of initialize(): first that a finite set of paths can be sorted,  *)
(* by induction over its size; then that the code of whatever a node has   *)
(* is mapped, and that nodes with the same plugins have the same numbers.  *)
(***************************************************************************)
EXTENDS Plugins, FiniteSetTheorems, SequenceFacts, NumberFacts

-----------------------------------------------------------------------------
(* The order of plugins *)

\* A sequence of numbers that become larger.
Rising(s) == \A i, j \in DOMAIN s : i < j => s[i] < s[j]

\* A number below all of them goes in front.
LEMMA RisingFront ==
  ASSUME NEW n \in Nat, NEW S \in SUBSET Nat, NEW s \in [1..n -> S], Rising(s), NEW m \in Nat, \A x \in S : m < x,
         NEW t, t = [i \in 1..(n + 1) |-> IF i = 1 THEN m ELSE s[i - 1]]
  PROVE  t \in [1..(n + 1) -> S \cup {m}] /\ Rising(t)
<1>1. \A i \in 1..(n + 1) : i = 1 \/ i - 1 \in 1..n
  OBVIOUS
<1>2. ASSUME NEW i \in 1..(n + 1) PROVE (i = 1 => t[i] = m) /\ (i # 1 => i - 1 \in 1..n /\ t[i] = s[i - 1] /\ t[i] \in S)
  BY Zenon, <1>1
<1>3. ASSUME NEW i \in 1..(n + 1), NEW j \in 1..(n + 1), i < j PROVE t[i] < t[j]
  <2>1. j # 1 /\ t[j] = s[j - 1] /\ t[j] \in S /\ j - 1 \in 1..n
    BY <1>2, <1>3
  <2>2. CASE i = 1
    BY Zenon, <1>2, <2>1, <2>2
  <2>3. CASE i # 1
    <3>1. t[i] = s[i - 1] /\ i - 1 \in 1..n /\ i - 1 < j - 1
      BY <1>2, <1>3, <2>3
    <3>2. s[i - 1] < s[j - 1]
      BY Zenon, <2>1, <3>1 DEF Rising
    <3>3. QED
      BY Zenon, <2>1, <3>1, <3>2
  <2>4. QED
    BY Zenon, <2>2, <2>3
<1>4. t \in [1..(n + 1) -> S \cup {m}]
  BY Zenon, <1>2
<1>5. QED
  BY Zenon, <1>3, <1>4 DEF Rising

\* A finite set of numbers can be sorted.
LEMMA Sortable ==
  ASSUME NEW S \in SUBSET Nat, IsFiniteSet(S)
  PROVE  \E s \in [1..Cardinality(S) -> S] : Rising(s)
<1> DEFINE P(n) == \A T \in SUBSET Nat : IsFiniteSet(T) /\ Cardinality(T) = n => \E s \in [1..n -> T] : Rising(s)
           Met == {n \in Nat : P(n)}
<1>1. 0 \in Met
  <2>1. ASSUME NEW T \in SUBSET Nat PROVE \E s \in [1..0 -> T] : Rising(s)
    <3>1. PICK s : s = [i \in 1..0 |-> 0]
      BY Zenon
    <3>2. s \in [1..0 -> T] /\ Rising(s)
      BY <3>1 DEF Rising
    <3>3. QED
      BY Zenon, <3>2
  <2>2. QED
    BY Zenon, <2>1
<1>2. ASSUME NEW n \in Met PROVE n + 1 \in Met
  <2>1. n \in Nat /\ P(n)
    BY Zenon, <1>2
  <2>2. ASSUME NEW T \in SUBSET Nat, IsFiniteSet(T), Cardinality(T) = n + 1 PROVE \E s \in [1..(n + 1) -> T] : Rising(s)
    <3>1. T # {}
      BY <2>1, <2>2, FS_EmptySet
    <3>2. PICK m \in T : \A x \in T : m <= x
      BY Zenon, <3>1, Smallest
    <3>3. PICK U : U = T \ {m}
      BY Zenon
    <3>4. U \in SUBSET Nat /\ m \in Nat /\ (\A x \in U : m < x) /\ U \cup {m} = T
      BY <3>2, <3>3
    <3>5. IsFiniteSet(U) /\ Cardinality(U) = n
      <4>1. IsFiniteSet(T \ {m}) /\ Cardinality(T \ {m}) = Cardinality(T) - 1
        BY Zenon, <2>2, <3>2, FS_RemoveElement
      <4>2. (n + 1) - 1 = n
        BY <2>1
      <4>3. QED
        BY Zenon, <2>2, <3>3, <4>1, <4>2
    <3>6. PICK s \in [1..n -> U] : Rising(s)
      BY Zenon, <2>1, <3>4, <3>5
    <3>7. PICK t : t = [i \in 1..(n + 1) |-> IF i = 1 THEN m ELSE s[i - 1]]
      BY Zenon
    <3>8. t \in [1..(n + 1) -> U \cup {m}] /\ Rising(t)
      BY SMTT(30), <2>1, <3>4, <3>6, <3>7, RisingFront
    <3>9. QED
      BY Zenon, <3>4, <3>8
  <2>3. P(n + 1)
    BY Zenon, <2>2
  <2>4. QED
    BY <2>1, <2>3
<1>3. Met = Nat
  <2>1. Met \in SUBSET Nat
    BY Zenon
  <2> HIDE DEF Met
  <2>2. QED
    BY Zenon, <1>1, <1>2, <2>1, Induction
<1>4. Cardinality(S) \in Nat
  BY Zenon, FS_CardinalityType
<1>5. QED
  BY Zenon, <1>3, <1>4

\* The paths of a node are all its plugins, in their order.
LEMMA PathsSorted ==
  ASSUME NEW n \in Nodes, NEW s, s = SortedPaths(Installed[n])
  PROVE  s \in Seq(Installed[n]) /\ Rising(s) /\ \A p \in Installed[n] : \E i \in DOMAIN s : s[i] = p
<1>1. PICK S : S = Installed[n]
  BY Zenon
<1>2. IsFiniteSet(S) /\ S \in SUBSET Nat /\ Cardinality(S) \in Nat
  BY Zenon, <1>1, PluginsAssumption, FS_CardinalityType
<1>3. PICK r \in [1..Cardinality(S) -> S] : Rising(r)
  BY Zenon, <1>2, Sortable
<1>4. s \in [1..Cardinality(S) -> S] /\ Rising(s)
  BY Zenon, <1>1, <1>3 DEF SortedPaths, Rising
<1>7. s \in [1..Cardinality(S) -> S] /\ \A i, j \in 1..Cardinality(S) : i # j => s[i] # s[j]
  <2>1. \A i \in 1..Cardinality(S) : s[i] \in Nat
    BY Zenon, <1>2, <1>4
  <2>2. \A i, j \in 1..Cardinality(S) : i < j => s[i] < s[j]
    BY Zenon, <1>4 DEF Rising
  <2>3. QED
    BY <1>2, <1>4, <2>1, <2>2
<1>8. s \in Seq(S)
  BY <1>2, <1>7
<1>9. \A p \in S : \E i \in DOMAIN s : s[i] = p
  <2>1. s \in Injection(1..Cardinality(S), S)
    BY Zenon, <1>7 DEF Injection, IsInjective
  <2>2. IsFiniteSet(1..Cardinality(S)) /\ Cardinality(1..Cardinality(S)) = Cardinality(S)
    BY <1>2, FS_Interval
  <2>3. s \in Surjection(1..Cardinality(S), S)
    BY Zenon, <1>2, <2>1, <2>2, FS_Injection
  <2>4. QED
    BY Zenon, <1>7, <2>3 DEF Surjection
<1>10. QED
  BY Zenon, <1>1, <1>4, <1>8, <1>9

-----------------------------------------------------------------------------
(* One node *)

\* The plugins whose handles a node has, and the core.
Handles(pa, op, pl) == {Core} \cup Range(pl) \cup (IF op = -1 THEN {} ELSE {Head(pa)})

\* The code of what a node has is in memory; plugins are opened in the order
\* of their paths, so that none is opened twice.
Ordered(n, pa, pl) ==
  /\ pa \in Seq(Installed[n]) /\ Rising(pa) /\ pl \in Seq(Installed[n])
  /\ \A q \in Range(pl), p \in Range(pa) : q < p

\* What is mapped, and the owners of factories, of objects and of numbers.
Mapped(li, held, ca, ma, mp, md, fa) ==
  /\ li \in {"loading", "running", "released"} => held \subseteq mp
  /\ li \in {"unloading", "down"} => ca = <<>>
  /\ {ca[c] : c \in DOMAIN ca} \subseteq held \cup fa
  /\ md \subseteq held \cup fa /\ (li # "running" => md = {})
  /\ li \in {"loading", "running"} => fa = {} /\ {r.owner : r \in Range(ma)} \subseteq held

\* The numbers that a node has, and those it has come to claim.
Known(ma, id) == \E r \in Range(ma) : r.id = id

\* What a node knows of the numbers while it loads and afterwards.
Told(n, li, pa, op, pl, ma) ==
  /\ ma \in Seq(Range(ma)) /\ Known(ma, 1) /\ Known(ma, 255)
  /\ \A r \in Range(ma) : <<r.id, r.name>> \in Numbers(n)
  /\ li = "loading" =>
       /\ \A p \in Installed[n] : p \in Range(pa) \/ p \in Range(pl)
       /\ \A p \in Range(pl) : \A k \in DOMAIN Calls[p] : Claims(p, k) => Known(ma, Calls[p][k].id)
       /\ op # -1 => \A k \in 1..op : Claims(Head(pa), k) => Known(ma, Calls[Head(pa)][k].id)

\* A node, all told.
Sane(n, li, pa, op, pl, ca, ma, mp, md, fa) ==
  /\ li \in {"loading", "running", "released", "unloading", "down"} /\ Ordered(n, pa, pl)
  /\ op = -1 \/ (op \in Nat /\ pa # <<>> /\ li = "loading")
  /\ Mapped(li, Handles(pa, op, pl), ca, ma, mp, md, fa)
  /\ Told(n, li, pa, op, pl, ma)

\* The inductive invariant of repositories.
PluginsInv ==
  /\ life = [n \in Nodes |-> life[n]] /\ paths = [n \in Nodes |-> paths[n]] /\ opening = [n \in Nodes |-> opening[n]]
  /\ m_plugins = [n \in Nodes |-> m_plugins[n]] /\ m_categories = [n \in Nodes |-> m_categories[n]]
  /\ mapping = [n \in Nodes |-> mapping[n]] /\ mapped = [n \in Nodes |-> mapped[n]]
  /\ made = [n \in Nodes |-> made[n]] /\ failed = [n \in Nodes |-> failed[n]]
  /\ \A n \in Nodes : Sane(n, life[n], paths[n], opening[n], m_plugins[n], m_categories[n], mapping[n], mapped[n], made[n], failed[n])

\* One node moves.
NodeTakes(n, li, pa, op, pl, ca, ma, mp, md, fa) ==
  /\ life' = [life EXCEPT ![n] = li] /\ paths' = [paths EXCEPT ![n] = pa] /\ opening' = [opening EXCEPT ![n] = op]
  /\ m_plugins' = [m_plugins EXCEPT ![n] = pl] /\ m_categories' = [m_categories EXCEPT ![n] = ca]
  /\ mapping' = [mapping EXCEPT ![n] = ma] /\ mapped' = [mapped EXCEPT ![n] = mp]
  /\ made' = [made EXCEPT ![n] = md] /\ failed' = [failed EXCEPT ![n] = fa]

\* A node that moves to a sane state leaves the others as they are.
LEMMA NodeMoves ==
  ASSUME PluginsInv, NEW n \in Nodes, NEW li, NEW pa, NEW op, NEW pl, NEW ca, NEW ma, NEW mp, NEW md, NEW fa,
         NodeTakes(n, li, pa, op, pl, ca, ma, mp, md, fa), Sane(n, li, pa, op, pl, ca, ma, mp, md, fa)
  PROVE  PluginsInv'
<1>1. /\ life = [x \in Nodes |-> life[x]] /\ paths = [x \in Nodes |-> paths[x]] /\ opening = [x \in Nodes |-> opening[x]]
      /\ m_plugins = [x \in Nodes |-> m_plugins[x]] /\ m_categories = [x \in Nodes |-> m_categories[x]]
      /\ mapping = [x \in Nodes |-> mapping[x]] /\ mapped = [x \in Nodes |-> mapped[x]]
      /\ made = [x \in Nodes |-> made[x]] /\ failed = [x \in Nodes |-> failed[x]]
  BY Zenon DEF PluginsInv
<1>2. /\ life' = [x \in Nodes |-> life'[x]] /\ paths' = [x \in Nodes |-> paths'[x]] /\ opening' = [x \in Nodes |-> opening'[x]]
      /\ life'[n] = li /\ paths'[n] = pa /\ opening'[n] = op
      /\ \A x \in Nodes : x # n => life'[x] = life[x] /\ paths'[x] = paths[x] /\ opening'[x] = opening[x]
  BY Zenon, <1>1 DEF NodeTakes
<1>3. /\ m_plugins' = [x \in Nodes |-> m_plugins'[x]] /\ m_categories' = [x \in Nodes |-> m_categories'[x]]
      /\ mapping' = [x \in Nodes |-> mapping'[x]]
      /\ m_plugins'[n] = pl /\ m_categories'[n] = ca /\ mapping'[n] = ma
      /\ \A x \in Nodes : x # n => m_plugins'[x] = m_plugins[x] /\ m_categories'[x] = m_categories[x] /\ mapping'[x] = mapping[x]
  BY Zenon, <1>1 DEF NodeTakes
<1>4. /\ mapped' = [x \in Nodes |-> mapped'[x]] /\ made' = [x \in Nodes |-> made'[x]] /\ failed' = [x \in Nodes |-> failed'[x]]
      /\ mapped'[n] = mp /\ made'[n] = md /\ failed'[n] = fa
      /\ \A x \in Nodes : x # n => mapped'[x] = mapped[x] /\ made'[x] = made[x] /\ failed'[x] = failed[x]
  BY Zenon, <1>1 DEF NodeTakes
<1>5. ASSUME NEW x \in Nodes
      PROVE  Sane(x, life'[x], paths'[x], opening'[x], m_plugins'[x], m_categories'[x], mapping'[x], mapped'[x], made'[x], failed'[x])
  <2>1. CASE x = n
    BY Zenon, <1>2, <1>3, <1>4, <2>1
  <2>2. CASE x # n
    BY Zenon, <1>2, <1>3, <1>4, <2>2 DEF PluginsInv
  <2>3. QED
    BY Zenon, <2>1, <2>2
<1>6. QED
  BY Zenon, <1>2, <1>3, <1>4, <1>5 DEF PluginsInv

\* The first of the paths goes over to the plugins.
Advance(pa, pl, p, rest, all) == p = Head(pa) /\ rest = Tail(pa) /\ all = Append(pl, p)

\* It is the least of the paths, and keeps them apart from the plugins.
LEMMA FirstPath ==
  ASSUME NEW n \in Nodes, NEW pa, NEW pl, Ordered(n, pa, pl), pa # <<>>,
         NEW p, NEW rest, NEW all, Advance(pa, pl, p, rest, all)
  PROVE  /\ p \in Installed[n] /\ p \in Range(pa) /\ p \notin Range(pl) /\ p # Core /\ p \in Nat
         /\ Range(pa) = {p} \cup Range(rest) /\ Range(pl) \subseteq Installed[n]
         /\ \A q \in Range(pa) : ~(q < p)
         /\ Ordered(n, rest, all) /\ Range(all) = Range(pl) \cup {p}
<1>1. pa \in Seq(Installed[n]) /\ Rising(pa) /\ pl \in Seq(Installed[n]) /\ \A q \in Range(pl), x \in Range(pa) : q < x
  BY Zenon DEF Ordered
<1>2. Installed[n] \subseteq Nat \ {Core}
  BY Zenon, PluginsAssumption
<1>3. /\ p \in Installed[n] /\ p = pa[1] /\ 1 \in DOMAIN pa /\ rest \in Seq(Installed[n]) /\ DOMAIN rest = 1..Len(pa) - 1
      /\ \A i \in 1..Len(pa) - 1 : i + 1 \in DOMAIN pa /\ rest[i] = pa[i + 1]
  BY Zenon, <1>1, HeadTail DEF Advance
<1>4. Range(pa) = {p} \cup Range(rest) /\ Range(all) = Range(pl) \cup {p} /\ all \in Seq(Installed[n])
  BY <1>1, <1>3, RangeTail, RangeAppend, Appended DEF Advance
<1>5. Range(pa) \subseteq Nat /\ Range(pl) \subseteq Installed[n]
  BY SMTT(30), <1>1, <1>2 DEF Range
<1>6. ASSUME NEW q \in Range(rest) PROVE p < q
  <2>1. PICK i \in 1..Len(pa) - 1 : q = pa[i + 1] /\ i + 1 \in DOMAIN pa
    BY Zenon, <1>3, <1>6 DEF Range
  <2>2. 1 < i + 1
    BY <2>1
  <2>3. QED
    BY Zenon, <1>1, <1>3, <2>1, <2>2 DEF Rising
<1>7. Rising(rest)
  BY SMTT(30), <1>1, <1>3 DEF Rising
<1>8. ASSUME NEW q \in Range(pl) \cup {p}, NEW x \in Range(rest) PROVE q < x
  BY Zenon, <1>1, <1>4, <1>6, <1>8
<1>9. p \in Nat /\ p # Core /\ p \in Range(pa) /\ ~(p < p)
  <2>1. p \in Nat /\ p # Core /\ p \in Range(pa)
    BY Zenon, <1>2, <1>3, <1>4
  <2>2. QED
    BY <2>1
<1>10. ASSUME NEW q \in Range(pa) PROVE ~(q < p)
  <2>1. q \in Nat /\ (q = p \/ p < q)
    BY Zenon, <1>4, <1>5, <1>6, <1>10
  <2>2. QED
    BY <1>9, <2>1
<1>11. QED
  BY ZenonT(30), <1>1, <1>3, <1>4, <1>5, <1>7, <1>8, <1>9, <1>10 DEF Ordered

-----------------------------------------------------------------------------
(* The steps of one node *)

\* A plugin is unloaded: by an error before initialize() or in it.
LEMMA Unwound ==
  ASSUME NEW n \in Nodes, NEW pa, NEW op, NEW pl, NEW ca, NEW ma, NEW mp, NEW md, NEW fa,
         Sane(n, "loading", pa, op, pl, ca, ma, mp, md, fa), pa # <<>>, NEW fb, op = -1 => fb = fa, op # -1 => fb = {Head(pa)}
  PROVE  Sane(n, "released", pa, -1, pl, ca, ma, mp \ {Head(pa)}, md, fb)
<1>1. PICK p, rest, all, held : Advance(pa, pl, p, rest, all) /\ p = Head(pa) /\ held = {Core} \cup Range(pl)
  BY Zenon DEF Advance
<1>2. Ordered(n, pa, pl) /\ Mapped("loading", Handles(pa, op, pl), ca, ma, mp, md, fa) /\ Told(n, "loading", pa, op, pl, ma)
  BY Zenon DEF Sane
<1>3. p \notin held
  BY ZenonT(30), <1>1, <1>2, FirstPath
<1>4. Handles(pa, -1, pl) = held /\ (op = -1 => Handles(pa, op, pl) = held) /\ (op # -1 => Handles(pa, op, pl) = held \cup {p})
  BY Zenon, <1>1 DEF Handles
<1>5. Mapped("released", held, ca, ma, mp \ {p}, md, fb)
  <2>1. Handles(pa, op, pl) \subseteq mp /\ {ca[c] : c \in DOMAIN ca} \subseteq Handles(pa, op, pl) /\ md = {}
    BY Zenon, <1>2 DEF Mapped
  <2>2. held \subseteq mp \ {p} /\ {ca[c] : c \in DOMAIN ca} \subseteq held \cup fb
    BY Zenon, <1>1, <1>3, <1>4, <2>1
  <2>3. QED
    BY Zenon, <2>1, <2>2 DEF Mapped
<1>6. Told(n, "released", pa, -1, pl, ma)
  BY Zenon, <1>2 DEF Told
<1>7. QED
  BY Zenon, <1>1, <1>2, <1>4, <1>5, <1>6 DEF Sane

\* A plugin is mapped.
LEMMA Opened ==
  ASSUME NEW n \in Nodes, NEW pa, NEW pl, NEW ca, NEW ma, NEW mp, NEW md, NEW fa,
         Sane(n, "loading", pa, -1, pl, ca, ma, mp, md, fa), pa # <<>>
  PROVE  Sane(n, "loading", pa, 0, pl, ca, ma, mp \cup {Head(pa)}, md, fa)
<1>1. Ordered(n, pa, pl) /\ Mapped("loading", Handles(pa, -1, pl), ca, ma, mp, md, fa) /\ Told(n, "loading", pa, -1, pl, ma)
  BY Zenon DEF Sane
<1>2. 0 # -1 /\ 0 \in Nat /\ 1..0 = {}
  OBVIOUS
<1>3. Handles(pa, 0, pl) = Handles(pa, -1, pl) \cup {Head(pa)}
  BY Zenon, <1>2 DEF Handles
<1>4. Mapped("loading", Handles(pa, 0, pl), ca, ma, mp \cup {Head(pa)}, md, fa)
  <2>1. PICK held : held = Handles(pa, -1, pl)
    BY Zenon
  <2>2. Mapped("loading", held \cup {Head(pa)}, ca, ma, mp \cup {Head(pa)}, md, fa)
    BY Zenon, <1>1, <2>1 DEF Mapped
  <2>3. QED
    BY ZenonT(30), <1>3, <2>1, <2>2
<1>5. Told(n, "loading", pa, 0, pl, ma)
  BY Zenon, <1>1, <1>2 DEF Told
<1>6. QED
  BY Zenon, <1>1, <1>2, <1>4, <1>5 DEF Sane

\* The plugin is kept: its calls were all made.
LEMMA KeptOpen ==
  ASSUME NEW n \in Nodes, NEW pa, NEW op, NEW pl, NEW ca, NEW ma, NEW mp, NEW md, NEW fa,
         Sane(n, "loading", pa, op, pl, ca, ma, mp, md, fa), op # -1, op = Len(Calls[Head(pa)])
  PROVE  Sane(n, "loading", Tail(pa), -1, Append(pl, Head(pa)), ca, ma, mp, md, fa)
<1>1. PICK p, rest, all : Advance(pa, pl, p, rest, all)
  BY Zenon DEF Advance
<1>0. p = Head(pa) /\ rest = Tail(pa) /\ all = Append(pl, p)
  BY Zenon, <1>1 DEF Advance
<1>2. /\ Ordered(n, pa, pl) /\ Mapped("loading", Handles(pa, op, pl), ca, ma, mp, md, fa) /\ Told(n, "loading", pa, op, pl, ma)
      /\ pa # <<>>
  BY Zenon DEF Sane
<1>3. p \in Installed[n] /\ Ordered(n, rest, all) /\ Range(all) = Range(pl) \cup {p} /\ Range(pa) = {p} \cup Range(rest)
  BY <1>1, <1>2, FirstPath
<1>4. Handles(rest, -1, all) = Handles(pa, op, pl)
  <2>1. Handles(rest, -1, all) = {Core} \cup Range(all) \cup {} /\ Handles(pa, op, pl) = {Core} \cup Range(pl) \cup {p}
    BY Zenon, <1>0 DEF Handles
  <2>2. QED
    BY Zenon, <1>3, <2>1
<1>5. DOMAIN Calls[p] = 1..op
  <2>1. Calls[p] \in Seq(Range(Calls[p]))
    BY Zenon, <1>3, PluginsAssumption
  <2>2. QED
    BY <1>0, <2>1
<1>6. Told(n, "loading", rest, -1, all, ma)
  <2>1. \A q \in Installed[n] : q \in Range(rest) \/ q \in Range(all)
    BY Zenon, <1>2, <1>3 DEF Told
  <2>2. ASSUME NEW q \in Range(all), NEW k \in DOMAIN Calls[q], Claims(q, k) PROVE Known(ma, Calls[q][k].id)
    BY ZenonT(30), <1>0, <1>2, <1>3, <1>5, <2>2 DEF Told
  <2>3. QED
    BY Zenon, <1>2, <2>1, <2>2 DEF Told
<1>7. QED
  BY Zenon, <1>0, <1>2, <1>3, <1>4, <1>6 DEF Sane

\* The first of some records is one of them.
LEMMA FirstRecord ==
  ASSUME NEW ma, ma \in Seq(Range(ma)), NEW I, I \subseteq 1..Len(ma), I # {}
  PROVE  Min(I) \in I /\ ma[Min(I)] \in Range(ma)
<1>1. Len(ma) \in Nat /\ DOMAIN ma = 1..Len(ma)
  OBVIOUS
<1>2. I \in SUBSET Nat
  BY <1>1
<1>3. \E d \in I : \A e \in I : d <= e
  BY Zenon, <1>2, Smallest
<1>4. Min(I) \in I
  BY Zenon, <1>3 DEF Min
<1>5. QED
  BY Zenon, <1>1, <1>4 DEF Range

\* registrar::map(id) finds a record with the number, if there is one.
LEMMA IdMapped ==
  ASSUME NEW n \in Nodes, mapping[n] \in Seq(Range(mapping[n])), NEW id
  PROVE  \/ ~Known(mapping[n], id) /\ MapId(n, id) = UnknownCategory
         \/ \E r \in Range(mapping[n]) : r.id = id /\ MapId(n, id) = r.name
<1>1. PICK I : I = {i \in DOMAIN mapping[n] : mapping[n][i].id = id}
  BY Zenon
<1>2. MapId(n, id) = IF I = {} THEN UnknownCategory ELSE mapping[n][Min(I)].name
  BY Zenon, <1>1 DEF MapId
<1>3. DOMAIN mapping[n] = 1..Len(mapping[n])
  OBVIOUS
<1>4. CASE I = {}
  BY Zenon, <1>1, <1>2, <1>4 DEF Known, Range
<1>5. CASE I # {}
  <2>1. PICK i : i = Min(I) /\ i \in I /\ mapping[n][i] \in Range(mapping[n])
    BY ZenonT(30), <1>1, <1>3, <1>5, FirstRecord
  <2>2. QED
    BY ZenonT(30), <1>1, <1>2, <1>5, <2>1
<1>6. QED
  BY Zenon, <1>4, <1>5

\* registrar::map(ec) finds a record with the name, if there is one.
LEMMA CategoryMapped ==
  ASSUME NEW n \in Nodes, mapping[n] \in Seq(Range(mapping[n])), NEW c
  PROVE  \/ MapCategory(n, c) = 255
         \/ \E r \in Range(mapping[n]) : r.name = c /\ MapCategory(n, c) = r.id
<1>1. PICK I : I = {i \in DOMAIN mapping[n] : mapping[n][i].name = c}
  BY Zenon
<1>2. MapCategory(n, c) = IF I = {} THEN 255 ELSE mapping[n][Min(I)].id
  BY Zenon, <1>1 DEF MapCategory
<1>3. DOMAIN mapping[n] = 1..Len(mapping[n])
  OBVIOUS
<1>4. CASE I = {}
  BY Zenon, <1>2, <1>4
<1>5. CASE I # {}
  <2>1. PICK i : i = Min(I) /\ i \in I /\ mapping[n][i] \in Range(mapping[n])
    BY ZenonT(30), <1>1, <1>3, <1>5, FirstRecord
  <2>2. QED
    BY ZenonT(30), <1>1, <1>2, <1>5, <2>1
<1>6. QED
  BY Zenon, <1>4, <1>5

\* A code means the same to two nodes whose numbers agree.
LEMMA NumbersAgree ==
  ASSUME PluginsInv, NEW n \in Nodes, NEW m \in Nodes, NEW c
  PROVE  Unpacked(n, m, c) \in {c, UnknownCategory}
<1>1. /\ mapping[n] \in Seq(Range(mapping[n])) /\ \A r \in Range(mapping[n]) : <<r.id, r.name>> \in Numbers(n)
      /\ mapping[m] \in Seq(Range(mapping[m])) /\ \A r \in Range(mapping[m]) : <<r.id, r.name>> \in Numbers(m)
  BY ZenonT(30) DEF PluginsInv, Sane, Told
<1>2. \A x \in Numbers(n), y \in Numbers(m) : x[1] = y[1] => x[2] = y[2]
  BY Zenon, PluginsAssumption
<1>3. <<255, UnknownCategory>> \in Numbers(n)
  BY ZenonT(30) DEF Numbers, OwnNumbers
<1>4. \A i, a, b : <<i, a>> \in Numbers(n) /\ <<i, b>> \in Numbers(m) => a = b
  <2>1. ASSUME NEW i, NEW a, NEW b, <<i, a>> \in Numbers(n), <<i, b>> \in Numbers(m) PROVE a = b
    <3>1. PICK x, y : x = <<i, a>> /\ y = <<i, b>>
      BY Zenon
    <3>2. x[1] = y[1] /\ x[2] = a /\ y[2] = b
      BY Zenon, <3>1
    <3>3. QED
      BY Zenon, <1>2, <2>1, <3>1, <3>2
  <2>2. QED
    BY Zenon, <2>1
<1>5. ASSUME NEW id, NEW name, <<id, name>> \in Numbers(n) PROVE MapId(m, id) \in {name, UnknownCategory}
  <2>1. CASE MapId(m, id) = UnknownCategory
    BY Zenon, <2>1
  <2>2. ASSUME NEW r \in Range(mapping[m]), r.id = id, MapId(m, id) = r.name PROVE MapId(m, id) = name
    BY Zenon, <1>1, <1>4, <1>5, <2>2
  <2>3. QED
    BY ZenonT(30), <1>1, <2>1, <2>2, IdMapped
<1>6. CASE MapCategory(n, c) = 255
  BY ZenonT(30), <1>3, <1>5, <1>6 DEF Unpacked
<1>7. ASSUME NEW r \in Range(mapping[n]), r.name = c, MapCategory(n, c) = r.id PROVE Unpacked(n, m, c) \in {c, UnknownCategory}
  BY Zenon, <1>1, <1>5, <1>7 DEF Unpacked
<1>8. QED
  BY <1>1, <1>6, <1>7, CategoryMapped

\* One more call of initialize() is made.
LEMMA CallMade ==
  ASSUME NEW n \in Nodes, NEW pa, NEW op \in Nat, NEW pl, NEW ma, Told(n, "loading", pa, op, pl, ma), op # -1,
         NEW mb, mb \in Seq(Range(mb)), \A id : Known(ma, id) => Known(mb, id),
         \A r \in Range(mb) : <<r.id, r.name>> \in Numbers(n),
         Claims(Head(pa), op + 1) => Known(mb, Calls[Head(pa)][op + 1].id)
  PROVE  Told(n, "loading", pa, op + 1, pl, mb)
<1>1. \A k \in 1..(op + 1) : k \in 1..op \/ k = op + 1
  OBVIOUS
<1>2. \A k \in 1..(op + 1) : Claims(Head(pa), k) => Known(mb, Calls[Head(pa)][k].id)
  BY ZenonT(30), <1>1 DEF Told
<1>3. QED
  BY ZenonT(30), <1>2 DEF Told

\* A factory is inserted.
LEMMA Inserted ==
  ASSUME NEW n \in Nodes, NEW pa, NEW op \in Nat, NEW pl, NEW ca, NEW ma, NEW mp, NEW md, NEW fa, op # -1,
         Sane(n, "loading", pa, op, pl, ca, ma, mp, md, fa), Calls[Head(pa)][op + 1].kind = "component", NEW name
  PROVE  Sane(n, "loading", pa, op + 1, pl, InsertFactory(ca, name, Head(pa)), ma, mp, md, fa)
<1>1. /\ Ordered(n, pa, pl) /\ Mapped("loading", Handles(pa, op, pl), ca, ma, mp, md, fa) /\ Told(n, "loading", pa, op, pl, ma)
      /\ pa # <<>>
  BY Zenon DEF Sane
<1>2. op + 1 \in Nat /\ op + 1 # -1
  OBVIOUS
<1>3. Handles(pa, op + 1, pl) = Handles(pa, op, pl) /\ Head(pa) \in Handles(pa, op, pl)
  BY Zenon, <1>2 DEF Handles
<1>4. ~Claims(Head(pa), op + 1)
  BY Zenon DEF Claims
<1>5. Told(n, "loading", pa, op + 1, pl, ma)
  <2>1. ma \in Seq(Range(ma)) /\ \A r \in Range(ma) : <<r.id, r.name>> \in Numbers(n)
    BY Zenon, <1>1 DEF Told
  <2>2. QED
    BY ZenonT(30), <1>1, <1>4, <2>1, CallMade
<1>6. PICK cb : cb = InsertFactory(ca, name, Head(pa))
  BY Zenon
<1>7. {cb[c] : c \in DOMAIN cb} \subseteq {ca[c] : c \in DOMAIN ca} \cup {Head(pa)}
  BY Zenon, <1>6 DEF InsertFactory
<1>8. Mapped("loading", Handles(pa, op, pl), cb, ma, mp, md, fa)
  BY ZenonT(30), <1>1, <1>3, <1>7 DEF Mapped
<1>9. QED
  BY ZenonT(30), <1>1, <1>2, <1>3, <1>5, <1>6, <1>8 DEF Sane

\* A category is registered: its number is claimed for the first time.
LEMMA FirstIsNew ==
  ASSUME NEW n \in Nodes, NEW pa, NEW op \in Nat, NEW pl, NEW ma, op # -1, pa # <<>>, Ordered(n, pa, pl),
         Told(n, "loading", pa, op, pl, ma), Claims(Head(pa), op + 1), ~Known(ma, Calls[Head(pa)][op + 1].id)
  PROVE  <<Calls[Head(pa)][op + 1].id, Calls[Head(pa)][op + 1].name>> \in Numbers(n)
<1>1. PICK p, rest, all, k, id : Advance(pa, pl, p, rest, all) /\ p = Head(pa) /\ k = op + 1 /\ id = Calls[p][k].id
  BY Zenon DEF Advance
<1>2. p \in Installed[n] /\ p \in Nat /\ (\A q \in Range(pa) : ~(q < p)) /\ Range(pl) \subseteq Installed[n]
  BY ZenonT(30), <1>1, FirstPath
<1>3. id # 1 /\ id # 255
  BY Zenon, <1>1 DEF Told
<1>4. ASSUME NEW q \in Installed[n], NEW l \in DOMAIN Calls[q], Claims(q, l), Before(q, l, p, k) PROVE Calls[q][l].id # id
  <2>1. CASE q < p
    <3>1. q \in Range(pl)
      BY Zenon, <1>2, <2>1 DEF Told
    <3>2. Known(ma, Calls[q][l].id)
      BY ZenonT(30), <1>4, <3>1 DEF Told
    <3>3. QED
      BY Zenon, <1>1, <3>2
  <2>2. CASE q = p /\ l < k
    <3>1. Calls[q] \in Seq(Range(Calls[q]))
      BY ZenonT(30), PluginsAssumption
    <3>2. l \in 1..op
      BY SMTT(30), <1>1, <1>4, <2>2, <3>1
    <3>3. Known(ma, Calls[q][l].id)
      BY ZenonT(30), <1>1, <1>4, <2>2, <3>2 DEF Told
    <3>4. QED
      BY Zenon, <1>1, <3>3
  <2>3. QED
    BY Zenon, <1>4, <2>1, <2>2 DEF Before
<1>5. FirstClaim(n, p, k) /\ k \in DOMAIN Calls[p]
  BY ZenonT(30), <1>1, <1>2, <1>3, <1>4 DEF FirstClaim, Claims
<1>6. PICK x : x = <<p, k>>
  BY Zenon
<1>7. x[1] = p /\ x[2] = k /\ x \in Installed[n] \X UNION {DOMAIN Calls[q] : q \in Installed[n]}
  BY Zenon, <1>2, <1>5, <1>6
<1>8. QED
  BY ZenonT(30), <1>1, <1>5, <1>7 DEF Numbers

\* A number is added to the mapping: the first claim to it.
LEMMA Added ==
  ASSUME NEW n \in Nodes, NEW pa, NEW op \in Nat, NEW pl, NEW ca, NEW mp, NEW md, NEW fa, op # -1,
         Sane(n, "loading", pa, op, pl, ca, mapping[n], mp, md, fa), Claims(Head(pa), op + 1),
         NEW name, NEW id, name = Calls[Head(pa)][op + 1].name, id = Calls[Head(pa)][op + 1].id
  PROVE  Sane(n, "loading", pa, op + 1, pl, ca, Add(n, name, id, Head(pa)), mp, md, fa)
<1>1. PICK ma, mb, rec : ma = mapping[n] /\ mb = Add(n, name, id, Head(pa)) /\ rec = CategoryRecord(id, name, Head(pa))
  BY Zenon
<1>2. /\ Ordered(n, pa, pl) /\ Mapped("loading", Handles(pa, op, pl), ca, ma, mp, md, fa) /\ Told(n, "loading", pa, op, pl, ma)
      /\ pa # <<>> /\ ma \in Seq(Range(ma))
  BY ZenonT(30), <1>1 DEF Sane, Told
<1>3. op + 1 \in Nat /\ op + 1 # -1
  OBVIOUS
<1>4. Handles(pa, op + 1, pl) = Handles(pa, op, pl) /\ Head(pa) \in Handles(pa, op, pl)
  BY ZenonT(30), <1>3 DEF Handles
<1>5. rec.id = id /\ rec.name = name /\ rec.owner = Head(pa)
  BY Zenon, <1>1 DEF CategoryRecord
<1>6. CASE Known(ma, id)
  <2>1. mb = ma
    BY ZenonT(30), <1>1, <1>6 DEF Add, Known
  <2>2. Told(n, "loading", pa, op + 1, pl, ma)
    <3>1. \A r \in Range(ma) : <<r.id, r.name>> \in Numbers(n)
      BY Zenon, <1>2 DEF Told
    <3>2. Claims(Head(pa), op + 1) => Known(ma, Calls[Head(pa)][op + 1].id)
      BY Zenon, <1>6
    <3>3. QED
      BY ZenonT(30), <1>2, <3>1, <3>2, CallMade
  <2>3. QED
    BY ZenonT(30), <1>1, <1>2, <1>3, <1>4, <2>1, <2>2 DEF Sane
<1>7. CASE ~Known(ma, id)
  <2>1. mb = Append(ma, rec)
    BY ZenonT(30), <1>1, <1>7 DEF Add, Known
  <2>2. Range(mb) = Range(ma) \cup {rec} /\ mb \in Seq(Range(mb))
    <3>1. PICK S : S = Range(ma) \cup {rec}
      BY Zenon
    <3>2. ma \in Seq(S) /\ rec \in S
      BY SMTT(30), <1>2, <3>1
    <3>3. mb \in Seq(S) /\ Range(mb) = Range(ma) \cup {rec}
      BY SMTT(30), <2>1, <3>2, RangeAppend, Appended
    <3>4. QED
      BY ZenonT(30), <3>1, <3>3
  <2>3. <<id, name>> \in Numbers(n)
    BY ZenonT(30), <1>1, <1>2, <1>7, FirstIsNew
  <2>4. Told(n, "loading", pa, op + 1, pl, mb)
    <3>1. (\A x : Known(ma, x) => Known(mb, x)) /\ Known(mb, id)
      BY ZenonT(30), <1>5, <2>2 DEF Known
    <3>2. \A r \in Range(mb) : <<r.id, r.name>> \in Numbers(n)
      BY ZenonT(30), <1>2, <1>5, <2>2, <2>3 DEF Told
    <3>3. QED
      BY ZenonT(30), <1>2, <2>2, <3>1, <3>2, CallMade
  <2>5. Mapped("loading", Handles(pa, op, pl), ca, mb, mp, md, fa)
    <3>1. {r.owner : r \in Range(mb)} \subseteq Handles(pa, op, pl)
      BY ZenonT(30), <1>2, <1>4, <1>5, <2>2 DEF Mapped
    <3>2. QED
      BY ZenonT(30), <1>2, <3>1 DEF Mapped
  <2>6. QED
    BY ZenonT(30), <1>1, <1>2, <1>3, <1>4, <2>4, <2>5 DEF Sane
<1>8. QED
  BY Zenon, <1>6, <1>7

\* All plugins are loaded.
LEMMA AllLoaded ==
  ASSUME NEW n \in Nodes, NEW pa, NEW pl, NEW ca, NEW ma, NEW mp, NEW md, NEW fa,
         Sane(n, "loading", pa, -1, pl, ca, ma, mp, md, fa)
  PROVE  Sane(n, "running", pa, -1, pl, ca, ma, mp, md, fa)
<1>1. Ordered(n, pa, pl) /\ Mapped("loading", Handles(pa, -1, pl), ca, ma, mp, md, fa) /\ Told(n, "loading", pa, -1, pl, ma)
  BY Zenon DEF Sane
<1>2. Mapped("running", Handles(pa, -1, pl), ca, ma, mp, md, fa) /\ Told(n, "running", pa, -1, pl, ma)
  BY Zenon, <1>1 DEF Mapped, Told
<1>3. QED
  BY Zenon, <1>1, <1>2 DEF Sane

\* A component is made by one of the factories.
LEMMA MadeByFactory ==
  ASSUME NEW n \in Nodes, NEW pa, NEW op, NEW pl, NEW ca, NEW ma, NEW mp, NEW md, NEW fa,
         Sane(n, "running", pa, op, pl, ca, ma, mp, md, fa), NEW c \in DOMAIN ca
  PROVE  Sane(n, "running", pa, op, pl, ca, ma, mp, md \cup {ca[c]}, fa)
<1>1. Ordered(n, pa, pl) /\ Mapped("running", Handles(pa, op, pl), ca, ma, mp, md, fa) /\ Told(n, "running", pa, op, pl, ma) /\ op = -1
  BY Zenon DEF Sane
<1>2. Mapped("running", Handles(pa, op, pl), ca, ma, mp, md \cup {ca[c]}, fa)
  BY Zenon, <1>1 DEF Mapped
<1>3. QED
  BY ZenonT(30), <1>1, <1>2 DEF Sane

\* The services are gone.
LEMMA Terminated ==
  ASSUME NEW n \in Nodes, NEW pa, NEW op, NEW pl, NEW ca, NEW ma, NEW mp, NEW md, NEW fa,
         Sane(n, "running", pa, op, pl, ca, ma, mp, md, fa)
  PROVE  Sane(n, "released", pa, op, pl, ca, ma, mp, {}, fa)
<1>1. Ordered(n, pa, pl) /\ Mapped("running", Handles(pa, op, pl), ca, ma, mp, md, fa) /\ Told(n, "running", pa, op, pl, ma) /\ op = -1
  BY Zenon DEF Sane
<1>2. Mapped("released", Handles(pa, op, pl), ca, ma, mp, {}, fa) /\ Told(n, "released", pa, op, pl, ma)
  BY Zenon, <1>1 DEF Mapped, Told
<1>3. QED
  BY ZenonT(30), <1>1, <1>2 DEF Sane

\* The factories are destroyed.
LEMMA FactoriesGone ==
  ASSUME NEW n \in Nodes, NEW pa, NEW op, NEW pl, NEW ca, NEW ma, NEW mp, NEW md, NEW fa,
         Sane(n, "released", pa, op, pl, ca, ma, mp, md, fa)
  PROVE  Sane(n, "unloading", pa, op, pl, <<>>, ma, mp, md, fa)
<1>1. Ordered(n, pa, pl) /\ Mapped("released", Handles(pa, op, pl), ca, ma, mp, md, fa) /\ Told(n, "released", pa, op, pl, ma) /\ op = -1
  BY Zenon DEF Sane
<1>2. {<<>>[c] : c \in DOMAIN <<>>} = {}
  OBVIOUS
<1>3. Mapped("unloading", Handles(pa, op, pl), <<>>, ma, mp, md, fa) /\ Told(n, "unloading", pa, op, pl, ma)
  BY ZenonT(30), <1>1, <1>2 DEF Mapped, Told
<1>4. QED
  BY Zenon, <1>1, <1>3 DEF Sane

\* A handle is closed, or there is none left: nothing needs the code.
LEMMA HandlesGone ==
  ASSUME NEW n \in Nodes, NEW pa, NEW op, NEW pl, NEW ca, NEW ma, NEW mp, NEW md, NEW fa,
         Sane(n, "unloading", pa, op, pl, ca, ma, mp, md, fa),
         NEW li \in {"unloading", "down"}, NEW pb, NEW mq, pb = pl \/ (pl # <<>> /\ pb = Tail(pl))
  PROVE  Sane(n, li, pa, op, pb, ca, ma, mq, md, fa)
<1>1. Ordered(n, pa, pl) /\ Mapped("unloading", Handles(pa, op, pl), ca, ma, mp, md, fa) /\ Told(n, "unloading", pa, op, pl, ma) /\ op = -1
  BY Zenon DEF Sane
<1>2. ca = <<>> /\ md = {} /\ {ca[c] : c \in DOMAIN ca} = {}
  <2>1. ca = <<>> /\ md = {}
    BY Zenon, <1>1 DEF Mapped
  <2>2. QED
    BY <2>1
<1>3. Mapped(li, Handles(pa, op, pb), ca, ma, mq, md, fa)
  BY ZenonT(30), <1>1, <1>2 DEF Mapped
<1>4. Told(n, li, pa, op, pb, ma)
  BY Zenon, <1>1 DEF Told
<1>5. Ordered(n, pa, pb)
  <2>1. pb \in Seq(Installed[n]) /\ Range(pb) \subseteq Range(pl)
    <3>1. pl \in Seq(Installed[n])
      BY Zenon, <1>1 DEF Ordered
    <3>2. CASE pl # <<>> /\ pb = Tail(pl)
      BY SMTT(30), <3>1, <3>2, RangeTail
    <3>3. QED
      BY Zenon, <3>1, <3>2
  <2>2. QED
    BY Zenon, <1>1, <2>1 DEF Ordered
<1>6. QED
  BY ZenonT(30), <1>1, <1>3, <1>4, <1>5 DEF Sane

-----------------------------------------------------------------------------
(* The actions *)

\* What a node has, and what a step that leaves it alone writes.
LEMMA NodeHas ==
  ASSUME PluginsInv, NEW n \in Nodes
  PROVE  /\ life = [life EXCEPT ![n] = life[n]] /\ paths = [paths EXCEPT ![n] = paths[n]]
         /\ opening = [opening EXCEPT ![n] = opening[n]] /\ m_plugins = [m_plugins EXCEPT ![n] = m_plugins[n]]
         /\ m_categories = [m_categories EXCEPT ![n] = m_categories[n]] /\ mapping = [mapping EXCEPT ![n] = mapping[n]]
         /\ mapped = [mapped EXCEPT ![n] = mapped[n]] /\ made = [made EXCEPT ![n] = made[n]]
         /\ failed = [failed EXCEPT ![n] = failed[n]]
         /\ Sane(n, life[n], paths[n], opening[n], m_plugins[n], m_categories[n], mapping[n], mapped[n], made[n], failed[n])
         /\ opening[n] >= 0 => opening[n] \in Nat /\ opening[n] # -1 /\ paths[n] # <<>> /\ life[n] = "loading"
<1>1. Sane(n, life[n], paths[n], opening[n], m_plugins[n], m_categories[n], mapping[n], mapped[n], made[n], failed[n])
  BY Zenon DEF PluginsInv
<1>2. \A f : f = [x \in Nodes |-> f[x]] => f = [f EXCEPT ![n] = f[n]]
  BY Zenon
<1>3. opening[n] = -1 \/ (opening[n] \in Nat /\ paths[n] # <<>> /\ life[n] = "loading")
  BY Zenon, <1>1 DEF Sane
<1>4. opening[n] >= 0 => opening[n] \in Nat /\ opening[n] # -1 /\ paths[n] # <<>> /\ life[n] = "loading"
  BY <1>3
<1>5. /\ life = [life EXCEPT ![n] = life[n]] /\ paths = [paths EXCEPT ![n] = paths[n]]
      /\ opening = [opening EXCEPT ![n] = opening[n]] /\ m_plugins = [m_plugins EXCEPT ![n] = m_plugins[n]]
      /\ m_categories = [m_categories EXCEPT ![n] = m_categories[n]] /\ mapping = [mapping EXCEPT ![n] = mapping[n]]
      /\ mapped = [mapped EXCEPT ![n] = mapped[n]] /\ made = [made EXCEPT ![n] = made[n]]
      /\ failed = [failed EXCEPT ![n] = failed[n]]
  BY Zenon, <1>2 DEF PluginsInv
<1>6. QED
  BY ZenonT(30), <1>1, <1>4, <1>5

\* The stack is unwound, with or without a plugin that failed.
LEMMA UnwindKeeps ==
  ASSUME PluginsInv, NEW n \in Nodes, life[n] = "loading", paths[n] # <<>>, Unwind(n, Head(paths[n])),
         UNCHANGED <<m_categories, mapping>>, NEW fb, failed' = [failed EXCEPT ![n] = fb],
         opening[n] = -1 => fb = failed[n], opening[n] # -1 => fb = {Head(paths[n])}
  PROVE  PluginsInv'
<1>1. Sane(n, "released", paths[n], -1, m_plugins[n], m_categories[n], mapping[n], mapped[n] \ {Head(paths[n])}, made[n], fb)
  <2>1. Sane(n, "loading", paths[n], opening[n], m_plugins[n], m_categories[n], mapping[n], mapped[n], made[n], failed[n])
    BY Zenon, NodeHas
  <2>2. QED
    BY ZenonT(30), <2>1, Unwound
<1>2. NodeTakes(n, "released", paths[n], -1, m_plugins[n], m_categories[n], mapping[n], mapped[n] \ {Head(paths[n])}, made[n], fb)
  BY Zenon, NodeHas DEF Unwind, NodeTakes
<1>3. QED
  BY ZenonT(30), <1>1, <1>2, NodeMoves

\* open(): the library is mapped, or the constructor fails.
LEMMA OpenKeeps ==
  ASSUME PluginsInv, NEW n \in Nodes, Open(n)
  PROVE  PluginsInv'
<1>1. life[n] = "loading" /\ opening[n] = -1 /\ paths[n] # <<>> /\ UNCHANGED <<m_categories, mapping, failed>>
  BY Zenon DEF Open
<1>2. CASE Unwind(n, Head(paths[n]))
  <2>1. failed' = [failed EXCEPT ![n] = failed[n]]
    BY Zenon, <1>1, NodeHas
  <2>2. QED
    BY ZenonT(30), <1>1, <1>2, <2>1, UnwindKeeps
<1>3. CASE /\ opening' = [opening EXCEPT ![n] = 0] /\ mapped' = [mapped EXCEPT ![n] = @ \cup {Head(paths[n])}]
           /\ UNCHANGED <<life, paths, m_plugins, made>>
  <2>1. Sane(n, "loading", paths[n], 0, m_plugins[n], m_categories[n], mapping[n], mapped[n] \cup {Head(paths[n])}, made[n], failed[n])
    <3>1. Sane(n, "loading", paths[n], -1, m_plugins[n], m_categories[n], mapping[n], mapped[n], made[n], failed[n])
      BY Zenon, <1>1, NodeHas
    <3>2. QED
      BY ZenonT(30), <1>1, <3>1, Opened
  <2>2. NodeTakes(n, "loading", paths[n], 0, m_plugins[n], m_categories[n], mapping[n], mapped[n] \cup {Head(paths[n])}, made[n], failed[n])
    BY ZenonT(30), <1>1, <1>3, NodeHas DEF NodeTakes
  <2>3. QED
    BY ZenonT(30), <2>1, <2>2, NodeMoves
<1>4. QED
  BY ZenonT(30), <1>2, <1>3 DEF Open

\* A call that does not throw, of a component or of a category.
LEMMA CallKeeps ==
  ASSUME PluginsInv, NEW n \in Nodes, opening[n] >= 0, opening[n] < Len(Calls[Head(paths[n])]),
         NEW s, s = Calls[Head(paths[n])][opening[n] + 1], ~Throws(n, s),
         opening' = [opening EXCEPT ![n] = @ + 1],
         m_categories' = IF s.kind = "component" THEN [m_categories EXCEPT ![n] = InsertFactory(@, s.name, Head(paths[n]))] ELSE m_categories,
         mapping' = IF s.kind = "category" THEN [mapping EXCEPT ![n] = Add(n, s.name, s.id, Head(paths[n]))] ELSE mapping,
         UNCHANGED <<life, paths, m_plugins, mapped, made, failed>>
  PROVE  PluginsInv'
<1>1. /\ Sane(n, "loading", paths[n], opening[n], m_plugins[n], m_categories[n], mapping[n], mapped[n], made[n], failed[n])
      /\ opening[n] \in Nat /\ opening[n] # -1 /\ paths[n] # <<>> /\ life[n] = "loading"
  BY ZenonT(30), NodeHas
<1>2. Head(paths[n]) \in Installed[n]
  <2>1. paths[n] \in Seq(Installed[n])
    BY ZenonT(30), <1>1 DEF Sane, Ordered
  <2>2. QED
    BY <1>1, <2>1
<1>3. opening[n] + 1 \in DOMAIN Calls[Head(paths[n])]
  <2>1. Calls[Head(paths[n])] \in Seq(Range(Calls[Head(paths[n])]))
    BY ZenonT(30), <1>2, PluginsAssumption
  <2>2. QED
    BY <1>1, <2>1
<1>4. s.kind \in {"component", "category", "throw"}
  BY ZenonT(30), <1>2, <1>3, PluginsAssumption
<1>5. s.kind # "throw"
  BY Zenon DEF Throws
<1>6. CASE s.kind = "component"
  <2>1. s.kind # "category"
    BY Zenon, <1>6
  <2>2. Sane(n, "loading", paths[n], opening[n] + 1, m_plugins[n], InsertFactory(m_categories[n], s.name, Head(paths[n])), mapping[n],
             mapped[n], made[n], failed[n])
    BY ZenonT(30), <1>1, <1>6, Inserted
  <2>3. NodeTakes(n, "loading", paths[n], opening[n] + 1, m_plugins[n], InsertFactory(m_categories[n], s.name, Head(paths[n])), mapping[n],
                  mapped[n], made[n], failed[n])
    BY ZenonT(30), <1>1, <1>6, <2>1, NodeHas DEF NodeTakes
  <2>4. QED
    BY ZenonT(30), <2>2, <2>3, NodeMoves
<1>7. CASE s.kind = "category"
  <2>1. s.kind # "component"
    BY Zenon, <1>7
  <2>2. Claims(Head(paths[n]), opening[n] + 1)
    BY ZenonT(30), <1>3, <1>7 DEF Claims
  <2>3. Sane(n, "loading", paths[n], opening[n] + 1, m_plugins[n], m_categories[n], Add(n, s.name, s.id, Head(paths[n])),
             mapped[n], made[n], failed[n])
    BY ZenonT(30), <1>1, <2>2, Added
  <2>4. NodeTakes(n, "loading", paths[n], opening[n] + 1, m_plugins[n], m_categories[n], Add(n, s.name, s.id, Head(paths[n])),
                  mapped[n], made[n], failed[n])
    BY ZenonT(30), <1>1, <1>7, <2>1, NodeHas DEF NodeTakes
  <2>5. QED
    BY ZenonT(30), <2>3, <2>4, NodeMoves
<1>8. QED
  BY ZenonT(30), <1>4, <1>5, <1>6, <1>7

\* A call of initialize().
LEMMA InitializeKeeps ==
  ASSUME PluginsInv, NEW n \in Nodes, Initialize(n)
  PROVE  PluginsInv'
<1>1. opening[n] >= 0 /\ opening[n] < Len(Calls[Head(paths[n])])
  BY Zenon DEF Initialize
<1>2. PICK s : s = Calls[Head(paths[n])][opening[n] + 1]
  BY Zenon
<1>3. CASE Throws(n, s)
  <2>1. Unwind(n, Head(paths[n])) /\ failed' = [failed EXCEPT ![n] = {Head(paths[n])}] /\ UNCHANGED <<m_categories, mapping>>
    BY ZenonT(30), <1>2, <1>3 DEF Initialize
  <2>2. opening[n] # -1 /\ paths[n] # <<>> /\ life[n] = "loading"
    BY ZenonT(30), <1>1, NodeHas
  <2>3. QED
    BY ZenonT(30), <2>1, <2>2, UnwindKeeps
<1>4. CASE ~Throws(n, s)
  <2>1. /\ opening' = [opening EXCEPT ![n] = @ + 1]
        /\ m_categories' = IF s.kind = "component" THEN [m_categories EXCEPT ![n] = InsertFactory(@, s.name, Head(paths[n]))] ELSE m_categories
        /\ mapping' = IF s.kind = "category" THEN [mapping EXCEPT ![n] = Add(n, s.name, s.id, Head(paths[n]))] ELSE mapping
        /\ UNCHANGED <<life, paths, m_plugins, mapped, made, failed>>
    BY ZenonT(30), <1>2, <1>4 DEF Initialize
  <2>2. QED
    BY ZenonT(30), <1>1, <1>2, <1>4, <2>1, CallKeeps
<1>5. QED
  BY ZenonT(30), <1>3, <1>4

\* The handle is kept.
LEMMA KeepKeeps ==
  ASSUME PluginsInv, NEW n \in Nodes, Keep(n)
  PROVE  PluginsInv'
<1>1. PICK pb, pl : pb = Tail(paths[n]) /\ pl = Append(m_plugins[n], Head(paths[n]))
  BY Zenon
<1>2. /\ Sane(n, "loading", paths[n], opening[n], m_plugins[n], m_categories[n], mapping[n], mapped[n], made[n], failed[n])
      /\ opening[n] # -1 /\ opening[n] = Len(Calls[Head(paths[n])]) /\ life[n] = "loading"
  BY ZenonT(30), NodeHas DEF Keep
<1>3. Sane(n, "loading", pb, -1, pl, m_categories[n], mapping[n], mapped[n], made[n], failed[n])
  BY ZenonT(30), <1>1, <1>2, KeptOpen
<1>4. NodeTakes(n, "loading", pb, -1, pl, m_categories[n], mapping[n], mapped[n], made[n], failed[n])
  <2>1. paths' = [paths EXCEPT ![n] = pb] /\ m_plugins' = [m_plugins EXCEPT ![n] = pl]
    BY Zenon, <1>1 DEF Keep
  <2>2. QED
    BY ZenonT(30), <1>2, <2>1, NodeHas DEF Keep, NodeTakes
<1>5. QED
  BY ZenonT(30), <1>3, <1>4, NodeMoves

\* The context runs, creates objects and is destroyed.
LEMMA RunKeeps ==
  ASSUME PluginsInv, NEW n \in Nodes, Loaded(n) \/ DestroyContext(n) \/ \E c \in DOMAIN m_categories[n] : Create(n, c)
  PROVE  PluginsInv'
<1>1. CASE Loaded(n)
  <2>1. Sane(n, "running", paths[n], -1, m_plugins[n], m_categories[n], mapping[n], mapped[n], made[n], failed[n])
    <3>1. Sane(n, "loading", paths[n], -1, m_plugins[n], m_categories[n], mapping[n], mapped[n], made[n], failed[n])
      BY ZenonT(30), <1>1, NodeHas DEF Loaded
    <3>2. QED
      BY ZenonT(30), <3>1, AllLoaded
  <2>2. NodeTakes(n, "running", paths[n], -1, m_plugins[n], m_categories[n], mapping[n], mapped[n], made[n], failed[n])
    BY ZenonT(30), <1>1, NodeHas DEF Loaded, NodeTakes
  <2>3. QED
    BY ZenonT(30), <2>1, <2>2, NodeMoves
<1>2. CASE DestroyContext(n)
  <2>1. Sane(n, "released", paths[n], opening[n], m_plugins[n], m_categories[n], mapping[n], mapped[n], {}, failed[n])
    <3>1. Sane(n, "running", paths[n], opening[n], m_plugins[n], m_categories[n], mapping[n], mapped[n], made[n], failed[n])
      BY ZenonT(30), <1>2, NodeHas DEF DestroyContext
    <3>2. QED
      BY ZenonT(30), <1>2, <3>1, Terminated
  <2>2. NodeTakes(n, "released", paths[n], opening[n], m_plugins[n], m_categories[n], mapping[n], mapped[n], {}, failed[n])
    BY ZenonT(30), <1>2, NodeHas DEF DestroyContext, NodeTakes
  <2>3. QED
    BY ZenonT(30), <2>1, <2>2, NodeMoves
<1>3. ASSUME NEW c \in DOMAIN m_categories[n], Create(n, c) PROVE PluginsInv'
  <2>1. Sane(n, "running", paths[n], opening[n], m_plugins[n], m_categories[n], mapping[n], mapped[n],
             made[n] \cup {m_categories[n][c]}, failed[n])
    <3>1. Sane(n, "running", paths[n], opening[n], m_plugins[n], m_categories[n], mapping[n], mapped[n], made[n], failed[n])
      BY ZenonT(30), <1>3, NodeHas DEF Create
    <3>2. QED
      BY ZenonT(30), <1>3, <3>1, MadeByFactory
  <2>2. NodeTakes(n, "running", paths[n], opening[n], m_plugins[n], m_categories[n], mapping[n], mapped[n],
                  made[n] \cup {m_categories[n][c]}, failed[n])
    BY ZenonT(30), <1>3, NodeHas DEF Create, NodeTakes, repositoryVars
  <2>3. QED
    BY ZenonT(30), <2>1, <2>2, NodeMoves
<1>4. QED
  BY ZenonT(30), <1>1, <1>2, <1>3

\* The repository goes: categories before handles.
LEMMA DestroyKeeps ==
  ASSUME PluginsInv, NEW n \in Nodes, DestroyRepository(n)
  PROVE  PluginsInv'
<1>1. UNCHANGED <<paths, opening, mapping, made, failed>> /\ DestroyMembers(n)
  BY Zenon DEF DestroyRepository
<1>2. CASE /\ life[n] = "released" /\ life' = [life EXCEPT ![n] = "unloading"]
           /\ m_categories' = [m_categories EXCEPT ![n] = <<>>] /\ UNCHANGED <<m_plugins, mapped>>
  <2>1. Sane(n, "unloading", paths[n], opening[n], m_plugins[n], <<>>, mapping[n], mapped[n], made[n], failed[n])
    <3>1. Sane(n, "released", paths[n], opening[n], m_plugins[n], m_categories[n], mapping[n], mapped[n], made[n], failed[n])
      BY ZenonT(30), <1>2, NodeHas
    <3>2. QED
      BY ZenonT(30), <1>2, <3>1, FactoriesGone
  <2>2. NodeTakes(n, "unloading", paths[n], opening[n], m_plugins[n], <<>>, mapping[n], mapped[n], made[n], failed[n])
    BY ZenonT(30), <1>1, <1>2, NodeHas DEF NodeTakes
  <2>3. QED
    BY ZenonT(30), <2>1, <2>2, NodeMoves
<1>3. CASE /\ life[n] = "unloading" /\ m_plugins[n] # <<>> /\ mapped' = [mapped EXCEPT ![n] = @ \ {Head(m_plugins[n])}]
           /\ m_plugins' = [m_plugins EXCEPT ![n] = Tail(@)] /\ UNCHANGED <<life, m_categories>>
  <2>1. PICK pl, mp : pl = Tail(m_plugins[n]) /\ mp = mapped[n] \ {Head(m_plugins[n])}
    BY Zenon
  <2>2. Sane(n, "unloading", paths[n], opening[n], pl, m_categories[n], mapping[n], mp, made[n], failed[n])
    <3>1. Sane(n, "unloading", paths[n], opening[n], m_plugins[n], m_categories[n], mapping[n], mapped[n], made[n], failed[n])
      BY ZenonT(30), <1>3, NodeHas
    <3>2. QED
      <4>1. m_plugins[n] # <<>> /\ pl = Tail(m_plugins[n])
        BY Zenon, <1>3, <2>1
      <4>2. QED
        BY ZenonT(30), <3>1, <4>1, HandlesGone
  <2>3. NodeTakes(n, "unloading", paths[n], opening[n], pl, m_categories[n], mapping[n], mp, made[n], failed[n])
    <3>1. m_plugins' = [m_plugins EXCEPT ![n] = pl] /\ mapped' = [mapped EXCEPT ![n] = mp]
      BY ZenonT(30), <1>3, <2>1
    <3>2. QED
      BY ZenonT(30), <1>1, <1>3, <3>1, NodeHas DEF NodeTakes
  <2>4. QED
    BY ZenonT(30), <2>2, <2>3, NodeMoves
<1>4. CASE /\ life[n] = "unloading" /\ life' = [life EXCEPT ![n] = "down"] /\ UNCHANGED <<m_categories, m_plugins, mapped>>
  <2>1. Sane(n, "down", paths[n], opening[n], m_plugins[n], m_categories[n], mapping[n], mapped[n], made[n], failed[n])
    <3>1. Sane(n, "unloading", paths[n], opening[n], m_plugins[n], m_categories[n], mapping[n], mapped[n], made[n], failed[n])
      BY ZenonT(30), <1>4, NodeHas
    <3>2. QED
      BY ZenonT(30), <1>4, <3>1, HandlesGone
  <2>2. NodeTakes(n, "down", paths[n], opening[n], m_plugins[n], m_categories[n], mapping[n], mapped[n], made[n], failed[n])
    BY ZenonT(30), <1>1, <1>4, NodeHas DEF NodeTakes
  <2>3. QED
    BY ZenonT(30), <2>1, <2>2, NodeMoves
<1>5. QED
  BY ZenonT(30), <1>1, <1>2, <1>3, <1>4 DEF DestroyMembers

\* The state a node starts in.
LEMMA PluginsStart ==
  ASSUME PluginsInit(Nodes)
  PROVE  PluginsInv
<1>1. /\ life = [n \in Nodes |-> life[n]] /\ paths = [n \in Nodes |-> paths[n]] /\ opening = [n \in Nodes |-> opening[n]]
      /\ m_plugins = [n \in Nodes |-> m_plugins[n]] /\ m_categories = [n \in Nodes |-> m_categories[n]]
      /\ mapping = [n \in Nodes |-> mapping[n]] /\ mapped = [n \in Nodes |-> mapped[n]]
      /\ made = [n \in Nodes |-> made[n]] /\ failed = [n \in Nodes |-> failed[n]]
  BY ZenonT(30) DEF PluginsInit
<1>2. ASSUME NEW n \in Nodes
      PROVE  Sane(n, life[n], paths[n], opening[n], m_plugins[n], m_categories[n], mapping[n], mapped[n], made[n], failed[n])
  <2>1. PICK pa, ca, ma, pl, r, q : /\ pa = SortedPaths(Installed[n]) /\ ca = [c \in {"locator"} |-> Core] /\ pl = <<>>
          /\ ma = <<r, q>> /\ r = CategoryRecord(1, "system", Core) /\ q = CategoryRecord(255, UnknownCategory, Core)
    BY ZenonT(30)
  <2>2. /\ life[n] = "loading" /\ paths[n] = pa /\ opening[n] = -1 /\ m_plugins[n] = pl /\ m_categories[n] = ca
        /\ mapping[n] = ma /\ mapped[n] = {Core} /\ made[n] = {} /\ failed[n] = {}
    BY Zenon, <2>1 DEF PluginsInit
  <2>3. pl \in Seq(Installed[n]) /\ Range(pl) = {}
    BY <2>1 DEF Range
  <2>4. pa \in Seq(Installed[n]) /\ Rising(pa) /\ \A p \in Installed[n] : p \in Range(pa)
    BY ZenonT(30), <2>1, PathsSorted DEF Range
  <2>5. Ordered(n, pa, pl)
    BY Zenon, <2>3, <2>4 DEF Ordered
  <2>6. Range(ma) = {r, q} /\ ma \in Seq(Range(ma))
    BY <2>1 DEF Range
  <2>7. r.id = 1 /\ r.name = "system" /\ r.owner = Core /\ q.id = 255 /\ q.name = UnknownCategory /\ q.owner = Core
    BY Zenon, <2>1 DEF CategoryRecord
  <2>8. Handles(pa, -1, pl) = {Core}
    BY ZenonT(30), <2>3 DEF Handles
  <2>9. Mapped("loading", {Core}, ca, ma, {Core}, {}, {})
    <3>1. {ca[c] : c \in DOMAIN ca} = {Core}
      BY Zenon, <2>1
    <3>2. {x.owner : x \in Range(ma)} \subseteq {Core}
      <4>1. \A x \in Range(ma) : x.owner = Core
        BY ZenonT(30), <2>6, <2>7
      <4>2. QED
        BY Zenon, <4>1
    <3>3. QED
      BY ZenonT(30), <3>1, <3>2 DEF Mapped
  <2>10. Told(n, "loading", pa, -1, pl, ma)
    <3>1. Known(ma, 1) /\ Known(ma, 255)
      BY ZenonT(30), <2>6, <2>7 DEF Known
    <3>2. \A x \in Range(ma) : <<x.id, x.name>> \in Numbers(n)
      BY ZenonT(30), <2>6, <2>7 DEF Numbers, OwnNumbers
    <3>3. QED
      BY ZenonT(30), <2>3, <2>4, <2>6, <3>1, <3>2 DEF Told
  <2>11. QED
    BY ZenonT(30), <2>2, <2>5, <2>8, <2>9, <2>10 DEF Sane
<1>3. QED
  BY ZenonT(30), <1>1, <1>2 DEF PluginsInv

\* Every step keeps the invariant.
LEMMA PluginsKeeps ==
  ASSUME PluginsInv, [PluginsNext]_pluginVars
  PROVE  PluginsInv'
<1>1. DOMAIN life = Nodes
  BY Zenon DEF PluginsInv
<1>2. CASE PluginsNext
  BY Zenon, <1>1, <1>2, OpenKeeps, InitializeKeeps, KeepKeeps, RunKeeps, DestroyKeeps DEF PluginsNext
<1>3. CASE UNCHANGED pluginVars
  BY Zenon, <1>3 DEF pluginVars, repositoryVars, PluginsInv
<1>4. QED
  BY Zenon, <1>2, <1>3

\* Every node has the handles of the code that its objects need, has opened its
\* plugins in the order of their paths, and has no number of a category other
\* than the first claim of it.
THEOREM PluginsInvariant == PluginsSpec => []PluginsInv
<1>1. PluginsInit(Nodes) => PluginsInv
  BY Zenon, PluginsStart
<1>2. PluginsInv /\ [PluginsNext]_pluginVars => PluginsInv'
  BY Zenon, PluginsKeeps
<1>3. QED
  BY <1>1, <1>2, PTL DEF PluginsSpec

\* What the invariant says of one node.
LEMMA CodeHeld ==
  ASSUME PluginsInv
  PROVE  CodeLoaded
<1>1. DOMAIN life = Nodes
  BY Zenon DEF PluginsInv
<1>2. ASSUME NEW n \in Nodes
      PROVE  /\ {m_categories[n][c] : c \in DOMAIN m_categories[n]} \cup made[n] \subseteq mapped[n] \cup failed[n]
             /\ life[n] \in {"loading", "running"} => {r.owner : r \in Range(mapping[n])} \subseteq mapped[n]
  <2>1. PICK held : held = Handles(paths[n], opening[n], m_plugins[n])
    BY Zenon
  <2>2. Mapped(life[n], held, m_categories[n], mapping[n], mapped[n], made[n], failed[n])
    BY Zenon, <2>1 DEF PluginsInv, Sane
  <2>3. life[n] \in {"loading", "running", "released", "unloading", "down"}
    BY Zenon, NodeHas DEF Sane
  <2>4. CASE life[n] \in {"loading", "running", "released"}
    BY Zenon, <2>2, <2>4 DEF Mapped
  <2>5. CASE life[n] \in {"unloading", "down"}
    <3>1. m_categories[n] = <<>> /\ made[n] = {} /\ life[n] \notin {"loading", "running"}
      BY Zenon, <2>2, <2>5 DEF Mapped
    <3>2. {m_categories[n][c] : c \in DOMAIN m_categories[n]} = {}
      BY <3>1
    <3>3. QED
      BY Zenon, <3>1, <3>2
  <2>6. QED
    BY ZenonT(30), <2>3, <2>4, <2>5
<1>3. QED
  BY ZenonT(30), <1>1, <1>2 DEF CodeLoaded

\* The code of a factory, a component or a category stays in memory while there
\* is the object, except for what a failed initialize() has left behind.
THEOREM CodeStaysLoaded == PluginsSpec => []CodeLoaded
<1>1. PluginsInv => CodeLoaded
  BY Zenon, CodeHeld
<1>2. QED
  BY <1>1, PluginsInvariant, PTL

\* An error code is unpacked as one of its own category or of the unknown one.
THEOREM CodesMeanTheSame == PluginsSpec => []CodesAgree
<1>1. ASSUME PluginsInv PROVE CodesAgree
  <2>1. DOMAIN life = Nodes
    BY Zenon, <1>1 DEF PluginsInv
  <2>2. QED
    BY ZenonT(30), <1>1, <2>1, NumbersAgree DEF CodesAgree
<1>2. QED
  BY <1>1, PluginsInvariant, PTL
=============================================================================
