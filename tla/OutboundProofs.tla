--------------------------- MODULE OutboundProofs ---------------------------
(***************************************************************************)
(* Proofs about messages on their way out. Outbound, for any threads, any  *)
(* number of messages and any size of a message: first what the chunks of  *)
(* a queue are as one stream of bytes, by induction over the queue; then   *)
(* that the wire and the queue together are what was written; then that a  *)
(* message is in one place at a time and each sender's messages are in its *)
(* order. Trace, for any incoming ids: a message carries the ids of the    *)
(* thread that sent it, and spans are ended where they were begun.         *)
(***************************************************************************)
EXTENDS Outbound, Trace, SequenceFacts, NumberFacts

-----------------------------------------------------------------------------
(* Chunks as a stream of bytes *)

\* A byte on the wire: the message it belongs to and its place in it.
Byte == Message \X (1..Size)

\* Byte streams can be joined in any grouping.
LEMMA ByteSequences ==
  \A x, y, z \in Seq(Byte) : x \o y \in Seq(Byte) /\ (x \o y) \o z = x \o (y \o z)
  BY SMTT(30), Associative

\* f is the recursive function of Joined(q, k).
Joins(f, q, k) == f = [i \in 0..k |-> IF i = 0 THEN <<>> ELSE f[i - 1] \o Bytes(q[i])]

\* What is left of a message is its bytes from the offset on, at least one.
LEMMA ChunkBytes ==
  ASSUME NEW c \in Chunk
  PROVE  /\ Bytes(c) \in Seq(Byte) /\ Len(Bytes(c)) = Size - c.at + 1
         /\ Len(Bytes(c)) \in Nat \ {0}
         /\ \A i \in 1..Len(Bytes(c)) : Bytes(c)[i] = <<c.m, c.at + i - 1>>
<1>1. Size - c.at + 1 \in Nat \ {0} /\ c.at \in 1..Size /\ c.m \in Message
  BY OutboundAssumption DEF Chunk
<1>2. \A i \in 1..(Size - c.at + 1) : c.at + i - 1 \in 1..Size
  BY <1>1, OutboundAssumption
<1>3. QED
  BY SMTT(30), <1>1, <1>2 DEF Bytes, Byte

\* There is at most one way to join the first k chunks ...
LEMMA JoinsUnique ==
  ASSUME NEW q, NEW k \in Nat, NEW f, NEW g, Joins(f, q, k), Joins(g, q, k)
  PROVE  f[k] = g[k]
<1> DEFINE S == {i \in Nat : i <= k => f[i] = g[i]}
<1>1. \A i \in 0..k : f[i] = IF i = 0 THEN <<>> ELSE f[i - 1] \o Bytes(q[i])
  BY Zenon DEF Joins
<1>2. \A i \in 0..k : g[i] = IF i = 0 THEN <<>> ELSE g[i - 1] \o Bytes(q[i])
  BY Zenon DEF Joins
<1>3. 0 \in S
  BY <1>1, <1>2
<1>4. ASSUME NEW i \in S PROVE i + 1 \in S
  <2> SUFFICES ASSUME i + 1 <= k PROVE f[i + 1] = g[i + 1]
    OBVIOUS
  <2>1. i \in Nat /\ f[i] = g[i] /\ (i + 1) - 1 = i /\ i + 1 \in 0..k /\ i + 1 # 0
    BY <1>4
  <2>2. f[i + 1] = f[(i + 1) - 1] \o Bytes(q[i + 1])
    BY <1>1, <2>1, Zenon
  <2>3. g[i + 1] = g[(i + 1) - 1] \o Bytes(q[i + 1])
    BY <1>2, <2>1, Zenon
  <2>4. QED
    BY Zenon, <2>1, <2>2, <2>3
<1>5. S = Nat
  <2> HIDE DEF S
  <2>1. S \in SUBSET Nat
    BY Zenon DEF S
  <2>2. QED
    BY Zenon, <1>3, <1>4, <2>1, Induction
<1>6. QED
  BY <1>5

\* ... and there is one.
LEMMA JoinsExists ==
  ASSUME NEW q \in Seq(Chunk), NEW k \in 0..Len(q)
  PROVE  \E f \in [0..k -> Seq(Byte)] : Joins(f, q, k)
<1> DEFINE S == {n \in Nat : n <= Len(q) => \E f \in [0..n -> Seq(Byte)] : Joins(f, q, n)}
<1>1. 0 \in S
  <2> DEFINE f == [i \in 0..0 |-> <<>>]
  <2>1. f \in [0..0 -> Seq(Byte)] /\ Joins(f, q, 0)
    BY DEF Joins
  <2>2. QED
    BY Zenon, <2>1
<1>2. ASSUME NEW n \in S PROVE n + 1 \in S
  <2> SUFFICES ASSUME n + 1 <= Len(q) PROVE \E f \in [0..(n + 1) -> Seq(Byte)] : Joins(f, q, n + 1)
    OBVIOUS
  <2>1. n \in Nat /\ Len(q) \in Nat
    OBVIOUS
  <2>2. PICK f \in [0..n -> Seq(Byte)] : Joins(f, q, n)
    BY <2>1
  <2>3. \A i \in 0..n : f[i] = IF i = 0 THEN <<>> ELSE f[i - 1] \o Bytes(q[i])
    BY Zenon, <2>2 DEF Joins
  <2> DEFINE e == f[n] \o Bytes(q[n + 1])
             g == [i \in 0..(n + 1) |-> IF i = n + 1 THEN e ELSE f[i]]
  <2>4. e \in Seq(Byte)
    <3>1. q[n + 1] \in Chunk
      BY <2>1
    <3>2. Bytes(q[n + 1]) \in Seq(Byte) /\ f[n] \in Seq(Byte)
      BY <2>1, <2>2, <3>1, ChunkBytes
    <3>3. QED
      BY <3>2
  <2>5. g \in [0..(n + 1) -> Seq(Byte)]
    <3> HIDE DEF e
    <3>1. QED
      BY <2>1, <2>2, <2>4
  <2>6. ASSUME NEW i \in 0..(n + 1) PROVE g[i] = IF i = 0 THEN <<>> ELSE g[i - 1] \o Bytes(q[i])
    <3>1. CASE i = n + 1
      <4>1. g[i] = e /\ i # 0 /\ g[i - 1] = f[n]
        <5> HIDE DEF e
        <5>1. QED
          BY <2>1, <3>1
      <4>2. QED
        BY Zenon, <3>1, <4>1
    <3>2. CASE i # n + 1
      <4>1. i \in 0..n /\ g[i] = f[i] /\ (i # 0 => g[i - 1] = f[i - 1])
        BY <2>1, <3>2
      <4>2. QED
        BY Zenon, <2>3, <4>1
    <3>3. QED
      BY Zenon, <3>1, <3>2
  <2>7. Joins(g, q, n + 1)
    <3> HIDE DEF g
    <3>1. g = [i \in 0..(n + 1) |-> g[i]]
      BY Zenon, <2>5
    <3>2. QED
      BY Zenon, <2>6, <3>1 DEF Joins
  <2>8. QED
    BY Zenon, <2>5, <2>7
<1>3. S = Nat
  <2> HIDE DEF S
  <2>1. S \in SUBSET Nat
    BY Zenon DEF S
  <2>2. QED
    BY Zenon, <1>1, <1>2, <2>1, Induction
<1>4. QED
  BY <1>3

\* Whatever satisfies the recursion computes Joined().
LEMMA JoinedIs ==
  ASSUME NEW q, NEW k \in Nat, NEW f, Joins(f, q, k)
  PROVE  Joined(q, k) = f[k]
<1> DEFINE h == CHOOSE g : Joins(g, q, k)
<1>1. Joined(q, k) = h[k]
  BY Zenon DEF Joined, Joins
<1>2. Joins(h, q, k)
  BY Zenon
<1> HIDE DEF h
<1>3. QED
  BY Zenon, <1>1, <1>2, JoinsUnique

\* No chunk has no bytes, and every further chunk adds its own.
LEMMA JoinedStep ==
  ASSUME NEW q \in Seq(Chunk)
  PROVE  /\ Joined(q, 0) = <<>>
         /\ \A k \in 0..Len(q) : Joined(q, k) \in Seq(Byte)
         /\ \A k \in 1..Len(q) : Joined(q, k) = Joined(q, k - 1) \o Bytes(q[k])
<1>1. ASSUME NEW k \in 0..Len(q) PROVE Joined(q, k) \in Seq(Byte)
  <2>1. PICK f \in [0..k -> Seq(Byte)] : Joins(f, q, k)
    BY Zenon, JoinsExists
  <2>2. k \in Nat /\ k \in 0..k
    OBVIOUS
  <2>3. QED
    BY Zenon, <2>1, <2>2, JoinedIs
<1>2. Joined(q, 0) = <<>>
  <2>1. PICK f \in [0..0 -> Seq(Byte)] : Joins(f, q, 0)
    BY JoinsExists
  <2>2. Joined(q, 0) = f[0]
    BY Zenon, <2>1, JoinedIs
  <2>3. QED
    BY <2>1, <2>2 DEF Joins
<1>3. ASSUME NEW k \in 1..Len(q) PROVE Joined(q, k) = Joined(q, k - 1) \o Bytes(q[k])
  <2>1. k \in Nat /\ k - 1 \in Nat /\ k \in 0..Len(q) /\ k \in 0..k /\ k # 0
    OBVIOUS
  <2>2. PICK f \in [0..k -> Seq(Byte)] : Joins(f, q, k)
    BY Zenon, <2>1, JoinsExists
  <2>3. \A i \in 0..k : f[i] = IF i = 0 THEN <<>> ELSE f[i - 1] \o Bytes(q[i])
    BY Zenon, <2>2 DEF Joins
  <2> DEFINE g == [i \in 0..(k - 1) |-> f[i]]
  <2>4. Joins(g, q, k - 1)
    <3>1. ASSUME NEW i \in 0..(k - 1) PROVE f[i] = IF i = 0 THEN <<>> ELSE g[i - 1] \o Bytes(q[i])
      <4>1. i \in 0..k /\ (i # 0 => g[i - 1] = f[i - 1])
        BY <2>1
      <4>2. QED
        BY Zenon, <2>3, <4>1
    <3>2. QED
      BY Zenon, <3>1 DEF Joins
  <2>5. Joined(q, k - 1) = f[k - 1]
    <3>1. g[k - 1] = f[k - 1]
      BY <2>1
    <3> HIDE DEF g
    <3>2. QED
      BY Zenon, <2>1, <2>4, <3>1, JoinedIs
  <2>6. Joined(q, k) = f[k]
    BY Zenon, <2>1, <2>2, JoinedIs
  <2>7. QED
    BY Zenon, <2>1, <2>3, <2>5, <2>6
<1>4. QED
  BY Zenon, <1>1, <1>2, <1>3

\* Only the chunks that are joined matter.
LEMMA JoinedSame ==
  ASSUME NEW q \in Seq(Chunk), NEW r \in Seq(Chunk), NEW k \in 0..Len(q), k <= Len(r), \A i \in 1..k : q[i] = r[i]
  PROVE  Joined(q, k) = Joined(r, k)
<1>1. k \in Nat
  OBVIOUS
<1>2. PICK f \in [0..k -> Seq(Byte)] : Joins(f, q, k)
  BY Zenon, JoinsExists
<1>3. Joins(f, r, k)
  <2>1. \A i \in 0..k : i = 0 \/ q[i] = r[i]
    BY <1>1
  <2>2. QED
    BY Zenon, <1>2, <2>1 DEF Joins
<1>4. QED
  BY SMTT(30), <1>1, <1>2, <1>3, JoinedIs

\* A further chunk adds its bytes at the end.
LEMMA JoinedAppend ==
  ASSUME NEW q \in Seq(Chunk), NEW c \in Chunk
  PROVE  Joined(Append(q, c), Len(Append(q, c))) = Joined(q, Len(q)) \o Bytes(c)
<1> DEFINE r == Append(q, c)
<1>1. /\ r \in Seq(Chunk) /\ Len(q) \in Nat /\ Len(r) = Len(q) + 1 /\ r[Len(r)] = c
      /\ \A i \in 1..Len(q) : q[i] = r[i]
  OBVIOUS
<1> HIDE DEF r
<1>2. Joined(r, Len(r)) = Joined(r, Len(r) - 1) \o Bytes(r[Len(r)])
  <2>1. Len(r) \in 1..Len(r)
    BY <1>1
  <2>2. QED
    BY <1>1, <2>1, JoinedStep, Zenon
<1>3. Len(r) - 1 = Len(q) /\ Len(q) \in 0..Len(q) /\ Len(q) <= Len(r)
  BY <1>1
<1>4. Joined(q, Len(q)) = Joined(r, Len(q))
  BY Zenon, <1>1, <1>3, JoinedSame
<1>5. QED
  BY Zenon, <1>1, <1>2, <1>3, <1>4 DEF r

\* The chunks behind the first k follow what those are joined to.
LEMMA JoinedSplit ==
  ASSUME NEW q \in Seq(Chunk), NEW k \in 0..Len(q)
  PROVE  LET r == SubSeq(q, k + 1, Len(q))
         IN  /\ r \in Seq(Chunk) /\ Len(r) = Len(q) - k /\ \A i \in 1..Len(r) : r[i] = q[k + i]
             /\ Joined(q, Len(q)) = Joined(q, k) \o Joined(r, Len(r))
<1> DEFINE r == SubSeq(q, k + 1, Len(q))
           S == {j \in Nat : j <= Len(r) => Joined(q, k + j) = Joined(q, k) \o Joined(r, j)}
<1>1. /\ r \in Seq(Chunk) /\ Len(r) = Len(q) - k /\ \A i \in 1..Len(r) : r[i] = q[k + i]
      /\ Len(q) \in Nat /\ k \in Nat
  OBVIOUS
<1> HIDE DEF r
<1>2. Joined(q, k) \in Seq(Byte) /\ Joined(r, 0) = <<>>
  BY Zenon, <1>1, JoinedStep
<1>3. 0 \in S
  BY <1>1, <1>2, EmptyCat
<1>4. ASSUME NEW j \in S PROVE j + 1 \in S
  <2> SUFFICES ASSUME j + 1 <= Len(r) PROVE Joined(q, k + (j + 1)) = Joined(q, k) \o Joined(r, j + 1)
    BY SMTT(30)
  <2>0. /\ j \in Nat /\ j <= Len(r)
        /\ k + (j + 1) \in 1..Len(q) /\ (k + (j + 1)) - 1 = k + j
        /\ j + 1 \in 1..Len(r) /\ (j + 1) - 1 = j /\ j \in 0..Len(r)
    BY <1>1
  <2>1. Joined(q, k + j) = Joined(q, k) \o Joined(r, j)
    BY Zenon, <2>0
  <2>2. Joined(q, k + (j + 1)) = Joined(q, k + j) \o Bytes(q[k + (j + 1)])
    BY Zenon, <2>0, JoinedStep
  <2>3. Joined(r, j + 1) = Joined(r, j) \o Bytes(r[j + 1]) /\ Joined(r, j) \in Seq(Byte)
    BY Zenon, <1>1, <2>0, JoinedStep
  <2>4. q[k + (j + 1)] = r[j + 1] /\ r[j + 1] \in Chunk
    BY <1>1, <2>0
  <2>5. Bytes(r[j + 1]) \in Seq(Byte)
    BY Zenon, <2>4, ChunkBytes
  <2>6. (Joined(q, k) \o Joined(r, j)) \o Bytes(r[j + 1]) = Joined(q, k) \o (Joined(r, j) \o Bytes(r[j + 1]))
    <3> DEFINE x == Joined(q, k)
               y == Joined(r, j)
               z == Bytes(r[j + 1])
    <3>1. x \in Seq(Byte) /\ y \in Seq(Byte) /\ z \in Seq(Byte)
      BY Zenon, <1>2, <2>3, <2>5
    <3> HIDE DEF x, y, z
    <3>2. (x \o y) \o z = x \o (y \o z)
      BY ZenonT(30), <3>1, ByteSequences
    <3>3. QED
      BY Zenon, <3>2 DEF x, y, z
  <2>7. QED
    BY Zenon, <2>1, <2>2, <2>3, <2>4, <2>6
<1>5. S = Nat
  <2> HIDE DEF S
  <2>1. S \in SUBSET Nat
    BY Zenon DEF S
  <2>2. QED
    BY Zenon, <1>3, <1>4, <2>1, Induction
<1>6. Len(r) \in Nat /\ Len(r) <= Len(r) /\ k + Len(r) = Len(q)
  BY <1>1
<1>7. Joined(q, Len(q)) = Joined(q, k) \o Joined(r, Len(r))
  BY Zenon, <1>5, <1>6
<1>8. QED
  BY Zenon, <1>1, <1>7 DEF r

\* The first chunk cut short: its beginning is what is missing.
Shorter(q, part) == [q EXCEPT ![1].at = @ + part]

\* Taking a part of the first chunk takes it off the front of the stream.
LEMMA JoinedShorter ==
  ASSUME NEW q \in Seq(Chunk), q # <<>>, NEW part \in Nat, part < Len(Bytes(q[1]))
  PROVE  LET r == Shorter(q, part)
         IN  /\ r \in Seq(Chunk) /\ Len(r) = Len(q)
             /\ r[1].m = q[1].m /\ \A i \in 2..Len(q) : r[i] = q[i]
             /\ Joined(q, Len(q)) = SubSeq(Bytes(q[1]), 1, part) \o Joined(r, Len(r))
<1> DEFINE r == Shorter(q, part)
           b == SubSeq(Bytes(q[1]), 1, part)
           S == {j \in Nat : j + 1 <= Len(q) => Joined(q, j + 1) = b \o Joined(r, j + 1)}
<1>1. Len(q) \in Nat \ {0} /\ q[1] \in Chunk
  OBVIOUS
<1>2. [q[1] EXCEPT !.at = @ + part] \in Chunk
  <2>1. q[1].at + part \in 1..Size
    <3>1. Len(Bytes(q[1])) = Size - q[1].at + 1
      BY Zenon, <1>1, ChunkBytes
    <3>2. q[1].at \in 1..Size
      BY Zenon, <1>1 DEF Chunk
    <3>3. QED
      BY SMTT(30), <3>1, <3>2, OutboundAssumption
  <2>2. QED
    BY Zenon, <1>1, <2>1 DEF Chunk
<1>3. /\ r \in Seq(Chunk) /\ Len(r) = Len(q) /\ r[1] = [q[1] EXCEPT !.at = @ + part]
      /\ \A i \in 2..Len(q) : r[i] = q[i]
  BY <1>1, <1>2 DEF Shorter
<1>4. r[1].m = q[1].m /\ r[1].at = q[1].at + part /\ r[1] \in Chunk
  BY Zenon, <1>1, <1>2, <1>3 DEF Chunk
<1> HIDE DEF r
<1>5. /\ Bytes(q[1]) \in Seq(Byte) /\ Bytes(r[1]) \in Seq(Byte) /\ b \in Seq(Byte)
      /\ Bytes(q[1]) = b \o Bytes(r[1])
  <2>1. /\ Bytes(q[1]) \in Seq(Byte) /\ Len(Bytes(q[1])) = Size - q[1].at + 1
        /\ \A i \in 1..Len(Bytes(q[1])) : Bytes(q[1])[i] = <<q[1].m, q[1].at + i - 1>>
    BY Zenon, <1>1, ChunkBytes
  <2>2. /\ Bytes(r[1]) \in Seq(Byte) /\ Len(Bytes(r[1])) = Size - (q[1].at + part) + 1
        /\ \A i \in 1..Len(Bytes(r[1])) : Bytes(r[1])[i] = <<q[1].m, (q[1].at + part) + i - 1>>
    BY Zenon, <1>4, ChunkBytes
  <2>3. q[1].at \in Nat /\ Size \in Nat
    BY <1>1, OutboundAssumption DEF Chunk
  <2>4. b \in Seq(Byte) /\ Len(b) = part /\ \A i \in 1..part : b[i] = Bytes(q[1])[i]
    BY SMTT(30), <2>1
  <2> DEFINE u == Bytes(q[1])
             v == Bytes(r[1])
  <2> HIDE DEF b, u, v
  <2>a. /\ u \in Seq(Byte) /\ Len(u) = Size - q[1].at + 1
        /\ \A i \in 1..Len(u) : u[i] = <<q[1].m, q[1].at + i - 1>>
        /\ v \in Seq(Byte) /\ Len(v) = Size - (q[1].at + part) + 1
        /\ \A i \in 1..Len(v) : v[i] = <<q[1].m, (q[1].at + part) + i - 1>>
        /\ \A i \in 1..part : b[i] = u[i]
    BY Zenon, <2>1, <2>2, <2>4 DEF u, v
  <2>b. Len(u) = part + Len(v) /\ Len(v) \in Nat /\ part \in Nat
    BY SMTT(30), <2>3, <2>a
  <2>5. /\ b \o v \in Seq(Byte) /\ Len(b \o v) = Len(u)
        /\ \A i \in 1..Len(u) : (b \o v)[i] = IF i <= part THEN b[i] ELSE v[i - part]
    <3>1. b \in Seq(Byte) /\ v \in Seq(Byte) /\ Len(b) = part /\ Len(v) \in Nat /\ part \in Nat
      BY Zenon, <2>4, <2>a, <2>b
    <3>2. b \o v \in Seq(Byte) /\ Len(b \o v) = part + Len(v)
      BY SMTT(30), <3>1
    <3>3. \A i \in 1..part + Len(v) : (b \o v)[i] = IF i <= part THEN b[i] ELSE v[i - part]
      BY SMTT(30), <3>1
    <3>4. QED
      BY Zenon, <2>b, <3>2, <3>3
  <2>6. ASSUME NEW i \in 1..Len(u) PROVE u[i] = (b \o v)[i]
    <3>1. CASE i <= part
      BY SMTT(30), <2>5, <2>a, <3>1
    <3>2. CASE ~(i <= part)
      <4>1. i - part \in 1..Len(v) /\ (q[1].at + part) + (i - part) - 1 = q[1].at + i - 1
        BY SMTT(30), <2>3, <2>b, <3>2
      <4>2. QED
        BY Zenon, <2>5, <2>a, <3>2, <4>1
    <3>3. QED
      BY Zenon, <3>1, <3>2
  <2>7. u = b \o v
    BY Zenon, <2>5, <2>6, <2>a, SameSequence
  <2>8. QED
    BY Zenon, <2>1, <2>2, <2>4, <2>7 DEF u, v
<1> HIDE DEF b
<1>6. 0 \in S
  <2>0. 1 \in 1..Len(q) /\ 1 - 1 = 0
    BY <1>1
  <2>1. Joined(q, 1) = Joined(q, 0) \o Bytes(q[1]) /\ Joined(q, 0) = <<>>
    BY Zenon, <2>0, JoinedStep
  <2>2. Joined(r, 1) = Joined(r, 0) \o Bytes(r[1]) /\ Joined(r, 0) = <<>>
    BY Zenon, <1>3, <2>0, JoinedStep
  <2>3. Joined(q, 1) = b \o Joined(r, 1)
    BY Zenon, <1>5, <2>1, <2>2, EmptyCat
  <2>4. QED
    BY <2>3
<1>7. ASSUME NEW j \in S PROVE j + 1 \in S
  <2> DEFINE i == (j + 1) + 1
  <2> SUFFICES ASSUME i <= Len(q) PROVE Joined(q, i) = b \o Joined(r, i)
    OBVIOUS
  <2>1. /\ j \in Nat /\ i \in 2..Len(q) /\ i \in 1..Len(q) /\ i - 1 = j + 1 /\ i - 1 \in 0..Len(q)
        /\ Joined(q, j + 1) = b \o Joined(r, j + 1)
    BY <1>1, <1>7
  <2> HIDE DEF i
  <2>2. Joined(q, i) = Joined(q, i - 1) \o Bytes(q[i])
    BY Zenon, <2>1, JoinedStep
  <2>3. Joined(r, i) = Joined(r, i - 1) \o Bytes(r[i]) /\ Joined(r, i - 1) \in Seq(Byte)
    BY Zenon, <1>3, <2>1, JoinedStep
  <2>4. r[i] = q[i] /\ q[i] \in Chunk
    BY <1>3, <2>1
  <2>5. Bytes(q[i]) \in Seq(Byte)
    BY Zenon, <2>4, ChunkBytes
  <2>6. (b \o Joined(r, i - 1)) \o Bytes(q[i]) = b \o (Joined(r, i - 1) \o Bytes(q[i]))
    <3> DEFINE y == Joined(r, i - 1)
               z == Bytes(q[i])
    <3>1. b \in Seq(Byte) /\ y \in Seq(Byte) /\ z \in Seq(Byte)
      BY Zenon, <1>5, <2>3, <2>5
    <3> HIDE DEF y, z
    <3>2. (b \o y) \o z = b \o (y \o z)
      BY SMTT(30), <3>1, ByteSequences
    <3>3. QED
      BY Zenon, <3>2 DEF y, z
  <2>7. QED
    BY Zenon, <2>1, <2>2, <2>3, <2>4, <2>6
<1>8. S = Nat
  <2> HIDE DEF S
  <2>1. S \in SUBSET Nat
    BY Zenon DEF S
  <2>2. QED
    BY Zenon, <1>6, <1>7, <2>1, Induction
<1>9. Len(q) - 1 \in Nat /\ (Len(q) - 1) + 1 = Len(q) /\ Len(q) <= Len(q)
  BY <1>1
<1>10. Joined(q, Len(q)) = b \o Joined(r, Len(r))
  BY Zenon, <1>3, <1>8, <1>9
<1>11. QED
  BY Zenon, <1>3, <1>4, <1>10 DEF r, b

-----------------------------------------------------------------------------
(* The last byte of a message *)

\* A chunk always holds the last byte of its own message and of no other ...
LEMMA LastByte ==
  ASSUME NEW c \in Chunk, NEW m
  PROVE  <<m, Size>> \in Range(Bytes(c)) <=> c.m = m
<1>1. /\ Bytes(c) \in Seq(Byte) /\ Len(Bytes(c)) = Size - c.at + 1 /\ Len(Bytes(c)) \in Nat \ {0}
      /\ \A i \in 1..Len(Bytes(c)) : Bytes(c)[i] = <<c.m, c.at + i - 1>>
  BY Zenon, ChunkBytes
<1>2. DOMAIN Bytes(c) = 1..Len(Bytes(c)) /\ c.at \in Nat /\ Size \in Nat
  BY <1>1, OutboundAssumption DEF Chunk
<1>3. Bytes(c)[Len(Bytes(c))] = <<c.m, Size>>
  <2>1. c.at + (Size - c.at + 1) - 1 = Size /\ Len(Bytes(c)) \in 1..Len(Bytes(c))
    BY <1>1, <1>2
  <2>2. QED
    BY Zenon, <1>1, <2>1
<1>4. c.m = m => <<m, Size>> \in Range(Bytes(c))
  <2>1. Len(Bytes(c)) \in DOMAIN Bytes(c)
    BY <1>1, <1>2
  <2>2. QED
    BY Zenon, <1>3, <2>1 DEF Range
<1>5. <<m, Size>> \in Range(Bytes(c)) => c.m = m
  <2> SUFFICES ASSUME <<m, Size>> \in Range(Bytes(c)) PROVE c.m = m
    BY Zenon
  <2>1. PICK i \in 1..Len(Bytes(c)) : <<m, Size>> = Bytes(c)[i]
    BY Zenon, <1>2 DEF Range
  <2>2. <<m, Size>> = <<c.m, c.at + i - 1>>
    BY Zenon, <1>1, <2>1
  <2>3. QED
    BY Zenon, <2>2
<1>6. QED
  BY Zenon, <1>4, <1>5

\* ... and an incomplete part of it does not.
LEMMA PartHasNoLastByte ==
  ASSUME NEW c \in Chunk, NEW m, NEW part \in Nat, part < Len(Bytes(c))
  PROVE  <<m, Size>> \notin Range(SubSeq(Bytes(c), 1, part)) /\ SubSeq(Bytes(c), 1, part) \in Seq(Byte)
         /\ Len(SubSeq(Bytes(c), 1, part)) = part
<1> DEFINE b == Bytes(c)
<1>1. /\ b \in Seq(Byte) /\ Len(b) = Size - c.at + 1 /\ Len(b) \in Nat \ {0}
      /\ \A i \in 1..Len(b) : b[i] = <<c.m, c.at + i - 1>>
  BY Zenon, ChunkBytes
<1>2. c.at \in Nat /\ Size \in Nat
  BY OutboundAssumption DEF Chunk
<1> HIDE DEF b
<1>3. /\ SubSeq(b, 1, part) \in Seq(Byte) /\ Len(SubSeq(b, 1, part)) = part
      /\ DOMAIN SubSeq(b, 1, part) = 1..part /\ \A i \in 1..part : SubSeq(b, 1, part)[i] = b[i] /\ i \in 1..Len(b)
  BY <1>1 DEF b
<1>4. ASSUME NEW i \in 1..part PROVE SubSeq(b, 1, part)[i] # <<m, Size>>
  <2>1. c.at + i - 1 # Size
    BY <1>1, <1>2 DEF b
  <2>2. QED
    BY <1>1, <1>3, <2>1
<1>5. QED
  BY Zenon, <1>3, <1>4 DEF Range, b

\* The last bytes among the first k chunks are those of their messages.
LEMMA LastBytes ==
  ASSUME NEW q \in Seq(Chunk), NEW k \in 0..Len(q), NEW m
  PROVE  <<m, Size>> \in Range(Joined(q, k)) <=> \E i \in 1..k : q[i].m = m
<1> DEFINE P(j) == <<m, Size>> \in Range(Joined(q, j)) <=> \E i \in 1..j : q[i].m = m
           S == {j \in Nat : j <= Len(q) => P(j)}
<1>1. 0 \in S
  BY JoinedStep DEF Range
<1>2. ASSUME NEW j \in S PROVE j + 1 \in S
  <2> SUFFICES ASSUME j + 1 <= Len(q) PROVE P(j + 1)
    OBVIOUS
  <2>1. j \in Nat /\ j <= Len(q) /\ j \in 0..Len(q) /\ j + 1 \in 1..Len(q) /\ (j + 1) - 1 = j
    OBVIOUS
  <2>2. P(j)
    BY Zenon, <2>1
  <2>3. Joined(q, j + 1) = Joined(q, j) \o Bytes(q[j + 1]) /\ Joined(q, j) \in Seq(Byte)
    BY Zenon, <2>1, JoinedStep
  <2>4. q[j + 1] \in Chunk
    BY <2>1
  <2>5. Bytes(q[j + 1]) \in Seq(Byte)
    BY Zenon, <2>4, ChunkBytes
  <2>6. Range(Joined(q, j + 1)) = Range(Joined(q, j)) \cup Range(Bytes(q[j + 1]))
    BY ZenonT(30), <2>3, <2>5, RangeCat
  <2>7. <<m, Size>> \in Range(Bytes(q[j + 1])) <=> q[j + 1].m = m
    BY Zenon, <2>4, LastByte
  <2>8. 1..(j + 1) = 1..j \cup {j + 1}
    BY <2>1
  <2>9. QED
    BY Zenon, <2>2, <2>6, <2>7, <2>8
<1>3. S = Nat
  <2> HIDE DEF S
  <2>1. S \in SUBSET Nat
    BY Zenon DEF S
  <2>2. QED
    BY Zenon, <1>1, <1>2, <2>1, Induction
<1>4. k \in Nat /\ k <= Len(q)
  OBVIOUS
<1>5. QED
  BY Zenon, <1>3, <1>4

-----------------------------------------------------------------------------
(* flush() *)

\* The loop of flush() stops: some number of chunks is taken as a whole.
LEMMA WholeChunks ==
  ASSUME m_messages \in Seq(Chunk), NEW n \in Nat
  PROVE  /\ Whole(n) \in 0..Len(m_messages) /\ Covered(m_messages, Whole(n)) <= n
         /\ Whole(n) = Len(m_messages) \/ Covered(m_messages, Whole(n) + 1) > n
<1> DEFINE q == m_messages
           T == {k \in 0..Len(q) : Covered(q, k) > n}
           Good(k) == Covered(q, k) <= n /\ (k = Len(q) \/ Covered(q, k + 1) > n)
<1>1. Len(q) \in Nat /\ Covered(q, 0) = 0 /\ \A k \in 0..Len(q) : Covered(q, k) \in Nat
  BY JoinedStep DEF Covered
<1>2. \E k \in 0..Len(q) : Good(k)
  <2>1. CASE T = {}
    BY <1>1, <2>1
  <2>2. CASE T # {}
    <3>1. T \in SUBSET Nat
      OBVIOUS
    <3>2. PICK j \in T : \A e \in T : j <= e
      BY Zenon, <2>2, <3>1, Smallest
    <3>3. j \in 1..Len(q) /\ j - 1 \in 0..Len(q) /\ (j - 1) + 1 = j /\ j - 1 \notin T
      BY <1>1, <3>2
    <3>4. Good(j - 1)
      BY <1>1, <3>2, <3>3
    <3>5. QED
      BY Zenon, <3>3, <3>4
  <2>3. QED
    BY Zenon, <2>1, <2>2
<1>3. Whole(n) = CHOOSE k \in 0..Len(q) : Good(k)
  BY Zenon DEF Whole
<1>4. Whole(n) \in 0..Len(q) /\ Good(Whole(n))
  BY Zenon, <1>2, <1>3
<1>5. QED
  BY Zenon, <1>4

\* However much of the queue the socket takes, what it takes and what is left
\* are the queue, and it takes the last byte of exactly the messages whose
\* handlers are called.
LEMMA FlushSplits ==
  ASSUME m_messages \in Seq(Chunk), NEW n \in Nat, n <= Covered(m_messages, Len(m_messages))
  PROVE  LET taken == SubSeq(Remaining, 1, n)
             rest == After(n)
         IN  /\ taken \in Seq(Byte)
             /\ rest \in Seq(Chunk) /\ Len(rest) = Len(m_messages) - Whole(n)
             /\ \A i \in 1..Len(rest) : rest[i].m = m_messages[Whole(n) + i].m
             /\ Remaining = taken \o Joined(rest, Len(rest))
             /\ \A m : <<m, Size>> \in Range(taken) <=> \E i \in 1..Whole(n) : m_messages[i].m = m
<1> DEFINE q == m_messages
           k == Whole(n)
           front == Joined(q, k)
           r == SubSeq(q, k + 1, Len(q))
           part == n - Len(front)
<1>1. k \in 0..Len(q) /\ Len(front) <= n /\ (k = Len(q) \/ Covered(q, k + 1) > n)
  BY Zenon, WholeChunks DEF Covered
<1>2. /\ r \in Seq(Chunk) /\ Len(r) = Len(q) - k /\ \A i \in 1..Len(r) : r[i] = q[k + i]
      /\ Remaining = front \o Joined(r, Len(r))
  <2> HIDE DEF k
  <2>1. QED
    BY Zenon, <1>1, JoinedSplit DEF Remaining
<1>3. After(n) = IF part = 0 THEN r ELSE Shorter(r, part)
  BY Zenon DEF After, Shorter, Covered
<1> HIDE DEF r
<1>4. front \in Seq(Byte) /\ Joined(r, Len(r)) \in Seq(Byte) /\ Len(q) \in Nat /\ k \in Nat /\ part \in Nat
  <2>1. front \in Seq(Byte)
    BY Zenon, <1>1, JoinedStep
  <2>2. Len(r) \in 0..Len(r)
    BY <1>2
  <2>3. Joined(r, Len(r)) \in Seq(Byte)
    BY Zenon, <1>2, <2>2, JoinedStep
  <2>4. QED
    BY <1>1, <2>1, <2>3
<1>5. \A m : <<m, Size>> \in Range(front) <=> \E i \in 1..k : q[i].m = m
  <2> HIDE DEF k
  <2>1. QED
    BY Zenon, <1>1, LastBytes
<1>6. CASE part = 0
  <2>1. n = Len(front)
    BY <1>1, <1>4, <1>6
  <2>2. SubSeq(Remaining, 1, n) = front
    <3> HIDE DEF front
    <3>1. QED
      BY Zenon, <1>2, <1>4, <2>1, CutAt
  <2>3. After(n) = r
    BY Zenon, <1>3, <1>6
  <2>4. \A i \in 1..Len(r) : r[i].m = q[k + i].m
    BY Zenon, <1>2
  <2>5. QED
    BY Zenon, <1>2, <1>4, <1>5, <2>2, <2>3, <2>4
<1>7. CASE part # 0
  <2>1. k # Len(q) /\ k + 1 \in 1..Len(q) /\ (k + 1) - 1 = k
    <3>1. ASSUME k = Len(q) PROVE FALSE
      BY SMTT(30), <1>1, <1>4, <1>7, <3>1 DEF Covered
    <3> HIDE DEF k
    <3>2. QED
      BY <1>1, <1>4, <3>1
  <2>2. q[k + 1] \in Chunk /\ r # <<>> /\ r[1] = q[k + 1]
    BY SMTT(30), <1>1, <1>2, <1>4, <2>1
  <2>3. part < Len(Bytes(r[1]))
    <3>1. Joined(q, k + 1) = front \o Bytes(q[k + 1])
      BY Zenon, <2>1, JoinedStep
    <3>2. Bytes(q[k + 1]) \in Seq(Byte)
      BY Zenon, <2>2, ChunkBytes
    <3>3. Len(Joined(q, k + 1)) = Len(front) + Len(Bytes(q[k + 1]))
      BY <1>4, <3>1, <3>2
    <3>4. Len(Joined(q, k + 1)) > n
      BY Zenon, <1>1, <2>1 DEF Covered
    <3>5. Len(front) \in Nat /\ Len(Bytes(q[k + 1])) \in Nat
      BY <1>4, <3>2
    <3>6. QED
      BY <2>2, <3>3, <3>4, <3>5
  <2> DEFINE b == SubSeq(Bytes(r[1]), 1, part)
             u == Shorter(r, part)
  <2>4. /\ u \in Seq(Chunk) /\ Len(u) = Len(r) /\ u[1].m = r[1].m /\ \A i \in 2..Len(r) : u[i] = r[i]
        /\ Joined(r, Len(r)) = b \o Joined(u, Len(u))
    <3> HIDE DEF part
    <3>1. QED
      BY Zenon, <1>2, <1>4, <2>2, <2>3, JoinedShorter
  <2>5. b \in Seq(Byte) /\ Len(b) = part /\ \A m : <<m, Size>> \notin Range(b)
    <3> HIDE DEF part
    <3>1. QED
      BY Zenon, <1>4, <2>2, <2>3, PartHasNoLastByte
  <2>6. Joined(u, Len(u)) \in Seq(Byte)
    <3>1. Len(u) \in 0..Len(u)
      BY <2>4
    <3> HIDE DEF u
    <3>2. QED
      BY ZenonT(30), <2>4, <3>1, JoinedStep
  <2>7. After(n) = u
    BY Zenon, <1>3, <1>7
  <2> HIDE DEF b, u
  <2>8. Remaining = (front \o b) \o Joined(u, Len(u))
    <3> DEFINE z == Joined(u, Len(u))
    <3> HIDE DEF front, z
    <3>1. front \in Seq(Byte) /\ b \in Seq(Byte) /\ z \in Seq(Byte)
      BY Zenon, <1>4, <2>5, <2>6 DEF z
    <3>2. (front \o b) \o z = front \o (b \o z)
      BY SMTT(30), <3>1, ByteSequences
    <3>3. QED
      BY Zenon, <1>2, <2>4, <3>2 DEF z
  <2>9. front \o b \in Seq(Byte) /\ Len(front \o b) = n /\ Range(front \o b) = Range(front) \cup Range(b)
    <3>1. front \o b \in Seq(Byte) /\ Len(front \o b) = Len(front) + part
      BY <1>4, <2>5
    <3>2. Len(front) + part = n
      BY <1>4
    <3>3. QED
      BY <1>4, <2>5, <3>1, <3>2, RangeCat
  <2>10. SubSeq(Remaining, 1, n) = front \o b
    <3> DEFINE y == front \o b
               z == Joined(u, Len(u))
    <3> HIDE DEF y, z
    <3>1. y \in Seq(Byte) /\ z \in Seq(Byte) /\ Len(y) = n /\ Remaining = y \o z
      BY Zenon, <2>6, <2>8, <2>9 DEF y, z
    <3>2. QED
      BY Zenon, <3>1, CutAt DEF y
  <2>11. ASSUME NEW i \in 1..Len(u) PROVE u[i].m = q[k + i].m
    <3>1. i = 1 \/ i \in 2..Len(r)
      BY <1>2, <1>4, <2>4
    <3>2. QED
      BY ZenonT(30), <1>2, <2>2, <2>4, <3>1
  <2>12. \A m : <<m, Size>> \in Range(front \o b) <=> \E i \in 1..k : q[i].m = m
    BY Zenon, <1>5, <2>5, <2>9
  <2>13. QED
    BY ZenonT(30), <1>2, <2>4, <2>7, <2>8, <2>9, <2>10, <2>11, <2>12
<1>8. QED
  BY Zenon, <1>6, <1>7

-----------------------------------------------------------------------------
(* The stream of bytes *)

\* The engine's loop holds pushes and calls of handlers.
Task == [kind : {"push"}, m : Message] \cup [kind : {"done"}, m : Message, ok : BOOLEAN]

\* What the variables hold.
OutboundTypeOK ==
  /\ tasks \in Seq(Task)
  /\ pushes \in [Pushers -> 0..MaxPush]
  /\ written \in Seq(Message)
  /\ m_messages \in Seq(Chunk)
  /\ m_state \in {"idle", "flushing"}
  /\ op \in Nat
  /\ wire \in Seq(Byte)
  /\ results \in [Message -> Seq(BOOLEAN)]

\* An idle stream has nothing to send, a write never offers more than there
\* is, and after an error there is none any more.
Writer ==
  /\ m_state = "idle" => m_messages = <<>> /\ op = 0
  /\ op <= Covered(m_messages, Len(m_messages))
  /\ Failed => m_state = "flushing" /\ op = 0

\* A handler is called with success exactly for the messages sent to the end.
Acked == \A m \in Message : Completed(m, TRUE) <=> <<m, Size>> \in Range(wire)

\* The inductive invariant of the byte stream.
ByteInv == OutboundTypeOK /\ Writer /\ Conservation /\ Acked

\* No chunks are no bytes.
LEMMA EmptyJoined == Joined(<<>>, 0) = <<>> /\ <<>> \in Seq(Chunk) /\ <<>> \in Seq(Byte)
<1>1. <<>> \in Seq(Chunk) /\ <<>> \in Seq(Byte)
  OBVIOUS
<1>2. \A q \in Seq(Chunk) : Joined(q, 0) = <<>>
  BY Zenon, JoinedStep
<1>3. QED
  BY Zenon, <1>1, <1>2

\* It holds when the session starts.
LEMMA BytesStart == OutboundInit => ByteInv
<1> SUFFICES ASSUME OutboundInit PROVE ByteInv
  BY Zenon
<1>1. OutboundTypeOK
  BY OutboundAssumption DEF OutboundInit, OutboundTypeOK
<1>2. Remaining = <<>> /\ EncodedBytes = <<>> /\ Covered(m_messages, Len(m_messages)) = 0
  <2>1. m_messages = <<>> /\ Chunks = <<>> /\ Len(m_messages) = 0 /\ Len(written) = 0
    BY DEF OutboundInit, Chunks
  <2>2. QED
    BY Zenon, <2>1, EmptyJoined DEF Remaining, EncodedBytes, Covered
<1>3. \A m \in Message, ok \in BOOLEAN : ~Completed(m, ok)
  BY DEF OutboundInit, Completed, Range
<1>4. ~Failed
  BY DEF OutboundInit, Failed, Range
<1>5. wire = <<>> /\ m_messages = <<>> /\ op = 0 /\ Len(<<>>) = 0 /\ DOMAIN <<>> = {} /\ <<>> \o <<>> = <<>>
  BY DEF OutboundInit
<1>6. Writer
  BY <1>2, <1>4, <1>5 DEF Writer
<1>7. Conservation
  BY <1>2, <1>5 DEF Conservation
<1>8. Acked
  <2>1. Range(wire) = {}
    BY Zenon, <1>5 DEF Range
  <2>2. QED
    BY Zenon, <1>3, <2>1 DEF Acked
<1>9. QED
  BY Zenon, <1>1, <1>6, <1>7, <1>8 DEF ByteInv

\* write() adds the whole message to what is to be sent.
LEMMA EncodedGrows ==
  ASSUME written \in Seq(Message), NEW m \in Message, written' = Append(written, m)
  PROVE  /\ [m |-> m, at |-> 1] \in Chunk /\ EncodedBytes \in Seq(Byte)
         /\ EncodedBytes' = EncodedBytes \o Bytes([m |-> m, at |-> 1])
<1> DEFINE c == [m |-> m, at |-> 1]
<1>1. c \in Chunk /\ \A d \in Message : [m |-> d, at |-> 1] \in Chunk
  BY OutboundAssumption DEF Chunk
<1>2. Chunks \in Seq(Chunk) /\ Len(Chunks) = Len(written) /\ Len(written) \in Nat
  BY <1>1 DEF Chunks
<1>3. Chunks' = Append(Chunks, c) /\ Len(written') = Len(Append(Chunks, c))
  <2>1. /\ Chunks' \in Seq(Chunk) /\ Len(Chunks') = Len(written) + 1
        /\ \A i \in 1..Len(written) + 1 : Chunks'[i] = [m |-> Append(written, m)[i], at |-> 1]
    BY <1>1 DEF Chunks
  <2>2. /\ Append(Chunks, c) \in Seq(Chunk) /\ Len(Append(Chunks, c)) = Len(written) + 1
        /\ \A i \in 1..Len(written) + 1 : Append(Chunks, c)[i] = [m |-> Append(written, m)[i], at |-> 1]
    BY <1>1, <1>2 DEF Chunks
  <2>3. QED
    BY <1>2, <2>1, <2>2, SameSequence
<1>4. Len(Chunks) \in 0..Len(Chunks)
  BY <1>2
<1> HIDE DEF c
<1>5. EncodedBytes \in Seq(Byte)
  BY Zenon, <1>2, <1>4, JoinedStep DEF EncodedBytes
<1>6. EncodedBytes' = Joined(Append(Chunks, c), Len(Append(Chunks, c)))
  BY Zenon, <1>3 DEF EncodedBytes
<1>7. EncodedBytes' = EncodedBytes \o Bytes(c)
  BY Zenon, <1>1, <1>2, <1>6, JoinedAppend DEF EncodedBytes
<1>8. QED
  BY Zenon, <1>1, <1>5, <1>7 DEF c

\* A message that the socket takes n bytes of at once.
LEMMA PartlyWritten ==
  ASSUME NEW m \in Message, NEW n \in 0..(Size - 1)
  PROVE  LET b == Bytes([m |-> m, at |-> 1])
         IN  /\ b \in Seq(Byte) /\ SubSeq(b, 1, n) \in Seq(Byte)
             /\ [m |-> m, at |-> n + 1] \in Chunk
             /\ b = SubSeq(b, 1, n) \o Bytes([m |-> m, at |-> n + 1])
             /\ n = 0 => SubSeq(b, 1, n) = <<>>
             /\ \A d : <<d, Size>> \notin Range(SubSeq(b, 1, n))
             /\ \A d : <<d, Size>> \in Range(b) <=> d = m
<1> DEFINE c == [m |-> m, at |-> 1]
           b == Bytes(c)
           e == [m |-> m, at |-> n + 1]
           a == SubSeq(b, 1, n)
<1>1. c \in Chunk /\ e \in Chunk /\ n \in Nat /\ Size \in Nat
  BY OutboundAssumption DEF Chunk
<1>2. /\ b \in Seq(Byte) /\ Len(b) = Size /\ \A i \in 1..Size : b[i] = <<m, i>>
  <2>1. Size - 1 + 1 = Size /\ \A i \in 1..Size : 1 + i - 1 = i
    BY <1>1
  <2>2. c.m = m /\ c.at = 1
    BY Zenon
  <2> HIDE DEF c
  <2>3. /\ Bytes(c) \in Seq(Byte) /\ Len(Bytes(c)) = Size - c.at + 1
        /\ \A i \in 1..Len(Bytes(c)) : Bytes(c)[i] = <<c.m, c.at + i - 1>>
    BY Zenon, <1>1, ChunkBytes
  <2>4. QED
    BY Zenon, <2>1, <2>2, <2>3
<1>3. /\ Bytes(e) \in Seq(Byte) /\ Len(Bytes(e)) = Size - n /\ \A i \in 1..Size - n : Bytes(e)[i] = <<m, n + i>>
  <2>1. Size - (n + 1) + 1 = Size - n /\ \A i \in 1..Size - n : (n + 1) + i - 1 = n + i
    BY <1>1
  <2>2. e.m = m /\ e.at = n + 1
    BY Zenon
  <2> HIDE DEF e
  <2>3. /\ Bytes(e) \in Seq(Byte) /\ Len(Bytes(e)) = Size - e.at + 1
        /\ \A i \in 1..Len(Bytes(e)) : Bytes(e)[i] = <<e.m, e.at + i - 1>>
    BY Zenon, <1>1, ChunkBytes
  <2>4. QED
    BY <2>1, <2>2, <2>3
<1> HIDE DEF b
<1>4. a \in Seq(Byte) /\ Len(a) = n /\ \A i \in 1..n : a[i] = b[i]
  BY <1>1, <1>2
<1>5. \A d : <<d, Size>> \notin Range(a)
  <2>1. n < Len(Bytes(c))
    BY <1>1, <1>2 DEF b
  <2>2. QED
    BY ZenonT(30), <1>1, <2>1, PartHasNoLastByte DEF b
<1>6. \A d : <<d, Size>> \in Range(b) <=> d = m
  <2>1. \A d : <<d, Size>> \in Range(Bytes(c)) <=> c.m = d
    BY Zenon, <1>1, LastByte
  <2>2. QED
    BY Zenon, <2>1 DEF b
<1>7. b = a \o Bytes(e)
  <2> DEFINE v == Bytes(e)
  <2> HIDE DEF a, v
  <2>1. v \in Seq(Byte) /\ Len(v) = Size - n /\ \A i \in 1..Size - n : v[i] = <<m, n + i>>
    BY Zenon, <1>3 DEF v
  <2>2. a \o v \in Seq(Byte) /\ Len(a \o v) = n + (Size - n)
    <3>1. a \o v \in Seq(Byte) /\ Len(a \o v) = Len(a) + Len(v)
      BY ZenonT(30), <1>4, <2>1, Catenated
    <3>2. QED
      BY Zenon, <1>4, <2>1, <3>1
  <2>3. \A i \in 1..n + (Size - n) : (a \o v)[i] = IF i <= n THEN a[i] ELSE v[i - n]
    BY <1>1, <1>4, <2>1
  <2>4. ASSUME NEW i \in 1..Size PROVE b[i] = (a \o v)[i]
    <3>1. CASE i <= n
      BY <1>1, <1>2, <1>4, <2>3, <3>1
    <3>2. CASE ~(i <= n)
      <4>1. i - n \in 1..Size - n /\ n + (i - n) = i /\ i \in 1..n + (Size - n)
        BY <1>1, <3>2
      <4>2. QED
        BY ZenonT(30), <1>2, <2>1, <2>3, <3>2, <4>1
    <3>3. QED
      BY Zenon, <3>1, <3>2
  <2>5. n + (Size - n) = Size
    BY <1>1
  <2>6. b = a \o v
    BY ZenonT(30), <1>2, <2>2, <2>4, <2>5, SameSequence
  <2>7. QED
    BY Zenon, <2>6 DEF v
<1>8. n = 0 => a = <<>>
  BY <1>4
<1>9. QED
  BY ZenonT(30), <1>1, <1>2, <1>4, <1>5, <1>6, <1>7, <1>8 DEF b

\* A prefix stays one when the stream grows.
LEMMA Prefixes ==
  ASSUME NEW s \in Seq(Byte), NEW t \in Seq(Byte), NEW u \in Seq(Byte),
         Len(s) <= Len(t), \A i \in DOMAIN s : s[i] = t[i]
  PROVE  Len(s) <= Len(t \o u) /\ \A i \in DOMAIN s : s[i] = (t \o u)[i]
<1>1. Len(t \o u) = Len(t) + Len(u) /\ \A i \in 1..Len(t) : (t \o u)[i] = t[i]
  OBVIOUS
<1>2. Len(s) \in Nat /\ Len(t) \in Nat /\ Len(u) \in Nat /\ DOMAIN s = 1..Len(s)
  OBVIOUS
<1>3. QED
  BY <1>1, <1>2

\* A failure is a handler called, or to be called, with an error.
LEMMA FailedIs == Failed <=> \E m \in Message : Completed(m, FALSE)
  BY Zenon DEF Failed, Completed

\* Calls of handlers differ when their message or their result does.
LEMMA DoneTasks ==
  \A d, e \in Message, ok, fine \in BOOLEAN :
    DoneTask(d, ok) \in Task /\ (DoneTask(d, ok) = DoneTask(e, fine) <=> d = e /\ ok = fine)
  BY Zenon DEF DoneTask, Task

\* write() keeps the stream whether the socket takes all of the message, a
\* part of it or nothing.
LEMMA WriteBytes ==
  ASSUME ByteInv, NEW m \in Message, NEW q \in Seq(Task), Write(m, q),
         \A d \in Message, ok \in BOOLEAN : DoneTask(d, ok) \in Range(q) <=> DoneTask(d, ok) \in Range(tasks),
         results' = results, pushes' \in [Pushers -> 0..MaxPush]
  PROVE  ByteInv'
<1> DEFINE b == Bytes([m |-> m, at |-> 1])
<1>1. /\ tasks \in Seq(Task) /\ written \in Seq(Message) /\ m_messages \in Seq(Chunk) /\ wire \in Seq(Byte)
      /\ m_state \in {"idle", "flushing"} /\ op \in Nat /\ results \in [Message -> Seq(BOOLEAN)]
      /\ Len(m_messages) \in 0..Len(m_messages)
  BY DEF ByteInv, OutboundTypeOK
<1>2. written' = Append(written, m) /\ written' \in Seq(Message)
  BY <1>1 DEF Write
<1>3. EncodedBytes \in Seq(Byte) /\ EncodedBytes' = EncodedBytes \o b
  BY Zenon, <1>1, <1>2, EncodedGrows
<1>4. Remaining \in Seq(Byte)
  BY Zenon, <1>1, JoinedStep DEF Remaining
<1>5. b \in Seq(Byte) /\ \A d : <<d, Size>> \in Range(b) <=> d = m
  <2>1. 0 \in 0..(Size - 1)
    BY OutboundAssumption
  <2>2. QED
    BY <2>1, PartlyWritten, Zenon
<1> HIDE DEF b
<1>6. CASE /\ m_state = "idle"
           /\ wire' = wire \o b
           /\ tasks' = Append(q, DoneTask(m, TRUE))
           /\ UNCHANGED writerVars
  <2>1. ~Failed /\ m_messages = <<>> /\ op = 0 /\ UNCHANGED <<m_messages, m_state, op>>
    BY Zenon, <1>6 DEF ByteInv, Writer, writerVars
  <2>2. PICK done \in Task : done = DoneTask(m, TRUE)
    BY Zenon, DoneTasks
  <2>3. OutboundTypeOK'
    <3>1. tasks' \in Seq(Task) /\ wire' \in Seq(Byte)
      <4>1. Append(q, done) \in Seq(Task) /\ wire \o b \in Seq(Byte)
        BY <1>1, <1>5
      <4>2. QED
        BY <1>6, <2>2, <4>1, Zenon
    <3>2. QED
      BY Zenon, <1>1, <1>2, <2>1, <3>1 DEF OutboundTypeOK
  <2>4. \A d \in Message, ok \in BOOLEAN : Completed(d, ok)' <=> Completed(d, ok) \/ (d = m /\ ok = TRUE)
    <3>1. Range(tasks') = Range(q) \cup {DoneTask(m, TRUE)}
      <4>1. Range(Append(q, done)) = Range(q) \cup {done}
        BY RangeAppend
      <4>2. QED
        BY <1>6, <2>2, <4>1, Zenon
    <3>2. QED
      BY ZenonT(30), <3>1, DoneTasks DEF Completed
  <2>5. ~Failed'
    <3>1. \A d \in Message : ~Completed(d, FALSE)
      BY Zenon, <2>1, FailedIs
    <3>2. \A d \in Message : ~Completed(d, FALSE)'
      BY Zenon, <2>4, <3>1
    <3>3. QED
      BY Zenon, <3>2 DEF Failed, Completed
  <2>6. Writer'
    BY Zenon, <2>1, <2>5 DEF ByteInv, Writer
  <2>7. Remaining = <<>> /\ Remaining' = <<>>
    BY Zenon, <2>1, EmptyJoined DEF Remaining
  <2>8. wire = EncodedBytes
    BY ZenonT(30), <1>1, <2>1, <2>7, EmptyCat DEF ByteInv, Conservation
  <2>9. wire' = EncodedBytes' /\ wire' \in Seq(Byte)
    BY SMTT(30), <1>1, <1>3, <1>5, <1>6, <2>8
  <2>10. Conservation'
    <3>1. wire' \o Remaining' = EncodedBytes'
      BY Zenon, <2>7, <2>9, EmptyCat
    <3>2. QED
      BY <2>9, <3>1 DEF Conservation
  <2>11. Acked'
    <3>1. Range(wire') = Range(wire) \cup Range(b)
      BY <1>1, <1>5, <1>6, RangeCat
    <3>2. QED
      BY ZenonT(30), <1>5, <2>4, <3>1 DEF ByteInv, Acked
  <2>12. QED
    BY Zenon, <2>3, <2>6, <2>10, <2>11 DEF ByteInv
<1>7. ASSUME NEW n \in 0..(Size - 1), n > 0 => m_state = "idle",
             wire' = wire \o SubSeq(b, 1, n), Enqueue(m, n), tasks' = q
      PROVE  ByteInv'
  <2> DEFINE a == SubSeq(b, 1, n)
             e == [m |-> m, at |-> n + 1]
  <2>1. /\ a \in Seq(Byte) /\ e \in Chunk /\ b = a \o Bytes(e) /\ (n = 0 => a = <<>>)
        /\ \A d : <<d, Size>> \notin Range(a)
    BY Zenon, PartlyWritten DEF b
  <2> HIDE DEF a, e
  <2>2. /\ m_messages' = Append(m_messages, e) /\ m_state' = "flushing" /\ wire' = wire \o a
        /\ op' = IF m_state = "flushing" THEN op ELSE Covered(m_messages', Len(m_messages'))
    BY Zenon, <1>7 DEF Enqueue, a, e
  <2>3. Bytes(e) \in Seq(Byte) /\ Len(Bytes(e)) \in Nat
    BY Zenon, <2>1, ChunkBytes
  <2>4. Remaining' = Remaining \o Bytes(e) /\ Remaining' \in Seq(Byte) /\ m_messages' \in Seq(Chunk)
    <3>1. Joined(Append(m_messages, e), Len(Append(m_messages, e))) = Joined(m_messages, Len(m_messages)) \o Bytes(e)
      BY Zenon, <1>1, <2>1, JoinedAppend
    <3>2. Remaining' = Remaining \o Bytes(e)
      BY Zenon, <2>2, <3>1 DEF Remaining
    <3>3. QED
      BY <1>1, <1>4, <2>1, <2>2, <2>3, <3>2
  <2>5. Covered(m_messages', Len(m_messages')) \in Nat
        /\ Covered(m_messages, Len(m_messages)) <= Covered(m_messages', Len(m_messages'))
    <3>1. Len(Remaining') = Len(Remaining) + Len(Bytes(e)) /\ Len(Remaining) \in Nat
      BY <1>4, <2>3, <2>4
    <3>2. QED
      BY <2>3, <3>1 DEF Covered, Remaining
  <2>6. OutboundTypeOK'
    <3>1. wire' \in Seq(Byte) /\ op' \in Nat /\ m_state' \in {"idle", "flushing"}
      BY <1>1, <2>1, <2>2, <2>5
    <3>2. QED
      BY ZenonT(30), <1>1, <1>2, <1>7, <2>4, <3>1 DEF OutboundTypeOK
  <2>7. \A d \in Message, ok \in BOOLEAN : Completed(d, ok)' <=> Completed(d, ok)
    BY Zenon, <1>7 DEF Completed
  <2>8. Failed' <=> Failed
    <3>1. Failed' <=> \E d \in Message : Completed(d, FALSE)'
      BY Zenon DEF Failed, Completed
    <3>2. QED
      BY Zenon, <2>7, <3>1, FailedIs
  <2>9. Writer'
    <3>1. op' <= Covered(m_messages', Len(m_messages'))
      <4>1. Covered(m_messages, Len(m_messages)) \in Nat
        BY <1>4 DEF Covered, Remaining
      <4>2. QED
        BY SMTT(30), <1>1, <2>2, <2>5, <4>1 DEF ByteInv, Writer
    <3>2. QED
      BY ZenonT(30), <2>2, <2>8, <3>1 DEF ByteInv, Writer
  <2>10. Acked'
    <3>1. Range(wire') = Range(wire) \cup Range(a)
      BY <1>1, <2>1, <2>2, RangeCat
    <3>2. QED
      BY ZenonT(30), <2>1, <2>7, <3>1 DEF ByteInv, Acked
  <2>11. CASE Failed
    <3>1. n = 0
      BY <1>7, <2>11 DEF ByteInv, Writer
    <3>2. wire' = wire
      BY ZenonT(30), <1>1, <2>1, <2>2, <3>1, EmptyCat
    <3>3. Len(wire) <= Len(EncodedBytes) /\ \A i \in DOMAIN wire : wire[i] = EncodedBytes[i]
      BY Zenon DEF ByteInv, Conservation
    <3>4. Len(wire') <= Len(EncodedBytes') /\ \A i \in DOMAIN wire' : wire'[i] = EncodedBytes'[i]
      BY ZenonT(30), <1>1, <1>3, <1>5, <3>2, <3>3, Prefixes
    <3>5. QED
      BY ZenonT(30), <2>6, <2>8, <2>9, <2>10, <2>11, <3>4 DEF ByteInv, Conservation
  <2>12. CASE ~Failed
    <3>1. wire \o Remaining = EncodedBytes
      BY Zenon, <2>12 DEF ByteInv, Conservation
    <3>2. (wire \o a) \o (Remaining \o Bytes(e)) = EncodedBytes \o b
      <4>1. CASE n = 0
        <5>1. a = <<>> /\ b = Bytes(e)
          BY ZenonT(30), <2>1, <2>3, <4>1, EmptyCat
        <5>2. wire \o a = wire
          BY Zenon, <1>1, <5>1, EmptyCat
        <5>3. wire \o (Remaining \o Bytes(e)) = (wire \o Remaining) \o Bytes(e)
          BY ZenonT(30), <1>1, <1>4, <2>3, ByteSequences
        <5>4. QED
          BY ZenonT(30), <3>1, <5>1, <5>2, <5>3
      <4>2. CASE n # 0
        <5>1. Remaining = <<>>
          BY <1>7, <4>2, EmptyJoined DEF ByteInv, Writer, Remaining
        <5>2. wire = EncodedBytes /\ Remaining \o Bytes(e) = Bytes(e)
          BY Zenon, <1>1, <2>3, <3>1, <5>1, EmptyCat
        <5>3. (wire \o a) \o Bytes(e) = wire \o (a \o Bytes(e))
          BY ZenonT(30), <1>1, <2>1, <2>3, ByteSequences
        <5>4. QED
          BY Zenon, <2>1, <5>2, <5>3
      <4>3. QED
        BY Zenon, <4>1, <4>2
    <3>3. wire' \o Remaining' = EncodedBytes' /\ wire' \in Seq(Byte)
      BY SMTT(30), <1>1, <1>3, <2>1, <2>2, <2>4, <3>2
    <3>4. Len(wire') <= Len(EncodedBytes') /\ \A i \in DOMAIN wire' : wire'[i] = EncodedBytes'[i]
      <4>1. Len(wire') <= Len(wire') /\ \A i \in DOMAIN wire' : wire'[i] = wire'[i]
        BY <3>3
      <4>2. QED
        BY ZenonT(30), <2>4, <3>3, <4>1, Prefixes
    <3>5. QED
      BY ZenonT(30), <2>6, <2>9, <2>10, <3>3, <3>4 DEF ByteInv, Conservation
  <2>13. QED
    BY Zenon, <2>11, <2>12
<1>8. QED
  BY Zenon, <1>6, <1>7 DEF Write, b

\* A step that writes nothing and completes nothing keeps the stream.
LEMMA SameBytes ==
  ASSUME ByteInv, OutboundTypeOK', UNCHANGED <<written, m_messages, m_state, wire>>, op' \in {op, 0},
         \A d \in Message, ok \in BOOLEAN : Completed(d, ok)' <=> Completed(d, ok)
  PROVE  ByteInv'
<1>1. Failed' <=> Failed
  <2>1. Failed' <=> \E d \in Message : Completed(d, FALSE)'
    BY Zenon DEF Failed, Completed
  <2>2. QED
    BY Zenon, <2>1, FailedIs
<1>2. Remaining' = Remaining /\ EncodedBytes' = EncodedBytes
  BY Zenon DEF Remaining, EncodedBytes, Chunks
<1>3. Covered(m_messages, Len(m_messages)) \in Nat /\ Covered(m_messages, Len(m_messages))' = Covered(m_messages, Len(m_messages))
  <2>1. m_messages \in Seq(Chunk) /\ Len(m_messages) \in 0..Len(m_messages)
    BY DEF ByteInv, OutboundTypeOK
  <2>2. QED
    BY <2>1, JoinedStep DEF Covered
<1>4. Writer'
  BY <1>1, <1>3 DEF ByteInv, Writer
<1>5. Conservation'
  BY Zenon, <1>1, <1>2 DEF ByteInv, Conservation
<1>6. Acked'
  BY Zenon DEF ByteInv, Acked
<1>7. QED
  BY Zenon, <1>4, <1>5, <1>6 DEF ByteInv

\* A push that waits is no call of a handler.
LEMMA PushTasks ==
  \A m \in Message : /\ PushTask(m) \in Task /\ PushTask(m).kind = "push" /\ PushTask(m).m = m
                     /\ \A d \in Message, ok \in BOOLEAN : DoneTask(d, ok) # PushTask(m)
  BY Zenon DEF PushTask, DoneTask, Task

\* The number of a new message is in range.
LEMMA PushTyped ==
  ASSUME OutboundTypeOK, NEW t \in Pushers, Push(t)
  PROVE  /\ [from |-> t, n |-> pushes[t] + 1] \in Message
         /\ pushes' \in [Pushers -> 0..MaxPush]
<1>1. pushes[t] \in 0..MaxPush /\ pushes[t] < MaxPush /\ MaxPush \in Nat
  BY Zenon, OutboundAssumption DEF OutboundTypeOK, Push
<1>2. pushes[t] + 1 \in 1..MaxPush /\ pushes[t] + 1 \in 0..MaxPush
  BY <1>1
<1>3. QED
  BY Zenon, <1>2 DEF Message, OutboundTypeOK, Push

\* push() keeps the stream, on the engine thread and elsewhere.
LEMMA PushBytes ==
  ASSUME ByteInv, NEW t \in Pushers, Push(t)
  PROVE  ByteInv'
<1>1. OutboundTypeOK
  BY Zenon DEF ByteInv
<1>2. PICK m \in Message : m = [from |-> t, n |-> pushes[t] + 1]
  BY Zenon, <1>1, PushTyped
<1>3. /\ Dispatch(t, m) /\ results' = results
      /\ pushes' \in [Pushers -> 0..MaxPush]
  BY Zenon, <1>1, <1>2, PushTyped DEF Push
<1>4. PICK q \in Seq(Task) : q = tasks
  BY Zenon, <1>1 DEF OutboundTypeOK
<1>5. CASE t = Io
  <2>1. Write(m, q)
    BY Zenon, <1>3, <1>4, <1>5 DEF Dispatch
  <2>2. QED
    BY Zenon, <1>3, <1>4, <2>1, WriteBytes
<1>6. CASE t # Io
  <2>1. tasks' = Append(tasks, PushTask(m)) /\ UNCHANGED <<written, m_messages, m_state, op, wire>>
    BY Zenon, <1>3, <1>6 DEF Dispatch, writerVars
  <2>2. PICK new \in Task : new = PushTask(m)
    BY Zenon, PushTasks
  <2>3. Append(q, new) \in Seq(Task) /\ Range(Append(q, new)) = Range(q) \cup {new}
    BY RangeAppend
  <2>4. OutboundTypeOK'
    BY ZenonT(30), <1>1, <1>3, <1>4, <2>1, <2>2, <2>3 DEF OutboundTypeOK
  <2>5. \A d \in Message, ok \in BOOLEAN : Completed(d, ok)' <=> Completed(d, ok)
    BY <1>3, <1>4, <2>1, <2>2, <2>3, PushTasks, ZenonT(30) DEF Completed
  <2>6. QED
    BY Zenon, <2>1, <2>4, <2>5, SameBytes
<1>7. QED
  BY Zenon, <1>5, <1>6

\* So does the loop when it runs a queued push ...
LEMMA RunPushedBytes ==
  ASSUME ByteInv, RunPushed
  PROVE  ByteInv'
<1>1. tasks \in Seq(Task) /\ tasks # <<>> /\ pushes' \in [Pushers -> 0..MaxPush] /\ results' = results
  BY Zenon DEF ByteInv, OutboundTypeOK, RunPushed
<1>2. Head(tasks) \in Task /\ Tail(tasks) \in Seq(Task) /\ Range(tasks) = {Head(tasks)} \cup Range(Tail(tasks))
  BY Zenon, <1>1, HeadTail, RangeTail
<1>3. Head(tasks).kind = "push" /\ Write(Head(tasks).m, Tail(tasks))
  BY Zenon DEF RunPushed
<1>4. Head(tasks).m \in Message /\ \A d, ok : DoneTask(d, ok) # Head(tasks)
  BY <1>2, <1>3 DEF Task, DoneTask
<1>5. PICK m \in Message, q \in Seq(Task) : m = Head(tasks).m /\ q = Tail(tasks)
  BY Zenon, <1>2, <1>4
<1>6. Write(m, q)
  BY Zenon, <1>3, <1>5
<1>7. \A d \in Message, ok \in BOOLEAN : DoneTask(d, ok) \in Range(q) <=> DoneTask(d, ok) \in Range(tasks)
  BY <1>2, <1>4, <1>5, Zenon
<1>8. QED
  BY Zenon, <1>1, <1>6, <1>7, WriteBytes

\* ... and when it calls a handler, whose result moves from tasks to results.
LEMMA RunDoneBytes ==
  ASSUME ByteInv, RunDone
  PROVE  ByteInv'
<1>1. tasks \in Seq(Task) /\ tasks # <<>> /\ results \in [Message -> Seq(BOOLEAN)] /\ tasks' = Tail(tasks)
  BY Zenon DEF ByteInv, OutboundTypeOK, RunDone
<1>2. Head(tasks) \in Task /\ Tail(tasks) \in Seq(Task) /\ Range(tasks) = {Head(tasks)} \cup Range(Tail(tasks))
  BY Zenon, <1>1, HeadTail, RangeTail
<1>3. PICK m \in Message, ok \in BOOLEAN : Head(tasks) = DoneTask(m, ok) /\ m = Head(tasks).m /\ ok = Head(tasks).ok
  <2>1. Head(tasks).kind = "done"
    BY Zenon DEF RunDone
  <2>2. Head(tasks) \in [kind : {"done"}, m : Message, ok : BOOLEAN]
    BY Zenon, <1>2, <2>1 DEF Task
  <2>3. /\ Head(tasks).m \in Message /\ Head(tasks).ok \in BOOLEAN
        /\ Head(tasks) = [kind |-> "done", m |-> Head(tasks).m, ok |-> Head(tasks).ok]
    BY Zenon, <2>2
  <2>4. QED
    BY <2>3, Zenon DEF DoneTask
<1>4. results' = [results EXCEPT ![m] = Append(@, ok)]
  BY Zenon, <1>3 DEF RunDone
<1>5. results[m] \in Seq(BOOLEAN) /\ Append(results[m], ok) \in Seq(BOOLEAN)
  BY <1>1
<1>6. Range(Append(results[m], ok)) = Range(results[m]) \cup {ok}
  BY ZenonT(30), <1>5, RangeAppend
<1>7. UNCHANGED <<pushes, written, m_messages, m_state, op, wire>>
  BY Zenon DEF RunDone, writerVars
<1>8. results' \in [Message -> Seq(BOOLEAN)]
  BY Zenon, <1>1, <1>4, <1>5
<1>9. OutboundTypeOK'
  BY ZenonT(30), <1>1, <1>2, <1>7, <1>8 DEF ByteInv, OutboundTypeOK
<1>10. ASSUME NEW d \in Message, NEW fine \in BOOLEAN PROVE Completed(d, fine)' <=> Completed(d, fine)
  <2>1. DoneTask(d, fine) \in Range(tasks) <=> (d = m /\ fine = ok) \/ DoneTask(d, fine) \in Range(tasks')
    <3>1. DoneTask(d, fine) = DoneTask(m, ok) <=> d = m /\ fine = ok
      BY DoneTasks
    <3>2. QED
      BY <1>1, <1>2, <1>3, <3>1, ZenonT(30)
  <2>2. fine \in Range(results'[d]) <=> (d = m /\ fine = ok) \/ fine \in Range(results[d])
    <3>1. CASE d = m
      <4>1. results'[d] = Append(results[m], ok)
        BY Zenon, <1>1, <1>4, <3>1
      <4>2. QED
        BY <1>6, <3>1, <4>1, Zenon
    <3>2. CASE d # m
      <4>1. results'[d] = results[d]
        BY ZenonT(30), <1>1, <1>4, <3>2
      <4>2. QED
        BY <3>2, <4>1, Zenon
    <3>3. QED
      BY Zenon, <3>1, <3>2
  <2>3. QED
    BY <2>1, <2>2, Zenon DEF Completed
<1>11. QED
  BY Zenon, <1>7, <1>9, <1>10, SameBytes

\* The completions that flush() posts for the first k chunks of q.
LEMMA CompletionTasks ==
  ASSUME NEW q \in Seq(Chunk), NEW k \in 0..Len(q), NEW ok \in BOOLEAN
  PROVE  LET all == [i \in 1..k |-> DoneTask(q[i].m, ok)]
         IN  all \in Seq(Task) /\ Len(all) = k /\ \A i \in 1..k : all[i] = DoneTask(q[i].m, ok)
<1>1. k \in Nat /\ \A i \in 1..k : i \in 1..Len(q)
  OBVIOUS
<1>2. \A i \in 1..k : q[i].m \in Message
  <2>1. \A i \in 1..k : q[i] \in Chunk
    BY <1>1
  <2>2. QED
    BY Zenon, <2>1 DEF Chunk
<1>3. \A i \in 1..k : DoneTask(q[i].m, ok) \in Task
  BY Zenon, <1>2, DoneTasks
<1>4. QED
  BY <1>1, <1>3

\* They complete the messages of those chunks and no other.
LEMMA Completions ==
  ASSUME NEW q \in Seq(Chunk), NEW k \in 0..Len(q), NEW ok \in BOOLEAN, NEW r \in Seq(Task),
         NEW all \in Seq(Task), Len(all) = k, \A i \in 1..k : all[i] = DoneTask(q[i].m, ok)
  PROVE  /\ r \o all \in Seq(Task)
         /\ \A d \in Message, fine \in BOOLEAN :
              DoneTask(d, fine) \in Range(r \o all)
                <=> \/ DoneTask(d, fine) \in Range(r)
                    \/ fine = ok /\ \E i \in 1..k : q[i].m = d
<1>1. k \in Nat /\ \A i \in 1..k : q[i].m \in Message
  <2>1. k \in Nat /\ \A i \in 1..k : i \in 1..Len(q)
    OBVIOUS
  <2>2. \A i \in 1..k : q[i] \in Chunk
    BY <2>1
  <2>3. QED
    BY Zenon, <2>1, <2>2 DEF Chunk
<1>2. DOMAIN all = 1..k
  BY <1>1
<1>3. ASSUME NEW d \in Message, NEW fine \in BOOLEAN
      PROVE  DoneTask(d, fine) \in Range(all) <=> fine = ok /\ \E i \in 1..k : q[i].m = d
  <2>1. DoneTask(d, fine) \in Range(all) <=> \E i \in 1..k : DoneTask(d, fine) = DoneTask(q[i].m, ok)
    BY <1>2, Zenon DEF Range
  <2>2. \A i \in 1..k : DoneTask(d, fine) = DoneTask(q[i].m, ok) <=> d = q[i].m /\ fine = ok
    BY SMTT(30), <1>1, DoneTasks
  <2>3. QED
    BY <2>1, <2>2, Zenon
<1>4. r \o all \in Seq(Task) /\ Range(r \o all) = Range(r) \cup Range(all)
  BY RangeCat
<1>5. \A d \in Message, fine \in BOOLEAN :
        DoneTask(d, fine) \in Range(r \o all)
          <=> DoneTask(d, fine) \in Range(r) \/ (fine = ok /\ \E i \in 1..k : q[i].m = d)
  BY <1>3, <1>4, Zenon
<1>6. QED
  BY <1>4, <1>5, Zenon

\* flush() moves bytes from the front of the queue to the wire, and completes
\* the messages whose last byte went.
LEMMA FlushBytes ==
  ASSUME ByteInv, Flush
  PROVE  ByteInv'
<1>1. /\ tasks \in Seq(Task) /\ m_messages \in Seq(Chunk) /\ wire \in Seq(Byte) /\ op \in Nat /\ op > 0
      /\ m_state = "flushing" /\ ~Failed /\ op <= Covered(m_messages, Len(m_messages))
      /\ Len(m_messages) \in 0..Len(m_messages) /\ UNCHANGED <<pushes, written, results>>
  BY DEF ByteInv, OutboundTypeOK, Writer, Flush
<1>2. Remaining \in Seq(Byte) /\ Covered(m_messages, Len(m_messages)) \in Nat
  BY <1>1, JoinedStep DEF Remaining, Covered
<1>3. PICK n \in 1..op :
        /\ wire' = wire \o SubSeq(Remaining, 1, n)
        /\ m_messages' = After(n)
        /\ tasks' = tasks \o [k \in 1..Whole(n) |-> DoneTask(m_messages[k].m, TRUE)]
        /\ Rearm(m_messages')
  BY Zenon DEF Flush
<1>4. n \in Nat /\ n <= Covered(m_messages, Len(m_messages))
  BY <1>1, <1>2
<1>5. PICK taken, rest, all : taken = SubSeq(Remaining, 1, n) /\ rest = After(n)
                              /\ all = [k \in 1..Whole(n) |-> DoneTask(m_messages[k].m, TRUE)]
  BY Zenon
<1>6. /\ taken \in Seq(Byte) /\ rest \in Seq(Chunk)
      /\ Remaining = taken \o Joined(rest, Len(rest))
      /\ \A m : <<m, Size>> \in Range(taken) <=> \E i \in 1..Whole(n) : m_messages[i].m = m
  BY <1>1, <1>4, <1>5, FlushSplits, ZenonT(30)
<1>7. wire' = wire \o taken /\ m_messages' = rest /\ Remaining' = Joined(rest, Len(rest))
  BY Zenon, <1>3, <1>5 DEF Remaining
<1>8. Whole(n) \in 0..Len(m_messages)
  BY ZenonT(30), <1>1, <1>4, WholeChunks
<1>9. /\ tasks' \in Seq(Task)
      /\ \A d \in Message, fine \in BOOLEAN :
           DoneTask(d, fine) \in Range(tasks')
             <=> DoneTask(d, fine) \in Range(tasks) \/ (fine = TRUE /\ \E i \in 1..Whole(n) : m_messages[i].m = d)
  <2>1. TRUE \in BOOLEAN /\ tasks' = tasks \o all
    BY Zenon, <1>3, <1>5
  <2>2. PICK q \in Seq(Chunk), r \in Seq(Task), ok \in BOOLEAN : q = m_messages /\ r = tasks /\ ok = TRUE
    BY Zenon, <1>1
  <2>3. PICK k \in 0..Len(q) : k = Whole(n)
    BY Zenon, <1>8, <2>2
  <2>4. all = [i \in 1..k |-> DoneTask(q[i].m, ok)]
    BY <1>5, <2>2, <2>3, ZenonT(30)
  <2>5. /\ r \o all \in Seq(Task)
        /\ \A d \in Message, fine \in BOOLEAN :
             DoneTask(d, fine) \in Range(r \o all)
               <=> DoneTask(d, fine) \in Range(r) \/ (fine = ok /\ \E i \in 1..k : q[i].m = d)
    <3>1. all \in Seq(Task) /\ Len(all) = k /\ \A i \in 1..k : all[i] = DoneTask(q[i].m, ok)
      BY <2>4, CompletionTasks, ZenonT(30)
    <3>2. QED
      BY <3>1, Completions
  <2>6. QED
    BY <2>1, <2>2, <2>3, <2>5, ZenonT(30)
<1>10. \A d \in Message, fine \in BOOLEAN :
         Completed(d, fine)' <=> Completed(d, fine) \/ (fine = TRUE /\ \E i \in 1..Whole(n) : m_messages[i].m = d)
  BY <1>1, <1>9, Zenon DEF Completed
<1>11. ~Failed'
  <2>1. \A d \in Message : ~Completed(d, FALSE)
    BY Zenon, <1>1, FailedIs
  <2>2. \A d \in Message : ~Completed(d, FALSE)'
    BY Zenon, <1>10, <2>1
  <2>3. QED
    BY Zenon, <2>2 DEF Failed, Completed
<1>12. Joined(rest, Len(rest)) \in Seq(Byte) /\ Len(Joined(rest, Len(rest))) \in Nat
  <2>1. Len(rest) \in 0..Len(rest)
    BY <1>6
  <2>2. QED
    BY <1>6, <2>1, JoinedStep
<1>13. /\ m_state' = IF rest = <<>> THEN "idle" ELSE m_state
       /\ op' = IF rest = <<>> THEN 0 ELSE Len(Joined(rest, Len(rest)))
  BY Zenon, <1>3, <1>7 DEF Rearm, Covered
<1>14. OutboundTypeOK'
  <2>1. wire' \in Seq(Byte) /\ op' \in Nat /\ m_state' \in {"idle", "flushing"}
    BY SMTT(30), <1>1, <1>6, <1>7, <1>12, <1>13
  <2>2. QED
    BY ZenonT(30), <1>1, <1>6, <1>7, <1>9, <2>1 DEF ByteInv, OutboundTypeOK
<1>15. Writer'
  <2>1. op' <= Len(Joined(rest, Len(rest)))
    BY <1>12, <1>13
  <2>2. QED
    BY ZenonT(30), <1>1, <1>7, <1>11, <1>13, <2>1 DEF Writer, Covered
<1>16. EncodedBytes' = EncodedBytes
  BY Zenon, <1>1 DEF EncodedBytes, Chunks
<1>17. wire' \o Remaining' = EncodedBytes' /\ wire' \in Seq(Byte)
  <2>1. (wire \o taken) \o Joined(rest, Len(rest)) = wire \o (taken \o Joined(rest, Len(rest))) /\ wire \o taken \in Seq(Byte)
    BY ZenonT(30), <1>1, <1>6, <1>12, ByteSequences
  <2>2. wire \o Remaining = EncodedBytes
    BY Zenon, <1>1 DEF ByteInv, Conservation
  <2>3. QED
    BY ZenonT(30), <1>6, <1>7, <1>16, <2>1, <2>2
<1>18. Conservation'
  <2>1. Len(wire') <= Len(wire') /\ \A i \in DOMAIN wire' : wire'[i] = wire'[i]
    BY <1>17
  <2>2. Len(wire') <= Len(EncodedBytes') /\ \A i \in DOMAIN wire' : wire'[i] = EncodedBytes'[i]
    BY ZenonT(30), <1>7, <1>12, <1>17, <2>1, Prefixes
  <2>3. QED
    BY ZenonT(30), <1>17, <2>2 DEF Conservation
<1>19. Acked'
  <2>1. Range(wire') = Range(wire) \cup Range(taken)
    BY SMTT(30), <1>1, <1>6, <1>7, RangeCat
  <2>2. QED
    BY Zenon, <1>6, <1>10, <2>1 DEF ByteInv, Acked
<1>20. QED
  BY ZenonT(30), <1>14, <1>15, <1>18, <1>19 DEF ByteInv

\* flush() with an error gives up the queue, and the wire stays a prefix.
LEMMA FlushErrorBytes ==
  ASSUME ByteInv, FlushError
  PROVE  ByteInv'
<1>1. /\ tasks \in Seq(Task) /\ m_messages \in Seq(Chunk) /\ op \in Nat /\ op > 0
      /\ op <= Covered(m_messages, Len(m_messages)) /\ m_state = "flushing"
      /\ m_messages' = <<>> /\ op' = 0 /\ UNCHANGED <<pushes, written, m_state, wire, results>>
      /\ tasks' = tasks \o [k \in 1..Len(m_messages) |-> DoneTask(m_messages[k].m, FALSE)]
  <2>1. m_messages \in Seq(Chunk) /\ DOMAIN m_messages = 1..Len(m_messages)
    BY DEF ByteInv, OutboundTypeOK
  <2>2. tasks' = tasks \o [k \in 1..Len(m_messages) |-> DoneTask(m_messages[k].m, FALSE)]
    BY <2>1, Zenon DEF FlushError
  <2>3. QED
    BY <2>1, <2>2 DEF ByteInv, OutboundTypeOK, Writer, FlushError
<1>2. m_messages # <<>> /\ Len(m_messages) \in 0..Len(m_messages) /\ 1 \in 1..Len(m_messages) /\ m_messages[1].m \in Message
  <2>1. m_messages # <<>>
    BY <1>1, EmptyJoined DEF Covered
  <2>2. Len(m_messages) \in 0..Len(m_messages) /\ 1 \in 1..Len(m_messages) /\ m_messages[1] \in Chunk
    BY <1>1, <2>1
  <2>3. QED
    BY ZenonT(30), <2>1, <2>2 DEF Chunk
<1>3. /\ tasks' \in Seq(Task)
      /\ \A d \in Message, fine \in BOOLEAN :
           DoneTask(d, fine) \in Range(tasks')
             <=> DoneTask(d, fine) \in Range(tasks) \/ (fine = FALSE /\ \E i \in 1..Len(m_messages) : m_messages[i].m = d)
  <2>1. PICK all : all = [k \in 1..Len(m_messages) |-> DoneTask(m_messages[k].m, FALSE)]
    BY Zenon
  <2>2. FALSE \in BOOLEAN /\ tasks' = tasks \o all
    BY Zenon, <1>1, <2>1
  <2>3. PICK q \in Seq(Chunk), r \in Seq(Task), ok \in BOOLEAN : q = m_messages /\ r = tasks /\ ok = FALSE
    BY Zenon, <1>1
  <2>4. PICK k \in 0..Len(q) : k = Len(m_messages)
    BY Zenon, <1>2, <2>3
  <2>5. all = [i \in 1..k |-> DoneTask(q[i].m, ok)]
    BY <2>1, <2>3, <2>4, ZenonT(30)
  <2>6. /\ r \o all \in Seq(Task)
        /\ \A d \in Message, fine \in BOOLEAN :
             DoneTask(d, fine) \in Range(r \o all)
               <=> DoneTask(d, fine) \in Range(r) \/ (fine = ok /\ \E i \in 1..k : q[i].m = d)
    <3>1. all \in Seq(Task) /\ Len(all) = k /\ \A i \in 1..k : all[i] = DoneTask(q[i].m, ok)
      BY <2>5, CompletionTasks, ZenonT(30)
    <3>2. QED
      BY SMTT(30), <3>1, Completions
  <2>7. QED
    BY <2>2, <2>3, <2>4, <2>6, ZenonT(30)
<1>4. Failed'
  <2>1. DoneTask(m_messages[1].m, FALSE) \in Range(tasks')
    BY <1>2, <1>3, Zenon
  <2>2. QED
    BY <1>2, <2>1, Zenon DEF Failed
<1>5. \A d \in Message : Completed(d, TRUE)' <=> Completed(d, TRUE)
  <2>1. TRUE \in BOOLEAN /\ TRUE # FALSE
    BY Zenon
  <2>2. QED
    BY <1>1, <1>3, <2>1, Zenon DEF Completed
<1>6. OutboundTypeOK'
  <2>1. m_messages' \in Seq(Chunk) /\ op' \in Nat
    BY <1>1
  <2>2. QED
    BY Zenon, <1>1, <1>3, <2>1 DEF ByteInv, OutboundTypeOK
<1>7. Writer'
  <2>1. Covered(<<>>, 0) = 0
    BY EmptyJoined DEF Covered
  <2>2. QED
    BY <1>1, <2>1 DEF Writer
<1>8. EncodedBytes' = EncodedBytes
  BY Zenon, <1>1 DEF EncodedBytes, Chunks
<1>9. Conservation'
  BY Zenon, <1>1, <1>4, <1>8 DEF ByteInv, Conservation
<1>10. Acked'
  BY Zenon, <1>1, <1>5 DEF ByteInv, Acked
<1>11. QED
  BY ZenonT(30), <1>6, <1>7, <1>9, <1>10 DEF ByteInv

\* Every step keeps the stream.
LEMMA BytesStep == ByteInv /\ [OutboundNext]_outboundVars => ByteInv'
<1> SUFFICES ASSUME ByteInv, [OutboundNext]_outboundVars PROVE ByteInv'
  BY Zenon
<1>1. ASSUME FlushAborted \/ Detach \/ Break \/ UNCHANGED outboundVars PROVE ByteInv'
  <2>1. UNCHANGED <<tasks, pushes, written, m_messages, m_state, wire, results>> /\ op' \in {op, 0}
    BY ZenonT(30), <1>1 DEF FlushAborted, Detach, Break, outboundVars, writerVars
  <2>2. OutboundTypeOK'
    BY <2>1 DEF ByteInv, OutboundTypeOK
  <2>3. \A d \in Message, ok \in BOOLEAN : Completed(d, ok)' <=> Completed(d, ok)
    BY Zenon, <2>1 DEF Completed
  <2>4. QED
    BY ZenonT(30), <2>1, <2>2, <2>3, SameBytes
<1>2. QED
  BY ZenonT(30), <1>1, PushBytes, RunPushedBytes, RunDoneBytes, FlushBytes, FlushErrorBytes DEF OutboundNext, WriterLoop

\* For any number of threads, messages and bytes in a message, and however the
\* socket splits its writes, writable_stream neither loses nor repeats nor
\* reorders a byte.
THEOREM BytesConserved == OutboundSpec => []Conservation
<1>1. ByteInv => Conservation
  BY Zenon DEF ByteInv
<1>2. QED
  BY <1>1, BytesStart, BytesStep, PTL DEF OutboundSpec

-----------------------------------------------------------------------------
(* One completion for every message *)

\* The items of a queue, tasks or chunks, are for different messages.
Distinct(s) == \A i, j \in DOMAIN s : s[i].m = s[j].m => i = j

\* A message with number at most p[from] that none of the queue's items is for
\* and no handler was called for.
Absent(m, s) == \A i \in DOMAIN s : s[i].m # m
\* The sender has pushed the message.
Pushed(m, p) == m.n <= p[m.from]
\* No handler was called for the message yet.
Waits(m, res, p) == res[m] = <<>> /\ Pushed(m, p)

\* A pushed message is in one place: among the loop's tasks s, among the chunks
\* u of the stream, or answered in res.
Places(s, u, res, p) ==
  /\ Distinct(s) /\ Distinct(u)
  /\ \A i \in DOMAIN s : Waits(s[i].m, res, p) /\ Absent(s[i].m, u)
  /\ \A i \in DOMAIN u : Waits(u[i].m, res, p)
  /\ \A m \in Message : res[m] = <<>> \/ (Len(res[m]) = 1 /\ Pushed(m, p))

\* What one sender pushes waits in the loop's tasks s, and was written to w, in
\* its order; the engine thread's own messages never wait.
Order(s, w, p) ==
  /\ \A i, j \in DOMAIN w : i < j /\ w[i].from = w[j].from => w[i].n < w[j].n
  /\ \A i \in DOMAIN w : Pushed(w[i], p)
  /\ \A k \in DOMAIN s :
       s[k].kind = "push" =>
         /\ s[k].m.from # Io
         /\ \A i \in DOMAIN w : w[i].from = s[k].m.from => w[i].n < s[k].m.n
         /\ \A j \in DOMAIN s :
              j < k /\ s[j].kind = "push" /\ s[j].m.from = s[k].m.from => s[j].m.n < s[k].m.n

\* The inductive invariant of the queues.
QueueInv == ByteInv /\ Places(tasks, m_messages, results, pushes) /\ Order(tasks, written, pushes)

\* A message that is nowhere may join the tasks ...
LEMMA PlaceTask ==
  ASSUME NEW s \in Seq(Task), NEW u, NEW res, NEW p, Places(s, u, res, p), NEW x \in Task,
         Absent(x.m, s), Absent(x.m, u), Waits(x.m, res, p)
  PROVE  Places(Append(s, x), u, res, p)
<1>1. PICK r : r = Append(s, x)
  BY ZenonT(30)
<1>2. /\ DOMAIN r = 1..Len(s) + 1 /\ DOMAIN s = 1..Len(s) /\ Len(s) \in Nat
      /\ \A i \in DOMAIN s : r[i] = s[i]
      /\ \A i \in DOMAIN r : i \in DOMAIN s \/ (i = Len(s) + 1 /\ r[i] = x)
  BY <1>1, Appended
<1>3. Distinct(r)
  BY ZenonT(30), <1>2 DEF Places, Distinct, Absent
<1>4. \A i \in DOMAIN r : Waits(r[i].m, res, p) /\ Absent(r[i].m, u)
  BY Zenon, <1>2 DEF Places
<1>5. QED
  BY Zenon, <1>1, <1>3, <1>4 DEF Places

\* ... or the chunks.
LEMMA PlaceChunk ==
  ASSUME NEW s, NEW u \in Seq(Chunk), NEW res, NEW p, Places(s, u, res, p), NEW e \in Chunk,
         Absent(e.m, s), Absent(e.m, u), Waits(e.m, res, p)
  PROVE  Places(s, Append(u, e), res, p)
<1>1. PICK r : r = Append(u, e)
  BY ZenonT(30)
<1>2. /\ DOMAIN r = 1..Len(u) + 1 /\ DOMAIN u = 1..Len(u) /\ Len(u) \in Nat
      /\ \A i \in DOMAIN u : r[i] = u[i]
      /\ \A i \in DOMAIN r : i \in DOMAIN u \/ (i = Len(u) + 1 /\ r[i] = e)
  BY <1>1, Appended
<1>3. Distinct(r)
  BY ZenonT(30), <1>2 DEF Places, Distinct, Absent
<1>4. \A i \in DOMAIN s : Absent(s[i].m, r)
  BY ZenonT(30), <1>2 DEF Places, Absent
<1>5. \A i \in DOMAIN r : Waits(r[i].m, res, p)
  BY Zenon, <1>2 DEF Places
<1>6. QED
  BY Zenon, <1>1, <1>3, <1>4, <1>5 DEF Places

\* The message of the task that is run is nowhere any more.
LEMMA PlaceTail ==
  ASSUME NEW s \in Seq(Task), s # <<>>, NEW u, NEW res, NEW p, Places(s, u, res, p)
  PROVE  /\ Places(Tail(s), u, res, p)
         /\ Absent(Head(s).m, Tail(s)) /\ Absent(Head(s).m, u) /\ Waits(Head(s).m, res, p)
<1>1. PICK r : r = Tail(s)
  BY Zenon
<1>2. /\ Head(s) = s[1] /\ 1 \in DOMAIN s /\ DOMAIN r \in SUBSET (Nat \ {0})
      /\ \A i \in DOMAIN r : i + 1 \in DOMAIN s /\ r[i] = s[i + 1]
  BY SMTT(30), <1>1, HeadTail
<1>3. Distinct(r)
  BY SMTT(30), <1>2 DEF Places, Distinct
<1>4. Absent(s[1].m, r)
  BY <1>2 DEF Places, Distinct, Absent
<1>5. \A i \in DOMAIN r : Waits(r[i].m, res, p) /\ Absent(r[i].m, u)
  BY Zenon, <1>2 DEF Places
<1>6. QED
  BY ZenonT(30), <1>1, <1>2, <1>3, <1>4, <1>5 DEF Places

\* Its handler can be called.
LEMMA PlaceAnswer ==
  ASSUME NEW s, NEW u, NEW res \in [Message -> Seq(BOOLEAN)], NEW p, Places(s, u, res, p),
         NEW m \in Message, Absent(m, s), Absent(m, u), Waits(m, res, p),
         NEW new \in [Message -> Seq(BOOLEAN)], Len(new[m]) = 1, \A d \in Message : d # m => new[d] = res[d],
         \A i \in DOMAIN s : s[i].m \in Message, \A i \in DOMAIN u : u[i].m \in Message
  PROVE  Places(s, u, new, p)
<1>1. \A i \in DOMAIN s : new[s[i].m] = res[s[i].m]
  BY Zenon DEF Absent
<1>2. \A i \in DOMAIN u : new[u[i].m] = res[u[i].m]
  BY Zenon DEF Absent
<1>3. \A d \in Message : new[d] = <<>> \/ (Len(new[d]) = 1 /\ Pushed(d, p))
  BY Zenon DEF Places, Waits
<1>4. QED
  BY Zenon, <1>1, <1>2, <1>3 DEF Places, Waits

\* The messages of the first k chunks may become tasks.
LEMMA PlaceMove ==
  ASSUME NEW s \in Seq(Task), NEW u \in Seq(Chunk), NEW res, NEW p, Places(s, u, res, p),
         NEW k \in 0..Len(u),
         NEW all \in Seq(Task), Len(all) = k, \A i \in 1..k : all[i].m = u[i].m,
         NEW w \in Seq(Chunk), Len(w) = Len(u) - k, \A i \in 1..Len(w) : w[i].m = u[k + i].m
  PROVE  Places(s \o all, w, res, p)
<1>1. PICK r \in Seq(Task) : r = s \o all
  BY ZenonT(30), Catenated
<1>2. /\ DOMAIN u = 1..Len(u) /\ DOMAIN w = 1..Len(w) /\ DOMAIN s = 1..Len(s)
      /\ k \in Nat /\ Len(s) \in Nat /\ Len(u) \in Nat /\ Len(w) \in Nat
      /\ \A i \in 1..k : i \in DOMAIN u
      /\ \A i \in DOMAIN w : k + i \in DOMAIN u /\ k + i > k
  BY SMTT(30)
<1>3. \A i \in DOMAIN r : \/ i \in DOMAIN s /\ r[i] = s[i]
                          \/ i - Len(s) \in 1..k /\ r[i] = all[i - Len(s)] /\ i > Len(s)
  BY SMTT(30), <1>1, <1>2
<1>4. \A i \in DOMAIN r : i \in Nat /\ (i \in DOMAIN s \/ i - Len(s) \in DOMAIN u)
  BY SMTT(30), <1>1, <1>2, <1>3
<1>5. \A i \in DOMAIN r : i \in DOMAIN s => r[i] = s[i]
  BY <1>2, <1>3
<1>6. \A i \in DOMAIN r : i \notin DOMAIN s => i - Len(s) \in 1..k /\ i - Len(s) \in DOMAIN u /\ r[i].m = u[i - Len(s)].m
  BY ZenonT(30), <1>2, <1>3
<1>7. ASSUME NEW i \in DOMAIN r, NEW j \in DOMAIN r, r[i].m = r[j].m PROVE i = j
  <2>1. CASE i \in DOMAIN s /\ j \in DOMAIN s
    BY ZenonT(30), <1>5, <1>7, <2>1 DEF Places, Distinct
  <2>2. CASE i \in DOMAIN s /\ j \notin DOMAIN s
    BY SMTT(30), <1>5, <1>6, <1>7, <2>2 DEF Places, Absent
  <2>3. CASE i \notin DOMAIN s /\ j \in DOMAIN s
    BY SMTT(30), <1>5, <1>6, <1>7, <2>3 DEF Places, Absent
  <2>4. CASE i \notin DOMAIN s /\ j \notin DOMAIN s
    <3>1. PICK a \in DOMAIN u, b \in DOMAIN u : /\ a = i - Len(s) /\ b = j - Len(s)
                                               /\ r[i].m = u[a].m /\ r[j].m = u[b].m
      BY Zenon, <1>6, <2>4
    <3>2. a = b
      BY ZenonT(30), <1>7, <3>1 DEF Places, Distinct
    <3>3. i \in Nat /\ j \in Nat /\ Len(s) \in Nat
      BY Zenon, <1>2, <1>4
    <3>4. i - Len(s) = j - Len(s)
      BY Zenon, <3>1, <3>2
    <3>5. QED
      BY SMTT(30), <3>3, <3>4
  <2>5. QED
    BY ZenonT(30), <2>1, <2>2, <2>3, <2>4
<1>8. Distinct(w)
  <2>1. ASSUME NEW i \in DOMAIN w, NEW j \in DOMAIN w, w[i].m = w[j].m PROVE i = j
    <3>1. PICK a \in DOMAIN u, b \in DOMAIN u : /\ a = k + i /\ b = k + j
                                               /\ w[i].m = u[a].m /\ w[j].m = u[b].m
      BY ZenonT(30), <1>2
    <3>2. a = b
      BY ZenonT(30), <2>1, <3>1 DEF Places, Distinct
    <3>3. QED
      BY SMTT(30), <1>2, <3>1, <3>2
  <2>2. QED
    BY ZenonT(30), <2>1 DEF Distinct
<1>9. ASSUME NEW i \in DOMAIN r PROVE Waits(r[i].m, res, p)
  BY Zenon, <1>5, <1>6 DEF Places
<1>10. ASSUME NEW i \in DOMAIN r, NEW j \in DOMAIN w PROVE w[j].m # r[i].m
  <2>1. w[j].m = u[k + j].m /\ k + j \in DOMAIN u /\ k + j > k
    BY ZenonT(30), <1>2
  <2>2. CASE i \in DOMAIN s
    BY SMTT(30), <1>5, <2>1, <2>2 DEF Places, Absent
  <2>3. CASE i \notin DOMAIN s
    <3>1. i - Len(s) # k + j
      BY SMTT(30), <1>2, <1>6, <2>1, <2>3
    <3>2. QED
      BY SMTT(30), <1>6, <2>1, <2>3, <3>1 DEF Places, Distinct
  <2>4. QED
    BY Zenon, <2>2, <2>3
<1>11. \A j \in DOMAIN w : Waits(w[j].m, res, p)
  BY Zenon, <1>2 DEF Places
<1>12. QED
  BY ZenonT(30), <1>1, <1>7, <1>8, <1>9, <1>10, <1>11 DEF Places, Distinct, Absent

\* The next message of a sender may be written.
LEMMA OrderWritten ==
  ASSUME NEW s, NEW w \in Seq(Message), NEW p, Order(s, w, p), NEW m \in Message, Pushed(m, p),
         \A i \in DOMAIN w : w[i].from = m.from => w[i].n < m.n,
         \A k \in DOMAIN s : s[k].kind = "push" /\ s[k].m.from = m.from => m.n < s[k].m.n
  PROVE  Order(s, Append(w, m), p)
<1>1. PICK r : r = Append(w, m)
  BY ZenonT(30)
<1>2. /\ DOMAIN r = 1..Len(w) + 1 /\ DOMAIN w = 1..Len(w) /\ Len(w) \in Nat
      /\ \A i \in DOMAIN w : r[i] = w[i]
      /\ \A i \in DOMAIN r : i \in DOMAIN w \/ (i = Len(w) + 1 /\ r[i] = m)
  BY SMTT(30), <1>1, Appended
<1>3. \A i, j \in DOMAIN r : i < j => i \in DOMAIN w
  BY <1>2
<1>4. \A i, j \in DOMAIN r : i < j /\ r[i].from = r[j].from => r[i].n < r[j].n
  BY Zenon, <1>2, <1>3 DEF Order
<1>5. \A i \in DOMAIN r : Pushed(r[i], p)
  BY Zenon, <1>2 DEF Order
<1>6. \A k \in DOMAIN s : s[k].kind = "push" => \A i \in DOMAIN r : r[i].from = s[k].m.from => r[i].n < s[k].m.n
  BY Zenon, <1>2 DEF Order
<1>7. QED
  BY ZenonT(30), <1>1, <1>4, <1>5, <1>6 DEF Order

\* Calls of handlers do not disturb the pushes that wait.
LEMMA OrderDone ==
  ASSUME NEW s \in Seq(Task), NEW w, NEW p, Order(s, w, p),
         NEW all \in Seq(Task), \A i \in DOMAIN all : all[i].kind # "push"
  PROVE  Order(s \o all, w, p)
<1>1. PICK r \in Seq(Task) : r = s \o all
  BY Zenon, Catenated
<1>2. \A i \in DOMAIN r : r[i].kind = "push" => i \in DOMAIN s /\ r[i] = s[i]
  <2>1. \A i \in DOMAIN r : (i \in DOMAIN s /\ r[i] = s[i]) \/ (i - Len(s) \in DOMAIN all /\ r[i] = all[i - Len(s)])
    BY <1>1
  <2>2. QED
    BY Zenon, <2>1
<1>3. QED
  BY ZenonT(30), <1>1, <1>2 DEF Order

\* A sender's newest message may join the tasks.
LEMMA OrderPush ==
  ASSUME NEW s \in Seq(Task), NEW w, NEW p, Order(s, w, p), NEW x \in Task, x.m.from # Io,
         \A i \in DOMAIN w : w[i].from = x.m.from => w[i].n < x.m.n,
         \A k \in DOMAIN s : s[k].m.from = x.m.from => s[k].m.n < x.m.n
  PROVE  Order(Append(s, x), w, p)
<1>1. PICK r : r = Append(s, x)
  BY ZenonT(30)
<1>2. /\ DOMAIN r = 1..Len(s) + 1 /\ DOMAIN s = 1..Len(s) /\ Len(s) \in Nat
      /\ \A i \in DOMAIN s : r[i] = s[i]
      /\ \A i \in DOMAIN r : i \in DOMAIN s \/ (i = Len(s) + 1 /\ r[i] = x)
  BY SMTT(30), <1>1, Appended
<1>3. \A i, j \in DOMAIN r : i < j => i \in DOMAIN s
  BY <1>2
<1>4. ASSUME NEW k \in DOMAIN r, r[k].kind = "push"
      PROVE  /\ r[k].m.from # Io
             /\ \A i \in DOMAIN w : w[i].from = r[k].m.from => w[i].n < r[k].m.n
             /\ \A j \in DOMAIN r :
                  j < k /\ r[j].kind = "push" /\ r[j].m.from = r[k].m.from => r[j].m.n < r[k].m.n
  BY ZenonT(30), <1>2, <1>3, <1>4 DEF Order
<1>5. QED
  BY Zenon, <1>1, <1>4 DEF Order

\* The first push that waits is the next one of its sender.
LEMMA OrderTail ==
  ASSUME NEW s \in Seq(Task), s # <<>>, NEW w, NEW p, Order(s, w, p)
  PROVE  /\ Order(Tail(s), w, p)
         /\ Head(s).kind = "push" =>
              /\ \A i \in DOMAIN w : w[i].from = Head(s).m.from => w[i].n < Head(s).m.n
              /\ \A k \in DOMAIN Tail(s) :
                   Tail(s)[k].kind = "push" /\ Tail(s)[k].m.from = Head(s).m.from => Head(s).m.n < Tail(s)[k].m.n
<1>1. PICK r : r = Tail(s)
  BY ZenonT(30)
<1>2. /\ Head(s) = s[1] /\ 1 \in DOMAIN s /\ DOMAIN r \in SUBSET (Nat \ {0})
      /\ \A i \in DOMAIN r : i + 1 \in DOMAIN s /\ r[i] = s[i + 1]
  BY SMTT(30), <1>1, HeadTail
<1>3. \A i, j \in DOMAIN r : i < j => i + 1 < j + 1
  BY <1>2
<1>4. \A i \in DOMAIN r : 1 < i + 1
  BY SMTT(30), <1>2
<1>5. Order(r, w, p)
  BY SMTT(30), <1>2, <1>3 DEF Order
<1>6. QED
  BY SMTT(30), <1>1, <1>2, <1>4, <1>5 DEF Order

\* More pushes change nothing for the messages there are.
LEMMA PushedLater ==
  ASSUME NEW s, NEW u, NEW res, NEW w, NEW p \in [Pushers -> Nat], NEW new \in [Pushers -> Nat],
         \A t \in Pushers : p[t] <= new[t],
         \A i \in DOMAIN s : s[i].m \in Message, \A i \in DOMAIN u : u[i].m \in Message,
         \A i \in DOMAIN w : w[i] \in Message
  PROVE  /\ Places(s, u, res, p) => Places(s, u, res, new)
         /\ Order(s, w, p) => Order(s, w, new)
<1>1. \A m \in Message : Pushed(m, p) => Pushed(m, new)
  <2> SUFFICES ASSUME NEW m \in Message, m.n <= p[m.from] PROVE m.n <= new[m.from]
    BY ZenonT(30) DEF Pushed
  <2>1. m.n \in Nat /\ m.from \in Pushers
    BY OutboundAssumption DEF Message
  <2>2. p[m.from] \in Nat /\ new[m.from] \in Nat /\ p[m.from] <= new[m.from]
    BY Zenon, <2>1
  <2>3. QED
    BY <2>1, <2>2
<1>2. Places(s, u, res, p) => Places(s, u, res, new)
  BY Zenon, <1>1 DEF Places, Waits
<1>3. Order(s, w, p) => Order(s, w, new)
  BY Zenon, <1>1 DEF Order
<1>4. QED
  BY Zenon, <1>2, <1>3

\* What the queues hold.
LEMMA QueueTypes ==
  ASSUME OutboundTypeOK
  PROVE  /\ tasks \in Seq(Task) /\ m_messages \in Seq(Chunk) /\ written \in Seq(Message)
         /\ results \in [Message -> Seq(BOOLEAN)] /\ pushes \in [Pushers -> Nat]
         /\ \A i \in DOMAIN tasks : tasks[i] \in Task /\ tasks[i].m \in Message
         /\ \A i \in DOMAIN m_messages : m_messages[i].m \in Message
         /\ \A i \in DOMAIN written : written[i] \in Message
<1>1. /\ tasks \in Seq(Task) /\ m_messages \in Seq(Chunk) /\ written \in Seq(Message)
      /\ results \in [Message -> Seq(BOOLEAN)] /\ pushes \in [Pushers -> Nat]
  BY OutboundAssumption DEF OutboundTypeOK
<1>2. \A i \in DOMAIN tasks : tasks[i] \in Task
  BY <1>1
<1>3. \A x \in Task : x.m \in Message
  BY Zenon DEF Task
<1>4. \A i \in DOMAIN m_messages : m_messages[i] \in Chunk
  BY <1>1
<1>5. \A c \in Chunk : c.m \in Message
  BY Zenon DEF Chunk
<1>6. \A i \in DOMAIN written : written[i] \in Message
  BY <1>1
<1>7. QED
  BY ZenonT(30), <1>1, <1>2, <1>3, <1>4, <1>5, <1>6

\* write() puts a message that is nowhere, and after what its sender has
\* written and before what it has waiting, into its place.
LEMMA WriteQueues ==
  ASSUME OutboundTypeOK, NEW m \in Message, NEW q \in Seq(Task), Write(m, q), results' = results,
         Places(q, m_messages, results, pushes'), Order(q, written, pushes'),
         Absent(m, q), Absent(m, m_messages), Waits(m, results, pushes'),
         \A i \in DOMAIN written : written[i].from = m.from => written[i].n < m.n,
         \A k \in DOMAIN q : q[k].kind = "push" /\ q[k].m.from = m.from => m.n < q[k].m.n
  PROVE  Places(tasks', m_messages', results', pushes') /\ Order(tasks', written', pushes')
<1>1. PICK w : w = Append(written, m)
  BY Zenon
<1>2. Order(q, w, pushes') /\ written' = w
  BY ZenonT(30), <1>1, QueueTypes, OrderWritten DEF Write, Waits
<1>3. CASE tasks' = Append(q, DoneTask(m, TRUE)) /\ UNCHANGED writerVars
  <2>1. PICK done \in Task : done = DoneTask(m, TRUE)
    BY Zenon, DoneTasks
  <2>2. done.m = m /\ done.kind # "push"
    BY Zenon, <2>1 DEF DoneTask
  <2>3. Places(Append(q, done), m_messages, results, pushes')
    BY ZenonT(30), <2>2, PlaceTask
  <2>4. Order(Append(q, done), w, pushes')
    <3>1. PICK r : r = Append(q, done)
      BY Zenon
    <3>2. \A i \in DOMAIN r : r[i].kind = "push" => i \in DOMAIN q /\ r[i] = q[i]
      BY <2>2, <3>1, Appended
    <3>3. QED
      BY ZenonT(30), <1>2, <3>1, <3>2 DEF Order
  <2>5. tasks' = Append(q, done) /\ m_messages' = m_messages
    BY <1>3, <2>1, Zenon DEF writerVars
  <2>6. QED
    BY ZenonT(30), <1>2, <2>3, <2>4, <2>5
<1>4. ASSUME NEW n \in 0..(Size - 1), Enqueue(m, n), tasks' = q
      PROVE  Places(tasks', m_messages', results', pushes') /\ Order(tasks', written', pushes')
  <2>1. PICK e \in Chunk : e = [m |-> m, at |-> n + 1]
    BY Zenon, PartlyWritten
  <2>2. m_messages' = Append(m_messages, e) /\ e.m = m
    BY ZenonT(30), <1>4, <2>1 DEF Enqueue
  <2>3. Places(q, Append(m_messages, e), results, pushes')
    BY ZenonT(30), <2>2, QueueTypes, PlaceChunk
  <2>4. QED
    BY ZenonT(30), <1>2, <1>4, <2>2, <2>3
<1>5. QED
  BY ZenonT(30), <1>3, <1>4 DEF Write

\* A new message is nowhere, and the last one of its sender.
LEMMA NewMessage ==
  ASSUME QueueInv, NEW t \in Pushers, Push(t), NEW m \in Message, m.from = t, m.n = pushes[t] + 1
  PROVE  /\ Absent(m, tasks) /\ Absent(m, m_messages) /\ Waits(m, results, pushes')
         /\ \A i \in DOMAIN written : written[i].from = m.from => written[i].n < m.n
         /\ \A k \in DOMAIN tasks : tasks[k].m.from = m.from => tasks[k].m.n < m.n
         /\ Places(tasks, m_messages, results, pushes') /\ Order(tasks, written, pushes')
<1>1. OutboundTypeOK /\ Places(tasks, m_messages, results, pushes) /\ Order(tasks, written, pushes)
  BY ZenonT(30) DEF QueueInv, ByteInv
<1>2. ~Pushed(m, pushes)
  <2>1. pushes[t] \in Nat
    BY ZenonT(30), <1>1, QueueTypes
  <2>2. QED
    BY <2>1 DEF Pushed
<1>3. \A d \in Message : d.n \in Nat
  BY SMTT(30), OutboundAssumption DEF Message
<1>4. \A d \in Message : Pushed(d, pushes) => d # m /\ (d.from = m.from => d.n < m.n)
  <2>1. pushes[t] \in Nat
    BY Zenon, <1>1, QueueTypes
  <2>2. QED
    BY SMTT(30), <1>2, <1>3, <2>1 DEF Pushed
<1>5. Absent(m, tasks) /\ \A k \in DOMAIN tasks : tasks[k].m.from = m.from => tasks[k].m.n < m.n
  BY ZenonT(30), <1>1, <1>4, QueueTypes DEF Places, Waits, Absent
<1>6. Absent(m, m_messages)
  BY ZenonT(30), <1>1, <1>4, QueueTypes DEF Places, Waits, Absent
<1>7. \A i \in DOMAIN written : written[i].from = m.from => written[i].n < m.n
  BY ZenonT(30), <1>1, <1>4, QueueTypes DEF Order
<1>8. pushes' \in [Pushers -> Nat] /\ pushes'[t] = pushes[t] + 1 /\ \A d \in Pushers : pushes[d] <= pushes'[d]
  <2>1. pushes \in [Pushers -> Nat] /\ pushes' = [pushes EXCEPT ![t] = @ + 1]
    BY Zenon, <1>1, QueueTypes DEF Push
  <2>2. QED
    BY <2>1
<1>9. Waits(m, results, pushes')
  <2>1. pushes[t] + 1 \in Nat
    BY SMTT(30), <1>1, QueueTypes
  <2>2. Pushed(m, pushes')
    BY <1>8, <2>1 DEF Pushed
  <2>3. results[m] = <<>>
    BY Zenon, <1>1, <1>2 DEF Places
  <2>4. QED
    BY ZenonT(30), <2>2, <2>3 DEF Waits
<1>10. Places(tasks, m_messages, results, pushes') /\ Order(tasks, written, pushes')
  <2>1. PICK new \in [Pushers -> Nat] : new = pushes'
    BY Zenon, <1>8
  <2>2. Places(tasks, m_messages, results, new) /\ Order(tasks, written, new)
    BY ZenonT(30), <1>1, <1>8, <2>1, QueueTypes, PushedLater
  <2>3. QED
    BY Zenon, <2>1, <2>2
<1>11. QED
  BY ZenonT(30), <1>5, <1>6, <1>7, <1>9, <1>10

\* push() puts the new message into one place, behind its sender's others.
LEMMA PushQueues ==
  ASSUME QueueInv, NEW t \in Pushers, Push(t)
  PROVE  QueueInv'
<1>1. ByteInv /\ OutboundTypeOK /\ ByteInv'
  BY Zenon, PushBytes DEF QueueInv, ByteInv
<1>2. PICK m \in Message : m = [from |-> t, n |-> pushes[t] + 1]
  BY Zenon, <1>1, PushTyped
<1>3. m.from = t /\ m.n = pushes[t] + 1 /\ Dispatch(t, m) /\ results' = results
  BY Zenon, <1>2 DEF Push
<1>4. /\ Absent(m, tasks) /\ Absent(m, m_messages) /\ Waits(m, results, pushes')
      /\ \A i \in DOMAIN written : written[i].from = m.from => written[i].n < m.n
      /\ \A k \in DOMAIN tasks : tasks[k].m.from = m.from => tasks[k].m.n < m.n
      /\ Places(tasks, m_messages, results, pushes') /\ Order(tasks, written, pushes')
  BY Zenon, <1>3, NewMessage
<1>5. PICK q \in Seq(Task) : q = tasks
  BY Zenon, <1>1 DEF OutboundTypeOK
<1>6. CASE t = Io
  <2>1. Write(m, q)
    BY ZenonT(30), <1>3, <1>5, <1>6 DEF Dispatch
  <2>2. \A k \in DOMAIN q : q[k].kind = "push" => q[k].m.from # m.from
    BY ZenonT(30), <1>3, <1>4, <1>5, <1>6 DEF Order
  <2>3. Places(tasks', m_messages', results', pushes') /\ Order(tasks', written', pushes')
    BY ZenonT(30), <1>1, <1>3, <1>4, <1>5, <2>1, <2>2, WriteQueues
  <2>4. QED
    BY Zenon, <1>1, <2>3 DEF QueueInv
<1>7. CASE t # Io
  <2>1. tasks' = Append(tasks, PushTask(m)) /\ written' = written /\ m_messages' = m_messages
    BY Zenon, <1>3, <1>7 DEF Dispatch, writerVars
  <2>2. PICK x \in Task : x = PushTask(m) /\ x.m = m
    BY Zenon, PushTasks
  <2>3. Places(Append(q, x), m_messages, results, pushes')
    BY ZenonT(30), <1>4, <1>5, <2>2, PlaceTask
  <2>4. Order(Append(q, x), written, pushes')
    BY ZenonT(30), <1>3, <1>4, <1>5, <1>7, <2>2, OrderPush
  <2>5. Places(tasks', m_messages', results', pushes') /\ Order(tasks', written', pushes')
    BY ZenonT(30), <1>3, <1>5, <2>1, <2>2, <2>3, <2>4
  <2>6. QED
    BY ZenonT(30), <1>1, <2>5 DEF QueueInv
<1>8. QED
  BY Zenon, <1>6, <1>7

\* The loop takes a push off the tasks and writes it.
LEMMA RunPushedQueues ==
  ASSUME QueueInv, RunPushed
  PROVE  QueueInv'
<1>1. ByteInv' /\ OutboundTypeOK /\ Places(tasks, m_messages, results, pushes) /\ Order(tasks, written, pushes)
  BY Zenon, RunPushedBytes DEF QueueInv, ByteInv
<1>2. /\ tasks # <<>> /\ tasks \in Seq(Task) /\ Head(tasks).kind = "push" /\ Write(Head(tasks).m, Tail(tasks))
      /\ results' = results /\ pushes' = pushes
  BY Zenon, <1>1, QueueTypes DEF RunPushed
<1>3. Head(tasks) \in Task /\ Tail(tasks) \in Seq(Task)
  BY Zenon, <1>2, HeadTail
<1>4. PICK m \in Message, q \in Seq(Task) : m = Head(tasks).m /\ q = Tail(tasks)
  BY Zenon, <1>3 DEF Task
<1>5. /\ Places(q, m_messages, results, pushes') /\ Absent(m, q) /\ Absent(m, m_messages) /\ Waits(m, results, pushes')
  BY ZenonT(30), <1>1, <1>2, <1>4, PlaceTail
<1>6. /\ Order(q, written, pushes')
      /\ \A i \in DOMAIN written : written[i].from = m.from => written[i].n < m.n
      /\ \A k \in DOMAIN q : q[k].kind = "push" /\ q[k].m.from = m.from => m.n < q[k].m.n
  BY ZenonT(30), <1>1, <1>2, <1>4, OrderTail
<1>7. Write(m, q)
  BY ZenonT(30), <1>2, <1>4
<1>8. Places(tasks', m_messages', results', pushes') /\ Order(tasks', written', pushes')
  BY ZenonT(30), <1>1, <1>2, <1>5, <1>6, <1>7, WriteQueues
<1>9. QED
  BY Zenon, <1>1, <1>8 DEF QueueInv

\* The loop takes a completion off the tasks and calls the handler.
LEMMA RunDoneQueues ==
  ASSUME QueueInv, RunDone
  PROVE  QueueInv'
<1>1. ByteInv' /\ OutboundTypeOK /\ Places(tasks, m_messages, results, pushes) /\ Order(tasks, written, pushes)
  BY Zenon, RunDoneBytes DEF QueueInv, ByteInv
<1>2. /\ tasks # <<>> /\ tasks \in Seq(Task) /\ Head(tasks).kind = "done" /\ tasks' = Tail(tasks)
      /\ results' = [results EXCEPT ![Head(tasks).m] = Append(@, Head(tasks).ok)]
      /\ UNCHANGED <<pushes, written, m_messages>>
  BY ZenonT(30), <1>1, QueueTypes DEF RunDone, writerVars
<1>3. Head(tasks) \in Task /\ Tail(tasks) \in Seq(Task)
  BY ZenonT(30), <1>2, HeadTail
<1>4. PICK m \in Message, ok \in BOOLEAN, q \in Seq(Task) : m = Head(tasks).m /\ ok = Head(tasks).ok /\ q = Tail(tasks)
  <2>1. Head(tasks).m \in Message /\ Head(tasks).ok \in BOOLEAN
    BY ZenonT(30), <1>2, <1>3 DEF Task
  <2>2. QED
    BY <1>3, <2>1, ZenonT(30)
<1>5. Places(q, m_messages, results, pushes) /\ Absent(m, q) /\ Absent(m, m_messages) /\ Waits(m, results, pushes)
  BY ZenonT(30), <1>1, <1>2, <1>4, PlaceTail
<1>6. Order(q, written, pushes)
  BY ZenonT(30), <1>1, <1>2, <1>4, OrderTail
<1>7. PICK new \in [Message -> Seq(BOOLEAN)] : new = results'
  BY ZenonT(30), <1>1 DEF ByteInv, OutboundTypeOK
<1>8. Len(new[m]) = 1 /\ \A d \in Message : d # m => new[d] = results[d]
  <2>1. results \in [Message -> Seq(BOOLEAN)]
    BY ZenonT(30), <1>1, QueueTypes
  <2>2. new[m] = Append(results[m], ok) /\ \A d \in Message : d # m => new[d] = results[d]
    BY ZenonT(30), <1>2, <1>4, <1>7, <2>1
  <2>3. results[m] = <<>>
    BY Zenon, <1>5 DEF Waits
  <2>4. QED
    BY <2>2, <2>3
<1>9. \A i \in DOMAIN q : q[i].m \in Message
  BY DEF Task
<1>10. Places(q, m_messages, new, pushes)
  BY ZenonT(30), <1>1, <1>5, <1>8, <1>9, QueueTypes, PlaceAnswer
<1>11. Places(tasks', m_messages', results', pushes') /\ Order(tasks', written', pushes')
  BY ZenonT(30), <1>2, <1>4, <1>6, <1>7, <1>10
<1>12. QED
  BY ZenonT(30), <1>1, <1>11 DEF QueueInv

\* flush() turns chunks at the front into completions.
LEMMA ChunksComplete ==
  ASSUME OutboundTypeOK, NEW k \in 0..Len(m_messages), NEW ok \in BOOLEAN,
         Places(tasks, m_messages, results, pushes), Order(tasks, written, pushes),
         NEW rest \in Seq(Chunk), Len(rest) = Len(m_messages) - k,
         \A i \in 1..Len(rest) : rest[i].m = m_messages[k + i].m
  PROVE  LET all == [i \in 1..k |-> DoneTask(m_messages[i].m, ok)]
         IN  Places(tasks \o all, rest, results, pushes) /\ Order(tasks \o all, written, pushes)
<1>1. PICK all : all = [i \in 1..k |-> DoneTask(m_messages[i].m, ok)]
  BY Zenon
<1>2. tasks \in Seq(Task) /\ m_messages \in Seq(Chunk)
  BY Zenon, QueueTypes
<1>3. all \in Seq(Task) /\ Len(all) = k /\ \A i \in 1..k : all[i] = DoneTask(m_messages[i].m, ok)
  BY <1>1, <1>2, CompletionTasks, ZenonT(30)
<1>4. \A i \in 1..k : all[i].m = m_messages[i].m /\ all[i].kind # "push"
  BY <1>3 DEF DoneTask
<1>5. Places(tasks \o all, rest, results, pushes)
  BY ZenonT(30), <1>2, <1>3, <1>4, PlaceMove
<1>6. Order(tasks \o all, written, pushes)
  <2>1. DOMAIN all = 1..k
    BY <1>3
  <2>2. QED
    BY ZenonT(30), <1>2, <1>3, <1>4, <2>1, OrderDone
<1>7. QED
  BY <1>1, <1>5, <1>6, ZenonT(30)

\* flush() turns the chunks that were sent into completions.
LEMMA FlushQueues ==
  ASSUME QueueInv, Flush
  PROVE  QueueInv'
<1>1. /\ ByteInv' /\ OutboundTypeOK /\ Places(tasks, m_messages, results, pushes) /\ Order(tasks, written, pushes)
      /\ op \in Nat /\ op <= Covered(m_messages, Len(m_messages)) /\ UNCHANGED <<pushes, written, results>>
  BY ZenonT(30), FlushBytes DEF QueueInv, ByteInv, OutboundTypeOK, Writer, Flush
<1>2. m_messages \in Seq(Chunk) /\ Len(m_messages) \in 0..Len(m_messages)
  BY <1>1, QueueTypes
<1>3. Covered(m_messages, Len(m_messages)) \in Nat
  BY <1>2, JoinedStep DEF Covered
<1>4. PICK n \in 1..op :
        /\ m_messages' = After(n)
        /\ tasks' = tasks \o [k \in 1..Whole(n) |-> DoneTask(m_messages[k].m, TRUE)]
  BY Zenon DEF Flush
<1>5. n \in Nat /\ n <= Covered(m_messages, Len(m_messages))
  BY <1>1, <1>3
<1>6. PICK k \in 0..Len(m_messages), ok \in BOOLEAN : k = Whole(n) /\ ok = TRUE
  BY ZenonT(30), <1>2, <1>5, WholeChunks
<1>7. PICK rest \in Seq(Chunk) : /\ rest = After(n) /\ Len(rest) = Len(m_messages) - k
                                 /\ \A i \in 1..Len(rest) : rest[i].m = m_messages[k + i].m
  BY <1>2, <1>5, <1>6, FlushSplits, ZenonT(30)
<1>8. /\ Places(tasks \o [i \in 1..k |-> DoneTask(m_messages[i].m, ok)], rest, results, pushes)
      /\ Order(tasks \o [i \in 1..k |-> DoneTask(m_messages[i].m, ok)], written, pushes)
  BY <1>1, <1>7, ChunksComplete, ZenonT(30)
<1>9. Places(tasks', m_messages', results', pushes') /\ Order(tasks', written', pushes')
  BY <1>1, <1>4, <1>6, <1>7, <1>8, ZenonT(30)
<1>10. QED
  BY ZenonT(30), <1>1, <1>9 DEF QueueInv

\* flush() with an error turns all of them into completions.
LEMMA FlushErrorQueues ==
  ASSUME QueueInv, FlushError
  PROVE  QueueInv'
<1>1. /\ ByteInv' /\ OutboundTypeOK /\ Places(tasks, m_messages, results, pushes) /\ Order(tasks, written, pushes)
      /\ m_messages' = <<>> /\ UNCHANGED <<pushes, written, results>>
  BY ZenonT(30), FlushErrorBytes DEF QueueInv, ByteInv, FlushError
<1>2. m_messages \in Seq(Chunk) /\ DOMAIN m_messages = 1..Len(m_messages)
  BY <1>1, QueueTypes
<1>3. PICK k \in 0..Len(m_messages), ok \in BOOLEAN : k = Len(m_messages) /\ ok = FALSE
  <2>1. Len(m_messages) \in 0..Len(m_messages) /\ FALSE \in BOOLEAN
    BY <1>2
  <2>2. QED
    BY <2>1, ZenonT(30)
<1>4. PICK rest \in Seq(Chunk) : /\ rest = <<>> /\ Len(rest) = Len(m_messages) - k
                                 /\ \A i \in 1..Len(rest) : rest[i].m = m_messages[k + i].m
  <2>1. <<>> \in Seq(Chunk) /\ Len(<<>>) = Len(m_messages) - k /\ 1..Len(<<>>) = {}
    BY <1>2, <1>3
  <2>2. QED
    BY <2>1, ZenonT(30)
<1>5. /\ Places(tasks \o [i \in 1..k |-> DoneTask(m_messages[i].m, ok)], rest, results, pushes)
      /\ Order(tasks \o [i \in 1..k |-> DoneTask(m_messages[i].m, ok)], written, pushes)
  BY <1>1, <1>4, ChunksComplete, ZenonT(30)
<1>6. tasks' = tasks \o [i \in 1..k |-> DoneTask(m_messages[i].m, ok)]
  BY <1>2, <1>3, ZenonT(30) DEF FlushError
<1>7. Places(tasks', m_messages', results', pushes') /\ Order(tasks', written', pushes')
  BY <1>1, <1>4, <1>5, <1>6, ZenonT(30)
<1>8. QED
  BY ZenonT(30), <1>1, <1>7 DEF QueueInv

\* The queues start empty.
LEMMA QueuesStart == OutboundInit => QueueInv
<1> SUFFICES ASSUME OutboundInit PROVE QueueInv
  BY Zenon
<1>1. tasks = <<>> /\ m_messages = <<>> /\ written = <<>> /\ DOMAIN <<>> = {} /\ \A m \in Message : results[m] = <<>>
  BY DEF OutboundInit
<1>2. Places(tasks, m_messages, results, pushes)
  BY Zenon, <1>1 DEF Places, Distinct
<1>3. Order(tasks, written, pushes)
  BY ZenonT(30), <1>1 DEF Order
<1>4. QED
  BY ZenonT(30), <1>2, <1>3, BytesStart DEF QueueInv

\* Every step keeps them.
LEMMA QueuesStep == QueueInv /\ [OutboundNext]_outboundVars => QueueInv'
<1> SUFFICES ASSUME QueueInv, [OutboundNext]_outboundVars PROVE QueueInv'
  BY Zenon
<1>1. ASSUME FlushAborted \/ Detach \/ Break \/ UNCHANGED outboundVars PROVE QueueInv'
  <2>1. ByteInv'
    BY Zenon, BytesStep DEF QueueInv
  <2>2. UNCHANGED <<tasks, pushes, written, m_messages, results>>
    BY Zenon, <1>1 DEF FlushAborted, Detach, Break, outboundVars, writerVars
  <2>3. QED
    BY Zenon, <2>1, <2>2 DEF QueueInv
<1>2. QED
  BY Zenon, <1>1, PushQueues, RunPushedQueues, RunDoneQueues, FlushQueues, FlushErrorQueues DEF OutboundNext, WriterLoop

\* A message in one place is completed once, and the order is the one asked for.
LEMMA CompletedOnce ==
  ASSUME QueueInv
  PROVE  AckedIffSent /\ SenderOrder
<1>1. Acked /\ OutboundTypeOK /\ Places(tasks, m_messages, results, pushes) /\ Order(tasks, written, pushes)
  BY Zenon DEF QueueInv, ByteInv
<1>2. SenderOrder
  BY ZenonT(30), <1>1 DEF Order, SenderOrder
<1>3. ASSUME NEW m \in Message PROVE Len(results[m]) <= 1
  BY <1>1 DEF Places
<1>4. ASSUME NEW m \in Message, Completed(m, TRUE), Completed(m, FALSE) PROVE FALSE
  <2>1. \A ok \in BOOLEAN : DoneTask(m, ok) \in Range(tasks) => \E i \in DOMAIN tasks : tasks[i] = DoneTask(m, ok) /\ tasks[i].m = m
    BY DEF Range, DoneTask
  <2>2. \A ok \in BOOLEAN : DoneTask(m, ok) \in Range(tasks) => results[m] = <<>>
    BY Zenon, <1>1, <2>1 DEF Places, Waits
  <2>3. results[m] \in Seq(BOOLEAN)
    BY Zenon, <1>1, QueueTypes
  <2>4. CASE results[m] = <<>>
    <3>1. \A ok \in BOOLEAN : ok \notin Range(results[m])
      BY <2>4 DEF Range
    <3>2. DoneTask(m, TRUE) \in Range(tasks) /\ DoneTask(m, FALSE) \in Range(tasks)
      BY <1>4, <3>1, Zenon DEF Completed
    <3>3. PICK i \in DOMAIN tasks, j \in DOMAIN tasks :
            tasks[i] = DoneTask(m, TRUE) /\ tasks[j] = DoneTask(m, FALSE) /\ tasks[i].m = tasks[j].m
      BY <2>1, <3>2, ZenonT(30)
    <3>4. DoneTask(m, TRUE) # DoneTask(m, FALSE)
      BY Zenon, DoneTasks
    <3>5. QED
      BY ZenonT(30), <1>1, <3>3, <3>4 DEF Places, Distinct
  <2>5. CASE results[m] # <<>>
    <3>1. Len(results[m]) = 1
      BY ZenonT(30), <1>1, <2>5 DEF Places
    <3>2. DOMAIN results[m] = {1}
      BY <2>3, <3>1
    <3>3. \A ok \in BOOLEAN : Completed(m, ok) => ok = results[m][1]
      BY <2>2, <2>5, <3>2, ZenonT(30) DEF Completed, Range
    <3>4. QED
      BY ZenonT(30), <1>4, <3>3
  <2>6. QED
    BY ZenonT(30), <2>4, <2>5
<1>5. QED
  BY ZenonT(30), <1>1, <1>2, <1>3, <1>4 DEF Acked, AckedIffSent

\* For any number of threads and messages a push's handler is called once at
\* most, and with success exactly when the socket has taken the message to its
\* last byte.
THEOREM HandlersAckWhatWasSent == OutboundSpec => []AckedIffSent
<1>1. QueueInv => AckedIffSent
  BY ZenonT(30), CompletedOnce
<1>2. QED
  BY <1>1, QueuesStart, QueuesStep, PTL DEF OutboundSpec

\* For any number of threads and messages, what one thread pushes is written in
\* its order, whatever the engine thread pushes inline meanwhile.
THEOREM SendersKeepOrder == OutboundSpec => []SenderOrder
<1>1. QueueInv => SenderOrder
  BY Zenon, CompletedOnce
<1>2. QED
  BY <1>1, QueuesStart, QueuesStep, PTL DEF OutboundSpec

-----------------------------------------------------------------------------
(* The trace of a request *)

\* The traces there are: ids only next to a trace, a span in every trace, and
\* what is needed to end a span in one where it was begun.
States == [span : Nat, parent : Nat]

\* A trace that is well formed.
WellFormed(t) ==
  /\ t.id = 0 => t.state.span = 0 /\ t.state.parent = 0
  /\ t.id # 0 => t.state.span # 0
  /\ t.pushed => t.id # 0 /\ t.state.parent # 0 /\ t.previous.span # 0

\* The traces there are.
Traces == {t \in [id : Nat, state : States, previous : States, pushed : BOOLEAN] : WellFormed(t)}

\* The guards of scopes.
Guards == [old : Traces, restored : BOOLEAN]

\* Callbacks carry the ids of the thread that posted them, and messages those
\* of the thread that sent them.
Callbacks == {j \in [kind : {"task", "push"}, trace : Traces, from : Nat \X Nat \X Nat] : j.from = Ids(j.trace)}
Messages == {m \in [ids : Nat \X Nat \X Nat, from : Nat \X Nat \X Nat] : m.ids = m.from}

\* A thread outside any scope is in no trace; one that set a trace was in
\* none before; and where a span was begun it can be ended.
OneThread(now, guards, busy) ==
  /\ Len(guards) <= 2
  /\ guards = <<>> => Empty(now)
  /\ guards # <<>> => busy /\ Empty(guards[1].old) /\ (~guards[1].restored => Empty(now))
  /\ Len(guards) = 2 => guards[2] = PushGuard /\ now.pushed

\* The part of the invariant about threads.
ThreadsInv ==
  /\ current \in [Threads -> Traces] /\ scopes \in [Threads -> Seq(Guards)] /\ running = [th \in Threads |-> running[th]]
  /\ \A th \in Threads : OneThread(current[th], scopes[th], Busy(th))

\* The inductive invariant of traces.
TraceInv ==
  /\ ThreadsInv
  /\ jobs \in [Threads -> Seq(Callbacks)] /\ channels \in Seq(Traces) /\ sent \in Seq(Messages)
  /\ fresh \in Nat /\ ~asserted

\* No trace.
LEMMA NoTrace ==
  /\ Trace0 \in Traces /\ Empty(Trace0) /\ ~Trace0.pushed
  /\ \A t \in Traces : Empty(t) => Ids(t) = <<0, 0, 0>> /\ ~t.pushed
<1>1. Trace0 \in Traces /\ Empty(Trace0) /\ ~Trace0.pushed
  BY Zenon DEF Trace0, Traces, WellFormed, States, State, Empty
<1>2. \A t \in Traces : Empty(t) => Ids(t) = <<0, 0, 0>> /\ ~t.pushed
  BY Zenon DEF Traces, WellFormed, States, Empty, Ids
<1>3. QED
  BY ZenonT(30), <1>1, <1>2

\* The trace of valid ids.
LEMMA TraceOfIds ==
  ASSUME NEW ids \in Nat \X Nat \X Nat, ValidIds(ids)
  PROVE  TraceOf(ids) \in Traces /\ ~TraceOf(ids).pushed
BY ZenonT(30) DEF TraceOf, ValidIds, Trace0, Traces, WellFormed, States, State

\* The ids of a trace.
LEMMA IdsOf ==
  ASSUME NEW t \in Traces
  PROVE  Ids(t) \in Nat \X Nat \X Nat
BY Zenon DEF Traces, States, Ids

\* A span that is begun can be ended.
LEMMA SpanPushed ==
  ASSUME NEW t \in Traces, NEW span \in Nat, span # 0
  PROVE  PushTrace(t, span) \in Traces /\ (~Empty(t) => PushTrace(t, span).pushed)
<1>1. CASE Empty(t)
  BY ZenonT(30), <1>1 DEF PushTrace
<1>2. CASE ~Empty(t)
  <2>1. PICK u : u = PushTrace(t, span)
    BY Zenon
  <2>2. u = [id |-> t.id, state |-> [span |-> span, parent |-> t.state.span], previous |-> t.state, pushed |-> TRUE]
    BY ZenonT(30), <1>2, <2>1 DEF PushTrace, Traces, State
  <2>3. t.id \in Nat /\ t.id # 0 /\ t.state \in States /\ t.state.span \in Nat /\ t.state.span # 0
    BY Zenon, <1>2 DEF Traces, WellFormed, States, Empty
  <2>4. u \in Traces
    BY ZenonT(30), <2>2, <2>3 DEF Traces, WellFormed, States
  <2>5. QED
    BY SMTT(30), <2>1, <2>2, <2>4
<1>3. QED
  BY ZenonT(30), <1>1, <1>2

\* A span that was begun is ended.
LEMMA Popped ==
  ASSUME NEW t \in Traces, t.pushed
  PROVE  PopTrace(t) \in Traces /\ ~PopFails(t) /\ ~Empty(t) /\ ~Empty(PopTrace(t))
<1>1. PICK u : u = PopTrace(t)
  BY Zenon
<1>2. t.id \in Nat /\ t.id # 0 /\ t.state.parent # 0 /\ t.previous \in States /\ t.previous.span # 0
  BY Zenon DEF Traces, WellFormed
<1>3. u = [id |-> t.id, state |-> t.previous, previous |-> t.previous, pushed |-> FALSE]
  BY ZenonT(30), <1>1, <1>2 DEF PopTrace, Traces, Empty
<1>4. u \in Traces /\ u.id # 0
  BY ZenonT(30), <1>2, <1>3 DEF Traces, WellFormed, States
<1>5. QED
  BY ZenonT(30), <1>1, <1>2, <1>4 DEF PopFails, Empty

\* One thread moves.
Moves(th, now, guards, run) ==
  /\ current' = [current EXCEPT ![th] = now] /\ scopes' = [scopes EXCEPT ![th] = guards]
  /\ running' = [running EXCEPT ![th] = run]

\* One thread moves to another trace and other scopes.
LEMMA OneMoved ==
  ASSUME ThreadsInv, NEW th \in Threads, NEW now \in Traces, NEW guards \in Seq(Guards), NEW run, Moves(th, now, guards, run),
         OneThread(now, guards, run # Idle)
  PROVE  ThreadsInv'
<1>1. /\ current' \in [Threads -> Traces] /\ scopes' \in [Threads -> Seq(Guards)]
      /\ running' = [x \in Threads |-> running'[x]]
  BY Zenon DEF ThreadsInv, Moves
<1>2. /\ current'[th] = now /\ scopes'[th] = guards /\ running'[th] = run
      /\ \A x \in Threads : x # th => current'[x] = current[x] /\ scopes'[x] = scopes[x] /\ running'[x] = running[x]
  BY Zenon DEF ThreadsInv, Moves
<1>3. ASSUME NEW x \in Threads PROVE OneThread(current'[x], scopes'[x], running'[x] # Idle)
  <2>1. CASE x = th
    BY ZenonT(30), <1>2, <2>1
  <2>2. CASE x # th
    BY ZenonT(30), <1>2, <2>2 DEF ThreadsInv, Busy
  <2>3. QED
    BY ZenonT(30), <2>1, <2>2
<1>4. QED
  BY ZenonT(30), <1>1, <1>3 DEF ThreadsInv, Busy

\* A thread that executes nothing is in no trace.
LEMMA Resting ==
  ASSUME ThreadsInv, NEW th \in Threads, ~Busy(th)
  PROVE  scopes[th] = <<>> /\ Empty(current[th]) /\ current[th] \in Traces
BY Zenon DEF ThreadsInv, OneThread

\* A thread that executes nothing takes up a trace.
LEMMA Entered ==
  ASSUME ThreadsInv, NEW th \in Threads, ~Busy(th), NEW t \in Traces, NEW run, run # Idle, NEW now \in Traces,
         Empty(t) => now = current[th], Moves(th, now, <<Scope(th, t)>>, run)
  PROVE  ThreadsInv'
<1>1. PICK g : g = Scope(th, t)
  BY Zenon
<1>2. Empty(current[th]) /\ current[th] \in Traces
  BY ZenonT(30), Resting
<1>3. g \in Guards /\ g.old = current[th] /\ g.restored = ~Empty(t)
  BY ZenonT(30), <1>1, <1>2 DEF Scope, Guards
<1>4. PICK gs : gs = <<g>>
  BY ZenonT(30)
<1>5. gs \in Seq(Guards) /\ Len(gs) <= 2 /\ Len(gs) # 2 /\ gs[1] = g /\ gs # <<>>
  BY SMTT(30), <1>3, <1>4
<1>6. OneThread(now, gs, run # Idle)
  BY ZenonT(30), <1>2, <1>3, <1>5 DEF OneThread
<1>7. QED
  BY ZenonT(30), <1>1, <1>4, <1>5, <1>6, OneMoved

\* handle() enters the scope of its channel.
LEMMA HandlerKeeps ==
  ASSUME ThreadsInv, ~Busy(EngineThread), NEW ch, NEW t \in Traces, EnterHandler(ch, t), ~asserted
  PROVE  ThreadsInv' /\ ~asserted'
<1>1. EngineThread \in Threads
  BY Zenon DEF Threads
<1>2. PICK now, then, run : /\ now = Restored(EngineThread, t) /\ then = (IF now.pushed THEN PopTrace(now) ELSE now)
                            /\ run = [kind |-> "message", channel |-> ch]
  BY Zenon
<1>3. Empty(current[EngineThread]) /\ current[EngineThread] \in Traces
  BY ZenonT(30), <1>1, Resting
<1>4. now \in Traces /\ (Empty(t) => now = current[EngineThread])
  BY ZenonT(30), <1>2, <1>3 DEF Restored
<1>5. then \in Traces /\ (Empty(t) => then = current[EngineThread]) /\ ~(now.pushed /\ PopFails(now))
  <2>1. CASE now.pushed
    BY ZenonT(30), <1>2, <1>3, <1>4, <2>1, Popped
  <2>2. CASE ~now.pushed
    BY ZenonT(30), <1>2, <1>4, <2>2
  <2>3. QED
    BY ZenonT(30), <2>1, <2>2
<1>6. run # Idle
  BY ZenonT(30), <1>2 DEF Idle
<1>7. Moves(EngineThread, then, <<Scope(EngineThread, t)>>, run) /\ asserted' = (asserted \/ (now.pushed /\ PopFails(now)))
  BY Zenon, <1>2 DEF EnterHandler, Moves
<1>8. QED
  BY ZenonT(30), <1>1, <1>4, <1>5, <1>6, <1>7, Entered

\* The trace of the headers becomes that of a new channel.
LEMMA HandleNewKeeps ==
  ASSUME TraceInv, NEW ids \in Incoming, HandleNew(ids)
  PROVE  TraceInv'
<1>1. PICK t : t = IF ids = <<>> THEN Trace0 ELSE TraceOf(ids)
  BY Zenon
<1>2. t \in Traces
  BY ZenonT(30), <1>1, NoTrace, TraceOfIds, TraceAssumption DEF HandleNew
<1>3. /\ ~Busy(EngineThread) /\ channels' = Append(channels, t) /\ EnterHandler(maxChannel + 1, t) /\ UNCHANGED <<jobs, fresh, sent>>
  BY Zenon, <1>1 DEF HandleNew
<1>4. ThreadsInv' /\ ~asserted'
  BY ZenonT(30), <1>2, <1>3, HandlerKeeps DEF TraceInv
<1>5. channels' \in Seq(Traces)
  BY <1>2, <1>3 DEF TraceInv
<1>6. QED
  BY ZenonT(30), <1>3, <1>4, <1>5 DEF TraceInv

\* The trace of the channel is entered.
LEMMA HandleKnownKeeps ==
  ASSUME TraceInv, NEW ch \in DOMAIN channels, HandleKnown(ch)
  PROVE  TraceInv'
<1>1. channels[ch] \in Traces
  BY DEF TraceInv
<1>2. /\ ~Busy(EngineThread) /\ EnterHandler(ch, channels[ch]) /\ UNCHANGED <<jobs, channels, fresh, sent>>
  BY Zenon DEF HandleKnown
<1>3. QED
  BY ZenonT(30), <1>1, <1>2, HandlerKeeps DEF TraceInv

\* A step that leaves threads alone.
LEMMA ThreadsStay ==
  ASSUME ThreadsInv, UNCHANGED <<current, scopes, running>>
  PROVE  ThreadsInv'
BY Zenon DEF ThreadsInv, Busy

\* A forked channel has a span of its own.
LEMMA ForkKeeps ==
  ASSUME TraceInv, NEW th \in Threads, Fork(th)
  PROVE  TraceInv'
<1>1. PICK t : t = PushTrace(current[th], FreshSpan)
  BY Zenon
<1>2. FreshSpan \in Nat /\ FreshSpan # 0 /\ fresh + 1 \in Nat
  BY DEF TraceInv, FreshSpan
<1>3. t \in Traces
  BY ZenonT(30), <1>1, <1>2, SpanPushed DEF TraceInv, ThreadsInv
<1>4. channels' = Append(channels, t) /\ fresh' = fresh + 1 /\ UNCHANGED <<current, scopes, running, jobs, sent, asserted>>
  BY ZenonT(30), <1>1 DEF Fork
<1>5. channels' \in Seq(Traces)
  BY <1>3, <1>4 DEF TraceInv
<1>6. ThreadsInv'
  BY ZenonT(30), <1>4, ThreadsStay DEF TraceInv
<1>7. QED
  BY ZenonT(30), <1>2, <1>4, <1>5, <1>6 DEF TraceInv

\* What is sent at once.
LEMMA SendHereKeeps ==
  ASSUME TraceInv, SendHere
  PROVE  TraceInv'
<1>1. PICK t, m : t = current[EngineThread] /\ m = Encoded(t, Ids(t))
  BY Zenon
<1>2. t \in Traces
  BY Zenon, <1>1 DEF TraceInv, ThreadsInv, Threads
<1>3. Ids(t) \in Nat \X Nat \X Nat
  BY ZenonT(30), <1>2, IdsOf
<1>4. m \in Messages
  BY ZenonT(30), <1>1, <1>3 DEF Encoded, Messages
<1>5. sent' = Append(sent, m) /\ UNCHANGED <<current, scopes, running, jobs, channels, fresh, asserted>>
  BY ZenonT(30), <1>1 DEF SendHere, Restored
<1>6. sent' \in Seq(Messages)
  BY <1>4, <1>5 DEF TraceInv
<1>7. QED
  BY ZenonT(30), <1>5, <1>6, ThreadsStay DEF TraceInv

\* A callback carries the trace of the thread that posts it.
LEMMA PostKeeps ==
  ASSUME TraceInv, NEW kind \in {"task", "push"}, NEW th \in Threads, NEW to \in Threads, PostJob(kind, th, to)
  PROVE  TraceInv'
<1>1. PICK t, j : t = current[th] /\ j = Job(kind, th)
  BY Zenon
<1>2. t \in Traces
  BY ZenonT(30), <1>1 DEF TraceInv, ThreadsInv
<1>3. Ids(t) \in Nat \X Nat \X Nat
  BY ZenonT(30), <1>2, IdsOf
<1>4. j \in Callbacks
  BY ZenonT(30), <1>1, <1>2, <1>3 DEF Job, Callbacks
<1>5. /\ jobs' = [jobs EXCEPT ![to] = Append(jobs[to], j)]
      /\ UNCHANGED <<current, scopes, running, channels, fresh, sent, asserted>>
  BY Zenon, <1>1 DEF PostJob
<1>6. jobs \in [Threads -> Seq(Callbacks)]
  BY ZenonT(30) DEF TraceInv
<1>7. Append(jobs[to], j) \in Seq(Callbacks)
  BY <1>4, <1>6
<1>8. jobs' \in [Threads -> Seq(Callbacks)]
  BY ZenonT(30), <1>5, <1>6, <1>7
<1>9. QED
  BY ZenonT(30), <1>5, <1>8, ThreadsStay DEF TraceInv

\* The callback at the head of a thread's queue.
LEMMA HeadCallback ==
  ASSUME TraceInv, NEW th \in Threads, jobs[th] # <<>>
  PROVE  /\ Head(jobs[th]).trace \in Traces /\ Head(jobs[th]).from = Ids(Head(jobs[th]).trace)
         /\ [jobs EXCEPT ![th] = Tail(jobs[th])] \in [Threads -> Seq(Callbacks)]
<1>1. jobs \in [Threads -> Seq(Callbacks)]
  BY Zenon DEF TraceInv
<1>2. jobs[th] \in Seq(Callbacks)
  BY ZenonT(30), <1>1
<1>3. Head(jobs[th]) \in Callbacks /\ Tail(jobs[th]) \in Seq(Callbacks)
  BY ZenonT(30), <1>2, HeadTail
<1>4. Head(jobs[th]).trace \in Traces /\ Head(jobs[th]).from = Ids(Head(jobs[th]).trace)
  BY Zenon, <1>3 DEF Callbacks
<1>5. QED
  BY ZenonT(30), <1>1, <1>3, <1>4

\* A message that the loop encodes for another thread has that thread's ids:
\* the loop is in no trace of its own when it runs the callback.
LEMMA RunPushKeeps ==
  ASSUME TraceInv, RunPush
  PROVE  TraceInv'
<1>1. PICK j, t, m : j = Head(jobs[EngineThread]) /\ t = Restored(EngineThread, j.trace) /\ m = Encoded(t, j.from)
  BY Zenon
<1>2. EngineThread \in Threads
  BY Zenon DEF Threads
<1>3. /\ ~Busy(EngineThread) /\ jobs[EngineThread] # <<>> /\ sent' = Append(sent, m)
      /\ jobs' = [jobs EXCEPT ![EngineThread] = Tail(jobs[EngineThread])]
      /\ UNCHANGED <<current, scopes, running, channels, fresh, asserted>>
  BY Zenon, <1>1 DEF RunPush
<1>4. j.trace \in Traces /\ j.from = Ids(j.trace) /\ jobs' \in [Threads -> Seq(Callbacks)]
  BY ZenonT(30), <1>1, <1>2, <1>3, HeadCallback
<1>5. Empty(current[EngineThread]) /\ current[EngineThread] \in Traces
  BY ZenonT(30), <1>2, <1>3, Resting DEF TraceInv
<1>6. t \in Traces /\ Ids(t) = j.from
  BY ZenonT(30), <1>1, <1>4, <1>5, NoTrace DEF Restored
<1>7. Ids(t) \in Nat \X Nat \X Nat
  BY ZenonT(30), <1>6, IdsOf
<1>8. m \in Messages
  BY ZenonT(30), <1>1, <1>6, <1>7 DEF Encoded, Messages
<1>9. sent' \in Seq(Messages)
  BY SMTT(30), <1>3, <1>8 DEF TraceInv
<1>10. QED
  BY ZenonT(30), <1>3, <1>4, <1>9, ThreadsStay DEF TraceInv

\* The service's thread enters the trace of its callback.
LEMMA RunTaskKeeps ==
  ASSUME TraceInv, RunTask
  PROVE  TraceInv'
<1>1. PICK t, now, run : /\ t = Head(jobs[ServiceThread]).trace /\ now = Restored(ServiceThread, t)
                         /\ run = [kind |-> "task", channel |-> 0]
  BY Zenon
<1>2. ServiceThread \in Threads /\ run # Idle
  BY ZenonT(30), <1>1 DEF Threads, Idle
<1>3. /\ ~Busy(ServiceThread) /\ jobs[ServiceThread] # <<>> /\ Moves(ServiceThread, now, <<Scope(ServiceThread, t)>>, run)
      /\ jobs' = [jobs EXCEPT ![ServiceThread] = Tail(jobs[ServiceThread])]
      /\ UNCHANGED <<channels, fresh, sent, asserted>>
  BY ZenonT(30), <1>1 DEF RunTask, Moves
<1>4. t \in Traces /\ jobs' \in [Threads -> Seq(Callbacks)]
  BY ZenonT(30), <1>1, <1>2, <1>3, HeadCallback
<1>5. now \in Traces /\ (Empty(t) => now = current[ServiceThread])
  BY ZenonT(30), <1>1, <1>2, <1>4 DEF Restored, TraceInv, ThreadsInv
<1>6. ThreadsInv'
  BY ZenonT(30), <1>2, <1>3, <1>4, <1>5, Entered DEF TraceInv
<1>7. QED
  BY ZenonT(30), <1>3, <1>4, <1>6 DEF TraceInv

\* The service's thread begins outside any trace.
LEMMA RunOwnKeeps ==
  ASSUME TraceInv, RunOwn
  PROVE  TraceInv'
<1>1. PICK run, now, guards : /\ run = [kind |-> "own", channel |-> 0] /\ now = current[ServiceThread]
                              /\ guards = scopes[ServiceThread]
  BY Zenon
<1>2. ServiceThread \in Threads
  BY Zenon DEF Threads
<1>3. guards = <<>> /\ Empty(now) /\ now \in Traces /\ guards \in Seq(Guards)
  BY ZenonT(30), <1>1, <1>2, Resting DEF RunOwn, TraceInv, ThreadsInv
<1>4. OneThread(now, guards, run # Idle)
  <2>1. Len(guards) <= 2 /\ Len(guards) # 2
    BY <1>3
  <2>2. QED
    BY ZenonT(30), <1>3, <2>1 DEF OneThread
<1>5. running' = [running EXCEPT ![ServiceThread] = run] /\ UNCHANGED <<current, scopes, jobs, channels, fresh, sent, asserted>>
  BY Zenon, <1>1 DEF RunOwn
<1>6. Moves(ServiceThread, now, guards, run)
  BY ZenonT(30), <1>1, <1>2, <1>5 DEF Moves, TraceInv, ThreadsInv
<1>7. ThreadsInv'
  BY ZenonT(30), <1>2, <1>3, <1>4, <1>6, OneMoved DEF TraceInv
<1>8. QED
  BY ZenonT(30), <1>5, <1>7 DEF TraceInv

\* A span is begun.
LEMMA PushScopeKeeps ==
  ASSUME TraceInv, NEW th \in Threads, PushScope(th)
  PROVE  TraceInv'
<1>1. PICK old, now, before, guards, run :
        /\ old = current[th] /\ now = PushTrace(old, FreshSpan) /\ before = scopes[th] /\ guards = Append(before, PushGuard)
        /\ run = running[th]
  BY Zenon
<1>2. /\ run # Idle /\ Len(before) = 1 /\ ~Empty(old) /\ fresh' = fresh + 1
      /\ current' = [current EXCEPT ![th] = now] /\ scopes' = [scopes EXCEPT ![th] = guards]
      /\ UNCHANGED <<running, jobs, channels, sent, asserted>>
  BY Zenon, <1>1 DEF PushScope, Busy
<1>3. old \in Traces /\ before \in Seq(Guards) /\ OneThread(old, before, run # Idle)
  BY ZenonT(30), <1>1 DEF TraceInv, ThreadsInv, Busy
<1>4. FreshSpan \in Nat /\ FreshSpan # 0 /\ fresh + 1 \in Nat
  BY DEF TraceInv, FreshSpan
<1>5. now \in Traces /\ now.pushed
  BY ZenonT(30), <1>1, <1>2, <1>3, <1>4, SpanPushed
<1>6. PushGuard \in Guards
  BY ZenonT(30), NoTrace DEF PushGuard, Guards
<1>7. /\ before # <<>> /\ guards \in Seq(Guards) /\ Len(guards) <= 2 /\ guards # <<>>
      /\ guards[1] = before[1] /\ guards[2] = PushGuard
  BY SMTT(30), <1>1, <1>2, <1>3, <1>6
<1>8. OneThread(now, guards, run # Idle)
  BY ZenonT(30), <1>2, <1>3, <1>5, <1>7 DEF OneThread
<1>9. Moves(th, now, guards, run)
  BY ZenonT(30), <1>1, <1>2 DEF Moves, TraceInv, ThreadsInv
<1>10. ThreadsInv'
  BY ZenonT(30), <1>5, <1>7, <1>8, <1>9, OneMoved DEF TraceInv
<1>11. QED
  BY ZenonT(30), <1>2, <1>4, <1>10 DEF TraceInv

\* The span is ended.
LEMMA PopScopeKeeps ==
  ASSUME TraceInv, NEW th \in Threads, PopScope(th)
  PROVE  TraceInv'
<1>1. PICK old, now, before, guards, run :
        /\ old = current[th] /\ now = PopTrace(old) /\ before = scopes[th] /\ guards = SubSeq(before, 1, 1)
        /\ run = running[th]
  BY Zenon
<1>2. /\ before # <<>> /\ Len(before) = 2
      /\ current' = [current EXCEPT ![th] = now] /\ scopes' = [scopes EXCEPT ![th] = guards]
      /\ asserted' = (asserted \/ PopFails(old)) /\ UNCHANGED <<running, jobs, channels, fresh, sent>>
  BY ZenonT(30), <1>1 DEF PopScope, InPushScope
<1>3. old \in Traces /\ before \in Seq(Guards) /\ OneThread(old, before, run # Idle)
  BY ZenonT(30), <1>1 DEF TraceInv, ThreadsInv, Busy
<1>4. now \in Traces /\ ~PopFails(old) /\ ~Empty(old)
  BY ZenonT(30), <1>1, <1>2, <1>3, Popped DEF OneThread
<1>5. guards \in Seq(Guards) /\ Len(guards) <= 2 /\ Len(guards) # 2 /\ guards # <<>> /\ guards[1] = before[1]
  BY SMTT(30), <1>1, <1>2, <1>3
<1>6. OneThread(now, guards, run # Idle)
  BY ZenonT(30), <1>2, <1>3, <1>4, <1>5 DEF OneThread
<1>7. Moves(th, now, guards, run)
  BY ZenonT(30), <1>1, <1>2 DEF Moves, TraceInv, ThreadsInv
<1>8. ThreadsInv'
  BY ZenonT(30), <1>4, <1>5, <1>6, <1>7, OneMoved DEF TraceInv
<1>9. QED
  BY ZenonT(30), <1>2, <1>4, <1>8 DEF TraceInv

\* The scope of the handler ends.
LEMMA ReturnKeeps ==
  ASSUME TraceInv, NEW th \in Threads, HandlerReturns(th)
  PROVE  TraceInv'
<1>1. PICK old, before, now :
        /\ old = current[th] /\ before = scopes[th]
        /\ now = (IF before # <<>> /\ before[1].restored THEN before[1].old ELSE old)
  BY Zenon
<1>2. Moves(th, now, <<>>, Idle) /\ UNCHANGED <<jobs, channels, fresh, sent, asserted>>
  BY ZenonT(30), <1>1 DEF HandlerReturns, Moves
<1>3. old \in Traces /\ before \in Seq(Guards) /\ OneThread(old, before, Busy(th))
  BY ZenonT(30), <1>1 DEF TraceInv, ThreadsInv
<1>4. before # <<>> => before[1].old \in Traces
  <2>1. before \in Seq(Guards) /\ before # <<>> => before[1] \in Guards
    OBVIOUS
  <2>2. \A g \in Guards : g.old \in Traces
    BY Zenon DEF Guards
  <2>3. QED
    BY ZenonT(30), <1>3, <2>1, <2>2
<1>5. now \in Traces /\ Empty(now)
  BY ZenonT(30), <1>1, <1>3, <1>4 DEF OneThread
<1>6. PICK guards : guards = <<>>
  BY Zenon
<1>7. guards \in Seq(Guards) /\ Len(guards) <= 2 /\ Len(guards) # 2
  BY <1>6
<1>8. OneThread(now, guards, Idle # Idle)
  BY ZenonT(30), <1>5, <1>6, <1>7 DEF OneThread
<1>9. ThreadsInv'
  BY ZenonT(30), <1>2, <1>5, <1>6, <1>7, <1>8, OneMoved DEF TraceInv
<1>10. QED
  BY ZenonT(30), <1>2, <1>9 DEF TraceInv

\* No thread is in a trace at the start.
LEMMA TraceStart ==
  ASSUME TraceInit
  PROVE  TraceInv
<1>1. \A th \in Threads : OneThread(current[th], scopes[th], Busy(th))
  <2>1. PICK guards : guards = <<>>
    BY Zenon
  <2>2. Len(guards) <= 2 /\ Len(guards) # 2
    BY SMTT(30), <2>1
  <2>3. QED
    BY ZenonT(30), <2>1, <2>2, NoTrace DEF TraceInit, OneThread
<1>2. ThreadsInv
  BY <1>1, NoTrace DEF TraceInit, ThreadsInv
<1>3. QED
  BY <1>2 DEF TraceInit, TraceInv

\* Every step keeps it.
LEMMA TraceKeeps ==
  ASSUME TraceInv, [Silent \/ Speaks]_traceVars
  PROVE  TraceInv'
<1>1. EngineThread \in Threads /\ ServiceThread \in Threads
  BY Zenon DEF Threads
<1>2. CASE Silent
  BY ZenonT(30), <1>1, <1>2, HandleNewKeeps, HandleKnownKeeps, ForkKeeps, PushScopeKeeps, PopScopeKeeps, ReturnKeeps,
     PostKeeps, RunTaskKeeps, RunOwnKeeps DEF Silent
<1>3. CASE Speaks
  BY ZenonT(30), <1>3, SendHereKeeps, RunPushKeeps DEF Speaks
<1>4. CASE UNCHANGED traceVars
  BY ZenonT(30), <1>4, ThreadsStay DEF traceVars, TraceInv
<1>5. QED
  BY ZenonT(30), <1>2, <1>3, <1>4

\* Threads are in the trace of what they run, callbacks and messages carry the ids
\* of their sender, and spans are ended where they were begun (trace.hpp), for any
\* incoming ids and any number of channels, spans, callbacks and messages.
THEOREM TracesSound == TraceSpec => []TraceInv
BY PTL, TraceStart, TraceKeeps DEF TraceSpec

\* The ids in the headers of a message are those of the thread that called push(),
\* and no assertion of pop() fails.
THEOREM MessagesCarrySender == TraceSpec => []TraceOfSender
<1>1. ASSUME TraceInv PROVE TraceOfSender
  <2>1. \A i \in DOMAIN sent : sent[i] \in Messages
    BY <1>1 DEF TraceInv
  <2>2. \A m \in Messages : m.ids = m.from
    BY Zenon DEF Messages
  <2>3. QED
    BY ZenonT(30), <1>1, <2>1, <2>2 DEF TraceInv, TraceOfSender
<1>2. QED
  BY PTL, <1>1, TracesSound
=============================================================================
