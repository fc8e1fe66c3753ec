--------------------------- MODULE ContextProofs ---------------------------
(***************************************************************************)
(* The registry keeps services of different names, the pool keeps every    *)
(* shared port exactly once, and the signals of the hub add up, for any    *)
(* number of services, ports and threads.                                  *)
(***************************************************************************)
EXTENDS Context, FiniteSetTheorems, SequenceFacts

\* What the hub is asked to emit.
Signals == [kind : {"exposed", "removed", "prepared", "shutdown"}, service : Names \cup {None}]

\* Where the threads are.
Labels == {"idle", "start", "publish", "prepared", "up", "terminate", "remove", "stop", "signal", "down"}

\* What the variables hold.
ContextTypeOK ==
  /\ m_services \in Seq(Actors) /\ m_unpublished \in Seq(Actors)
  /\ name \in [Actors -> Names \cup {None}]
  /\ m_shared \in Seq(Ports)
  /\ m_in_use \in [Names -> Ports \cup {Pinned[n] : n \in DOMAIN Pinned} \cup {None}]
  /\ signals \in Seq(Signals)
  /\ pc \in [Callers -> Labels]
  /\ self \in [Callers -> Actors \cup {None}]
  /\ todo \in Seq(Names)

\* Actors on the lists and those that a thread is removing were named; a
\* thread has one exactly while it removes it.
Named ==
  /\ \A i \in DOMAIN m_services : name[m_services[i]] \in Names
  /\ \A i \in DOMAIN m_unpublished : name[m_unpublished[i]] \in Names
  /\ \A t \in Callers : IF pc[t] \in {"stop", "signal"} THEN self[t] \in Actors /\ name[self[t]] \in Names
                        ELSE self[t] = None

\* A service holds the port of its name from the moment it is listed until its
\* terminate(), so that assign() refuses a second one in between.
HoldsPort ==
  /\ \A i \in DOMAIN m_services : m_in_use[name[m_services[i]]] # None
  /\ \A t \in Callers : pc[t] = "stop" => m_in_use[name[self[t]]] # None
  /\ \A i \in DOMAIN m_services, t \in Callers :
       pc[t] = "stop" => name[m_services[i]] # name[self[t]]
  /\ \A t, u \in Callers : pc[t] = "stop" /\ pc[u] = "stop" /\ name[self[t]] = name[self[u]] => t = u

\* Pinned names use their own port and the others a shared one; a shared port
\* is queued once or in use by one name.
Pool ==
  /\ \A n \in Names : m_in_use[n] # None =>
       IF n \in DOMAIN Pinned THEN m_in_use[n] = Pinned[n] ELSE m_in_use[n] \in Ports
  /\ \A i, j \in DOMAIN m_shared : m_shared[i] = m_shared[j] => i = j
  /\ \A n, k \in Names : m_in_use[n] \in Ports /\ m_in_use[n] = m_in_use[k] => n = k
  /\ \A i \in DOMAIN m_shared, n \in Names : m_shared[i] # m_in_use[n]
  /\ \A p \in Ports : (\E i \in DOMAIN m_shared : m_shared[i] = p) \/ \E n \in Names : m_in_use[n] = p

\* The inductive invariant of the registry and the pool.
RegistryInv == ContextTypeOK /\ Named /\ UniqueNames /\ HoldsPort /\ Pool

-----------------------------------------------------------------------------
(* Sequences *)

\* A sequence without one of its elements keeps the others in order.
LEMMA Removed ==
  ASSUME NEW S, NEW s \in Seq(S), NEW i \in DOMAIN s
  PROVE  /\ Without(s, i) \in Seq(S) /\ DOMAIN Without(s, i) = 1..Len(s) - 1
         /\ \A j \in 1..Len(s) - 1 : j \in DOMAIN s /\ j + 1 \in DOMAIN s
         /\ \A j \in 1..Len(s) - 1 : Without(s, i)[j] = IF j < i THEN s[j] ELSE s[j + 1]
         /\ \A j \in DOMAIN s \ {i} : \E k \in DOMAIN Without(s, i) : Without(s, i)[k] = s[j]
         /\ \A k \in DOMAIN Without(s, i) : \E j \in DOMAIN s \ {i} : Without(s, i)[k] = s[j]
<1> DEFINE a == SubSeq(s, 1, i - 1)
           b == SubSeq(s, i + 1, Len(s))
<1>0. Len(s) \in Nat /\ DOMAIN s = 1..Len(s) /\ i \in 1..Len(s)
  OBVIOUS
<1>1. a \in Seq(S) /\ Len(a) = i - 1 /\ \A j \in 1..i - 1 : a[j] = s[j]
  OBVIOUS
<1>2. b \in Seq(S) /\ Len(b) = Len(s) - i /\ \A j \in 1..Len(s) - i : b[j] = s[i + j]
  OBVIOUS
<1>3. /\ Without(s, i) \in Seq(S) /\ Len(Without(s, i)) = Len(s) - 1
      /\ \A j \in 1..Len(s) - 1 : Without(s, i)[j] = IF j < i THEN s[j] ELSE s[j + 1]
  <2> HIDE DEF a, b
  <2>1. Without(s, i) = a \o b
    BY Zenon DEF Without, a, b
  <2>2. /\ a \o b \in Seq(S) /\ Len(a \o b) = Len(a) + Len(b)
        /\ \A j \in 1..Len(a) : (a \o b)[j] = a[j]
        /\ \A j \in 1..Len(b) : (a \o b)[Len(a) + j] = b[j]
    <3>1. a \in Seq(S) /\ b \in Seq(S)
      BY Zenon, <1>1, <1>2
    <3>2. QED
      BY <3>1, Catenated
  <2>3. ASSUME NEW j \in 1..Len(s) - 1 PROVE Without(s, i)[j] = IF j < i THEN s[j] ELSE s[j + 1]
    <3>1. CASE j < i
      <4>1. j \in 1..i - 1
        BY <1>0, <3>1
      <4>2. QED
        BY ZenonT(30), <1>1, <2>1, <2>2, <3>1, <4>1
    <3>2. CASE ~(j < i)
      <4>1. /\ j - (i - 1) \in 1..Len(s) - i
            /\ (i - 1) + (j - (i - 1)) = j /\ i + (j - (i - 1)) = j + 1
        BY <1>0, <3>2
      <4>2. (a \o b)[(i - 1) + (j - (i - 1))] = b[j - (i - 1)]
        BY ZenonT(30), <1>1, <1>2, <2>2, <4>1
      <4>3. QED
        BY Zenon, <1>2, <2>1, <3>2, <4>1, <4>2
    <3>3. QED
      BY Zenon, <3>1, <3>2
  <2>4. QED
    BY SMTT(30), <1>0, <1>1, <1>2, <2>1, <2>2, <2>3
<1>4. ASSUME NEW j \in DOMAIN s \ {i} PROVE \E k \in DOMAIN Without(s, i) : Without(s, i)[k] = s[j]
  <2>1. CASE j < i
    BY <1>3, <2>1
  <2>2. CASE j > i
    <3>1. j - 1 \in DOMAIN Without(s, i) /\ Without(s, i)[j - 1] = s[j]
      BY <1>3, <2>2
    <3>2. QED
      BY Zenon, <3>1
  <2>3. QED
    BY <2>1, <2>2
<1>5. ASSUME NEW k \in DOMAIN Without(s, i) PROVE \E j \in DOMAIN s \ {i} : Without(s, i)[k] = s[j]
  <2>1. k \in 1..Len(s) - 1
    BY <1>3
  <2>2. CASE k < i
    BY <1>0, <1>3, <2>1, <2>2
  <2>3. CASE ~(k < i)
    <3>1. k + 1 \in DOMAIN s \ {i} /\ Without(s, i)[k] = s[k + 1]
      BY <1>0, <1>3, <2>1, <2>3
    <3>2. QED
      BY Zenon, <3>1
  <2>4. QED
    BY Zenon, <2>2, <2>3
<1>6. QED
  BY <1>0, <1>3, <1>4, <1>5

-----------------------------------------------------------------------------
(* The pool of ports *)

\* The configuration names services.
LEMMA ConfiguredNames == Configured \in Seq(Names)
  BY ContextAssumption DEF Names, Range

\* The port that assign() hands out is the pinned one or one of the pool.
LEMMA NextPortFresh ==
  ASSUME RegistryInv, NEW n \in Names, Assignable(n)
  PROVE  /\ NextPort(n) # None /\ NextPort(n) \in Ports \cup {Pinned[k] : k \in DOMAIN Pinned}
         /\ n \in DOMAIN Pinned => NextPort(n) \notin Ports
         /\ n \notin DOMAIN Pinned => m_shared # <<>> /\ NextPort(n) = m_shared[1] /\ NextPort(n) \in Ports
  BY ContextAssumption, HeadTail DEF RegistryInv, ContextTypeOK, Assignable, NextPort

\* assign() moves a port from the pool to a service ...
LEMMA AssignKeepsPool ==
  ASSUME RegistryInv, NEW n \in Names, Assignable(n), Assign(n)
  PROVE  /\ Pool' /\ m_shared' \in Seq(Ports)
         /\ m_in_use' \in [Names -> Ports \cup {Pinned[k] : k \in DOMAIN Pinned} \cup {None}]
<1>1. /\ m_shared \in Seq(Ports) /\ m_in_use[n] = None
      /\ m_in_use \in [Names -> Ports \cup {Pinned[k] : k \in DOMAIN Pinned} \cup {None}]
  BY Zenon DEF RegistryInv, ContextTypeOK, Assignable
<1>2. /\ m_in_use'[n] = NextPort(n) /\ \A k \in Names \ {n} : m_in_use'[k] = m_in_use[k]
      /\ m_in_use' \in [Names -> Ports \cup {Pinned[k] : k \in DOMAIN Pinned} \cup {None}]
  BY Zenon, <1>1, NextPortFresh DEF Assign
<1>3. CASE n \in DOMAIN Pinned
  <2>1. m_shared' = m_shared /\ NextPort(n) = Pinned[n]
    BY Zenon, <1>3 DEF Assign, NextPort
  <2>2. NextPort(n) \notin Ports /\ NextPort(n) # None /\ None \notin Ports
    BY Zenon, <1>3, NextPortFresh, ContextAssumption
  <2>3. Pool'
    BY <1>1, <1>2, <1>3, <2>1, <2>2 DEF RegistryInv, Pool
  <2>4. QED
    BY Zenon, <1>1, <1>2, <2>1, <2>3
<1>4. CASE n \notin DOMAIN Pinned
  <2>1. m_shared' = Tail(m_shared) /\ m_shared # <<>> /\ NextPort(n) = m_shared[1] /\ NextPort(n) \in Ports
    BY Zenon, <1>4, NextPortFresh DEF Assign
  <2>2. /\ m_shared' \in Seq(Ports) /\ DOMAIN m_shared' = 1..Len(m_shared) - 1 /\ 1 \in DOMAIN m_shared
        /\ \A i \in 1..Len(m_shared) - 1 : i + 1 \in DOMAIN m_shared /\ m_shared'[i] = m_shared[i + 1]
        /\ \A i \in DOMAIN m_shared : i = 1 \/ (i - 1 \in 1..Len(m_shared) - 1 /\ m_shared'[i - 1] = m_shared[i])
    BY Zenon, <1>1, <2>1, HeadTail
  <2>3. None \notin Ports
    BY Zenon, ContextAssumption
  <2>4. \A k \in Names : m_in_use'[k] # None =>
          IF k \in DOMAIN Pinned THEN m_in_use'[k] = Pinned[k] ELSE m_in_use'[k] \in Ports
    BY ZenonT(30), <1>2, <1>4, <2>1 DEF RegistryInv, Pool
  <2>5. \A i, j \in DOMAIN m_shared' : m_shared'[i] = m_shared'[j] => i = j
    BY <2>2 DEF RegistryInv, Pool
  <2>6. \A i \in DOMAIN m_shared' : m_shared'[i] # m_shared[1]
    BY <2>2 DEF RegistryInv, Pool
  <2>7. \A k, l \in Names : m_in_use'[k] \in Ports /\ m_in_use'[k] = m_in_use'[l] => k = l
    BY <1>2, <2>1, <2>2 DEF RegistryInv, Pool
  <2>8. \A i \in DOMAIN m_shared', k \in Names : m_shared'[i] # m_in_use'[k]
    BY <1>2, <2>1, <2>2, <2>6 DEF RegistryInv, Pool
  <2>9. ASSUME NEW p \in Ports
        PROVE  (\E i \in DOMAIN m_shared' : m_shared'[i] = p) \/ \E k \in Names : m_in_use'[k] = p
    <3>1. CASE \E i \in DOMAIN m_shared : m_shared[i] = p
      <4>1. PICK i \in DOMAIN m_shared : m_shared[i] = p
        BY Zenon, <3>1
      <4>2. CASE i = 1
        BY ZenonT(30), <1>2, <2>1, <4>1, <4>2
      <4>3. CASE i # 1
        BY Zenon, <2>2, <4>1, <4>3
      <4>4. QED
        BY Zenon, <4>2, <4>3
    <3>2. CASE \E k \in Names : m_in_use[k] = p
      BY Zenon, <1>1, <1>2, <2>3, <3>2
    <3>3. QED
      BY Zenon, <3>1, <3>2 DEF RegistryInv, Pool
  <2>10. Pool'
    BY ZenonT(30), <2>4, <2>5, <2>7, <2>8, <2>9 DEF Pool
  <2>11. QED
    BY Zenon, <1>2, <2>2, <2>10
<1>5. QED
  BY Zenon, <1>3, <1>4

\* ... retain() moves it back ...
LEMMA RetainKeepsPool ==
  ASSUME RegistryInv, NEW n \in Names, m_in_use[n] # None, Retain(n)
  PROVE  /\ Pool' /\ m_shared' \in Seq(Ports)
         /\ m_in_use' \in [Names -> Ports \cup {Pinned[k] : k \in DOMAIN Pinned} \cup {None}]
<1>1. /\ m_shared \in Seq(Ports) /\ None \notin Ports
      /\ m_in_use \in [Names -> Ports \cup {Pinned[k] : k \in DOMAIN Pinned} \cup {None}]
  BY Zenon, ContextAssumption DEF RegistryInv, ContextTypeOK
<1>2. /\ m_in_use'[n] = None /\ \A k \in Names \ {n} : m_in_use'[k] = m_in_use[k]
      /\ m_in_use' \in [Names -> Ports \cup {Pinned[k] : k \in DOMAIN Pinned} \cup {None}]
  BY Zenon, <1>1 DEF Retain
<1>3. CASE n \in DOMAIN Pinned
  <2>1. m_shared' = m_shared /\ m_in_use[n] \notin Ports
    BY Zenon, <1>3, ContextAssumption DEF Retain, RegistryInv, Pool
  <2>2. Pool'
    BY <1>1, <1>2, <2>1 DEF RegistryInv, Pool
  <2>3. QED
    BY ZenonT(30), <1>1, <1>2, <2>1, <2>2
<1>4. CASE n \notin DOMAIN Pinned
  <2>1. m_shared' = Append(m_shared, m_in_use[n]) /\ m_in_use[n] \in Ports
    BY Zenon, <1>4 DEF Retain, RegistryInv, Pool
  <2>2. /\ m_shared' \in Seq(Ports) /\ DOMAIN m_shared' = DOMAIN m_shared \cup {Len(m_shared) + 1}
        /\ m_shared'[Len(m_shared) + 1] = m_in_use[n]
        /\ \A i \in DOMAIN m_shared : m_shared'[i] = m_shared[i]
    BY <1>1, <2>1, Appended
  <2>3. \A i, j \in DOMAIN m_shared' : m_shared'[i] = m_shared'[j] => i = j
    BY <2>2 DEF RegistryInv, Pool
  <2>4. \A i \in DOMAIN m_shared', k \in Names : m_shared'[i] # m_in_use'[k]
    BY SMTT(30), <1>1, <1>2, <2>1, <2>2 DEF RegistryInv, Pool
  <2>5. \A p \in Ports : (\E i \in DOMAIN m_shared' : m_shared'[i] = p) \/ \E k \in Names : m_in_use'[k] = p
    BY SMTT(30), <1>1, <1>2, <2>1, <2>2 DEF RegistryInv, Pool
  <2>6. /\ \A k \in Names : m_in_use'[k] # None =>
             IF k \in DOMAIN Pinned THEN m_in_use'[k] = Pinned[k] ELSE m_in_use'[k] \in Ports
        /\ \A k, l \in Names : m_in_use'[k] \in Ports /\ m_in_use'[k] = m_in_use'[l] => k = l
    BY <1>1, <1>2 DEF RegistryInv, Pool
  <2>7. Pool'
    BY ZenonT(30), <2>3, <2>4, <2>5, <2>6 DEF Pool
  <2>8. QED
    BY Zenon, <1>2, <2>2, <2>7
<1>5. QED
  BY Zenon, <1>3, <1>4

\* ... and a port that cannot be bound is put back.
LEMMA BindFailedKeepsPool ==
  ASSUME RegistryInv, NEW n \in Names, Assignable(n), BindFailed(n)
  PROVE  m_in_use' = m_in_use /\ Pool' /\ m_shared' \in Seq(Ports)
<1>1. m_in_use' = m_in_use /\ m_shared \in Seq(Ports)
  BY Zenon DEF BindFailed, RegistryInv, ContextTypeOK
<1>2. CASE n \in DOMAIN Pinned
  BY <1>1, <1>2 DEF BindFailed, RegistryInv, Pool
<1>3. CASE n \notin DOMAIN Pinned
  <2>1. m_shared' = Append(Tail(m_shared), Head(m_shared)) /\ m_shared # <<>>
    BY Zenon, <1>3 DEF BindFailed, Assignable
  <2> DEFINE len == Len(m_shared)
  <2>2. len \in Nat \ {0} /\ DOMAIN m_shared = 1..len
    BY <1>1, <2>1
  <2>3. /\ m_shared' \in Seq(Ports) /\ DOMAIN m_shared' = 1..len
        /\ m_shared'[len] = m_shared[1]
        /\ \A i \in 1..len - 1 : m_shared'[i] = m_shared[i + 1]
    <3>1. Tail(m_shared) \in Seq(Ports) /\ Len(Tail(m_shared)) = len - 1 /\ Head(m_shared) \in Ports
      BY <1>1, <2>1, <2>2
    <3>2. \A i \in 1..len - 1 : Tail(m_shared)[i] = m_shared[i + 1]
      BY Zenon, <1>1, <2>1, HeadTail
    <3>3. Head(m_shared) = m_shared[1]
      BY ZenonT(30), <1>1, <2>1, HeadTail
    <3>4. QED
      BY SMTT(30), <2>1, <2>2, <3>1, <3>2, <3>3
  <2> HIDE DEF len
  <2>4. \A i \in 1..len : \E j \in 1..len : m_shared'[i] = m_shared[j]
    BY <2>2, <2>3
  <2>5. ASSUME NEW j \in 1..len PROVE \E i \in 1..len : m_shared'[i] = m_shared[j]
    <3>1. CASE j = 1
      BY <2>2, <2>3, <3>1
    <3>2. CASE j # 1
      <4>1. j - 1 \in 1..len - 1 /\ (j - 1) + 1 = j
        BY <2>2, <3>2
      <4>2. QED
        BY SMTT(30), <2>2, <2>3, <4>1
    <3>3. QED
      BY Zenon, <3>1, <3>2
  <2>6. ASSUME NEW i \in 1..len, NEW j \in 1..len, m_shared'[i] = m_shared'[j] PROVE i = j
    <3>1. \A k, l \in 1..len : m_shared[k] = m_shared[l] => k = l
      BY Zenon, <2>2 DEF RegistryInv, Pool
    <3>2. CASE i = len
      BY SMTT(30), <2>2, <2>3, <2>6, <3>1, <3>2
    <3>3. CASE j = len
      BY SMTT(30), <2>2, <2>3, <2>6, <3>1, <3>3
    <3>4. CASE i # len /\ j # len
      <4>1. i \in 1..len - 1 /\ j \in 1..len - 1 /\ i + 1 \in 1..len /\ j + 1 \in 1..len
        BY <2>2, <3>4
      <4>2. i + 1 = j + 1
        BY <2>3, <2>6, <3>1, <4>1
      <4>3. QED
        BY <2>2, <4>2
    <3>5. QED
      BY Zenon, <3>2, <3>3, <3>4
  <2>7. Pool'
    <3>1. ASSUME NEW i \in 1..len, NEW k \in Names PROVE m_shared'[i] # m_in_use[k]
      <4>1. PICK j \in 1..len : m_shared'[i] = m_shared[j]
        BY Zenon, <2>4
      <4>2. m_shared[j] # m_in_use[k]
        BY Zenon, <2>2 DEF RegistryInv, Pool
      <4>3. QED
        BY Zenon, <4>1, <4>2
    <3>2. \A p \in Ports : (\E i \in 1..len : m_shared'[i] = p) \/ \E k \in Names : m_in_use[k] = p
      BY ZenonT(30), <2>2, <2>5 DEF RegistryInv, Pool
    <3>3. QED
      BY ZenonT(30), <1>1, <2>3, <2>6, <3>1, <3>2 DEF RegistryInv, Pool
  <2>8. QED
    BY Zenon, <1>1, <2>3, <2>7
<1>4. QED
  BY Zenon, <1>2, <1>3

-----------------------------------------------------------------------------
(* The registry *)

\* The registry starts empty and the pool full.
LEMMA RegistryInit == Init => RegistryInv
<1> SUFFICES ASSUME Init PROVE RegistryInv
  BY Zenon
<1>1. ContextTypeOK
  <2>1. m_shared \in Seq(Ports)
    BY ContextAssumption DEF Init, Ports
  <2>2. pc \in [Callers -> Labels]
    BY Zenon DEF Init, Labels
  <2>3. m_in_use \in [Names -> Ports \cup {Pinned[n] : n \in DOMAIN Pinned} \cup {None}]
    BY Zenon DEF Init
  <2>4. QED
    BY <2>1, <2>2, <2>3, ConfiguredNames DEF Init, ContextTypeOK
<1>2. Named /\ UniqueNames /\ HoldsPort
  BY DEF Init, Named, UniqueNames, HoldsPort
<1>3. Pool
  BY Zenon, ContextAssumption DEF Init, Pool, Ports
<1>4. QED
  BY Zenon, <1>1, <1>2, <1>3 DEF RegistryInv

\* A step that may name a new actor, and leaves those alone that have a name.
NamesKept ==
  /\ name' \in [Actors -> Names \cup {None}]
  /\ \A a \in Actors : name[a] \in Names => name'[a] = name[a]

\* The signals and the services still to start stay of their types.
HistoryTyped ==
  /\ signals' \in Seq(Signals)
  /\ todo' \in Seq(Names)

\* No thread begins or goes on with a removal.
NoRemoval ==
  /\ self' = self /\ pc' \in [Callers -> Labels]
  /\ \A t \in Callers : pc'[t] = pc[t] \/ {pc[t], pc'[t]} \cap {"stop", "signal"} = {}

\* A service that waits to be published has its own name.
WaitingNamed ==
  /\ m_unpublished' \in Seq(Actors)
  /\ \A i \in DOMAIN m_unpublished' : name'[m_unpublished'[i]] \in Names

\* A step that leaves services and ports alone keeps the invariant.
LEMMA QuietKeeps ==
  ASSUME RegistryInv, NamesKept, HistoryTyped, NoRemoval, WaitingNamed, UNCHANGED <<m_services, m_in_use>>,
         Pool', m_shared' \in Seq(Ports)
  PROVE  RegistryInv'
<1>1. ContextTypeOK'
  BY Zenon DEF RegistryInv, ContextTypeOK, NamesKept, HistoryTyped, NoRemoval, WaitingNamed
<1>2. \A i \in DOMAIN m_services : m_services[i] \in Actors /\ name'[m_services[i]] = name[m_services[i]]
  BY DEF RegistryInv, ContextTypeOK, NamesKept, Named
<1>3. \A t \in Callers : /\ pc[t] \in {"stop", "signal"} <=> pc'[t] \in {"stop", "signal"}
                         /\ pc[t] = "stop" <=> pc'[t] = "stop"
  BY Zenon DEF NoRemoval
<1>4. \A t \in Callers : pc[t] \in {"stop", "signal"} => self[t] \in Actors /\ name'[self[t]] = name[self[t]]
  BY Zenon DEF RegistryInv, NamesKept, Named
<1>5. Named'
  BY ZenonT(30), <1>2, <1>3, <1>4 DEF RegistryInv, Named, NoRemoval, WaitingNamed
<1>6. UniqueNames'
  BY SMTT(30), <1>2 DEF RegistryInv, UniqueNames
<1>7. HoldsPort'
  BY <1>2, <1>3, <1>4 DEF RegistryInv, HoldsPort, NoRemoval
<1>8. QED
  BY Zenon, <1>1, <1>5, <1>6, <1>7 DEF RegistryInv

\* Publishing a service assigns its port and lists it.
LEMMA PublishKeeps ==
  ASSUME RegistryInv, NEW a \in Actors, NEW n \in Names, Publish(a, n), name'[a] = n,
         NamesKept, NoRemoval, WaitingNamed, todo' \in Seq(Names)
  PROVE  RegistryInv'
<1>1. /\ m_services \in Seq(Actors) /\ signals \in Seq(Signals)
      /\ m_in_use \in [Names -> Ports \cup {Pinned[k] : k \in DOMAIN Pinned} \cup {None}]
  BY Zenon DEF RegistryInv, ContextTypeOK
<1>2. /\ Assignable(n) /\ Assign(n) /\ m_services' = Append(m_services, a)
      /\ signals' = Append(signals, Event("exposed", n))
  BY Zenon DEF Publish
<1>3. /\ Pool' /\ m_shared' \in Seq(Ports)
      /\ m_in_use' \in [Names -> Ports \cup {Pinned[k] : k \in DOMAIN Pinned} \cup {None}]
  BY ZenonT(30), <1>2, AssignKeepsPool
<1>4. /\ m_services' \in Seq(Actors) /\ DOMAIN m_services' = DOMAIN m_services \cup {Len(m_services) + 1}
      /\ m_services'[Len(m_services) + 1] = a
      /\ \A i \in DOMAIN m_services : m_services'[i] = m_services[i]
  BY <1>1, <1>2, Appended
<1>5. ContextTypeOK'
  <2>1. Event("exposed", n) \in Signals
    BY Zenon DEF Event, Signals
  <2>2. signals' \in Seq(Signals)
    BY ZenonT(30), <1>1, <1>2, <2>1, Appended
  <2>3. QED
    BY ZenonT(30), <1>3, <1>4, <2>2 DEF RegistryInv, ContextTypeOK, NamesKept, NoRemoval, WaitingNamed
<1>6. \A i \in DOMAIN m_services : m_services[i] \in Actors /\ name'[m_services[i]] = name[m_services[i]]
  BY DEF RegistryInv, ContextTypeOK, NamesKept, Named
<1>7. \A t \in Callers : /\ pc[t] \in {"stop", "signal"} <=> pc'[t] \in {"stop", "signal"}
                         /\ pc[t] = "stop" <=> pc'[t] = "stop"
  BY Zenon DEF NoRemoval
<1>8. \A t \in Callers : pc[t] \in {"stop", "signal"} => self[t] \in Actors /\ name'[self[t]] = name[self[t]]
  BY Zenon DEF RegistryInv, NamesKept, Named
<1>9. /\ m_in_use[n] = None /\ m_in_use'[n] # None
      /\ \A k \in Names \ {n} : m_in_use'[k] = m_in_use[k]
  BY ZenonT(30), <1>1, <1>2, NextPortFresh DEF Assignable, Assign
<1>10. Named'
  <2>1. \A i \in DOMAIN m_services' : name'[m_services'[i]] \in Names
    BY Zenon, <1>4, <1>6 DEF RegistryInv, Named
  <2>2. ASSUME NEW t \in Callers
        PROVE  IF pc'[t] \in {"stop", "signal"} THEN self[t] \in Actors /\ name'[self[t]] \in Names ELSE self[t] = None
    BY Zenon, <1>7, <1>8 DEF RegistryInv, Named
  <2>3. QED
    BY Zenon, <2>1, <2>2 DEF Named, NoRemoval, WaitingNamed
<1>11. /\ \A i \in DOMAIN m_services : name[m_services[i]] \in Names \ {n}
       /\ \A t \in Callers : pc[t] = "stop" => name[self[t]] \in Names \ {n}
  BY Zenon, <1>9 DEF RegistryInv, HoldsPort, Named
<1>12. UniqueNames'
  <2>1. ASSUME NEW i \in DOMAIN m_services', NEW j \in DOMAIN m_services',
               name'[m_services'[i]] = name'[m_services'[j]]
        PROVE  i = j
    <3>1. ASSUME NEW k \in DOMAIN m_services
          PROVE  name'[m_services'[k]] = name[m_services[k]] /\ name'[m_services'[k]] # n
      BY ZenonT(30), <1>4, <1>6, <1>11
    <3>2. name'[m_services'[Len(m_services) + 1]] = n
      BY Zenon, <1>4, <1>6, <1>11
    <3>3. QED
      BY ZenonT(30), <1>4, <2>1, <3>1, <3>2 DEF RegistryInv, UniqueNames
  <2>2. QED
    BY Zenon, <2>1 DEF UniqueNames
<1>13. HoldsPort'
  <2>1. /\ \A i \in DOMAIN m_services' : m_in_use'[name'[m_services'[i]]] # None
        /\ \A t \in Callers : pc'[t] = "stop" => m_in_use'[name'[self'[t]]] # None
    BY SMTT(30), <1>4, <1>6, <1>7, <1>8, <1>9, <1>11 DEF RegistryInv, HoldsPort, NoRemoval
  <2>2. \A i \in DOMAIN m_services', t \in Callers :
          pc'[t] = "stop" => name'[m_services'[i]] # name'[self'[t]]
    BY SMTT(30), <1>4, <1>6, <1>7, <1>8, <1>11 DEF RegistryInv, HoldsPort, NoRemoval
  <2>3. \A t, u \in Callers :
          pc'[t] = "stop" /\ pc'[u] = "stop" /\ name'[self'[t]] = name'[self'[u]] => t = u
    BY <1>7, <1>8 DEF RegistryInv, HoldsPort, NoRemoval
  <2>4. QED
    BY ZenonT(30), <2>1, <2>2, <2>3 DEF HoldsPort
<1>14. QED
  BY ZenonT(30), <1>3, <1>5, <1>10, <1>12, <1>13 DEF RegistryInv

\* The service that remove() finds is in the registry.
LEMMA TakenIndex ==
  ASSUME m_services \in Seq(Actors), NEW t \in Callers, NEW n \in Names, RemoveTake(t, n)
  PROVE  \E i \in DOMAIN m_services :
           /\ name[m_services[i]] = n /\ m_services[i] \in Actors
           /\ self' = [self EXCEPT ![t] = m_services[i]]
           /\ m_services' = Without(m_services, i)
<1> DEFINE i == CHOOSE i \in DOMAIN m_services : name[m_services[i]] = n
<1>1. i \in DOMAIN m_services /\ name[m_services[i]] = n
  BY ZenonT(30) DEF RemoveTake, Listed
<1>2. m_services[i] \in Actors
  BY <1>1
<1>3. self' = [self EXCEPT ![t] = m_services[i]] /\ m_services' = Without(m_services, i)
  BY Zenon DEF RemoveTake
<1> HIDE DEF i
<1>4. QED
  BY ZenonT(30), <1>1, <1>2, <1>3

\* remove() takes it out ...
LEMMA RemoveTakeKeeps ==
  ASSUME RegistryInv, NEW t \in Callers, NEW n \in Names, RemoveTake(t, n), pc[t] \notin {"stop", "signal"},
         pc' = [pc EXCEPT ![t] = "stop"], todo' \in Seq(Names)
  PROVE  RegistryInv'
<1>1. /\ m_services \in Seq(Actors) /\ self \in [Callers -> Actors \cup {None}]
      /\ pc \in [Callers -> Labels]
  BY Zenon DEF RegistryInv, ContextTypeOK
<1>2. PICK i \in DOMAIN m_services :
        /\ name[m_services[i]] = n /\ m_services[i] \in Actors
        /\ self' = [self EXCEPT ![t] = m_services[i]]
        /\ m_services' = Without(m_services, i)
  BY Zenon, <1>1, TakenIndex
<1>3. UNCHANGED <<m_unpublished, name, m_shared, m_in_use, signals>>
  BY ZenonT(30) DEF RemoveTake, actorVars, mapper
<1>4. /\ m_services' \in Seq(Actors) /\ DOMAIN m_services' = 1..Len(m_services) - 1
      /\ \A j \in 1..Len(m_services) - 1 : j \in DOMAIN m_services /\ j + 1 \in DOMAIN m_services
      /\ \A j \in 1..Len(m_services) - 1 : m_services'[j] = m_services[IF j < i THEN j ELSE j + 1]
  BY SMTT(30), <1>1, <1>2, Removed
<1>5. \A j \in DOMAIN m_services' : \E k \in DOMAIN m_services \ {i} : m_services'[j] = m_services[k]
  BY SMTT(30), <1>1, <1>2, <1>4
<1>6. \A j, k \in DOMAIN m_services' : name[m_services'[j]] = name[m_services'[k]] => j = k
  <2> SUFFICES ASSUME NEW j \in DOMAIN m_services', NEW k \in DOMAIN m_services',
                      name[m_services'[j]] = name[m_services'[k]]
               PROVE  j = k
    BY Zenon
  <2> DEFINE old(x) == IF x < i THEN x ELSE x + 1
  <2>1. old(j) \in DOMAIN m_services /\ old(k) \in DOMAIN m_services
    BY Zenon, <1>4
  <2>2. m_services'[j] = m_services[old(j)] /\ m_services'[k] = m_services[old(k)]
    BY Zenon, <1>4
  <2>3. old(j) = old(k)
    BY ZenonT(30), <2>1, <2>2 DEF RegistryInv, UniqueNames
  <2>4. QED
    BY SMTT(30), <1>1, <1>2, <1>4, <2>3
<1>7. \A j \in DOMAIN m_services' : m_services'[j] \in Actors /\ name[m_services'[j]] \in Names \ {n}
  BY <1>1, <1>2, <1>5 DEF RegistryInv, Named, UniqueNames
<1>8. /\ self'[t] = m_services[i] /\ pc'[t] = "stop" /\ pc' \in [Callers -> Labels]
      /\ self' \in [Callers -> Actors \cup {None}]
      /\ \A u \in Callers \ {t} : self'[u] = self[u] /\ pc'[u] = pc[u]
  BY Zenon, <1>1, <1>2 DEF Labels
<1>9. ContextTypeOK'
  BY ZenonT(30), <1>3, <1>4, <1>8 DEF RegistryInv, ContextTypeOK
<1>10. Named'
  BY ZenonT(30), <1>2, <1>3, <1>7, <1>8 DEF RegistryInv, Named
<1>11. UniqueNames'
  BY Zenon, <1>3, <1>6 DEF UniqueNames
<1>12. m_in_use[n] # None /\ \A u \in Callers : pc[u] = "stop" => name[self[u]] # n
  BY ZenonT(30), <1>2 DEF RegistryInv, HoldsPort
<1>13. HoldsPort'
  <2>1. /\ \A j \in DOMAIN m_services' : m_in_use[name[m_services'[j]]] # None
        /\ \A j \in DOMAIN m_services', u \in Callers :
             pc[u] = "stop" => name[m_services'[j]] # name[self[u]]
    BY <1>5 DEF RegistryInv, HoldsPort
  <2>2. QED
    BY SMTT(30), <1>2, <1>3, <1>7, <1>8, <1>12, <2>1 DEF RegistryInv, HoldsPort
<1>14. Pool'
  BY ZenonT(30), <1>3 DEF RegistryInv, Pool
<1>15. QED
  BY ZenonT(30), <1>9, <1>10, <1>11, <1>13, <1>14 DEF RegistryInv

\* ... terminates it, which frees its port ...
LEMMA RemoveTerminateKeeps ==
  ASSUME RegistryInv, NEW t \in Callers, RemoveTerminate(t)
  PROVE  RegistryInv'
<1> DEFINE n == name[self[t]]
<1>1. pc[t] = "stop" /\ Retain(n) /\ pc' = [pc EXCEPT ![t] = "signal"]
  BY Zenon DEF RemoveTerminate, Goto
<1>2. UNCHANGED <<m_services, m_unpublished, name, signals, self, todo>>
  BY Zenon DEF RemoveTerminate, registry, actorVars
<1>3. self[t] \in Actors /\ n \in Names /\ m_in_use[n] # None
  BY Zenon, <1>1 DEF RegistryInv, Named, HoldsPort
<1> HIDE DEF n
<1>4. /\ Pool' /\ m_shared' \in Seq(Ports)
      /\ m_in_use' \in [Names -> Ports \cup {Pinned[k] : k \in DOMAIN Pinned} \cup {None}]
  BY ZenonT(30), <1>1, <1>3, RetainKeepsPool
<1>5. pc'[t] = "signal" /\ pc' \in [Callers -> Labels] /\ \A u \in Callers \ {t} : pc'[u] = pc[u]
  BY Zenon, <1>1 DEF RegistryInv, ContextTypeOK, Labels
<1>6. \A k \in Names \ {n} : m_in_use'[k] = m_in_use[k]
  BY Zenon, <1>1 DEF Retain, RegistryInv, ContextTypeOK
<1>7. ContextTypeOK'
  BY ZenonT(30), <1>2, <1>4, <1>5 DEF RegistryInv, ContextTypeOK
<1>8. Named' /\ UniqueNames'
  BY ZenonT(30), <1>1, <1>2, <1>5 DEF RegistryInv, Named, UniqueNames
<1>9. /\ \A i \in DOMAIN m_services : name[m_services[i]] \in Names \ {n}
      /\ \A u \in Callers \ {t} : pc[u] = "stop" => name[self[u]] \in Names \ {n}
  BY ZenonT(30), <1>1 DEF RegistryInv, HoldsPort, Named, n
<1>10. HoldsPort'
  BY SMTT(30), <1>2, <1>5, <1>6, <1>9 DEF RegistryInv, HoldsPort
<1>11. QED
  BY Zenon, <1>4, <1>7, <1>8, <1>10 DEF RegistryInv

\* ... and tells the hub.
LEMMA RemoveSignalKeeps ==
  ASSUME RegistryInv, NEW t \in Callers, RemoveSignal(t)
  PROVE  RegistryInv'
<1>1. /\ pc[t] = "signal" /\ self' = [self EXCEPT ![t] = None]
      /\ pc' = [pc EXCEPT ![t] = IF t = Main THEN "remove" ELSE "idle"]
      /\ signals' = Append(signals, Event("removed", name[self[t]]))
      /\ UNCHANGED <<m_services, m_unpublished, name, m_shared, m_in_use, todo>>
  BY Zenon DEF RemoveSignal, Goto, registry, actorVars, mapper
<1>2. /\ pc'[t] \notin {"stop", "signal"} /\ pc' \in [Callers -> Labels]
      /\ \A u \in Callers \ {t} : pc'[u] = pc[u]
  BY Zenon, <1>1 DEF RegistryInv, ContextTypeOK, Labels
<1>3. /\ self'[t] = None /\ self' \in [Callers -> Actors \cup {None}]
      /\ \A u \in Callers \ {t} : self'[u] = self[u]
  BY Zenon, <1>1 DEF RegistryInv, ContextTypeOK
<1>4. signals' \in Seq(Signals)
  <2>1. Event("removed", name[self[t]]) \in Signals
    BY Zenon, <1>1 DEF RegistryInv, Named, Event, Signals
  <2>2. QED
    BY ZenonT(30), <1>1, <2>1, Appended DEF RegistryInv, ContextTypeOK
<1>5. ContextTypeOK'
  BY ZenonT(30), <1>1, <1>2, <1>3, <1>4 DEF RegistryInv, ContextTypeOK
<1>6. Named' /\ UniqueNames' /\ Pool'
  BY SMTT(30), <1>1, <1>2, <1>3 DEF RegistryInv, Named, UniqueNames, Pool
<1>7. HoldsPort'
  BY <1>1, <1>2, <1>3 DEF RegistryInv, HoldsPort
<1>8. QED
  BY Zenon, <1>5, <1>6, <1>7 DEF RegistryInv

\* The steps of the context's own thread between removals, and those of the
\* acceptor thread.
LEMMA OtherStepsKeep ==
  ASSUME RegistryInv,
         UNCHANGED <<m_services, m_unpublished, name, m_shared, m_in_use, self>>,
         \/ UNCHANGED <<pc, signals, todo>>
         \/ /\ pc[Main] \notin {"stop", "signal"}
            /\ \/ UNCHANGED pc
               \/ \E label \in Labels \ {"stop", "signal"} : pc' = [pc EXCEPT ![Main] = label]
            /\ \/ UNCHANGED signals
               \/ \E kind \in {"prepared", "shutdown"} : signals' = Append(signals, Event(kind, None))
            /\ todo' \in Seq(Names)
  PROVE  RegistryInv'
<1>1. NamesKept /\ WaitingNamed /\ Pool' /\ m_shared' \in Seq(Ports)
  BY DEF RegistryInv, ContextTypeOK, NamesKept, WaitingNamed, Named, Pool
<1>2. NoRemoval
  BY ZenonT(30) DEF RegistryInv, ContextTypeOK, NoRemoval
<1>3. HistoryTyped
  <2>1. \A kind \in {"prepared", "shutdown"} : Event(kind, None) \in Signals
    BY Zenon DEF Event, Signals
  <2>2. signals \in Seq(Signals) /\ todo \in Seq(Names)
    BY Zenon DEF RegistryInv, ContextTypeOK
  <2>3. CASE UNCHANGED signals
    BY Zenon, <2>2, <2>3 DEF HistoryTyped
  <2>4. CASE \E kind \in {"prepared", "shutdown"} : signals' = Append(signals, Event(kind, None))
    BY <2>1, <2>2, <2>4 DEF HistoryTyped
  <2>5. QED
    BY Zenon, <2>3, <2>4
<1>4. QED
  BY ZenonT(30), <1>1, <1>2, <1>3, QuietKeeps

\* An actor that is not made yet may get any name.
LEMMA NewNameKept ==
  ASSUME RegistryInv, NEW a \in Unmade, NEW n \in Names, name' = [name EXCEPT ![a] = n]
  PROVE  /\ a \in Actors /\ name'[a] = n /\ NamesKept
         /\ m_unpublished' = m_unpublished => WaitingNamed
         /\ m_unpublished' = Append(m_unpublished, a) => WaitingNamed
<1>1. a \in Actors /\ name[a] = None /\ name'[a] = n /\ NamesKept
  BY ZenonT(30), ContextAssumption DEF RegistryInv, ContextTypeOK, Unmade, NamesKept
<1>2. m_unpublished' = m_unpublished => WaitingNamed
  BY <1>1 DEF RegistryInv, ContextTypeOK, NamesKept, WaitingNamed, Named
<1>3. ASSUME m_unpublished' = Append(m_unpublished, a) PROVE WaitingNamed
  <2>1. m_unpublished \in Seq(Actors)
    BY Zenon DEF RegistryInv, ContextTypeOK
  <2>2. /\ m_unpublished' \in Seq(Actors)
        /\ DOMAIN m_unpublished' = DOMAIN m_unpublished \cup {Len(m_unpublished) + 1}
        /\ m_unpublished'[Len(m_unpublished) + 1] = a
        /\ \A i \in DOMAIN m_unpublished : m_unpublished'[i] = m_unpublished[i] /\ m_unpublished[i] \in Actors
    BY <1>1, <1>3, <2>1, Appended
  <2>3. QED
    BY ZenonT(30), <1>1, <2>2 DEF RegistryInv, NamesKept, WaitingNamed, Named
<1>4. QED
  BY Zenon, <1>1, <1>2, <1>3

\* Bootstrap starts the configured services in turn ...
LEMMA BootInsertKeeps ==
  ASSUME RegistryInv, BootInsert
  PROVE  RegistryInv'
<1>1. /\ todo # <<>> /\ todo' = Tail(todo) /\ todo \in Seq(Names)
      /\ UNCHANGED <<m_services, m_shared, m_in_use, signals, pc, self>>
  BY Zenon DEF BootInsert, mapper, RegistryInv, ContextTypeOK
<1>2. Head(todo) \in Names /\ todo' \in Seq(Names)
  BY Zenon, <1>1, HeadTail
<1>3. PICK a \in Unmade : name' = [name EXCEPT ![a] = Head(todo)] /\ m_unpublished' = Append(m_unpublished, a)
  BY Zenon DEF BootInsert
<1>4. NamesKept /\ WaitingNamed
  BY ZenonT(30), <1>2, <1>3, NewNameKept
<1>5. NoRemoval /\ HistoryTyped /\ Pool' /\ m_shared' \in Seq(Ports)
  BY ZenonT(30), <1>1, <1>2 DEF RegistryInv, ContextTypeOK, NoRemoval, HistoryTyped, Pool
<1>6. QED
  BY ZenonT(30), <1>1, <1>4, <1>5, QuietKeeps

\* ... publishes each ...
LEMMA BootPublishKeeps ==
  ASSUME RegistryInv, BootPublish
  PROVE  RegistryInv'
<1> DEFINE a == Head(m_unpublished)
<1>1. /\ m_unpublished # <<>> /\ Publish(a, name[a]) /\ m_unpublished' = Tail(m_unpublished)
      /\ UNCHANGED <<name, pc, self, todo>> /\ m_unpublished \in Seq(Actors)
  BY Zenon DEF BootPublish, threadVars, RegistryInv, ContextTypeOK
<1>2. a \in Actors /\ a = m_unpublished[1] /\ 1 \in DOMAIN m_unpublished
  BY ZenonT(30), <1>1, HeadTail
<1>3. name[a] \in Names
  BY Zenon, <1>2 DEF RegistryInv, Named
<1>4. /\ m_unpublished' \in Seq(Actors) /\ DOMAIN m_unpublished' = 1..Len(m_unpublished) - 1
      /\ \A i \in 1..Len(m_unpublished) - 1 :
           i + 1 \in DOMAIN m_unpublished /\ m_unpublished'[i] = m_unpublished[i + 1]
  BY ZenonT(30), <1>1, HeadTail
<1>5. NamesKept /\ WaitingNamed /\ NoRemoval /\ todo' \in Seq(Names)
  BY ZenonT(30), <1>1, <1>4 DEF RegistryInv, ContextTypeOK, NamesKept, WaitingNamed, NoRemoval, Named
<1> HIDE DEF a
<1>6. QED
  BY Zenon, <1>1, <1>2, <1>3, <1>5, PublishKeeps

\* ... and when one cannot be published, its port is free again ...
LEMMA PublishFailedKeepsPool ==
  ASSUME RegistryInv, NEW n \in Names, PublishFailed(n)
  PROVE  UNCHANGED <<m_in_use, m_services, signals>> /\ Pool' /\ m_shared' \in Seq(Ports)
<1>1. UNCHANGED <<m_services, signals>>
  BY Zenon DEF PublishFailed
<1>2. CASE Assignable(n)
  BY ZenonT(30), <1>1, <1>2, BindFailedKeepsPool DEF PublishFailed
<1>3. CASE ~Assignable(n)
  BY ZenonT(30), <1>1, <1>3 DEF PublishFailed, mapper, RegistryInv, ContextTypeOK, Pool
<1>4. QED
  BY Zenon, <1>2, <1>3

\* ... and the start is given up.
LEMMA BootFailedKeeps ==
  ASSUME RegistryInv, BootFailed
  PROVE  RegistryInv'
<1> DEFINE n == name[Head(m_unpublished)]
<1>1. /\ pc[Main] = "publish" /\ m_unpublished # <<>> /\ PublishFailed(n)
      /\ pc' = [pc EXCEPT ![Main] = "terminate"]
      /\ UNCHANGED <<m_unpublished, name, self, todo>> /\ m_unpublished \in Seq(Actors)
  BY ZenonT(30) DEF BootFailed, Goto, RegistryInv, ContextTypeOK
<1>2. n \in Names
  BY <1>1, HeadTail DEF RegistryInv, Named
<1> HIDE DEF n
<1>3. UNCHANGED <<m_in_use, m_services, signals>> /\ Pool' /\ m_shared' \in Seq(Ports)
  BY ZenonT(30), <1>1, <1>2, PublishFailedKeepsPool
<1>4. NoRemoval
  BY Zenon, <1>1 DEF RegistryInv, ContextTypeOK, NoRemoval, Labels
<1>5. NamesKept /\ WaitingNamed /\ HistoryTyped
  BY ZenonT(30), <1>1, <1>3 DEF RegistryInv, ContextTypeOK, NamesKept, WaitingNamed, HistoryTyped, Named
<1>6. QED
  BY Zenon, <1>3, <1>4, <1>5, QuietKeeps

\* insert() at run time, which may fail.
LEMMA InsertKeeps ==
  ASSUME RegistryInv, NEW n \in Names, Insert(n)
  PROVE  RegistryInv'
<1>1. UNCHANGED <<pc, self, todo>>
  BY Zenon DEF Insert, threadVars
<1>2. PICK a \in Unmade :
        /\ name' = [name EXCEPT ![a] = n]
        /\ \/ /\ m_unpublished' = Append(m_unpublished, a)
              /\ UNCHANGED <<m_services, mapper, signals>>
           \/ UNCHANGED m_unpublished /\ (Publish(a, n) \/ PublishFailed(n))
  BY Zenon DEF Insert
<1>3. a \in Actors /\ name'[a] = n /\ NamesKept /\ WaitingNamed
  BY ZenonT(30), <1>2, NewNameKept
<1>4. NoRemoval /\ todo' \in Seq(Names)
  BY Zenon, <1>1 DEF RegistryInv, ContextTypeOK, NoRemoval
<1>5. CASE Publish(a, n)
  BY ZenonT(30), <1>3, <1>4, <1>5, PublishKeeps
<1>6. CASE PublishFailed(n)
  <2>1. UNCHANGED <<m_in_use, m_services, signals>> /\ Pool' /\ m_shared' \in Seq(Ports)
    BY ZenonT(30), <1>6, PublishFailedKeepsPool
  <2>2. HistoryTyped
    BY ZenonT(30), <1>4, <2>1 DEF HistoryTyped, RegistryInv, ContextTypeOK
  <2>3. QED
    BY ZenonT(30), <1>3, <1>4, <2>1, <2>2, QuietKeeps
<1>7. CASE UNCHANGED <<m_services, mapper, signals>>
  <2>1. UNCHANGED <<m_in_use, m_services>> /\ Pool' /\ m_shared' \in Seq(Ports) /\ HistoryTyped
    BY ZenonT(30), <1>4, <1>7 DEF mapper, Pool, RegistryInv, ContextTypeOK, HistoryTyped
  <2>2. QED
    BY ZenonT(30), <1>3, <1>4, <2>1, QuietKeeps
<1>8. QED
  BY ZenonT(30), <1>2, <1>5, <1>6, <1>7

\* The main thread is one of the callers.
LEMMA MainCalls == Main \in Callers /\ Threads \subseteq Callers
  BY Zenon DEF Callers

\* Every step keeps the registry and the pool.
LEMMA RegistryStep ==
  ASSUME RegistryInv, [Next]_vars
  PROVE  RegistryInv'
<1>1. CASE UNCHANGED vars
  BY ZenonT(30), <1>1, OtherStepsKeep DEF vars, registry, actorVars, mapper, threadVars
<1>2. CASE BootInsert
  BY Zenon, <1>2, BootInsertKeeps
<1>3. CASE BootPublish
  BY ZenonT(30), <1>3, BootPublishKeeps
<1>4. CASE BootFailed
  BY Zenon, <1>4, BootFailedKeeps
<1>5. CASE BootLock \/ BootDone \/ Prepared \/ Terminate \/ TerminateStop
  <2>1. UNCHANGED <<m_services, m_unpublished, name, m_shared, m_in_use, self>>
    BY Zenon, <1>5 DEF BootLock, BootDone, Prepared, Terminate, TerminateStop, registry, actorVars, mapper
  <2>2. /\ pc[Main] \notin {"stop", "signal"}
        /\ \E label \in Labels \ {"stop", "signal"} : pc' = [pc EXCEPT ![Main] = label]
    BY Zenon, <1>5 DEF BootLock, BootDone, Prepared, Terminate, TerminateStop, Goto, Labels
  <2>3. \/ UNCHANGED signals
        \/ \E kind \in {"prepared", "shutdown"} : signals' = Append(signals, Event(kind, None))
    BY Zenon, <1>5 DEF BootLock, BootDone, Prepared, Terminate, TerminateStop
  <2>4. todo' \in Seq(Names)
    <3>1. todo' = todo \/ todo' = Configured
      BY Zenon, <1>5 DEF BootLock, BootDone, Prepared, Terminate, TerminateStop
    <3>2. QED
      BY ZenonT(30), <3>1, ConfiguredNames DEF RegistryInv, ContextTypeOK
  <2>5. QED
    BY ZenonT(30), <2>1, <2>2, <2>3, <2>4, OtherStepsKeep
<1>6. ASSUME NEW n \in Extra, Insert(n) PROVE RegistryInv'
  BY ZenonT(30), <1>6, InsertKeeps DEF Names
<1>7. ASSUME NEW t \in Threads, NEW n \in Names, RemoveService(t, n) PROVE RegistryInv'
  <2>1. /\ t \in Callers /\ RemoveTake(t, n) /\ pc[t] \notin {"stop", "signal"}
        /\ pc' = [pc EXCEPT ![t] = "stop"] /\ todo' \in Seq(Names)
    BY ZenonT(30), <1>7, MainCalls DEF RemoveService, Goto, RegistryInv, ContextTypeOK
  <2>2. QED
    BY ZenonT(30), <2>1, RemoveTakeKeeps
<1>8. ASSUME NEW t \in Callers, RemoveTerminate(t) \/ RemoveSignal(t) PROVE RegistryInv'
  BY ZenonT(30), <1>8, RemoveTerminateKeeps, RemoveSignalKeeps
<1>9. CASE TerminateRemove
  <2>1. /\ pc[Main] = "remove" /\ todo # <<>> /\ todo' = Tail(todo) /\ todo \in Seq(Names)
    BY Zenon, <1>9 DEF TerminateRemove, RegistryInv, ContextTypeOK
  <2>2. Head(todo) \in Names /\ todo' \in Seq(Names)
    BY Zenon, <2>1, HeadTail
  <2>3. CASE RemoveTake(Main, Head(todo)) /\ Goto(Main, "stop")
    BY ZenonT(30), <2>1, <2>2, <2>3, MainCalls, RemoveTakeKeeps DEF Goto
  <2>4. CASE UNCHANGED <<registry, actorVars, loopVars, mapper, signals, pc, self>>
    BY ZenonT(30), <2>1, <2>2, <2>4, OtherStepsKeep DEF registry, actorVars, mapper
  <2>5. QED
    BY ZenonT(30), <1>9, <2>3, <2>4 DEF TerminateRemove
<1>10. ASSUME NEW a \in Actors, Accept(a) PROVE RegistryInv'
  BY Zenon, <1>10, OtherStepsKeep DEF Accept, registry, actorVars, mapper, threadVars
<1>11. CASE RunAccept \/ RunCancel
  BY Zenon, <1>11, OtherStepsKeep DEF RunAccept, RunCancel, registry, actorVars, mapper, threadVars
<1>12. QED
  BY ZenonT(30), <1>1, <1>2, <1>3, <1>4, <1>5, <1>6, <1>7, <1>8, <1>9, <1>10, <1>11 DEF Next

\* Listed services and those under removal hold the ports of their names, and
\* the pool is never short of a port, in every reachable state.
THEOREM RegistryInvariant == Spec => []RegistryInv
<1>1. QED
  BY RegistryInit, RegistryStep, PTL DEF Spec

\* No two running services share a name, whatever was inserted twice before the
\* end of the bootstrap, and by whichever threads.
THEOREM ServicesUnique == Spec => []UniqueNames
<1>1. RegistryInv => UniqueNames
  BY ZenonT(30) DEF RegistryInv
<1>2. QED
  BY <1>1, RegistryInvariant, PTL

\* Every shared port is in the pool's queue or in use, once, through starts,
\* failed binds and removals in any order.
THEOREM PoolConserved == Spec => []PortsConserved
<1>1. RegistryInv => PortsConserved
  <2> SUFFICES ASSUME RegistryInv, NEW p \in Ports
               PROVE  Cardinality({i \in DOMAIN m_shared : m_shared[i] = p})
                        + Cardinality({n \in Names : m_in_use[n] = p}) = 1
    BY Zenon DEF PortsConserved
  <2> DEFINE queued == {i \in DOMAIN m_shared : m_shared[i] = p}
             used == {n \in Names : m_in_use[n] = p}
  <2>1. CASE \E i \in DOMAIN m_shared : m_shared[i] = p
    <3>1. PICK i \in DOMAIN m_shared : m_shared[i] = p
      BY Zenon, <2>1
    <3>2. queued = {i} /\ used = {}
      BY ZenonT(30), <3>1 DEF RegistryInv, Pool
    <3> HIDE DEF queued, used
    <3>3. Cardinality(queued) = 1
      BY Zenon, <3>2, FS_Singleton
    <3>4. Cardinality(used) = 0
      BY Zenon, <3>2, FS_EmptySet
    <3>5. Cardinality(queued) + Cardinality(used) = 1
      BY <3>3, <3>4
    <3>6. QED
      BY Zenon, <3>5 DEF queued, used
  <2>2. CASE \E n \in Names : m_in_use[n] = p
    <3>1. PICK n \in Names : m_in_use[n] = p
      BY ZenonT(30), <2>2
    <3>2. used = {n} /\ queued = {}
      BY <3>1 DEF RegistryInv, Pool
    <3> HIDE DEF queued, used
    <3>3. Cardinality(used) = 1
      BY ZenonT(30), <3>2, FS_Singleton
    <3>4. Cardinality(queued) = 0
      BY ZenonT(30), <3>2, FS_EmptySet
    <3>5. Cardinality(queued) + Cardinality(used) = 1
      BY <3>3, <3>4
    <3>6. QED
      BY Zenon, <3>5 DEF queued, used
  <2>3. QED
    BY ZenonT(30), <2>1, <2>2 DEF RegistryInv, Pool
<1>2. QED
  BY <1>1, RegistryInvariant, PTL

-----------------------------------------------------------------------------
(* The signals of the hub *)

\* How often x is in s.
Occurrences(s, x) == Cardinality({i \in DOMAIN s : s[i] = x})

\* Appending x adds one occurrence of x and none of anything else.
LEMMA CountAppended ==
  ASSUME NEW S, NEW s \in Seq(S), NEW e \in S, NEW x
  PROVE  /\ Occurrences(s, x) \in Nat
         /\ Occurrences(Append(s, e), x) = Occurrences(s, x) + IF e = x THEN 1 ELSE 0
<1> DEFINE old == {i \in DOMAIN s : s[i] = x}
           new == {i \in DOMAIN Append(s, e) : Append(s, e)[i] = x}
<1>1. IsFiniteSet(DOMAIN s)
  <2>1. DOMAIN s = 1..Len(s) /\ 1 \in Int /\ Len(s) \in Int
    OBVIOUS
  <2>2. QED
    BY ZenonT(30), <2>1, FS_Interval
<1>2. IsFiniteSet(old) /\ Cardinality(old) \in Nat
  <2>1. old \in SUBSET DOMAIN s
    BY Zenon
  <2>2. IsFiniteSet(old)
    BY ZenonT(30), <1>1, <2>1, FS_Subset
  <2>3. QED
    BY Zenon, <2>2, FS_CardinalityType
<1>3. new = IF e = x THEN old \cup {Len(s) + 1} ELSE old
  BY Appended
<1>4. Len(s) + 1 \notin old
  OBVIOUS
<1> HIDE DEF old, new
<1>5. Cardinality(old \cup {Len(s) + 1}) = Cardinality(old) + 1
  BY ZenonT(30), <1>2, <1>4, FS_AddElement
<1>6. Cardinality(old) \in Nat /\ Cardinality(new) = Cardinality(old) + IF e = x THEN 1 ELSE 0
  BY <1>2, <1>3, <1>5
<1>7. QED
  BY Zenon, <1>6 DEF old, new, Occurrences

\* How many elements of a sequence without two equal ones are x.
LEMMA CountUnique ==
  ASSUME NEW s, NEW f, NEW x, \A i, j \in DOMAIN s : f[s[i]] = f[s[j]] => i = j
  PROVE  Cardinality({i \in DOMAIN s : f[s[i]] = x}) = IF \E i \in DOMAIN s : f[s[i]] = x THEN 1 ELSE 0
<1>1. CASE \E i \in DOMAIN s : f[s[i]] = x
  <2>1. PICK i \in DOMAIN s : f[s[i]] = x
    BY Zenon, <1>1
  <2>2. {j \in DOMAIN s : f[s[j]] = x} = {i}
    BY Zenon, <2>1
  <2>3. Cardinality({i}) = 1
    BY Zenon, FS_Singleton
  <2>4. QED
    BY ZenonT(30), <1>1, <2>2, <2>3
<1>2. CASE ~\E i \in DOMAIN s : f[s[i]] = x
  <2>1. {j \in DOMAIN s : f[s[j]] = x} = {}
    BY Zenon, <1>2
  <2>2. QED
    BY ZenonT(30), <1>2, <2>1, FS_EmptySet
<1>3. QED
  BY Zenon, <1>1, <1>2

\* The callers that are removing the service of that name.
Removing(n) == {t \in Callers : self[t] # None /\ name[self[t]] = n}

\* They can be counted.
LEMMA RemovingFinite == \A n : IsFiniteSet(Removing(n)) /\ Cardinality(Removing(n)) \in Nat
<1> SUFFICES ASSUME NEW n PROVE IsFiniteSet(Removing(n)) /\ Cardinality(Removing(n)) \in Nat
  BY Zenon
<1>1. IsFiniteSet(Callers)
  BY Zenon, ContextAssumption, FS_AddElement DEF Callers
<1>2. Removing(n) \in SUBSET Callers
  BY Zenon DEF Removing
<1>3. IsFiniteSet(Removing(n))
  BY ZenonT(30), <1>1, <1>2, FS_Subset
<1>4. QED
  BY Zenon, <1>3, FS_CardinalityType

\* The equation of SignalsAddUp, with a service counted once.
Sums(n) ==
  Count("exposed", n) =
    Count("removed", n) + (IF Listed(n) THEN 1 ELSE 0) + Cardinality(Removing(n))

\* The signals add up when they do for every name.
LEMMA SumsSuffice == RegistryInv /\ (\A n \in Names : Sums(n)) <=> RegistryInv /\ SignalsAddUp
<1> SUFFICES ASSUME RegistryInv PROVE (\A n \in Names : Sums(n)) <=> SignalsAddUp
  BY Zenon
<1>1. ASSUME NEW n \in Names
      PROVE  Cardinality({i \in DOMAIN m_services : name[m_services[i]] = n}) = IF Listed(n) THEN 1 ELSE 0
  BY Zenon, CountUnique DEF RegistryInv, UniqueNames, Listed
<1>2. QED
  BY Zenon, <1>1 DEF Sums, SignalsAddUp, Removing

\* What a signal adds to the counts.
LEMMA CountSignal ==
  ASSUME RegistryInv, NEW kind \in {"exposed", "removed", "prepared", "shutdown"}, NEW m \in Names \cup {None},
         signals' = Append(signals, Event(kind, m)), NEW n \in Names
  PROVE  /\ Count("exposed", n) \in Nat /\ Count("removed", n) \in Nat
         /\ Count("exposed", n)' = Count("exposed", n) + IF kind = "exposed" /\ m = n THEN 1 ELSE 0
         /\ Count("removed", n)' = Count("removed", n) + IF kind = "removed" /\ m = n THEN 1 ELSE 0
<1>1. signals \in Seq(Signals) /\ Event(kind, m) \in Signals
  BY Zenon DEF RegistryInv, ContextTypeOK, Event, Signals
<1>2. /\ Event(kind, m) = Event("exposed", n) <=> kind = "exposed" /\ m = n
      /\ Event(kind, m) = Event("removed", n) <=> kind = "removed" /\ m = n
  BY Zenon DEF Event
<1>3. ASSUME NEW k, NEW x, x = Event(k, n)
      PROVE  /\ Count(k, n) \in Nat
             /\ Count(k, n)' = Count(k, n) + IF Event(kind, m) = x THEN 1 ELSE 0
  <2>1. /\ Occurrences(signals, x) \in Nat
        /\ Occurrences(Append(signals, Event(kind, m)), x)
             = Occurrences(signals, x) + IF Event(kind, m) = x THEN 1 ELSE 0
    BY <1>1, CountAppended
  <2>2. Count(k, n) = Occurrences(signals, x) /\ Count(k, n)' = Occurrences(signals', x)
    BY Zenon, <1>3 DEF Count, Event, Occurrences
  <2>3. QED
    BY ZenonT(30), <2>1, <2>2
<1>4. QED
  BY Zenon, <1>2, <1>3

\* Signals can be counted.
LEMMA CountType == RegistryInv => \A n \in Names : Count("exposed", n) \in Nat /\ Count("removed", n) \in Nat
<1> SUFFICES ASSUME RegistryInv, NEW n \in Names PROVE Count("exposed", n) \in Nat /\ Count("removed", n) \in Nat
  BY Zenon
<1>1. /\ signals \in Seq(Signals)
      /\ Event("exposed", n) \in Signals /\ Event("removed", n) \in Signals
  BY Zenon DEF RegistryInv, ContextTypeOK, Event, Signals
<1>2. Occurrences(signals, Event("exposed", n)) \in Nat /\ Occurrences(signals, Event("removed", n)) \in Nat
  BY ZenonT(30), <1>1, CountAppended
<1>3. QED
  BY Zenon, <1>2 DEF Count, Occurrences

\* No signal, no service.
LEMMA SignalsInit == Init => SignalsAddUp
<1> SUFFICES ASSUME Init, NEW n \in Names
             PROVE  Count("exposed", n) =
                      Count("removed", n)
                        + Cardinality({i \in DOMAIN m_services : name[m_services[i]] = n})
                        + Cardinality({t \in Callers : self[t] # None /\ name[self[t]] = n})
  BY Zenon DEF SignalsAddUp
<1>1. /\ {i \in DOMAIN signals : signals[i] = Event("exposed", n)} = {}
      /\ {i \in DOMAIN signals : signals[i] = Event("removed", n)} = {}
      /\ {i \in DOMAIN m_services : name[m_services[i]] = n} = {}
      /\ {t \in Callers : self[t] # None /\ name[self[t]] = n} = {}
  BY DEF Init
<1>2. Cardinality({}) = 0
  BY Zenon, FS_EmptySet
<1>3. QED
  BY <1>1, <1>2 DEF Count

\* A step that may name a new actor and leaves the services alone.
LEMMA QuietSums ==
  ASSUME RegistryInv, NamesKept, UNCHANGED <<m_services, self>>, NEW n \in Names, Sums(n),
         \/ UNCHANGED signals
         \/ \E kind \in {"prepared", "shutdown"} : signals' = Append(signals, Event(kind, None))
  PROVE  Sums(n)'
<1>1. Listed(n)' = Listed(n)
  BY DEF Listed, RegistryInv, ContextTypeOK, NamesKept, Named
<1>2. Removing(n)' = Removing(n)
  BY Zenon DEF Removing, RegistryInv, ContextTypeOK, NamesKept, Named
<1>3. Count("exposed", n)' = Count("exposed", n) /\ Count("removed", n)' = Count("removed", n)
  <2>1. CASE UNCHANGED signals
    BY ZenonT(30), <2>1 DEF Count, Event
  <2>2. CASE \E kind \in {"prepared", "shutdown"} : signals' = Append(signals, Event(kind, None))
    BY SMTT(30), <2>2, CountSignal
  <2>3. QED
    BY ZenonT(30), <2>1, <2>2
<1>4. QED
  BY ZenonT(30), <1>1, <1>2, <1>3 DEF Sums

\* Publishing a service emits one signal for it.
LEMMA PublishSums ==
  ASSUME RegistryInv, NEW a \in Actors, NEW m \in Names, Publish(a, m), name'[a] = m, NamesKept,
         UNCHANGED self, NEW n \in Names, Sums(n)
  PROVE  Sums(n)'
<1>1. /\ m_services \in Seq(Actors) /\ m_services' = Append(m_services, a)
      /\ signals' = Append(signals, Event("exposed", m)) /\ m_in_use[m] = None
  BY ZenonT(30) DEF Publish, Assignable, RegistryInv, ContextTypeOK
<1>2. /\ DOMAIN m_services' = DOMAIN m_services \cup {Len(m_services) + 1}
      /\ m_services'[Len(m_services) + 1] = a
      /\ \A i \in DOMAIN m_services : m_services'[i] = m_services[i] /\ m_services[i] \in Actors
  BY <1>1, Appended
<1>3. ~Listed(m)
  BY Zenon, <1>1 DEF Listed, RegistryInv, HoldsPort
<1>4. \A i \in DOMAIN m_services : name'[m_services'[i]] = name[m_services[i]]
  BY Zenon, <1>2 DEF RegistryInv, Named, NamesKept
<1>5. Listed(n)' <=> Listed(n) \/ n = m
  BY ZenonT(30), <1>2, <1>4 DEF Listed
<1>6. Removing(n)' = Removing(n)
  BY ZenonT(30) DEF Removing, RegistryInv, ContextTypeOK, NamesKept, Named
<1>7. /\ Count("exposed", n) \in Nat /\ Count("removed", n) \in Nat
      /\ Count("exposed", n)' = Count("exposed", n) + IF m = n THEN 1 ELSE 0
      /\ Count("removed", n)' = Count("removed", n)
  BY <1>1, CountSignal
<1>8. Cardinality(Removing(n)) \in Nat
  BY ZenonT(30), RemovingFinite
<1>9. QED
  BY SMTT(30), <1>3, <1>5, <1>6, <1>7, <1>8 DEF Sums

\* Taking a service out owes the hub one signal.
LEMMA RemoveTakeSums ==
  ASSUME RegistryInv, NEW t \in Callers, NEW m \in Names, RemoveTake(t, m), pc[t] \notin {"stop", "signal"},
         NEW n \in Names, Sums(n)
  PROVE  Sums(n)'
<1>1. /\ m_services \in Seq(Actors) /\ self \in [Callers -> Actors \cup {None}] /\ None \notin Names \cup Actors
  BY Zenon, ContextAssumption DEF RegistryInv, ContextTypeOK
<1>2. PICK i \in DOMAIN m_services :
        /\ name[m_services[i]] = m /\ m_services[i] \in Actors
        /\ self' = [self EXCEPT ![t] = m_services[i]]
        /\ m_services' = Without(m_services, i)
  BY ZenonT(30), <1>1, TakenIndex
<1>3. UNCHANGED <<name, signals>> /\ self[t] = None
  BY ZenonT(30) DEF RemoveTake, actorVars, RegistryInv, Named
<1>4. Listed(n)' <=> Listed(n) /\ n # m
  <2>1. \A j \in DOMAIN m_services \ {i} : \E k \in DOMAIN m_services' : m_services'[k] = m_services[j]
    BY SMTT(30), <1>1, <1>2, Removed
  <2>2. \A k \in DOMAIN m_services' : \E j \in DOMAIN m_services \ {i} : m_services'[k] = m_services[j]
    BY SMTT(30), <1>1, <1>2, Removed
  <2>3. \A j \in DOMAIN m_services \ {i} : name[m_services[j]] # m
    BY Zenon, <1>2 DEF RegistryInv, UniqueNames
  <2>4. QED
    BY SMTT(30), <1>2, <1>3, <2>1, <2>2, <2>3 DEF Listed
<1>5. Listed(m)
  BY Zenon, <1>2 DEF Listed
<1>6. Removing(n)' = IF n = m THEN Removing(n) \cup {t} ELSE Removing(n)
  BY ZenonT(30), <1>1, <1>2, <1>3 DEF Removing
<1>7. t \notin Removing(n)
  BY ZenonT(30), <1>3 DEF Removing
<1>8. /\ Cardinality(Removing(n)) \in Nat
      /\ Cardinality(Removing(n)') = Cardinality(Removing(n)) + IF n = m THEN 1 ELSE 0
  BY SMTT(30), <1>6, <1>7, RemovingFinite, FS_AddElement
<1>9. Count("exposed", n)' = Count("exposed", n) /\ Count("removed", n)' = Count("removed", n)
  BY Zenon, <1>3 DEF Count, Event
<1>10. Count("exposed", n) \in Nat /\ Count("removed", n) \in Nat
  BY ZenonT(30), CountType
<1>11. QED
  BY SMTT(30), <1>4, <1>5, <1>8, <1>9, <1>10 DEF Sums

\* Emitting it settles that.
LEMMA RemoveSignalSums ==
  ASSUME RegistryInv, NEW t \in Callers, RemoveSignal(t), NEW n \in Names, Sums(n)
  PROVE  Sums(n)'
<1> DEFINE m == name[self[t]]
<1>1. /\ self' = [self EXCEPT ![t] = None] /\ signals' = Append(signals, Event("removed", m))
      /\ UNCHANGED <<m_services, name>> /\ pc[t] = "signal"
  BY Zenon DEF RemoveSignal, registry, actorVars
<1>2. m \in Names /\ self[t] \in Actors /\ None \notin Actors /\ self \in [Callers -> Actors \cup {None}]
  BY ZenonT(30), <1>1, ContextAssumption DEF RegistryInv, Named, ContextTypeOK
<1>3. Listed(n)' = Listed(n)
  BY Zenon, <1>1 DEF Listed
<1>4. Removing(n)' = IF n = m THEN Removing(n) \ {t} ELSE Removing(n)
  BY ZenonT(30), <1>1, <1>2 DEF Removing
<1>5. n = m => t \in Removing(n)
  BY ZenonT(30), <1>2 DEF Removing
<1> HIDE DEF m
<1>6. /\ Cardinality(Removing(n)) \in Nat
      /\ Cardinality(Removing(n)') = Cardinality(Removing(n)) - IF n = m THEN 1 ELSE 0
  BY SMTT(30), <1>4, <1>5, RemovingFinite, FS_RemoveElement
<1>7. /\ Count("exposed", n) \in Nat /\ Count("removed", n) \in Nat
      /\ Count("exposed", n)' = Count("exposed", n)
      /\ Count("removed", n)' = Count("removed", n) + IF m = n THEN 1 ELSE 0
  BY SMTT(30), <1>1, <1>2, CountSignal
<1>8. QED
  BY SMTT(30), <1>3, <1>6, <1>7 DEF Sums

\* Every step keeps the sums.
LEMMA SignalsStep ==
  ASSUME RegistryInv, [Next]_vars, NEW n \in Names, Sums(n)
  PROVE  Sums(n)'
<1>1. CASE name' = name /\ UNCHANGED <<m_services, self, signals>>
  BY Zenon, <1>1, QuietSums DEF RegistryInv, ContextTypeOK, NamesKept
<1>2. CASE BootInsert
  <2>1. todo # <<>> /\ todo \in Seq(Names) /\ UNCHANGED <<m_services, self, signals>>
    BY Zenon, <1>2 DEF BootInsert, RegistryInv, ContextTypeOK
  <2>2. Head(todo) \in Names
    BY Zenon, <2>1, HeadTail
  <2>3. NamesKept
    BY ZenonT(30), <1>2, <2>2, NewNameKept DEF BootInsert
  <2>4. QED
    BY ZenonT(30), <2>1, <2>3, QuietSums
<1>3. CASE BootPublish
  <2> DEFINE a == Head(m_unpublished)
  <2>1. /\ m_unpublished # <<>> /\ Publish(a, name[a]) /\ UNCHANGED <<name, self>>
        /\ m_unpublished \in Seq(Actors)
    BY ZenonT(30), <1>3 DEF BootPublish, threadVars, RegistryInv, ContextTypeOK
  <2>2. a \in Actors /\ name[a] \in Names
    BY <2>1, HeadTail DEF RegistryInv, Named
  <2>3. NamesKept
    BY Zenon, <2>1 DEF NamesKept, RegistryInv, ContextTypeOK
  <2> HIDE DEF a
  <2>4. QED
    BY ZenonT(30), <2>1, <2>2, <2>3, PublishSums
<1>4. CASE Prepared \/ Terminate
  <2>1. \E kind \in {"prepared", "shutdown"} : signals' = Append(signals, Event(kind, None))
    BY Zenon, <1>4 DEF Prepared, Terminate
  <2>2. UNCHANGED <<m_services, self>> /\ NamesKept
    BY Zenon, <1>4 DEF Prepared, Terminate, registry, actorVars, NamesKept, RegistryInv, ContextTypeOK
  <2>3. QED
    BY ZenonT(30), <2>1, <2>2, QuietSums
<1>5. ASSUME NEW m \in Extra, Insert(m) PROVE Sums(n)'
  <2>1. PICK a \in Unmade :
          /\ name' = [name EXCEPT ![a] = m]
          /\ Publish(a, m) \/ UNCHANGED <<m_services, signals>>
    BY Zenon, <1>5 DEF Insert, PublishFailed
  <2>2. a \in Actors /\ name'[a] = m /\ NamesKept /\ m \in Names
    BY Zenon, <2>1, NewNameKept DEF Names
  <2>3. UNCHANGED self
    BY Zenon, <1>5 DEF Insert, threadVars
  <2>4. QED
    BY ZenonT(30), <2>1, <2>2, <2>3, PublishSums, QuietSums
<1>6. ASSUME NEW t \in Threads, NEW m \in Names, RemoveService(t, m) PROVE Sums(n)'
  BY ZenonT(30), <1>6, RemoveTakeSums, MainCalls DEF RemoveService
<1>7. ASSUME NEW t \in Callers, RemoveSignal(t) PROVE Sums(n)'
  BY ZenonT(30), <1>7, RemoveSignalSums
<1>8. CASE TerminateRemove
  <2>1. pc[Main] = "remove" /\ todo # <<>> /\ todo \in Seq(Names)
    BY Zenon, <1>8 DEF TerminateRemove, RegistryInv, ContextTypeOK
  <2>2. Head(todo) \in Names
    BY ZenonT(30), <2>1, HeadTail
  <2>3. CASE RemoveTake(Main, Head(todo))
    BY ZenonT(30), <2>1, <2>2, <2>3, MainCalls, RemoveTakeSums
  <2>4. CASE UNCHANGED <<registry, actorVars, loopVars, mapper, signals, pc, self>>
    BY ZenonT(30), <1>1, <2>4 DEF registry, actorVars
  <2>5. QED
    BY ZenonT(30), <1>8, <2>3, <2>4 DEF TerminateRemove
<1>9. CASE UNCHANGED vars \/ BootLock \/ BootFailed \/ BootDone \/ TerminateStop \/ RunAccept \/ RunCancel
  <2>1. name' = name /\ UNCHANGED <<m_services, self, signals>>
    BY Zenon, <1>9 DEF vars, BootLock, BootFailed, BootDone, TerminateStop, RunAccept, RunCancel,
                registry, actorVars, threadVars, PublishFailed
  <2>2. QED
    BY ZenonT(30), <1>1, <2>1
<1>10. ASSUME NEW t \in Callers, RemoveTerminate(t) PROVE Sums(n)'
  BY ZenonT(30), <1>1, <1>10 DEF RemoveTerminate, registry, actorVars
<1>11. ASSUME NEW a \in Actors, Accept(a) PROVE Sums(n)'
  BY ZenonT(30), <1>1, <1>11 DEF Accept, registry, actorVars, threadVars
<1>12. QED
  BY ZenonT(30), <1>2, <1>3, <1>4, <1>5, <1>6, <1>7, <1>8, <1>9, <1>10, <1>11 DEF Next

\* Subscribers of the hub can reconstruct the registry: the exposed and removed
\* signals of a name differ by the services of that name that are listed or
\* whose removal is still to be signalled, for any number of threads.
THEOREM HubAddsUp == Spec => []SignalsAddUp
<1>1. Init => RegistryInv /\ SignalsAddUp
  BY ZenonT(30), RegistryInit, SignalsInit
<1>2. RegistryInv /\ SignalsAddUp /\ [Next]_vars => (RegistryInv /\ SignalsAddUp)'
  <2>1. RegistryInv /\ (\A n \in Names : Sums(n)) /\ [Next]_vars => (RegistryInv /\ \A n \in Names : Sums(n))'
    BY Zenon, RegistryStep, SignalsStep
  <2>2. QED
    BY <2>1, SumsSuffice, PTL
<1>3. QED
  BY <1>1, <1>2, PTL DEF Spec
=============================================================================
