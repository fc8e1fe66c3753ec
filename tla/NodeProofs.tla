----------------------------- MODULE NodeProofs -----------------------------
(***************************************************************************)
(* Proofs about the process of a node. SignalHandler, for every set of     *)
(* signals and every number of them sent: a registration is live while it  *)
(* is in the map or in the batch of the handler thread, and everything     *)
(* follows from counting, since it was called once exactly if it is not    *)
(* live any more. PidFile, for every set of instances: as long as no two   *)
(* of them start at the same time, the one that runs is the one in the     *)
(* file. EventAcl, for any subjects and methods: what the tree told and    *)
(* the rights have not learnt is in a callback that is to come. Storage,   *)
(* for any requests, collections and tags: a request waits in one job, and *)
(* an object that was answered for is in its file, linked from its tags.   *)
(***************************************************************************)
EXTENDS SignalHandler, PidFile, EventAcl, Storage, SequenceFacts

-----------------------------------------------------------------------------
(* SignalHandler *)

\* Registration i has yet to be called.
Live(i) == i \in batch \/ \E s \in Signals : i \in callbacks[s]

\* Every registration is live and was not called, or was called once.
Accounted ==
  /\ \A i \in Indices : calls[i] = IF Live(i) THEN 0 ELSE 1
  /\ \A s \in Signals : callbacks[s] \cap batch = {}
  /\ \A s, t \in Signals : s # t => callbacks[s] \cap callbacks[t] = {}

\* The handler thread has a batch and runs callbacks only under process_lock.
UnderLock ==
  /\ handler \notin {"call", "callback"} => batch = {}
  /\ running # None <=> handler = "callback"
  /\ running # None => calls[running] = 1

\* A token names the one signal its registration can be found under; the one
\* that is waited for is not in the map, which is locked.
TokensRight ==
  /\ \A k \in 1..Len(tokens), s \in Signals : tokens[k].index \in callbacks[s] => s = tokens[k].signum
  /\ main = "settle" => tokens # <<>> /\ \A s \in Signals : Head(tokens).index \notin callbacks[s]

\* Nothing is registered any more when run() has left its loop.
Ending ==
  /\ handler = "new" <=> main = "on"
  /\ finalize \/ main \in {"cancel", "settle", "join", "exit"} => handler \notin {"new", "run"}
  /\ handler \notin {"new", "run"} /\ ~should_run => main \in {"join", "exit"}
  /\ handler \in {"final", "exited"} => main \in {"join", "exit"}
  /\ handler = "exited" => \A s \in Signals : callbacks[s] = {}

\* The inductive invariant of the signal handler.
HandlerInv == TypeOK /\ Accounted /\ UnderLock /\ TokensRight /\ Ending /\ CancelSettles

-----------------------------------------------------------------------------
(* Registering, which three actions of the main thread and one of the      *)
(* handler thread do.                                                      *)

\* async_wait() adds one live registration that was not called.
LEMMA Registering ==
  ASSUME TypeOK, Accounted, NEW s \in Signals, Register(s), batch' = batch
  PROVE  /\ current_index \in Nat /\ current_index' \in Nat
         /\ current_index \in Indices' /\ current_index \notin Indices
         /\ Indices \subseteq Indices'
         /\ callbacks' \in [Signals -> SUBSET Indices']
         /\ calls' \in [Indices' -> Nat]
         /\ \A i \in Indices : calls'[i] = calls[i]
         /\ \A t \in Signals, i \in Indices : i \in callbacks'[t] <=> i \in callbacks[t]
         /\ Accounted'
  <1>1. /\ current_index \in Nat /\ current_index' = current_index + 1
        /\ Indices = 0..(current_index - 1) /\ Indices' = 0..current_index
    BY DEF TypeOK, Register, Indices
  <1>2. /\ current_index \in Indices' /\ current_index \notin Indices
        /\ Indices' = Indices \cup {current_index}
    BY <1>1
  <1>3. /\ callbacks \in [Signals -> SUBSET Indices] /\ calls \in [Indices -> Nat] /\ batch \in SUBSET Indices
        /\ callbacks' = [callbacks EXCEPT ![s] = @ \cup {current_index}]
        /\ calls' = [i \in Indices' |-> IF i = current_index THEN 0 ELSE calls[i]]
    BY Zenon, <1>1 DEF TypeOK, Register
  <1>4. /\ callbacks' \in [Signals -> SUBSET Indices']
        /\ calls' \in [Indices' -> Nat]
        /\ \A i \in Indices : calls'[i] = calls[i]
        /\ calls'[current_index] = 0
    BY Zenon, <1>2, <1>3
  <1>5. /\ \A t \in Signals, i \in Indices : i \in callbacks'[t] <=> i \in callbacks[t]
        /\ \A t \in Signals : current_index \in callbacks'[t] <=> t = s
    BY Zenon, <1>2, <1>3
  <1>6. \A i \in Indices' : calls'[i] = IF Live(i)' THEN 0 ELSE 1
    <2> SUFFICES ASSUME NEW i \in Indices'
                 PROVE  calls'[i] = IF Live(i)' THEN 0 ELSE 1
      BY Zenon
    <2>1. CASE i = current_index
      BY Zenon, <2>1, <1>4, <1>5 DEF Live
    <2>2. CASE i \in Indices
      <3>1. Live(i)' <=> Live(i)
        BY Zenon, <2>2, <1>5 DEF Live
      <3> QED BY Zenon, <3>1, <2>2, <1>4 DEF Accounted
    <2> QED BY Zenon, <2>1, <2>2, <1>2
  <1>7. \A t \in Signals : callbacks'[t] \cap batch' = {}
    BY Zenon, <1>2, <1>3, <1>5 DEF Accounted
  <1>8. \A t, u \in Signals : t # u => callbacks'[t] \cap callbacks'[u] = {}
    <2> SUFFICES ASSUME NEW t \in Signals, NEW u \in Signals, t # u, NEW i \in callbacks'[t] \cap callbacks'[u]
                 PROVE  FALSE
      BY Zenon
    <2>1. i \in Indices'
      BY Zenon, <1>4
    <2>2. CASE i = current_index
      BY Zenon, <2>2, <1>5
    <2>3. CASE i \in Indices
      BY Zenon, <2>3, <1>5 DEF Accounted
    <2> QED BY Zenon, <2>1, <2>2, <2>3, <1>2
  <1> QED BY <1>1, <1>2, <1>4, <1>5, <1>6, <1>7, <1>8 DEF Accounted

\* What a registration leaves of the rest of the invariant, whoever makes it.
LEMMA RegisteringKeeps ==
  ASSUME HandlerInv, NEW s \in Signals, Register(s), batch' = batch, settled' = settled
  PROVE  /\ settled' \in SUBSET Indices' /\ batch' \in SUBSET Indices'
         /\ running \in Indices' \cup {None}
         /\ \A i \in settled : calls'[i] = 1
         /\ running # None => calls'[running] = 1
         /\ tokens \in Seq([signum : Signals, index : Indices'])
         /\ \A k \in 1..Len(tokens), t \in Signals : tokens[k].index \in callbacks'[t] => t = tokens[k].signum
  <1>1. /\ TypeOK /\ Accounted
        /\ settled \in SUBSET Indices /\ batch \in SUBSET Indices /\ running \in Indices \cup {None}
        /\ tokens \in Seq([signum : Signals, index : Indices])
    BY Zenon DEF HandlerInv, TypeOK
  <1>2. /\ Indices \subseteq Indices'
        /\ \A i \in Indices : calls'[i] = calls[i]
        /\ \A t \in Signals, i \in Indices : i \in callbacks'[t] <=> i \in callbacks[t]
    BY Zenon, <1>1, Registering
  <1>3. \A i \in settled : calls'[i] = 1
    BY Zenon, <1>1, <1>2 DEF HandlerInv, CancelSettles
  <1>4. running # None => calls'[running] = 1
    BY Zenon, <1>1, <1>2 DEF HandlerInv, UnderLock
  <1>5. \A k \in 1..Len(tokens) : tokens[k] \in [signum : Signals, index : Indices]
    BY Zenon, <1>1, Numbered
  <1>6. tokens \in Seq([signum : Signals, index : Indices'])
    <2>1. [signum : Signals, index : Indices] \subseteq [signum : Signals, index : Indices']
      BY Zenon, <1>2
    <2> QED BY Zenon, <2>1, <1>1, Wider
  <1>7. \A k \in 1..Len(tokens), t \in Signals : tokens[k].index \in callbacks'[t] => t = tokens[k].signum
    BY Zenon, <1>2, <1>5 DEF HandlerInv, TokensRight
  <1> QED BY Zenon, <1>1, <1>2, <1>3, <1>4, <1>6, <1>7

-----------------------------------------------------------------------------
(* The invariant *)

\* It holds before the first registration.
LEMMA InitHolds == Init => HandlerInv
  <1> SUFFICES ASSUME Init
               PROVE  HandlerInv
    BY Zenon
  <1>1. Indices = {} /\ current_index = 0
    BY DEF Init, Indices
  <1>2. tokens = <<>> /\ tokens \in Seq([signum : Signals, index : Indices]) /\ Len(tokens) = 0
    BY Zenon, EmptySequence DEF Init
  <1>3. TypeOK
    <2>1. calls \in [Indices -> Nat] /\ callbacks \in [Signals -> SUBSET Indices]
      BY Zenon, <1>1 DEF Init
    <2>2. raised \in 0..MaxRaise /\ current_index \in Nat
      BY SignalAssumption DEF Init
    <2>3. lock # "main" /\ process_lock # "handler"
      BY Zenon, SignalAssumption DEF Init
    <2> QED BY Zenon, <2>1, <2>2, <2>3, <1>2 DEF Init, TypeOK
  <1>4. Accounted
    BY Zenon, <1>1 DEF Init, Accounted
  <1>5. UnderLock /\ Ending /\ CancelSettles
    BY Zenon, <1>1 DEF Init, UnderLock, Ending, CancelSettles
  <1>6. TokensRight
    BY Zenon, <1>2 DEF Init, TokensRight
  <1> QED BY Zenon, <1>3, <1>4, <1>5, <1>6 DEF HandlerInv

\* on() and wait_for() keep a token of what they register.
LEMMA TokenKept ==
  ASSUME HandlerInv, NEW s \in Signals, Register(s), tokens' = Append(tokens, Token(s)),
         main \in {"on", "wait_for"},
         UNCHANGED <<pending, raised, lockVars, should_run, finalize, main, settled, runVars>>
  PROVE  HandlerInv'
  <1>1. TypeOK /\ Accounted /\ batch' = batch /\ settled' = settled
    BY Zenon DEF HandlerInv, runVars
  <1>2. /\ current_index \in Nat /\ current_index' \in Nat
        /\ current_index \in Indices' /\ current_index \notin Indices
        /\ callbacks' \in [Signals -> SUBSET Indices']
        /\ calls' \in [Indices' -> Nat]
        /\ Accounted'
    BY Zenon, <1>1, Registering
  <1>3. /\ settled' \in SUBSET Indices' /\ batch' \in SUBSET Indices'
        /\ running \in Indices' \cup {None}
        /\ \A i \in settled : calls'[i] = 1
        /\ running # None => calls'[running] = 1
        /\ tokens \in Seq([signum : Signals, index : Indices'])
        /\ \A k \in 1..Len(tokens), t \in Signals : tokens[k].index \in callbacks'[t] => t = tokens[k].signum
    BY Zenon, <1>1, RegisteringKeeps
  <1>4. Token(s) \in [signum : Signals, index : Indices']
    BY Zenon, <1>2 DEF Token
  <1>5. /\ tokens' \in Seq([signum : Signals, index : Indices'])
        /\ Len(tokens') = Len(tokens) + 1
        /\ \A k \in 1..Len(tokens) : tokens'[k] = tokens[k]
        /\ tokens'[Len(tokens) + 1] = Token(s)
    BY SMTT(30), <1>3, <1>4, Appended
  <1>6. TypeOK'
    BY ZenonT(30), <1>1, <1>2, <1>3, <1>5 DEF TypeOK, lockVars, runVars
  <1>7. TokensRight'
    <2>1. \A t \in Signals : current_index \in callbacks'[t] => t = s
      BY Zenon, <1>1, <1>2 DEF TypeOK, Register
    <2>2. ASSUME NEW k \in 1..Len(tokens'), NEW t \in Signals, tokens'[k].index \in callbacks'[t]
          PROVE  t = tokens'[k].signum
      <3>1. Len(tokens) \in Nat
        BY Zenon, <1>3, Numbered
      <3>2. CASE k \in 1..Len(tokens)
        BY ZenonT(30), <3>2, <2>2, <1>3, <1>5
      <3>3. CASE k = Len(tokens) + 1
        BY <3>3, <2>1, <2>2, <1>5 DEF Token
      <3> QED BY SMTT(30), <3>1, <3>2, <3>3, <1>5
    <2>3. main' # "settle"
      BY Zenon
    <2> QED BY Zenon, <2>2, <2>3 DEF TokensRight
  <1>8. UnderLock' /\ CancelSettles'
    BY Zenon, <1>3 DEF HandlerInv, UnderLock, CancelSettles, runVars
  <1>9. Ending'
    BY Zenon DEF HandlerInv, Ending, runVars
  <1> QED BY Zenon, <1>2, <1>6, <1>7, <1>8, <1>9 DEF HandlerInv

\* ignore() keeps no token.
LEMMA IgnoreKeeps ==
  ASSUME HandlerInv, NEW s \in Signals, Ignore(s)
  PROVE  HandlerInv'
  <1>1. /\ TypeOK /\ Accounted /\ batch' = batch /\ settled' = settled /\ Register(s)
        /\ tokens' = tokens /\ main' = main /\ main = "on"
    BY Zenon DEF HandlerInv, runVars, mainVars, Ignore
  <1>2. /\ current_index' \in Nat
        /\ callbacks' \in [Signals -> SUBSET Indices']
        /\ calls' \in [Indices' -> Nat]
        /\ Accounted'
    BY Zenon, <1>1, Registering
  <1>3. /\ settled' \in SUBSET Indices' /\ batch' \in SUBSET Indices'
        /\ running \in Indices' \cup {None}
        /\ \A i \in settled : calls'[i] = 1
        /\ running # None => calls'[running] = 1
        /\ tokens \in Seq([signum : Signals, index : Indices'])
        /\ \A k \in 1..Len(tokens), t \in Signals : tokens[k].index \in callbacks'[t] => t = tokens[k].signum
    BY Zenon, <1>1, RegisteringKeeps
  <1>4. TypeOK'
    BY ZenonT(30), <1>1, <1>2, <1>3 DEF TypeOK, Ignore, lockVars, runVars, mainVars
  <1>5. TokensRight'
    BY Zenon, <1>1, <1>3 DEF TokensRight
  <1>6. UnderLock' /\ CancelSettles'
    BY Zenon, <1>3 DEF HandlerInv, UnderLock, CancelSettles, Ignore, runVars, mainVars
  <1>7. Ending'
    BY Zenon DEF HandlerInv, Ending, Ignore, runVars, mainVars
  <1> QED BY Zenon, <1>2, <1>4, <1>5, <1>6, <1>7 DEF HandlerInv

\* A recurrent callback registers itself from the handler thread; the main
\* thread is not past join() then, for the loop of run() is not over.
LEMMA RearmKeeps ==
  ASSUME HandlerInv, Rearm
  PROVE  HandlerInv'
  <1>1. /\ TypeOK /\ Accounted /\ batch' = batch /\ settled' = settled /\ Register(signal)
        /\ tokens' = tokens /\ main' = main /\ signal \in Signals /\ lock = None
    BY Zenon DEF HandlerInv, mainVars, Rearm, Register, Signals
  <1>2. /\ current_index' \in Nat
        /\ callbacks' \in [Signals -> SUBSET Indices']
        /\ calls' \in [Indices' -> Nat]
        /\ Accounted'
    BY Zenon, <1>1, Registering
  <1>3. /\ settled' \in SUBSET Indices' /\ batch' \in SUBSET Indices'
        /\ \A i \in settled : calls'[i] = 1
        /\ tokens \in Seq([signum : Signals, index : Indices'])
        /\ \A k \in 1..Len(tokens), t \in Signals : tokens[k].index \in callbacks'[t] => t = tokens[k].signum
    BY Zenon, <1>1, RegisteringKeeps
  <1>4. TypeOK'
    BY Zenon, <1>1, <1>2, <1>3 DEF TypeOK, Rearm, lockVars, mainVars
  <1>5. TokensRight'
    <2>1. main # "settle"
      BY Zenon, <1>1, SignalAssumption DEF TypeOK
    <2> QED BY Zenon, <2>1, <1>1, <1>3 DEF TokensRight
  <1>6. None \notin Indices'
    BY <1>2, SignalAssumption DEF Indices
  <1>7. UnderLock' /\ CancelSettles'
    BY Zenon, <1>1, <1>3, <1>6 DEF HandlerInv, UnderLock, CancelSettles, Rearm
  <1>8. Ending'
    BY Zenon DEF HandlerInv, Ending, Rearm, mainVars
  <1> QED BY Zenon, <1>2, <1>4, <1>5, <1>7, <1>8 DEF HandlerInv

-----------------------------------------------------------------------------
(* The other steps of the main thread *)

\* The first token names the one signal its registration can be under.
LEMMA HeadToken ==
  ASSUME HandlerInv, tokens # <<>>
  PROVE  /\ Head(tokens) \in [signum : Signals, index : Indices]
         /\ Len(tokens) \in Nat \ {0}
         /\ \A t \in Signals : Head(tokens).index \in callbacks[t] => t = Head(tokens).signum
  <1>1. tokens \in Seq([signum : Signals, index : Indices])
    BY Zenon DEF HandlerInv, TypeOK
  <1>2. Head(tokens) \in [signum : Signals, index : Indices]
    BY Zenon, <1>1, HeadTail
  <1>3. Len(tokens) \in Nat \ {0} /\ Head(tokens) = tokens[1]
    BY Zenon, <1>1, HeadTail, Numbered
  <1> QED BY <1>2, <1>3 DEF HandlerInv, TokensRight

\* The first token goes; the others stay what they were.
LEMMA TokenDropped ==
  ASSUME HandlerInv, tokens # <<>>, tokens' = Tail(tokens)
  PROVE  /\ tokens' \in Seq([signum : Signals, index : Indices])
         /\ \A k \in 1..Len(tokens'), t \in Signals : tokens'[k].index \in callbacks[t] => t = tokens'[k].signum
  <1>1. tokens \in Seq([signum : Signals, index : Indices])
    BY Zenon DEF HandlerInv, TypeOK
  <1>2. /\ tokens' \in Seq([signum : Signals, index : Indices])
        /\ Len(tokens') = Len(tokens) - 1
        /\ \A k \in 1..Len(tokens') : tokens'[k] = tokens[k + 1]
    BY <1>1, HeadTail
  <1>3. ASSUME NEW k \in 1..Len(tokens'), NEW t \in Signals, tokens'[k].index \in callbacks[t]
        PROVE  t = tokens'[k].signum
    <2>1. k + 1 \in 1..Len(tokens) /\ tokens'[k] = tokens[k + 1]
      BY <1>2, HeadToken
    <2> QED BY Zenon, <2>1, <1>3 DEF HandlerInv, TokensRight
  <1> QED BY Zenon, <1>2, <1>3

\* cancel() takes a live registration out of the map and calls it.
LEMMA CancelFoundKeeps ==
  ASSUME HandlerInv, CancelFound
  PROVE  HandlerInv'
  <1> DEFINE h == Head(tokens).index
             s == Head(tokens).signum
  <1>1. /\ TypeOK /\ Accounted /\ tokens # <<>> /\ tokens' = Tail(tokens) /\ batch' = batch
        /\ h \in callbacks[s] /\ callbacks' = [callbacks EXCEPT ![s] = @ \ {h}]
        /\ calls' = [calls EXCEPT ![h] = @ + 1] /\ settled' = settled \cup {h}
        /\ Indices' = Indices /\ main' = "cancel" /\ running' = running
    BY Zenon DEF HandlerInv, CancelFound, Call, runVars, Indices
  <1>2. s \in Signals /\ h \in Indices /\ tokens' \in Seq([signum : Signals, index : Indices])
    BY Zenon, <1>1, HeadToken, TokenDropped
  <1>3. \A k \in 1..Len(tokens'), t \in Signals : tokens'[k].index \in callbacks[t] => t = tokens'[k].signum
    BY ZenonT(30), <1>1, TokenDropped
  <1>4. /\ callbacks \in [Signals -> SUBSET Indices] /\ calls \in [Indices -> Nat]
        /\ callbacks' \in [Signals -> SUBSET Indices]
        /\ \A t \in Signals : callbacks'[t] = callbacks[t] \ {h}
    BY SMTT(30), <1>1, <1>2 DEF TypeOK, Accounted
  <1>5. calls[h] = 0
    BY Zenon, <1>1, <1>2 DEF Accounted, Live
  <1>6. /\ calls' \in [Indices -> Nat] /\ calls'[h] = 1
        /\ \A i \in Indices : i # h => calls'[i] = calls[i]
    BY SMTT(30), <1>1, <1>2, <1>4, <1>5
  <1>7. TypeOK'
    <2>1. /\ main = "cancel"
          /\ UNCHANGED <<pending, raised, current_index, lock, process_lock, should_run, finalize, main>>
          /\ UNCHANGED <<handler, signal, batch, running>>
      BY Zenon DEF CancelFound, lockVars, runVars
    <2>2. settled' \in SUBSET Indices' /\ tokens' \in Seq([signum : Signals, index : Indices'])
      BY Zenon, <1>1, <1>2 DEF TypeOK
    <2>3. callbacks' \in [Signals -> SUBSET Indices'] /\ calls' \in [Indices' -> Nat]
      BY Zenon, <1>1, <1>4, <1>6
    <2>4. batch' \in SUBSET Indices' /\ running' \in Indices' \cup {None}
      BY Zenon, <1>1 DEF TypeOK
    <2> HIDE DEF h, s
    <2> QED BY Zenon, <1>1, <2>1, <2>2, <2>3, <2>4 DEF TypeOK
  <1>8. Accounted'
    <2>1. h \notin batch
      BY Zenon, <1>1, <1>2 DEF Accounted
    <2>2. \A i \in Indices : i # h => (Live(i)' <=> Live(i))
      BY Zenon, <1>1, <1>4 DEF Live
    <2>3. \A i \in Indices : i = h => ~Live(i)'
      BY ZenonT(30), <2>1, <1>1, <1>4 DEF Live
    <2>4. \A i \in Indices' : calls'[i] = IF Live(i)' THEN 0 ELSE 1
      BY Zenon, <2>2, <2>3, <1>1, <1>6 DEF Accounted
    <2>5. /\ \A t \in Signals : callbacks'[t] \cap batch' = {}
          /\ \A t, u \in Signals : t # u => callbacks'[t] \cap callbacks'[u] = {}
      BY Zenon, <1>1, <1>4 DEF Accounted
    <2> QED BY Zenon, <2>4, <2>5 DEF Accounted
  <1>9. running # h
    BY <1>2, <1>5, SignalAssumption DEF HandlerInv, UnderLock, TypeOK, Indices
  <1>10. \A i \in settled : i \in Indices /\ i # h
    BY SMTT(30), <1>5 DEF HandlerInv, CancelSettles, TypeOK
  <1>11. UnderLock' /\ CancelSettles'
    BY ZenonT(30), <1>1, <1>6, <1>9, <1>10 DEF HandlerInv, UnderLock, CancelSettles, CancelFound, runVars, TypeOK
  <1>12. TokensRight'
    BY ZenonT(30), <1>1, <1>3, <1>4 DEF TokensRight
  <1>13. Ending'
    BY Zenon, <1>4 DEF HandlerInv, Ending, CancelFound, runVars
  <1> QED BY Zenon, <1>7, <1>8, <1>11, <1>12, <1>13 DEF HandlerInv

\* cancel() gets process_lock: no callback is running and the batch is empty,
\* so that the registration, not in the map either, was called.
LEMMA SettleKeeps ==
  ASSUME HandlerInv, Settle
  PROVE  HandlerInv'
  <1> DEFINE h == Head(tokens).index
  <1>1. /\ TypeOK /\ Accounted /\ tokens # <<>> /\ tokens' = Tail(tokens)
        /\ \A t \in Signals : h \notin callbacks[t]
        /\ settled' = settled \cup {h} /\ Indices' = Indices /\ process_lock = None
    BY Zenon DEF HandlerInv, Settle, TokensRight, regVars, Indices
  <1>2. h \in Indices /\ tokens' \in Seq([signum : Signals, index : Indices])
    BY Zenon, <1>1, HeadToken, TokenDropped
  <1>3. \A k \in 1..Len(tokens'), t \in Signals : tokens'[k].index \in callbacks[t] => t = tokens'[k].signum
    BY Zenon, <1>1, TokenDropped
  <1>4. handler \notin {"move", "call", "callback"}
    BY Zenon, <1>1, SignalAssumption DEF TypeOK
  <1>5. batch = {} /\ running = None
    BY Zenon, <1>4 DEF HandlerInv, UnderLock
  <1>6. calls[h] = 1 /\ h # None
    <2>1. ~Live(h)
      BY Zenon, <1>1, <1>5 DEF Live
    <2>2. calls[h] = 1
      BY Zenon, <2>1, <1>1, <1>2 DEF Accounted
    <2>3. Indices \subseteq Nat
      BY SMTT(30), <1>1 DEF Indices, TypeOK
    <2> QED BY Zenon, <2>2, <2>3, <1>2, SignalAssumption
  <1>7. TypeOK'
    BY ZenonT(30), <1>1, <1>2, SignalAssumption DEF TypeOK, Settle, regVars, runVars
  <1>8. Accounted'
    BY Zenon, <1>1 DEF Accounted, Live, Settle, regVars, runVars
  <1>9. UnderLock' /\ CancelSettles'
    BY Zenon, <1>1, <1>5, <1>6 DEF HandlerInv, UnderLock, CancelSettles, Settle, runVars
  <1>10. TokensRight'
    BY Zenon, <1>3 DEF TokensRight, Settle, regVars
  <1>11. Ending'
    BY Zenon DEF HandlerInv, Ending, Settle, regVars, runVars
  <1> QED BY Zenon, <1>7, <1>8, <1>9, <1>10, <1>11 DEF HandlerInv

-----------------------------------------------------------------------------
(* The other steps of the handler thread *)

\* The callbacks of one signal become the batch.
LEMMA MoveKeeps ==
  ASSUME HandlerInv, Move
  PROVE  HandlerInv'
  <1>1. /\ TypeOK /\ Accounted /\ batch = {} /\ running = None /\ lock = None
        /\ tokens' = tokens /\ main' = main /\ calls' = calls /\ settled' = settled /\ running' = running
        /\ Indices' = Indices
        /\ callbacks \in [Signals -> SUBSET Indices]
    BY Zenon DEF HandlerInv, Move, UnderLock, mainVars, Indices, TypeOK
  <1>2. /\ callbacks' \in [Signals -> SUBSET Indices] /\ batch' \in SUBSET Indices
        /\ \A s \in Signals : callbacks'[s] \subseteq callbacks[s] /\ callbacks'[s] \cap batch' = {}
    <2>1. CASE signal \in Signals
      BY <2>1, <1>1 DEF Move, Accounted
    <2>2. CASE signal \notin Signals
      BY Zenon, <2>2, <1>1 DEF Move
    <2> QED BY Zenon, <2>1, <2>2
  <1>3. \A i \in Indices : Live(i)' <=> Live(i)
    <2>1. CASE signal \in Signals
      BY Zenon, <2>1, <1>1 DEF Move, Live
    <2>2. CASE signal \notin Signals
      BY Zenon, <2>2, <1>1 DEF Move, Live
    <2> QED BY Zenon, <2>1, <2>2
  <1>4. Accounted'
    BY Zenon, <1>1, <1>2, <1>3 DEF Accounted
  <1>5. TypeOK'
    BY Zenon, <1>1, <1>2 DEF TypeOK, Move, lockVars, mainVars
  <1>6. UnderLock' /\ CancelSettles'
    BY Zenon, <1>1 DEF HandlerInv, UnderLock, CancelSettles, Move
  <1>7. TokensRight'
    BY Zenon, <1>1, <1>2 DEF HandlerInv, TokensRight
  <1>8. Ending'
    BY Zenon DEF HandlerInv, Ending, Move, mainVars
  <1> QED BY Zenon, <1>4, <1>5, <1>6, <1>7, <1>8 DEF HandlerInv

\* A callback of the batch starts.
LEMMA InvokeKeeps ==
  ASSUME HandlerInv, NEW i \in batch, Invoke(i)
  PROVE  HandlerInv'
  <1>1. /\ TypeOK /\ Accounted /\ batch' = batch \ {i} /\ running' = i /\ handler' = "callback"
        /\ calls' = [calls EXCEPT ![i] = @ + 1] /\ callbacks' = callbacks /\ Indices' = Indices
        /\ settled' = settled /\ i \in Indices
    BY Zenon DEF HandlerInv, Invoke, Call, TypeOK, regVars, mainVars, Indices
  <1>2. calls[i] = 0 /\ \A s \in Signals : i \notin callbacks[s]
    BY Zenon, <1>1 DEF Accounted, Live
  <1>3. /\ calls' \in [Indices -> Nat] /\ calls'[i] = 1
        /\ \A j \in Indices : j # i => calls'[j] = calls[j]
    BY SMTT(30), <1>1, <1>2 DEF TypeOK
  <1>4. TypeOK'
    BY Zenon, <1>1, <1>3 DEF TypeOK, Invoke, lockVars, mainVars, regVars
  <1>5. Accounted'
    <2>1. /\ \A j \in Indices : j # i => (Live(j)' <=> Live(j))
          /\ ~Live(i)'
      BY Zenon, <1>1, <1>2 DEF Live
    <2>2. \A j \in Indices' : calls'[j] = IF Live(j)' THEN 0 ELSE 1
      BY Zenon, <2>1, <1>1, <1>3 DEF Accounted
    <2> QED BY Zenon, <2>2, <1>1 DEF Accounted
  <1>6. i # None
    BY <1>1, SignalAssumption DEF TypeOK, Indices
  <1>7. UnderLock'
    BY ZenonT(30), <1>1, <1>3, <1>6 DEF UnderLock
  <1>8. CancelSettles'
    BY SMTT(30), <1>1, <1>2, <1>3 DEF HandlerInv, CancelSettles, TypeOK
  <1>9. TokensRight' /\ Ending'
    BY Zenon DEF HandlerInv, TokensRight, Ending, Invoke, regVars, mainVars
  <1> QED BY Zenon, <1>4, <1>5, <1>7, <1>8, <1>9 DEF HandlerInv

\* The end of run() calls what is left in the map.
LEMMA FinalKeeps ==
  ASSUME HandlerInv, Final
  PROVE  HandlerInv'
  <1>1. /\ TypeOK /\ Accounted /\ batch = {} /\ batch' = {} /\ running = None /\ running' = None
        /\ Indices' = Indices /\ settled' = settled /\ tokens' = tokens /\ main' = main /\ main # "settle"
        /\ callbacks' = [s \in Signals |-> {}]
    BY Zenon DEF HandlerInv, Final, UnderLock, Ending, mainVars, Indices
  <1>2. \A i \in Indices : calls'[i] = 1
    BY <1>1 DEF Final, Accounted, Live
  <1>3. calls' \in [Indices -> Nat]
    BY SMTT(30), <1>1 DEF Final, TypeOK
  <1>4. TypeOK'
    BY ZenonT(30), <1>1, <1>3 DEF TypeOK, Final, lockVars, mainVars
  <1>5. Accounted'
    BY Zenon, <1>1, <1>2 DEF Accounted, Live
  <1>6. None \notin Indices
    BY SMTT(30), <1>1, SignalAssumption DEF TypeOK, Indices
  <1>7. UnderLock' /\ CancelSettles'
    BY Zenon, <1>1, <1>2, <1>6 DEF HandlerInv, UnderLock, CancelSettles, Final, TypeOK
  <1>8. TokensRight' /\ Ending'
    BY Zenon, <1>1 DEF HandlerInv, TokensRight, Ending, Final, mainVars
  <1> QED BY Zenon, <1>4, <1>5, <1>7, <1>8 DEF HandlerInv

\* The other steps touch neither the map nor the calls.
LEMMA ControlKeeps ==
  ASSUME HandlerInv,
         \/ Start \/ Wake \/ CancelMissing \/ Stop \/ Join
         \/ Run \/ Loop \/ Process \/ Terminate \/ Done
         \/ \E s \in Signals \cup {Interrupt} : SigWait(s) \/ Raise(s)
  PROVE  HandlerInv'
  <1> USE DEF regVars, lockVars, mainVars, runVars
  <1>1. /\ batch' = batch /\ callbacks' = callbacks /\ calls' = calls /\ current_index' = current_index
        /\ settled' = settled /\ tokens' = tokens /\ Indices' = Indices
        /\ TypeOK /\ Accounted /\ UnderLock /\ TokensRight /\ Ending /\ CancelSettles
    BY Zenon DEF HandlerInv, Indices, Start, Wake, CancelMissing, Stop, Join, Run, Loop, Process, Terminate, Done,
           SigWait, Raise
  <1>2. Accounted'
    BY Zenon, <1>1 DEF Accounted, Live
  <1>3. TypeOK' /\ UnderLock' /\ TokensRight' /\ Ending' /\ CancelSettles'
    <2>1. CASE CancelMissing
      <3>1. \A s \in Signals : Head(tokens).index \notin callbacks[s]
        BY Zenon, <2>1, HeadToken DEF CancelMissing
      <3> QED BY ZenonT(30), <2>1, <3>1, <1>1, SignalAssumption
              DEF CancelMissing, TypeOK, UnderLock, TokensRight, Ending, CancelSettles
    <2>2. CASE Start \/ Wake
      <3>1. TypeOK'
        <4>1. CASE Start
          <5>1. handler = "new"
            BY Zenon, <4>1, <1>1 DEF Start, Ending
          <5> QED BY Zenon, <4>1, <5>1, <1>1 DEF Start, TypeOK
        <4>2. CASE Wake
          BY ZenonT(30), <4>2, <1>1 DEF Wake, TypeOK
        <4> QED BY Zenon, <2>2, <4>1, <4>2
      <3>2. UnderLock' /\ Ending'
        BY SMTT(30), <2>2, <1>1 DEF Start, Wake, TypeOK, UnderLock, Ending
      <3>3. TokensRight' /\ CancelSettles'
        BY Zenon, <2>2, <1>1 DEF Start, Wake, TokensRight, CancelSettles
      <3> QED BY Zenon, <3>1, <3>2, <3>3
    <2>8. CASE Stop \/ Join
      <3>1. TypeOK'
        BY ZenonT(30), <2>8, <1>1 DEF Stop, Join, TypeOK
      <3>2. UnderLock' /\ Ending'
        BY Zenon, <2>8, <1>1 DEF Stop, Join, TypeOK, UnderLock, Ending
      <3>3. TokensRight' /\ CancelSettles'
        BY Zenon, <2>8, <1>1 DEF Stop, Join, TokensRight, CancelSettles
      <3> QED BY Zenon, <3>1, <3>2, <3>3
    <2>3. CASE Run \/ Loop
      <3>1. TypeOK'
        BY Zenon, <2>3, <1>1 DEF Run, Loop, TypeOK
      <3>2. UnderLock' /\ Ending'
        BY Zenon, <2>3, <1>1 DEF Run, Loop, TypeOK, UnderLock, Ending
      <3>3. TokensRight' /\ CancelSettles'
        BY Zenon, <2>3, <1>1 DEF Run, Loop, TokensRight, CancelSettles
      <3> QED BY Zenon, <3>1, <3>2, <3>3
    <2>4. CASE Process \/ Done
      <3>1. TypeOK'
        BY ZenonT(30), <2>4, <1>1, SignalAssumption DEF Process, Done, TypeOK
      <3>2. UnderLock' /\ Ending'
        BY Zenon, <2>4, <1>1, SignalAssumption DEF Process, Done, TypeOK, UnderLock, Ending
      <3>3. TokensRight' /\ CancelSettles'
        BY Zenon, <2>4, <1>1, SignalAssumption DEF Process, Done, TokensRight, CancelSettles
      <3> QED BY Zenon, <3>1, <3>2, <3>3
    <2>5. CASE Terminate
      <3>1. None \notin Indices
        <4>1. current_index \in Nat
          BY Zenon, <1>1 DEF TypeOK
        <4> QED BY <4>1, SignalAssumption DEF Indices
      <3> QED BY ZenonT(30), <2>5, <3>1, <1>1 DEF Terminate, TypeOK, UnderLock, TokensRight, Ending, CancelSettles
    <2>6. CASE \E s \in Signals \cup {Interrupt} : SigWait(s)
      <3>1. TypeOK'
        BY ZenonT(30), <2>6, <1>1 DEF SigWait, TypeOK
      <3>2. UnderLock' /\ Ending'
        BY SMTT(30), <2>6, <1>1 DEF SigWait, TypeOK, UnderLock, Ending
      <3>3. TokensRight' /\ CancelSettles'
        BY ZenonT(30), <2>6, <1>1 DEF SigWait, TokensRight, CancelSettles
      <3> QED BY Zenon, <3>1, <3>2, <3>3
    <2>7. CASE \E s \in Signals \cup {Interrupt} : Raise(s)
      <3>1. TypeOK'
        BY SMTT(30), <2>7, <1>1, SignalAssumption DEF Raise, TypeOK
      <3>2. UnderLock' /\ Ending'
        BY SMTT(30), <2>7, <1>1, SignalAssumption DEF Raise, TypeOK, UnderLock, Ending
      <3>3. TokensRight' /\ CancelSettles'
        BY ZenonT(30), <2>7, <1>1, SignalAssumption DEF Raise, TokensRight, CancelSettles
      <3> QED BY Zenon, <3>1, <3>2, <3>3
    <2> QED BY Zenon, <2>1, <2>2, <2>3, <2>4, <2>5, <2>6, <2>7, <2>8
  <1> QED BY Zenon, <1>2, <1>3 DEF HandlerInv

\* Every step keeps the invariant.
LEMMA StepKeeps == HandlerInv /\ [Next]_vars => HandlerInv'
  <1> SUFFICES ASSUME HandlerInv, [Next]_vars
               PROVE  HandlerInv'
    BY Zenon
  <1>1. CASE \E s \in Signals : On(s)
    BY Zenon, <1>1, TokenKept DEF On
  <1>2. CASE \E s \in Signals : WaitFor(s)
    BY Zenon, <1>2, TokenKept DEF WaitFor
  <1>3. CASE \E s \in Signals : Ignore(s)
    BY Zenon, <1>3, IgnoreKeeps
  <1>4. CASE CancelFound
    BY Zenon, <1>4, CancelFoundKeeps
  <1>5. CASE Settle
    BY Zenon, <1>5, SettleKeeps
  <1>6. CASE Rearm
    BY Zenon, <1>6, RearmKeeps
  <1>7. CASE Move
    BY Zenon, <1>7, MoveKeeps
  <1>8. CASE \E i \in batch : Invoke(i)
    BY Zenon, <1>8, InvokeKeeps
  <1>9. CASE Final
    BY Zenon, <1>9, FinalKeeps
  <1>10. CASE \/ Start \/ Wake \/ CancelMissing \/ Stop \/ Join
              \/ Run \/ Loop \/ Process \/ Terminate \/ Done
              \/ \E s \in Signals \cup {Interrupt} : SigWait(s) \/ Raise(s)
    BY Zenon, <1>10, ControlKeeps
  <1>11. CASE UNCHANGED vars
    <2>1. /\ UNCHANGED <<pending, raised, callbacks, current_index, lock, process_lock, should_run, finalize>>
          /\ UNCHANGED <<main, tokens, settled, handler, signal, batch, running, calls>>
      BY ZenonT(30), <1>11 DEF vars, regVars, lockVars, mainVars, runVars
    <2>2. TypeOK'
      BY SMTT(30), <2>1 DEF HandlerInv, TypeOK, Indices
    <2>3. Accounted' /\ UnderLock'
      BY Zenon, <2>1 DEF HandlerInv, Indices, Accounted, Live, UnderLock
    <2>4. TokensRight' /\ Ending' /\ CancelSettles'
      BY Zenon, <2>1 DEF HandlerInv, TokensRight, Ending, CancelSettles
    <2> QED BY Zenon, <2>2, <2>3, <2>4 DEF HandlerInv
  <1> QED BY Zenon, <1>1, <1>2, <1>3, <1>4, <1>5, <1>6, <1>7, <1>8, <1>9, <1>10, <1>11 DEF Next, Main, Handler

\* The counting invariant of the handler holds in every reachable state.
THEOREM HandlerInvariant == Spec => []HandlerInv
  BY InitHolds, StepKeeps, PTL DEF Spec

\* Types, and the locks are held exactly where the code holds them.
THEOREM TypesHold == Spec => []TypeOK
  <1>1. HandlerInv => TypeOK
    BY ZenonT(30) DEF HandlerInv
  <1> QED BY <1>1, HandlerInvariant, PTL

\* A registration is called at most once, whether its signal, its
\* cancellation or the end of run() comes first.
THEOREM NeverCalledTwice == Spec => []CalledOnce
  <1>1. HandlerInv => CalledOnce
    BY SMTT(30) DEF HandlerInv, Accounted, CalledOnce
  <1> QED BY <1>1, HandlerInvariant, PTL

\* When run() has returned, every registration ever made was called.
THEOREM EveryRegistrationCalled == Spec => []AllCompleted
  <1>1. HandlerInv => AllCompleted
    BY Zenon DEF HandlerInv, Accounted, Live, UnderLock, Ending, AllCompleted
  <1> QED BY <1>1, HandlerInvariant, PTL

\* After cancel() has returned its callback was called and is not running.
THEOREM CancelWaits == Spec => []CancelSettles
  <1>1. HandlerInv => CancelSettles
    BY Zenon DEF HandlerInv
  <1> QED BY <1>1, HandlerInvariant, PTL

-----------------------------------------------------------------------------
(* PidFile *)

\* What the file and what was read of it can be.
PidTypes ==
  /\ pidfile \in Instances \cup {"none", "empty"}
  /\ stage \in [Instances -> {"off", "reading", "judging", "writing", "opened", "running", "refused", "over"}]
  /\ seen \in [Instances -> Instances \cup {"none", "empty"}]
  /\ rivals \in BOOLEAN /\ mangled \in BOOLEAN

\* A process id is in the file only once its instance has got that far.
Written(pid) == pid \in Instances => stage[pid] \in {"running", "over"}

\* One instance at most is starting; while it writes none is running, and
\* while it judges it has read the process id of the one that runs.
Exclusive ==
  /\ \A i, j \in Instances : stage[i] \in Starting /\ stage[j] \in Starting => i = j
  /\ \A i \in Instances : stage[i] = "running" => pidfile = i
  /\ \A i, j \in Instances : stage[i] = "running" =>
       /\ stage[j] \notin {"writing", "opened"}
       /\ stage[j] = "judging" => seen[j] = i
  /\ pidfile = "empty" /\ ~mangled => \E j \in Instances : stage[j] = "opened"

\* Nobody has read an empty file, unless the writer died.
Legible == \A j \in Instances : stage[j] = "judging" => seen[j] \in Instances \cup (IF mangled THEN {"empty"} ELSE {})

\* The inductive invariant of the pid file.
PidInv ==
  /\ PidTypes
  /\ Written(pidfile)
  /\ \A j \in Instances : stage[j] = "judging" => seen[j] # "none" /\ Written(seen[j])
  /\ ~rivals => Exclusive /\ Legible

\* It holds before the first instance starts ...
LEMMA PidStarts == PidInit => PidInv
  BY Zenon, PidAssumption DEF PidInit, PidInv, PidTypes, Written, Exclusive, Legible, Starting

\* ... and every step keeps it.
LEMMA PidSteps == PidInv /\ [PidNext]_pidVars => PidInv'
  <1> SUFFICES ASSUME PidInv, [PidNext]_pidVars
               PROVE  PidInv'
    BY Zenon
  <1> USE PidAssumption DEF PidInv, PidTypes, Goto
  <1>1. ASSUME NEW i \in Instances, Begin(i)
        PROVE  PidInv'
    <2>1. rivals' \in BOOLEAN /\ (~rivals' => ~rivals /\ \A j \in Instances : stage[j] \notin Starting)
      BY <1>1, Zenon DEF Begin
    <2>2. PidTypes'
      BY Zenon, <1>1, <2>1 DEF Begin
    <2>3. /\ Written(pidfile)'
          /\ \A j \in Instances : stage'[j] = "judging" => seen'[j] # "none" /\ Written(seen[j])'
      BY Zenon, <1>1 DEF Begin, Written
    <2>4. ~rivals' => Exclusive' /\ Legible'
      BY SMTT(30), <1>1, <2>1 DEF Begin, Exclusive, Legible, Starting
    <2> QED BY Zenon, <2>2, <2>3, <2>4
  <1>2. ASSUME NEW i \in Instances, ReadPid(i)
        PROVE  PidInv'
    BY SMTT(30), <1>2 DEF ReadPid, Written, Exclusive, Legible, Starting
  <1>3. ASSUME NEW i \in Instances, Judge(i)
        PROVE  PidInv'
    BY SMTT(30), <1>3 DEF Judge, Answers, Alive, Written, Exclusive, Legible, Starting
  <1>4. ASSUME NEW i \in Instances, OpenPid(i)
        PROVE  PidInv'
    BY SMTT(30), <1>4 DEF OpenPid, Written, Exclusive, Legible, Starting
  <1>5. ASSUME NEW i \in Instances, WritePid(i)
        PROVE  PidInv'
    BY SMTT(30), <1>5 DEF WritePid, Written, Exclusive, Legible, Starting
  <1>6. ASSUME NEW i \in Instances, Finish(i)
        PROVE  PidInv'
    BY SMTT(30), <1>6 DEF Finish, Written, Exclusive, Legible, Starting
  <1>7. ASSUME NEW i \in Instances, Die(i)
        PROVE  PidInv'
    <2>1. mangled' \in BOOLEAN /\ (~mangled' => ~mangled /\ stage[i] # "opened")
      BY <1>7, Zenon DEF Die
    <2>2. PidTypes'
      BY Zenon, <1>7, <2>1 DEF Die
    <2>3. /\ Written(pidfile)'
          /\ \A j \in Instances : stage'[j] = "judging" => seen'[j] # "none" /\ Written(seen[j])'
      BY Zenon, <1>7 DEF Die, Written
    <2>4. ~rivals' => Exclusive'
      BY <1>7, <2>1 DEF Die, Exclusive, Starting
    <2>5. mangled => mangled'
      BY <1>7, Zenon DEF Die
    <2>6. ~rivals' => Legible'
      BY ZenonT(30), <1>7, <2>5 DEF Die, Legible
    <2> QED BY Zenon, <2>2, <2>3, <2>4, <2>6
  <1>8. CASE UNCHANGED pidVars
    BY <1>8 DEF pidVars, Written, Exclusive, Legible, Starting
  <1> QED BY ZenonT(30), <1>1, <1>2, <1>3, <1>4, <1>5, <1>6, <1>7, <1>8 DEF PidNext

\* The invariant of the pid file holds in every reachable state.
THEOREM PidInvariant == PidSpec => []PidInv
  BY PidStarts, PidSteps, PTL DEF PidSpec

\* Instances that do not start at the same time exclude each other.
THEOREM InstancesExclude == PidSpec => []OneInstance
  <1>1. PidInv => OneInstance
    <2> SUFFICES ASSUME PidInv, ~rivals
                 PROVE  /\ \A i, j \in Instances : stage[i] = "running" /\ stage[j] = "running" => i = j
                        /\ \A i \in Instances : stage[i] = "running" => pidfile = i
      BY Zenon DEF OneInstance
    <2>1. \A i \in Instances : stage[i] = "running" => pidfile = i
      BY Zenon DEF PidInv, Exclusive
    <2> QED BY Zenon, <2>1
  <1> QED BY <1>1, PidInvariant, PTL

\* A file left by a crash keeps nobody from starting.
THEOREM CrashBlocksNobody == PidSpec => CrashDoesNotBlock
  <1>1. PidInv /\ [PidNext]_pidVars =>
          [\A i \in Instances : stage[i] = "judging" /\ stage'[i] = "refused" /\ ~rivals /\ ~mangled =>
             \E j \in Instances \ {i} : Alive(j)]_pidVars
    <2> SUFFICES ASSUME PidInv, PidNext, NEW i \in Instances,
                        stage[i] = "judging", stage'[i] = "refused", ~rivals, ~mangled
                 PROVE  \E j \in Instances \ {i} : Alive(j)
      BY Zenon
    <2>1. Answers(seen[i])
      BY ZenonT(30) DEF PidInv, PidTypes, PidNext, Begin, ReadPid, Judge, OpenPid, WritePid, Finish, Die, Goto
    <2>2. seen[i] \in Instances /\ stage[seen[i]] \in {"running", "over"}
      BY Zenon DEF PidInv, Legible, Written
    <2>3. Alive(seen[i]) /\ seen[i] # i
      BY Zenon, <2>1, <2>2, PidAssumption DEF Answers
    <2> QED BY Zenon, <2>2, <2>3
  <1> QED BY <1>1, PidInvariant, PTL DEF PidSpec, CrashDoesNotBlock

-----------------------------------------------------------------------------
(* EventAcl *)

\* What a node of the tree and a list of children may be.
Records == {NoNode, Garbage} \cup {Record(e) : e \in SUBSET Methods}
Lists == [subjects : SUBSET Subjects, odd : BOOLEAN]

\* What the variables hold.
AclTypeOK ==
  /\ tree \in [Subjects -> Records]
  /\ node_told \in [Subjects -> Records \cup {Unknown}]
  /\ nodes \in [Subjects -> Seq(Records)]
  /\ DOMAIN names_told = Scopes
  /\ names \in [Scopes -> Seq(Lists)]

\* What a watcher is to know of a subject whose last callback had this record.
Learnt(s, record) ==
  /\ record \in {Unknown, NoNode} => (s \in DOMAIN acl => acl[s] = {})
  /\ \A e \in SUBSET Methods : record = Record(e) => s \in DOMAIN acl /\ acl[s] = e

\* A subject: the last callback that is to come has the record last told, and
\* if none is to come it was learnt; nothing was told before the subscription.
Followed(s) ==
  /\ nodes[s] = <<>> => Learnt(s, node_told[s])
  /\ nodes[s] # <<>> => nodes[s][Len(nodes[s])] = node_told[s]
  /\ s \notin observers => node_told[s] = Unknown

\* A scope: likewise, and the children of a list that was heard are observed.
Watched(c) ==
  /\ names[c] = <<>> => \A list \in Lists :
       names_told[c] = <<"names", list>> /\ ~list.odd => list.subjects \subseteq observers
  /\ names[c] # <<>> => names_told[c] = <<"names", names[c][Len(names[c])]>>

\* The inductive invariant: as long as the observer lives, every subject is
\* followed and every scope watched.
AclInv ==
  /\ AclTypeOK
  /\ observer => (\A s \in Subjects : Followed(s)) /\ (\A c \in Scopes : Watched(c))

-----------------------------------------------------------------------------

\* A record is none of the other things a node may hold.
LEMMA RecordsDiffer ==
  /\ NoNode # Garbage /\ NoNode # Unknown /\ Garbage # Unknown /\ Unknown \notin Records
  /\ \A e : Record(e) \notin {NoNode, Garbage, Unknown} /\ Record(e)[2] = e
<1>1. NoNode # Garbage /\ NoNode # Unknown
  BY Zenon DEF NoNode, Garbage, Unknown
<1>2. Garbage # Unknown
  BY Zenon DEF Garbage, Unknown
<1>3. ASSUME NEW e PROVE Record(e) \notin {NoNode, Garbage, Unknown} /\ Record(e)[2] = e
  BY Zenon DEF Record, NoNode, Garbage, Unknown
<1>4. QED
  BY Zenon, <1>1, <1>2, <1>3 DEF Records

\* Nothing is known at the start.
LEMMA AclStart == AclInit => AclInv
<1> SUFFICES ASSUME AclInit PROVE AclInv
  BY Zenon
<1>1. tree \in [Subjects -> Records] /\ node_told \in [Subjects -> Records \cup {Unknown}] /\ DOMAIN names_told = Scopes
  BY Zenon DEF AclInit, Records
<1>2. nodes \in [Subjects -> Seq(Records)] /\ names \in [Scopes -> Seq(Lists)]
  <2>1. <<>> \in Seq(Records) /\ <<>> \in Seq(Lists)
    OBVIOUS
  <2>2. QED
    BY Zenon, <2>1 DEF AclInit
<1>3. ASSUME NEW s \in Subjects PROVE Followed(s)
  BY Zenon, RecordsDiffer DEF AclInit, Followed, Learnt
<1>4. ASSUME NEW c \in Scopes PROVE Watched(c)
  <2>1. \A list : Unknown # <<"names", list>>
    BY ZenonT(30) DEF Unknown
  <2>2. QED
    BY Zenon, <2>1 DEF AclInit, Watched
<1>5. QED
  BY Zenon, <1>1, <1>2, <1>3, <1>4 DEF AclInv, AclTypeOK

\* The children of a scope are a list.
LEMMA ChildrenList == ASSUME NEW c \in Scopes PROVE Children(c) \in Lists
  BY DEF Children, Lists

\* A step that leaves what was told and heard keeps the invariant.
LEMMA AclUntouched ==
  ASSUME AclInv, tree' \in [Subjects -> Records], 
         UNCHANGED <<acl, observer, observers, names_told, names, node_told, nodes>>
  PROVE  AclInv'
<1>1. AclTypeOK'
  BY Zenon DEF AclInv, AclTypeOK
<1>2. ASSUME NEW s \in Subjects, Followed(s) PROVE Followed(s)'
  BY Zenon, <1>2 DEF Followed, Learnt
<1>3. ASSUME NEW c \in Scopes, Watched(c) PROVE Watched(c)'
  BY Zenon, <1>3 DEF Watched
<1>4. QED
  BY Zenon, <1>1, <1>2, <1>3 DEF AclInv

\* Whoever edits the tree tells nobody yet.
LEMMA EditInv ==
  ASSUME AclInv, NEW s \in Subjects, NEW record \in Records, Edit(s, record)
  PROVE  AclInv'
<1>1. tree' \in [Subjects -> Records]
  BY Zenon DEF AclInv, AclTypeOK, Edit
<1>2. QED
  BY Zenon, <1>1, AclUntouched DEF Edit

\* Nor does a child whose name is no user id.
LEMMA MisnameInv ==
  ASSUME AclInv, NEW c \in Scopes, Misname(c)
  PROVE  AclInv'
<1>1. tree' \in [Subjects -> Records]
  BY Zenon DEF AclInv, AclTypeOK, Misname
<1>2. QED
  BY Zenon, <1>1, AclUntouched DEF Misname

\* A list that is told is the last one to be heard.
LEMMA TellNamesInv ==
  ASSUME AclInv, NEW c \in Scopes, TellNames(c)
  PROVE  AclInv'
<1> DEFINE list == Children(c)
<1>1. /\ names_told' = [names_told EXCEPT ![c] = <<"names", list>>]
      /\ names' = [names EXCEPT ![c] = Append(@, list)]
      /\ UNCHANGED <<tree, acl, observer, observers, node_told, nodes>> /\ observer
  BY Zenon DEF TellNames
<1>2. list \in Lists /\ names[c] \in Seq(Lists)
  BY Zenon, ChildrenList DEF AclInv, AclTypeOK
<1>3. Append(names[c], list) \in Seq(Lists) /\ Append(names[c], list) # <<>>
      /\ Append(names[c], list)[Len(Append(names[c], list))] = list
  <2> HIDE DEF list
  <2>1. QED
    BY <1>2
<1>4. AclTypeOK'
  BY Zenon, <1>1, <1>3 DEF AclInv, AclTypeOK
<1>5. ASSUME NEW s \in Subjects PROVE Followed(s)'
  BY Zenon, <1>1 DEF AclInv, Followed, Learnt
<1>6. ASSUME NEW d \in Scopes PROVE Watched(d)'
  <2>1. CASE d = c
    BY Zenon, <1>1, <1>3, <2>1 DEF AclInv, AclTypeOK, Watched
  <2>2. CASE d # c
    <3>1. names'[d] = names[d] /\ names_told'[d] = names_told[d]
      BY Zenon, <1>1, <2>2 DEF AclInv, AclTypeOK
    <3>2. QED
      BY Zenon, <1>1, <3>1 DEF AclInv, Watched
  <2>3. QED
    BY Zenon, <2>1, <2>2
<1>7. QED
  BY Zenon, <1>4, <1>5, <1>6 DEF AclInv

\* So is a record.
LEMMA TellNodeInv ==
  ASSUME AclInv, NEW s \in Subjects, TellNode(s)
  PROVE  AclInv'
<1>1. /\ node_told' = [node_told EXCEPT ![s] = tree[s]]
      /\ nodes' = [nodes EXCEPT ![s] = Append(@, tree[s])]
      /\ UNCHANGED <<tree, acl, observer, observers, names_told, names>> /\ s \in observers
  BY Zenon DEF TellNode
<1>2. tree[s] \in Records /\ tree[s] \in Records \cup {Unknown} /\ nodes[s] \in Seq(Records)
  BY Zenon DEF AclInv, AclTypeOK
<1>3. Append(nodes[s], tree[s]) \in Seq(Records) /\ Append(nodes[s], tree[s]) # <<>>
      /\ Append(nodes[s], tree[s])[Len(Append(nodes[s], tree[s]))] = tree[s]
  BY <1>2
<1>4. AclTypeOK'
  BY Zenon, <1>1, <1>2, <1>3 DEF AclInv, AclTypeOK
<1>5. ASSUME NEW t \in Subjects, Followed(t) PROVE Followed(t)'
  <2>1. CASE t = s
    BY Zenon, <1>1, <1>3, <2>1 DEF AclInv, AclTypeOK, Followed
  <2>2. CASE t # s
    <3>1. nodes'[t] = nodes[t] /\ node_told'[t] = node_told[t]
      BY Zenon, <1>1, <2>2 DEF AclInv, AclTypeOK
    <3>2. QED
      BY Zenon, <1>1, <1>5, <3>1 DEF Followed, Learnt
  <2>3. QED
    BY Zenon, <2>1, <2>2
<1>6. ASSUME NEW c \in Scopes, Watched(c) PROVE Watched(c)'
  BY Zenon, <1>1, <1>6 DEF Watched
<1>7. QED
  BY Zenon, <1>1, <1>4, <1>5, <1>6 DEF AclInv

\* What the first callback of several leaves: the last one is the same.
LEMMA LastOfTail ==
  ASSUME NEW S, NEW q \in Seq(S), q # <<>>
  PROVE  /\ Head(q) \in S /\ Tail(q) \in Seq(S)
         /\ Tail(q) = <<>> => Head(q) = q[Len(q)]
         /\ Tail(q) # <<>> => Tail(q)[Len(Tail(q))] = q[Len(q)]
<1>1. /\ Head(q) \in S /\ Head(q) = q[1] /\ Tail(q) \in Seq(S) /\ DOMAIN Tail(q) = 1..Len(q) - 1
      /\ \A i \in 1..Len(q) - 1 : Tail(q)[i] = q[i + 1]
  BY Zenon, HeadTail
<1>2. Len(q) \in Nat \ {0} /\ Len(Tail(q)) = Len(q) - 1
  OBVIOUS
<1>3. \A t \in Seq(S) : t = <<>> <=> Len(t) = 0
  OBVIOUS
<1>4. CASE Tail(q) = <<>>
  <2>1. Len(q) - 1 = 0
    BY Zenon, <1>1, <1>2, <1>3, <1>4
  <2>2. Len(q) = 1
    <3>1. \A n \in Nat : n - 1 = 0 => n = 1
      OBVIOUS
    <3>2. QED
      BY Zenon, <1>2, <2>1, <3>1
  <2>3. QED
    BY Zenon, <1>1, <1>4, <2>2
<1>5. CASE Tail(q) # <<>>
  <2>1. Len(q) - 1 # 0
    BY Zenon, <1>1, <1>2, <1>3, <1>5
  <2>2. Len(q) - 1 \in 1..Len(q) - 1 /\ (Len(q) - 1) + 1 = Len(q)
    BY <1>2, <2>1
  <2>3. QED
    BY Zenon, <1>1, <1>2, <1>5, <2>2
<1>6. QED
  BY Zenon, <1>1, <1>4, <1>5

\* on_change() begins to observe the children of the list it is called with.
LEMMA OnChangeInv ==
  ASSUME AclInv, NEW c \in Scopes, OnChange(c)
  PROVE  AclInv'
<1> DEFINE list == Head(names[c])
           fresh == IF list.odd THEN {} ELSE list.subjects
<1>1. /\ acl' = [s \in DOMAIN acl \cup fresh |-> IF s \in DOMAIN acl THEN acl[s] ELSE {}]
      /\ observers' = observers \cup fresh
      /\ names' = [names EXCEPT ![c] = Tail(@)]
      /\ names[c] # <<>>
      /\ UNCHANGED <<tree, observer, names_told, node_told, nodes>>
  BY Zenon DEF OnChange
<1>2. names[c] \in Seq(Lists)
  BY Zenon DEF AclInv, AclTypeOK
<1>3. /\ list \in Lists /\ Tail(names[c]) \in Seq(Lists)
      /\ Tail(names[c]) = <<>> => list = names[c][Len(names[c])]
      /\ Tail(names[c]) # <<>> => Tail(names[c])[Len(Tail(names[c]))] = names[c][Len(names[c])]
  BY Zenon, <1>1, <1>2, LastOfTail
<1> HIDE DEF list
<1>4. AclTypeOK'
  BY Zenon, <1>1, <1>3 DEF AclInv, AclTypeOK
<1>5. ASSUME NEW s \in Subjects, Followed(s) PROVE Followed(s)'
  <2>1. s \in DOMAIN acl => s \in DOMAIN acl' /\ acl'[s] = acl[s]
    BY Zenon, <1>1
  <2>2. s \notin DOMAIN acl /\ s \in DOMAIN acl' => acl'[s] = {}
    BY Zenon, <1>1
  <2> HIDE DEF fresh
  <2>3. ASSUME NEW record, Learnt(s, record) PROVE Learnt(s, record)'
    BY Zenon, <2>1, <2>2, <2>3 DEF Learnt
  <2>4. QED
    BY Zenon, <1>1, <1>5, <2>3 DEF Followed
<1>6. ASSUME NEW d \in Scopes, Watched(d) PROVE Watched(d)'
  <2>1. CASE d = c
    <3>1. names'[c] = Tail(names[c])
      BY Zenon, <1>1 DEF AclInv, AclTypeOK
    <3>2. names_told[c] = <<"names", names[c][Len(names[c])]>>
      BY Zenon, <1>1, <1>6, <2>1 DEF Watched
    <3>3. ASSUME NEW other \in Lists, names'[c] = <<>>, names_told[c] = <<"names", other>>, ~other.odd
          PROVE  other.subjects \subseteq observers'
      <4>1. other = names[c][Len(names[c])]
        BY <3>2, <3>3
      <4> other = list
        BY Zenon, <1>3, <3>1, <3>3, <4>1
      <4>2. QED
        BY ZenonT(30), <1>1, <3>3
    <3>4. QED
      BY Zenon, <1>1, <1>3, <2>1, <3>1, <3>2, <3>3 DEF Watched
  <2>2. CASE d # c
    <3>1. names'[d] = names[d] /\ observers \subseteq observers'
      BY Zenon, <1>1, <2>2 DEF AclInv, AclTypeOK
    <3>2. QED
      BY Zenon, <1>1, <1>6, <3>1 DEF Watched
  <2>3. QED
    BY Zenon, <2>1, <2>2
<1>7. QED
  BY Zenon, <1>1, <1>4, <1>5, <1>6 DEF AclInv

\* on_update() learns the record it is called with.
LEMMA OnUpdateInv ==
  ASSUME AclInv, NEW s \in Subjects, OnUpdate(s)
  PROVE  AclInv'
<1>0. PICK record : record = Head(nodes[s])
  BY Zenon
<1>1. /\ acl' = IF record = NoNode THEN [t \in DOMAIN acl \ {s} |-> acl[t]]
                ELSE IF record = Garbage THEN acl
                ELSE [t \in DOMAIN acl \cup {s} |-> IF t = s THEN record[2] ELSE acl[t]]
      /\ nodes' = [nodes EXCEPT ![s] = Tail(@)]
      /\ nodes[s] # <<>>
      /\ UNCHANGED <<tree, observer, observers, names_told, names, node_told>>
  BY Zenon, <1>0 DEF OnUpdate
<1>2. nodes[s] \in Seq(Records)
  BY Zenon DEF AclInv, AclTypeOK
<1>3. /\ record \in Records /\ Tail(nodes[s]) \in Seq(Records)
      /\ Tail(nodes[s]) = <<>> => record = nodes[s][Len(nodes[s])]
      /\ Tail(nodes[s]) # <<>> => Tail(nodes[s])[Len(Tail(nodes[s]))] = nodes[s][Len(nodes[s])]
  BY Zenon, <1>0, <1>1, <1>2, LastOfTail
<1>4. AclTypeOK'
  BY Zenon, <1>1, <1>3 DEF AclInv, AclTypeOK
<1>5. Learnt(s, record)'
  <2>1. CASE record = NoNode
    BY Zenon, <1>1, <2>1, RecordsDiffer DEF Learnt
  <2>2. CASE record = Garbage
    BY Zenon, <2>2, RecordsDiffer DEF Learnt
  <2>3. ASSUME NEW e \in SUBSET Methods, record = Record(e) PROVE Learnt(s, record)'
    <3>1. record[2] = e /\ record \notin {NoNode, Garbage, Unknown}
      BY Zenon, <2>3, RecordsDiffer
    <3>2. s \in DOMAIN acl' /\ acl'[s] = e
      BY Zenon, <1>1, <3>1
    <3>3. \A f \in SUBSET Methods : record = Record(f) => f = e
      BY Zenon, <3>1, RecordsDiffer
    <3>4. QED
      BY Zenon, <3>1, <3>2, <3>3 DEF Learnt
  <2>4. QED
    BY Zenon, <1>3, <2>1, <2>2, <2>3 DEF Records
<1>6. ASSUME NEW t \in Subjects, Followed(t) PROVE Followed(t)'
  <2>1. CASE t = s
    <3>1. nodes'[s] = Tail(nodes[s]) /\ node_told'[s] = node_told[s]
      BY Zenon, <1>1 DEF AclInv, AclTypeOK
    <3>2. node_told[s] = nodes[s][Len(nodes[s])]
      BY Zenon, <1>1, <1>6, <2>1 DEF Followed
    <3>3. QED
      BY Zenon, <1>1, <1>3, <1>5, <1>6, <2>1, <3>1, <3>2 DEF Followed
  <2>2. CASE t # s
    <3>1. nodes'[t] = nodes[t]
      BY Zenon, <1>1, <2>2 DEF AclInv, AclTypeOK
    <3>2. (t \in DOMAIN acl' <=> t \in DOMAIN acl) /\ (t \in DOMAIN acl => acl'[t] = acl[t])
      BY Zenon, <1>1, <2>2
    <3>3. QED
      BY Zenon, <1>1, <1>6, <3>1, <3>2 DEF Followed, Learnt
  <2>3. QED
    BY Zenon, <2>1, <2>2
<1>7. ASSUME NEW c \in Scopes, Watched(c) PROVE Watched(c)'
  BY Zenon, <1>1, <1>7 DEF Watched
<1>8. QED
  BY Zenon, <1>1, <1>4, <1>6, <1>7 DEF AclInv

\* Without the observer there is nothing to keep.
LEMMA CancelInv == AclInv /\ Cancel => AclInv'
<1> SUFFICES ASSUME AclInv, Cancel PROVE AclInv'
  BY Zenon
<1>1. <<>> \in Seq(Records) /\ <<>> \in Seq(Lists)
  OBVIOUS
<1>2. AclTypeOK'
  BY Zenon, <1>1 DEF AclInv, AclTypeOK, Cancel
<1>3. QED
  BY Zenon, <1>2 DEF AclInv, Cancel

\* While the observer lives, what is told and not yet heard is in a callback
\* that is to come, and the rest is in the list of rights (event.cpp, on_change
\* and on_update), for any subjects, scopes and methods.
THEOREM AclInvariant == AclSpec => []AclInv
<1>1. AclInit => AclInv
  BY Zenon, AclStart
<1>2. AclInv /\ [AclNext]_aclVars => AclInv'
  <2> SUFFICES ASSUME AclInv, [AclNext]_aclVars PROVE AclInv'
    BY Zenon
  <2>1. ASSUME NEW s \in Subjects, NEW record \in {NoNode, Garbage} \cup {Record(e) : e \in SUBSET Methods},
               Edit(s, record)
        PROVE  AclInv'
    BY Zenon, <2>1, EditInv DEF Records
  <2>2. ASSUME NEW c \in Scopes, Misname(c) \/ TellNames(c) \/ OnChange(c) PROVE AclInv'
    BY Zenon, <2>2, MisnameInv, TellNamesInv, OnChangeInv
  <2>3. ASSUME NEW s \in Subjects, TellNode(s) \/ OnUpdate(s) PROVE AclInv'
    BY Zenon, <2>3, TellNodeInv, OnUpdateInv
  <2>4. CASE UNCHANGED aclVars
    <3>1. tree' \in [Subjects -> Records] /\ UNCHANGED <<acl, observer, observers, names_told, names, node_told, nodes>>
      BY Zenon, <2>4 DEF aclVars, AclInv, AclTypeOK
    <3>2. QED
      BY Zenon, <3>1, AclUntouched
  <2>5. QED
    BY Zenon, <2>1, <2>2, <2>3, <2>4, CancelInv DEF AclNext
<1>3. QED
  BY <1>1, <1>2, PTL DEF AclSpec

\* Once the callbacks are through, a watcher grants what the tree grants.
LEMMA GrantsOfTree ==
  ASSUME AclInv, Settled, NEW s \in Subjects, tree[s] # Garbage, NEW event \in Methods
  PROVE  (s \in DOMAIN acl /\ event \in acl[s]) <=> (tree[s] # NoNode /\ event \in tree[s][2])
<1>1. Followed(s) /\ nodes[s] = <<>> /\ (s \in observers => node_told[s] = tree[s])
  BY Zenon DEF Settled, AclInv
<1>2. Learnt(s, node_told[s])
  BY Zenon, <1>1 DEF Followed
<1>3. CASE tree[s] = NoNode
  <2>1. node_told[s] \in {Unknown, NoNode}
    BY Zenon, <1>1, <1>3 DEF Followed
  <2>2. s \in DOMAIN acl => acl[s] = {}
    BY Zenon, <1>2, <2>1 DEF Learnt
  <2>3. QED
    BY Zenon, <1>3, <2>2
<1>4. CASE tree[s] # NoNode
  <2>1. PICK c \in Scopes : c = Scope[s]
    BY Zenon, AclAssumption
  <2>2. /\ names[c] = <<>> /\ names_told[c] = <<"names", Children(c)>> /\ Watched(c) /\ c \notin misnamed
    BY Zenon DEF Settled, AclInv
  <2>3. Children(c).subjects \subseteq observers
    <3>1. Children(c) \in Lists
      BY Zenon, ChildrenList
    <3>2. ~Children(c).odd
      BY Zenon, <2>2 DEF Children
    <3>3. QED
      BY Zenon, <2>2, <3>1, <3>2 DEF Watched
  <2>4. s \in Children(c).subjects
    BY Zenon, <1>4, <2>1 DEF Children
  <2>5. node_told[s] = tree[s]
    BY Zenon, <1>1, <2>3, <2>4
  <2>6. PICK e \in SUBSET Methods : tree[s] = Record(e)
    BY Zenon, <1>4 DEF AclInv, AclTypeOK, Records
  <2>7. s \in DOMAIN acl /\ acl[s] = e /\ tree[s][2] = e
    BY Zenon, <1>2, <2>5, <2>6, RecordsDiffer DEF Learnt
  <2>8. QED
    BY Zenon, <1>4, <2>7
<1>5. QED
  BY Zenon, <1>3, <1>4

\* Once the callbacks are through, ensure() lets an identity through exactly if
\* the records in the tree allow the event to all of its clients or to all of
\* its users, in whatever order the tree was edited and the callbacks ran.
THEOREM AuthorizationFollows == AclSpec => []AclFollowsTree
<1>1. AclInv => AclFollowsTree
  <2> SUFFICES ASSUME AclInv, Settled, NEW event \in Methods,
                      NEW who \in SUBSET {s \in Subjects : tree[s] # Garbage}
               PROVE  LET granted(scope) ==
                            LET ids == {s \in who : Scope[s] = scope}
                            IN  ids # {} /\ \A s \in ids : tree[s] # NoNode /\ event \in tree[s][2]
                      IN  /\ Ensure(event, who) = "ok" <=> \E c \in Scopes : granted(c)
                          /\ Ensure(event, who) = "unauthorized" <=> who = {}
    BY Zenon DEF AclFollowsTree
  <2> DEFINE of(scope) == {s \in who : Scope[s] = scope}
             granted(scope) == of(scope) # {} /\ \A s \in of(scope) : tree[s] # NoNode /\ event \in tree[s][2]
  <2>1. ASSUME NEW c \in Scopes PROVE AllowedFor(of(c), event) <=> granted(c)
    <3>1. \A s \in of(c) : s \in Subjects /\ tree[s] # Garbage
      BY Zenon
    <3>2. \A s \in of(c) : (s \in DOMAIN acl /\ event \in acl[s]) <=> (tree[s] # NoNode /\ event \in tree[s][2])
      BY Zenon, <3>1, GrantsOfTree
    <3>3. QED
      BY Zenon, <3>2 DEF AllowedFor
  <2>2. Ensure(event, who) = IF who = {} THEN "unauthorized"
                             ELSE IF AllowedFor(of("cids"), event) \/ AllowedFor(of("uids"), event) THEN "ok"
                             ELSE "permission_denied"
    BY Zenon DEF Ensure
  <2>3. who = {} => ~granted("cids") /\ ~granted("uids")
    BY Zenon
  <2>4. (granted("cids") \/ granted("uids")) <=> \E c \in Scopes : granted(c)
    BY Zenon DEF Scopes
  <2>5. (AllowedFor(of("cids"), event) \/ AllowedFor(of("uids"), event)) <=> (granted("cids") \/ granted("uids"))
    BY Zenon, <2>1 DEF Scopes
  <2>6. Ensure(event, who) = "unauthorized" <=> who = {}
    BY Zenon, <2>2
  <2>7. Ensure(event, who) = "ok" <=> \E c \in Scopes : granted(c)
    <3> HIDE DEF granted, of
    <3>1. QED
      BY Zenon, <2>2, <2>3, <2>4, <2>5
  <2>8. QED
    BY Zenon, <2>6, <2>7
<1>2. QED
  BY <1>1, AclInvariant, PTL

-----------------------------------------------------------------------------
(* Storage *)

\* The records that verifications write, and the jobs of the storage's thread.
Metas == {NoMeta} \cup {OwnedBy(Request[r].who) : r \in Requests}
JobSet == [kind : {"get", "put", "op"}, req : Requests, meta : Metas]

\* Where a request is while it waits in a job of this kind.
Stage(kind) == IF kind = "get" THEN "verifying" ELSE IF kind = "put" THEN "owning" ELSE "queued"

\* Request r waits in a job of q, and the requests of q wait in one job each.
Waits(q, r) == \E i \in DOMAIN q : q[i].req = r
Placed(q, ph) ==
  /\ \A i \in DOMAIN q : ph[q[i].req] = Stage(q[i].kind)
  /\ \A i, j \in DOMAIN q : q[i].req = q[j].req => i = j

\* A request is answered by answers one after the other.
AnswerList(answers) == \E S : answers \in Seq(S)

\* The part of the invariant about requests.
RequestInv ==
  /\ queue \in Seq(JobSet) /\ Placed(queue, phase)
  /\ phase = [r \in Requests |-> phase[r]]
  /\ reply = [r \in Requests |-> reply[r]] /\ \A r \in Requests : AnswerList(reply[r])

\* A write under way is at the head of the queue, and its object is linked
\* from every tag but those still to do.
InWrite ==
  LET job == Head(queue)
  IN  /\ queue # <<>> /\ IsWrite(job)
      /\ writing = <<writing[1]>> /\ writing[1] \in Seq(Names)
      /\ \A t \in Range(JobTags(job)) \ Range(writing[1]) : <<Path(job)[1], t, Path(job)[2]>> \in links

\* An object that was answered for is there and linked from its tags, and
\* links are in directories.
Linked ==
  /\ \A p \in StoredPaths : \A t \in acknowledged[p].tags : files[p] # Absent /\ <<p[1], t, p[2]>> \in links
  /\ \A c \in Collections, t \in Names, k \in Names : <<c, t, k>> \in links => <<c, t>> \in dirs

\* The part of the invariant about files.
FileInv ==
  /\ files = [p \in StoredPaths |-> files[p]] /\ acknowledged = [p \in StoredPaths |-> acknowledged[p]]
  /\ AnsweredPersists /\ Linked
  /\ writing # <<>> => InWrite

\* A record that is cached was stored since the last expiry.
CacheInv ==
  /\ cache = [c \in Names |-> cache[c]] /\ window = [c \in Names |-> window[c]]
  /\ \A c \in Names : /\ cache[c] = [meta |-> cache[c].meta, valid |-> cache[c].valid]
                      /\ cache[c].valid => cache[c].meta \in window[c]

\* The inductive invariant of the storage.
StorageInv == RequestInv /\ FileInv /\ CacheInv

-----------------------------------------------------------------------------
(* The queue *)

\* One more job.
LEMMA PlacedAdd ==
  ASSUME NEW q \in Seq(JobSet), NEW ph, ph = [r \in Requests |-> ph[r]], Placed(q, ph),
         NEW job \in JobSet, ~Waits(q, job.req)
  PROVE  Append(q, job) \in Seq(JobSet) /\ Placed(Append(q, job), [ph EXCEPT ![job.req] = Stage(job.kind)])
<1>1. /\ Append(q, job) \in Seq(JobSet) /\ DOMAIN Append(q, job) = DOMAIN q \cup {Len(q) + 1} /\ Len(q) + 1 \notin DOMAIN q
      /\ Append(q, job)[Len(q) + 1] = job /\ \A i \in DOMAIN q : Append(q, job)[i] = q[i]
  BY Appended
<1>2. PICK a, last, new : a = Append(q, job) /\ last = Len(q) + 1 /\ new = [ph EXCEPT ![job.req] = Stage(job.kind)]
  BY Zenon
<1>3. new[job.req] = Stage(job.kind) /\ \A r \in Requests : r # job.req => new[r] = ph[r]
  <2>1. job.req \in Requests
    BY Zenon DEF JobSet
  <2>2. QED
    BY Zenon, <1>2, <2>1
<1>4. \A i \in DOMAIN q : q[i].req # job.req /\ q[i].req \in Requests
  <2>1. \A i \in DOMAIN q : q[i] \in JobSet
    OBVIOUS
  <2>2. \A i \in DOMAIN q : q[i].req \in Requests
    BY Zenon, <2>1 DEF JobSet
  <2>3. QED
    BY Zenon, <2>2 DEF Waits
<1>5. ASSUME NEW i \in DOMAIN a PROVE new[a[i].req] = Stage(a[i].kind)
  <2>1. CASE i = last
    BY Zenon, <1>1, <1>2, <1>3, <2>1
  <2>2. CASE i \in DOMAIN q
    BY ZenonT(30), <1>1, <1>2, <1>3, <1>4, <2>2 DEF Placed
  <2>3. QED
    BY Zenon, <1>1, <1>2, <2>1, <2>2
<1>6. ASSUME NEW i \in DOMAIN a, NEW j \in DOMAIN a, a[i].req = a[j].req PROVE i = j
  BY Zenon, <1>1, <1>2, <1>4, <1>6 DEF Placed
<1>7. QED
  BY Zenon, <1>1, <1>2, <1>5, <1>6 DEF Placed

\* One job less, whose request waits in none then.
LEMMA PlacedOff ==
  ASSUME NEW q \in Seq(JobSet), q # <<>>, NEW ph, Placed(q, ph)
  PROVE  /\ Tail(q) \in Seq(JobSet) /\ Placed(Tail(q), ph) /\ ~Waits(Tail(q), Head(q).req)
         /\ Head(q) \in JobSet /\ ph[Head(q).req] = Stage(Head(q).kind)
<1>1. /\ Head(q) \in JobSet /\ Head(q) = q[1] /\ 1 \in DOMAIN q
      /\ Tail(q) \in Seq(JobSet) /\ DOMAIN Tail(q) = 1..Len(q) - 1
      /\ \A i \in 1..Len(q) - 1 : i + 1 \in DOMAIN q /\ Tail(q)[i] = q[i + 1]
  BY Zenon, HeadTail
<1>2. \A i, j \in 1..Len(q) - 1 : i + 1 # 1 /\ (i + 1 = j + 1 => i = j)
  OBVIOUS
<1>3. PICK t : t = Tail(q) /\ DOMAIN t = 1..Len(q) - 1 /\ \A i \in 1..Len(q) - 1 : i + 1 \in DOMAIN q /\ t[i] = q[i + 1]
  BY Zenon, <1>1
<1>4. Placed(t, ph)
  BY SMTT(30), <1>2, <1>3 DEF Placed
<1>5. ~Waits(t, q[1].req) /\ ph[q[1].req] = Stage(q[1].kind)
  BY <1>1, <1>2, <1>3 DEF Placed, Waits
<1>6. QED
  BY Zenon, <1>1, <1>3, <1>4, <1>5

\* What becomes of a request that waits in no job.
LEMMA PlacedFree ==
  ASSUME NEW q \in Seq(JobSet), NEW ph, ph = [r \in Requests |-> ph[r]], Placed(q, ph), NEW r, ~Waits(q, r), NEW w
  PROVE  Placed(q, [ph EXCEPT ![r] = w])
<1>1. \A i \in DOMAIN q : q[i] \in JobSet
  OBVIOUS
<1>2. \A i \in DOMAIN q : q[i].req \in Requests /\ q[i].req # r
  BY Zenon, <1>1 DEF JobSet, Waits
<1>3. QED
  BY Zenon, <1>2 DEF Placed

\* One more answer is the last one.
LEMMA LastAnswer ==
  ASSUME NEW answers, AnswerList(answers), NEW a
  PROVE  AnswerList(Append(answers, a)) /\ Append(answers, a)[Len(Append(answers, a))] = a
<1>1. PICK S : answers \in Seq(S)
  BY Zenon DEF AnswerList
<1>2. answers \in Seq(S \cup {a}) /\ a \in S \cup {a}
  BY <1>1
<1>3. PICK T : answers \in Seq(T) /\ a \in T
  BY Zenon, <1>2
<1>4. Append(answers, a) \in Seq(T) /\ Append(answers, a)[Len(Append(answers, a))] = a
  BY <1>3
<1>5. QED
  BY Zenon, <1>4 DEF AnswerList

\* A request is answered and waits no longer.
LEMMA AnswerKeeps ==
  ASSUME RequestInv, NEW q \in Seq(JobSet), Placed(q, phase), NEW r \in Requests, ~Waits(q, r), NEW a, Answer(r, a), queue' = q
  PROVE  RequestInv'
<1>1. /\ phase = [x \in Requests |-> phase[x]] /\ reply = [x \in Requests |-> reply[x]]
      /\ \A x \in Requests : AnswerList(reply[x])
  BY Zenon DEF RequestInv
<1>2. reply' = [reply EXCEPT ![r] = Append(reply[r], a)] /\ phase' = [phase EXCEPT ![r] = "done"]
  BY Zenon DEF Answer
<1>3. Placed(q, phase')
  BY Zenon, <1>1, <1>2, PlacedFree
<1>4. reply' = [x \in Requests |-> reply'[x]] /\ phase' = [x \in Requests |-> phase'[x]]
  BY Zenon, <1>1, <1>2
<1>5. ASSUME NEW x \in Requests PROVE AnswerList(reply'[x])
  <2>1. CASE x = r
    BY Zenon, <1>1, <1>2, <2>1, LastAnswer
  <2>2. CASE x # r
    BY Zenon, <1>1, <1>2, <2>2
  <2>3. QED
    BY Zenon, <2>1, <2>2
<1>6. QED
  BY Zenon, <1>3, <1>4, <1>5 DEF RequestInv

\* A request goes on in another job.
LEMMA JobKeeps ==
  ASSUME RequestInv, NEW q \in Seq(JobSet), Placed(q, phase), NEW job \in JobSet, ~Waits(q, job.req),
         queue' = Append(q, job), phase' = [phase EXCEPT ![job.req] = Stage(job.kind)], UNCHANGED reply
  PROVE  RequestInv'
<1>1. phase = [x \in Requests |-> phase[x]]
  BY Zenon DEF RequestInv
<1>2. queue' \in Seq(JobSet) /\ Placed(queue', phase')
  BY Zenon, <1>1, PlacedAdd
<1>3. phase' = [x \in Requests |-> phase'[x]]
  BY Zenon, <1>1
<1>4. QED
  BY Zenon, <1>2, <1>3 DEF RequestInv

\* Jobs of the three kinds.
LEMMA JobsOf ==
  ASSUME NEW r \in Requests
  PROVE  /\ \A kind \in {"get", "op"} : Job(kind, r, NoMeta) \in JobSet /\ Job(kind, r, NoMeta).req = r /\ Job(kind, r, NoMeta).kind = kind
         /\ Job("put", r, OwnedBy(Request[r].who)) \in JobSet
         /\ Job("put", r, OwnedBy(Request[r].who)).req = r /\ Job("put", r, OwnedBy(Request[r].who)).kind = "put"
<1>1. NoMeta \in Metas /\ OwnedBy(Request[r].who) \in Metas
  BY Zenon DEF Metas
<1>2. \A meta \in Metas, kind \in {"get", "put", "op"} :
        Job(kind, r, meta) \in JobSet /\ Job(kind, r, meta).req = r /\ Job(kind, r, meta).kind = kind
  BY Zenon DEF Job, JobSet
<1>3. QED
  BY Zenon, <1>1, <1>2

\* A request that a record lets through goes on in a job that follows those in
\* rest, as do all without a record; the others are refused.
GoesOn(r, meta, rest) ==
  \E job \in JobSet :
    /\ job.req = r /\ job.kind \in {"put", "op"} /\ queue' = Append(rest, job)
    /\ phase' = [phase EXCEPT ![r] = Stage(job.kind)] /\ UNCHANGED reply
    /\ meta = NoMeta \/ Allowed(meta, Request[r].who, Request[r].op)

\* A verification denies the request.
Rejected(r, rest) == queue' = rest /\ Answer(r, <<"error", "permission_denied">>)

\* on_metainfo() does the one or the other.
LEMMA MetainfoOutcome ==
  ASSUME NEW r \in Requests, NEW meta, NEW rest \in Seq(JobSet), OnMetainfo(r, meta, rest)
  PROVE  GoesOn(r, meta, rest) \/ Rejected(r, rest)
<1>1. \A job \in JobSet : rest \o <<job>> = Append(rest, job)
  OBVIOUS
<1>2. Stage("put") = "owning" /\ Stage("op") = "queued"
  BY Zenon DEF Stage
<1>3. PICK put, op \in JobSet : /\ put = Job("put", r, OwnedBy(Request[r].who)) /\ put.req = r /\ put.kind = "put"
                                /\ op = Job("op", r, NoMeta) /\ op.req = r /\ op.kind = "op"
  BY ZenonT(30), JobsOf
<1>4. CASE /\ meta = NoMeta
           /\ queue' = rest \o <<put>> /\ phase' = [phase EXCEPT ![r] = "owning"] /\ UNCHANGED reply
  BY Zenon, <1>1, <1>2, <1>3, <1>4 DEF GoesOn
<1>5. CASE /\ meta = NoMeta \/ Allowed(meta, Request[r].who, Request[r].op)
           /\ queue' = rest \o <<op>> /\ phase' = [phase EXCEPT ![r] = "queued"] /\ UNCHANGED reply
  BY Zenon, <1>1, <1>2, <1>3, <1>5 DEF GoesOn
<1>6. CASE Answer(r, <<"error", "permission_denied">>) /\ queue' = rest
  BY Zenon, <1>6 DEF Rejected
<1>7. QED
  BY ZenonT(30), <1>3, <1>4, <1>5, <1>6 DEF OnMetainfo

\* Requests stay in one job each, whatever a verification decides.
LEMMA MetainfoKeeps ==
  ASSUME RequestInv, NEW r \in Requests, NEW meta, NEW rest \in Seq(JobSet), Placed(rest, phase), ~Waits(rest, r),
         OnMetainfo(r, meta, rest)
  PROVE  RequestInv'
<1>1. CASE GoesOn(r, meta, rest)
  <2>1. PICK job \in JobSet : job.req = r /\ queue' = Append(rest, job) /\ phase' = [phase EXCEPT ![r] = Stage(job.kind)] /\ UNCHANGED reply
    BY Zenon, <1>1 DEF GoesOn
  <2>2. QED
    BY Zenon, <2>1, JobKeeps
<1>2. CASE Rejected(r, rest)
  BY Zenon, <1>2, AnswerKeeps DEF Rejected
<1>3. QED
  BY Zenon, <1>1, <1>2, MetainfoOutcome

\* The callback of the job at the head of the queue.
Continues(job) ==
  \E next \in JobSet :
    /\ job.kind = "put" /\ next.kind = "op" /\ next.req = job.req /\ queue' = Append(Tail(queue), next)
    /\ phase' = [phase EXCEPT ![job.req] = Stage("op")] /\ UNCHANGED reply

\* A callback answers its request.
Replies(job, answer) == queue' = Tail(queue) /\ Answer(job.req, answer)

\* The callback of a job either goes on with a verification or answers.
LEMMA CallbackOutcome ==
  ASSUME RequestInv, queue # <<>>, NEW ok, NEW answer, Callback(Head(queue), ok, answer)
  PROVE  /\ writing' = <<>> /\ RequestInv'
         /\ Continues(Head(queue)) \/ Replies(Head(queue), answer)
<1>1. PICK job, rest : job = Head(queue) /\ rest = Tail(queue)
  BY Zenon
<1>2. /\ rest \in Seq(JobSet) /\ Placed(rest, phase) /\ ~Waits(rest, job.req) /\ job \in JobSet
  BY Zenon, <1>1, PlacedOff DEF RequestInv
<1>3. job.req \in Requests /\ Stage("op") = "queued"
  BY Zenon, <1>2 DEF JobSet, Stage
<1>4. PICK next \in JobSet : next = Job("op", job.req, NoMeta) /\ next.req = job.req /\ next.kind = "op"
  BY ZenonT(30), <1>3, JobsOf
<1>5. CASE /\ job.kind = "put" /\ queue' = Append(rest, next)
           /\ phase' = [phase EXCEPT ![job.req] = "queued"] /\ UNCHANGED reply
  <2>1. RequestInv'
    BY ZenonT(30), <1>2, <1>3, <1>4, <1>5, JobKeeps
  <2>2. QED
    BY Zenon, <1>1, <1>3, <1>4, <1>5, <2>1 DEF Continues, Callback
<1>6. CASE queue' = rest /\ Answer(job.req, answer)
  <2>1. RequestInv'
    BY ZenonT(30), <1>2, <1>3, <1>6, AnswerKeeps
  <2>2. QED
    BY Zenon, <1>1, <1>6, <2>1 DEF Replies, Callback
<1>7. QED
  BY Zenon, <1>1, <1>4, <1>5, <1>6 DEF Callback

-----------------------------------------------------------------------------
(* The files *)

\* A step that leaves files alone while the write goes on ...
LEMMA FilesStay ==
  ASSUME FileInv, UNCHANGED <<fsVars, writing, torn, acknowledged>>,
         writing # <<>> => queue' # <<>> /\ Head(queue') = Head(queue)
  PROVE  FileInv'
<1>1. UNCHANGED <<files, dirs, links, writing, torn, acknowledged>>
  BY Zenon DEF fsVars
<1>2. Linked'
  BY Zenon, <1>1 DEF FileInv, Linked
<1>3. AnsweredPersists'
  BY Zenon, <1>1 DEF FileInv, AnsweredPersists
<1>4. writing' # <<>> => InWrite'
  BY Zenon, <1>1 DEF FileInv, InWrite
<1>5. QED
  BY ZenonT(30), <1>1, <1>2, <1>3, <1>4 DEF FileInv

\* ... or after it was given up, which leaves the object torn.
LEMMA FilesRest ==
  ASSUME FileInv, UNCHANGED <<fsVars, acknowledged>>, writing' = <<>>, torn \subseteq torn',
         writing # <<>> => Path(Head(queue)) \in torn'
  PROVE  FileInv'
<1>1. UNCHANGED <<files, dirs, links, acknowledged>>
  BY Zenon DEF fsVars
<1>2. Linked'
  BY Zenon, <1>1 DEF FileInv, Linked
<1>3. AnsweredPersists'
  BY Zenon, <1>1 DEF FileInv, AnsweredPersists
<1>4. QED
  BY Zenon, <1>1, <1>2, <1>3 DEF FileInv

\* The object of a job is at a path of the storage.
LEMMA PathOf ==
  ASSUME NEW job \in JobSet
  PROVE  /\ Path(job) \in StoredPaths /\ Path(job)[1] \in Collections /\ Path(job)[2] \in Names
         /\ Path(job) = <<Path(job)[1], Path(job)[2]>>
         /\ JobTags(job) \in Seq(Names) /\ (IsWrite(job) => Contents(job) # Absent)
<1>1. job.req \in Requests
  BY Zenon DEF JobSet
<1>2. PICK req : req = Request[job.req]
  BY Zenon
<1>3. /\ AclCollection \in Collections /\ AclTag \in Names /\ req.collection \in Collections /\ req.key \in Names
      /\ req.tags \in Seq(Names) /\ Subject(req) \in Names /\ (req.op = "write" => req.blob # Absent)
  BY ZenonT(30), <1>1, <1>2, StorageAssumption
<1>4. CASE job.kind = "put"
  <2>1. Path(job) = <<AclCollection, Subject(req)>> /\ JobTags(job) = <<AclTag>> /\ Contents(job) = Acl(job.meta)
    BY ZenonT(30), <1>2, <1>4 DEF Path, JobTags, Contents
  <2>2. Acl(job.meta) # Absent /\ <<AclTag>> \in Seq(Names)
    BY <1>3 DEF Acl, Absent
  <2>3. QED
    BY <1>3, <2>1, <2>2 DEF StoredPaths
<1>5. CASE job.kind # "put"
  <2>1. Path(job) = <<req.collection, req.key>> /\ JobTags(job) = req.tags /\ Contents(job) = req.blob
    BY Zenon, <1>2, <1>5 DEF Path, JobTags, Contents
  <2>2. IsWrite(job) => req.op = "write"
    BY Zenon, <1>2, <1>5 DEF IsWrite, Op
  <2>3. QED
    BY <1>3, <2>1, <2>2 DEF StoredPaths
<1>6. QED
  BY Zenon, <1>4, <1>5

\* A write that begins empties its file.
LEMMA OpenFiles ==
  ASSUME FileInv, NEW job \in JobSet, queue # <<>>, job = Head(queue), IsWrite(job), writing = <<>>,
         files' = [files EXCEPT ![Path(job)] = EmptyFile], writing' = <<JobTags(job)>>,
         UNCHANGED <<queue, dirs, links, torn, acknowledged>>
  PROVE  FileInv'
<1>1. PICK p, tags : p = Path(job) /\ tags = JobTags(job) /\ p \in StoredPaths /\ tags \in Seq(Names)
  BY Zenon, PathOf
<1>2. /\ files = [q \in StoredPaths |-> files[q]] /\ AnsweredPersists /\ Linked
  BY Zenon DEF FileInv
<1>3. files' = [q \in StoredPaths |-> files'[q]] /\ files'[p] = EmptyFile /\ \A q \in StoredPaths : q # p => files'[q] = files[q]
  BY Zenon, <1>1, <1>2
<1>4. writing' = <<tags>> /\ writing' # <<>> /\ writing'[1] = tags
  BY Zenon, <1>1
<1>5. InWrite'
  <2>1. Range(JobTags(job)) \ Range(writing'[1]) = {}
    BY Zenon, <1>1, <1>4
  <2>2. QED
    BY Zenon, <1>1, <1>4, <2>1 DEF InWrite
<1>6. AnsweredPersists'
  <2>1. ASSUME NEW q \in StoredPaths, q # p, q \notin torn PROVE files'[q] = acknowledged[q].contents
    BY Zenon, <1>2, <1>3, <2>1 DEF AnsweredPersists
  <2>2. QED
    BY Zenon, <1>1, <1>4, <2>1 DEF AnsweredPersists
<1>7. Linked'
  <2>1. EmptyFile # Absent
    BY Zenon DEF EmptyFile, Absent
  <2>2. ASSUME NEW q \in StoredPaths, NEW t \in acknowledged[q].tags PROVE files'[q] # Absent
    BY ZenonT(30), <1>2, <1>3, <2>1, <2>2 DEF Linked
  <2>3. QED
    BY Zenon, <1>2, <2>2 DEF Linked
<1>8. QED
  BY Zenon, <1>3, <1>5, <1>6, <1>7 DEF FileInv

\* One tag of a write is done.
LEMMA TagFiles ==
  ASSUME FileInv, queue \in Seq(JobSet), writing # <<>>, writing[1] # <<>>, UNCHANGED <<queue, files, torn, acknowledged>>,
         dirs' = dirs \cup {<<Path(Head(queue))[1], Head(writing[1])>>},
         links' = links \cup {<<Path(Head(queue))[1], Head(writing[1]), Path(Head(queue))[2]>>},
         writing' = <<Tail(writing[1])>>
  PROVE  FileInv'
<1>1. PICK job, p, tags : job = Head(queue) /\ p = Path(job) /\ tags = writing[1]
  BY Zenon
<1>2. /\ queue # <<>> /\ IsWrite(job) /\ tags \in Seq(Names) /\ tags # <<>> /\ job \in JobSet
      /\ \A t \in Range(JobTags(job)) \ Range(tags) : <<p[1], t, p[2]>> \in links
  <2>1. queue # <<>>
    BY Zenon DEF FileInv, InWrite
  <2>2. Head(queue) \in JobSet
    BY Zenon, <2>1, HeadTail
  <2>3. QED
    BY Zenon, <1>1, <2>1, <2>2 DEF FileInv, InWrite
<1>3. PICK t, rest : t = Head(tags) /\ rest = Tail(tags)
  BY Zenon
<1>4. rest \in Seq(Names) /\ Range(tags) = {t} \cup Range(rest)
  <2>1. Tail(tags) \in Seq(Names) /\ Range(tags) = {Head(tags)} \cup Range(Tail(tags))
    BY ZenonT(30), <1>2, HeadTail, RangeTail
  <2>2. QED
    BY Zenon, <1>3, <2>1 DEF Range
<1>5. writing' = <<rest>> /\ writing' # <<>> /\ writing'[1] = rest
  BY Zenon, <1>1, <1>3
<1>6. links' = links \cup {<<p[1], t, p[2]>>} /\ dirs' = dirs \cup {<<p[1], t>>}
  BY Zenon, <1>1, <1>3
<1>7. InWrite'
  <2>1. ASSUME NEW u \in Range(JobTags(job)) \ Range(rest) PROVE <<p[1], u, p[2]>> \in links'
    BY Zenon, <1>2, <1>4, <1>6
  <2>2. QED
    BY ZenonT(30), <1>1, <1>2, <1>4, <1>5, <2>1 DEF InWrite
<1>8. AnsweredPersists'
  BY Zenon, <1>5 DEF FileInv, AnsweredPersists
<1>9. Linked'
  <2>1. ASSUME NEW c \in Collections, NEW u \in Names, NEW k \in Names, <<c, u, k>> \in links' PROVE <<c, u>> \in dirs'
    <3>1. CASE <<c, u, k>> \in links
      BY Zenon, <1>6, <3>1 DEF FileInv, Linked
    <3>2. CASE <<c, u, k>> = <<p[1], t, p[2]>>
      BY Zenon, <1>6, <3>2
    <3>3. QED
      BY ZenonT(30), <1>6, <2>1, <3>1, <3>2
  <2>2. QED
    BY Zenon, <1>6, <2>1 DEF FileInv, Linked
<1>10. QED
  BY ZenonT(30), <1>7, <1>8, <1>9 DEF FileInv

\* A write is answered for: its object has its contents and all its links.
LEMMA CloseFiles ==
  ASSUME FileInv, queue \in Seq(JobSet), writing = <<<<>>>>, UNCHANGED <<dirs, links>>, writing' = <<>>,
         files' = [files EXCEPT ![Path(Head(queue))] = Contents(Head(queue))], torn' = torn \ {Path(Head(queue))},
         acknowledged' = [acknowledged EXCEPT ![Path(Head(queue))] =
                            [contents |-> Contents(Head(queue)), tags |-> Range(JobTags(Head(queue)))]]
  PROVE  FileInv'
<1>1. PICK job, p, now : /\ job = Head(queue) /\ p = Path(job)
                         /\ now = [contents |-> Contents(job), tags |-> Range(JobTags(job))]
  BY ZenonT(30)
<1>2. writing # <<>> /\ Range(writing[1]) = {}
  BY DEF Range
<1>3. /\ job \in JobSet /\ IsWrite(job) /\ \A t \in Range(JobTags(job)) : <<p[1], t, p[2]>> \in links
  <2>1. queue # <<>>
    BY Zenon, <1>2 DEF FileInv, InWrite
  <2>2. Head(queue) \in JobSet
    BY Zenon, <2>1, HeadTail
  <2>3. QED
    BY Zenon, <1>1, <1>2, <2>1, <2>2 DEF FileInv, InWrite
<1>4. p \in StoredPaths /\ Contents(job) # Absent
  BY ZenonT(30), <1>1, <1>3, PathOf
<1>5. now.contents = Contents(job) /\ now.tags = Range(JobTags(job))
  BY Zenon, <1>1
<1>6. /\ files = [q \in StoredPaths |-> files[q]] /\ acknowledged = [q \in StoredPaths |-> acknowledged[q]]
  BY Zenon DEF FileInv
<1>7. /\ files' = [q \in StoredPaths |-> files'[q]] /\ acknowledged' = [q \in StoredPaths |-> acknowledged'[q]]
      /\ files'[p] = Contents(job) /\ acknowledged'[p] = now
      /\ \A q \in StoredPaths : q # p => files'[q] = files[q] /\ acknowledged'[q] = acknowledged[q]
  BY Zenon, <1>1, <1>4, <1>6
<1>8. ASSUME NEW q \in StoredPaths, q \notin torn' PROVE files'[q] = acknowledged'[q].contents
  <2>1. CASE q = p
    BY ZenonT(30), <1>5, <1>7, <2>1
  <2>2. CASE q # p
    <3>1. q \notin torn /\ Path(Head(queue)) # q
      BY ZenonT(30), <1>1, <1>8, <2>2
    <3>2. QED
      BY ZenonT(30), <1>7, <2>2, <3>1 DEF FileInv, AnsweredPersists
  <2>3. QED
    BY Zenon, <2>1, <2>2
<1>9. ASSUME NEW q \in StoredPaths, NEW t \in acknowledged'[q].tags PROVE files'[q] # Absent /\ <<q[1], t, q[2]>> \in links
  <2>1. CASE q = p
    BY ZenonT(30), <1>3, <1>4, <1>5, <1>7, <1>9, <2>1
  <2>2. CASE q # p
    BY Zenon, <1>7, <1>9, <2>2 DEF FileInv, Linked
  <2>3. QED
    BY Zenon, <2>1, <2>2
<1>10. AnsweredPersists'
  BY Zenon, <1>8 DEF AnsweredPersists
<1>11. Linked'
  BY Zenon, <1>9 DEF FileInv, Linked
<1>12. QED
  BY Zenon, <1>7, <1>10, <1>11 DEF FileInv

\* An object is removed, or a tag without links.
LEMMA RemoveFiles ==
  ASSUME FileInv, NEW p \in StoredPaths, writing = <<>>, UNCHANGED links, writing' = <<>>, p \in dirs => InTag(p) = {},
         files' = [files EXCEPT ![p] = Absent], dirs' = dirs \ {p}, torn' = torn \ {p},
         acknowledged' = [acknowledged EXCEPT ![p] = [contents |-> Absent, tags |-> {}]]
  PROVE  FileInv'
<1>1. PICK now : now = [contents |-> Absent, tags |-> {}] /\ now.contents = Absent /\ now.tags = {}
  <2>1. PICK now : now = [contents |-> Absent, tags |-> {}]
    BY Zenon
  <2>2. now.contents = Absent /\ now.tags = {}
    BY Zenon, <2>1
  <2>3. QED
    BY Zenon, <2>1, <2>2
<1>2. /\ files = [q \in StoredPaths |-> files[q]] /\ acknowledged = [q \in StoredPaths |-> acknowledged[q]]
  BY Zenon DEF FileInv
<1>3. /\ files' = [q \in StoredPaths |-> files'[q]] /\ acknowledged' = [q \in StoredPaths |-> acknowledged'[q]]
      /\ files'[p] = Absent /\ acknowledged'[p] = now
      /\ \A q \in StoredPaths : q # p => files'[q] = files[q] /\ acknowledged'[q] = acknowledged[q]
  BY Zenon, <1>1, <1>2
<1>4. ASSUME NEW q \in StoredPaths, q \notin torn' PROVE files'[q] = acknowledged'[q].contents
  <2>1. CASE q = p
    BY Zenon, <1>1, <1>3, <2>1
  <2>2. CASE q # p
    BY Zenon, <1>3, <1>4, <2>2 DEF FileInv, AnsweredPersists
  <2>3. QED
    BY Zenon, <2>1, <2>2
<1>5. ASSUME NEW q \in StoredPaths, NEW t \in acknowledged'[q].tags PROVE files'[q] # Absent /\ <<q[1], t, q[2]>> \in links
  <2>1. q # p
    BY ZenonT(30), <1>1, <1>3, <1>5
  <2>2. QED
    BY Zenon, <1>3, <1>5, <2>1 DEF FileInv, Linked
<1>6. ASSUME NEW c \in Collections, NEW t \in Names, NEW k \in Names, <<c, t, k>> \in links PROVE <<c, t>> \in dirs'
  <2>1. <<c, t>> \in dirs
    BY Zenon, <1>6 DEF FileInv, Linked
  <2>2. CASE <<c, t>> = p
    <3>1. <<c, t, k>> \in InTag(p)
      BY Zenon, <1>6, <2>2 DEF InTag
    <3>2. QED
      BY ZenonT(30), <2>1, <2>2, <3>1
  <2>3. QED
    BY Zenon, <2>1, <2>2
<1>7. AnsweredPersists'
  BY Zenon, <1>4 DEF AnsweredPersists
<1>8. Linked'
  BY Zenon, <1>5, <1>6 DEF Linked
<1>9. QED
  BY Zenon, <1>3, <1>7, <1>8 DEF FileInv

\* Links to objects that do not exist are removed.
LEMMA FindFiles ==
  ASSUME FileInv, writing = <<>>, UNCHANGED <<files, dirs, torn, acknowledged>>, writing' = <<>>,
         links' \subseteq links, \A l \in links : Exists(l[1], l[3]) => l \in links'
  PROVE  FileInv'
<1>1. ASSUME NEW q \in StoredPaths, NEW t \in acknowledged[q].tags PROVE files[q] # Absent /\ <<q[1], t, q[2]>> \in links'
  <2>1. files[q] # Absent /\ <<q[1], t, q[2]>> \in links
    BY Zenon, <1>1 DEF FileInv, Linked
  <2>2. PICK l : l = <<q[1], t, q[2]>> /\ l[1] = q[1] /\ l[3] = q[2] /\ <<q[1], q[2]>> = q
    <3>1. PICK l : l = <<q[1], t, q[2]>>
      BY ZenonT(30)
    <3>2. l[1] = q[1] /\ l[3] = q[2] /\ <<q[1], q[2]>> = q
      BY <3>1 DEF StoredPaths
    <3>3. QED
      BY Zenon, <3>1, <3>2
  <2>3. Exists(l[1], l[3])
    BY Zenon, <2>1, <2>2 DEF Exists
  <2>4. QED
    BY Zenon, <2>1, <2>2, <2>3
<1>2. Linked'
  BY Zenon, <1>1 DEF FileInv, Linked
<1>3. AnsweredPersists'
  BY Zenon DEF FileInv, AnsweredPersists
<1>4. QED
  BY Zenon, <1>2, <1>3 DEF FileInv

-----------------------------------------------------------------------------
(* The cached records, and what a step says of answers and of rights *)

\* Records that are stored make none of those cached wrong.
LEMMA CacheStays ==
  ASSUME CacheInv, UNCHANGED cache, window' = [c \in Names |-> window'[c]], \A c \in Names : window[c] \subseteq window'[c]
  PROVE  CacheInv'
BY Zenon DEF CacheInv

\* A record is read and is the only one since; others are as they were.
LEMMA CacheRead ==
  ASSUME CacheInv, NEW c \in Names, NEW meta,
         cache' = [cache EXCEPT ![c] = [meta |-> meta, valid |-> TRUE]], window' = [window EXCEPT ![c] = {meta}]
  PROVE  CacheInv' /\ meta \in window'[c]
<1>1. PICK new : new = [meta |-> meta, valid |-> TRUE]
  BY Zenon
<1>2. new = [meta |-> new.meta, valid |-> new.valid] /\ new.meta = meta
  BY Zenon, <1>1
<1>3. cache = [x \in Names |-> cache[x]] /\ window = [x \in Names |-> window[x]]
  BY Zenon DEF CacheInv
<1>4. /\ cache' = [x \in Names |-> cache'[x]] /\ window' = [x \in Names |-> window'[x]]
      /\ cache'[c] = new /\ window'[c] = {meta}
      /\ \A x \in Names : x # c => cache'[x] = cache[x] /\ window'[x] = window[x]
  BY Zenon, <1>1, <1>3
<1>5. ASSUME NEW x \in Names
      PROVE  /\ cache'[x] = [meta |-> cache'[x].meta, valid |-> cache'[x].valid]
             /\ cache'[x].valid => cache'[x].meta \in window'[x]
  <2>1. CASE x = c
    BY ZenonT(30), <1>2, <1>4, <2>1
  <2>2. CASE x # c
    BY Zenon, <1>4, <2>2 DEF CacheInv
  <2>3. QED
    BY Zenon, <2>1, <2>2
<1>6. QED
  BY Zenon, <1>4, <1>5 DEF CacheInv

\* A record expires.
LEMMA CacheExpires ==
  ASSUME CacheInv, NEW c \in Names, NEW w,
         cache' = [cache EXCEPT ![c].valid = FALSE], window' = [window EXCEPT ![c] = w]
  PROVE  CacheInv'
<1>1. PICK old, new : old = cache[c] /\ new = [old EXCEPT !.valid = FALSE]
  BY Zenon
<1>2. old = [meta |-> old.meta, valid |-> old.valid]
  BY Zenon, <1>1 DEF CacheInv
<1>3. new = [meta |-> new.meta, valid |-> new.valid] /\ new.valid = FALSE
  BY Zenon, <1>1, <1>2
<1>4. cache = [x \in Names |-> cache[x]] /\ window = [x \in Names |-> window[x]]
  BY Zenon DEF CacheInv
<1>5. /\ cache' = [x \in Names |-> cache'[x]] /\ window' = [x \in Names |-> window'[x]]
      /\ cache'[c] = new /\ \A x \in Names : x # c => cache'[x] = cache[x] /\ window'[x] = window[x]
  BY Zenon, <1>1, <1>4
<1>6. ASSUME NEW x \in Names
      PROVE  /\ cache'[x] = [meta |-> cache'[x].meta, valid |-> cache'[x].valid]
             /\ cache'[x].valid => cache'[x].meta \in window'[x]
  <2>1. CASE x = c
    BY ZenonT(30), <1>3, <1>5, <2>1
  <2>2. CASE x # c
    BY Zenon, <1>5, <2>2 DEF CacheInv
  <2>3. QED
    BY Zenon, <2>1, <2>2
<1>7. QED
  BY Zenon, <1>5, <1>6 DEF CacheInv

\* No record is cached when the process starts.
LEMMA CacheStarts ==
  ASSUME NEW w, w = [c \in Names |-> w[c]], NEW k, k = [c \in Names |-> [meta |-> NoMeta, valid |-> FALSE]]
  PROVE  \A c \in Names : /\ k[c] = [meta |-> k[c].meta, valid |-> k[c].valid]
                          /\ k[c].valid => k[c].meta \in w[c]
<1>1. PICK new : new = [meta |-> NoMeta, valid |-> FALSE]
  BY Zenon
<1>2. new = [meta |-> new.meta, valid |-> new.valid] /\ new.valid = FALSE
  BY Zenon, <1>1
<1>3. QED
  BY Zenon, <1>1, <1>2

\* What find() answers r in a step is exact.
FoundAll(r) ==
  LET c == Request[r].collection
      asked == Range(Request[r].tags)
  IN  /\ \A k \in NewAnswer(r)[2] : Exists(c, k)
      /\ asked # {} => \A k \in Names :
           asked \subseteq acknowledged[<<c, k>>].tags /\ files[<<c, k>>] # Absent => k \in NewAnswer(r)[2]

\* What a step may say of a search: what it found is all there was to find.
FindStep == \A r \in Requests : AnsweredNow(r) /\ NewAnswer(r)[1] = "found" => FoundAll(r)

\* A request that goes on in a step may do so.
HasRight(r) ==
  \E meta \in window'[Subject(Request[r])] : meta = NoMeta \/ Allowed(meta, Request[r].who, Request[r].op)

\* What a step may let pass: only who has the right.
RightsStep ==
  \A r \in Requests : phase[r] \in {"new", "verifying"} /\ phase'[r] \in {"owning", "queued"} => HasRight(r)

\* An answer is the last one of its request and of no other.
LEMMA AnswerIs ==
  ASSUME RequestInv, NEW r \in Requests, NEW a, Answer(r, a)
  PROVE  NewAnswer(r) = a /\ \A x \in Requests : x # r => ~AnsweredNow(x)
<1>1. reply = [x \in Requests |-> reply[x]] /\ AnswerList(reply[r])
  BY Zenon DEF RequestInv
<1>2. reply'[r] = Append(reply[r], a) /\ \A x \in Requests : x # r => reply'[x] = reply[x]
  BY Zenon, <1>1 DEF Answer
<1>3. PICK new : new = Append(reply[r], a) /\ new[Len(new)] = a
  BY Zenon, <1>1, LastAnswer
<1>4. QED
  BY Zenon, <1>2, <1>3 DEF NewAnswer, AnsweredNow

\* Only find() answers with what was found.
LEMMA OtherAnswers ==
  ASSUME RequestInv, UNCHANGED reply \/ \E r \in Requests : \E a : Answer(r, a) /\ a[1] # "found"
  PROVE  FindStep
<1>1. CASE UNCHANGED reply
  BY Zenon, <1>1 DEF FindStep, AnsweredNow
<1>2. ASSUME NEW r \in Requests, NEW a, Answer(r, a), a[1] # "found" PROVE FindStep
  <2>1. NewAnswer(r) = a /\ \A x \in Requests : x # r => ~AnsweredNow(x)
    BY Zenon, <1>2, AnswerIs
  <2>2. QED
    BY Zenon, <1>2, <2>1 DEF FindStep
<1>3. QED
  BY Zenon, <1>1, <1>2

\* One request that goes on has the right to, if it asked for it in the step.
LEMMA OneMoves ==
  ASSUME RequestInv, NEW r \in Requests, NEW w, phase' = [phase EXCEPT ![r] = w],
         w = "done" \/ w = "verifying" \/ phase[r] \in {"owning", "queued"} \/ HasRight(r)
  PROVE  RightsStep
<1>1. phase = [x \in Requests |-> phase[x]]
  BY Zenon DEF RequestInv
<1>2. phase'[r] = w /\ \A x \in Requests : x # r => phase'[x] = phase[x]
  BY Zenon, <1>1
<1>3. ASSUME NEW x \in Requests, phase[x] \in {"new", "verifying"}, phase'[x] \in {"owning", "queued"} PROVE HasRight(x)
  <2>1. x = r
    BY Zenon, <1>2, <1>3
  <2>2. w # "done" /\ w # "verifying" /\ phase[r] \notin {"owning", "queued"}
    BY ZenonT(30), <1>2, <1>3, <2>1
  <2>3. QED
    BY Zenon, <2>1, <2>2
<1>4. QED
  BY Zenon, <1>3 DEF RightsStep

\* A callback lets no request on that had not got the right before.
LEMMA CallbackStep ==
  ASSUME RequestInv, queue # <<>>, Head(queue).kind \in {"put", "op"}, NEW ok, NEW answer, Callback(Head(queue), ok, answer)
  PROVE  RightsStep /\ (answer[1] # "found" => FindStep)
<1>1. PICK job : job = Head(queue)
  BY Zenon
<1>2. job \in JobSet /\ phase[job.req] = Stage(job.kind)
  BY ZenonT(30), <1>1, PlacedOff DEF RequestInv
<1>3. job.req \in Requests /\ phase[job.req] \in {"owning", "queued"}
  BY ZenonT(30), <1>1, <1>2 DEF JobSet, Stage
<1>4. CASE Continues(job)
  BY ZenonT(30), <1>3, <1>4, OneMoves, OtherAnswers DEF Continues
<1>5. CASE Replies(job, answer)
  <2>1. RightsStep
    BY ZenonT(30), <1>3, <1>5, OneMoves DEF Replies, Answer
  <2>2. QED
    BY ZenonT(30), <1>3, <1>5, <2>1, OtherAnswers DEF Replies
<1>6. QED
  BY ZenonT(30), <1>1, <1>4, <1>5, CallbackOutcome

\* A decision on a record lets a request on that has the right.
LEMMA MetainfoStep ==
  ASSUME RequestInv, NEW r \in Requests, NEW meta, NEW rest \in Seq(JobSet), OnMetainfo(r, meta, rest),
         meta \in window'[Subject(Request[r])]
  PROVE  RightsStep /\ FindStep
<1>1. CASE GoesOn(r, meta, rest)
  <2>1. HasRight(r) /\ UNCHANGED reply /\ \E w : phase' = [phase EXCEPT ![r] = w]
    BY Zenon, <1>1 DEF GoesOn, HasRight
  <2>2. QED
    BY ZenonT(30), <2>1, OneMoves, OtherAnswers
<1>2. CASE Rejected(r, rest)
  <2>1. PICK a : a = <<"error", "permission_denied">>
    BY Zenon
  <2>2. a[1] # "found"
    BY Zenon, <2>1
  <2>3. RightsStep
    BY ZenonT(30), <1>2, OneMoves DEF Rejected, Answer
  <2>4. QED
    BY ZenonT(30), <1>2, <2>1, <2>2, <2>3, OtherAnswers DEF Rejected
<1>3. QED
  BY ZenonT(30), <1>1, <1>2, MetainfoOutcome

\* Nothing is said where no request moves.
LEMMA NoneMoves ==
  ASSUME UNCHANGED reqVars
  PROVE  RightsStep /\ FindStep
<1>1. UNCHANGED <<phase, reply>>
  BY Zenon DEF reqVars
<1>2. QED
  BY Zenon, <1>1 DEF RightsStep, FindStep, AnsweredNow

-----------------------------------------------------------------------------
(* The steps *)

\* A request that waits is in one of the three stages.
LEMMA WaitsNot ==
  ASSUME RequestInv, NEW r \in Requests, phase[r] = "new"
  PROVE  ~Waits(queue, r)
<1>1. \A kind : Stage(kind) # "new"
  BY Zenon DEF Stage
<1>2. ASSUME NEW i \in DOMAIN queue, queue[i].req = r PROVE FALSE
  <2>1. phase[r] = Stage(queue[i].kind)
    BY Zenon, <1>2 DEF RequestInv, Placed
  <2>2. QED
    BY Zenon, <1>1, <2>1
<1>3. QED
  BY Zenon, <1>2 DEF Waits

\* A request is issued: its rights are looked up or cached.
LEMMA IssueStep ==
  ASSUME StorageInv, NEW r \in Requests, Issue(r)
  PROVE  StorageInv' /\ FindStep /\ RightsStep
<1>1. PICK c : c = Subject(Request[r]) /\ c \in Names
  BY Zenon, StorageAssumption
<1>2. /\ RequestInv /\ FileInv /\ CacheInv /\ queue \in Seq(JobSet) /\ Placed(queue, phase)
      /\ phase[r] = "new" /\ UNCHANGED <<fsVars, writing, cache, window, torn, acknowledged>>
  BY Zenon DEF StorageInv, RequestInv, Issue
<1>3. ~Waits(queue, r)
  BY Zenon, <1>2, WaitsNot
<1>4. CacheInv'
  BY Zenon, <1>2, CacheStays DEF CacheInv
<1>5. ASSUME queue' = queue \/ \E job \in JobSet : queue' = Append(queue, job) PROVE FileInv'
  <2>1. writing # <<>> => queue # <<>>
    BY ZenonT(30), <1>2 DEF FileInv, InWrite
  <2>2. queue # <<>> => \A job \in JobSet : Append(queue, job) # <<>> /\ Head(Append(queue, job)) = Head(queue)
    BY <1>2
  <2>3. writing # <<>> => queue' # <<>> /\ Head(queue') = Head(queue)
    <3>1. ASSUME NEW job \in JobSet, queue' = Append(queue, job), queue # <<>>
          PROVE  queue' # <<>> /\ Head(queue') = Head(queue)
      BY Zenon, <2>2, <3>1
    <3>2. QED
      BY ZenonT(30), <1>5, <2>1, <3>1
  <2>4. QED
    BY ZenonT(30), <1>2, <2>3, FilesStay
<1>6. CASE cache[c].valid /\ OnMetainfo(r, cache[c].meta, queue)
  <2>1. PICK meta : meta = cache[c].meta /\ meta \in window'[c]
    BY ZenonT(30), <1>1, <1>2, <1>6 DEF CacheInv
  <2>2. RightsStep /\ FindStep /\ RequestInv'
    BY ZenonT(30), <1>1, <1>2, <1>3, <1>6, <2>1, MetainfoStep, MetainfoKeeps
  <2>3. GoesOn(r, meta, queue) \/ Rejected(r, queue)
    BY ZenonT(30), <1>2, <1>6, <2>1, MetainfoOutcome
  <2>4. FileInv'
    BY Zenon, <1>5, <2>3 DEF GoesOn, Rejected
  <2>5. QED
    BY ZenonT(30), <1>4, <2>2, <2>4 DEF StorageInv
<1>7. CASE Post(<<Job("get", r, NoMeta)>>) /\ phase' = [phase EXCEPT ![r] = "verifying"] /\ UNCHANGED reply
  <2>1. PICK job \in JobSet : job = Job("get", r, NoMeta) /\ job.req = r /\ job.kind = "get"
    BY ZenonT(30), JobsOf
  <2>2. queue' = Append(queue, job)
    <3>1. queue \o <<job>> = Append(queue, job)
      BY <1>2
    <3>2. QED
      BY Zenon, <1>7, <2>1, <3>1 DEF Post
  <2>3. Stage("get") = "verifying"
    BY Zenon DEF Stage
  <2>4. RequestInv'
    BY ZenonT(30), <1>2, <1>3, <1>7, <2>1, <2>2, <2>3, JobKeeps
  <2>5. RightsStep /\ FindStep
    BY ZenonT(30), <1>2, <1>7, OneMoves, OtherAnswers
  <2>6. QED
    BY ZenonT(30), <1>4, <1>5, <2>2, <2>4, <2>5 DEF StorageInv
<1>8. QED
  BY ZenonT(30), <1>1, <1>6, <1>7 DEF Issue

\* A cached record expires.
LEMMA ExpireStep ==
  ASSUME StorageInv, NEW c \in Names, Expire(c)
  PROVE  StorageInv' /\ FindStep /\ RightsStep
<1>1. /\ cache' = [cache EXCEPT ![c].valid = FALSE] /\ window' = [window EXCEPT ![c] = {Stored(c)}]
      /\ UNCHANGED <<fsVars, queue, writing, reqVars, torn, acknowledged>>
  BY Zenon DEF Expire
<1>2. CacheInv'
  BY ZenonT(30), <1>1, CacheExpires DEF StorageInv
<1>3. RequestInv'
  BY Zenon, <1>1 DEF StorageInv, RequestInv, reqVars
<1>4. FileInv'
  <2>1. writing # <<>> => queue' # <<>> /\ Head(queue') = Head(queue)
    BY Zenon, <1>1 DEF StorageInv, FileInv, InWrite
  <2>2. QED
    BY ZenonT(30), <1>1, <2>1, FilesStay DEF StorageInv
<1>5. QED
  BY ZenonT(30), <1>1, <1>2, <1>3, <1>4, NoneMoves DEF StorageInv

\* The record of a collection is read.
LEMMA GetStep ==
  ASSUME StorageInv, RunGet
  PROVE  StorageInv' /\ FindStep /\ RightsStep
<1>1. PICK job, rest, r, c, f : /\ job = Head(queue) /\ rest = Tail(queue) /\ r = job.req /\ c = Subject(Request[r])
                                /\ f = ReadSync(<<AclCollection, c>>)
  BY Zenon
<1>2. /\ RequestInv /\ FileInv /\ CacheInv /\ writing = <<>> /\ queue # <<>>
      /\ UNCHANGED <<fsVars, writing, torn, acknowledged>>
  BY Zenon DEF StorageInv, RunGet, Idle
<1>3. rest \in Seq(JobSet) /\ Placed(rest, phase) /\ ~Waits(rest, r) /\ job \in JobSet
  BY ZenonT(30), <1>1, <1>2, PlacedOff DEF RequestInv
<1>4. r \in Requests
  BY Zenon, <1>1, <1>3 DEF JobSet
<1>5. c \in Names
  BY ZenonT(30), <1>1, <1>4, StorageAssumption
<1>6. FileInv'
  BY Zenon, <1>2, FilesStay
<1>7. ASSUME NEW meta, cache' = [cache EXCEPT ![c] = [meta |-> meta, valid |-> TRUE]],
             window' = [window EXCEPT ![c] = {meta}], OnMetainfo(r, meta, rest)
      PROVE  StorageInv' /\ FindStep /\ RightsStep
  <2>1. CacheInv' /\ meta \in window'[c]
    BY ZenonT(30), <1>2, <1>5, <1>7, CacheRead
  <2>2. RightsStep /\ FindStep /\ RequestInv'
    BY ZenonT(30), <1>1, <1>2, <1>3, <1>4, <1>7, <2>1, MetainfoStep, MetainfoKeeps
  <2>3. QED
    BY ZenonT(30), <1>6, <2>1, <2>2 DEF StorageInv
<1>8. CASE Answer(r, <<"error", "invalid_acl_framing">>) /\ queue' = rest /\ UNCHANGED <<cache, window>>
  <2>1. PICK a : a = <<"error", "invalid_acl_framing">>
    BY Zenon
  <2>2. a[1] # "found"
    BY Zenon, <2>1
  <2>3. FindStep /\ RequestInv'
    BY ZenonT(30), <1>2, <1>3, <1>4, <1>8, <2>1, <2>2, OtherAnswers, AnswerKeeps
  <2>4. RightsStep
    BY ZenonT(30), <1>2, <1>4, <1>8, OneMoves DEF Answer
  <2>5. CacheInv'
    BY ZenonT(30), <1>2, <1>8, CacheStays DEF CacheInv
  <2>6. QED
    BY ZenonT(30), <1>6, <2>3, <2>4, <2>5 DEF StorageInv
<1>9. QED
  BY ZenonT(30), <1>1, <1>7, <1>8 DEF RunGet

\* The job at the head of the queue.
LEMMA HeadJob ==
  ASSUME RequestInv, queue # <<>>
  PROVE  Head(queue) \in JobSet /\ Head(queue).req \in Requests
<1>1. Head(queue) \in JobSet
  BY Zenon, HeadTail DEF RequestInv
<1>2. QED
  BY Zenon, <1>1 DEF JobSet

\* A write opens its file.
LEMMA OpenStep ==
  ASSUME StorageInv, WriteOpen
  PROVE  StorageInv' /\ FindStep /\ RightsStep
<1>1. PICK job, p : job = Head(queue) /\ p = Path(job)
  BY Zenon
<1>2. /\ RequestInv /\ FileInv /\ CacheInv /\ writing = <<>> /\ queue # <<>> /\ job.kind \in {"put", "op"} /\ IsWrite(job)
      /\ UNCHANGED <<dirs, links, cache, window, torn, acknowledged>>
  BY Zenon, <1>1 DEF StorageInv, WriteOpen, Idle
<1>3. CacheInv'
  BY ZenonT(30), <1>2, CacheStays DEF CacheInv
<1>4. job \in JobSet
  BY ZenonT(30), <1>1, <1>2, HeadJob
<1>5. CASE Callback(job, FALSE, <<"error", "permission_denied">>) /\ UNCHANGED files
  <2>1. PICK a : a = <<"error", "permission_denied">>
    BY Zenon
  <2>2. a[1] # "found"
    BY Zenon, <2>1
  <2>3. writing' = <<>> /\ RequestInv' /\ RightsStep /\ FindStep
    BY ZenonT(30), <1>1, <1>2, <1>5, <2>1, <2>2, CallbackOutcome, CallbackStep
  <2>4. FileInv'
    BY ZenonT(30), <1>2, <1>5, <2>3, FilesRest DEF fsVars
  <2>5. QED
    BY ZenonT(30), <1>3, <2>3, <2>4 DEF StorageInv
<1>6. CASE files' = [files EXCEPT ![p] = EmptyFile] /\ writing' = <<JobTags(job)>> /\ UNCHANGED <<queue, reqVars>>
  <2>1. FileInv'
    BY ZenonT(30), <1>1, <1>2, <1>4, <1>6, OpenFiles
  <2>2. RequestInv'
    BY ZenonT(30), <1>2, <1>6 DEF RequestInv, reqVars
  <2>3. QED
    BY ZenonT(30), <1>3, <1>6, <2>1, <2>2, NoneMoves DEF StorageInv
<1>7. QED
  BY ZenonT(30), <1>1, <1>5, <1>6 DEF WriteOpen

\* A write links its object from one tag.
LEMMA TagStep ==
  ASSUME StorageInv, WriteTag
  PROVE  StorageInv' /\ FindStep /\ RightsStep
<1>1. PICK job, p : job = Head(queue) /\ p = Path(job)
  BY Zenon
<1>2. /\ RequestInv /\ FileInv /\ CacheInv /\ writing # <<>> /\ writing[1] # <<>>
      /\ UNCHANGED <<files, cache, window, acknowledged>>
  BY Zenon DEF StorageInv, WriteTag
<1>3. CacheInv'
  BY ZenonT(30), <1>2, CacheStays DEF CacheInv
<1>4. queue # <<>> /\ job.kind \in {"put", "op"}
  BY Zenon, <1>1, <1>2 DEF FileInv, InWrite, IsWrite
<1>5. CASE /\ dirs' = dirs \cup {<<p[1], Head(writing[1])>>} /\ links' = links \cup {<<p[1], Head(writing[1]), p[2]>>}
           /\ writing' = <<Tail(writing[1])>> /\ UNCHANGED <<queue, reqVars, torn>>
  <2>1. FileInv'
    BY ZenonT(30), <1>1, <1>2, <1>5, TagFiles DEF RequestInv
  <2>2. RequestInv'
    BY ZenonT(30), <1>2, <1>5 DEF RequestInv, reqVars
  <2>3. QED
    BY ZenonT(30), <1>3, <1>5, <2>1, <2>2, NoneMoves DEF StorageInv
<1>6. CASE Callback(job, FALSE, <<"error", "not_a_directory">>) /\ torn' = torn \cup {p} /\ UNCHANGED <<dirs, links>>
  <2>1. PICK a : a = <<"error", "not_a_directory">>
    BY Zenon
  <2>2. a[1] # "found"
    BY Zenon, <2>1
  <2>3. writing' = <<>> /\ RequestInv' /\ RightsStep /\ FindStep
    BY ZenonT(30), <1>1, <1>2, <1>4, <1>6, <2>1, <2>2, CallbackOutcome, CallbackStep
  <2>4. FileInv'
    BY ZenonT(30), <1>1, <1>2, <1>6, <2>3, FilesRest DEF fsVars
  <2>5. QED
    BY Zenon, <1>3, <2>3, <2>4 DEF StorageInv
<1>7. QED
  BY ZenonT(30), <1>1, <1>5, <1>6 DEF WriteTag

\* A write is done and answered.
LEMMA CloseStep ==
  ASSUME StorageInv, WriteClose
  PROVE  StorageInv' /\ FindStep /\ RightsStep
<1>1. PICK job, p : job = Head(queue) /\ p = Path(job)
  BY Zenon
<1>2. /\ RequestInv /\ FileInv /\ CacheInv /\ writing = <<<<>>>> /\ UNCHANGED <<dirs, links, cache>>
      /\ files' = [files EXCEPT ![p] = Contents(job)] /\ torn' = torn \ {p}
      /\ acknowledged' = [acknowledged EXCEPT ![p] = [contents |-> Contents(job), tags |-> Range(JobTags(job))]]
      /\ Callback(job, TRUE, <<"ok">>)
  BY ZenonT(30), <1>1 DEF StorageInv, WriteClose
<1>3. writing # <<>>
  BY Zenon, <1>2
<1>4. queue # <<>> /\ job.kind \in {"put", "op"} /\ job \in JobSet
  <2>1. queue # <<>> /\ job.kind \in {"put", "op"}
    BY ZenonT(30), <1>1, <1>2, <1>3 DEF FileInv, InWrite, IsWrite
  <2>2. QED
    BY ZenonT(30), <1>1, <1>2, <2>1, HeadJob
<1>5. PICK a : a = <<"ok">>
  BY Zenon
<1>6. a[1] # "found"
  BY Zenon, <1>5
<1>7. writing' = <<>> /\ RequestInv' /\ RightsStep /\ FindStep
  BY ZenonT(30), <1>1, <1>2, <1>4, <1>5, <1>6, CallbackOutcome, CallbackStep
<1>8. FileInv'
  BY ZenonT(30), <1>1, <1>2, <1>7, CloseFiles DEF RequestInv
<1>9. CacheInv'
  <2>1. window = [c \in Names |-> window[c]]
    BY Zenon, <1>2 DEF CacheInv
  <2>2. \/ UNCHANGED window
        \/ \E meta : window' = [window EXCEPT ![p[2]] = window[p[2]] \cup {meta}]
    BY Zenon, <1>1 DEF WriteClose
  <2>3. window' = [c \in Names |-> window'[c]] /\ \A c \in Names : window[c] \subseteq window'[c]
    BY ZenonT(30), <2>1, <2>2
  <2>4. QED
    BY ZenonT(30), <1>2, <2>3, CacheStays
<1>10. QED
  BY ZenonT(30), <1>7, <1>8, <1>9 DEF StorageInv

\* An object is read.
LEMMA ReadStep ==
  ASSUME StorageInv, RunRead
  PROVE  StorageInv' /\ FindStep /\ RightsStep
<1>1. /\ RequestInv /\ FileInv /\ CacheInv /\ writing = <<>> /\ queue # <<>> /\ Head(queue).kind \in {"op"}
      /\ UNCHANGED <<fsVars, cache, window, torn, acknowledged>>
  BY Zenon DEF StorageInv, RunRead, Idle
<1>2. PICK ok, f, a : Callback(Head(queue), ok, a) /\ (a = <<"error", "no_such_file">> \/ a = <<"value", f>>)
  BY Zenon DEF RunRead
<1>3. a[1] # "found"
  BY <1>2
<1>4. Head(queue).kind \in {"put", "op"}
  BY Zenon, <1>1
<1>5. writing' = <<>> /\ RequestInv' /\ RightsStep /\ FindStep
  BY ZenonT(30), <1>1, <1>2, <1>3, <1>4, CallbackOutcome, CallbackStep
<1>6. FileInv'
  BY Zenon, <1>1, <1>5, FilesRest
<1>7. CacheInv'
  BY ZenonT(30), <1>1, CacheStays DEF CacheInv
<1>8. QED
  BY Zenon, <1>5, <1>6, <1>7 DEF StorageInv

\* An object is removed, its links with it.
LEMMA RemoveStep ==
  ASSUME StorageInv, RunRemove
  PROVE  StorageInv' /\ FindStep /\ RightsStep
<1>1. PICK job, p : job = Head(queue) /\ p = Path(job)
  BY Zenon
<1>2. /\ RequestInv /\ FileInv /\ CacheInv /\ writing = <<>> /\ queue # <<>> /\ job.kind \in {"op"} /\ UNCHANGED <<links, cache>>
      /\ p \in dirs => InTag(p) = {}
      /\ files' = [files EXCEPT ![p] = Absent] /\ dirs' = dirs \ {p} /\ torn' = torn \ {p}
      /\ acknowledged' = [acknowledged EXCEPT ![p] = [contents |-> Absent, tags |-> {}]]
      /\ Callback(job, TRUE, <<"ok">>)
  BY Zenon, <1>1 DEF StorageInv, RunRemove, Idle
<1>3. p \in StoredPaths
  BY ZenonT(30), <1>1, <1>2, HeadJob, PathOf
<1>4. PICK a : a = <<"ok">>
  BY Zenon
<1>5. a[1] # "found" /\ job.kind \in {"put", "op"}
  BY Zenon, <1>2, <1>4
<1>6. writing' = <<>> /\ RequestInv' /\ RightsStep /\ FindStep
  BY ZenonT(30), <1>1, <1>2, <1>4, <1>5, CallbackOutcome, CallbackStep
<1>7. FileInv'
  BY ZenonT(30), <1>2, <1>3, <1>6, RemoveFiles
<1>8. CacheInv'
  <2>1. window = [c \in Names |-> window[c]]
    BY Zenon, <1>2 DEF CacheInv
  <2>2. \/ UNCHANGED window
        \/ \E meta : window' = [window EXCEPT ![p[2]] = window[p[2]] \cup {meta}]
    BY ZenonT(30), <1>1 DEF RunRemove
  <2>3. window' = [c \in Names |-> window'[c]] /\ \A c \in Names : window[c] \subseteq window'[c]
    BY Zenon, <2>1, <2>2
  <2>4. QED
    BY ZenonT(30), <1>2, <2>3, CacheStays
<1>9. QED
  BY Zenon, <1>6, <1>7, <1>8 DEF StorageInv

\* What a search passes over, looks at, removes and finds.
Missing(c, tags) == {i \in DOMAIN tags : ~Exists(c, tags[i])}

\* The tags a search comes to before one without a directory, the links it finds
\* dangling and removes, what is linked from all tags, and what it answers.
Seen(c, tags) == {tags[i] : i \in {i \in DOMAIN tags : \A j \in Missing(c, tags) : i < j}}
Dangling(c, tags) == {l \in links : l[1] = c /\ l[2] \in Seen(c, tags) /\ ~Exists(c, l[3])}
Listed(c, tags) == {k \in Names : \A t \in Range(tags) : <<c, t, k>> \in links \ Dangling(c, tags)}
Result(c, tags) == IF Missing(c, tags) # {} \/ tags = <<>> THEN {} ELSE Listed(c, tags)

\* A search finds objects that exist, and those that were answered for under
\* all its tags.
LEMMA ResultExact ==
  ASSUME FileInv, NEW c \in Collections, NEW tags \in Seq(Names)
  PROVE  /\ \A k \in Result(c, tags) : Exists(c, k)
         /\ Range(tags) # {} => \A k \in Names :
              Range(tags) \subseteq acknowledged[<<c, k>>].tags /\ files[<<c, k>>] # Absent => k \in Result(c, tags)
<1>1. Range(tags) = {tags[i] : i \in DOMAIN tags} /\ (tags # <<>> => 1 \in DOMAIN tags) /\ \A i \in DOMAIN tags : tags[i] \in Names
  BY DEF Range
<1>2. ASSUME NEW k \in Result(c, tags) PROVE Exists(c, k)
  <2>1. Missing(c, tags) = {} /\ tags # <<>> /\ k \in Listed(c, tags)
    BY Zenon, <1>2 DEF Result
  <2>2. 1 \in DOMAIN tags /\ tags[1] \in Range(tags) /\ tags[1] \in Seen(c, tags)
    BY Zenon, <1>1, <2>1 DEF Seen
  <2>3. PICK l : l = <<c, tags[1], k>>
    BY Zenon
  <2>4. l[1] = c /\ l[2] = tags[1] /\ l[3] = k
    BY Zenon, <2>3
  <2>5. l \in links /\ l \notin Dangling(c, tags)
    BY ZenonT(30), <2>1, <2>2, <2>3 DEF Listed
  <2>6. QED
    BY ZenonT(30), <2>2, <2>4, <2>5 DEF Dangling
<1>3. ASSUME Range(tags) # {}, NEW k \in Names, Range(tags) \subseteq acknowledged[<<c, k>>].tags, files[<<c, k>>] # Absent
      PROVE  k \in Result(c, tags)
  <2>1. PICK p : p = <<c, k>>
    BY Zenon
  <2>2. p \in StoredPaths /\ p[1] = c /\ p[2] = k
    BY Zenon, <2>1 DEF StoredPaths
  <2>3. ASSUME NEW t \in Range(tags) PROVE <<c, t, k>> \in links /\ <<c, t>> \in dirs /\ <<c, t, k>> \notin Dangling(c, tags)
    <3>1. t \in acknowledged[p].tags /\ t \in Names
      BY ZenonT(30), <1>1, <1>3, <2>1, <2>3
    <3>2. <<c, t, k>> \in links /\ <<c, t>> \in dirs
      BY ZenonT(30), <2>2, <3>1 DEF FileInv, Linked
    <3>3. PICK l : l = <<c, t, k>>
      BY Zenon
    <3>4. l[3] = k
      BY Zenon, <3>3
    <3>5. QED
      BY ZenonT(30), <1>3, <3>2, <3>3, <3>4 DEF Dangling, Exists
  <2>4. Missing(c, tags) = {}
    BY ZenonT(30), <1>1, <2>3 DEF Missing, Exists
  <2>5. tags # <<>>
    BY <1>1, <1>3
  <2>6. k \in Listed(c, tags)
    BY ZenonT(30), <2>3 DEF Listed
  <2>7. QED
    BY ZenonT(30), <2>4, <2>5, <2>6 DEF Result
<1>4. QED
  BY ZenonT(30), <1>2, <1>3

\* A search answers with what is there.
LEMMA RunFindStep ==
  ASSUME StorageInv, RunFind
  PROVE  StorageInv' /\ FindStep /\ RightsStep
<1>1. PICK job, r, c, tags : job = Head(queue) /\ r = job.req /\ c = Request[r].collection /\ tags = Request[r].tags
  BY Zenon
<1>2. /\ RequestInv /\ FileInv /\ CacheInv /\ writing = <<>> /\ queue # <<>> /\ job.kind \in {"op"}
      /\ UNCHANGED <<files, dirs, cache, window, torn, acknowledged>>
      /\ links' = links \ Dangling(c, tags) /\ Callback(job, TRUE, <<"found", Result(c, tags)>>)
  <2>1. /\ links' = links \ Dangling(Request[Head(queue).req].collection, Request[Head(queue).req].tags)
        /\ Callback(Head(queue), TRUE,
                    <<"found", Result(Request[Head(queue).req].collection, Request[Head(queue).req].tags)>>)
    BY Zenon DEF RunFind, Missing, Seen, Dangling, Listed, Result
  <2>2. QED
    BY ZenonT(30), <1>1, <2>1 DEF StorageInv, RunFind, Idle
<1>3. r \in Requests /\ c \in Collections /\ tags \in Seq(Names)
  <2>1. r \in Requests
    BY ZenonT(30), <1>1, <1>2, HeadJob
  <2>2. QED
    BY ZenonT(30), <1>1, <2>1, StorageAssumption
<1>4. PICK a : a = <<"found", Result(c, tags)>>
  BY Zenon
<1>5. a[2] = Result(c, tags) /\ job.kind \in {"put", "op"} /\ job.kind # "put"
  BY ZenonT(30), <1>2, <1>4
<1>6. writing' = <<>> /\ RequestInv' /\ RightsStep /\ Replies(job, a)
  BY ZenonT(30), <1>1, <1>2, <1>4, <1>5, CallbackOutcome, CallbackStep DEF Continues
<1>7. FindStep
  <2>1. NewAnswer(r) = a /\ \A x \in Requests : x # r => ~AnsweredNow(x)
    BY ZenonT(30), <1>1, <1>2, <1>3, <1>6, AnswerIs DEF Replies
  <2>2. FoundAll(r)
    <3>1. /\ \A k \in NewAnswer(r)[2] : Exists(c, k)
          /\ Range(tags) # {} => \A k \in Names :
               Range(tags) \subseteq acknowledged[<<c, k>>].tags /\ files[<<c, k>>] # Absent => k \in NewAnswer(r)[2]
      <4>1. NewAnswer(r)[2] = Result(c, tags)
        BY ZenonT(30), <1>5, <2>1
      <4>2. QED
        BY ZenonT(30), <1>2, <1>3, <4>1, ResultExact
    <3>2. QED
      BY Zenon, <1>1, <3>1 DEF FoundAll
  <2>3. QED
    BY ZenonT(30), <2>1, <2>2 DEF FindStep
<1>8. FileInv'
  <2>1. links' \subseteq links /\ \A l \in links : Exists(l[1], l[3]) => l \in links'
    BY Zenon, <1>2 DEF Dangling
  <2>2. QED
    BY ZenonT(30), <1>2, <1>6, <2>1, FindFiles
<1>9. CacheInv'
  BY ZenonT(30), <1>2, CacheStays DEF CacheInv
<1>10. QED
  BY ZenonT(30), <1>6, <1>7, <1>8, <1>9 DEF StorageInv

\* The process dies with what it did not write, and starts again.
LEMMA DeathStep ==
  ASSUME StorageInv, Death
  PROVE  StorageInv' /\ FindStep /\ RightsStep
<1>1. /\ RequestInv /\ FileInv /\ CacheInv /\ queue' = <<>> /\ writing' = <<>> /\ UNCHANGED <<fsVars, reply, window, acknowledged>>
      /\ cache' = [c \in Names |-> [meta |-> NoMeta, valid |-> FALSE]]
      /\ phase' = [r \in Requests |-> IF phase[r] \in {"verifying", "owning", "queued"} THEN "lost" ELSE phase[r]]
  BY Zenon DEF StorageInv, Death
<1>2. RequestInv'
  <2>1. queue' \in Seq(JobSet) /\ DOMAIN queue' = {}
    BY <1>1
  <2>2. QED
    BY ZenonT(30), <1>1, <2>1 DEF RequestInv, Placed
<1>3. FileInv'
  <2>1. torn \subseteq torn' /\ (writing # <<>> => Path(Head(queue)) \in torn')
    BY Zenon DEF Death
  <2>2. QED
    BY ZenonT(30), <1>1, <2>1, FilesRest
<1>4. CacheInv'
  <2>1. window' = [c \in Names |-> window'[c]]
    BY Zenon, <1>1 DEF CacheInv
  <2>2. \A c \in Names : cache'[c] = [meta |-> cache'[c].meta, valid |-> cache'[c].valid] /\ (cache'[c].valid => cache'[c].meta \in window'[c])
    BY ZenonT(30), <1>1, <2>1, CacheStarts
  <2>3. QED
    BY ZenonT(30), <1>1, <2>1, <2>2 DEF CacheInv
<1>5. FindStep
  BY ZenonT(30), <1>1, OtherAnswers
<1>6. RightsStep
  BY Zenon, <1>1 DEF RightsStep
<1>7. QED
  BY ZenonT(30), <1>2, <1>3, <1>4, <1>5, <1>6 DEF StorageInv

\* Nothing was answered for at the start.
LEMMA StorageStart ==
  ASSUME StorageInit(SUBSET Requests)
  PROVE  StorageInv
<1>1. /\ files = [p \in StoredPaths |-> Absent] /\ dirs = {} /\ links = {} /\ queue = <<>> /\ writing = <<>>
      /\ cache = [c \in Names |-> [meta |-> NoMeta, valid |-> FALSE]]
      /\ reply = [r \in Requests |-> <<>>] /\ window = [c \in Names |-> {NoMeta}] /\ torn = {}
      /\ acknowledged = [p \in StoredPaths |-> [contents |-> Absent, tags |-> {}]]
      /\ phase = [r \in Requests |-> phase[r]]
  BY Zenon DEF StorageInit
<1>2. RequestInv
  <2>1. queue \in Seq(JobSet) /\ DOMAIN queue = {} /\ <<>> \in Seq({})
    BY <1>1
  <2>2. QED
    BY ZenonT(30), <1>1, <2>1 DEF RequestInv, Placed, AnswerList
<1>3. FileInv
  <2>1. PICK now : now = [contents |-> Absent, tags |-> {}]
    BY Zenon
  <2>2. now.contents = Absent /\ now.tags = {}
    BY Zenon, <2>1
  <2>3. \A p \in StoredPaths : files[p] = acknowledged[p].contents /\ acknowledged[p].tags = {}
    BY ZenonT(30), <1>1, <2>1, <2>2
  <2>4. QED
    BY ZenonT(30), <1>1, <2>3 DEF FileInv, AnsweredPersists, Linked
<1>4. CacheInv
  <2>1. window = [c \in Names |-> window[c]]
    BY Zenon, <1>1
  <2>2. QED
    BY ZenonT(30), <1>1, <2>1, CacheStarts DEF CacheInv
<1>5. QED
  BY ZenonT(30), <1>2, <1>3, <1>4 DEF StorageInv

\* Every step keeps the invariant.
LEMMA StorageKeeps ==
  ASSUME StorageInv, [StorageNext]_storageVars
  PROVE  StorageInv'
<1>1. CASE StorageNext
  BY ZenonT(30), <1>1, IssueStep, ExpireStep, GetStep, OpenStep, TagStep, CloseStep, ReadStep, RemoveStep, RunFindStep, DeathStep
     DEF StorageNext, LoopRuns, Crash, Escapes
<1>2. CASE UNCHANGED storageVars
  BY Zenon, <1>2 DEF storageVars, fsVars, reqVars, StorageInv, RequestInv, FileInv, CacheInv, InWrite, Linked, AnsweredPersists
<1>3. QED
  BY ZenonT(30), <1>1, <1>2

\* Every step says what it may and lets pass whom it may.
LEMMA StorageSays ==
  ASSUME StorageInv, StorageNext
  PROVE  FindStep /\ RightsStep
BY ZenonT(30), IssueStep, ExpireStep, GetStep, OpenStep, TagStep, CloseStep, ReadStep, RemoveStep, RunFindStep, DeathStep
   DEF StorageNext, LoopRuns, Crash, Escapes

\* Requests wait in one job each, what was answered for is in its file and linked
\* from its tags, and cached records are records there were (files.cpp), for any
\* requests, collections, keys and tags.
THEOREM StorageInvariant == StorageSpec => []StorageInv
BY PTL, StorageStart, StorageKeeps DEF StorageSpec

\* Outside of a write under way and of paths where one failed half-way, every
\* object has the contents of the last write or remove that was answered, also
\* after searches that clean links up and after deaths of the process.
THEOREM AnswersLast == StorageSpec => []AnsweredPersists
<1>1. StorageInv => AnsweredPersists
  BY Zenon DEF StorageInv, FileInv
<1>2. QED
  BY PTL, <1>1, StorageInvariant

\* A search by tags answers with objects that exist, and with every object
\* whose last answered write had all the tags.
THEOREM SearchesExact == StorageSpec => FindExact
<1>1. ASSUME StorageInv, [StorageNext]_storageVars
      PROVE  [FindStep]_storageVars
  BY ZenonT(30), <1>1, StorageSays
<1>2. StorageSpec => [][FindStep]_storageVars
  BY PTL, <1>1, StorageInvariant DEF StorageSpec
<1>3. QED
  BY Zenon, <1>2 DEF FindExact, FindStep, FoundAll

\* A request goes on only if a record that allows it, or none, was stored at
\* some moment since the cached one was last out of date.
THEOREM RightsCurrent == StorageSpec => CurrentRights
<1>1. ASSUME StorageInv, [StorageNext]_storageVars
      PROVE  [RightsStep]_storageVars
  BY Zenon, <1>1, StorageSays
<1>2. StorageSpec => [][RightsStep]_storageVars
  BY PTL, <1>1, StorageInvariant DEF StorageSpec
<1>3. QED
  BY ZenonT(30), <1>2 DEF CurrentRights, RightsStep, HasRight
=============================================================================
