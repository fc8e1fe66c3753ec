--------------------------- MODULE SignalHandler ---------------------------
(***************************************************************************)
(* signal::handler_t and signal::engine_t as the runtime uses them: the    *)
(* main thread registers one-shot callbacks, starts the handler thread,    *)
(* waits for a terminating signal, cancels its registrations, stops the    *)
(* handler and joins it.  The handler thread takes pending signals one by  *)
(* one and runs their callbacks under process_lock; callbacks of recurrent *)
(* signals register themselves again from inside.                          *)
(***************************************************************************)
EXTENDS Integers, Sequences

CONSTANTS
  Recurrent,      \* signals with propagate_t callbacks (SIGHUP, SIGCHLD)
  Ignored,        \* signals with ignore_t callbacks (SIGPIPE)
  Terminal,       \* signals the main thread waits for (SIGINT, SIGTERM, SIGQUIT)
  Interrupt,      \* SIGCONT, which stop() sends to the process itself
  MaxRaise,       \* bound on the signals sent to the process
  None

Signals == Recurrent \cup Ignored \cup Terminal

ASSUME SignalAssumption ==
  /\ MaxRaise \in Nat
  /\ Interrupt \notin Signals
  /\ None \notin Nat \cup {"main", "handler"}

VARIABLES
  pending,        \* signals pending for the process (they do not queue)
  raised,         \* how many were sent
  callbacks,      \* registered_signal_callbacks: indices per signal
  current_index,  \* the next registration index
  lock,           \* who holds the lock of registered_signal_callbacks
  process_lock,   \* who holds process_lock
  should_run,
  finalize,       \* engine_t::finalize, set by a terminating callback
  tokens,         \* cancellations of the engine, in order of registration
  settled,        \* history: registrations whose cancel() has returned
  main,           \* what the main thread does next
  handler,        \* what the handler thread does next
  signal,         \* the signal it works on
  batch,          \* callbacks it has moved out of the map
  running,        \* the callback being executed by the handler thread
  calls           \* history: how often each registration was called

regVars == <<callbacks, current_index>>
lockVars == <<lock, process_lock>>
mainVars == <<main, tokens, settled>>
runVars == <<handler, signal, batch, running>>
vars == <<pending, raised, regVars, lockVars, should_run, finalize, mainVars, runVars, calls>>

Init ==
  /\ pending = {} /\ raised = 0
  /\ callbacks = [s \in Signals |-> {}]
  /\ current_index = 0
  /\ lock = None /\ process_lock = None
  /\ should_run \in BOOLEAN        \* not initialized by the constructor
  /\ finalize = FALSE
  /\ tokens = <<>> /\ settled = {}
  /\ main = "on"
  /\ handler = "new" /\ signal = None /\ batch = {} /\ running = None
  /\ calls = [i \in {} |-> 0]

-----------------------------------------------------------------------------

\* A signal is sent to the process.
Raise(s) ==
  /\ raised < MaxRaise
  /\ raised' = raised + 1
  /\ pending' = pending \cup {s}
  /\ UNCHANGED <<regVars, lockVars, should_run, finalize, mainVars, runVars, calls>>

Indices == 0..(current_index - 1)

\* async_wait(signum, callback), under the lock of the map.
Register(s) ==
  /\ lock = None
  /\ calls' = [i \in 0..current_index |-> IF i = current_index THEN 0 ELSE calls[i]]
  /\ callbacks' = [callbacks EXCEPT ![s] = @ \cup {current_index}]
  /\ current_index' = current_index + 1

Token(s) == [signum |-> s, index |-> current_index]

Registered == {tokens[k].signum : k \in DOMAIN tokens}

-----------------------------------------------------------------------------
(* The main thread *)

\* engine_t::on() for the recurrent signals, which keeps the token.
On(s) ==
  /\ main = "on" /\ s \in Recurrent \ Registered
  /\ Register(s)
  /\ tokens' = Append(tokens, Token(s))
  /\ UNCHANGED <<pending, raised, lockVars, should_run, finalize, main, settled, runVars>>

\* engine_t::ignore(), which drops the token.
Ignore(s) ==
  /\ main = "on" /\ Recurrent \subseteq Registered
  /\ s \in Ignored /\ callbacks[s] = {}
  /\ Register(s)
  /\ UNCHANGED <<pending, raised, lockVars, should_run, finalize, mainVars, runVars>>

\* engine_t::start() creates the handler thread.
Start ==
  /\ main = "on" /\ Recurrent \subseteq Registered
  /\ \A s \in Ignored : callbacks[s] # {}
  /\ main' = "wait_for" /\ handler' = "run"
  /\ UNCHANGED <<pending, raised, regVars, lockVars, should_run, finalize, tokens, settled, signal, batch, running, calls>>

\* engine_t::wait_for() registers the terminating callbacks ...
WaitFor(s) ==
  /\ main = "wait_for" /\ s \in Terminal \ Registered
  /\ Register(s)
  /\ tokens' = Append(tokens, Token(s))
  /\ UNCHANGED <<pending, raised, lockVars, should_run, finalize, main, settled, runVars>>

\* ... and blocks until one of them was called.
Wake ==
  /\ main = "wait_for" /\ Terminal \subseteq Registered
  /\ finalize
  /\ main' = "cancel"
  /\ UNCHANGED <<pending, raised, regVars, lockVars, should_run, finalize, tokens, settled, runVars, calls>>

Call(i) == calls' = [calls EXCEPT ![i] = @ + 1]

\* cancellation_t::cancel() of a callback that is still registered: it is
\* called with operation_canceled, on which every callback returns at once.
CancelFound ==
  /\ main = "cancel" /\ tokens # <<>> /\ lock = None
  /\ LET t == Head(tokens) IN
       /\ t.index \in callbacks[t.signum]
       /\ callbacks' = [callbacks EXCEPT ![t.signum] = @ \ {t.index}]
       /\ Call(t.index)
  /\ tokens' = Tail(tokens) /\ settled' = settled \cup {Head(tokens).index}
  /\ UNCHANGED <<pending, raised, current_index, lockVars, should_run, finalize, main, runVars>>

\* cancel() of a callback that was moved out of the map: with the lock of the
\* map held, the main thread goes for process_lock.
CancelMissing ==
  /\ main = "cancel" /\ tokens # <<>> /\ lock = None
  /\ Head(tokens).index \notin callbacks[Head(tokens).signum]
  /\ lock' = "main" /\ main' = "settle"
  /\ UNCHANGED <<pending, raised, regVars, process_lock, should_run, finalize, tokens, settled, runVars, calls>>

\* It gets process_lock, and releases both.
Settle ==
  /\ main = "settle" /\ process_lock = None
  /\ lock' = None /\ main' = "cancel"
  /\ tokens' = Tail(tokens) /\ settled' = settled \cup {Head(tokens).index}
  /\ UNCHANGED <<pending, raised, regVars, process_lock, should_run, finalize, runVars, calls>>

\* Mutant: the handler thread is not woken up.
StopSilently ==
  /\ main = "cancel" /\ tokens = <<>>
  /\ should_run' = FALSE
  /\ main' = "join"
  /\ UNCHANGED <<pending, raised, regVars, lockVars, finalize, tokens, settled, runVars, calls>>

\* handler_t::stop(), from the destructor of the engine.
Stop ==
  /\ main = "cancel" /\ tokens = <<>>
  /\ should_run' = FALSE
  /\ pending' = pending \cup {Interrupt}
  /\ main' = "join"
  /\ UNCHANGED <<raised, regVars, lockVars, finalize, tokens, settled, runVars, calls>>

Join ==
  /\ main = "join" /\ handler = "exited"
  /\ main' = "exit"
  /\ UNCHANGED <<pending, raised, regVars, lockVars, should_run, finalize, tokens, settled, runVars, calls>>

-----------------------------------------------------------------------------
(* The handler thread *)

\* run() starts.
Run ==
  /\ handler = "run"
  /\ should_run' = TRUE
  /\ handler' = "loop"
  /\ UNCHANGED <<pending, raised, regVars, lockVars, finalize, mainVars, signal, batch, running, calls>>

\* while(should_run || pending())
Loop ==
  /\ handler = "loop"
  /\ handler' = IF should_run \/ pending # {} THEN "sigwait" ELSE "final"
  /\ UNCHANGED <<pending, raised, regVars, lockVars, should_run, finalize, mainVars, signal, batch, running, calls>>

\* sigwaitinfo() returns one of the pending signals; the interrupt of stop()
\* is skipped.
SigWait(s) ==
  /\ handler = "sigwait" /\ s \in pending
  /\ pending' = pending \ {s}
  /\ IF s = Interrupt /\ ~should_run
       THEN handler' = "loop" /\ UNCHANGED signal
       ELSE handler' = "process" /\ signal' = s
  /\ UNCHANGED <<raised, regVars, lockVars, should_run, finalize, mainVars, batch, running, calls>>

Process ==
  /\ handler = "process" /\ process_lock = None
  /\ process_lock' = "handler"
  /\ handler' = "move"
  /\ UNCHANGED <<pending, raised, regVars, lock, should_run, finalize, mainVars, signal, batch, running, calls>>

\* Mutant: the callbacks are copied instead of moved.
MoveCopies ==
  /\ handler = "move" /\ lock = None
  /\ batch' = IF signal \in Signals THEN callbacks[signal] ELSE {}
  /\ handler' = "call"
  /\ UNCHANGED <<pending, raised, regVars, lockVars, should_run, finalize, mainVars, signal, running, calls>>

\* The callbacks of the signal are moved out of the map at one hop.
Move ==
  /\ handler = "move" /\ lock = None
  /\ IF signal \in Signals
       THEN /\ batch' = callbacks[signal]
            /\ callbacks' = [callbacks EXCEPT ![signal] = {}]
       ELSE UNCHANGED <<batch, callbacks>>
  /\ handler' = "call"
  /\ UNCHANGED <<pending, raised, current_index, lockVars, should_run, finalize, mainVars, signal, running, calls>>

\* The next callback of the batch starts.
Invoke(i) ==
  /\ handler = "call" /\ \A j \in batch : i <= j
  /\ Call(i)
  /\ batch' = batch \ {i} /\ running' = i
  /\ handler' = "callback"
  /\ UNCHANGED <<pending, raised, regVars, lockVars, should_run, finalize, mainVars, signal>>

\* engine_t::terminate()
Terminate ==
  /\ handler = "callback" /\ signal \in Terminal
  /\ finalize' = TRUE
  /\ handler' = "call" /\ running' = None
  /\ UNCHANGED <<pending, raised, regVars, lockVars, should_run, mainVars, signal, batch, calls>>

\* propagate_t and ignore_t wait for their signal again.
Rearm ==
  /\ handler = "callback" /\ signal \in Recurrent \cup Ignored
  /\ Register(signal)
  /\ handler' = "call" /\ running' = None
  /\ UNCHANGED <<pending, raised, lockVars, should_run, finalize, mainVars, signal, batch>>

\* The end of the iteration releases process_lock.
Done ==
  /\ handler = "call" /\ batch = {}
  /\ process_lock' = None
  /\ handler' = "loop" /\ signal' = None
  /\ UNCHANGED <<pending, raised, regVars, lock, should_run, finalize, mainVars, batch, running, calls>>

\* After the loop, every callback left is called with operation_canceled.
Final ==
  /\ handler = "final" /\ lock = None
  /\ callbacks' = [s \in Signals |-> {}]
  /\ calls' = [i \in Indices |-> IF \E s \in Signals : i \in callbacks[s]
                                   THEN calls[i] + 1 ELSE calls[i]]
  /\ handler' = "exited"
  /\ UNCHANGED <<pending, raised, current_index, lockVars, should_run, finalize, mainVars, signal, batch, running>>

-----------------------------------------------------------------------------

Main ==
  \/ \E s \in Signals : On(s) \/ Ignore(s) \/ WaitFor(s)
  \/ Start \/ Wake \/ CancelFound \/ CancelMissing \/ Settle \/ Stop \/ Join

Handler ==
  \/ Run \/ Loop \/ Process \/ Move \/ Terminate \/ Rearm \/ Done \/ Final
  \/ \E s \in Signals \cup {Interrupt} : SigWait(s)
  \/ \E i \in batch : Invoke(i)

Next == Main \/ Handler \/ \E s \in Signals \cup {Interrupt} : Raise(s)

Spec == Init /\ [][Next]_vars

\* Both threads are scheduled; the signals come or do not come.
FairSpec == Spec /\ WF_vars(Main) /\ WF_vars(Handler)

-----------------------------------------------------------------------------
(* Properties *)

\* Types; and process_lock is held exactly while callbacks are processed.
TypeOK ==
  /\ pending \in SUBSET (Signals \cup {Interrupt})
  /\ raised \in 0..MaxRaise
  /\ current_index \in Nat
  /\ callbacks \in [Signals -> SUBSET Indices]
  /\ lock \in {None, "main"}
  /\ process_lock \in {None, "handler"}
  /\ process_lock = "handler" <=> handler \in {"move", "call", "callback"}
  /\ lock = "main" <=> main = "settle"
  /\ should_run \in BOOLEAN /\ finalize \in BOOLEAN
  /\ tokens \in Seq([signum : Signals, index : Indices])
  /\ settled \in SUBSET Indices
  /\ main \in {"on", "wait_for", "cancel", "settle", "join", "exit"}
  /\ handler \in {"new", "run", "loop", "sigwait", "process", "move", "call", "callback", "final", "exited"}
  /\ signal \in Signals \cup {Interrupt, None}
  /\ batch \in SUBSET Indices
  /\ running \in Indices \cup {None}
  /\ calls \in [Indices -> Nat]

\* A registration is called at most once, by its signal, by its cancellation
\* or by the end of run(), however they race.
CalledOnce == \A i \in Indices : calls[i] <= 1

\* When run() has returned, every registration ever made has been called.
AllCompleted ==
  handler = "exited" => \A i \in Indices : calls[i] = 1

\* When cancel() has returned, its callback was called and the handler thread
\* is not executing it: what the wait for process_lock is there for ("to be
\* sure That we are not processing this callback right now").
CancelSettles == \A i \in settled : calls[i] = 1 /\ running # i

\* The two threads never wait for each other: the main thread inside cancel()
\* for process_lock, the handler thread, holding that, for the callback map.
NoDeadlock ==
  ~ /\ lock = "main"
    /\ process_lock = "handler"
    /\ handler = "move" \/ (handler = "callback" /\ signal \notin Terminal)

\* A terminating signal that finds its callback registered ends the process:
\* nothing but the two threads waiting for each other's lock can prevent it.
Terminates ==
  (main = "wait_for" /\ Terminal \subseteq Registered /\ pending \cap Terminal # {})
    ~> main = "exit" \/ ~NoDeadlock
=============================================================================
