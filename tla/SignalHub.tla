------------------------------ MODULE SignalHub ------------------------------
(***************************************************************************)
(* The context's signals: retroactive_signal keeps the events it was       *)
(* invoked with and replays them to whoever begins to listen, then posts   *)
(* every further event to the listener's own loop.  The hub only has weak  *)
(* references to the listeners' dispatches.                                *)
(***************************************************************************)
EXTENDS Integers, Sequences, SequencesExt

CONSTANTS
  Listeners,
  Slots,          \* listener -> the events its dispatch has slots for
  MaxInvokes      \* bound on the events

ASSUME HubAssumption == MaxInvokes \in Nat

VARIABLES
  history,        \* the events kept
  subscribers,    \* the listeners the hub knows
  posted,         \* listener -> events posted to its loop
  ran,            \* listener -> events its slots were run with
  lives,          \* listeners whose dispatch exists
  \* History
  fired,          \* every event so far
  since           \* listener -> how many had been fired when it began to listen

hubVars == <<history, subscribers, posted, ran, lives, fired, since>>

\* The messages of the context protocol.
Events == {"prepared", "shutdown", "os_signal", "exposed", "removed"}

HubInit(cast) ==
  /\ history = <<>> /\ subscribers = <<>>
  /\ posted = [l \in Listeners |-> <<>>] /\ ran = [l \in Listeners |-> <<>>]
  /\ lives = cast /\ fired = <<>>
  /\ since = [l \in Listeners |-> -1]

\* event_visitor: a dispatch without a slot for the event is left alone.
Heeded(l, events) == SelectSeq(events, LAMBDA e : e \in Slots[l])

\* listen(), under the mutex: what is in the history first.
Listen(l) ==
  /\ l \in lives /\ since[l] = -1
  /\ posted' = [posted EXCEPT ![l] = @ \o Heeded(l, history)]
  /\ subscribers' = Append(subscribers, l)
  /\ since' = [since EXCEPT ![l] = Len(fired)]
  /\ UNCHANGED <<history, ran, lives, fired>>

\* history_traits: signals of the operating system are not kept.
Kept(e) == IF e = "os_signal" THEN <<>> ELSE <<e>>

\* Mutant: the listener behind one that is gone is passed over.
InvokeSkipping(e) ==
  /\ Len(fired) < MaxInvokes
  /\ LET heard == {i \in DOMAIN subscribers :
                     /\ subscribers[i] \in lives
                     /\ i = 1 \/ subscribers[i - 1] \in lives}
     IN  posted' = [l \in Listeners |->
                      posted[l] \o IF \E i \in heard : subscribers[i] = l THEN Heeded(l, <<e>>) ELSE <<>>]
  /\ subscribers' = SelectSeq(subscribers, LAMBDA l : l \in lives)
  /\ history' = history \o Kept(e)
  /\ fired' = Append(fired, e)
  /\ UNCHANGED <<ran, lives, since>>

\* invoke(), under the mutex: listeners that are gone are forgotten.
Invoke(e) ==
  /\ Len(fired) < MaxInvokes
  /\ subscribers' = SelectSeq(subscribers, LAMBDA l : l \in lives)
  /\ posted' = [l \in Listeners |->
                  posted[l] \o IF Contains(subscribers', l) THEN Heeded(l, <<e>>) ELSE <<>>]
  /\ history' = history \o Kept(e)
  /\ fired' = Append(fired, e)
  /\ UNCHANGED <<ran, lives, since>>

\* async_visitor: the loop of a listener runs the slot if its dispatch is
\* still there.
RunPosted(l) ==
  /\ posted[l] # <<>>
  /\ posted' = [posted EXCEPT ![l] = Tail(@)]
  /\ ran' = IF l \in lives THEN [ran EXCEPT ![l] = Append(@, Head(posted[l]))] ELSE ran
  /\ UNCHANGED <<history, subscribers, lives, fired, since>>

\* The owner lets its dispatch go.
Release(l) ==
  /\ l \in lives
  /\ lives' = lives \ {l}
  /\ UNCHANGED <<history, subscribers, posted, ran, fired, since>>

HubNext ==
  \/ \E e \in Events : Invoke(e)
  \/ \E l \in Listeners : Listen(l) \/ RunPosted(l) \/ Release(l)

-----------------------------------------------------------------------------
Due(l) ==
  Heeded(l, FlattenSeq([i \in 1..since[l] |-> Kept(fired[i])]) \o SubSeq(fired, since[l] + 1, Len(fired)))

\* Whenever a listener joins, it gets every event it has a slot for exactly
\* once and in the order they were fired, those from before without signals
\* of the operating system; one that is let go gets a beginning of that.
EveryEventOnce ==
  \A l \in Listeners : since[l] >= 0 =>
    /\ IsPrefix(ran[l], Due(l))
    /\ l \in lives => ran[l] \o posted[l] = Due(l)
=============================================================================
