------------------------- MODULE TimerThreadProofs -------------------------
(***************************************************************************)
(* The safety properties of TimerThread hold for any number of timers, any *)
(* delays, and however long the clock and the clients go on.               *)
(***************************************************************************)
EXTENDS TimerThread, WellFoundedInduction, TLAPS

\* mHolder is where the heap says.
Holds ==
  \A t \in Timers : \A a \in Nat :
    a \in holder[t] <=> [timer |-> t, at |-> a] \in entries

\* No event under way is of an arming still to come.
NoFuture ==
  \A e \in hand \cup posted \cup firing : e.generation <= generation[e.timer]

\* Who is in the middle of a call has removed the timer, and nobody adds it.
Called == \A t \in Timers : call[t] # "none" => ~Queued(t)

\* The timer thread dispatches one event at a time.
HandOnce ==
  /\ thread # "dispatching" => hand = {}
  /\ \A e, other \in hand : e = other

\* What was turned away is nowhere.
LostMeans == \A t \in Timers : lost[t] => ~Queued(t) /\ ~Removed(t) /\ ~UnderWay(t)

\* Only Shutdown cancels timers on behalf of the timer thread.
StoppingLate == ~shutdown => stopping = {}

\* An event is not made before its time.
Early ==
  \A t \in Timers :
    /\ Queued(t) => promised[t] <= timeout[t]
    /\ Current(t) \in hand \cup posted => promised[t] <= now

\* An entry is for the timer's mTimeout, or later if that had passed.
Timely == \A e \in entries : timeout[e.timer] <= e.at

\* The wait ends in time also for the entries that were forgotten: an entry that
\* is put behind one of them does not wake the timer thread.
Times == holes \cup {e.at : e \in entries}
NoneOverslept ==
  thread = "waiting" /\ ~notified =>
    \A a \in Times : \E d \in deadline : d <= Later(a, now)

Places == Holds /\ Called /\ OneArming /\ NoFuture /\ HandOnce

IInv ==
  /\ TypeOK
  /\ Places
  /\ LostMeans /\ NeverForgotten /\ StoppingLate
  /\ Early /\ Timely
  /\ NoneOverslept

-----------------------------------------------------------------------------
(* The steps of Next, for the proofs by cases below. *)

\* The calls that begin with RemoveTimer.
Entering(t) ==
  \/ InitBegin(t) \/ CancelBegin(t) \/ SetDelayBegin(t) \/ ShutdownCancel(t)
  \/ \E e \in posted : e.timer = t /\ DiscardEvent(e)

\* The steps that leave the timers and their events as they are.
Quiet ==
  \/ \E t \in Timers : SetType(t)
  \/ StartWaiting \/ WakeUp \/ Leave \/ DoBeforeSleep \/ DoAfterSleep \/ Tick
  \/ UNCHANGED vars

\* Every step is one of these.
LEMMA Steps ==
  ASSUME TypeOK, [Next]_vars
  PROVE  \/ \E t \in Timers : Entering(t) \/ InitCommon(t) \/ CancelImpl(t) \/ SetDelay(t)
         \/ \E e \in posted : FireBegin(e)
         \/ \E e \in firing : FireEnd(e)
         \/ TakeFirst \/ Accepted \/ Refused
         \/ Shutdown
         \/ Quiet
<1>1. \A e \in posted : e.timer \in Timers
  BY DEF TypeOK, Event
<1> QED
  BY <1>1, Zenon DEF Next, Finishing, TargetStep, ThreadStep, Entering, Quiet

\* The values that steps assign have their types.
LEMMA LaterType ==
  ASSUME NEW a \in Nat, NEW b \in Nat
  PROVE  Later(a, b) \in Nat /\ Later(a, b) >= a /\ Later(a, b) >= b
  BY DEF Later

LEMMA AddTimerType ==
  ASSUME TypeOK, NEW t \in Timers, NEW when \in Nat, AddTimer(t, when)
  PROVE  /\ holder' \in [Timers -> SUBSET Nat]
         /\ entries' \in SUBSET Entry /\ holes' \in SUBSET Nat
         /\ notified' \in BOOLEAN /\ lost' \in [Timers -> BOOLEAN]
<1>1. Later(now, when) \in Nat
  BY LaterType DEF TypeOK
<1>2. lost' \in [Timers -> BOOLEAN]
  BY Zenon DEF TypeOK, AddTimer
<1>3. CASE shutdown
  BY <1>2, <1>3 DEF TypeOK, AddTimer, heap
<1>4. CASE ~shutdown
  <2>1. /\ entries' = entries \cup {[timer |-> t, at |-> Later(now, when)]}
        /\ holder' = [holder EXCEPT ![t] = {Later(now, when)}]
        /\ notified' = IF ComesFirst(Later(now, when)) THEN Awakened ELSE notified
        /\ holes' = holes
    BY <1>4, Zenon DEF AddTimer
  <2>2. entries' \in SUBSET Entry /\ holder' \in [Timers -> SUBSET Nat]
    BY <1>1, <2>1 DEF TypeOK, Entry
  <2>3. notified' \in BOOLEAN
    BY <2>1 DEF TypeOK, Awakened
  <2> QED
    BY <1>2, <2>1, <2>2, <2>3 DEF TypeOK
<1> QED
  BY <1>3, <1>4

LEMMA EnterType ==
  ASSUME TypeOK, NEW t \in Timers, NEW c \in {"init", "cancel", "delay", "readd"},
         Enter(t, c)
  PROVE  /\ call' \in [Timers -> {"none", "init", "cancel", "delay", "readd"}]
         /\ holder' \in [Timers -> SUBSET Nat]
         /\ entries' \in SUBSET Entry /\ holes' \in SUBSET Nat
         /\ notified' \in BOOLEAN
  BY DEF TypeOK, Enter, RemoveTimer, Forget, Awakened

-----------------------------------------------------------------------------
\* The type invariant is inductive by itself.  The Boolean variables are proved
\* apart from the others.
Flags ==
  /\ callback \in [Timers -> BOOLEAN] /\ lost \in [Timers -> BOOLEAN]
  /\ notified \in BOOLEAN /\ sleeping \in BOOLEAN /\ shutdown \in BOOLEAN
Numbers ==
  /\ generation \in [Timers -> Nat] /\ type \in [Timers -> Types]
  /\ delay \in [Timers -> Nat] /\ timeout \in [Timers -> Nat]
  /\ promised \in [Timers -> Nat]
  /\ now \in Nat /\ calls \in Nat
Heap ==
  /\ holder \in [Timers -> SUBSET Nat]
  /\ entries \in SUBSET Entry /\ holes \in SUBSET Nat
  /\ deadline \in SUBSET Nat
Flight ==
  /\ call \in [Timers -> {"none", "init", "cancel", "delay", "readd"}]
  /\ thread \in {"loop", "again", "dispatching", "waiting", "ended"}
  /\ hand \in SUBSET Event /\ posted \in SUBSET Event /\ firing \in SUBSET Event
  /\ stopping \in SUBSET Timers

LEMMA TypeParts == ASSUME Flags', Numbers', Heap', Flight' PROVE TypeOK'
  BY Zenon DEF TypeOK, Flags, Numbers, Heap, Flight

LEMMA TypeInit == Init => TypeOK
<1>1. [t \in Timers |-> FALSE] \in [Timers -> BOOLEAN]
  BY Zenon
<1>3. Init => Flags
  BY <1>1, Zenon DEF Init, Flags
<1>2. Init => Numbers /\ Heap /\ Flight
  BY DEF Init, Numbers, Heap, Flight, Types
<1> QED
  BY <1>2, <1>3, Zenon DEF TypeOK, Flags, Numbers, Heap, Flight

LEMMA TypeStep == TypeOK /\ [Next]_vars => TypeOK'
<1> SUFFICES ASSUME TypeOK, [Next]_vars PROVE TypeOK'
  OBVIOUS
<1>1. ASSUME NEW t \in Timers, Entering(t) PROVE TypeOK'
  <2>1. ASSUME InitBegin(t) PROVE TypeOK'
    <3>1. Flags'
      BY <2>1, EnterType DEF TypeOK, Flags, InitBegin, fields, Others, waiting
    <3>2. Numbers'
      BY <2>1, EnterType DEF TypeOK, Numbers, InitBegin, Count, fields, Others, waiting
    <3>3. Heap'
      BY <2>1, EnterType DEF TypeOK, Heap, InitBegin, Count, fields, Others, waiting
    <3>4. Flight'
      BY <2>1, EnterType DEF TypeOK, Flight, InitBegin, Count, fields, Others, waiting
    <3> QED
      BY <3>1, <3>2, <3>3, <3>4, TypeParts
  <2>2. ASSUME CancelBegin(t) PROVE TypeOK'
    <3>1. Flags'
      BY <2>2, EnterType DEF TypeOK, Flags, CancelBegin, fields, Others, waiting
    <3>2. Numbers'
      BY <2>2, EnterType DEF TypeOK, Numbers, CancelBegin, Count, fields, Others, waiting
    <3>3. Heap'
      BY <2>2, EnterType DEF TypeOK, Heap, CancelBegin, Count, fields, Others, waiting
    <3>4. Flight'
      BY <2>2, EnterType DEF TypeOK, Flight, CancelBegin, Count, fields, Others, waiting
    <3> QED
      BY <3>1, <3>2, <3>3, <3>4, TypeParts
  <2>3. ASSUME SetDelayBegin(t) PROVE TypeOK'
    <3>1. Flags'
      BY <2>3, EnterType DEF TypeOK, Flags, SetDelayBegin, fields, Others, waiting
    <3>2. Numbers'
      BY <2>3, EnterType DEF TypeOK, Numbers, SetDelayBegin, Count, fields, Others, waiting
    <3>3. Heap'
      BY <2>3, EnterType DEF TypeOK, Heap, SetDelayBegin, Count, fields, Others, waiting
    <3>4. Flight'
      BY <2>3, EnterType DEF TypeOK, Flight, SetDelayBegin, Count, fields, Others, waiting
    <3> QED
      BY <3>1, <3>2, <3>3, <3>4, TypeParts
  <2>4. ASSUME ShutdownCancel(t) PROVE TypeOK'
    <3>1. Flags'
      BY <2>4, EnterType DEF TypeOK, Flags, ShutdownCancel, fields, waiting
    <3>2. Numbers'
      BY <2>4, EnterType DEF TypeOK, Numbers, ShutdownCancel, fields, waiting
    <3>3. Heap'
      BY <2>4, EnterType DEF TypeOK, Heap, ShutdownCancel, fields, waiting
    <3>4. Flight'
      BY <2>4, EnterType DEF TypeOK, Flight, ShutdownCancel, fields, waiting
    <3> QED
      BY <3>1, <3>2, <3>3, <3>4, TypeParts
  <2>5. ASSUME NEW e \in posted, e.timer = t, DiscardEvent(e) PROVE TypeOK'
    <3>1. Flags'
      BY <2>5, EnterType DEF TypeOK, Flags, DiscardEvent, fields, Others, waiting
    <3>2. Numbers'
      BY <2>5, EnterType DEF TypeOK, Numbers, DiscardEvent, Count, fields, Others, waiting
    <3>3. Heap'
      BY <2>5, EnterType DEF TypeOK, Heap, DiscardEvent, Count, fields, Others, waiting
    <3>4. Flight'
      BY <2>5, EnterType DEF TypeOK, Flight, DiscardEvent, Count, fields, Others, waiting
    <3> QED
      BY <3>1, <3>2, <3>3, <3>4, TypeParts
  <2> QED
    BY <1>1, <2>1, <2>2, <2>3, <2>4, <2>5 DEF Entering
<1>2. ASSUME NEW t \in Timers, InitCommon(t) PROVE TypeOK'
  <2>1. PICK d \in Delays, y \in Types :
          /\ callback' = [callback EXCEPT ![t] = TRUE]
          /\ generation' = [generation EXCEPT ![t] = NextGeneration(t)]
          /\ type' = [type EXCEPT ![t] = y]
          /\ delay' = [delay EXCEPT ![t] = d]
          /\ timeout' = [timeout EXCEPT ![t] = now + d]
          /\ promised' = [promised EXCEPT ![t] = now + d]
          /\ AddTimer(t, now + d)
    BY <1>2, Zenon DEF InitCommon
  <2>2. d \in Nat /\ now + d \in Nat /\ NextGeneration(t) \in Nat
    BY DelaysAssumption DEF TypeOK, NextGeneration
  <2>3. callback' \in [Timers -> BOOLEAN]
    BY <2>1, Zenon DEF TypeOK
  <2>4. /\ generation' \in [Timers -> Nat] /\ type' \in [Timers -> Types]
        /\ delay' \in [Timers -> Nat] /\ timeout' \in [Timers -> Nat]
        /\ promised' \in [Timers -> Nat]
    BY <2>1, <2>2 DEF TypeOK
  <2> QED
    BY <1>2, <2>1, <2>2, <2>3, <2>4, AddTimerType DEF TypeOK, InitCommon, Others, waiting
<1>3. ASSUME NEW t \in Timers, CancelImpl(t) PROVE TypeOK'
  <2>1. callback' \in [Timers -> BOOLEAN] /\ lost' \in [Timers -> BOOLEAN]
    BY <1>3, Zenon DEF TypeOK, CancelImpl
  <2> QED
    BY <1>3, <2>1 DEF TypeOK, CancelImpl, NextGeneration, heap, Others, waiting
<1>4. ASSUME NEW t \in Timers, SetDelay(t) PROVE TypeOK'
  <2>1. PICK d \in Delays :
          /\ delay' = [delay EXCEPT ![t] = d]
          /\ timeout' = [timeout EXCEPT ![t] = now + d]
          /\ \/ /\ call[t] = "readd"
                /\ Readd(t, now + d)
                /\ promised' = [promised EXCEPT ![t] = now + d]
             \/ /\ call[t] = "delay"
                /\ promised' = [promised EXCEPT ![t] = 0]
                /\ UNCHANGED <<heap, notified, lost>>
    BY <1>4 DEF SetDelay
  <2>2. d \in Nat /\ now + d \in Nat
    BY DelaysAssumption DEF TypeOK
  <2>3. /\ delay' \in [Timers -> Nat] /\ timeout' \in [Timers -> Nat]
        /\ promised' \in [Timers -> Nat]
    BY <2>1, <2>2 DEF TypeOK
  <2>4. /\ holder' \in [Timers -> SUBSET Nat]
        /\ entries' \in SUBSET Entry /\ holes' \in SUBSET Nat
        /\ notified' \in BOOLEAN /\ lost' \in [Timers -> BOOLEAN]
    BY <2>1, <2>2, AddTimerType DEF TypeOK, Readd, heap
  <2> QED
    BY <1>4, <2>3, <2>4 DEF TypeOK, SetDelay, Others, waiting
<1>5. ASSUME NEW e \in posted, FireBegin(e) PROVE TypeOK'
  BY <1>5 DEF TypeOK, FireBegin, fields, heap, waiting, environment
<1>6. ASSUME NEW e \in firing, FireEnd(e) PROVE TypeOK'
  <2> DEFINE t == e.timer
             next == (IF type[t] = "slack" THEN now ELSE timeout[t]) + delay[t]
  <2>1. t \in Timers /\ next \in Nat
    BY DEF TypeOK, Event
  <2>2. CASE NotRearmed(e) /\ Repeating(t)
    <3>1. /\ timeout' = [timeout EXCEPT ![t] = next]
          /\ promised' = [promised EXCEPT ![t] = next]
          /\ AddTimer(t, next)
          /\ callback' = callback
      BY <1>6, <2>2, Zenon DEF FireEnd
    <3>2. timeout' \in [Timers -> Nat] /\ promised' \in [Timers -> Nat]
      BY <2>1, <3>1 DEF TypeOK
    <3> HIDE DEF next, t
    <3>3. /\ holder' \in [Timers -> SUBSET Nat]
          /\ entries' \in SUBSET Entry /\ holes' \in SUBSET Nat
          /\ notified' \in BOOLEAN /\ lost' \in [Timers -> BOOLEAN]
      BY <2>1, <3>1, AddTimerType
    <3> QED
      BY <1>6, <3>1, <3>2, <3>3 DEF TypeOK, FireEnd, waiting, environment
  <2>3. CASE NotRearmed(e) /\ ~Repeating(t)
    <3>1. callback' = [callback EXCEPT ![t] = FALSE]
      BY <1>6, <2>3, Zenon DEF FireEnd
    <3>2. callback' \in [Timers -> BOOLEAN]
      BY <3>1, Zenon DEF TypeOK
    <3>3. UNCHANGED <<heap, notified, timeout, lost, promised>>
      BY <1>6, <2>3 DEF FireEnd
    <3> QED
      BY <1>6, <3>2, <3>3 DEF TypeOK, FireEnd, heap, waiting, environment
  <2>4. CASE ~NotRearmed(e)
    BY <1>6, <2>4 DEF TypeOK, FireEnd, heap, waiting, environment
  <2> QED
    BY <2>2, <2>3, <2>4
<1>7. CASE TakeFirst
  <2>1. Flags'
    BY <1>7, SMTT(30) DEF TypeOK, Flags, TakeFirst, fields, environment
  <2>2. Numbers'
    BY <1>7 DEF TypeOK, Numbers, TakeFirst, Pruned, First, Event, Entry, fields, environment
  <2>3. Heap'
    BY <1>7 DEF TypeOK, Heap, TakeFirst, Pruned, First, Event, Entry, fields, environment
  <2>4. Flight'
    BY <1>7 DEF TypeOK, Flight, TakeFirst, Pruned, First, Event, Entry, fields, environment
  <2> QED
    BY <2>1, <2>2, <2>3, <2>4, TypeParts
<1>8. CASE Accepted
  BY <1>8 DEF TypeOK, Accepted, fields, heap, environment
<1>9. CASE Refused
  <2>1. PICK e \in hand : Forget(e.timer) /\ lost' = [lost EXCEPT ![e.timer] =
            @ \/ holder[e.timer] # {} \/ e.generation = generation[e.timer]]
    BY <1>9 DEF Refused
  <2>2. lost' \in [Timers -> BOOLEAN]
    BY <2>1, Zenon DEF TypeOK
  <2>3. e.timer \in Timers
    BY DEF TypeOK, Event
  <2> QED
    BY <1>9, <2>1, <2>2, <2>3 DEF TypeOK, Refused, Forget, fields, environment
<1>10. CASE Shutdown
  <2>1. Flags'
    BY <1>10 DEF TypeOK, Flags, Shutdown, Awakened, fields
  <2>2. Numbers'
    BY <1>10 DEF TypeOK, Numbers, Shutdown, Count, fields
  <2>3. Heap'
    BY <1>10 DEF TypeOK, Heap, Shutdown, waiting
  <2>4. Flight'
    BY <1>10 DEF TypeOK, Flight, Shutdown, Entry, waiting
  <2> QED
    BY <2>1, <2>2, <2>3, <2>4, TypeParts
<1>11. CASE Quiet
  <2>1. ASSUME NEW t \in Timers, SetType(t) PROVE TypeOK'
    BY <2>1 DEF TypeOK, SetType, Count, heap, Others, waiting
  <2>2. CASE StartWaiting
    <3>1. Flags'
      BY <2>2 DEF TypeOK, Flags, StartWaiting, fields, environment
    <3>2. Numbers'
      BY <2>2 DEF TypeOK, Numbers, StartWaiting, fields, environment
    <3>3. Heap'
      <4>0. \A e \in First : timeout[e.timer] \in Nat
        BY DEF TypeOK, First, Entry
      <4>1. Pruned \in SUBSET Nat /\ NextDeadline \in SUBSET Nat
        BY <4>0, Zenon DEF TypeOK, Pruned, NextDeadline
      <4>2. holes' \in SUBSET Nat /\ deadline' \in SUBSET Nat
        BY <2>2, <4>1 DEF TypeOK, StartWaiting
      <4> QED
        BY <2>2, <4>2 DEF TypeOK, Heap, StartWaiting
    <3>4. Flight'
      BY <2>2 DEF TypeOK, Flight, StartWaiting, environment
    <3> QED
      BY <3>1, <3>2, <3>3, <3>4, TypeParts
  <2>3. CASE WakeUp \/ Leave
    BY <2>3 DEF TypeOK, WakeUp, Leave, fields, heap, environment
  <2>4. CASE DoBeforeSleep \/ DoAfterSleep
    <3>1. Flags'
      BY <2>4 DEF TypeOK, Flags, DoBeforeSleep, DoAfterSleep, Awakened, fields
    <3>2. Numbers'
      BY <2>4 DEF TypeOK, Numbers, DoBeforeSleep, DoAfterSleep, Count, fields
    <3>3. Heap'
      BY <2>4 DEF TypeOK, Heap, DoBeforeSleep, DoAfterSleep, heap, waiting
    <3>4. Flight'
      BY <2>4 DEF TypeOK, Flight, DoBeforeSleep, DoAfterSleep, waiting
    <3> QED
      BY <3>1, <3>2, <3>3, <3>4, TypeParts
  <2>5. CASE Tick \/ UNCHANGED vars
    <3>1. Flags'
      BY <2>5 DEF TypeOK, Flags, Tick, fields, environment, vars
    <3>2. Numbers'
      BY <2>5 DEF TypeOK, Numbers, Tick, fields, environment, vars
    <3>3. Heap'
      BY <2>5 DEF TypeOK, Heap, Tick, heap, waiting, vars
    <3>4. Flight'
      BY <2>5 DEF TypeOK, Flight, Tick, waiting, environment, vars
    <3> QED
      BY <3>1, <3>2, <3>3, <3>4, TypeParts
  <2> QED
    BY <1>11, <2>1, <2>2, <2>3, <2>4, <2>5 DEF Quiet
<1> QED
  BY <1>1, <1>2, <1>3, <1>4, <1>5, <1>6, <1>7, <1>8, <1>9, <1>10, <1>11, Steps

-----------------------------------------------------------------------------
(* What the steps do to the heap *)

LEMMA Forgotten ==
  ASSUME TypeOK, Holds, NEW t \in Timers, Forget(t)
  PROVE  /\ entries' = {e \in entries : e.timer # t}
         /\ holder' = [holder EXCEPT ![t] = {}]
         /\ holder[t] = {} <=> ~Queued(t)
<1>1. \A e \in entries : e = [timer |-> e.timer, at |-> e.at] /\ e.at \in Nat
  BY DEF TypeOK, Entry
<1>2. \A e \in entries : e.timer = t <=> \E a \in holder[t] : e = [timer |-> t, at |-> a]
  <2>1. ASSUME NEW e \in entries, e.timer = t
        PROVE  \E a \in holder[t] : e = [timer |-> t, at |-> a]
    <3>1. e = [timer |-> t, at |-> e.at] /\ e.at \in Nat
      BY <1>1, <2>1
    <3>2. e.at \in holder[t]
      BY <3>1 DEF Holds
    <3> QED
      BY <3>1, <3>2
  <2>2. ASSUME NEW e \in entries, NEW a \in holder[t], e = [timer |-> t, at |-> a]
        PROVE  e.timer = t
    BY <2>2
  <2> QED
    BY <2>1, <2>2
<1>3. entries' = {e \in entries : e.timer # t}
  BY <1>2, Zenon DEF Forget
<1>4. holder[t] = {} <=> ~Queued(t)
  <2>1. ASSUME NEW a \in holder[t] PROVE Queued(t)
    <3>1. [timer |-> t, at |-> a] \in entries
      BY DEF TypeOK, Holds
    <3> QED
      BY <3>1 DEF Queued
  <2>2. ASSUME Queued(t) PROVE holder[t] # {}
    BY <1>2, <2>2 DEF Queued
  <2> QED
    BY <2>1, <2>2
<1> QED
  BY <1>3, <1>4 DEF Forget

LEMMA Entered ==
  ASSUME TypeOK, Holds, NEW t \in Timers, Entering(t)
  PROVE  /\ call[t] = "none"
         /\ \E c \in {"init", "cancel", "delay", "readd"} :
              /\ call' = [call EXCEPT ![t] = c]
              /\ c = "readd" => Queued(t)
              /\ c = "delay" => ~Queued(t)
              /\ c \in {"readd", "delay"} => posted' = posted /\ stopping' = stopping
         /\ entries' = {e \in entries : e.timer # t}
         /\ holder' = [holder EXCEPT ![t] = {}]
         /\ holes' = holes \cup holder[t]
         /\ notified' = IF holder[t] # {} THEN Awakened ELSE notified
         /\ posted' \subseteq posted /\ \A e \in posted \ posted' : e.timer = t
         /\ stopping' \in {stopping, stopping \ {t}}
         /\ UNCHANGED <<callback, generation, timeout, promised, lost, hand, firing,
                        thread, deadline, now, shutdown>>
<1>1. \E c \in {"init", "cancel", "delay", "readd"} :
        /\ Enter(t, c)
        /\ c = "readd" => holder[t] # {}
        /\ c = "delay" => holder[t] = {}
        /\ c \in {"readd", "delay"} => posted' = posted /\ stopping' = stopping
  BY DEF Entering, InitBegin, CancelBegin, SetDelayBegin, ShutdownCancel, DiscardEvent,
         Others
<1>2. PICK c \in {"init", "cancel", "delay", "readd"} :
        /\ Enter(t, c)
        /\ c = "readd" => holder[t] # {}
        /\ c = "delay" => holder[t] = {}
        /\ c \in {"readd", "delay"} => posted' = posted /\ stopping' = stopping
  BY <1>1
<1>3. Forget(t) /\ notified' = IF holder[t] # {} THEN Awakened ELSE notified
  BY <1>2 DEF Enter, RemoveTimer
<1>4. posted' \subseteq posted /\ \A e \in posted \ posted' : e.timer = t
  BY DEF Entering, InitBegin, CancelBegin, SetDelayBegin, ShutdownCancel, DiscardEvent
<1>5. UNCHANGED <<callback, generation, timeout, promised, lost, hand, firing, thread,
                  deadline, now, shutdown>>
  BY DEF Entering, InitBegin, CancelBegin, SetDelayBegin, ShutdownCancel, DiscardEvent,
         fields, Others, waiting
<1>6. stopping' \in {stopping, stopping \ {t}}
  BY DEF Entering, InitBegin, CancelBegin, SetDelayBegin, ShutdownCancel, DiscardEvent,
         Others
<1>7. holes' = holes \cup holder[t]
  BY <1>3 DEF Forget
<1>8. call[t] = "none" /\ call' = [call EXCEPT ![t] = c]
  BY <1>2 DEF Enter
<1> QED
  BY <1>2, <1>3, <1>4, <1>5, <1>6, <1>7, <1>8, Forgotten, Zenon

LEMMA QuietStep ==
  ASSUME TypeOK, Quiet
  PROVE  /\ UNCHANGED <<callback, generation, timeout, promised, lost, hand, posted,
                        firing, entries, holder, call, stopping, shutdown>>
         /\ now <= now'
         /\ thread' = thread \/ (thread # "dispatching" /\ thread' # "dispatching")
<1>1. UNCHANGED <<callback, generation, timeout, promised, lost>>
  BY DEF Quiet, SetType, StartWaiting, WakeUp, Leave, DoBeforeSleep, DoAfterSleep, Tick,
         vars, fields
<1>2. UNCHANGED <<hand, posted, firing, entries, holder, call, stopping, shutdown>>
  BY DEF Quiet, SetType, StartWaiting, WakeUp, Leave, DoBeforeSleep, DoAfterSleep, Tick,
         vars, heap, waiting, environment, Others
<1>3. now <= now'
  BY DEF TypeOK, Quiet, SetType, StartWaiting, WakeUp, Leave, DoBeforeSleep, DoAfterSleep,
         Tick, vars, environment, Others
<1>4. thread' = thread \/ (thread # "dispatching" /\ thread' # "dispatching")
  BY DEF Quiet, SetType, StartWaiting, WakeUp, Leave, DoBeforeSleep, DoAfterSleep, Tick,
         Looking, vars, waiting, Others
<1> QED
  BY <1>1, <1>2, <1>3, <1>4, Zenon

-----------------------------------------------------------------------------
(* Where timers and their events are *)

LEMMA PlacesEnter ==
  ASSUME TypeOK, Places, NEW t \in Timers, Entering(t)
  PROVE  Places'
<1>0. Holds
  BY DEF Places
<1>1. PICK c \in {"init", "cancel", "delay", "readd"} :
        /\ call' = [call EXCEPT ![t] = c]
        /\ c = "readd" => Queued(t)
  BY <1>0, Entered
<1>2. /\ call[t] = "none"
      /\ entries' = {e \in entries : e.timer # t}
      /\ holder' = [holder EXCEPT ![t] = {}]
      /\ posted' \subseteq posted
      /\ generation' = generation /\ hand' = hand /\ firing' = firing /\ thread' = thread
  BY <1>0, Entered
<1>3. Holds'
  BY <1>0, <1>2 DEF TypeOK, Holds
<1>4. Called'
  BY <1>1, <1>2 DEF TypeOK, Places, Called, Queued
<1>5. OneArming'
  BY <1>1, <1>2 DEF TypeOK, Places, OneArming, Queued, Removed, UnderWay, Current
<1>6. NoFuture' /\ HandOnce'
  BY <1>2 DEF Places, NoFuture, HandOnce
<1> QED
  BY <1>3, <1>4, <1>5, <1>6 DEF Places

\* A timer is added that is nowhere: Holds and the uniqueness of entries go on.
LEMMA HoldsAdd ==
  ASSUME TypeOK, Holds, NEW t \in Timers, ~Queued(t), NEW when \in Nat, AddTimer(t, when)
  PROVE  /\ Holds'
         /\ \A u \in Timers : Queued(u)' => Queued(u) \/ u = t
         /\ (\A e, other \in entries : e.timer = other.timer => e = other) =>
              (\A e, other \in entries' : e.timer = other.timer => e = other)
<1>1. CASE shutdown
  BY <1>1 DEF AddTimer, heap, Holds, Queued
<1>2. CASE ~shutdown
  <2> DEFINE new == Later(now, when)
  <2>1. /\ entries' = entries \cup {[timer |-> t, at |-> new]}
        /\ holder' = [holder EXCEPT ![t] = {new}]
    BY <1>2, Zenon DEF AddTimer
  <2>2. new \in Nat
    BY LaterType DEF TypeOK
  <2> HIDE DEF new
  <2>3. Holds'
    BY <2>1, <2>2 DEF TypeOK, Holds, Queued
  <2> QED
    BY <2>1, <2>2, <2>3 DEF Queued
<1> QED
  BY <1>1, <1>2

LEMMA PlacesInit ==
  ASSUME TypeOK, Places, NEW t \in Timers, InitCommon(t) \/ CancelImpl(t)
  PROVE  Places'
<1>1. /\ call[t] \in {"init", "cancel"} /\ call' = [call EXCEPT ![t] = "none"]
      /\ generation' = [generation EXCEPT ![t] = generation[t] + 1]
      /\ hand' = hand /\ posted' = posted /\ firing' = firing /\ thread' = thread
  BY DEF InitCommon, CancelImpl, NextGeneration, Others, waiting
<1>2. ~Queued(t)
  BY <1>1 DEF Places, Called
<1>3. /\ Holds'
      /\ \A u \in Timers : Queued(u)' => Queued(u) \/ u = t
      /\ (\A e, other \in entries : e.timer = other.timer => e = other) =>
           (\A e, other \in entries' : e.timer = other.timer => e = other)
  <2>1. CASE InitCommon(t)
    <3>1. PICK d \in Delays : AddTimer(t, now + d)
      BY <2>1 DEF InitCommon
    <3>2. now + d \in Nat
      BY DelaysAssumption DEF TypeOK
    <3> QED
      BY <1>2, <3>1, <3>2, HoldsAdd DEF Places
  <2>2. CASE CancelImpl(t)
    BY <2>2 DEF CancelImpl, heap, Places, Holds, Queued
  <2> QED
    BY <2>1, <2>2
<1>4. Called'
  BY <1>1, <1>3 DEF TypeOK, Places, Called
<1>5. NoFuture' /\ HandOnce'
  BY <1>1 DEF TypeOK, Event, Places, NoFuture, HandOnce
<1>6. \A e \in hand \cup posted \cup firing : e.timer = t => e.generation # generation'[t]
  BY <1>1 DEF TypeOK, Event, Places, NoFuture
<1>7. ~UnderWay(t)' /\ ~Removed(t)'
  BY <1>1, <1>6 DEF TypeOK, UnderWay, Current, Removed
<1>8. \A u \in Timers \ {t} : Current(u)' = Current(u) /\ (Removed(u)' <=> Removed(u))
  BY <1>1 DEF TypeOK, Current, Removed
<1>9. OneArming'
  BY <1>1, <1>3, <1>7, <1>8 DEF Places, OneArming, UnderWay
<1> QED
  BY <1>3, <1>4, <1>5, <1>9 DEF Places

LEMMA PlacesSetDelay ==
  ASSUME TypeOK, Places, NEW t \in Timers, SetDelay(t)
  PROVE  Places'
<1>1. /\ call[t] \in {"delay", "readd"} /\ call' = [call EXCEPT ![t] = "none"]
      /\ generation' = generation
      /\ hand' = hand /\ posted' = posted /\ firing' = firing /\ thread' = thread
  BY DEF SetDelay, Others, waiting
<1>2. ~Queued(t)
  BY <1>1 DEF Places, Called
<1>3. /\ Holds'
      /\ \A u \in Timers : Queued(u)' => Queued(u) \/ (u = t /\ Removed(t))
      /\ (\A e, other \in entries : e.timer = other.timer => e = other) =>
           (\A e, other \in entries' : e.timer = other.timer => e = other)
  <2>1. PICK d \in Delays :
          \/ call[t] = "readd" /\ AddTimer(t, now + d)
          \/ UNCHANGED heap
    BY DEF SetDelay, Readd
  <2>2. now + d \in Nat
    BY DelaysAssumption DEF TypeOK
  <2>3. CASE call[t] = "readd" /\ AddTimer(t, now + d)
    BY <1>2, <2>2, <2>3, HoldsAdd DEF Places, Removed
  <2>4. CASE UNCHANGED heap
    BY <2>4 DEF heap, Places, Holds, Queued
  <2> QED
    BY <2>1, <2>3, <2>4
<1>4. Called'
  BY <1>1, <1>3 DEF TypeOK, Places, Called
<1>5. NoFuture' /\ HandOnce'
  BY <1>1 DEF Places, NoFuture, HandOnce
<1>6. \A u \in Timers : (UnderWay(u)' <=> UnderWay(u)) /\ (Removed(u)' => Removed(u))
                       /\ Current(u)' = Current(u)
  BY <1>1 DEF TypeOK, Current, UnderWay, Removed
<1>7. OneArming'
  BY <1>1, <1>3, <1>6 DEF Places, OneArming
<1> QED
  BY <1>3, <1>4, <1>5, <1>7 DEF Places

LEMMA PlacesFire ==
  ASSUME TypeOK, Places, NEW e \in posted \cup firing,
         (e \in posted /\ FireBegin(e)) \/ (e \in firing /\ FireEnd(e))
  PROVE  Places'
<1>0. e.timer \in Timers
  BY DEF TypeOK, Event
<1>1. CASE e \in posted /\ FireBegin(e)
  <2>1. /\ entries' = entries /\ holder' = holder /\ call' = call
        /\ generation' = generation /\ hand' = hand /\ thread' = thread
        /\ posted' = posted \ {e} /\ firing' \subseteq firing \cup {e}
    BY <1>1 DEF FireBegin, fields, heap, waiting
  <2>2. Holds' /\ Called' /\ NoFuture' /\ HandOnce'
    BY <2>1 DEF Places, Holds, Called, Queued, NoFuture, HandOnce
  <2>3. OneArming'
    BY <1>1, <2>1 DEF Places, OneArming, Queued, Removed, UnderWay, Current
  <2> QED
    BY <2>2, <2>3 DEF Places
<1>2. CASE e \in firing /\ FireEnd(e)
  <2> DEFINE t == e.timer
  <2>1. /\ call[t] = "none" /\ call' = call /\ generation' = generation
        /\ hand' = hand /\ thread' = thread
        /\ posted' = posted /\ firing' = firing \ {e}
    BY <1>2 DEF FireEnd, waiting
  <2>2. CASE NotRearmed(e) /\ Repeating(t)
    <3>1. PICK when \in Nat : AddTimer(t, when)
      <4> DEFINE next == (IF type[t] = "slack" THEN now ELSE timeout[t]) + delay[t]
      <4>1. next \in Nat
        BY <1>0 DEF TypeOK
      <4>2. AddTimer(t, next)
        BY <1>2, <2>2 DEF FireEnd
      <4> QED
        BY <4>1, <4>2
    <3>2. e = Current(t)
      BY <2>2 DEF TypeOK, Event, NotRearmed, Current
    <3>3. ~Queued(t) /\ UnderWay(t)
      BY <1>0, <1>2, <3>2 DEF Places, OneArming, UnderWay
    <3>4. /\ Holds'
          /\ \A u \in Timers : Queued(u)' => Queued(u) \/ u = t
          /\ (\A d, other \in entries : d.timer = other.timer => d = other) =>
               (\A d, other \in entries' : d.timer = other.timer => d = other)
      BY <1>0, <3>1, <3>3, HoldsAdd DEF Places
    <3>5. Called' /\ NoFuture' /\ HandOnce'
      BY <2>1, <3>4 DEF Places, Called, NoFuture, HandOnce
    <3>6. ~UnderWay(t)'
      BY <1>0, <1>2, <2>1, <3>2 DEF Places, OneArming, UnderWay, Current
    <3>7. \A u \in Timers : UnderWay(u)' => UnderWay(u)
      BY <2>1 DEF UnderWay, Current
    <3>8. OneArming'
      BY <2>1, <3>4, <3>6, <3>7 DEF Places, OneArming, Removed, Current
    <3> QED
      BY <3>4, <3>5, <3>8 DEF Places
  <2>3. CASE ~(NotRearmed(e) /\ Repeating(t))
    <3>1. entries' = entries /\ holder' = holder
      BY <1>2, <2>3 DEF FireEnd, heap
    <3>2. Holds' /\ Called' /\ NoFuture' /\ HandOnce'
      BY <2>1, <3>1 DEF Places, Holds, Called, Queued, NoFuture, HandOnce
    <3>3. OneArming'
      BY <2>1, <3>1 DEF Places, OneArming, Queued, Removed, UnderWay, Current
    <3> QED
      BY <3>2, <3>3 DEF Places
  <2> QED
    BY <2>2, <2>3
<1> QED
  BY <1>1, <1>2

LEMMA PlacesTake ==
  ASSUME TypeOK, Places, TakeFirst
  PROVE  Places'
<1>1. PICK e \in entries :
        /\ entries' = entries \ {e}
        /\ holder' = [holder EXCEPT ![e.timer] = {}]
        /\ hand' = {Current(e.timer)}
  BY DEF TakeFirst, First, Current
<1>2. /\ call' = call /\ generation' = generation /\ posted' = posted /\ firing' = firing
      /\ thread' = "dispatching" /\ hand = {}
  BY DEF TakeFirst, Looking, Places, HandOnce, fields
<1>3. e.timer \in Timers /\ e = [timer |-> e.timer, at |-> e.at] /\ e.at \in Nat
  BY DEF TypeOK, Entry
<1>4. Queued(e.timer) /\ ~Queued(e.timer)'
  BY <1>1, <1>3 DEF Places, OneArming, Queued
<1>5. ~UnderWay(e.timer) /\ ~Removed(e.timer)
  BY <1>3, <1>4 DEF Places, OneArming, Called, Removed
<1>6. Holds'
  <2>1. \A u \in Timers \ {e.timer} : \A a \in Nat :
          [timer |-> u, at |-> a] \in entries' <=> [timer |-> u, at |-> a] \in entries
    BY <1>1, <1>3
  <2>2. \A a \in Nat : [timer |-> e.timer, at |-> a] \notin entries'
    BY <1>4 DEF Queued
  <2>3. /\ holder'[e.timer] = {}
        /\ \A u \in Timers \ {e.timer} : holder'[u] = holder[u]
    BY <1>1, <1>3 DEF TypeOK
  <2>4. Holds
    BY DEF Places
  <2> QED
    BY <2>1, <2>2, <2>3, <2>4 DEF Holds
<1>7. Called'
  BY <1>1, <1>2 DEF Places, Called, Queued
<1>8. NoFuture' /\ HandOnce'
  BY <1>1, <1>2, <1>3 DEF TypeOK, Current, Places, NoFuture, HandOnce
<1>9. OneArming'
  <2>1. \A u \in Timers \ {e.timer} :
          /\ Current(u) \notin hand' /\ Current(u)' = Current(u)
          /\ (UnderWay(u)' => UnderWay(u)) /\ (Queued(u)' => Queued(u))
    BY <1>1, <1>2 DEF Current, UnderWay, Queued
  <2>2. /\ ~Queued(e.timer)' /\ ~Removed(e.timer)' /\ Current(e.timer)' = Current(e.timer)
        /\ Current(e.timer) \notin posted' \cup firing'
    BY <1>2, <1>4, <1>5 DEF Removed, UnderWay, Current
  <2>3. \A d, other \in entries' : d.timer = other.timer => d = other
    BY <1>1 DEF Places, OneArming
  <2> QED
    BY <1>2, <2>1, <2>2, <2>3 DEF Places, OneArming, Removed
<1> QED
  BY <1>6, <1>7, <1>8, <1>9 DEF Places

LEMMA PlacesPost ==
  ASSUME TypeOK, Places, Accepted \/ Refused
  PROVE  Places'
<1>1. CASE Accepted
  <2>1. /\ entries' = entries /\ holder' = holder /\ call' = call
        /\ generation' = generation /\ hand' = {} /\ thread' = "again"
        /\ posted' = posted \cup hand /\ firing' = firing
    BY <1>1 DEF Accepted, fields, heap
  <2>2. Holds' /\ Called' /\ NoFuture' /\ HandOnce'
    BY <2>1 DEF Places, Holds, Called, Queued, NoFuture, HandOnce
  <2>3. OneArming'
    BY <2>1 DEF Places, OneArming, Queued, Removed, UnderWay, Current
  <2> QED
    BY <2>2, <2>3 DEF Places
<1>2. CASE Refused
  <2>1. PICK e \in hand : Forget(e.timer)
    BY <1>2 DEF Refused
  <2>2. e.timer \in Timers
    BY DEF TypeOK, Event
  <2>3. /\ entries' = {d \in entries : d.timer # e.timer}
        /\ holder' = [holder EXCEPT ![e.timer] = {}]
    BY <2>1, <2>2, Forgotten DEF Places
  <2>4. /\ call' = call /\ generation' = generation /\ hand' = {} /\ thread' = "again"
        /\ posted' = posted /\ firing' = firing
    BY <1>2 DEF Refused, fields
  <2>5. Holds'
    <3>1. ASSUME NEW u \in Timers, NEW a \in Nat
          PROVE  a \in holder'[u] <=> [timer |-> u, at |-> a] \in entries'
      <4>1. CASE u = e.timer
        BY <2>2, <2>3, <4>1 DEF TypeOK
      <4>2. CASE u # e.timer
        <5>1. holder'[u] = holder[u]
          BY <2>2, <2>3, <4>2 DEF TypeOK
        <5>2. [timer |-> u, at |-> a] \in entries' <=> [timer |-> u, at |-> a] \in entries
          BY <2>3, <4>2
        <5> QED
          BY <5>1, <5>2 DEF Places, Holds
      <4> QED
        BY <4>1, <4>2
    <3> QED
      BY <3>1, Zenon DEF Holds
  <2>6. Called' /\ NoFuture' /\ HandOnce'
    BY <2>3, <2>4 DEF Places, Called, Queued, NoFuture, HandOnce
  <2>7. OneArming'
    BY <2>3, <2>4 DEF Places, OneArming, Queued, Removed, UnderWay, Current
  <2> QED
    BY <2>5, <2>6, <2>7 DEF Places
<1> QED
  BY <1>1, <1>2

LEMMA PlacesShutdown ==
  ASSUME TypeOK, Places, Shutdown
  PROVE  Places'
<1>1. /\ entries' = {} /\ call' = call /\ generation' = generation /\ hand' = hand
      /\ posted' = posted /\ firing' = firing /\ thread' = thread
      /\ stopping' = {e.timer : e \in entries}
      /\ holder' = [t \in Timers |-> IF t \in stopping' THEN {} ELSE holder[t]]
  BY DEF Shutdown, fields, waiting
<1>2. Holds'
  <2>1. ASSUME NEW t \in Timers, NEW a \in holder[t] PROVE t \in stopping'
    <3>1. [timer |-> t, at |-> a] \in entries
      BY DEF TypeOK, Places, Holds
    <3> QED
      BY <1>1, <3>1
  <2>2. \A t \in Timers : holder'[t] = {}
    BY <1>1, <2>1
  <2> QED
    BY <1>1, <2>2 DEF Holds
<1>3. Called' /\ NoFuture' /\ HandOnce'
  BY <1>1 DEF Places, Called, Queued, NoFuture, HandOnce
<1>4. OneArming'
  BY <1>1 DEF Places, OneArming, Queued, Removed, UnderWay, Current
<1> QED
  BY <1>2, <1>3, <1>4 DEF Places

LEMMA PlacesStep == TypeOK /\ Places /\ [Next]_vars => Places'
<1> SUFFICES ASSUME TypeOK, Places, [Next]_vars PROVE Places'
  OBVIOUS
<1>1. CASE Quiet
  <2>1. /\ UNCHANGED <<generation, hand, posted, firing, entries, holder, call>>
        /\ thread' = thread \/ (thread # "dispatching" /\ thread' # "dispatching")
    BY <1>1, QuietStep
  <2>2. Holds' /\ Called' /\ NoFuture' /\ HandOnce'
    BY <2>1 DEF Places, Holds, Called, Queued, NoFuture, HandOnce
  <2>3. OneArming'
    BY <2>1 DEF Places, OneArming, Queued, Removed, UnderWay, Current
  <2> QED
    BY <2>2, <2>3 DEF Places
<1> QED
  BY <1>1, Steps, PlacesEnter, PlacesInit, PlacesSetDelay, PlacesFire, PlacesTake,
     PlacesPost, PlacesShutdown

-----------------------------------------------------------------------------
(* No timer is forgotten *)

Kept == LostMeans /\ NeverForgotten /\ StoppingLate

\* A step is about one timer; nothing changes for the others.
SameFor(u) ==
  /\ callback'[u] = callback[u] /\ lost'[u] = lost[u] /\ call'[u] = call[u]
  /\ Queued(u)' <=> Queued(u)
  /\ UnderWay(u)' <=> UnderWay(u)
  /\ u \in stopping' <=> u \in stopping

\* So it is enough to look at that one.
LEMMA KeptForOne ==
  ASSUME TypeOK, Kept, StoppingLate', NEW t \in Timers,
         \A u \in Timers \ {t} : SameFor(u),
         lost'[t] => ~Queued(t)' /\ ~Removed(t)' /\ ~UnderWay(t)',
         call'[t] \notin {"init", "cancel"} /\ t \notin stopping' =>
           (callback'[t] <=> Queued(t)' \/ Removed(t)' \/ UnderWay(t)' \/ lost'[t])
  PROVE  Kept'
<1>1. LostMeans'
  <2>1. ASSUME NEW u \in Timers \ {t}
        PROVE  lost'[u] => ~Queued(u)' /\ ~Removed(u)' /\ ~UnderWay(u)'
    BY DEF SameFor, Kept, LostMeans, Removed
  <2> QED
    BY <2>1, Zenon DEF LostMeans
<1>2. NeverForgotten'
  <2>1. ASSUME NEW u \in Timers \ {t}
        PROVE  call'[u] \notin {"init", "cancel"} /\ u \notin stopping' =>
           (callback'[u] <=> Queued(u)' \/ Removed(u)' \/ UnderWay(u)' \/ lost'[u])
    BY DEF SameFor, Kept, NeverForgotten, Removed
  <2> QED
    BY <2>1, Zenon DEF NeverForgotten
<1> QED
  BY <1>1, <1>2 DEF Kept

LEMMA KeptEnter ==
  ASSUME TypeOK, Places, Kept, NEW t \in Timers, Entering(t)
  PROVE  Kept'
<1>1. PICK c \in {"init", "cancel", "delay", "readd"} :
        /\ call' = [call EXCEPT ![t] = c]
        /\ c = "readd" => Queued(t)
        /\ c = "delay" => ~Queued(t)
        /\ c \in {"readd", "delay"} => posted' = posted /\ stopping' = stopping
  BY Entered DEF Places
<1>2. /\ call[t] = "none"
      /\ entries' = {e \in entries : e.timer # t}
      /\ posted' \subseteq posted /\ \A e \in posted \ posted' : e.timer = t
      /\ stopping' \in {stopping, stopping \ {t}}
      /\ UNCHANGED <<callback, lost, generation, hand, firing, shutdown>>
  BY Entered DEF Places
<1>3. StoppingLate'
  BY <1>2 DEF Kept, StoppingLate
<1>4. \A u \in Timers \ {t} : SameFor(u)
  <2>1. ASSUME NEW u \in Timers \ {t} PROVE SameFor(u)
    <3>1. callback'[u] = callback[u] /\ lost'[u] = lost[u] /\ call'[u] = call[u]
      BY <1>1, <1>2 DEF TypeOK
    <3>2. Queued(u)' <=> Queued(u)
      BY <1>2 DEF Queued
    <3>3. UnderWay(u)' <=> UnderWay(u)
      BY <1>2 DEF UnderWay, Current
    <3> QED
      BY <1>2, <3>1, <3>2, <3>3 DEF SameFor
  <2> QED
    BY <2>1
<1>5. ~Queued(t)' /\ (Removed(t)' <=> c = "readd") /\ (UnderWay(t)' => UnderWay(t))
  BY <1>1, <1>2 DEF TypeOK, Queued, Removed, UnderWay, Current
<1>6. lost'[t] => ~Queued(t)' /\ ~Removed(t)' /\ ~UnderWay(t)'
  BY <1>1, <1>2, <1>5 DEF Kept, LostMeans
<1>7. call'[t] \notin {"init", "cancel"} /\ t \notin stopping' =>
        (callback'[t] <=> Queued(t)' \/ Removed(t)' \/ UnderWay(t)' \/ lost'[t])
  <2> SUFFICES ASSUME call'[t] \notin {"init", "cancel"}, t \notin stopping'
               PROVE  callback'[t] <=> Queued(t)' \/ Removed(t)' \/ UnderWay(t)' \/ lost'[t]
    OBVIOUS
  <2>1. c \in {"readd", "delay"} /\ call'[t] = c
    BY <1>1 DEF TypeOK
  <2>2. posted' = posted /\ t \notin stopping
    BY <1>1, <2>1
  <2>3. UnderWay(t)' <=> UnderWay(t)
    BY <1>2, <2>2 DEF UnderWay, Current
  <2>4. callback[t] <=> Queued(t) \/ Removed(t) \/ UnderWay(t) \/ lost[t]
    BY <1>2, <2>2 DEF Kept, NeverForgotten
  <2>5. ~Removed(t)
    BY <1>2 DEF Removed
  <2> QED
    BY <1>1, <1>2, <1>5, <2>1, <2>3, <2>4, <2>5
<1> QED
  BY <1>3, <1>4, <1>6, <1>7, KeptForOne

\* A timer that is added is queued, or turned away.
LEMMA AddedTo ==
  ASSUME TypeOK, NEW t \in Timers, NEW when \in Nat, AddTimer(t, when), ~Queued(t)
  PROVE  /\ Queued(t)' <=> ~lost'[t]
         /\ \A u \in Timers \ {t} : lost'[u] = lost[u] /\ (Queued(u)' <=> Queued(u))
<1>1. lost' = [lost EXCEPT ![t] = shutdown]
  BY DEF AddTimer
<1>2. lost'[t] = shutdown /\ \A u \in Timers \ {t} : lost'[u] = lost[u]
  BY <1>1, Zenon DEF TypeOK
<1>3. CASE shutdown
  BY <1>2, <1>3 DEF AddTimer, heap, Queued
<1>4. CASE ~shutdown
  <2>1. entries' = entries \cup {[timer |-> t, at |-> Later(now, when)]}
    BY <1>4 DEF AddTimer
  <2> DEFINE new == [timer |-> t, at |-> Later(now, when)]
  <2>4. new.timer = t /\ entries' = entries \cup {new}
    BY <2>1
  <2> HIDE DEF new
  <2>2. Queued(t)' /\ \A u \in Timers \ {t} : Queued(u)' <=> Queued(u)
    BY <2>4 DEF Queued
  <2>3. ~lost'[t]
    BY <1>2, <1>4
  <2> QED
    BY <1>2, <2>2, <2>3, Zenon
<1> QED
  BY <1>3, <1>4

LEMMA KeptInit ==
  ASSUME TypeOK, Places, Kept, NEW t \in Timers, InitCommon(t)
  PROVE  Kept'
<1>1. PICK d \in Delays : AddTimer(t, now + d)
  BY DEF InitCommon
<1>2. /\ call[t] = "init" /\ call' = [call EXCEPT ![t] = "none"]
      /\ callback' = [callback EXCEPT ![t] = TRUE]
      /\ generation' = [generation EXCEPT ![t] = generation[t] + 1]
      /\ UNCHANGED <<hand, posted, firing, stopping, shutdown>>
  BY DEF InitCommon, NextGeneration, Others, waiting
<1>3. ~Queued(t) /\ now + d \in Nat
  BY <1>2, DelaysAssumption DEF TypeOK, Places, Called
<1>4. /\ Queued(t)' <=> ~lost'[t]
      /\ \A u \in Timers \ {t} : lost'[u] = lost[u] /\ (Queued(u)' <=> Queued(u))
  BY <1>1, <1>3, AddedTo
<1>5. callback'[t] /\ \A u \in Timers \ {t} : callback'[u] = callback[u]
  BY <1>2, Zenon DEF TypeOK
<1>6. ~UnderWay(t)' /\ ~Removed(t)'
  <2>1. \A e \in hand \cup posted \cup firing : e.timer = t => e.generation # generation'[t]
    BY <1>2 DEF TypeOK, Event, Places, NoFuture
  <2> QED
    BY <1>2, <2>1 DEF TypeOK, UnderWay, Current, Removed
<1>7. \A u \in Timers \ {t} : SameFor(u)
  <2>1. \A u \in Timers \ {t} : call'[u] = call[u] /\ (UnderWay(u)' <=> UnderWay(u))
    BY <1>2 DEF TypeOK, UnderWay, Current
  <2> QED
    BY <1>2, <1>4, <1>5, <2>1 DEF SameFor
<1>8. StoppingLate'
  BY <1>2 DEF Kept, StoppingLate
<1> QED
  BY <1>4, <1>5, <1>6, <1>7, <1>8, KeptForOne

LEMMA KeptCancel ==
  ASSUME TypeOK, Places, Kept, NEW t \in Timers, CancelImpl(t)
  PROVE  Kept'
<1>1. /\ call[t] = "cancel" /\ call' = [call EXCEPT ![t] = "none"]
      /\ callback' = [callback EXCEPT ![t] = FALSE]
      /\ lost' = [lost EXCEPT ![t] = FALSE]
      /\ generation' = [generation EXCEPT ![t] = generation[t] + 1]
      /\ UNCHANGED <<entries, hand, posted, firing, stopping, shutdown>>
  BY DEF CancelImpl, NextGeneration, heap, Others, waiting
<1>2. /\ ~callback'[t] /\ ~lost'[t]
      /\ \A u \in Timers \ {t} : callback'[u] = callback[u] /\ lost'[u] = lost[u]
  BY <1>1, Zenon DEF TypeOK
<1>3. ~Queued(t)'
  BY <1>1 DEF Places, Called, Queued
<1>4. ~UnderWay(t)' /\ ~Removed(t)'
  <2>1. \A e \in hand \cup posted \cup firing : e.timer = t => e.generation # generation'[t]
    BY <1>1 DEF TypeOK, Event, Places, NoFuture
  <2> QED
    BY <1>1, <2>1 DEF TypeOK, UnderWay, Current, Removed
<1>5. \A u \in Timers \ {t} : SameFor(u)
  <2>1. \A u \in Timers \ {t} :
          /\ call'[u] = call[u]
          /\ UnderWay(u)' <=> UnderWay(u)
          /\ Queued(u)' <=> Queued(u)
    BY <1>1 DEF TypeOK, UnderWay, Current, Queued
  <2> QED
    BY <1>1, <1>2, <2>1 DEF SameFor
<1>6. StoppingLate'
  BY <1>1 DEF Kept, StoppingLate
<1> QED
  BY <1>2, <1>3, <1>4, <1>5, <1>6, KeptForOne

LEMMA KeptSetDelay ==
  ASSUME TypeOK, Places, Kept, NEW t \in Timers, SetDelay(t)
  PROVE  Kept'
<1>1. /\ call' = [call EXCEPT ![t] = "none"]
      /\ UNCHANGED <<callback, generation, hand, posted, firing, stopping, shutdown>>
  BY DEF SetDelay, Others, waiting
<1>2. ~Removed(t)' /\ \A u \in Timers : UnderWay(u)' <=> UnderWay(u)
  BY <1>1 DEF TypeOK, UnderWay, Current, Removed
<1>3. StoppingLate'
  BY <1>1 DEF Kept, StoppingLate
<1>4. \A u \in Timers \ {t} : call'[u] = call[u]
  BY <1>1 DEF TypeOK
<1>5. CASE call[t] = "readd"
  <2>1. PICK d \in Delays : AddTimer(t, now + d)
    BY <1>5 DEF SetDelay, Readd
  <2>2. ~Queued(t) /\ now + d \in Nat
    BY <1>5, DelaysAssumption DEF TypeOK, Places, Called
  <2>3. /\ Queued(t)' <=> ~lost'[t]
        /\ \A u \in Timers \ {t} : lost'[u] = lost[u] /\ (Queued(u)' <=> Queued(u))
    BY <2>1, <2>2, AddedTo
  <2>4. ~UnderWay(t)' /\ (t \notin stopping => callback[t])
    BY <1>2, <1>5 DEF Places, OneArming, Removed, Kept, NeverForgotten
  <2>5. \A u \in Timers \ {t} : SameFor(u)
    BY <1>1, <1>2, <1>4, <2>3 DEF SameFor
  <2> QED
    BY <1>1, <1>2, <1>3, <2>3, <2>4, <2>5, KeptForOne
<1>6. CASE call[t] = "delay"
  <2>1. entries' = entries /\ lost' = lost
    BY <1>6 DEF SetDelay, heap
  <2>2. \A u \in Timers : Queued(u)' <=> Queued(u)
    BY <2>1 DEF Queued
  <2>3. \A u \in Timers \ {t} : SameFor(u)
    BY <1>1, <1>2, <1>4, <2>1, <2>2 DEF SameFor
  <2>4. lost'[t] => ~Queued(t)' /\ ~Removed(t)' /\ ~UnderWay(t)'
    BY <1>2, <2>1, <2>2 DEF Kept, LostMeans
  <2>5. ~Removed(t)
    BY <1>6 DEF Removed
  <2>6. t \notin stopping' =>
          (callback'[t] <=> Queued(t)' \/ Removed(t)' \/ UnderWay(t)' \/ lost'[t])
    <3>1. t \notin stopping =>
            (callback[t] <=> Queued(t) \/ Removed(t) \/ UnderWay(t) \/ lost[t])
      BY <1>6 DEF Kept, NeverForgotten
    <3> QED
      BY <1>1, <1>2, <2>1, <2>2, <2>5, <3>1
  <2> QED
    BY <1>3, <2>3, <2>4, <2>6, KeptForOne
<1> QED
  BY <1>5, <1>6 DEF SetDelay

LEMMA KeptFire ==
  ASSUME TypeOK, Places, Kept, NEW e \in posted \cup firing,
         (e \in posted /\ FireBegin(e)) \/ (e \in firing /\ FireEnd(e))
  PROVE  Kept'
<1> DEFINE t == e.timer
<1>0. t \in Timers
  BY DEF TypeOK, Event
<1>1. CASE e \in posted /\ FireBegin(e)
  <2>1. /\ UNCHANGED <<callback, generation, entries, call, hand, lost, stopping, shutdown>>
        /\ posted' = posted \ {e}
        /\ firing' = firing \cup (IF e.generation = generation[t] THEN {e} ELSE {})
    <3>1. UNCHANGED <<callback, generation, entries, call, hand, lost, stopping, shutdown>>
      BY <1>1 DEF FireBegin, fields, heap, waiting, environment
    <3> QED
      BY <1>1, <3>1 DEF FireBegin
  <2>2. \A u \in Timers : (UnderWay(u)' <=> UnderWay(u)) /\ (Queued(u)' <=> Queued(u))
                         /\ (Removed(u)' <=> Removed(u))
    <3>1. \A u \in Timers : (Queued(u)' <=> Queued(u)) /\ (Removed(u)' <=> Removed(u))
                           /\ Current(u)' = Current(u)
      <4>1. UNCHANGED <<entries, call, generation>>
        BY <2>1
      <4> QED
        BY <4>1 DEF Queued, Removed, Current
    <3>2. ASSUME NEW u \in Timers, Current(u) = e PROVE UnderWay(u)' /\ UnderWay(u)
      <4>1. e.generation = generation[t]
        BY <3>2 DEF Current
      <4> QED
        BY <1>1, <2>1, <3>1, <3>2, <4>1 DEF UnderWay
    <3>3. ASSUME NEW u \in Timers, Current(u) # e PROVE UnderWay(u)' <=> UnderWay(u)
      <4>1. Current(u)' \in posted' \cup firing' <=> Current(u) \in posted \cup firing
        BY <2>1, <3>1, <3>3
      <4> QED
        BY <2>1, <3>1, <4>1 DEF UnderWay
    <3> QED
      BY <3>1, <3>2, <3>3
  <2>3. StoppingLate' /\ LostMeans'
    BY <2>1, <2>2 DEF Kept, StoppingLate, LostMeans
  <2>4. NeverForgotten'
    BY <2>1, <2>2 DEF Kept, NeverForgotten
  <2> QED
    BY <2>3, <2>4 DEF Kept
<1>2. CASE e \in firing /\ FireEnd(e)
  <2>1. /\ call[t] = "none" /\ firing' = firing \ {e}
        /\ UNCHANGED <<generation, call, hand, posted, stopping, shutdown>>
    BY <1>2 DEF FireEnd, waiting, environment
  <2>2. \A u \in Timers \ {t} : UnderWay(u)' <=> UnderWay(u)
    BY <2>1 DEF UnderWay, Current
  <2>3. StoppingLate'
    BY <2>1 DEF Kept, StoppingLate
  <2>4. ~Removed(t)'
    BY <2>1 DEF Removed
  <2>5. ASSUME NotRearmed(e)
        PROVE  /\ ~Queued(t) /\ ~UnderWay(t)' /\ ~lost[t]
               /\ t \notin stopping => callback[t]
    <3>1. e = Current(t)
      BY <2>5 DEF TypeOK, Event, NotRearmed, Current
    <3>2. UnderWay(t)
      BY <1>2, <3>1 DEF UnderWay
    <3>3. ~UnderWay(t)' /\ ~Queued(t)
      BY <1>0, <1>2, <2>1, <3>1, <3>2 DEF Places, OneArming, UnderWay, Current
    <3> QED
      BY <1>0, <2>1, <3>2, <3>3 DEF Kept, LostMeans, NeverForgotten
  <2>6. CASE NotRearmed(e) /\ Repeating(t)
    <3>1. callback' = callback
      BY <1>2, <2>6 DEF FireEnd
    <3>2. PICK when \in Nat : AddTimer(t, when)
      <4> DEFINE next == (IF type[t] = "slack" THEN now ELSE timeout[t]) + delay[t]
      <4>1. next \in Nat
        BY <1>0 DEF TypeOK
      <4>2. AddTimer(t, next)
        BY <1>2, <2>6 DEF FireEnd
      <4> QED
        BY <4>1, <4>2
    <3>3. /\ Queued(t)' <=> ~lost'[t]
          /\ \A u \in Timers \ {t} : lost'[u] = lost[u] /\ (Queued(u)' <=> Queued(u))
      BY <1>0, <2>5, <2>6, <3>2, AddedTo
    <3>4. \A u \in Timers \ {t} : SameFor(u)
      BY <2>1, <2>2, <3>1, <3>3 DEF SameFor
    <3>5. ~UnderWay(t)' /\ (t \notin stopping' => callback'[t])
      BY <2>1, <2>5, <2>6, <3>1
    <3> HIDE DEF t
    <3> QED
      BY <1>0, <2>3, <2>4, <3>3, <3>4, <3>5, KeptForOne
  <2>7. CASE NotRearmed(e) /\ ~Repeating(t)
    <3>1. callback' = [callback EXCEPT ![t] = FALSE] /\ entries' = entries /\ lost' = lost
      BY <1>2, <2>7 DEF FireEnd, heap
    <3>2. ~callback'[t] /\ \A u \in Timers \ {t} : callback'[u] = callback[u]
      BY <1>0, <3>1, Zenon DEF TypeOK
    <3>3. \A u \in Timers : Queued(u)' <=> Queued(u)
      BY <3>1 DEF Queued
    <3>4. \A u \in Timers \ {t} : SameFor(u)
      BY <2>1, <2>2, <3>1, <3>2, <3>3 DEF SameFor
    <3>5. ~UnderWay(t)' /\ ~Queued(t)' /\ ~lost'[t]
      BY <1>0, <2>5, <2>7, <3>1, <3>3
    <3> HIDE DEF t
    <3> QED
      BY <1>0, <2>3, <2>4, <3>2, <3>4, <3>5, KeptForOne
  <2>8. CASE ~NotRearmed(e)
    <3>1. UNCHANGED <<callback, entries, lost>>
      BY <1>2, <2>8 DEF FireEnd, heap
    <3>2. \A u \in Timers : (UnderWay(u)' <=> UnderWay(u)) /\ (Queued(u)' <=> Queued(u))
                           /\ (Removed(u)' <=> Removed(u))
      BY <2>1, <2>8, <3>1 DEF NotRearmed, UnderWay, Current, Queued, Removed
    <3>3. LostMeans' /\ NeverForgotten'
      BY <2>1, <3>1, <3>2 DEF Kept, LostMeans, NeverForgotten
    <3> QED
      BY <2>3, <3>3 DEF Kept
  <2> QED
    BY <2>6, <2>7, <2>8
<1> QED
  BY <1>1, <1>2

LEMMA KeptTake ==
  ASSUME TypeOK, Places, Kept, TakeFirst
  PROVE  Kept'
<1>1. PICK e \in entries :
        /\ entries' = entries \ {e}
        /\ hand' = {Current(e.timer)}
  BY DEF TakeFirst, First, Current
<1>2. /\ UNCHANGED <<callback, generation, call, posted, firing, lost, stopping, shutdown>>
      /\ hand = {}
  BY DEF TakeFirst, Looking, Places, HandOnce, fields, environment
<1>3. e.timer \in Timers
  BY DEF TypeOK, Entry
<1>4. Queued(e.timer) /\ ~Queued(e.timer)' /\ UnderWay(e.timer)' /\ ~Removed(e.timer)'
  <2>1. Queued(e.timer) /\ ~Queued(e.timer)'
    BY <1>1, <1>3 DEF Places, OneArming, Queued
  <2>2. UnderWay(e.timer)'
    BY <1>1, <1>2 DEF UnderWay, Current
  <2>3. ~Removed(e.timer)'
    BY <1>2, <1>3, <2>1 DEF Places, Called, Removed
  <2> QED
    BY <2>1, <2>2, <2>3
<1>5. StoppingLate'
  BY <1>2 DEF Kept, StoppingLate
<1>6. ~lost'[e.timer] /\ (e.timer \notin stopping => callback[e.timer])
  BY <1>2, <1>3, <1>4 DEF Places, Called, Kept, LostMeans, NeverForgotten
<1>7. \A u \in Timers \ {e.timer} : SameFor(u)
  <2>1. ASSUME NEW u \in Timers \ {e.timer} PROVE SameFor(u)
    <3>1. Queued(u)' <=> Queued(u)
      BY <1>1 DEF Queued
    <3>2. UnderWay(u)' <=> UnderWay(u)
      BY <1>1, <1>2 DEF UnderWay, Current
    <3> QED
      BY <1>2, <3>1, <3>2 DEF SameFor
  <2> QED
    BY <2>1
<1> QED
  BY <1>2, <1>3, <1>4, <1>5, <1>6, <1>7, KeptForOne

LEMMA KeptPost ==
  ASSUME TypeOK, Places, Kept, Accepted \/ Refused
  PROVE  Kept'
<1>1. CASE Accepted
  <2>1. /\ UNCHANGED <<callback, generation, entries, call, firing, lost, stopping, shutdown>>
        /\ hand' = {} /\ posted' = posted \cup hand
    BY <1>1 DEF Accepted, fields, heap, environment
  <2>2. \A u \in Timers : (Queued(u)' <=> Queued(u)) /\ (Removed(u)' <=> Removed(u))
                         /\ (UnderWay(u)' <=> UnderWay(u))
    BY <2>1 DEF Queued, Removed, UnderWay, Current
  <2> QED
    BY <2>1, <2>2 DEF Kept, StoppingLate, LostMeans, NeverForgotten
<1>2. CASE Refused
  <2>1. PICK e \in hand :
          /\ Forget(e.timer)
          /\ lost' = [lost EXCEPT ![e.timer] =
               lost[e.timer] \/ holder[e.timer] # {} \/ e.generation = generation[e.timer]]
    BY <1>2 DEF Refused
  <2> DEFINE t == e.timer
  <2>2. t \in Timers
    BY DEF TypeOK, Event
  <2>3. /\ entries' = {d \in entries : d.timer # t}
        /\ holder[t] = {} <=> ~Queued(t)
    BY <2>1, <2>2, Forgotten DEF Places
  <2>4. /\ UNCHANGED <<callback, generation, call, posted, firing, stopping, shutdown>>
        /\ hand' = {} /\ hand = {e}
    BY <1>2 DEF Refused, fields, environment, Places, HandOnce
  <2>5. /\ lost'[t] <=> lost[t] \/ Queued(t) \/ e.generation = generation[t]
        /\ \A u \in Timers \ {t} : lost'[u] = lost[u]
    BY <2>1, <2>2, <2>3, Zenon DEF TypeOK
  <2>6. e.generation = generation[t] <=> e = Current(t)
    BY DEF TypeOK, Event, Current
  <2>7. ~Queued(t)' /\ (UnderWay(t)' <=> UnderWay(t) /\ e # Current(t))
    <3>1. ~Queued(t)'
      BY <2>3 DEF Queued
    <3>2. UnderWay(t)' <=> Current(t) \in posted \cup firing
      BY <2>4 DEF UnderWay, Current
    <3>3. e = Current(t) => Current(t) \notin posted \cup firing
      BY <2>2 DEF Places, OneArming
    <3> QED
      BY <2>4, <3>1, <3>2, <3>3 DEF UnderWay
  <2>8. Removed(t)' <=> Removed(t)
    BY <2>4 DEF Removed
  <2>9. StoppingLate'
    BY <2>4 DEF Kept, StoppingLate
  <2>10. \A u \in Timers \ {t} : SameFor(u)
    <3>1. ASSUME NEW u \in Timers \ {t} PROVE SameFor(u)
      <4>1. Queued(u)' <=> Queued(u)
        BY <2>3 DEF Queued
      <4>2. UnderWay(u)' <=> UnderWay(u)
        BY <2>4 DEF UnderWay, Current
      <4> QED
        BY <2>4, <2>5, <4>1, <4>2 DEF SameFor
    <3> QED
      BY <3>1
  <2>11. UnderWay(t) \/ e # Current(t)
    BY DEF UnderWay
  <2>12. /\ ~(UnderWay(t) /\ (Queued(t) \/ Removed(t)))
         /\ ~(Queued(t) /\ Removed(t))
    BY <2>2 DEF Places, OneArming, Called, Removed
  <2>13. lost'[t] => ~Queued(t)' /\ ~Removed(t)' /\ ~UnderWay(t)'
    <3>1. lost[t] => ~Queued(t) /\ ~Removed(t) /\ ~UnderWay(t)
      BY <2>2 DEF Kept, LostMeans
    <3> QED
      BY <2>5, <2>6, <2>7, <2>8, <2>11, <2>12, <3>1
  <2>14. call'[t] \notin {"init", "cancel"} /\ t \notin stopping' =>
           (callback'[t] <=> Queued(t)' \/ Removed(t)' \/ UnderWay(t)' \/ lost'[t])
    <3>1. call[t] \notin {"init", "cancel"} /\ t \notin stopping =>
            (callback[t] <=> Queued(t) \/ Removed(t) \/ UnderWay(t) \/ lost[t])
      BY <2>2 DEF Kept, NeverForgotten
    <3>2. callback' = callback /\ call' = call /\ stopping' = stopping
      BY <2>4
    <3> HIDE DEF t
    <3> QED
      BY <2>5, <2>6, <2>7, <2>8, <2>11, <3>1, <3>2
  <2> HIDE DEF t
  <2> QED
    BY <2>2, <2>9, <2>10, <2>13, <2>14, KeptForOne
<1> QED
  BY <1>1, <1>2

LEMMA KeptShutdown ==
  ASSUME TypeOK, Places, Kept, Shutdown
  PROVE  Kept'
<1>1. /\ UNCHANGED <<callback, generation, call, hand, posted, firing, lost>>
      /\ entries' = {} /\ stopping' = {e.timer : e \in entries}
      /\ ~shutdown /\ shutdown' = TRUE
  BY DEF Shutdown, fields, waiting
<1>2. /\ stopping = {}
      /\ \A u \in Timers : ~Queued(u)' /\ (u \in stopping' <=> Queued(u))
  BY <1>1 DEF Kept, StoppingLate, Queued
<1>3. \A u \in Timers : (Removed(u)' <=> Removed(u)) /\ (UnderWay(u)' <=> UnderWay(u))
  BY <1>1 DEF Removed, UnderWay, Current
<1>4. StoppingLate' /\ LostMeans'
  BY <1>1, <1>2, <1>3 DEF Kept, StoppingLate, LostMeans
<1>5. NeverForgotten'
  BY <1>1, <1>2, <1>3 DEF Kept, NeverForgotten
<1> QED
  BY <1>4, <1>5 DEF Kept

LEMMA KeptStep == TypeOK /\ Places /\ Kept /\ [Next]_vars => Kept'
<1> SUFFICES ASSUME TypeOK, Places, Kept, [Next]_vars PROVE Kept'
  OBVIOUS
<1>1. CASE Quiet
  <2>1. UNCHANGED <<callback, generation, lost, hand, posted, firing, entries, call,
                    stopping, shutdown>>
    BY <1>1, QuietStep
  <2>2. \A u \in Timers : (Queued(u)' <=> Queued(u)) /\ (Removed(u)' <=> Removed(u))
                         /\ (UnderWay(u)' <=> UnderWay(u))
    BY <2>1 DEF Queued, Removed, UnderWay, Current
  <2> QED
    BY <2>1, <2>2 DEF Kept, StoppingLate, LostMeans, NeverForgotten
<1> QED
  BY <1>1, Steps, KeptEnter, KeptInit, KeptCancel, KeptSetDelay, KeptFire, KeptTake,
     KeptPost, KeptShutdown

-----------------------------------------------------------------------------
(* No event is made before its time *)

\* A step gives new times to one timer only; no event is made for the others.
LEMMA EarlyForOne ==
  ASSUME TypeOK, Early, Timely, NEW t \in Timers, now \in Nat, now' \in Nat, now <= now',
         \A e \in entries' : e.timer = t \/ e \in entries,
         \A u \in Timers \ {t} :
           /\ timeout'[u] = timeout[u] /\ promised'[u] = promised[u]
           /\ Current(u)' \in hand' \cup posted' => Current(u) \in hand \cup posted,
         Queued(t)' => promised'[t] <= timeout'[t],
         Current(t)' \in hand' \cup posted' => promised'[t] <= now',
         \A e \in entries' : e.timer = t => timeout'[t] <= e.at
  PROVE  Early' /\ Timely'
<1>1. Timely'
  BY DEF TypeOK, Entry, Timely
<1>2. ASSUME NEW u \in Timers \ {t}
      PROVE  /\ Queued(u)' => promised'[u] <= timeout'[u]
             /\ Current(u)' \in hand' \cup posted' => promised'[u] <= now'
  <2>1. Queued(u)' => Queued(u)
    BY DEF Queued
  <2>2. promised[u] \in Nat
    BY DEF TypeOK
  <2> QED
    BY <2>1, <2>2 DEF Early
<1>3. Early'
  BY <1>2, Zenon DEF Early
<1> QED
  BY <1>1, <1>3

\* What is added is for the time it was promised for, or later.
LEMMA AddedAt ==
  ASSUME TypeOK, NEW t \in Timers, NEW when \in Nat, AddTimer(t, when)
  PROVE  /\ holes' = holes
         /\ \A e \in entries' : e \in entries \/ (e.timer = t /\ when <= e.at)
<1>1. Later(now, when) >= when
  BY LaterType DEF TypeOK
<1> QED
  BY <1>1 DEF AddTimer, heap

\* An arming that begins: InitCommon, and SetDelay or Fire that add the timer again.
LEMMA EarlyArmed ==
  ASSUME TypeOK, Places, Early, Timely, NEW t \in Timers, NEW when \in Nat,
         ~Queued(t), AddTimer(t, when),
         timeout' = [timeout EXCEPT ![t] = when],
         promised' = [promised EXCEPT ![t] = when],
         Current(t)' \notin hand' \cup posted',
         \A u \in Timers \ {t} : Current(u)' = Current(u),
         hand' = hand, posted' = posted, now' = now
  PROVE  Early' /\ Timely'
<1>1. /\ timeout'[t] = when /\ promised'[t] = when
      /\ \A u \in Timers \ {t} : timeout'[u] = timeout[u] /\ promised'[u] = promised[u]
  BY DEF TypeOK
<1>2. \A e \in entries' : e \in entries \/ (e.timer = t /\ when <= e.at)
  BY AddedAt
<1>3. \A e \in entries : e.timer # t
  BY DEF Queued
<1>4. \A u \in Timers \ {t} :
           Current(u)' \in hand' \cup posted' => Current(u) \in hand \cup posted
  OBVIOUS
<1>5. now \in Nat /\ now' \in Nat /\ now <= now'
  BY DEF TypeOK
<1> QED
  BY <1>1, <1>2, <1>3, <1>4, <1>5, EarlyForOne

LEMMA EarlyInit ==
  ASSUME TypeOK, Places, Early, Timely, NEW t \in Timers, InitCommon(t)
  PROVE  Early' /\ Timely'
<1>1. PICK d \in Delays :
        /\ timeout' = [timeout EXCEPT ![t] = now + d]
        /\ promised' = [promised EXCEPT ![t] = now + d]
        /\ AddTimer(t, now + d)
  BY DEF InitCommon
<1>2. /\ call[t] = "init"
      /\ generation' = [generation EXCEPT ![t] = generation[t] + 1]
      /\ UNCHANGED <<hand, posted, now>>
  BY DEF InitCommon, NextGeneration, Others, waiting
<1>3. ~Queued(t) /\ now + d \in Nat
  BY <1>2, DelaysAssumption DEF TypeOK, Places, Called
<1>4. Current(t)' \notin hand' \cup posted'
  <2>1. \A e \in hand \cup posted : e.timer = t => e.generation # generation'[t]
    BY <1>2 DEF TypeOK, Event, Places, NoFuture
  <2> QED
    BY <1>2, <2>1 DEF Current
<1>5. \A u \in Timers \ {t} : Current(u)' = Current(u)
  BY <1>2 DEF TypeOK, Current
<1> QED
  BY <1>1, <1>2, <1>3, <1>4, <1>5, EarlyArmed

LEMMA EarlySetDelay ==
  ASSUME TypeOK, Places, Early, Timely, NEW t \in Timers, SetDelay(t)
  PROVE  Early' /\ Timely'
<1>1. /\ call[t] \in {"delay", "readd"}
      /\ UNCHANGED <<generation, hand, posted, now>>
  BY DEF SetDelay, Others, waiting
<1>2. ~Queued(t) /\ \A u \in Timers : Current(u)' = Current(u)
  BY <1>1 DEF Places, Called, Current
<1>3. PICK d \in Delays :
        /\ timeout' = [timeout EXCEPT ![t] = now + d]
        /\ \/ /\ call[t] = "readd" /\ AddTimer(t, now + d)
              /\ promised' = [promised EXCEPT ![t] = now + d]
           \/ /\ call[t] = "delay" /\ UNCHANGED heap
              /\ promised' = [promised EXCEPT ![t] = 0]
  BY DEF SetDelay, Readd
<1>4. now \in Nat /\ now + d \in Nat
  BY DelaysAssumption DEF TypeOK
<1>5. CASE call[t] = "readd"
  <2>1. Current(t) \notin hand \cup posted
    BY <1>5 DEF Places, OneArming, Removed, UnderWay
  <2> QED
    BY <1>1, <1>2, <1>3, <1>4, <1>5, <2>1, EarlyArmed
<1>6. CASE call[t] = "delay"
  <2>1. entries' = entries /\ ~Queued(t)'
    BY <1>2, <1>3, <1>6 DEF heap, Queued
  <2>2. /\ promised'[t] = 0
        /\ \A u \in Timers \ {t} : timeout'[u] = timeout[u] /\ promised'[u] = promised[u]
    BY <1>3, <1>6 DEF TypeOK
  <2> QED
    BY <1>1, <1>2, <1>4, <2>1, <2>2, EarlyForOne DEF Queued
<1> QED
  BY <1>1, <1>5, <1>6

LEMMA EarlyFire ==
  ASSUME TypeOK, Places, Early, Timely, NEW e \in posted \cup firing,
         (e \in posted /\ FireBegin(e)) \/ (e \in firing /\ FireEnd(e))
  PROVE  Early' /\ Timely'
<1> DEFINE t == e.timer
<1>0. t \in Timers
  BY DEF TypeOK, Event
<1>1. CASE e \in posted /\ FireBegin(e)
  <2>1. /\ UNCHANGED <<timeout, promised, generation, entries, hand, now>>
        /\ posted' \subseteq posted
    BY <1>1 DEF FireBegin, fields, heap, waiting, environment
  <2> QED
    BY <2>1 DEF Early, Timely, Queued, Current
<1>2. CASE e \in firing /\ FireEnd(e)
  <2> DEFINE next == (IF type[t] = "slack" THEN now ELSE timeout[t]) + delay[t]
  <2>1. UNCHANGED <<generation, hand, posted, now>>
    BY <1>2 DEF FireEnd, waiting, environment
  <2>2. CASE NotRearmed(e) /\ Repeating(t)
    <3>1. /\ timeout' = [timeout EXCEPT ![t] = next]
          /\ promised' = [promised EXCEPT ![t] = next]
          /\ AddTimer(t, next)
      BY <1>2, <2>2 DEF FireEnd
    <3>2. e = Current(t)
      BY <2>2 DEF TypeOK, Event, NotRearmed, Current
    <3>3. ~Queued(t) /\ Current(t) \notin hand \cup posted
      BY <1>0, <1>2, <3>2 DEF Places, OneArming, UnderWay
    <3>4. next \in Nat
      BY <1>0 DEF TypeOK
    <3>5. \A u \in Timers : Current(u)' = Current(u)
      BY <2>1 DEF Current
    <3> HIDE DEF next, t
    <3> QED
      BY <1>0, <2>1, <3>1, <3>3, <3>4, <3>5, EarlyArmed
  <2>3. CASE ~(NotRearmed(e) /\ Repeating(t))
    <3>1. UNCHANGED <<entries, timeout, promised>>
      BY <1>2, <2>3 DEF FireEnd, heap
    <3> QED
      BY <2>1, <3>1 DEF Early, Timely, Queued, Current
  <2> QED
    BY <2>2, <2>3
<1> QED
  BY <1>1, <1>2

LEMMA EarlyTake ==
  ASSUME TypeOK, Places, Early, Timely, TakeFirst
  PROVE  Early' /\ Timely'
<1>1. PICK e \in entries :
        /\ Ready(e)
        /\ entries' = entries \ {e}
        /\ hand' = {Current(e.timer)}
  BY DEF TakeFirst, First, Current
<1>2. UNCHANGED <<timeout, promised, generation, posted, now>>
  BY DEF TakeFirst, fields, environment
<1>3. e.timer \in Timers /\ Queued(e.timer)
  BY DEF TypeOK, Entry, Queued
<1>4. promised[e.timer] <= now
  BY <1>1, <1>3 DEF TypeOK, Early, Ready
<1>5. Timely'
  BY <1>1, <1>2 DEF Timely
<1>6. \A u \in Timers : Queued(u)' => promised'[u] <= timeout'[u]
  BY <1>1, <1>2 DEF Early, Queued
<1>7. \A u \in Timers : Current(u)' \in hand' \cup posted' => promised'[u] <= now'
  BY <1>1, <1>2, <1>4 DEF Early, Current
<1> QED
  BY <1>5, <1>6, <1>7, Zenon DEF Early

LEMMA EarlyStep == TypeOK /\ Places /\ Early /\ Timely /\ [Next]_vars => Early' /\ Timely'
<1> SUFFICES ASSUME TypeOK, Places, Early, Timely, [Next]_vars PROVE Early' /\ Timely'
  OBVIOUS
\* The other steps only take timers out of the heap, or discard events.
<1>1. ASSUME entries' \subseteq entries, hand' \cup posted' \subseteq hand \cup posted,
             generation' \in [Timers -> Nat],
             \A t \in Timers : generation'[t] = generation[t]
                               \/ \A e \in hand \cup posted :
                                    e.timer = t => e.generation # generation'[t],
             UNCHANGED <<timeout, promised>>, now' \in Nat, now <= now'
      PROVE  Early' /\ Timely'
  <2>1. Timely'
    BY <1>1 DEF Timely
  <2>2. ASSUME NEW t \in Timers
        PROVE  /\ Queued(t)' => promised'[t] <= timeout'[t]
               /\ Current(t)' \in hand' \cup posted' => promised'[t] <= now'
    <3>1. Queued(t)' => Queued(t)
      BY <1>1 DEF Queued
    <3>2. Current(t)' \in hand' \cup posted' => Current(t) \in hand \cup posted
      BY <1>1 DEF Current
    <3> QED
      BY <1>1, <3>1, <3>2 DEF TypeOK, Early
  <2> QED
    BY <2>1, <2>2, Zenon DEF Early
<1>2. now \in Nat /\ now' \in Nat /\ generation' \in [Timers -> Nat]
  BY TypeStep DEF TypeOK
<1>3. ASSUME NEW t \in Timers, Entering(t) PROVE Early' /\ Timely'
  <2>1. /\ entries' = {e \in entries : e.timer # t} /\ posted' \subseteq posted
        /\ UNCHANGED <<timeout, promised, generation, hand, now>>
    BY <1>3, Entered DEF Places
  <2> QED
    BY <1>1, <1>2, <2>1
<1>4. ASSUME NEW t \in Timers, CancelImpl(t) PROVE Early' /\ Timely'
  <2>1. /\ generation' = [generation EXCEPT ![t] = generation[t] + 1]
        /\ UNCHANGED <<entries, hand, posted, timeout, promised, now>>
    BY <1>4 DEF CancelImpl, NextGeneration, heap, Others, waiting
  <2>2. \A e \in hand \cup posted : e.timer = t => e.generation # generation'[t]
    BY <2>1 DEF TypeOK, Event, Places, NoFuture
  <2>3. \A u \in Timers : generation'[u] = generation[u] \/ u = t
    BY <2>1 DEF TypeOK
  <2> QED
    BY <1>1, <1>2, <2>1, <2>2, <2>3
<1>5. CASE Accepted
  <2>1. /\ UNCHANGED <<generation, entries, timeout, promised, now>>
        /\ posted' = posted \cup hand /\ hand' = {}
    BY <1>5 DEF Accepted, fields, heap, environment
  <2> QED
    BY <1>1, <1>2, <2>1
<1>6. CASE Refused
  <2>1. /\ UNCHANGED <<generation, timeout, promised, now, posted>> /\ hand' = {}
        /\ entries' \subseteq entries
    BY <1>6 DEF Refused, Forget, fields, environment
  <2> QED
    BY <1>1, <1>2, <2>1
<1>7. CASE Shutdown
  <2>1. UNCHANGED <<generation, timeout, promised, now, posted, hand>> /\ entries' = {}
    BY <1>7 DEF Shutdown, fields, waiting
  <2> QED
    BY <1>1, <1>2, <2>1
<1>8. CASE Quiet
  BY <1>1, <1>2, <1>8, QuietStep
<1> QED
  BY <1>3, <1>4, <1>5, <1>6, <1>7, <1>8, Steps, EarlyInit, EarlySetDelay, EarlyFire, EarlyTake

-----------------------------------------------------------------------------
(* The timer thread wakes up in time *)

\* A heap that is not empty has a first entry.
LEMMA HasFirst ==
  ASSUME TypeOK, NEW e \in entries
  PROVE  \E first \in First : first.at <= e.at
<1> DEFINE Ats == {other.at : other \in entries}
<1>1. Ats \subseteq Nat /\ Ats # {}
  BY DEF TypeOK, Entry
<1>2. PICK a \in Ats : \A b \in Ats : <<b, a>> \notin OpToRel(<, Nat)
  <2> HIDE DEF Ats
  <2> QED
    BY <1>1, NatLessThanWellFounded, WFMin, Zenon
<1>3. \A b \in Ats : a <= b
  <2> HIDE DEF Ats
  <2>1. \A b \in Ats : ~(b < a)
    BY <1>1, <1>2, Zenon DEF OpToRel
  <2> QED
    BY <1>1, <2>1
<1>4. PICK first \in entries : first.at = a
  OBVIOUS
<1> QED
  BY <1>3, <1>4 DEF First

\* As long as the thread waits, every time that is added is behind another.
LEMMA OversleptByNone ==
  ASSUME TypeOK, TypeOK', NoneOverslept, now <= now',
         thread' = "waiting" /\ ~notified' =>
           /\ thread = "waiting" /\ ~notified /\ deadline' = deadline
           /\ \A a \in Times' : \E b \in Times : b <= a
  PROVE  NoneOverslept'
<1> SUFFICES ASSUME thread' = "waiting", ~notified', NEW a \in Times'
             PROVE  \E d \in deadline' : d <= Later(a, now')
  BY DEF NoneOverslept
<1>1. PICK b \in Times : b <= a
  OBVIOUS
<1>2. PICK d \in deadline : d <= Later(b, now)
  BY DEF NoneOverslept
<1>3. a \in Nat /\ b \in Nat /\ d \in Nat /\ now \in Nat /\ now' \in Nat
  <2>1. a \in Nat /\ b \in Nat
    BY DEF TypeOK, Entry, Times
  <2> QED
    BY <2>1 DEF TypeOK
<1>4. Later(b, now) <= Later(a, now')
  BY <1>1, <1>3 DEF Later
<1>5. Later(b, now) \in Nat /\ Later(a, now') \in Nat
  BY <1>3, LaterType
<1> QED
  BY <1>2, <1>3, <1>4, <1>5

\* AddTimer notifies the thread unless there is an entry in front of the new one.
LEMMA AddedBehind ==
  ASSUME TypeOK, NEW t \in Timers, NEW when \in Nat, AddTimer(t, when),
         thread = "waiting", ~notified'
  PROVE  ~notified /\ \A a \in Times' : \E b \in Times : b <= a
<1>1. \A b \in Times : b \in Nat
  BY DEF TypeOK, Entry, Times
<1>2. CASE shutdown
  BY <1>1, <1>2 DEF AddTimer, heap, Times
<1>3. CASE ~shutdown
  <2> DEFINE at == Later(now, when)
  <2>1. /\ entries' = entries \cup {[timer |-> t, at |-> at]} /\ holes' = holes
        /\ notified' = IF ComesFirst(at) THEN Awakened ELSE notified
    BY <1>3 DEF AddTimer
  <2>2. ~notified /\ ~ComesFirst(at)
    BY <2>1 DEF Awakened
  <2>3. \E b \in Times : b <= at
    <3>1. at \in Nat
      BY LaterType DEF TypeOK
    <3>2. PICK b \in Times : ~(at < b)
      BY <2>2 DEF ComesFirst, Times
    <3> QED
      BY <1>1, <3>1, <3>2
  <2>4. Times' = Times \cup {at}
    <3> DEFINE new == [timer |-> t, at |-> at]
    <3>1. new.at = at /\ entries' = entries \cup {new} /\ holes' = holes
      BY <2>1
    <3> HIDE DEF new, at
    <3> QED
      BY <3>1 DEF Times
  <2> HIDE DEF at
  <2> QED
    BY <1>1, <2>2, <2>3, <2>4
<1> QED
  BY <1>2, <1>3

\* The thread begins to wait for the first timer, or for nothing while the machine
\* sleeps.
LEMMA OversleepWait ==
  ASSUME TypeOK, Timely, StartWaiting
  PROVE  NoneOverslept'
<1>1. UNCHANGED <<entries, now, timeout>>
  BY DEF StartWaiting, fields, environment
<1> SUFFICES ASSUME NEW a \in Times'
             PROVE  \E d \in deadline' : d <= Later(a, now)
  BY <1>1 DEF NoneOverslept
<1>2. now \in Nat
  BY DEF TypeOK
<1>3. CASE holes' = Pruned /\ deadline' = NextDeadline
  <2>1. PICK e \in entries : e.at <= a
    <3>1. a \in Pruned \/ \E e \in entries : a = e.at
      BY <1>1, <1>3 DEF Times
    <3>2. \A e \in entries : e.at \in Nat
      BY DEF TypeOK, Entry
    <3>3. CASE a \in Pruned
      <4>1. PICK e \in entries : e.at < a
        BY <3>3 DEF Pruned
      <4>2. a \in Nat
        BY <3>3 DEF TypeOK, Pruned
      <4> QED
        BY <3>2, <4>1, <4>2
    <3>4. CASE \E e \in entries : a = e.at
      BY <3>2, <3>4
    <3> QED
      BY <3>1, <3>3, <3>4
  <2>2. PICK first \in First : first.at <= e.at
    BY HasFirst
  <2>3. timeout[first.timer] \in deadline' /\ timeout[first.timer] <= first.at
    BY <1>3 DEF NextDeadline, Timely, First
  <2>4. timeout[first.timer] \in Nat /\ first.at \in Nat /\ e.at \in Nat /\ a \in Nat
    <3>1. first \in Entry /\ e \in Entry
      BY DEF TypeOK, First
    <3>2. a \in Nat
      BY <1>1, <1>3 DEF TypeOK, Times, Pruned, Entry
    <3> QED
      BY <3>1, <3>2 DEF TypeOK, Entry
  <2> QED
    BY <1>2, <2>1, <2>2, <2>3, <2>4 DEF Later
<1>4. CASE holes' = holes /\ deadline' = {now}
  <2>1. a \in Nat
    BY <1>1, <1>4 DEF TypeOK, Entry, Times
  <2> QED
    BY <1>2, <1>4, <2>1 DEF Later
<1> QED
  BY <1>3, <1>4 DEF StartWaiting

LEMMA OversleepStep ==
  TypeOK /\ Places /\ Timely /\ NoneOverslept /\ [Next]_vars => NoneOverslept'
<1> SUFFICES ASSUME TypeOK, Places, Timely, NoneOverslept, [Next]_vars
             PROVE  NoneOverslept'
  OBVIOUS
<1>0. TypeOK' /\ now \in Nat /\ now <= now
  BY TypeStep DEF TypeOK
<1>n. \A b \in Times : b \in Nat /\ b <= b
  <2>1. \A e \in entries : e.at \in Nat
    BY DEF TypeOK, Entry
  <2>2. holes \subseteq Nat
    BY DEF TypeOK
  <2>3. Times \subseteq Nat
    BY <2>1, <2>2, Zenon DEF Times
  <2> QED
    BY <2>3
\* What adds a timer.
<1>a. ASSUME NEW t \in Timers, NEW when \in Nat, AddTimer(t, when),
             UNCHANGED <<thread, deadline, now>>
      PROVE  NoneOverslept'
  BY <1>0, <1>a, AddedBehind, OversleptByNone
\* What adds no time to the heap.
<1>b. ASSUME Times' \subseteq Times, now <= now',
             thread' = "waiting" /\ ~notified' =>
               thread = "waiting" /\ ~notified /\ deadline' = deadline
      PROVE  NoneOverslept'
  BY <1>0, <1>n, <1>b, OversleptByNone
\* The thread does not wait afterwards.
<1>c. ASSUME thread' # "waiting" PROVE NoneOverslept'
  BY <1>c DEF NoneOverslept
<1>1. ASSUME NEW t \in Timers, Entering(t) PROVE NoneOverslept'
  <2>1. /\ entries' = {e \in entries : e.timer # t}
        /\ holes' = holes \cup holder[t]
        /\ notified' = IF holder[t] # {} THEN Awakened ELSE notified
        /\ UNCHANGED <<thread, deadline, now>>
    BY <1>1, Entered DEF Places
  <2>2. holder[t] \subseteq {e.at : e \in entries}
    <3>1. ASSUME NEW a \in holder[t] PROVE a \in {e.at : e \in entries}
      <4>1. [timer |-> t, at |-> a] \in entries
        BY DEF TypeOK, Places, Holds
      <4> QED
        BY <4>1
    <3> QED
      BY <3>1
  <2>3. Times' \subseteq Times
    BY <2>1, <2>2 DEF Times
  <2>4. thread' = "waiting" /\ ~notified' => thread = "waiting" /\ ~notified
    BY <2>1 DEF Awakened
  <2> QED
    BY <1>0, <1>b, <2>1, <2>3, <2>4
<1>2. ASSUME NEW t \in Timers, InitCommon(t) PROVE NoneOverslept'
  <2>1. PICK d \in Delays : AddTimer(t, now + d)
    BY <1>2 DEF InitCommon
  <2>2. now + d \in Nat
    BY DelaysAssumption DEF TypeOK
  <2>3. UNCHANGED <<thread, deadline, now>>
    BY <1>2 DEF InitCommon, Others, waiting
  <2> QED
    BY <1>a, <2>1, <2>2, <2>3
<1>3. ASSUME NEW t \in Timers, CancelImpl(t) PROVE NoneOverslept'
  <2>1. UNCHANGED <<entries, holes, notified, thread, deadline, now>>
    BY <1>3 DEF CancelImpl, heap, Others, waiting
  <2> QED
    BY <1>0, <1>b, <2>1 DEF Times
<1>4. ASSUME NEW t \in Timers, SetDelay(t) PROVE NoneOverslept'
  <2>1. PICK d \in Delays : AddTimer(t, now + d) \/ UNCHANGED <<heap, notified>>
    BY <1>4 DEF SetDelay, Readd
  <2>2. now + d \in Nat
    BY DelaysAssumption DEF TypeOK
  <2>3. UNCHANGED <<thread, deadline, now>>
    BY <1>4 DEF SetDelay, Others, waiting
  <2>4. CASE UNCHANGED <<heap, notified>>
    <3>1. UNCHANGED <<entries, holes, notified>>
      BY <2>4 DEF heap
    <3> QED
      BY <1>0, <1>b, <2>3, <3>1 DEF Times
  <2> QED
    BY <1>a, <2>1, <2>2, <2>3, <2>4
<1>5. ASSUME NEW e \in posted, FireBegin(e) PROVE NoneOverslept'
  <2>1. UNCHANGED <<entries, holes, notified, thread, deadline, now>>
    BY <1>5 DEF FireBegin, heap, waiting, environment
  <2> QED
    BY <1>0, <1>b, <2>1 DEF Times
<1>6. ASSUME NEW e \in firing, FireEnd(e) PROVE NoneOverslept'
  <2>1. e.timer \in Timers
    BY DEF TypeOK, Event
  <2>2. UNCHANGED <<thread, deadline, now>>
    BY <1>6 DEF FireEnd, waiting, environment
  <2>3. \/ \E when \in Nat : AddTimer(e.timer, when)
        \/ UNCHANGED <<heap, notified>>
    <3> DEFINE t == e.timer
               next == (IF type[t] = "slack" THEN now ELSE timeout[t]) + delay[t]
    <3>1. next \in Nat
      BY <2>1 DEF TypeOK
    <3>2. AddTimer(t, next) \/ UNCHANGED <<heap, notified>>
      BY <1>6 DEF FireEnd
    <3> HIDE DEF next
    <3> QED
      BY <3>1, <3>2
  <2>4. CASE UNCHANGED <<heap, notified>>
    <3>1. UNCHANGED <<entries, holes, notified>>
      BY <2>4 DEF heap
    <3> QED
      BY <1>0, <1>b, <2>2, <3>1 DEF Times
  <2> QED
    BY <1>a, <2>1, <2>2, <2>3, <2>4
<1>7. CASE TakeFirst \/ Accepted \/ Refused
  BY <1>7, <1>c DEF TakeFirst, Accepted, Refused
<1>8. CASE Shutdown
  <2>1. /\ entries' = {} /\ holes' = {} /\ notified' = Awakened
        /\ UNCHANGED <<thread, deadline, now>>
    BY <1>8 DEF Shutdown, waiting
  <2>2. Times' = {}
    BY <2>1 DEF Times
  <2> QED
    BY <1>0, <1>b, <2>1, <2>2 DEF Awakened
<1>9. CASE Quiet
  <2>1. CASE StartWaiting
    BY <2>1, OversleepWait
  <2>2. CASE WakeUp \/ Leave
    BY <2>2, <1>c DEF WakeUp, Leave
  <2>3. CASE DoAfterSleep
    <3>1. notified' = Awakened /\ UNCHANGED <<entries, holes, thread, deadline, now>>
      BY <2>3 DEF DoAfterSleep, heap, waiting
    <3> QED
      BY <1>0, <1>b, <3>1 DEF Awakened, Times
  <2>4. CASE (\E t \in Timers : SetType(t)) \/ DoBeforeSleep \/ Tick \/ UNCHANGED vars
    <3>1. UNCHANGED <<entries, holes, notified, thread, deadline>>
      BY <2>4 DEF SetType, DoBeforeSleep, Tick, vars, heap, waiting, Others
    <3> QED
      BY <1>9, <1>b, <3>1, QuietStep DEF Times
  <2> QED
    BY <1>9, <2>1, <2>2, <2>3, <2>4 DEF Quiet
<1> QED
  BY <1>1, <1>2, <1>3, <1>4, <1>5, <1>6, <1>7, <1>8, <1>9, Steps

-----------------------------------------------------------------------------
(* The inductive invariant, and what follows from it *)

LEMMA InvInit == Init => IInv
<1> SUFFICES ASSUME Init PROVE IInv
  OBVIOUS
<1>1. TypeOK
  BY TypeInit
<1>2. /\ entries = {} /\ hand = {} /\ posted = {} /\ firing = {} /\ thread = "loop"
      /\ stopping = {}
      /\ \A t \in Timers : holder[t] = {} /\ call[t] = "none"
  BY DEF Init
<1>3. \A t \in Timers : ~callback[t] /\ ~lost[t]
  BY Zenon DEF Init
<1>4. \A t \in Timers : ~Queued(t) /\ ~Removed(t) /\ ~UnderWay(t)
  BY <1>2 DEF Queued, Removed, UnderWay
<1>5. Places
  BY <1>2, <1>4 DEF Places, Holds, Called, OneArming, NoFuture, HandOnce
<1>6. LostMeans /\ NeverForgotten /\ StoppingLate
  BY <1>2, <1>3, <1>4, Zenon DEF LostMeans, NeverForgotten, StoppingLate
<1>7. Early /\ Timely /\ NoneOverslept
  BY <1>2, <1>4 DEF Early, Timely, NoneOverslept
<1> QED
  BY <1>1, <1>5, <1>6, <1>7 DEF IInv

LEMMA InvStep == IInv /\ [Next]_vars => IInv'
<1> SUFFICES ASSUME IInv, [Next]_vars PROVE IInv'
  OBVIOUS
<1>1. TypeOK /\ Places /\ Kept /\ Early /\ Timely /\ NoneOverslept
  BY DEF IInv, Kept
<1>2. TypeOK' /\ Places' /\ Kept' /\ Early' /\ Timely' /\ NoneOverslept'
  BY <1>1, TypeStep, PlacesStep, KeptStep, EarlyStep, OversleepStep
<1> QED
  BY <1>2 DEF IInv, Kept

\* The invariant holds in every reachable state.
THEOREM Invariance == Spec => []IInv
  BY InvInit, InvStep, PTL DEF Spec

\* The fields of the timers, the heap and the events keep their types.
THEOREM TypeCorrect == Spec => []TypeOK
<1>1. IInv => TypeOK
  BY DEF IInv
<1> QED
  BY Invariance, <1>1, PTL

\* The present arming of a timer is in one place: the timer is in the heap once, or
\* one event of its present generation is under way, and never both, whichever
\* thread cancels or arms it while the timer thread and the target go on.
THEOREM ArmedOnce == Spec => []OneArming
<1>1. IInv => OneArming
  BY DEF IInv, Places
<1> QED
  BY Invariance, <1>1, PTL

\* A timer with a callback is in the heap, is being put back by SetDelay, or has an
\* event under way, unless a target or the shutdown turned its arming away; and a
\* timer without a callback is nowhere.
THEOREM NothingForgotten == Spec => []NeverForgotten
<1>1. IInv => NeverForgotten
  BY DEF IInv
<1> QED
  BY Invariance, <1>1, PTL

\* The timer thread does not wait past the time of a timer in the heap without a
\* notification that ends the wait.
THEOREM WakesInTime == Spec => []NoOversleep
<1>1. IInv => NoOversleep
  BY DEF IInv, NoneOverslept, NoOversleep, Times
<1> QED
  BY Invariance, <1>1, PTL

\* A callback starts only when the time has come that was promised when its timer
\* was armed last.
THEOREM NeverEarly == Spec => NotEarly
<1>1. ASSUME IInv, [Next]_vars, NEW e \in firing' \ firing
      PROVE  promised[e.timer] <= now
  <2>1. e \in posted /\ FireBegin(e) /\ e.generation = generation[e.timer]
    <3>1. TypeOK /\ Holds
      BY <1>1 DEF IInv, Places
    <3>2. ASSUME NEW other \in posted, FireBegin(other)
          PROVE  other = e /\ e.generation = generation[e.timer]
      BY <1>1, <3>2 DEF FireBegin
    <3>3. ~\E t \in Timers : Entering(t)
      BY <1>1, <3>1, Entered
    <3>4. ~\E t \in Timers : InitCommon(t) \/ CancelImpl(t) \/ SetDelay(t)
      BY <1>1 DEF InitCommon, CancelImpl, SetDelay, Others
    <3>5. ~\E other \in firing : FireEnd(other)
      BY <1>1 DEF FireEnd
    <3>6. ~(TakeFirst \/ Accepted \/ Refused \/ Shutdown)
      BY <1>1 DEF TakeFirst, Accepted, Refused, Shutdown
    <3>7. ~Quiet
      BY <1>1, <3>1, QuietStep
    <3> QED
      BY <1>1, <3>1, <3>2, <3>3, <3>4, <3>5, <3>6, <3>7, Steps
  <2>2. e.timer \in Timers /\ e = Current(e.timer)
    BY <1>1, <2>1 DEF IInv, TypeOK, Event, Current
  <2> QED
    BY <1>1, <2>1, <2>2 DEF IInv, Early
<1>2. IInv /\ [Next]_vars => [\A e \in firing' \ firing : promised[e.timer] <= now]_vars
  BY <1>1
<1> QED
  BY Invariance, <1>2, PTL DEF Spec, NotEarly

=============================================================================
