---------------------------- MODULE TimerThread ----------------------------
(***************************************************************************)
(* Timers (xpcom/threads/TimerThread.cpp, nsTimerImpl.cpp): a thread keeps *)
(* the armed timers in a heap, sleeps until the first is due and sends an  *)
(* nsTimerEvent to the timer's target, which runs the callback in Fire.    *)
(*                                                                         *)
(* There are two kinds of locks, taken in this order: mMutex of a timer,   *)
(* and mMonitor of the timer thread.  Init, Cancel and SetDelay hold       *)
(* mMutex over two critical sections of mMonitor, and each is two actions  *)
(* here.  A callback runs without a lock between FireBegin and FireEnd.    *)
(* What mMonitor guards (the heap, mHolder, mWaiting) and what mMutex      *)
(* guards (the timer's fields) change only in the actions of the holders.  *)
(*                                                                         *)
(* Time is a counter that may advance between any two steps.  Left out are *)
(* the rounding of waits, chaos mode, and the reference counts of timers.  *)
(***************************************************************************)
EXTENDS Integers, FiniteSets

CONSTANTS
  Timers,    \* the nsTimerImpl objects
  Delays,    \* the delays asked for
  MaxTime,   \* bound of the clock
  MaxCalls   \* bound of the calls made of the timers and of the timer thread

ASSUME DelaysAssumption == Delays \subseteq Nat
ASSUME BoundsAssumption == MaxTime \in Nat /\ MaxCalls \in Nat

Types == {"oneShot", "slack", "precise"}

VARIABLES
  callback,    \* mCallback is not of type Unknown
  generation,  \* mGeneration
  type,        \* mType
  delay,       \* mDelay
  timeout,     \* mTimeout
  holder,      \* mHolder: the times of the entry that holds the timer, if any
  call,        \* what the thread that has mMutex is doing, between two sections
  entries,     \* the live entries of mTimers
  holes,       \* the times of the entries of mTimers that were forgotten
  thread,      \* the timer thread
  hand,        \* the event it is dispatching, if any
  deadline,    \* when its Wait times out, if ever
  notified,    \* mMonitor has been notified since it began to wait
  sleeping,    \* mSleeping
  shutdown,    \* mShutdown
  stopping,    \* the timers that Shutdown has yet to cancel
  posted,      \* the timer events in the queues of the targets
  firing,      \* the timer events whose callback is running (mFiring)
  now,         \* TimeStamp::Now()
  calls,       \* how many calls were made
  lost,        \* history: the arming of the timer was turned away or dropped
  promised     \* history: when the callback may run at the earliest

fields == <<callback, generation, type, delay, timeout>>
heap == <<entries, holes, holder>>
waiting == <<thread, hand, deadline>>
environment == <<sleeping, shutdown, stopping, now, calls>>
vars == <<fields, heap, call, waiting, notified, environment, posted, firing, lost,
          promised>>

\* An nsTimerEvent, with the generation it was made for.
Event == [timer : Timers, generation : Nat]
Entry == [timer : Timers, at : Nat]

TypeOK ==
  /\ callback \in [Timers -> BOOLEAN]
  /\ generation \in [Timers -> Nat]
  /\ type \in [Timers -> Types]
  /\ delay \in [Timers -> Nat] /\ timeout \in [Timers -> Nat]
  /\ holder \in [Timers -> SUBSET Nat]
  /\ call \in [Timers -> {"none", "init", "cancel", "delay", "readd"}]
  /\ entries \in SUBSET Entry /\ holes \in SUBSET Nat
  /\ thread \in {"loop", "again", "dispatching", "waiting", "ended"}
  /\ hand \in SUBSET Event /\ posted \in SUBSET Event /\ firing \in SUBSET Event
  /\ deadline \in SUBSET Nat
  /\ notified \in BOOLEAN /\ sleeping \in BOOLEAN /\ shutdown \in BOOLEAN
  /\ stopping \in SUBSET Timers
  /\ now \in Nat /\ calls \in Nat
  /\ lost \in [Timers -> BOOLEAN] /\ promised \in [Timers -> Nat]

Init ==
  /\ callback = [t \in Timers |-> FALSE]
  /\ generation = [t \in Timers |-> 0]
  /\ type = [t \in Timers |-> "oneShot"]
  /\ delay = [t \in Timers |-> 0] /\ timeout = [t \in Timers |-> 0]
  /\ holder = [t \in Timers |-> {}]
  /\ call = [t \in Timers |-> "none"]
  /\ entries = {} /\ holes = {}
  /\ thread = "loop" /\ hand = {} /\ deadline = {} /\ notified = FALSE
  /\ sleeping = FALSE /\ shutdown = FALSE /\ stopping = {}
  /\ posted = {} /\ firing = {}
  /\ now = 0 /\ calls = 0
  /\ lost = [t \in Timers |-> FALSE] /\ promised = [t \in Timers |-> 0]

-----------------------------------------------------------------------------
(* The heap, under mMonitor *)

Later(a, b) == IF a < b THEN b ELSE a

\* RemoveTimerInternal: the entry stays in mTimers without its timer.
Forget(t) ==
  /\ entries' = entries \ {[timer |-> t, at |-> a] : a \in holder[t]}
  /\ holes' = holes \cup holder[t]
  /\ holder' = [holder EXCEPT ![t] = {}]

\* Mutant: the timer thread is not told of what has changed.
NotAwakened == notified

\* Notify, if the thread waits.
Awakened == notified \/ thread = "waiting"

\* RemoveTimer
RemoveTimer(t) ==
  /\ Forget(t)
  /\ notified' = IF holder[t] # {} THEN Awakened ELSE notified

\* std::push_heap puts an entry in front of the others only if it is earlier.
ComesFirst(at) == \A other \in holes \cup {e.at : e \in entries} : at < other

\* AddTimer, for a timer whose mTimeout is when.
AddTimer(t, when) ==
  LET at == Later(now, when) IN
  /\ lost' = [lost EXCEPT ![t] = shutdown]
  /\ IF shutdown
     THEN UNCHANGED <<heap, notified>>
     ELSE /\ entries' = entries \cup {[timer |-> t, at |-> at]}
          /\ holder' = [holder EXCEPT ![t] = {at}]
          /\ notified' = IF ComesFirst(at) THEN Awakened ELSE notified
          /\ UNCHANGED holes

-----------------------------------------------------------------------------
(* The operations on a timer, by any thread *)

\* A call takes mMutex and removes the timer from the timer thread.
Enter(t, c) ==
  /\ call[t] = "none"
  /\ call' = [call EXCEPT ![t] = c]
  /\ RemoveTimer(t)

CanCall == calls < MaxCalls
Count == calls' = calls + 1

Others == <<waiting, sleeping, shutdown, stopping, now, firing>>

\* The Init functions, once their arguments are checked.
InitBegin(t) ==
  /\ CanCall /\ Count
  /\ Enter(t, "init")
  /\ UNCHANGED <<fields, Others, posted, lost, promised>>

\* Mutant: the armings are not told apart.
SameGeneration(t) == generation[t]
NextGeneration(t) == generation[t] + 1

\* InitCommon, after RemoveTimer.
InitCommon(t) ==
  /\ call[t] = "init"
  /\ call' = [call EXCEPT ![t] = "none"]
  /\ \E d \in Delays, y \in Types :
       /\ callback' = [callback EXCEPT ![t] = TRUE]
       /\ generation' = [generation EXCEPT ![t] = NextGeneration(t)]
       /\ type' = [type EXCEPT ![t] = y]
       /\ delay' = [delay EXCEPT ![t] = d]
       /\ timeout' = [timeout EXCEPT ![t] = now + d]
       /\ promised' = [promised EXCEPT ![t] = now + d]
       /\ AddTimer(t, now + d)
  /\ UNCHANGED <<Others, calls, posted>>

CancelBegin(t) ==
  /\ CanCall /\ Count
  /\ Enter(t, "cancel")
  /\ UNCHANGED <<fields, Others, posted, lost, promised>>

\* CancelImpl, after RemoveTimer.
CancelImpl(t) ==
  /\ call[t] = "cancel"
  /\ call' = [call EXCEPT ![t] = "none"]
  /\ callback' = [callback EXCEPT ![t] = FALSE]
  /\ generation' = [generation EXCEPT ![t] = NextGeneration(t)]
  /\ lost' = [lost EXCEPT ![t] = FALSE]
  /\ UNCHANGED <<type, delay, timeout, heap, notified, Others, calls, posted, promised>>

Repeating(t) == type[t] # "oneShot"

\* SetDelay is refused on a one-shot timer that is not set up.
SetDelayBegin(t) ==
  /\ CanCall /\ Count
  /\ callback[t] \/ Repeating(t)
  /\ Enter(t, IF holder[t] # {} THEN "readd" ELSE "delay")
  /\ UNCHANGED <<fields, Others, posted, lost, promised>>

\* Mutant: a timer that was removed is not put back.
NotReadded(t, when) == UNCHANGED <<heap, notified, lost>>
Readd(t, when) == AddTimer(t, when)

\* SetDelay, after RemoveTimer.  Of an event under way it promises nothing.
SetDelay(t) ==
  /\ call[t] \in {"delay", "readd"}
  /\ call' = [call EXCEPT ![t] = "none"]
  /\ \E d \in Delays :
       /\ delay' = [delay EXCEPT ![t] = d]
       /\ timeout' = [timeout EXCEPT ![t] = now + d]
       /\ \/ /\ call[t] = "readd"
             /\ Readd(t, now + d)
             /\ promised' = [promised EXCEPT ![t] = now + d]
          \/ /\ call[t] = "delay"
             /\ promised' = [promised EXCEPT ![t] = 0]
             /\ UNCHANGED <<heap, notified, lost>>
  /\ UNCHANGED <<callback, generation, type, Others, calls, posted>>

SetType(t) ==
  /\ CanCall /\ Count
  /\ call[t] = "none"
  /\ \E y \in Types : type' = [type EXCEPT ![t] = y]
  /\ UNCHANGED <<callback, generation, delay, timeout, heap, call, notified, Others,
                 posted, lost, promised>>

-----------------------------------------------------------------------------
(* The target *)

\* nsTimerEvent::Run, Fire up to the callback.
FireBegin(e) ==
  /\ e \in posted
  /\ call[e.timer] = "none"
  /\ posted' = posted \ {e}
  /\ firing' = firing \cup (IF e.generation = generation[e.timer] THEN {e} ELSE {})
  /\ UNCHANGED <<fields, heap, call, waiting, notified, environment, lost, promised>>

\* Mutant: a callback that has armed its timer anew is taken for one that has not.
StillArmed(e) == TRUE

\* The timer was neither re-initialized nor canceled.
NotRearmed(e) == e.generation = generation[e.timer]

\* The end of Fire: a repeating timer is added again, a one-shot is cleared.
FireEnd(e) ==
  LET t == e.timer
      next == (IF type[t] = "slack" THEN now ELSE timeout[t]) + delay[t] IN
  /\ e \in firing
  /\ call[t] = "none"
  /\ firing' = firing \ {e}
  /\ \/ /\ NotRearmed(e) /\ Repeating(t)
        /\ timeout' = [timeout EXCEPT ![t] = next]
        /\ promised' = [promised EXCEPT ![t] = next]
        /\ AddTimer(t, next)
        /\ UNCHANGED callback
     \/ /\ NotRearmed(e) /\ ~Repeating(t)
        /\ callback' = [callback EXCEPT ![t] = FALSE]
        /\ UNCHANGED <<heap, notified, timeout, lost, promised>>
     \/ /\ ~NotRearmed(e)
        /\ UNCHANGED <<callback, heap, notified, timeout, lost, promised>>
  /\ UNCHANGED <<generation, type, delay, call, waiting, environment, posted>>

\* nsTimerEvent::Cancel: a target that shuts down cancels the timer, whichever
\* generation the event is of.
DiscardEvent(e) ==
  /\ CanCall /\ Count
  /\ e \in posted
  /\ posted' = posted \ {e}
  /\ Enter(e.timer, "cancel")
  /\ UNCHANGED <<fields, Others, lost, promised>>

-----------------------------------------------------------------------------
(* TimerThread::Run *)

First == {e \in entries : \A other \in entries : e.at <= other.at}

\* RemoveLeadingCanceledTimersInternal
Pruned == {h \in holes : \E e \in entries : e.at < h}

\* The thread looks at the heap: it does not while the machine sleeps, unless
\* it has just dispatched an event.
Looking ==
  /\ ~shutdown
  /\ thread = "again" \/ (thread = "loop" /\ ~sleeping)

Ready(e) == timeout[e.timer] <= now

\* The first timer is due: Take, RemoveFirstTimerInternal, the nsTimerEvent.
TakeFirst ==
  /\ Looking
  /\ holes' = Pruned
  /\ \E e \in First :
       /\ Ready(e)
       /\ entries' = entries \ {e}
       /\ holder' = [holder EXCEPT ![e.timer] = {}]
       /\ hand' = {[timer |-> e.timer, generation |-> generation[e.timer]]}
  /\ thread' = "dispatching"
  /\ UNCHANGED <<fields, call, deadline, notified, environment, posted, firing, lost,
                 promised>>

\* Mutant: the wait starts anew with the whole delay of the timer.
WaitsADelay == {now + delay[e.timer] : e \in First}

\* The wait ends when the first timer is due, or not by itself.
NextDeadline == {timeout[e.timer] : e \in First}

StartWaiting ==
  /\ \/ /\ Looking
        /\ \A e \in First : ~Ready(e)
        /\ holes' = Pruned
        /\ deadline' = NextDeadline
     \/ /\ ~shutdown /\ sleeping /\ thread = "loop"
        /\ deadline' = {now}
        /\ UNCHANGED holes
  /\ thread' = "waiting"
  /\ notified' = FALSE
  /\ UNCHANGED <<fields, entries, holder, call, hand, environment, posted, firing, lost,
                 promised>>

\* Wait returns, also spuriously.
WakeUp ==
  /\ thread = "waiting"
  /\ thread' = "loop"
  /\ deadline' = {}
  /\ notified' = FALSE
  /\ UNCHANGED <<fields, heap, call, hand, environment, posted, firing, lost, promised>>

\* PostTimerEvent: Dispatch, with mMonitor released, and the target takes it.
Accepted ==
  /\ thread = "dispatching"
  /\ thread' = "again"
  /\ posted' = posted \cup hand
  /\ hand' = {}
  /\ UNCHANGED <<fields, heap, call, deadline, notified, environment, firing, lost,
                 promised>>

\* The target refuses it, and the timer is removed, in whatever state it is now.
Refused ==
  /\ thread = "dispatching"
  /\ thread' = "again"
  /\ hand' = {}
  /\ \E e \in hand :
       /\ Forget(e.timer)
       /\ lost' = [lost EXCEPT ![e.timer] =
            @ \/ holder[e.timer] # {} \/ e.generation = generation[e.timer]]
  /\ UNCHANGED <<fields, call, deadline, notified, environment, posted, firing, promised>>

Leave ==
  /\ thread \in {"loop", "again"}
  /\ shutdown
  /\ thread' = "ended"
  /\ UNCHANGED <<fields, heap, call, hand, deadline, notified, environment, posted, firing,
                 lost, promised>>

-----------------------------------------------------------------------------
(* Shutdown, sleep and wake of the machine, and time *)

Shutdown ==
  /\ CanCall /\ Count
  /\ ~shutdown
  /\ shutdown' = TRUE
  /\ notified' = Awakened
  /\ stopping' = {e.timer : e \in entries}
  /\ entries' = {} /\ holes' = {}
  /\ holder' = [t \in Timers |-> IF t \in stopping' THEN {} ELSE holder[t]]
  /\ UNCHANGED <<fields, call, waiting, sleeping, now, posted, firing, lost, promised>>

\* Shutdown cancels what it took out of the heap, one timer after the other.
ShutdownCancel(t) ==
  /\ t \in stopping
  /\ stopping' = stopping \ {t}
  /\ Enter(t, "cancel")
  /\ UNCHANGED <<fields, waiting, sleeping, shutdown, now, calls, posted, firing, lost,
                 promised>>

DoBeforeSleep ==
  /\ CanCall /\ Count
  /\ sleeping' = TRUE
  /\ UNCHANGED <<fields, heap, call, waiting, notified, shutdown, stopping, now, posted,
                 firing, lost, promised>>

DoAfterSleep ==
  /\ CanCall /\ Count
  /\ sleeping' = FALSE
  /\ notified' = Awakened
  /\ UNCHANGED <<fields, heap, call, waiting, shutdown, stopping, now, posted, firing, lost,
                 promised>>

Tick ==
  /\ now < MaxTime
  /\ now' = now + 1
  /\ UNCHANGED <<fields, heap, call, waiting, notified, sleeping, shutdown, stopping, calls,
                 posted, firing, lost, promised>>

-----------------------------------------------------------------------------
Finishing(t) == InitCommon(t) \/ CancelImpl(t) \/ SetDelay(t)

TargetStep(t) ==
  \/ \E e \in posted : e.timer = t /\ FireBegin(e)
  \/ \E e \in firing : e.timer = t /\ FireEnd(e)

ThreadStep == TakeFirst \/ StartWaiting \/ WakeUp \/ Accepted \/ Refused \/ Leave

Next ==
  \/ \E t \in Timers :
       \/ InitBegin(t) \/ CancelBegin(t) \/ SetDelayBegin(t) \/ SetType(t)
       \/ Finishing(t) \/ TargetStep(t) \/ ShutdownCancel(t)
  \/ \E e \in posted : DiscardEvent(e)
  \/ ThreadStep
  \/ Shutdown \/ DoBeforeSleep \/ DoAfterSleep \/ Tick

Spec == Init /\ [][Next]_vars

\* A thread that has a lock lets it go, the targets run their events, Shutdown
\* goes through its timers, and the timer thread runs unless it waits, unnotified,
\* for a time that has not come.
Fairness ==
  /\ \A t \in Timers :
       WF_vars(Finishing(t)) /\ WF_vars(TargetStep(t)) /\ WF_vars(ShutdownCancel(t))
  /\ WF_vars(ThreadStep /\ (thread = "waiting" => notified \/ \E d \in deadline : d <= now))

FairSpec == Spec /\ Fairness

-----------------------------------------------------------------------------
(* Properties *)

\* Where the present arming of a timer is.
Current(t) == [timer |-> t, generation |-> generation[t]]
Queued(t) == \E e \in entries : e.timer = t
Removed(t) == call[t] = "readd"
UnderWay(t) == Current(t) \in hand \cup posted \cup firing

\* An arming is in one place: "we don't end up with the timer in the queue twice"
\* (nsTimerImpl.cpp:456-458), nor with an event under way for what is queued.
OneArming ==
  /\ \A e, other \in entries : e.timer = other.timer => e = other
  /\ \A t \in Timers :
       /\ ~(UnderWay(t) /\ (Queued(t) \/ Removed(t)))
       /\ Current(t) \in hand => Current(t) \notin posted \cup firing
       /\ Current(t) \in posted => Current(t) \notin firing

\* A timer that has a callback is armed, and one that is armed has a callback:
\* a timer is never forgotten, unless a target or the shutdown turned it away.
NeverForgotten ==
  \A t \in Timers :
    call[t] \notin {"init", "cancel"} /\ t \notin stopping =>
      (callback[t] <=> Queued(t) \/ Removed(t) \/ UnderWay(t) \/ lost[t])

\* The timer thread does not sleep past a timer.
NoOversleep ==
  thread = "waiting" /\ ~notified =>
    \A e \in entries : \E d \in deadline : d <= Later(e.at, now)

\* A callback does not start before the delay is over that was given with it, or
\* since its last run: no event of a former arming is taken for one of the present.
NotEarly == [][\A e \in firing' \ firing : promised[e.timer] <= now]_vars

\* A timer that is due, or whose event is on its way, does not stay so: it fires,
\* or is re-initialized, canceled, put off or turned away, unless the machine goes
\* to sleep.
Due(t) ==
  \/ \E e \in entries : e.timer = t /\ e.at <= now
  \/ Current(t) \in hand \cup posted
EventuallyFires == \A t \in Timers : Due(t) ~> ~Due(t) \/ sleeping
=============================================================================
