------------------------ MODULE ThrottledEventQueue ------------------------
(***************************************************************************)
(* ThrottledEventQueue (xpcom/threads/ThrottledEventQueue.cpp): a queue    *)
(* that runs its events on a base event target, one at a time, by an       *)
(* executor that sends itself to the base again for the next event, and    *)
(* that can be paused with an executor in flight.                          *)
(*                                                                         *)
(* Each action is one critical section of Inner::mMutex.  The events run   *)
(* outside of it and may spin the base's loop, so the next executor may    *)
(* run before an event is over; nothing here depends on when it is.        *)
(***************************************************************************)
EXTENDS Integers, Sequences

CONSTANTS
  Events,  \* the runnables dispatched, each at most once
  Waiters, \* the threads that call AwaitIdle
  AwaitPaused \* do they call it on a paused queue, as the test AwaitIdlePaused
              \* does and ThrottledEventQueue.h:83 forbids?

VARIABLES
  drained,   \* is this a queue that stays paused, its client taking the events
             \* out by GetEvent, as DocGroup's queue of iframe messages is?
  queue,     \* mEventQueue
  executor,  \* mExecutor is not null
  inBase,    \* how often the executor is in the base target's queue
  baseOpen,  \* the base target takes events
  paused,    \* mIsPaused
  waiter,    \* per thread that waits: waiting in AwaitIdle, or returned
  woken,     \* the waiting threads notified since they began to wait
  fate       \* history: what became of each event

waitVars == <<waiter, woken>>
vars ==
  <<drained, queue, executor, inBase, baseOpen, paused, waiter, woken, fate>>

TypeOK ==
  /\ queue \in Seq(Events)
  /\ executor \in BOOLEAN /\ baseOpen \in BOOLEAN
  /\ paused \in BOOLEAN /\ drained \in BOOLEAN
  /\ inBase \in 0 .. 1
  /\ waiter \in [Waiters -> {"new", "waiting", "returned"}]
  /\ woken \in SUBSET Waiters
  /\ fate \in [Events -> {"new", "queued", "refused", "taken"}]

Init ==
  /\ queue = <<>>
  /\ executor = FALSE
  /\ inBase = 0
  /\ baseOpen = TRUE
  /\ drained \in BOOLEAN
  /\ paused = drained
  /\ waiter = [a \in Waiters |-> "new"]
  /\ woken = {}
  /\ fate = [e \in Events |-> "new"]

-----------------------------------------------------------------------------
\* EnsureExecutor succeeds, or fails because the base target does.
Ensured ==
  /\ executor \/ baseOpen
  /\ executor' = TRUE
  /\ inBase' = IF executor THEN inBase ELSE inBase + 1
NotEnsured == ~executor /\ ~baseOpen

Accept(e) ==
  /\ queue' = Append(queue, e)
  /\ fate' = [fate EXCEPT ![e] = "queued"]

Dispatch(e) ==
  /\ fate[e] = "new"
  /\ \/ ~paused /\ Ensured /\ Accept(e)
     \/ paused /\ Accept(e) /\ UNCHANGED <<executor, inBase>>
     \/ /\ ~paused /\ NotEnsured
        /\ fate' = [fate EXCEPT ![e] = "refused"]
        /\ UNCHANGED <<queue, executor, inBase>>
  /\ UNCHANGED <<drained, baseOpen, paused, waitVars>>

\* Mutant: the executor that found the queue paused is not forgotten.
KeepExecutor ==
  /\ inBase > 0
  /\ paused
  /\ inBase' = inBase - 1
  /\ UNCHANGED <<drained, queue, executor, baseOpen, paused, waitVars, fate>>

\* ExecuteRunnable on a paused queue.
ReturnPaused ==
  /\ inBase > 0
  /\ paused
  /\ inBase' = inBase - 1
  /\ executor' = FALSE
  /\ UNCHANGED <<drained, queue, baseOpen, paused, waitVars, fate>>

\* Mutant: the newest event is taken.
TakeNewest ==
  /\ queue # <<>>
  /\ queue' = SubSeq(queue, 1, Len(queue) - 1)
  /\ fate' = [fate EXCEPT ![queue[Len(queue)]] = "taken"]

TakeEvent ==
  /\ queue # <<>>
  /\ queue' = Tail(queue)
  /\ fate' = [fate EXCEPT ![Head(queue)] = "taken"]

Waiting == {a \in Waiters : waiter[a] = "waiting"}

\* Mutant: nobody is notified.
NobodyNotified == woken
NotifyAll == Waiting

\* ExecuteRunnable otherwise.  The next executor goes out before the event is
\* run; the base, which is running this one, takes it.
ExecuteRunnable ==
  /\ inBase > 0
  /\ ~paused
  /\ TakeEvent
  /\ \/ Tail(queue) # <<>> /\ UNCHANGED <<executor, inBase, woken>>
     \/ /\ Tail(queue) = <<>>
        /\ executor' = FALSE
        /\ inBase' = inBase - 1
        /\ woken' = NotifyAll
  /\ UNCHANGED <<drained, baseOpen, paused, waiter>>

\* GetEvent takes an event from under the executor; DocGroup calls it for a
\* queue that is always paused.
GetEvent ==
  /\ drained
  /\ TakeEvent
  /\ UNCHANGED <<drained, executor, inBase, baseOpen, paused, waitVars>>

Pause ==
  /\ paused' = TRUE
  /\ UNCHANGED <<drained, queue, executor, inBase, baseOpen, waitVars, fate>>

\* Mutant: no executor is made for the events that came meanwhile.
ResumeOnly ==
  /\ ~drained
  /\ paused' = FALSE
  /\ UNCHANGED <<drained, queue, executor, inBase, baseOpen, waitVars, fate>>

\* SetIsPaused(false); without an executor for its events it stays paused.
Resume ==
  /\ ~drained
  /\ \/ queue = <<>> /\ paused' = FALSE /\ UNCHANGED <<executor, inBase>>
     \/ queue # <<>> /\ Ensured /\ paused' = FALSE
     \/ queue # <<>> /\ NotEnsured /\ UNCHANGED <<executor, inBase, paused>>
  /\ UNCHANGED <<drained, queue, baseOpen, waitVars, fate>>

\* The loop of AwaitIdle once it holds the lock.
Awaiting(a) ==
  /\ waiter' = [waiter EXCEPT ![a] =
       IF executor \/ paused THEN "waiting" ELSE "returned"]
  /\ woken' = woken \ {a}
  /\ UNCHANGED <<drained, queue, executor, inBase, baseOpen, paused, fate>>

AwaitIdle(a) ==
  /\ waiter[a] = "new"
  /\ paused => AwaitPaused
  /\ Awaiting(a)

\* mIdleCondVar.Wait() returns, notified or spuriously.
WakeUp(a) == waiter[a] = "waiting" /\ Awaiting(a)

\* The base is a thread that ends: it has run all it took.
CloseBase ==
  /\ inBase = 0
  /\ baseOpen' = FALSE
  /\ UNCHANGED <<drained, queue, executor, inBase, paused, waitVars, fate>>

-----------------------------------------------------------------------------
Next ==
  \/ \E e \in Events : Dispatch(e)
  \/ ReturnPaused \/ ExecuteRunnable \/ GetEvent
  \/ Pause \/ Resume \/ CloseBase
  \/ \E a \in Waiters : AwaitIdle(a) \/ WakeUp(a)

Spec == Init /\ [][Next]_vars

\* The base runs what it took, and a notified thread gets the lock.
Fairness ==
  /\ WF_vars(ReturnPaused \/ ExecuteRunnable)
  /\ \A a \in Waiters : WF_vars(a \in woken /\ WakeUp(a))

FairSpec == Spec /\ Fairness

-----------------------------------------------------------------------------
(* Properties *)

\* "Whenever the queue is non-empty (and not paused), it keeps an 'executor'
\* runnable dispatched to the base event target" (ThrottledEventQueue.cpp
\* :36-37), and never more than one, however it is paused and resumed with one
\* in flight; "this should never fail" (:225-226) of the event it is to find.
OneExecutor ==
  /\ inBase = IF executor THEN 1 ELSE 0
  /\ ~paused => (executor <=> queue # <<>>)

\* The queue implements an event target.  It takes events as long as it is
\* paused, has an executor, or can get one.
Having(f) == {e \in Events : fate[e] = f}
Abstract ==
  INSTANCE EventTarget WITH
    Targets <- {"queue"},
    pending <- [t \in {"queue"} |-> queue],
    open <- IF paused \/ executor \/ baseOpen THEN {"queue"} ELSE {},
    delivered <- Having("taken"),
    refused <- Having("refused"),
    finished <- FALSE
ImplementsEventTarget == Abstract!Spec

\* Every event is run unless the queue is paused for good, or again and again:
\* an executor that finds the queue paused is made up for on resumption.
EventuallyRun ==
  <>[]~paused => \A e \in Events : fate[e] = "queued" ~> fate[e] = "taken"

\* Whoever waits for a queue that nobody pauses to be idle returns.
AwaitIdleReturns ==
  []~paused =>
    \A a \in Waiters : waiter[a] = "waiting" ~> waiter[a] = "returned"

\* ThrottledEventQueue.h:82, of AwaitIdle: "Block the current thread until the
\* queue is empty": no thread sleeps on although the queue is idle, not paused,
\* and nobody is about to wake it, also if the queue was paused meanwhile.
NoLostWakeup == \A a \in Waiting \ woken : executor \/ paused
=============================================================================
