--------------------------- MODULE LazyIdleThread ---------------------------
(***************************************************************************)
(* mozilla::LazyIdleThread (xpcom/threads/LazyIdleThread.cpp): an event    *)
(* target that creates a thread when it is given an event, stops it when   *)
(* it has been idle for a while, and creates another one when needed.      *)
(*                                                                         *)
(* All calls are made on the owning thread.  A call is split into actions  *)
(* where it releases mMutex, which guards the two counters and a flag, and *)
(* where it spins the event loop: ShutdownThread, in which any event of    *)
(* the owner may run until the thread is joined.  A counter and a dispatch *)
(* to the thread that follows it are one step, as the thread cannot tell.  *)
(* The thread works beside that; it sends the owner ScheduleTimer events   *)
(* and the shutdown ack.                                                   *)
(* Of nsThread only its queue, its observer and its end are kept (see      *)
(* ThreadShutdown), of the timer that Cancel is reliable on the thread it  *)
(* fires on (see TimerThread).  Creating a thread does not fail here.      *)
(***************************************************************************)
EXTENDS Integers, Sequences

CONSTANTS
  Tasks,       \* the runnables dispatched, each at most once
  MaxToggles   \* bound of the calls of DisableIdleTimeout

\* What else is dispatched to the thread: InitThread, CleanupThread, the shutdown
\* event of nsThread, and the runnable of EnableIdleTimeout.
Chores == {"init", "cleanup", "stop", "dummy"}

ASSUME TasksAssumption == Tasks \cap Chores = {}
ASSUME TogglesAssumption == MaxToggles \in Nat

VARIABLES
  hasThread,     \* mThread is not null
  pendingCount,  \* mPendingEventCount
  idleCount,     \* mIdleNotificationCount
  timer,         \* mIdleTimer: null, there but unset, or armed
  enabled,       \* mIdleTimeoutEnabled
  isShutdown,    \* mShutdown
  cleanedUp,     \* mThreadIsShuttingDown
  useQueue,      \* mQueuedRunnables is not null
  queued,        \* queuedRunnables, on the stack of ShutdownThread
  doing,         \* the call the owner is in the middle of
  spinning,      \* ShutdownThread spins the event loop
  acked,         \* the thread is joined, the loop is about to end
  mail,          \* what the thread has sent to the owner, in order
  real,          \* the nsThread
  queue,         \* its event queue
  observer,      \* the LazyIdleThread is its observer
  step,          \* what it is doing between two events
  toggles,       \* how often the idle timeout was disabled
  fate,          \* history: what became of each task
  owed,          \* history: the tasks accepted and not yet run, in the order of
                 \* the calls
  reentered      \* history: Shutdown was called while ShutdownThread was spinning

counters == <<pendingCount, idleCount, cleanedUp>>
owner == <<hasThread, timer, enabled, isShutdown, useQueue, queued, doing, spinning, acked,
           toggles>>
worker == <<real, queue, observer, step>>
vars == <<counters, owner, worker, mail, fate, owed, reentered>>

TypeOK ==
  /\ hasThread \in BOOLEAN /\ enabled \in BOOLEAN /\ isShutdown \in BOOLEAN
  /\ cleanedUp \in BOOLEAN /\ useQueue \in BOOLEAN /\ spinning \in BOOLEAN
  /\ acked \in BOOLEAN /\ observer \in BOOLEAN /\ reentered \in BOOLEAN
  /\ pendingCount \in Int /\ idleCount \in Int /\ toggles \in Nat
  /\ timer \in {"null", "unset", "armed"}
  /\ doing \in {"nothing", "enabling", "stopping", "stoppingAgain"}
  /\ queued \in Seq(Tasks \cup Chores)
  /\ queue \in Seq(Tasks \cup Chores)
  /\ mail \in Seq({"schedule", "ack"})
  /\ real \in {"none", "alive", "stopped", "ended"}
  /\ step \in {"idle", "after", "notify"}
  /\ fate \in [Tasks -> {"new", "accepted", "refused", "run"}]
  /\ owed \in Seq(Tasks)

Init ==
  /\ hasThread = FALSE /\ timer = "null" /\ enabled = TRUE /\ isShutdown = FALSE
  /\ pendingCount = 0 /\ idleCount = 0 /\ cleanedUp = FALSE
  /\ useQueue = FALSE /\ queued = <<>> /\ doing = "nothing" /\ spinning = FALSE /\ acked = FALSE
  /\ mail = <<>>
  /\ real = "none" /\ queue = <<>> /\ observer = FALSE /\ step = "idle"
  /\ toggles = 0
  /\ fate = [e \in Tasks |-> "new"] /\ owed = <<>> /\ reentered = FALSE

-----------------------------------------------------------------------------
(* Dispatch *)

\* EnsureThread makes a timer and a thread whose first event is InitThread; then
\* PreDispatch and the dispatch to the thread, for each of the events.
Post(events) ==
  /\ hasThread' = TRUE
  /\ pendingCount' = pendingCount + Len(events)
  /\ \/ /\ hasThread
        /\ queue' = queue \o events
        /\ UNCHANGED <<timer, real, observer>>
     \/ /\ ~hasThread
        /\ queue' = <<"init">> \o events
        /\ timer' = "unset" /\ real' = "alive" /\ observer' = FALSE

\* Mutant: nothing is kept for later.
NeverQueues == FALSE

\* While the thread is being stopped, events are kept for the next one.
UseRunnableQueue == useQueue

\* Dispatch, if the target is not shut down.
Accept(event) ==
  \/ /\ UseRunnableQueue
     /\ queued' = Append(queued, event)
     /\ UNCHANGED <<hasThread, pendingCount, timer, real, queue, observer>>
  \/ /\ ~UseRunnableQueue
     /\ Post(<<event>>)
     /\ UNCHANGED queued

Dispatch(e) ==
  /\ doing = "nothing"
  /\ fate[e] = "new"
  /\ \/ /\ isShutdown
        /\ fate' = [fate EXCEPT ![e] = "refused"]
        /\ UNCHANGED <<hasThread, pendingCount, timer, real, queue, observer, queued, owed>>
     \/ /\ ~isShutdown
        /\ fate' = [fate EXCEPT ![e] = "accepted"]
        /\ owed' = Append(owed, e)
        /\ Accept(e)
  /\ UNCHANGED <<idleCount, cleanedUp, enabled, isShutdown, useQueue, doing, spinning,
                 acked, toggles, step, mail, reentered>>

\* A pretended event keeps the timer from firing.
DisableIdleTimeout ==
  /\ doing = "nothing"
  /\ toggles < MaxToggles
  /\ toggles' = toggles + 1
  /\ enabled
  /\ enabled' = FALSE
  /\ timer' = IF timer = "armed" THEN "unset" ELSE timer
  /\ pendingCount' = pendingCount + 1
  /\ UNCHANGED <<idleCount, cleanedUp, hasThread, isShutdown, useQueue, queued, doing,
                 spinning, acked, worker, mail, fate, owed, reentered>>

EnableIdleTimeout ==
  /\ doing = "nothing"
  /\ ~enabled
  /\ enabled' = TRUE
  /\ pendingCount' = pendingCount - 1
  /\ doing' = IF hasThread /\ ~isShutdown THEN "enabling" ELSE "nothing"
  /\ UNCHANGED <<idleCount, cleanedUp, hasThread, timer, isShutdown, useQueue, queued,
                 spinning, acked, toggles, worker, mail, fate, owed, reentered>>

\* A runnable that does nothing makes the thread find itself idle.
DispatchDummy ==
  /\ doing = "enabling"
  /\ doing' = "nothing"
  /\ Accept("dummy")
  /\ UNCHANGED <<idleCount, cleanedUp, enabled, isShutdown, useQueue, spinning, acked,
                 toggles, step, mail, fate, owed, reentered>>

-----------------------------------------------------------------------------
(* The thread *)

\* ProcessNextEvent up to the end of Run.  AfterProcessNextEvent is called on the
\* observer there was before: for CleanupThread still, for InitThread not yet.
RunEvent ==
  /\ real \in {"alive", "stopped"}
  /\ step = "idle"
  /\ queue # <<>>
  /\ queue' = Tail(queue)
  /\ LET event == Head(queue) IN
     /\ observer' = (event = "init" \/ (observer /\ event # "cleanup"))
     /\ cleanedUp' = (cleanedUp \/ event = "cleanup")
     /\ real' = IF event = "stop" THEN "stopped" ELSE real
     /\ fate' = [e \in Tasks |-> IF e = event THEN "run" ELSE fate[e]]
     /\ owed' = IF event \in Tasks THEN Tail(owed) ELSE owed
  /\ step' = IF observer THEN "after" ELSE "idle"
  /\ UNCHANGED <<pendingCount, idleCount, owner, mail, reentered>>

AfterProcessNextEvent ==
  /\ step = "after"
  /\ pendingCount' = pendingCount - 1
  /\ \/ /\ ~cleanedUp /\ pendingCount' = 0
        /\ idleCount' = idleCount + 1
        /\ step' = "notify"
     \/ /\ cleanedUp \/ pendingCount' # 0
        /\ step' = "idle"
        /\ UNCHANGED idleCount
  /\ UNCHANGED <<cleanedUp, owner, real, queue, observer, mail, fate, owed, reentered>>

\* The rest of AfterProcessNextEvent, without the lock.
DispatchScheduleTimer ==
  /\ step = "notify"
  /\ step' = "idle"
  /\ mail' = Append(mail, "schedule")
  /\ UNCHANGED <<counters, owner, real, queue, observer, fate, owed, reentered>>

\* The thread was told to stop and has run all there was.
EndThread ==
  /\ real = "stopped"
  /\ step = "idle"
  /\ queue = <<>>
  /\ real' = "ended"
  /\ mail' = Append(mail, "ack")
  /\ UNCHANGED <<counters, owner, queue, observer, step, fate, owed, reentered>>

-----------------------------------------------------------------------------
(* The owner's events *)

\* Mutant: there is nothing to be done without a timer.
CountedOnlyWithTimer == IF timer = "null" THEN idleCount ELSE idleCount - 1
OneNotificationLess == idleCount - 1

\* Mutant: the notification at hand is counted, too.
ScheduleBeforeCounting == idleCount = 0 /\ pendingCount = 0
ShouldSchedule == idleCount = 1 /\ pendingCount = 0

ScheduleTimer ==
  /\ doing = "nothing"
  /\ mail # <<>> /\ Head(mail) = "schedule"
  /\ mail' = Tail(mail)
  /\ idleCount' = OneNotificationLess
  /\ timer' = IF timer = "null" THEN "null" ELSE IF ShouldSchedule THEN "armed" ELSE "unset"
  /\ UNCHANGED <<pendingCount, cleanedUp, hasThread, enabled, isShutdown, useQueue, queued,
                 doing, spinning, acked, toggles, worker, fate, owed, reentered>>

\* ShutdownThread up to CleanupThread: the idle observer may dispatch an event.
BeginShutdownThread(last) ==
  /\ timer' = "null"
  /\ \/ /\ hasThread
        /\ doing' = "stopping"
        /\ queue' = queue \o last
        /\ pendingCount' = pendingCount + Len(last)
     \/ /\ ~hasThread
        /\ UNCHANGED <<doing, queue, pendingCount>>

\* The timer fires, in vain if there was an event since it was set.
Notify ==
  /\ doing = "nothing"
  /\ timer = "armed"
  /\ \/ /\ pendingCount # 0 \/ idleCount # 0
        /\ timer' = "unset"
        /\ UNCHANGED <<pendingCount, doing, queue, fate, owed>>
     \/ /\ pendingCount = 0 /\ idleCount = 0
        /\ \/ BeginShutdownThread(<<>>) /\ UNCHANGED <<fate, owed>>
           \/ \E e \in Tasks :
                /\ fate[e] = "new"
                /\ fate' = [fate EXCEPT ![e] = "accepted"]
                /\ owed' = Append(owed, e)
                /\ BeginShutdownThread(<<e>>)
  /\ UNCHANGED <<idleCount, cleanedUp, hasThread, enabled, isShutdown, useQueue, queued,
                 spinning, acked, toggles, real, observer, step, mail, reentered>>

\* Shutdown, by the owner or by xpcom-shutdown-threads; what the idle observer
\* dispatches now is refused.
Shutdown ==
  /\ doing = "nothing" /\ ~spinning
  /\ isShutdown' = TRUE
  /\ BeginShutdownThread(<<>>)
  /\ UNCHANGED <<idleCount, cleanedUp, hasThread, enabled, useQueue, queued, spinning,
                 acked, toggles, real, observer, step, mail, fate, owed, reentered>>

\* CleanupThread is dispatched and the thread told to stop; the owner spins.
StopThread ==
  /\ doing = "stopping"
  /\ doing' = "nothing"
  /\ queue' = queue \o <<"cleanup", "stop">>
  /\ pendingCount' = pendingCount + 1
  /\ useQueue' = TRUE /\ spinning' = TRUE
  /\ UNCHANGED <<idleCount, cleanedUp, hasThread, timer, enabled, isShutdown, queued,
                 acked, toggles, real, observer, step, mail, fate, owed, reentered>>

\* Shutdown called by an event that runs while ShutdownThread spins: CleanupThread
\* is dispatched once more, if the thread still takes it.
ShutdownAgain ==
  /\ doing = "nothing" /\ spinning
  /\ isShutdown' = TRUE
  /\ reentered' = TRUE
  /\ hasThread
  /\ pendingCount' = pendingCount + 1
  /\ \/ /\ real # "ended"
        /\ queue' = Append(queue, "cleanup")
        /\ doing' = "stoppingAgain"
     \/ /\ real = "ended" /\ ~reentered
        /\ UNCHANGED <<queue, doing>>
  /\ UNCHANGED <<idleCount, cleanedUp, hasThread, timer, enabled, useQueue, queued,
                 spinning, acked, toggles, real, observer, step, mail, fate, owed>>

\* Shutdown of the nsThread does not wait, as it is under way, and what the outer
\* call has set is reset.
ForgetThread ==
  /\ doing = "stoppingAgain"
  /\ doing' = "nothing"
  /\ useQueue' = FALSE /\ hasThread' = FALSE /\ cleanedUp' = FALSE
  /\ UNCHANGED <<pendingCount, idleCount, timer, enabled, isShutdown, queued, spinning,
                 acked, toggles, worker, mail, fate, owed, reentered>>

\* The shutdown ack: the thread is joined.
ReceiveAck ==
  /\ doing = "nothing"
  /\ mail # <<>> /\ Head(mail) = "ack"
  /\ mail' = Tail(mail)
  /\ acked' = TRUE
  /\ UNCHANGED <<counters, hasThread, timer, enabled, isShutdown, useQueue, queued, doing,
                 spinning, toggles, worker, fate, owed, reentered>>

\* Mutant: what was kept is not dispatched again.
KeptForNobody == <<>>
Kept == queued

\* The rest of ShutdownThread.  After a Shutdown what was kept never runs; else
\* it is dispatched again, which needs a new thread.
FinishShutdownThread ==
  /\ doing = "nothing" /\ spinning /\ acked
  /\ spinning' = FALSE /\ acked' = FALSE /\ useQueue' = FALSE /\ cleanedUp' = FALSE
  /\ \/ /\ Kept = <<>> \/ isShutdown
        /\ hasThread' = FALSE /\ real' = "none"
        /\ queued' = IF isShutdown THEN queued ELSE <<>>
        /\ UNCHANGED <<pendingCount, timer, queue, observer>>
     \/ /\ Kept # <<>> /\ ~isShutdown
        /\ hasThread' = TRUE /\ real' = "alive"
        /\ queued' = <<>>
        /\ queue' = <<"init">> \o Kept
        /\ pendingCount' = pendingCount + Len(Kept)
        /\ timer' = "unset" /\ observer' = FALSE
  /\ UNCHANGED <<idleCount, enabled, isShutdown, doing, toggles, step, mail, fate, owed,
                 reentered>>

-----------------------------------------------------------------------------
ThreadStep == RunEvent \/ AfterProcessNextEvent \/ DispatchScheduleTimer \/ EndThread
OwnerStep ==
  \/ DispatchDummy \/ StopThread \/ ForgetThread
  \/ ScheduleTimer \/ ReceiveAck \/ FinishShutdownThread

Next ==
  \/ \E e \in Tasks : Dispatch(e)
  \/ DisableIdleTimeout \/ EnableIdleTimeout
  \/ Shutdown \/ ShutdownAgain
  \/ ThreadStep \/ OwnerStep \/ Notify

Spec == Init /\ [][Next]_vars

\* Both threads run their events, and a timer that is armed fires.
Fairness == WF_vars(ThreadStep) /\ WF_vars(OwnerStep) /\ WF_vars(Notify)

FairSpec == Spec /\ Fairness

-----------------------------------------------------------------------------
(* Properties *)

\* The counters when no event is outstanding.
NothingPending == pendingCount = (IF enabled THEN 0 ELSE 1) /\ idleCount = 0

\* When a thread is joined nothing of it is left, and nothing is when another one
\* is made: every ScheduleTimer was run and every event counted (the assertions
\* of LazyIdleThread.cpp:122-125 and :287-289, with the pretended event).
FreshStart ==
  ~reentered =>
    /\ acked => NothingPending /\ cleanedUp
    /\ ~hasThread => NothingPending /\ timer = "null" /\ ~cleanedUp

\* However many threads come and go, they are one event target: what was accepted
\* runs in order, once, and nothing is left when Shutdown returns.
Having(f) == {e \in Tasks : fate[e] = f}
Abstract ==
  INSTANCE EventTarget WITH
    Targets <- {"lazy"},
    Events <- Tasks,
    pending <- [t \in {"lazy"} |-> owed],
    open <- IF isShutdown THEN {} ELSE {"lazy"},
    delivered <- Having("run"),
    refused <- Having("refused"),
    finished <- isShutdown /\ doing = "nothing" /\ ~spinning /\ ~reentered
ImplementsEventTarget == Abstract!Spec

\* An accepted task is run in the end, by this thread or the next.
EventuallyRun == \A e \in Tasks : fate[e] = "accepted" ~> fate[e] = "run" \/ reentered

\* "destroys its thread after a period of inactivity" (LazyIdleThread.h:30-31).
IdleThreadStops == hasThread ~> ~hasThread \/ ~enabled
=============================================================================
