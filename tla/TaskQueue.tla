----------------------------- MODULE TaskQueue -----------------------------
(***************************************************************************)
(* mozilla::TaskQueue (xpcom/threads/TaskQueue.cpp, TaskQueue.h): tasks    *)
(* dispatched by any thread are run one at a time and in order on another  *)
(* event target, by a Runner that sends itself to the target again and     *)
(* again until the queue is empty.                                         *)
(*                                                                         *)
(* Each action is one critical section of mQueueMonitor, or the run of a   *)
(* task between two of them.  A Dispatch makes at most one Runner, which   *)
(* is named here by the task being dispatched.  Tail dispatch is not       *)
(* modelled: a tail-dispatched task arrives in DispatchLocked later.       *)
(***************************************************************************)
EXTENDS Integers, Sequences, FiniteSets

CONSTANTS
  Tasks,     \* the runnables dispatched, each at most once
  Waiters,   \* the threads that call AwaitIdle or AwaitShutdownAndIdle
  Outcomes   \* what mTarget->Dispatch may do with a Runner

\* The target takes the Runner, or fails, or returns NS_OK although it never
\* runs it, as an nsThreadPool does that is being shut down.
ASSUME OutcomesAssumption == Outcomes \subseteq {"accepted", "failed", "swallowed"}

VARIABLES
  tasks,       \* mTasks
  isRunning,   \* mIsRunning
  isShutdown,  \* mIsShutdown
  hasTarget,   \* mTarget is not null
  promise,     \* mShutdownPromise: none, pending or resolved
  runner,      \* per Runner: what it is doing
  waiter,      \* per waiting thread: what it waits for
  woken,       \* the waiting threads notified since they began to wait
  told,        \* history: what the caller of Dispatch was told
  fate         \* history: what became of each task

runVars == <<tasks, fate>>
waitVars == <<waiter, woken>>
vars == <<tasks, isRunning, isShutdown, hasTarget, promise, runner, waiter,
          woken, told, fate>>

\* A Runner is in the target's queue, runs a task, has run it, has seen that
\* there are more, has failed to be dispatched again, or is over, done or given
\* up; the target may have lost it.
RunnerStates ==
  {"none", "posted", "running", "ran", "more", "failed", "done", "gaveUp", "lost"}

TypeOK ==
  /\ tasks \in Seq(Tasks)
  /\ isRunning \in BOOLEAN /\ isShutdown \in BOOLEAN /\ hasTarget \in BOOLEAN
  /\ promise \in {"none", "pending", "resolved"}
  /\ runner \in [Tasks -> RunnerStates]
  /\ waiter \in [Waiters -> {"new", "forShutdown", "forIdle", "returned"}]
  /\ woken \in SUBSET Waiters
  /\ told \in [Tasks -> {"nothing", "ok", "failed"}]
  /\ fate \in [Tasks -> {"new", "queued", "refused", "taken"}]

Init ==
  /\ tasks = <<>>
  /\ isRunning = FALSE /\ isShutdown = FALSE /\ hasTarget = TRUE
  /\ promise = "none"
  /\ runner = [e \in Tasks |-> "none"]
  /\ waiter = [a \in Waiters |-> "new"]
  /\ woken = {}
  /\ told = [e \in Tasks |-> "nothing"]
  /\ fate = [e \in Tasks |-> "new"]

-----------------------------------------------------------------------------
(* Dispatch *)

\* The state of a Runner after mTarget->Dispatch.
After(outcome) ==
  CASE outcome = "accepted" -> "posted"
    [] outcome = "failed" -> "failed"
    [] OTHER -> "lost"

\* Mutant: a Runner is dispatched with every task.
AlwaysDispatches == TRUE

NeedsRunner == ~isRunning

\* DispatchLocked.  A task whose Runner could not be dispatched stays in mTasks
\* though the caller is told of a failure.
Dispatch(e) ==
  /\ fate[e] = "new"
  /\ \/ /\ isShutdown
        /\ fate' = [fate EXCEPT ![e] = "refused"]
        /\ told' = [told EXCEPT ![e] = "failed"]
        /\ UNCHANGED <<tasks, isRunning, runner>>
     \/ /\ ~isShutdown
        /\ tasks' = Append(tasks, e)
        /\ fate' = [fate EXCEPT ![e] = "queued"]
        /\ \/ /\ ~NeedsRunner
              /\ told' = [told EXCEPT ![e] = "ok"]
              /\ UNCHANGED <<isRunning, runner>>
           \/ /\ NeedsRunner
              /\ \E outcome \in Outcomes :
                   /\ told' = [told EXCEPT ![e] = IF outcome = "failed" THEN "failed"
                                                                       ELSE "ok"]
                   /\ isRunning' = (outcome # "failed")
                   /\ runner' = [runner EXCEPT ![e] =
                        IF outcome = "failed" THEN "gaveUp" ELSE After(outcome)]
  /\ UNCHANGED <<isShutdown, hasTarget, promise, waitVars>>

-----------------------------------------------------------------------------
(* Shutdown and waiting *)

\* Mutant: it is not tested whether a Runner is left.
ResolveShutdownAtOnce(p, down, running) ==
  /\ promise' = IF down /\ p = "pending" THEN "resolved" ELSE p
  /\ hasTarget' = (hasTarget /\ ~down)

\* MaybeResolveShutdown, with what mIsShutdown and mIsRunning have become.
MaybeResolveShutdown(p, down, running) ==
  /\ promise' = IF down /\ ~running /\ p = "pending" THEN "resolved" ELSE p
  /\ hasTarget' = (hasTarget /\ (running \/ ~down))

Waiting == {a \in Waiters : waiter[a] \in {"forShutdown", "forIdle"}}

\* Mutant: nobody is notified.
NobodyNotified == woken
NotifyAll == Waiting

\* Ensure() gives the same promise to all callers until it is resolved.
BeginShutdown ==
  /\ isShutdown' = TRUE
  /\ MaybeResolveShutdown("pending", TRUE, isRunning)
  /\ woken' = NotifyAll
  /\ UNCHANGED <<runVars, isRunning, runner, waiter, told>>

\* What a waiting thread does once it holds the monitor: it returns or waits.
Awaiting(a, shutdownToo) ==
  /\ waiter' = [waiter EXCEPT ![a] =
       IF shutdownToo /\ ~isShutdown THEN "forShutdown"
       ELSE IF isRunning THEN "forIdle" ELSE "returned"]
  /\ woken' = woken \ {a}
  /\ UNCHANGED <<runVars, isRunning, isShutdown, hasTarget, promise, runner, told>>

AwaitIdle(a) == waiter[a] = "new" /\ Awaiting(a, FALSE)
AwaitShutdownAndIdle(a) == waiter[a] = "new" /\ Awaiting(a, TRUE)

\* mQueueMonitor.Wait() returns, notified or spuriously.
WakeUp(a) == a \in Waiting /\ Awaiting(a, waiter[a] = "forShutdown")

-----------------------------------------------------------------------------
(* Runner::Run *)

\* Mutant: the task is left in the queue.
PopNothing == tasks
Pop == Tail(tasks)

TakeTask(r) ==
  /\ runner[r] = "posted"
  /\ tasks # <<>>
  /\ tasks' = Pop
  /\ fate' = [fate EXCEPT ![Head(tasks)] = "taken"]
  /\ runner' = [runner EXCEPT ![r] = "running"]
  /\ UNCHANGED <<isRunning, isShutdown, hasTarget, promise, waitVars, told>>

FinishTask(r) ==
  /\ runner[r] = "running"
  /\ runner' = [runner EXCEPT ![r] = "ran"]
  /\ UNCHANGED <<runVars, isRunning, isShutdown, hasTarget, promise, waitVars, told>>

\* Mutant: the Runner goes home although a task came meanwhile.
StopAnyway(r) ==
  /\ runner[r] = "ran"
  /\ runner' = [runner EXCEPT ![r] = "done"]
  /\ isRunning' = FALSE
  /\ MaybeResolveShutdown(promise, isShutdown, FALSE)
  /\ woken' = NotifyAll
  /\ UNCHANGED <<runVars, isShutdown, waiter, told>>

\* No more tasks to run, after the last one.
Stop(r) ==
  /\ runner[r] = "ran"
  /\ tasks = <<>>
  /\ runner' = [runner EXCEPT ![r] = "done"]
  /\ isRunning' = FALSE
  /\ MaybeResolveShutdown(promise, isShutdown, FALSE)
  /\ woken' = NotifyAll
  /\ UNCHANGED <<runVars, isShutdown, waiter, told>>

\* There is more; the monitor is released before it is taken for Redispatch.
GoOn(r) ==
  /\ runner[r] = "ran"
  /\ tasks # <<>>
  /\ runner' = [runner EXCEPT ![r] = "more"]
  /\ UNCHANGED <<runVars, isRunning, isShutdown, hasTarget, promise, waitVars, told>>

Redispatch(r) ==
  /\ runner[r] = "more"
  /\ \E outcome \in Outcomes : runner' = [runner EXCEPT ![r] = After(outcome)]
  /\ UNCHANGED <<runVars, isRunning, isShutdown, hasTarget, promise, waitVars, told>>

\* Mutant: the promise is forgotten.
GiveUpSilently(r) ==
  /\ runner[r] = "failed"
  /\ runner' = [runner EXCEPT ![r] = "gaveUp"]
  /\ isRunning' = FALSE
  /\ isShutdown' = TRUE
  /\ woken' = NotifyAll
  /\ UNCHANGED <<runVars, hasTarget, promise, waiter, told>>

\* "Failed to dispatch, shutdown!"
GiveUp(r) ==
  /\ runner[r] = "failed"
  /\ runner' = [runner EXCEPT ![r] = "gaveUp"]
  /\ isRunning' = FALSE
  /\ isShutdown' = TRUE
  /\ MaybeResolveShutdown(promise, TRUE, FALSE)
  /\ woken' = NotifyAll
  /\ UNCHANGED <<runVars, waiter, told>>

-----------------------------------------------------------------------------
RunnerStep(r) ==
  TakeTask(r) \/ FinishTask(r) \/ Stop(r) \/ GoOn(r) \/ Redispatch(r) \/ GiveUp(r)

Next ==
  \/ \E e \in Tasks : Dispatch(e) \/ RunnerStep(e)
  \/ BeginShutdown
  \/ \E a \in Waiters : AwaitIdle(a) \/ AwaitShutdownAndIdle(a) \/ WakeUp(a)

Spec == Init /\ [][Next]_vars

\* The target runs what it took, and a notified thread gets the monitor.
Fairness ==
  /\ \A r \in Tasks : WF_vars(RunnerStep(r))
  /\ \A a \in Waiters : WF_vars(a \in woken /\ WakeUp(a))

FairSpec == Spec /\ Fairness

-----------------------------------------------------------------------------
(* Properties *)

\* "guaranteed to not be executed concurrently" (TaskQueue.h:27-29): there is
\* one Runner at most, and mIsRunning tells whether there is one.
Active(r) == runner[r] \in {"posted", "running", "ran", "more", "failed"}
OneRunner ==
  /\ \A r, s \in Tasks : Active(r) /\ Active(s) => r = s
  /\ isRunning <=> \E r \in Tasks : Active(r) \/ runner[r] = "lost"

\* The early return of Run for an empty queue (TaskQueue.cpp:189-194) is never
\* taken, as nobody else takes tasks out.
RunnerHasWork ==
  \A r \in Tasks : runner[r] \in {"posted", "more", "failed", "lost"} => tasks # <<>>

\* mTarget, which MaybeResolveShutdown clears, is there whenever it is used: by
\* DispatchLocked if the queue is not shut down, and by a Runner's redispatch
\* even if the queue is shut down since it looked.
TargetAlive ==
  /\ ~isShutdown => hasTarget
  /\ \A r \in Tasks : Active(r) => hasTarget

\* A Runner always finds what it needs when it gets the monitor again, a task and a
\* target to go on with, whoever dispatched, shut down or waited meanwhile.
RunnerReady == RunnerHasWork /\ TargetAlive

\* No thread sleeps through what it waits for.
NoLostWakeup ==
  \A a \in Waiters \ woken :
    /\ waiter[a] = "forShutdown" => ~isShutdown
    /\ waiter[a] = "forIdle" => isRunning

\* What the target has done with the Runners dispatched to it.
Lost == \E r \in Tasks : runner[r] = "lost"
Failed == \E r \in Tasks : runner[r] = "gaveUp"

\* The queue implements an event target, whatever its own target does: tasks run in
\* order, each once, and none is stranded when the queue is shut down and idle,
\* unless a dispatch of a Runner has failed.
Having(f) == {e \in Tasks : fate[e] = f}
Abstract ==
  INSTANCE EventTarget WITH
    Targets <- {"queue"},
    Events <- Tasks,
    pending <- [t \in {"queue"} |-> tasks],
    open <- IF isShutdown THEN {} ELSE {"queue"},
    delivered <- Having("taken"),
    refused <- Having("refused"),
    finished <- isShutdown /\ ~isRunning /\ ~Failed
ImplementsEventTarget == Abstract!Spec

\* A task is run in the end, unless the target fails to take or to run a Runner.
EventuallyRun ==
  \A e \in Tasks : fate[e] = "queued" ~> fate[e] = "taken" \/ Failed \/ Lost

\* Whether dispatches to the target succeed or fail, the promise of a shutdown is
\* resolved; only a target that swallows a Runner leaves it pending
\* (TaskQueue.cpp:244).
ShutdownResolves == promise = "pending" ~> promise = "resolved" \/ Lost
=============================================================================
