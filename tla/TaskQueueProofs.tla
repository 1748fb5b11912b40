-------------------------- MODULE TaskQueueProofs --------------------------
(***************************************************************************)
(* The safety properties of TaskQueue hold for any number of tasks and of  *)
(* waiting threads, and whatever the target does with the Runners.         *)
(***************************************************************************)
EXTENDS TaskQueue, TLAPS

\* A Runner is bound to the queue, also if the target has lost it.  That there
\* is one at most, lost ones included, is what makes OneRunner inductive.
Bound(r) == Active(r) \/ runner[r] = "lost"
OneBound ==
  /\ \A r, s \in Tasks : Bound(r) /\ Bound(s) => r = s
  /\ isRunning <=> \E r \in Tasks : Bound(r)

IInv ==
  /\ TypeOK
  /\ OneBound
  /\ RunnerHasWork
  /\ TargetAlive
  /\ NoLostWakeup

-----------------------------------------------------------------------------
(* The steps of Next, for the proofs by cases below. *)

\* Every step is one of these; the three ways to wait are all Awaiting.
LEMMA Steps ==
  ASSUME [Next]_vars
  PROVE  \/ \E e \in Tasks :
              \/ Dispatch(e) \/ TakeTask(e) \/ FinishTask(e) \/ Stop(e)
              \/ GoOn(e) \/ Redispatch(e) \/ GiveUp(e)
         \/ BeginShutdown
         \/ \E a \in Waiters, s \in BOOLEAN : Awaiting(a, s)
         \/ UNCHANGED vars
  BY Zenon DEF Next, RunnerStep, AwaitIdle, AwaitShutdownAndIdle, WakeUp

\* The outcomes of mTarget->Dispatch lead to known states of the Runner.
LEMMA AfterType ==
  ASSUME NEW outcome \in Outcomes
  PROVE  After(outcome) \in {"posted", "failed", "lost"}
  BY DEF After

-----------------------------------------------------------------------------
\* The type invariant is inductive by itself.
LEMMA TypeInit == Init => TypeOK
<1>1. <<>> \in Seq(Tasks)
  OBVIOUS
<1>2. Init => \A r \in Tasks : "none" \in RunnerStates
  BY DEF RunnerStates
<1> QED
  BY <1>1, <1>2 DEF Init, TypeOK

LEMMA TypeStep == TypeOK /\ [Next]_vars => TypeOK'
<1> SUFFICES ASSUME TypeOK, [Next]_vars PROVE TypeOK'
  OBVIOUS
<1>1. ASSUME NEW e \in Tasks, Dispatch(e) PROVE TypeOK'
  <2>1. CASE isShutdown
    BY <1>1, <2>1 DEF TypeOK, Dispatch, waitVars, RunnerStates
  <2>2. CASE ~isShutdown
    <3>1. tasks' = Append(tasks, e) /\ fate' = [fate EXCEPT ![e] = "queued"]
      BY <1>1, <2>2 DEF Dispatch
    <3>4. tasks' \in Seq(Tasks)
      BY <3>1 DEF TypeOK
    <3>5. fate' \in [Tasks -> {"new", "queued", "refused", "taken"}]
      BY <3>1 DEF TypeOK
    <3>2. told' \in [Tasks -> {"nothing", "ok", "failed"}] /\ isRunning' \in BOOLEAN
      BY <1>1, <2>2 DEF TypeOK, Dispatch
    <3>3. runner' \in [Tasks -> RunnerStates]
      BY <1>1, <2>2, AfterType DEF TypeOK, Dispatch, RunnerStates
    <3> QED
      BY <1>1, <2>2, <3>2, <3>3, <3>4, <3>5 DEF TypeOK, Dispatch, waitVars
  <2> QED
    BY <2>1, <2>2
<1>2. ASSUME NEW e \in Tasks, TakeTask(e) PROVE TypeOK'
  BY <1>2 DEF TypeOK, TakeTask, Pop, waitVars, RunnerStates
<1>3. ASSUME NEW e \in Tasks, FinishTask(e) \/ GoOn(e) PROVE TypeOK'
  BY <1>3 DEF TypeOK, FinishTask, GoOn, runVars, waitVars, RunnerStates
<1>4. ASSUME NEW e \in Tasks, Stop(e) \/ GiveUp(e) PROVE TypeOK'
  BY <1>4 DEF TypeOK, Stop, GiveUp, MaybeResolveShutdown, NotifyAll, Waiting, runVars,
              RunnerStates
<1>5. ASSUME NEW e \in Tasks, Redispatch(e) PROVE TypeOK'
  BY <1>5, AfterType DEF TypeOK, Redispatch, runVars, waitVars, RunnerStates
<1>6. CASE BeginShutdown
  BY <1>6 DEF TypeOK, BeginShutdown, MaybeResolveShutdown, NotifyAll, Waiting, runVars
<1>7. ASSUME NEW a \in Waiters, NEW s \in BOOLEAN, Awaiting(a, s) PROVE TypeOK'
  BY <1>7 DEF TypeOK, Awaiting, runVars
<1>8. CASE UNCHANGED vars
  BY <1>8 DEF TypeOK, vars
<1> QED
  BY <1>1, <1>2, <1>3, <1>4, <1>5, <1>6, <1>7, <1>8, Steps

-----------------------------------------------------------------------------
\* A Runner is made only if none is bound, and it is unbound when mIsRunning is
\* reset.
LEMMA OneBoundStep == TypeOK /\ OneBound /\ [Next]_vars => OneBound'
<1> SUFFICES ASSUME TypeOK, OneBound, [Next]_vars PROVE OneBound'
  OBVIOUS
<1>1. ASSUME NEW e \in Tasks, Dispatch(e) PROVE OneBound'
  <2>1. CASE isShutdown \/ isRunning
    BY <1>1, <2>1 DEF TypeOK, OneBound, Bound, Active, Dispatch, NeedsRunner
  <2>2. CASE ~isShutdown /\ ~isRunning
    <3>1. PICK outcome \in Outcomes :
            /\ isRunning' = (outcome # "failed")
            /\ runner' = [runner EXCEPT ![e] =
                 IF outcome = "failed" THEN "gaveUp" ELSE After(outcome)]
      BY <1>1, <2>2 DEF Dispatch, NeedsRunner
    <3>2. \A r \in Tasks : ~Bound(r)
      BY <2>2 DEF OneBound
    <3>3. CASE outcome = "failed"
      BY <3>1, <3>2, <3>3 DEF TypeOK, OneBound, Bound, Active
    <3>4. CASE outcome # "failed"
      <4>1. runner'[e] \in {"posted", "lost"}
        BY <3>1, <3>4, OutcomesAssumption DEF TypeOK, After
      <4>2. \A r \in Tasks : r # e => runner'[r] = runner[r]
        BY <3>1 DEF TypeOK
      <4> QED
        BY <3>1, <3>2, <3>4, <4>1, <4>2 DEF OneBound, Bound, Active
    <3> QED
      BY <3>3, <3>4
  <2> QED
    BY <2>1, <2>2
<1>2. ASSUME NEW e \in Tasks,
             TakeTask(e) \/ FinishTask(e) \/ GoOn(e) \/ Redispatch(e)
      PROVE  OneBound'
  <2>1. \A r \in Tasks : Bound(r)' => Bound(r)
    BY <1>2 DEF TypeOK, Bound, Active, TakeTask, FinishTask, GoOn, Redispatch
  <2>2. Bound(e)' /\ Bound(e)
    BY <1>2, AfterType DEF TypeOK, Bound, Active, TakeTask, FinishTask, GoOn, Redispatch
  <2>3. isRunning' = isRunning
    BY <1>2 DEF TakeTask, FinishTask, GoOn, Redispatch
  <2> QED
    BY Zenon, <2>1, <2>2, <2>3 DEF OneBound
<1>3. ASSUME NEW e \in Tasks, Stop(e) \/ GiveUp(e) PROVE OneBound'
  <2>1. \A r \in Tasks : ~Bound(r)'
    BY <1>3 DEF TypeOK, OneBound, Bound, Active, Stop, GiveUp
  <2>2. ~isRunning'
    BY <1>3 DEF Stop, GiveUp
  <2> QED
    BY Zenon, <2>1, <2>2 DEF OneBound
<1>4. CASE BeginShutdown \/ UNCHANGED vars
  <2>1. runner' = runner /\ isRunning' = isRunning
    BY <1>4 DEF BeginShutdown, vars
  <2> QED
    BY <2>1 DEF OneBound, Bound, Active
<1>5. ASSUME NEW a \in Waiters, NEW s \in BOOLEAN, Awaiting(a, s) PROVE OneBound'
  BY <1>5 DEF OneBound, Bound, Active, Awaiting
<1> QED
  BY <1>1, <1>2, <1>3, <1>4, <1>5, Steps

-----------------------------------------------------------------------------
\* Tasks are taken out of the queue by the only Runner.
LEMMA WorkStep ==
  TypeOK /\ OneBound /\ RunnerHasWork /\ [Next]_vars => RunnerHasWork'
<1> SUFFICES ASSUME TypeOK, OneBound, RunnerHasWork, [Next]_vars PROVE RunnerHasWork'
  OBVIOUS
<1>1. ASSUME NEW e \in Tasks, Dispatch(e) PROVE RunnerHasWork'
  <2>1. CASE isShutdown
    BY <1>1, <2>1 DEF RunnerHasWork, Dispatch
  <2>2. CASE ~isShutdown
    BY <1>1, <2>2 DEF TypeOK, RunnerHasWork, Dispatch
  <2> QED
    BY <2>1, <2>2
<1>2. ASSUME NEW e \in Tasks, TakeTask(e) PROVE RunnerHasWork'
  BY <1>2 DEF TypeOK, OneBound, Bound, Active, RunnerHasWork, TakeTask
<1>3. ASSUME NEW e \in Tasks,
             FinishTask(e) \/ Stop(e) \/ GoOn(e) \/ Redispatch(e) \/ GiveUp(e)
      PROVE  RunnerHasWork'
  BY <1>3 DEF TypeOK, RunnerHasWork, FinishTask, Stop, GoOn, Redispatch, GiveUp, runVars
<1>4. CASE BeginShutdown \/ UNCHANGED vars
  BY <1>4 DEF RunnerHasWork, BeginShutdown, runVars, vars
<1>5. ASSUME NEW a \in Waiters, NEW s \in BOOLEAN, Awaiting(a, s) PROVE RunnerHasWork'
  BY <1>5 DEF RunnerHasWork, Awaiting, runVars
<1> QED
  BY <1>1, <1>2, <1>3, <1>4, <1>5, Steps

-----------------------------------------------------------------------------
\* mTarget is cleared only with mIsRunning false, when no Runner is active, and
\* once the queue is shut down, after which none is made.
LEMMA TargetStep ==
  TypeOK /\ OneBound /\ TargetAlive /\ [Next]_vars => TargetAlive'
<1> SUFFICES ASSUME TypeOK, OneBound, TargetAlive, [Next]_vars PROVE TargetAlive'
  OBVIOUS
<1>1. ASSUME NEW e \in Tasks, Dispatch(e) PROVE TargetAlive'
  <2>1. CASE isShutdown
    BY <1>1, <2>1 DEF TargetAlive, Active, Dispatch
  <2>2. CASE ~isShutdown
    BY <1>1, <2>2 DEF TargetAlive, Dispatch
  <2> QED
    BY <2>1, <2>2
<1>2. ASSUME NEW e \in Tasks,
             TakeTask(e) \/ FinishTask(e) \/ GoOn(e) \/ Redispatch(e)
      PROVE  TargetAlive'
  BY <1>2 DEF TypeOK, TargetAlive, Active, TakeTask, FinishTask, GoOn, Redispatch
<1>3. ASSUME NEW e \in Tasks, Stop(e) \/ GiveUp(e) PROVE TargetAlive'
  <2>1. \A r \in Tasks : ~Active(r)'
    BY <1>3 DEF TypeOK, OneBound, Bound, Active, Stop, GiveUp
  <2> QED
    BY <1>3, <2>1 DEF TypeOK, TargetAlive, Stop, GiveUp, MaybeResolveShutdown
<1>4. CASE BeginShutdown
  BY <1>4 DEF TypeOK, OneBound, Bound, TargetAlive, Active, BeginShutdown,
              MaybeResolveShutdown
<1>5. ASSUME NEW a \in Waiters, NEW s \in BOOLEAN, Awaiting(a, s) PROVE TargetAlive'
  BY <1>5 DEF TargetAlive, Active, Awaiting
<1>6. CASE UNCHANGED vars
  BY <1>6 DEF TargetAlive, Active, vars
<1> QED
  BY <1>1, <1>2, <1>3, <1>4, <1>5, <1>6, Steps

-----------------------------------------------------------------------------
\* What ends a wait notifies all; what begins one has looked.
LEMMA WakeupStep == TypeOK /\ NoLostWakeup /\ [Next]_vars => NoLostWakeup'
<1> SUFFICES ASSUME TypeOK, NoLostWakeup, [Next]_vars PROVE NoLostWakeup'
  OBVIOUS
<1>1. ASSUME NEW e \in Tasks, Dispatch(e) PROVE NoLostWakeup'
  BY <1>1 DEF NoLostWakeup, Dispatch, NeedsRunner, waitVars
<1>2. ASSUME NEW e \in Tasks,
             TakeTask(e) \/ FinishTask(e) \/ GoOn(e) \/ Redispatch(e)
      PROVE  NoLostWakeup'
  BY <1>2 DEF NoLostWakeup, TakeTask, FinishTask, GoOn, Redispatch, waitVars
<1>3. ASSUME NEW e \in Tasks, Stop(e) \/ GiveUp(e) PROVE NoLostWakeup'
  BY <1>3 DEF NoLostWakeup, Stop, GiveUp, NotifyAll, Waiting
<1>4. CASE BeginShutdown
  BY <1>4 DEF NoLostWakeup, BeginShutdown, NotifyAll, Waiting
<1>5. ASSUME NEW a \in Waiters, NEW s \in BOOLEAN, Awaiting(a, s) PROVE NoLostWakeup'
  BY <1>5 DEF TypeOK, NoLostWakeup, Awaiting
<1>6. CASE UNCHANGED vars
  BY <1>6 DEF NoLostWakeup, vars
<1> QED
  BY <1>1, <1>2, <1>3, <1>4, <1>5, <1>6, Steps

-----------------------------------------------------------------------------
(* The inductive invariant, and the properties it implies *)

\* Before the first task there is no Runner, and nobody waits.
LEMMA InvInit == Init => IInv
  BY TypeInit
  DEF Init, IInv, OneBound, Bound, Active, RunnerHasWork, TargetAlive, NoLostWakeup

LEMMA InvStep == IInv /\ [Next]_vars => IInv'
  BY TypeStep, OneBoundStep, WorkStep, TargetStep, WakeupStep DEF IInv

\* The invariant holds in every behaviour of the queue.
THEOREM Invariance == Spec => []IInv
  BY InvInit, InvStep, PTL DEF Spec

\* The variables keep their types.
THEOREM TypeCorrect == Spec => []TypeOK
<1>1. IInv => TypeOK
  BY DEF IInv
<1> QED
  BY Invariance, <1>1, PTL

\* Tasks are never run concurrently: there is one active Runner at most, and
\* mIsRunning tells of it (TaskQueue.h:27-29).
THEOREM NeverConcurrent == Spec => []OneRunner
<1>1. IInv => OneRunner
  BY DEF IInv, OneBound, Bound, OneRunner
<1> QED
  BY Invariance, <1>1, PTL

\* A Runner that gets its turn finds a task, so that the early return of Runner::Run
\* is never taken, and mTarget is never used after MaybeResolveShutdown has cleared
\* it.
THEOREM RunnerAlwaysReady == Spec => []RunnerReady
<1>1. IInv => RunnerReady
  BY DEF IInv, RunnerReady
<1> QED
  BY Invariance, <1>1, PTL

\* No thread in AwaitIdle or AwaitShutdownAndIdle misses its notification.
THEOREM WakeupsNotLost == Spec => []NoLostWakeup
<1>1. IInv => NoLostWakeup
  BY DEF IInv
<1> QED
  BY Invariance, <1>1, PTL
-----------------------------------------------------------------------------
(* The event target that the queue implements *)

\* The history agrees with the queue: what is in it, and nothing else, is
\* queued, and each task is in it once.
Queued == {tasks[i] : i \in DOMAIN tasks}
FateAgrees ==
  /\ \A e \in Tasks : fate[e] = "queued" <=> e \in Queued
  /\ \A i, j \in DOMAIN tasks : tasks[i] = tasks[j] => i = j

\* A queue without a Runner is empty, unless one could not be dispatched; and a
\* Runner is named by a task that was dispatched.
NoneLeft ==
  /\ ~isRunning => tasks = <<>> \/ Failed
  /\ \A e \in Tasks : fate[e] = "new" => runner[e] = "none"

Contents == IInv /\ FateAgrees /\ NoneLeft

\* What becomes of the queue: a task is accepted, or refused, one is taken, or
\* none.
Accepted(e) ==
  /\ fate[e] = "new" /\ ~isShutdown /\ ~isShutdown'
  /\ tasks' = Append(tasks, e)
  /\ fate' = [fate EXCEPT ![e] = "queued"]
Refused(e) ==
  /\ fate[e] = "new" /\ isShutdown /\ isShutdown'
  /\ UNCHANGED <<tasks, isRunning, runner>>
  /\ fate' = [fate EXCEPT ![e] = "refused"]

LEMMA QueueSteps ==
  ASSUME [Next]_vars
  PROVE  \/ \E e \in Tasks : Accepted(e) \/ Refused(e) \/ TakeTask(e)
         \/ UNCHANGED <<tasks, fate>>
<1>1. ASSUME NEW e \in Tasks, Dispatch(e) PROVE Accepted(e) \/ Refused(e)
  BY <1>1 DEF Dispatch, Accepted, Refused
<1>2. ASSUME NEW e \in Tasks,
             FinishTask(e) \/ Stop(e) \/ GoOn(e) \/ Redispatch(e) \/ GiveUp(e)
      PROVE  UNCHANGED <<tasks, fate>>
  BY <1>2 DEF FinishTask, Stop, GoOn, Redispatch, GiveUp, runVars
<1>3. BeginShutdown \/ UNCHANGED vars => UNCHANGED <<tasks, fate>>
  BY DEF BeginShutdown, vars, runVars
<1>4. ASSUME NEW a \in Waiters, NEW s \in BOOLEAN, Awaiting(a, s)
      PROVE  UNCHANGED <<tasks, fate>>
  BY <1>4 DEF Awaiting, runVars
<1> QED
  BY <1>1, <1>2, <1>3, <1>4, Steps, Zenon

LEMMA FateStep == ASSUME TypeOK, FateAgrees, [Next]_vars PROVE FateAgrees'
<1>1. ASSUME NEW e \in Tasks, Accepted(e) PROVE FateAgrees'
  <2>1. /\ DOMAIN tasks' = 1 .. Len(tasks) + 1 /\ DOMAIN tasks = 1 .. Len(tasks)
        /\ Len(tasks) \in Nat
        /\ \A k \in 1 .. Len(tasks) : tasks'[k] = tasks[k]
        /\ tasks'[Len(tasks) + 1] = e
    BY <1>1 DEF Accepted, TypeOK
  <2>2. e \notin Queued
    BY <1>1 DEF FateAgrees, Accepted
  <2>3. Queued' = Queued \cup {e}
    BY <2>1 DEF Queued
  <2>4. \A i, j \in DOMAIN tasks' : tasks'[i] = tasks'[j] => i = j
    BY <2>1, <2>2 DEF FateAgrees, Queued
  <2>5. \A x \in Tasks : fate'[x] = "queued" <=> x \in Queued'
    BY <1>1, <2>3 DEF FateAgrees, Accepted, TypeOK
  <2> QED
    BY <2>4, <2>5 DEF FateAgrees
<1>2. ASSUME NEW e \in Tasks, TakeTask(e) PROVE FateAgrees'
  <2>1. /\ Head(tasks) \in Tasks /\ Head(tasks) = tasks[1]
        /\ Len(tasks) \in Nat /\ Len(tasks) >= 1 /\ DOMAIN tasks = 1 .. Len(tasks)
        /\ DOMAIN tasks' = 1 .. Len(tasks) - 1
        /\ \A k \in 1 .. Len(tasks) - 1 : tasks'[k] = tasks[k + 1]
    BY <1>2 DEF TakeTask, Pop, TypeOK
  <2>2. fate' = [fate EXCEPT ![Head(tasks)] = "taken"]
    BY <1>2 DEF TakeTask
  <2>3. \A i, j \in DOMAIN tasks' : tasks'[i] = tasks'[j] => i = j
    <3> SUFFICES ASSUME NEW i \in DOMAIN tasks', NEW j \in DOMAIN tasks', tasks'[i] = tasks'[j]
                 PROVE  i = j
      OBVIOUS
    <3>1. i \in Nat /\ j \in Nat /\ i + 1 \in DOMAIN tasks /\ j + 1 \in DOMAIN tasks
      BY <2>1
    <3>2. i + 1 = j + 1
      BY <2>1, <3>1 DEF FateAgrees
    <3> QED
      BY <3>1, <3>2
  <2>4. Queued' = Queued \ {Head(tasks)}
    <3>1. ASSUME NEW k \in DOMAIN tasks, tasks[k] # Head(tasks)
          PROVE  k - 1 \in DOMAIN tasks' /\ tasks'[k - 1] = tasks[k]
      BY <2>1, <3>1
    <3>2. ASSUME NEW k \in DOMAIN tasks'
          PROVE  /\ k + 1 \in DOMAIN tasks /\ tasks'[k] = tasks[k + 1]
                 /\ tasks'[k] # Head(tasks)
      BY <2>1, <3>2 DEF FateAgrees
    <3> QED
      BY <3>1, <3>2 DEF Queued
  <2>5. \A x \in Tasks : fate'[x] = "queued" <=> x \in Queued'
    BY <2>1, <2>2, <2>4 DEF FateAgrees, TypeOK
  <2> QED
    BY <2>3, <2>5 DEF FateAgrees
<1>3. ASSUME NEW e \in Tasks, Refused(e) PROVE FateAgrees'
  <2>1. Queued' = Queued
    BY <1>3 DEF Queued, Refused
  <2> QED
    BY <1>3, <2>1 DEF FateAgrees, Refused, TypeOK
<1>4. CASE UNCHANGED <<tasks, fate>>
  BY <1>4 DEF FateAgrees, Queued
<1> QED
  BY <1>1, <1>2, <1>3, <1>4, QueueSteps

\* A Runner gives up, or is never made, only when the target fails to take it;
\* from then on it has failed for good.
LEMMA NoneLeftStep ==
  ASSUME IInv, NoneLeft, [Next]_vars
  PROVE  /\ NoneLeft'
         /\ Failed => Failed'
         /\ Failed' => Failed \/ \E e \in Tasks : Dispatch(e) \/ GiveUp(e)
<1> USE DEF Failed, NoneLeft
<1>0. TypeOK
  BY DEF IInv
<1>1. ASSUME NEW e \in Tasks, Dispatch(e) PROVE NoneLeft' /\ (Failed => Failed')
  <2>1. CASE isShutdown
    BY <1>0, <1>1, <2>1 DEF Dispatch, TypeOK
  <2>2. CASE ~isShutdown
    <3>1. /\ fate[e] = "new" /\ fate' = [fate EXCEPT ![e] = "queued"]
          /\ \/ isRunning /\ UNCHANGED <<isRunning, runner>>
             \/ isRunning' /\ \E s : runner' = [runner EXCEPT ![e] = s]
             \/ runner' = [runner EXCEPT ![e] = "gaveUp"]
      BY <1>1, <2>2 DEF Dispatch, NeedsRunner
    <3>2. runner[e] = "none"
      BY <3>1
    <3> QED
      BY <1>0, <3>1, <3>2 DEF TypeOK
  <2> QED
    BY <2>1, <2>2
<1>2. ASSUME NEW e \in Tasks, TakeTask(e) PROVE NoneLeft' /\ (Failed' <=> Failed)
  <2>1. isRunning /\ isRunning'
    BY <1>2 DEF IInv, OneBound, Bound, Active, TakeTask
  <2>2. runner[e] = "posted" /\ runner' = [runner EXCEPT ![e] = "running"]
        /\ fate' = [fate EXCEPT ![Head(tasks)] = "taken"]
    BY <1>2 DEF TakeTask
  <2> QED
    BY <1>0, <2>1, <2>2 DEF TypeOK
<1>3. ASSUME NEW e \in Tasks, FinishTask(e) \/ GoOn(e) \/ Redispatch(e)
      PROVE  NoneLeft' /\ (Failed' <=> Failed)
  <2>1. runner[e] \notin {"none", "gaveUp"} /\ UNCHANGED <<tasks, fate, isRunning>>
    BY <1>3 DEF FinishTask, GoOn, Redispatch, runVars
  <2>2. \E s \in {"ran", "more", "posted", "failed", "lost"} : runner' = [runner EXCEPT ![e] = s]
    BY <1>3, AfterType DEF FinishTask, GoOn, Redispatch
  <2> QED
    BY <1>0, <2>1, <2>2 DEF TypeOK
<1>4. ASSUME NEW e \in Tasks, Stop(e) PROVE NoneLeft' /\ (Failed' <=> Failed)
  BY <1>0, <1>4 DEF Stop, runVars, TypeOK
<1>5. ASSUME NEW e \in Tasks, GiveUp(e) PROVE NoneLeft' /\ (Failed => Failed')
  BY <1>0, <1>5 DEF GiveUp, runVars, TypeOK
<1>6. ASSUME \/ BeginShutdown \/ UNCHANGED vars
             \/ \E a \in Waiters, s \in BOOLEAN : Awaiting(a, s)
      PROVE  NoneLeft' /\ (Failed' <=> Failed)
  <2>1. UNCHANGED <<tasks, fate, isRunning, runner>>
    BY <1>6 DEF BeginShutdown, Awaiting, vars, runVars
  <2> QED
    BY <2>1, Zenon
<1> HIDE DEF Failed, NoneLeft
<1> QED
  BY <1>1, <1>2, <1>3, <1>4, <1>5, <1>6, Steps, Zenon

\* Seen as an event target, what waits is what is in the queue, and the tasks
\* that were not dispatched are its fresh ones.
LEMMA AbstractFresh ==
  ASSUME TypeOK, FateAgrees
  PROVE  Abstract!Fresh = Having("new")
<1>1. Abstract!Waiting = Queued
  BY DEF Abstract!Waiting, Queued
<1>2. Queued \subseteq Tasks
  BY DEF TypeOK, Queued
<1> QED
  BY <1>1, <1>2 DEF Abstract!Fresh, Having, TypeOK, FateAgrees

\* The runner of the event target has stopped for good.
Finished == isShutdown /\ ~isRunning /\ ~Failed

LEMMA AbstractInit == Init => Abstract!Init
<1> SUFFICES ASSUME Init PROVE Abstract!Init
  OBVIOUS
<1>1. Having("taken") = {} /\ Having("refused") = {}
  BY DEF Init, Having
<1>2. (isShutdown /\ ~isRunning /\ ~Failed) = FALSE
  BY DEF Init
<1>3. tasks = <<>>
  BY DEF Init
<1> QED
  BY <1>1, <1>2, <1>3 DEF Abstract!Init

\* A task that is accepted was fresh, and the queue not shut down.
LEMMA AbstractAccept ==
  ASSUME TypeOK, FateAgrees, NEW e \in Tasks, Accepted(e)
  PROVE  Abstract!Accept("queue", e)
<1>1. e \in Abstract!Fresh
  BY AbstractFresh DEF Having, Accepted
<1>2. /\ Having("taken")' = Having("taken")
      /\ Having("refused")' = Having("refused")
  BY DEF Having, Accepted, TypeOK
<1>3. [t \in {"queue"} |-> tasks]' =
        [[t \in {"queue"} |-> tasks] EXCEPT !["queue"] = Append(@, e)]
  BY DEF Accepted
<1>4. Finished = FALSE /\ Finished' = FALSE
  BY DEF Accepted, Finished
<1> QED
  BY <1>1, <1>2, <1>3, <1>4 DEF Abstract!Accept, Accepted, Finished

\* A task that is refused was fresh, and the queue shut down.
LEMMA AbstractRefuse ==
  ASSUME TypeOK, FateAgrees, NEW e \in Tasks, Refused(e)
  PROVE  Abstract!Refuse("queue", e)
<1>1. e \in Abstract!Fresh
  BY AbstractFresh DEF Having, Refused
<1>2. /\ Having("taken")' = Having("taken")
      /\ Having("refused")' = Having("refused") \cup {e}
  BY DEF Having, Refused, TypeOK
<1>3. Finished' = Finished
  BY Zenon DEF Refused, Finished, Failed
<1> QED
  BY <1>1, <1>2, <1>3 DEF Abstract!Refuse, Refused, Finished

\* A Runner takes the task that waits longest.
LEMMA AbstractDeliver ==
  ASSUME TypeOK, FateAgrees, NEW r \in Tasks, TakeTask(r), Failed' <=> Failed
  PROVE  Abstract!Deliver("queue")
<1>1. Head(tasks) \in Tasks /\ Head(tasks) = tasks[1] /\ 1 \in DOMAIN tasks
  BY DEF TakeTask, TypeOK
<1>2. fate[Head(tasks)] = "queued"
  BY <1>1 DEF FateAgrees, Queued
<1>3. /\ Having("taken")' = Having("taken") \cup {Head(tasks)}
      /\ Having("refused")' = Having("refused")
  BY <1>1, <1>2 DEF Having, TakeTask, TypeOK
<1>4. [t \in {"queue"} |-> tasks]' =
        [[t \in {"queue"} |-> tasks] EXCEPT !["queue"] = Tail(@)]
  BY DEF TakeTask, Pop
<1>5. [t \in {"queue"} |-> tasks]["queue"] = tasks
  OBVIOUS
<1>6. Finished' = Finished /\ isShutdown' = isShutdown
  BY Zenon DEF TakeTask, Finished
<1> QED
  BY <1>3, <1>4, <1>5, <1>6 DEF Abstract!Deliver, TakeTask, Finished

\* A step that leaves the queue alone closes it, finishes it, or is a stutter.
LEMMA AbstractSwitch ==
  ASSUME UNCHANGED <<tasks, fate>>, isShutdown => isShutdown',
         Finished => Finished',
         Finished' => tasks = <<>>
  PROVE  [Abstract!Next]_(Abstract!vars)
<1>1. /\ Having("taken")' = Having("taken")
      /\ Having("refused")' = Having("refused")
  BY DEF Having
<1>2. [t \in {"queue"} |-> tasks]' = [t \in {"queue"} |-> tasks]
  OBVIOUS
<1>3. CASE ~Finished /\ Finished'
  <2>1. isShutdown'
    BY <1>3 DEF Finished
  <2>2. tasks = <<>>
    BY <1>3
  <2>3. (isShutdown /\ ~isRunning /\ ~Failed)' = TRUE
    BY <1>3, Zenon DEF Finished
  <2>4. Abstract!Finish
    BY <1>1, <1>2, <2>1, <2>2, <2>3 DEF Abstract!Finish
  <2> QED
    BY <2>4 DEF Abstract!Next
<1>4. CASE Finished' <=> Finished
  <2>0. (isShutdown /\ ~isRunning /\ ~Failed)' = (isShutdown /\ ~isRunning /\ ~Failed)
    BY <1>4, Zenon DEF Finished
  <2>1. CASE isShutdown <=> isShutdown'
    BY <1>1, <1>2, <2>0, <2>1 DEF Abstract!vars
  <2>2. CASE ~isShutdown /\ isShutdown'
    <3>1. Abstract!Close("queue")
      BY <1>1, <1>2, <2>0, <2>2 DEF Abstract!Close
    <3> QED
      BY <3>1 DEF Abstract!Next
  <2> QED
    BY <2>1, <2>2
<1> QED
  BY <1>3, <1>4

\* Every step of the queue is a step of the event target, or a stutter.
LEMMA AbstractStep ==
  ASSUME Contents, [Next]_vars
  PROVE  [Abstract!Next]_(Abstract!vars)
<1>0. TypeOK /\ FateAgrees /\ NoneLeft /\ OneBound
  BY DEF Contents, IInv
<1>1. ASSUME NEW e \in Tasks, Accepted(e) \/ Refused(e) PROVE Abstract!Next
  BY <1>0, <1>1, AbstractAccept, AbstractRefuse DEF Abstract!Next
<1>2. ASSUME NEW e \in Tasks, TakeTask(e) PROVE Abstract!Next
  <2>1. Failed' <=> Failed
    BY <1>0, <1>2 DEF TakeTask, Failed, TypeOK
  <2>2. Abstract!Deliver("queue")
    BY <1>0, <1>2, <2>1, AbstractDeliver
  <2> QED
    BY <2>2 DEF Abstract!Next
<1>3. ASSUME UNCHANGED <<tasks, fate>> PROVE [Abstract!Next]_(Abstract!vars)
  <2>1. isShutdown => isShutdown'
    BY Steps DEF Dispatch, TakeTask, FinishTask, Stop, GoOn, Redispatch, GiveUp, BeginShutdown,
                 Awaiting, vars
  <2>2. ASSUME Finished PROVE Finished'
    <3>1. isShutdown /\ ~isRunning /\ ~Failed /\ \A r \in Tasks : ~Bound(r)
      BY <1>0, <2>2 DEF Finished, OneBound
    <3>2. ~isRunning' /\ ~Failed'
      <4>1. ASSUME NEW e \in Tasks, Dispatch(e) PROVE ~isRunning' /\ ~Failed'
        BY <3>1, <4>1 DEF Dispatch, Failed
      <4>2. ASSUME NEW e \in Tasks,
                   \/ TakeTask(e) \/ FinishTask(e) \/ Stop(e) \/ GoOn(e) \/ Redispatch(e)
                   \/ GiveUp(e)
            PROVE  FALSE
        BY <3>1, <4>2 DEF TakeTask, FinishTask, Stop, GoOn, Redispatch, GiveUp, Bound, Active
      <4>3. ASSUME \/ BeginShutdown \/ UNCHANGED vars
                   \/ \E a \in Waiters, s \in BOOLEAN : Awaiting(a, s)
            PROVE  ~isRunning' /\ ~Failed'
        <5>1. UNCHANGED <<isRunning, runner>>
          BY <4>3 DEF BeginShutdown, Awaiting, vars
        <5> QED
          BY <3>1, <5>1, Zenon DEF Failed
      <4> QED
        BY <4>1, <4>2, <4>3, Steps, Zenon
    <3> QED
      BY <2>1, <3>1, <3>2 DEF Finished
  <2>3. ASSUME Finished' PROVE tasks = <<>>
    <3>1. NoneLeft'
      BY NoneLeftStep DEF Contents
    <3> QED
      BY <1>3, <2>3, <3>1 DEF NoneLeft, Finished
  <2> QED
    BY <1>3, <2>1, <2>2, <2>3, AbstractSwitch
<1> QED
  BY <1>1, <1>2, <1>3, QueueSteps

\* Tasks run in the order of their dispatch, each once, and none is left in a
\* queue that is shut down and idle, unless the dispatch of a Runner failed
\* (TaskQueue::DispatchLocked, TaskQueue::Runner::Run).
THEOREM Implements == Spec => ImplementsEventTarget
<1>1. Init => Contents
  <2>1. Init => FateAgrees /\ NoneLeft
    BY DEF Init, FateAgrees, Queued, NoneLeft
  <2> QED
    BY <2>1, InvInit DEF Contents
<1>2. Contents /\ [Next]_vars => Contents'
  <2> SUFFICES ASSUME Contents, [Next]_vars PROVE Contents'
    OBVIOUS
  <2>1. IInv' /\ FateAgrees'
    BY InvStep, FateStep DEF Contents, IInv
  <2>2. NoneLeft'
    BY NoneLeftStep DEF Contents
  <2> QED
    BY <2>1, <2>2 DEF Contents
<1>3. Contents /\ [Next]_vars => [Abstract!Next]_(Abstract!vars)
  BY AbstractStep
<1> QED
  BY <1>1, <1>2, <1>3, AbstractInit, PTL DEF Spec, ImplementsEventTarget, Abstract!Spec
=============================================================================
