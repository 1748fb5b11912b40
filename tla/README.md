# Formal models of the XPCOM threading core

The repository is a Gecko tree with `xpcom/`, `dom/`, `netwerk/`, `widget/` and
`xpfe/`. Most of its 30 000 files are web APIs, bindings, data and conformance
tests. What all of it stands on is the threading core in `xpcom/threads`: event
queues, threads with an event loop each, thread pools, task queues and timers.
Nearly every other component is a client of these classes, they are where
threads really interleave, and tests reach few of the orders in which they may.
This project models that core in TLA+, checks it with TLC and proves part of it
with TLAPS.

File names below are relative to `src/xpcom/threads` unless they say otherwise.

## Inventory

| Component | State | Operations | Talks to |
|---|---|---|---|
| `ThreadEventQueue` | `mBaseQueue`, `mNestedQueues` with a `NestedSink` each, `mEventsAreDoomed`, one lock, one condition | `PutEvent` (any thread), `GetEvent`, `PushEventQueue`, `PopEventQueue`, `ShutdownIfNoPendingEvents` (owner) | `nsThread`, every dispatcher |
| `nsThread` | nesting depth, `mShutdownRequired`, `mShutdownContext`, `mRequestedShutdownContexts`, per context `mAwaitingShutdownAck` | `ProcessNextEvent`, `Dispatch`, `Shutdown`, `AsyncShutdown`, `ShutdownComplete`, `ThreadFunc`, `WaitForAllAsynchronousShutdowns` | its queue; the joining thread, by a shutdown event and an ack event |
| `DISPATCH_SYNC` | `nsThreadSyncDispatch::mIsPending`, `mSyncTask`, `mOrigin` | dispatch, run, reply | two threads' queues |
| `nsThreadManager` | the thread list, `mMainThread` | `Shutdown`: drain, stop the listed threads, wait for asynchronous shutdowns, drain | all threads |
| `nsThreadPool` | `mEvents`, `mThreads`, limits and timeouts, `mIdleCount`, `mIsAPoolThreadFree`, `mShutdown`, one lock, one condition | `Dispatch`/`PutEvent`, `Run`, `ShutdownThread`, `Shutdown`, `ShutdownWithTimeout`, setters | the threads it makes; the main thread, which stops surplus ones |
| `TaskQueue` | `mTasks`, `mIsRunning`, `mIsShutdown`, `mTarget`, `mShutdownPromise`, one monitor | `Dispatch`, `Runner::Run`, `BeginShutdown`, `AwaitIdle`, `AwaitShutdownAndIdle` | its event target, often a pool |
| `ThrottledEventQueue` | its queue, `mExecutor`, `mIsPaused`, one lock, one condition | `Dispatch`, `ExecuteRunnable`, `SetIsPaused`, `AwaitIdle`, `GetEvent` | its base event target |
| `nsTimerImpl`, `TimerThread` | per timer: type, delay, time-out, generation, callback, its place in the heap, one lock; the heap of armed timers, `mSleeping`, `mShutdown`, one monitor | `Init*`, `Cancel`, `SetDelay`, `SetType` (any thread), `Fire` (the target); `Run`, `AddTimer`, `RemoveTimer`, `PostTimerEvent`, `Shutdown`, sleep and wake | the timers' event targets, by an `nsTimerEvent` |
| `LazyIdleThread` | the thread, its idle timer, counts of pending events and idle notifications, runnables kept during a shutdown | `Dispatch`, `EnableIdleTimeout`, `DisableIdleTimeout`, `Shutdown`, `Notify`, `ScheduleTimer` (owner); `AfterProcessNextEvent`, `InitThread`, `CleanupThread` (the thread) | `nsThread`, a timer, its owner's event loop |
| `PrioritizedEventQueue`, `IdlePeriodState` | a queue per priority; the cached idle deadline, the promise of an idle event, the idle token | put, select, get, `HasReadyEvent`, with the lock given up for the idle state | `ThreadEventQueue` |
| `MozPromise` | value, `mThenValues`, `mChainedPromises`, one lock; per request `mDisconnected`, `mComplete`; the holder of `All` | `Resolve`, `Reject`, `Then`, `ChainTo`, `Disconnect`, `All`, `InvokeAsync` | the consumers' event targets |
| mirrors, watchers, `TaskDispatcher` | values, tail-dispatch groups | mirror, notify, tail dispatch | any event target |

`PROJECT.json` lists the rest of the tree with the reason why it is left out:
locks that wrap the platform's, pipes and streams, the cycle collector,
containers and component lookup, the HTTP cache and the rest of networking,
directory locks, and the web platform above all that.

What is hard in this core, and what the properties are about:

* **Wakeups.** A condition variable has no memory. An event put between the
  owner's look and its wait, a notification that reaches a thread about to leave,
  a flag changed without a notification would leave someone asleep over work.
* **Emptiness at the end.** A queue may refuse events only when it is empty, a
  thread may exit only when it has run what was accepted, and between the look at
  the queue and the refusal nothing may slip in.
* **Nested event loops.** `Shutdown()` and `DISPATCH_SYNC` run other events while
  they wait, which make such calls themselves. Acks arrive at a depth other than
  the one that waits for them.
* **Two parties for one duty.** Several threads may stop the same thread; a pool
  thread may leave while the pool is shut down; several dispatches may each make
  the last thread the limit allows.
* **Decisions from stale counts.** The pool decides whether to make a thread, and
  a Runner whether to go on, before they release the lock they act after.
* **Dispatches that fail** halfway through an operation. Late in the shutdown of the
  process every thread but the main one refuses events, acks and replies among them.
* **Late events.** A timer event that was posted, or a callback that is running,
  meets a timer that was canceled, armed anew or put off meanwhile, by a thread
  that holds another lock than the timer thread does.
* **Answers that cross requests.** A promise is settled on one thread while others
  call `Then` or chain to it, consumers disconnect while the answer is under way, and
  `All` collects from promises that answer in any order.
* **State kept across generations.** The counters of a `LazyIdleThread` outlive
  the threads it makes: what one thread leaves in them the next one inherits.

## Modules

| Module | Models | Extends or instantiates |
|---|---|---|
| `EventTarget` | what a group of event targets promises (`nsIEventTarget.idl`) | |
| `ThreadEventQueue` | `ThreadEventQueue` of an `EventQueue` or a `PrioritizedEventQueue` | `EventTarget`, as its abstraction |
| `ThreadShutdown` | `nsThread`, `DISPATCH_SYNC`, `nsThreadManager::Shutdown` | |
| `ThreadPool` | `nsThreadPool` | |
| `TaskQueue` | `TaskQueue` | `EventTarget`, as its abstraction |
| `ThrottledEventQueue` | `ThrottledEventQueue` | `EventTarget`, as its abstraction |
| `TimerThread` | `nsTimerImpl`, `nsTimerEvent`, `TimerThread` | |
| `LazyIdleThread` | `LazyIdleThread` | `EventTarget`, as its abstraction |
| `MozPromise` | `MozPromise`, `InvokeAsync` | |
| `MCThreadShutdown`, `MCThreadPool` | definitions for TLC: who may stop or call whom, symmetry | the modules above |
| `ThreadEventQueueProofs`, `ThreadShutdownProofs`, `ThreadPoolProofs`, `TaskQueueProofs`, `ThrottledEventQueueProofs`, `TimerThreadProofs`, `LazyIdleThreadProofs`, `MozPromiseProofs` | theorems | the module each is named after |

### EventTarget

The promise, without queues, locks or threads. Targets are open or closed. An
open target takes every event and a closed one refuses it; what one target took
is delivered in order and each event once, also after the target has closed; the
group is finished only when nothing is pending, and then no target is open.

### ThreadEventQueue

Each action is one critical section of `mLock`. `mEventsAvailable.Wait()`, which
gives the lock up, splits `GetEvent` into `GetEvent` and `ReturnFromWait`; a wait may
also end spuriously. `owner` is where the owning
thread is, `signaled` says that the condition was notified since it began to
wait. A sink is a number, 0 for the queue itself, -1 for its idle events, and n for the
`NestedSink` of the n-th `PushEventQueue`; `connected` are the sinks with a non-null `mQueue`, so
events may still be sent to a sink whose queue was popped. `sentTo`, `fate` and
`owed`, what each sink accepted and was not yet taken, are history, for the
properties only.

The queue may be a `PrioritizedEventQueue` (`prioritized`), whose idle events wait
for idle time. `GetEvent` then gives the lock up a second time, to ask the
`IdlePeriodState` (`owner = "updating"`), and looks again (`LookAgain`) before it
waits. `HasPendingEvent` gives it up too (`"peeking"`), and if it then says that an
idle event can be run, `promised` (`mHasPendingEventsPromisedIdleEvent`) makes the
next answer of the idle state a yes, also when the idle period is over; any
`GetEvent` that returns ends the promise. What the idle state answers otherwise is a
choice (`IsIdleTime`): the idle period, the token and its scheduler are behind it. In
a shutdown the answer is always yes. Idle events are put by the owning, main thread
only, as `PrioritizedEventQueue.cpp:68` asserts.

Left out: the other priorities, their alternation and the suspension of input; the
observer; statistics; `DidRunEvent`, which may give the lock up but changes nothing
that is modelled. That it calls `RanOutOfTasks`, which asserts that no idle event is
promised (`IdlePeriodState.cpp:56`), when the queues are empty, is part of
`PromiseBacked` in the proofs.

### ThreadShutdown

Each thread has a queue, which takes and refuses events as in `ThreadEventQueue`
without its nested queues, and a stack of the events it is running. A frame of
the stack has a stage: it has begun, checks the predicate of a
`SpinEventLoopUntil`, is blocked in `NS_ProcessNextEvent`, joins, has finished,
or (sync dispatch) has let its origin go on and not sent the reply yet. `phase`
follows `ThreadFunc`: loop, drain, doomed, acked, dead.

A client's runnable makes one call, or none, so that a longer one is several
runnables. `MayStop` and `MaySync` say which thread's code makes which calls.
`nsThreadManager::Shutdown` begins when the main thread is at the outermost
level with an empty queue, and its first drain and the task queues of the
background target are behind it.

`gXPCOMThreadsShutDown` is the flag that `ShutdownXPCOM` sets before it calls the
manager (`XPCOMInit.cpp:639`, `SetThreadsShutDown`). From then on `Dispatch` to any
thread but the main one fails (`ThreadEventTarget.cpp:116`, `Refuses`): a runnable, the
call of a `DISPATCH_SYNC`, its reply, and the ack of a thread whose joiner is not the
main thread. The shutdown event goes to the queue by `PutEvent` and is exempt. The flag
is a plain `bool` that other threads read without a lock, so that what they dispatch
after it was set may be refused or accepted; the main thread, which set it, sees it
(`Accepts`). The manager may also run without the flag, as in a plugin process
(`PluginProcessChild.cpp:193`). `refusedAcks` and `refusedReplies` are history: whose
ack, and which sync dispatch's reply, was refused. The other modules describe
the time before the flag is set. After it more dispatches fail than they say: a pool's
`Run` to a new thread, an executor sent again to a base that is a thread's queue, and
what a `LazyIdleThread` sends to its thread (with `AutomaticShutdown` it is shut down
just before, `XPCOMInit.cpp:635`).

Left out: the creation of threads, observers, local execution mode, the
`MessageLoop` of the outermost level beyond its condition to end.

### ThreadPool

Each action is a critical section of `mMutex` or a step between two of them.
`Dispatch` tests `mShutdown` unlocked (`Check`), queues the event (`PutEvent`),
creates a thread unlocked (`CreateThread`), appends it or finds it surplus
(`AppendThread`), and starts or stops it unlocked (`StartThread`, `KillThread`).
A dispatch makes one thread at most, so the thread carries the event's name. A
round of `Run` is `TakeEvent`, `Wait` or `Leave`; `NS_DISPATCH_AT_END` is a
dispatch that a running event makes, and makes no thread. The idle timeouts are a
choice in `Leave`, the listener is left out. Of an `nsThread` the model keeps
that it runs what it was given, exits once it was stopped, and then refuses
events; `ThreadShutdown` is where that is checked.

### TaskQueue

Each action is a critical section of `mQueueMonitor`, or the run of a task. A
`Runner` carries the name of the task whose `Dispatch` made it. The event target
is external: `Outcomes` says what its `Dispatch` may do: accept, fail, or return
success for a Runner that it never runs, as `nsThreadPool` may. Waiters keep the
place in `AwaitShutdownAndIdle` where they wait; `woken` are those notified
since, and any waiter may also wake spuriously. Left out: tail dispatch, which
moves the moment of `DispatchLocked`, and the promise's handlers.

### ThrottledEventQueue

Each action is one critical section of `Inner::mMutex`. `executor` is whether
`mExecutor` is set and `inBase` how often it is in the base target's queue, which
is what `OneExecutor` relates. The base is external: it runs what it took, in
order, and ends (`CloseBase`) once it has nothing left. The event itself runs
after the lock is released and changes nothing here, so that its end is not a
step. `drained` queues are those like `DocGroup`'s queue of iframe messages
(`dom/base/DocGroup.cpp`), which stays paused while its client takes the events
out with `GetEvent`; `GetEvent` with an executor in flight would leave the
executor without an event, and nobody calls it that way. `AwaitPaused` says
whether clients call `AwaitIdle` on a paused queue, as a test of the repository
does and the header forbids.

### TimerThread

There are two kinds of locks: each timer's `mMutex` guards its fields, the timer
thread's `mMonitor` guards the heap. `Init*`, `Cancel` and `SetDelay` hold the
first over two sections of the second, `RemoveTimer` and then, perhaps,
`AddTimer`; each is two actions, and `call` says whose call is between them. The
timer thread, the other timers and a running callback go on meanwhile; whatever
else needs that timer's `mMutex` waits (`call[t] = "none"`). A callback runs
between `FireBegin` and `FireEnd` without a lock, so that it, or any other thread,
may do with the timer what it likes. `nsITimer.idl` asks for the timer to be used
from its target's thread only after `Init`, but the code does not rely on it,
and neither does the model.

`entries` are the entries of `mTimers` that hold a timer, `holes` the times of
those that were forgotten, which stay in the heap until they come to its front
(`Pruned`) and matter because `AddTimer` wakes the timer thread only for an entry in
front of all of them. `holder` is `mHolder`. `thread` follows `TimerThread::Run`:
at the head of its loop, looking again after an event was posted (when it does
not mind `mSleeping`), dispatching with `mMonitor` released, or waiting; `deadline`
is the end of the wait, empty for ever. `lost` and `promised` are history: that an
arming was turned away (the timer thread is shut down, or the target refused the
event), and when the callback may run at the earliest.

What the model shows of the code, and takes from it as it is:

* `nsTimerEvent::Cancel`, called by a worker that shuts down, cancels the timer even
  if it was armed anew since the event was made (`DiscardEvent`).
* When a target refuses an event, `PostTimerEvent` removes the timer from the heap in
  whatever state it is by then (`Refused`): an arming made during the `Dispatch` is
  dropped with it. Such a timer is `lost`.
* `SetDelay` while an event is under way moves `mTimeout` but not the event, so that a
  precise repeating timer next fires two delays later. Of such an event `NotEarly`
  promises nothing.
* "If some other thread Cancels/Inits after this, they're just too late"
  (`nsTimerImpl.cpp:519`): a callback that has begun is not part of `OneArming`
  once the generation has changed.

Left out: `FindNextFireTimeForCurrentThread`, which restores the heap it takes
apart; `SetTarget`; the reference counts; the creation of the timer thread; chaos
mode; the rounding of waits, by which a callback may be early by half the
resolution of the platform's clock (`mAllowedEarlyFiringMicroseconds`). A repeating
precise timer that may skip behaves in `Fire` as one that may not.

### LazyIdleThread

All calls come from the owning thread. Its actions are split where a call releases
`mMutex` with the worker able to see the difference, and where it spins the event
loop: after `StopThread`, any of the owner's events may run until the ack of the
thread is received and `FinishShutdownThread` follows, `Shutdown` among them
(`ShutdownAgain`, `ForgetThread`). `mail` is what the thread sent to the owner. Of
`nsThread` the model keeps the queue, the observer it had when an event began
(`ProcessNextEvent` takes the observer before and uses it after the event, so that
`InitThread` is not counted and `CleanupThread` is), and its end. `fate` and `owed`, the
tasks accepted and not yet run, in order, are history, as `reentered` is.

The runnables kept during `ShutdownThread` are dispatched again in one step, though the
code goes one by one (`LazyIdleThread.cpp:303-311`): the owner does nothing else
meanwhile, and the worker takes them in the same order.

Left out: that the thread cannot be created; `SetWeakIdleObserver`; deletion, which
calls `Shutdown`. Events are dispatched through the `LazyIdleThread` only: one that a
task dispatches to its current thread directly is counted down and never up.

### MozPromise

Every operation on a promise holds its `mMutex`. It is one action, except for
`DispatchAll`, which goes through the consumers and then the chained promises with
the lock held: `DispatchNext` dispatches to one consumer, `Forward` settles one chained
promise under its own lock, and `locked` are the promises whose lock is held
meanwhile, so that nobody else can use them, while other threads and the targets
go on. Which thread holds a lock is not kept: a target may run on although it is its
own callback that forwards, which only adds behaviours. An outcome keeps which promise it came from, so that `ToldTruly` can tell
the right answer from another one. The targets are external: they run what they
took, in order, also after they are closed, as `ThreadEventQueue` shows for threads.
`request[r]` is the r-th call of `Then`; `kind` says how a derived promise came about
(as the completion promise of a `Then`, as the proxy of `InvokeAsync`, or by `All`)
and `source` which one it was chained to. `All` calls `Then` on its members one by
one (`JoinNext`), while other threads settle them, so that its holder may be told before
the last `Then`. Requests that are disconnected stay in the lists, as in the code.

A callback on a target is one action with the settling of its completion promise;
the forwarding at its end may overlap what the target runs next. `Then` is called on
an open target, and a target is closed when each request there is complete or
disconnected: a consumer that shuts its thread down is expected to disconnect, else
`AssertIsDead` fails when the promise goes away (`MozPromise.h:455-458`). That a
request with a completion promise is excused from it if that promise is dead is left
out. An `InvokeAsync` whose target refuses the call leaves its proxy promise pending for
ever, as `InvokeAsyncImpl` ignores the result of `Dispatch` (`MozPromise.h:1377`).

Left out: exclusive promises (an assertion and moved values), the request and promise
holders, `All` of no promises, and the conversions from promises of other languages.

## Runs

| Run | Question | Bounds |
|---|---|---|
| `teq` | Is anything lost, doubled, stranded, reordered, slept through, and does every sink that is connected have its queue? Does the queue implement `EventTarget`, and is every event run? All this also while the lock is given up for the idle state. | 3 events, normal or idle, 2 nested queues |
| `ts_any` | In any tangle of shutdowns and sync dispatches: nothing is stranded in a doomed queue, each ack finds its joiner, a thread is joined before it is forgotten, a nested loop that could end is woken unless its thread refused the reply | 3 threads, any stops any, any calls any, 3 client events |
| `ts_ordered` | If threads are stopped only down a fixed order, does each shutdown complete, and the manager's, unless an ack or a reply is refused, and is no thread left when the manager returns? | 3 threads, 3 client events |
| `tp_resized` | With limits changed at any moment, failures and shutdowns: is the idle count exact, has each thread one party that stops it, does none work on after `Shutdown`? | 3 events, limits 1–3, idle limits 0–2 |
| `tp_fixed` | Does a sleeping pool never leave an event behind, do the limits and the flag for `nsThread` hold, is every event run and every thread reclaimed? | 3 events, limit 2, idle limit 1 |
| `tp_refusal` | Is a refused dispatch reported? It is not. | 2 events |
| `tq` | One Runner, with work and a target; does the task queue implement `EventTarget`, is every task run and the promise resolved unless the target fails or swallows a Runner? | 3 tasks, 2 waiters, all outcomes |
| `thq` | One executor exactly when one is needed, however the queue is paused and resumed; does the queue implement `EventTarget`, is every event run, do waiters return? | 4 events, 2 waiters |
| `thq_wakeup` | Can a waiter that a pause sent back to sleep sleep on although the queue is idle and running again? It can. | 2 events, 1 waiter |
| `timers` | Is each arming of a timer in one place, is none forgotten, does no callback start early, does the timer thread never oversleep, and does every timer that is due fire? | 2 timers, delays 1 and 2, clock to 2, 3 calls |
| `promises` | Is every consumer told the one answer, in order, and in the end, whoever settles, chains, disconnects and closes targets meanwhile? Does `All` wait for all, and keep their order? | 2 promises and 1 derived, 2 targets, 2 calls of `Then`, `All` of 2 |
| `lazy` | Is what accepts events over many threads one event target, does every task run, does each thread begin with nothing left of the last, and does an idle thread stop? | 3 tasks, the idle timeout disabled twice |

Why the bounds are enough to be of interest. Two nested queues give a popped
queue below a live one, and three events fill all three queues at once or put two
in one, so that order matters. Three threads give chains (main stops A, A stops
B), cycles, two parties that stop the same thread, and an ack that arrives while
its joiner is in a nested loop; with three client events each of the three can be
making a call at once, or one thread can have three frames. Three
dispatches against a limit of two give two threads racing for the last slot and
one that is surplus; an idle limit of one gives an idle thread, one that has to
leave and one that is busy. Two waiters give one of each kind. Four events on a
throttled queue give an executor that sends itself on, one that is found paused,
one made at resumption, and an event for a base that has ended. Two timers with two
delays give an entry behind another, behind a forgotten one, and in front of both;
three calls arm a timer, cancel it and arm it again while the event of the first
arming is under way, or arm two and put the machine to sleep; a repeating timer
fires again without a call. Three tasks give one that is running when the thread
is told to stop, one that is kept, and one for the thread after that. Two promises
and two calls of `Then` give two consumers of one promise on one target or on two,
one of each promise, one before and one after the answer, a promise chained to one
that answers later, and `All` of two that answer in either order, or of one promise
twice. `All` of two members beside another consumer would take three calls; the
proofs cover it. Chains of several forwardings would take more
derived promises; each link is a `Forward` of its own.

Deadlock is checked in every passing run but `timers`, `promises` and `lazy`, where
the timer thread has ended, or nobody needs anything more (the calls are bounded), and
the two runs of `ThreadShutdown`, where the code really may wait for ever. In `ts_any`
threads may stop one another, or dispatch in sync to a thread that was stopped from
inside the runnable. `ts_ordered` is the discipline that rules this out. What is left
there is the refusal of an ack or of a reply (see the differences below), and
`ShutdownCompletes` says that without one there is no waiting for ever. The end of a
run is the action `Terminated`, which is a stutter; a task queue never ends, as
`BeginShutdown` can be called again.

### Fairness

* `ThreadEventQueue`: the owner keeps calling `GetEvent`, as the loops of
  `ThreadFunc` and `SpinEventLoopUntil` do, and is scheduled once notified. What else
  it calls in between (pushes, `HasPendingEvent`) may disable `GetEvent` for a while,
  hence strong fairness. The idle state answers, with no fairness about what. Puts,
  pushes and pops are under no fairness, and neither is a spurious wakeup.
* `ThreadShutdown`: a thread that can take a step does, the main thread also in the
  manager's shutdown; blocked threads are not helped. Nobody has to dispatch, to set
  the flag, or to begin the manager's shutdown.
* `ThreadPool`: dispatches go on, worker threads are scheduled, the main thread
  runs what was dispatched to it. Events end (`FinishEvent` is in `WorkerStep`).
  Idle timeouts and spurious wakeups are under no fairness, so nothing relies on
  them to pick an event up.
* `TaskQueue`: the target runs the Runners it accepted, and a notified waiter gets
  the monitor.
* `ThrottledEventQueue`: the base runs the executor it took, and a notified waiter
  gets the lock. Pausing and resuming are under no fairness; `EventuallyRun`
  supposes that the queue is at last not paused any more, `AwaitIdleReturns` that
  nobody pauses it.
* `TimerThread`: whoever holds a lock lets it go, targets run the events they took,
  callbacks end, `Shutdown` goes through its timers, and the timer thread runs unless
  it waits, unnotified, for a time that has not come. Time itself, and spurious
  wakeups, are under no fairness: `EventuallyFires` is about timers that are due.
  The machine may be put to sleep, and then timers do not fire.
* `LazyIdleThread`: both threads run their events, a call that was begun goes on, and
  an armed idle timer fires. Nobody has to dispatch, to call `Shutdown`, or to enable
  the idle timeout again.
* `MozPromise`: a thread that is forwarding an outcome goes on, and so do the event
  loops of the targets. Nobody has to settle, or to ask for, anything.

`EventuallyRun` of `ThreadEventQueue` supposes that the owner is at last back at
the base queue, as a nested queue that is never popped hides the others; an idle
event it promises to run once the thread shuts down, as there may be no idle time. That of
`ThreadPool` is about events accepted before a shutdown, or with a thread in
`Run`. Where the target swallows a Runner, a `TaskQueue` makes no promise.

### Mutants

`PROJECT.json` names a mutant for each property of each run: a bug in one
definition, written beside it and marked `Mutant:`, which makes the property
fail: a forgotten notification or reply, a dropped emptiness test, a thread
stopped by a party that no longer owns it, and so on.

## Proofs

`ThreadEventQueueProofs` proves, for any set of events and any bound on pushes, the
type invariant, the safety properties of the run `teq`, and that an accepted event is
in one queue, once, until it is taken. None of them is inductive alone. The
invariant `IInv` adds three facts: the owner has exited exactly if the queue is
doomed (else a doomed queue could be looked at again), every level's sink is
at most `pushes` (so that the sink of a push is new), and `PromiseBacked`: there is an
idle event as long as one is promised, although the lock is given up between the
promise and `GetEvent`, and the idle state is asked for the base queue only. From it
`LookAgain` waits only if nothing is promised. The proof has one lemma per
action. The hard step is `PopEventQueue`, which moves a queue behind another:
`MoveConserves` shows that moving keeps each event in one place. The assumption
is that `MaxPushes` is a natural number.

It also proves that the module implements `EventTarget`, with a target per sink. What a
sink owes (`owed`) are its queued events in the order of their puts, which need not be
how they lie in a queue, as a pop mixes them with those of other sinks. `OneHome` says
that the events of one sink are all in one queue, its own until that is popped, and
`InTurn` that they have their order there. So the head of a queue is the oldest of
its sink (`TakenIsOldest`), although a level may hold the events of many. `PopOwing`
is the step that could break it: what is moved must come behind what the queue below
holds of the same sink, and there is nothing of it.

`TaskQueueProofs` proves, for any sets of tasks and waiters and any subset of the
three outcomes, the type invariant, the three safety invariants of the run `tq`, and
that the module implements `EventTarget`. `OneRunner`
is not inductive, as a Runner lost by the target is no longer active but keeps
`mIsRunning` set: `OneBound` counts lost ones in, and then the test of
`mIsRunning` in `DispatchLocked` is enough. `RunnerReady` needs it too: that
`MaybeResolveShutdown` clears `mTarget` only when `mIsRunning` is false protects
a Runner only if a Runner implies `mIsRunning`. For the refinement, `FateAgrees` ties the
history to `mTasks`, and `NoneLeft` says that tasks are left without a Runner
only after a dispatch failed, so that the abstract target is finished only
when it is empty.

`ThrottledEventQueueProofs` proves, for any sets of events and waiters, the type
invariant, the safety property of the run `thq` and that the module implements `EventTarget`.
`OneExecutor` speaks of a queue that is not paused; what makes it inductive is
`ExecutorJustified`: also while the queue is paused, an executor in flight has an
event to find, else resuming could leave one behind without an event. (This is
where a `GetEvent` under an executor would break it.) `FateAgrees` ties the
history to the queue, each event in one place. For the refinement, each step that
changes the queue is one of `EventTarget`: `AbstractAccept`, `AbstractRefuse`,
`AbstractDeliver`, under lemma `OpenStays`, by which such a step leaves the target
as open as it was. All other steps open it, close it, or stutter
(`AbstractSwitch`). No constant needs an assumption.

`TimerThreadProofs` proves, for any timers and delays and any bounds of the clock
and the calls, the type invariant, the three invariants and the action property of
the run `timers`. The assumption is that delays and bounds are natural numbers. The
inductive invariant `IInv` is built in layers, each proved inductive relative to
those before it: `Places` (the heap and `mHolder` agree; who is between two sections
has removed its timer; no event is of a generation to come; the arming is in one
place), `Kept` (what was turned away is nowhere; a timer has a callback exactly if it
is armed), `Early` and `Timely` (an event is made, and a timer queued, for the time
that was promised or later), and `NoneOverslept`. `OneArming` is not inductive since
`SetDelay` puts a timer back without a new generation: what keeps an event from being
under way then is that `RemoveTimer` found the timer in the heap, which the state
"readd" of `call` remembers. `NoOversleep` is not since a new entry behind a
forgotten one does not wake the timer thread: `NoneOverslept` says that the wait
ends in time for the forgotten ones, too. `HasFirst` shows that a heap that is not
empty has an earliest entry, from the well-foundedness of the natural numbers.

`ThreadShutdownProofs` proves, for any number of threads, any depth of nesting and any
`MayStop` and `MaySync`, the type invariant and the invariants of the runs `ts_any`
and `ts_ordered`. The key of the inductive invariant is `Claims`: everything that
names the thread that joins `u` (the outstanding context in its list, the context
of `u`, the shutdown event, the ack, and the frame that waits for the ack) names the
same one, because the compare-and-exchange of `mShutdownRequired` lets one caller
through. `AckDeliverable` says that whom the ack names is alive, not that the ack is
accepted. It needs, besides, that a thread that is asked to join another
does not exit meanwhile (`Outlives`); for the main thread this rests on
`WaitForAllAsynchronousShutdowns`, hence `OneManager` and `ManagerWaits` keep where
the manager is. `NoneIsLeft` has an assumption: threads stop one another only up some
rank. Without one it is false, as two threads may wait for each other's ack for
ever, while `ts_ordered` has such an order. Its proof takes, of the threads that are
left, one of the highest rank, which `Outlives` says nobody is waiting for. A refused
ack is in neither's way, as the thread that waits for it does not go on.
`NestedLoopsAreWoken` names its one exception: a thread that refused the reply to the
sync dispatch it waits for (`Kept`, `RefusalTypes` and `Replied` follow the replies).

`ThreadPoolProofs` proves, for any set of events and any limits, the type invariant and
the five invariants of the runs `tp_resized` and `tp_fixed`. `OneStopper` is not
inductive, as what a thread does next depends on where it is in `Run`: `Stage` ties the
one to the other. `NoneWorksAfterShutdown` needs `Belongs`: before a shutdown
`mThreads` has exactly the threads that work or are about to, and later whoever still
works was taken over by `Shutdown`. That `mIdleCount` does not become negative needs
`Idlers`, so that `TypeOK` is not inductive either. `LimitsAreKept` assumes what its run
has, that the limits are not changed and allow a thread. `EventsAreAttended` assumes
that threads can be created and that no limit is zero; it needs `Attended`, which adds
that where only a dispatch attends to an event, no thread is waiting: the first event of
a queue is signalled to a thread that waits, if there is one.

`LazyIdleThreadProofs` proves, for any set of tasks and any number of toggles, the type
invariant and the safety invariant of the run `lazy`. `FreshStart` says that two counters
are back at their start when a thread is gone. It follows from what they are equal to
all along (`Counts`): `mPendingEventCount` the events whose `AfterProcessNextEvent` is to
come, and `mIdleNotificationCount` the `ScheduleTimer`s that are to come. For these to be
preserved, it must be known which events come first and last in the worker's queue
(`Order`, `End`), that the ack is the last the owner hears (`Letters`), and that only
clients' events are kept for the next thread (`Clients`). All this is claimed, like
`FreshStart`, only as long as `Shutdown` was not called within `ShutdownThread`
(`reentered`); `TypeOK` always. It proves, too, that the module implements
`EventTarget`. What is owed is with the thread or kept for the next one (`Placed`), in
the order of the calls (`InTurn`), also after `reentered`. `Closing` says that nothing
is kept when events go to a thread directly, else they would overtake, and that
after `Shutdown` nothing is kept and the thread is being stopped; with `Phases`, by
which a thread is gone only with an empty queue, nothing is owed in the end
(`NothingOwed`). The assumption is that tasks differ from the events that
`LazyIdleThread` dispatches itself.

`MozPromiseProofs` proves, for any promises, targets and bound on the calls of `Then`, the
three safety invariants of the run `promises`; the assumption is that promises are not
numbers, which are the names of requests. None of the three is inductive. A request
is in one place, `mThenValues` of its promise, the queue of its target, or done, and
moves on in the order of the calls (`Lists`, `Queues`, `Sorted`, `Line`): this gives
`InOrder`. That a consumer that comes while `DispatchAll` is under way cannot overtake is
`Mutexes`: the lock is held as long as there is anybody to tell. Each promise has one
party that settles it, its producer, the promise it follows, or the holder of `All`
(`Roles`), so that no outcome is ever replaced (`Truth`). For `All`, `Asked` says that each member
has at most one request of the holder, and `Holder` that the count of outstanding
members is the cardinality of those that have not reported.

What stays with TLC:

* Everything about liveness, which is out of the prover's reach.
* `TypeOK` of `MozPromise`, since what `All` resolves with is a `FlattenSeq`; the proofs
  use `Shape`, which is the rest of it. It held whenever TLC checked it; no run
  repeats it.

## Where code and documentation differ

Two runs show a difference and are expected to fail their property:

* `tp_refusal`: `nsThreadPool::Dispatch` returns `NS_OK` for an event that
  `PutEvent` refused, if `Shutdown` came after the unlocked test of `mShutdown`.
* `thq_wakeup`: a thread in `ThrottledEventQueue::AwaitIdle` is notified when the
  queue becomes empty, but a pause that comes before it has the lock sends it back
  to wait; `SetIsPaused(false)` of the empty queue notifies nobody, and it sleeps on
  over an idle queue until a later event is run. (If, against
  `ThrottledEventQueue.h:83`, `AwaitIdle` is called on a paused empty queue, as it
  may be in a race with the pause, the same happens at once.)

Others were met while modelling and are in the models as the code has them:

* A thread other than the main one that has stopped another, or called
  `DISPATCH_SYNC`, and still waits when `gXPCOMThreadsShutDown` is set
  (`XPCOMInit.cpp:639`) may wait for ever, because its own queue refuses the answer.
  For example, the flag is set, the main thread runs a last event, or calls the manager,
  while A has asked B to stop; B drains, its ack to A is refused
  (`nsThread.cpp:503`, `ThreadEventTarget.cpp:116`) and B exits. A stays in `Shutdown()`
  or `WaitForAllAsynchronousShutdowns`, and the manager waits for A's ack. Likewise, the
  reply of a sync dispatch is refused after `mIsPending` was cleared
  (`nsThreadSyncDispatch.h:43-46`) and the origin is not woken. Against this,
  `XPCOMInit.cpp:648-650` says that the manager does not return until all threads have
  exited: that holds (`NoBackgroundThreads`), but it may not return.
  `Stopping ~> ~Stopping`, without the refusals, fails in `ts_ordered`; the run checks
  `ShutdownCompletes`, which says that they are the only way.
* After a failed dispatch of the Runner (`TaskQueue.cpp:107-116`) the task stays in
  `mTasks` with `mIsRunning` false, which `AwaitIdleLocked` (`TaskQueue.cpp:135`)
  asserts never to be.
* An event that `nsThreadPool` has queued for a thread whose creation then fails
  (`nsThreadPool.cpp:114`) waits for the next dispatch if there is no other thread;
  the caller is told `NS_OK`.
* `ThrottledEventQueue` assumes that its executor can always be dispatched again
  (`ThrottledEventQueue.cpp:238`). The modelled base, a thread's queue, does take what
  one of its events sends; on a base that refused it, `mExecutor` would stay set with
  no executor in flight.
* `MozPromise.h:130-132` says that a callback that returns nothing resolves the
  completion promise; the code does not let such a `Then` be chained (`:871-874`).
* The destructor of a promise asserts that it is not pending unless it is a completion
  promise (`MozPromise.h:1021-1025`), which the proxy of an `InvokeAsync` whose target
  refused the call is not.
* `nsThreadPool::PutEvent` may accept an event and then, because `Shutdown` came
  first, kill the thread it made for it (`nsThreadPool.cpp:121`). With no other
  thread the event stays in `mEvents`. Hence the condition in `EventuallyRun`.
* `nsThreadPool::Shutdown` joins the threads in `mThreads`; a surplus thread, or
  one that has just left by itself, still awaits its `AsyncShutdown` on the main
  thread when it returns. `nsIThreadPool.idl:36-38` says that all threads will be
  shut down. `ThreadsReclaimed` is what holds.
* A thread that runs out of work leaves if `mIdleCount == mIdleThreadLimit`
  (`nsThreadPool.cpp:250`). After the limit was lowered below the count the test
  for equality misses, and one more thread becomes idle. `WithinLimits` is
  therefore checked with fixed limits.
* `SetThreadLimit` does not update `mIsAPoolThreadFree`. `WithinLimits`, which
  covers the flag, is checked with fixed limits for that reason, too.
* `nsIThread.idl:117-118` says that `asyncShutdown` immediately prevents further
  dispatch; the queue takes events until it is doomed, as the comment at
  `nsThread.cpp:853` says.
* `Shutdown()` of a thread that someone else is stopping returns `NS_OK` at once,
  though `nsIThread.idl:62-70` promises that the thread is shut down, or an error.
* When the Runner cannot be dispatched again, `TaskQueue` resolves the promise of
  `BeginShutdown` with tasks left, which `TaskQueue.h:87` does not foresee.
* `LazyIdleThread` asserts that no event is pending when a thread is created and when
  one was joined (`LazyIdleThread.cpp:122`, `:287`). While the idle timeout is
  disabled the pretended event is, and a `Dispatch` or `Shutdown` then fails the
  assertion; `FreshStart` is what holds. Nothing in the tree disables it.
* `Shutdown()` of a `LazyIdleThread`, called by an event that runs while
  `ShutdownThread` spins the event loop, dispatches `CleanupThread` twice, against the
  assertion at `LazyIdleThread.cpp:183`, and the runnables kept so far are dropped.
  With `AutomaticShutdown` the observer was removed before, so that only an owner can
  do it. The properties exclude what follows (`reentered`).
* `LazyIdleThread.h:61-63` lets the idle observer post cleanup events; on the path of
  `Shutdown()`, `mShutdown` is set before and they are refused.
* The constructor `TaskQueue(aTarget, aSupportsTailDispatch, aRetainFlags)`
  (`TaskQueue.cpp:72-74`) does not pass `aRetainFlags` on; flags are not modelled.

## Not modelled, and what is left

1. Proofs: every safety property and every refinement that a run checks is a theorem. What
   is checked only is liveness, and `TypeOK` of `MozPromise`.
2. The other priorities of `PrioritizedEventQueue`: the alternation of high and normal
   events, and input that is suspended and flushed.
3. Mirrors, watchers and tail dispatch, on `TaskQueue` and `MozPromise`.
4. Composition: `TaskQueue` on `ThreadPool`, so that the outcome of a dispatch is
   the pool's and not a choice.
5. Later candidates: `nsPipe`, `CacheEntry`, directory locks. They, and
   the far larger rest of the tree, share no state with the threading core beyond the
   event targets modelled here.
