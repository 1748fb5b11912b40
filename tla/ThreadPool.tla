---------------------------- MODULE ThreadPool ----------------------------
(***************************************************************************)
(* nsThreadPool (xpcom/threads/nsThreadPool.cpp): a queue of events served *)
(* by a limited number of nsThreads, which come and go as needed.          *)
(*                                                                         *)
(* Each action is one critical section of mMutex, or a step between two of *)
(* them.  Dispatch takes the lock up to two times, and creates a thread in *)
(* between; the loop of Run takes it once per round and gives it up while  *)
(* it waits.  A dispatch makes at most one thread, which is named here by  *)
(* the event being dispatched.                                             *)
(*                                                                         *)
(* Of an nsThread only this is kept: it has a loop of its own, in which    *)
(* the pool's Run is one event; once told to stop it runs what it was      *)
(* given, and from then on it refuses events (see ThreadShutdown).         *)
(***************************************************************************)
EXTENDS Integers, Sequences, FiniteSets

CONSTANTS
  Events,           \* the runnables dispatched, each at most once
  ThreadLimit,      \* the initial mThreadLimit
  IdleLimit,        \* the initial mIdleThreadLimit
  NewThreadLimits,  \* what SetThreadLimit may be called with
  NewIdleLimits,    \* what SetIdleThreadLimit may be called with
  MayFail,          \* may the creation of a thread fail?
  MayShutdown       \* may the pool be shut down?

ASSUME LimitsAssumption ==
  /\ ThreadLimit \in Nat /\ IdleLimit \in 0 .. ThreadLimit
  /\ NewThreadLimits \subseteq Nat /\ NewIdleLimits \subseteq Nat
  /\ MayFail \in BOOLEAN /\ MayShutdown \in BOOLEAN
ASSUME EventsAssumption == IsFiniteSet(Events)

VARIABLES
  events,             \* mEvents
  threads,            \* mThreads
  threadLimit,        \* mThreadLimit
  idleThreadLimit,    \* mIdleThreadLimit
  idleCount,          \* mIdleCount
  shutdown,           \* mShutdown
  isAPoolThreadFree,  \* mIsAPoolThreadFree
  call,               \* per event: how far its Dispatch is
  place,              \* per thread: what it does
  wasIdle,            \* the threads whose Run has wasIdle
  stopOnExit,         \* the threads whose Run has shutdownThreadOnExit
  asyncStops,         \* the AsyncShutdown calls dispatched to the main thread
  stopped,            \* the threads told to stop
  closing,            \* how far Shutdown, or ShutdownWithTimeout, is
  toStop,             \* the local array threads of that call
  leaked,             \* the threads ShutdownWithTimeout gave up
  fate                \* history: what became of each event

queueVars == <<events, fate>>
limitVars == <<threadLimit, idleThreadLimit>>
stopVars == <<asyncStops, stopped, closing, toStop, leaked>>
vars == <<events, threads, threadLimit, idleThreadLimit, idleCount, shutdown,
          isAPoolThreadFree, call, place, wasIdle, stopOnExit, asyncStops,
          stopped, closing, toStop, leaked, fate>>

\* A Dispatch has passed the check of mShutdown (as part of an event of the pool
\* that is about to finish, in the case of NS_DISPATCH_AT_END), creates a
\* thread, has created it, has put it in mThreads or found it surplus.
Calls == {"none", "checked", "atEnd", "creating", "created", "appended",
          "surplus", "ok", "failed"}

\* A thread does not exist, is in its own loop without the pool's Run, is about
\* to take mMutex in Run, waits for mEventsAvailable, runs an event, dispatches
\* at the end of one, has left the loop of Run, or has exited.
Places == {"none", "loop", "awake", "waiting", "running", "dispatching",
           "leaving", "gone"}

TypeOK ==
  /\ events \in Seq(Events)
  /\ threads \in SUBSET Events
  /\ threadLimit \in Nat /\ idleThreadLimit \in Nat
  /\ idleCount \in Nat
  /\ shutdown \in BOOLEAN
  /\ isAPoolThreadFree \in BOOLEAN
  /\ call \in [Events -> Calls]
  /\ place \in [Events -> Places]
  /\ wasIdle \in SUBSET Events /\ stopOnExit \in SUBSET Events
  /\ asyncStops \in SUBSET Events /\ stopped \in SUBSET Events
  /\ closing \in {"no", "blocking", "timed", "returned"}
  /\ toStop \in SUBSET Events /\ leaked \in SUBSET Events
  /\ fate \in [Events -> {"new", "queued", "refused", "taken"}]

Init ==
  /\ events = <<>>
  /\ threads = {}
  /\ threadLimit = ThreadLimit
  /\ idleThreadLimit = IdleLimit
  /\ idleCount = 0
  /\ shutdown = FALSE
  /\ isAPoolThreadFree = TRUE
  /\ call = [e \in Events |-> "none"]
  /\ place = [e \in Events |-> "none"]
  /\ wasIdle = {} /\ stopOnExit = {}
  /\ asyncStops = {} /\ stopped = {}
  /\ closing = "no"
  /\ toStop = {} /\ leaked = {}
  /\ fate = [e \in Events |-> "new"]

-----------------------------------------------------------------------------
(* The condition variable and the threads *)

Count == Cardinality(threads)
InLoop(w) == place[w] \in {"awake", "waiting", "running", "dispatching"}

\* The possible places of the threads after mEventsAvailable.Notify(), if the
\* rest of them is as in p.
Notify(p) ==
  LET waiting == {w \in Events : p[w] = "waiting"}
  IN  IF waiting = {} THEN {p} ELSE {[p EXCEPT ![w] = "awake"] : w \in waiting}
NotifyAll == [w \in Events |-> IF place[w] = "waiting" THEN "awake" ELSE place[w]]

-----------------------------------------------------------------------------
(* Dispatch *)

\* mShutdown is looked at without the lock first, by any thread ...
Check(e) ==
  /\ call[e] = "none"
  /\ call' = [call EXCEPT ![e] = IF shutdown THEN "failed" ELSE "checked"]
  /\ fate' = [fate EXCEPT ![e] = IF shutdown THEN "refused" ELSE @]
  /\ UNCHANGED <<events, threads, limitVars, idleCount, shutdown,
                 isAPoolThreadFree, place, wasIdle, stopOnExit, stopVars>>

\* ... or by thread w for an event that continues the one it runs.
CheckAtEnd(w, e) ==
  /\ call[e] = "none"
  /\ place[w] = "running"
  /\ ~shutdown
  /\ call' = [call EXCEPT ![e] = "atEnd"]
  /\ place' = [place EXCEPT ![w] = "dispatching"]
  /\ UNCHANGED <<queueVars, threads, limitVars, idleCount, shutdown,
                 isAPoolThreadFree, wasIdle, stopOnExit, stopVars>>

\* Mutant: a thread is spawned only if there are more events than idle threads.
SpawnIfMore(e) ==
  /\ Count < threadLimit
  /\ call[e] # "atEnd"
  /\ Len(events) > idleCount

SpawnThread(e) ==
  /\ Count < threadLimit
  /\ call[e] # "atEnd"
  /\ Len(events) >= idleCount

\* The locked part of PutEvent; Dispatch drops its result.
PutEvent(e) ==
  /\ call[e] \in {"checked", "atEnd"}
  /\ \E p \in IF call[e] = "atEnd"
              THEN {[place EXCEPT ![w] = "running"] :
                      w \in {v \in Events : place[v] = "dispatching"}}
              ELSE {place} :
       \/ /\ shutdown
          /\ place' = p
          /\ fate' = [fate EXCEPT ![e] = "refused"]
          /\ call' = [call EXCEPT ![e] = "ok"]
          /\ UNCHANGED events
       \/ /\ ~shutdown
          /\ place' \in Notify(p)
          /\ events' = Append(events, e)
          /\ fate' = [fate EXCEPT ![e] = "queued"]
          /\ call' = [call EXCEPT ![e] = IF SpawnThread(e) THEN "creating" ELSE "ok"]
  /\ UNCHANGED <<threads, limitVars, idleCount, shutdown, isAPoolThreadFree,
                 wasIdle, stopOnExit, stopVars>>

\* NS_NewNamedThread; its failure is an error of PutEvent that Dispatch drops.
CreateThread(e) ==
  /\ call[e] = "creating"
  /\ \/ /\ call' = [call EXCEPT ![e] = "created"]
        /\ place' = [place EXCEPT ![e] = "loop"]
     \/ /\ MayFail
        /\ call' = [call EXCEPT ![e] = "ok"]
        /\ UNCHANGED place
  /\ UNCHANGED <<queueVars, threads, limitVars, idleCount, shutdown,
                 isAPoolThreadFree, wasIdle, stopOnExit, stopVars>>

\* Mutant: only the first check counts.
WantedAnyway == ~shutdown

\* "Someone else may have also been starting a thread".
Wanted == ~shutdown /\ Count < threadLimit
StillFree == isAPoolThreadFree /\ Count + 1 < threadLimit

\* The second critical section of PutEvent.
AppendThread(e) ==
  /\ call[e] = "created"
  /\ \/ /\ Wanted
        /\ call' = [call EXCEPT ![e] = "appended"]
        /\ threads' = threads \cup {e}
        /\ isAPoolThreadFree' = StillFree
     \/ /\ ~Wanted
        /\ call' = [call EXCEPT ![e] = "surplus"]
        /\ UNCHANGED <<threads, isAPoolThreadFree>>
  /\ UNCHANGED <<queueVars, limitVars, idleCount, shutdown, place, wasIdle,
                 stopOnExit, stopVars>>

\* Mutant: the main thread is not told.
NotShutDown(ws) == asyncStops

\* ShutdownThread, of each of ws: the main thread is to call AsyncShutdown.
ShutdownThread(ws) == asyncStops \cup ws

\* The thread is not needed after all.
KillThread(e) ==
  /\ call[e] = "surplus"
  /\ call' = [call EXCEPT ![e] = "ok"]
  /\ asyncStops' = ShutdownThread({e})
  /\ UNCHANGED <<queueVars, threads, limitVars, idleCount, shutdown,
                 isAPoolThreadFree, place, wasIdle, stopOnExit, stopped,
                 closing, toStop, leaked>>

\* thread->Dispatch(this), which fails if the thread is gone already.
StartThread(e) ==
  /\ call[e] = "appended"
  /\ call' = [call EXCEPT ![e] = "ok"]
  /\ place' = [place EXCEPT ![e] = IF @ = "gone" THEN @ ELSE "awake"]
  /\ UNCHANGED <<queueVars, threads, limitVars, idleCount, shutdown,
                 isAPoolThreadFree, wasIdle, stopOnExit, stopVars>>

-----------------------------------------------------------------------------
(* Run, in the thread w *)

\* Mutant: the count is left alone.
StillCounted(w) == idleCount

\* mIdleCount when w stops being idle, if it was.
NoLongerCounted(w) == IF w \in wasIdle THEN idleCount - 1 ELSE idleCount

TakeEvent(w) ==
  /\ place[w] = "awake"
  /\ events # <<>>
  /\ events' = Tail(events)
  /\ fate' = [fate EXCEPT ![Head(events)] = "taken"]
  /\ idleCount' = NoLongerCounted(w)
  /\ wasIdle' = wasIdle \ {w}
  /\ place' = [place EXCEPT ![w] = "running"]
  /\ UNCHANGED <<threads, limitVars, shutdown, isAPoolThreadFree, call,
                 stopOnExit, stopVars>>

\* timedOut: the thread has been idle for longer than its timeout allows.
OutOfWork(w, timedOut) ==
  \/ shutdown
  \/ w \in wasIdle /\ (idleCount > idleThreadLimit \/ timedOut)
  \/ w \notin wasIdle /\ idleCount = idleThreadLimit

Wait(w) ==
  /\ place[w] = "awake"
  /\ events = <<>>
  /\ ~OutOfWork(w, FALSE)
  /\ idleCount' = IF w \in wasIdle THEN idleCount ELSE idleCount + 1
  /\ wasIdle' = wasIdle \cup {w}
  /\ place' = [place EXCEPT ![w] = "waiting"]
  /\ UNCHANGED <<queueVars, threads, limitVars, shutdown, isAPoolThreadFree,
                 call, stopOnExit, stopVars>>

\* Mutant: the thread is stopped even if Shutdown has taken it over.
StoppedAnyway(w) == {w}

\* RemoveObject tells whether the thread was still in mThreads.
ToBeStopped(w) == {w} \cap threads

\* Mutant: a pool that is shut down is left with events in it.
LeaveWithEvents(w) ==
  /\ place[w] = "awake"
  /\ shutdown \/ events = <<>>
  /\ \E timedOut \in BOOLEAN : OutOfWork(w, timedOut)
  /\ idleCount' = NoLongerCounted(w)
  /\ wasIdle' = wasIdle \ {w}
  /\ stopOnExit' = stopOnExit \cup ToBeStopped(w)
  /\ threads' = threads \ {w}
  /\ isAPoolThreadFree' = (Cardinality(threads') < threadLimit)
  /\ place' = [place EXCEPT ![w] = "leaving"]
  /\ UNCHANGED <<queueVars, limitVars, shutdown, call, stopVars>>

Leave(w) ==
  /\ place[w] = "awake"
  /\ events = <<>>
  /\ \E timedOut \in BOOLEAN : OutOfWork(w, timedOut)
  /\ idleCount' = NoLongerCounted(w)
  /\ wasIdle' = wasIdle \ {w}
  /\ stopOnExit' = stopOnExit \cup ToBeStopped(w)
  /\ threads' = threads \ {w}
  /\ isAPoolThreadFree' = (Cardinality(threads') < threadLimit)
  /\ place' = [place EXCEPT ![w] = "leaving"]
  /\ UNCHANGED <<queueVars, limitVars, shutdown, call, stopVars>>

\* Wait() ends without a notification, by its timeout or spuriously; the setters
\* of the timeouts, which notify all, have no other effect.
WaitEnds(w) ==
  /\ place[w] = "waiting"
  /\ place' = [place EXCEPT ![w] = "awake"]
  /\ UNCHANGED <<queueVars, threads, limitVars, idleCount, shutdown,
                 isAPoolThreadFree, call, wasIdle, stopOnExit, stopVars>>

FinishEvent(w) ==
  /\ place[w] = "running"
  /\ place' = [place EXCEPT ![w] = "awake"]
  /\ UNCHANGED <<queueVars, threads, limitVars, idleCount, shutdown,
                 isAPoolThreadFree, call, wasIdle, stopOnExit, stopVars>>

\* The end of Run.
ReturnFromRun(w) ==
  /\ place[w] = "leaving"
  /\ place' = [place EXCEPT ![w] = "loop"]
  /\ asyncStops' = ShutdownThread({w} \cap stopOnExit)
  /\ stopOnExit' = stopOnExit \ {w}
  /\ UNCHANGED <<queueVars, threads, limitVars, idleCount, shutdown,
                 isAPoolThreadFree, call, wasIdle, stopped, closing, toStop,
                 leaked>>

\* The nsThread has run all it was given.
EndThread(w) ==
  /\ place[w] = "loop"
  /\ w \in stopped
  /\ place' = [place EXCEPT ![w] = "gone"]
  /\ UNCHANGED <<queueVars, threads, limitVars, idleCount, shutdown,
                 isAPoolThreadFree, call, wasIdle, stopOnExit, stopVars>>

-----------------------------------------------------------------------------
(* Shutdown, and the limits *)

\* The main thread runs an AsyncShutdown dispatched by ShutdownThread.
AsyncShutdown(w) ==
  /\ w \in asyncStops
  /\ asyncStops' = asyncStops \ {w}
  /\ stopped' = stopped \cup {w}
  /\ UNCHANGED <<queueVars, threads, limitVars, idleCount, shutdown,
                 isAPoolThreadFree, call, place, wasIdle, stopOnExit, closing,
                 toStop, leaked>>

\* The critical section of Shutdown and of ShutdownWithTimeout.  A second call
\* of either finds mThreads empty and returns.
Shutdown(how) ==
  /\ MayShutdown
  /\ ~shutdown
  /\ shutdown' = TRUE
  /\ place' = NotifyAll
  /\ toStop' = threads
  /\ threads' = {}
  /\ closing' = how
  /\ UNCHANGED <<queueVars, limitVars, idleCount, isAPoolThreadFree, call,
                 wasIdle, stopOnExit, asyncStops, stopped, leaked>>

\* Mutant: Shutdown does not wait for the thread it has stopped.
StopOnly(w) ==
  /\ w \in toStop
  /\ stopped' = stopped \cup {w}
  /\ toStop' = toStop \ {w}
  /\ UNCHANGED <<queueVars, threads, limitVars, idleCount, shutdown,
                 isAPoolThreadFree, call, place, wasIdle, stopOnExit, asyncStops,
                 closing, leaked>>

\* One by one, by thread->Shutdown(), or at once.
StopNext(w) ==
  /\ w \in toStop \ stopped
  /\ closing = "blocking" => toStop \cap stopped = {}
  /\ stopped' = stopped \cup {w}
  /\ UNCHANGED <<queueVars, threads, limitVars, idleCount, shutdown,
                 isAPoolThreadFree, call, place, wasIdle, stopOnExit, asyncStops,
                 closing, toStop, leaked>>

Joined(w) ==
  /\ closing = "blocking"
  /\ w \in toStop \cap stopped
  /\ place[w] = "gone"
  /\ toStop' = toStop \ {w}
  /\ UNCHANGED <<queueVars, threads, limitVars, idleCount, shutdown,
                 isAPoolThreadFree, call, place, wasIdle, stopOnExit, asyncStops,
                 stopped, closing, leaked>>

\* With all threads joined, or after the timeout.
ShutdownReturns ==
  /\ \/ closing = "blocking" /\ toStop = {}
     \/ closing = "timed" /\ toStop \subseteq stopped
  /\ closing' = "returned"
  /\ leaked' = {w \in toStop : place[w] # "gone"}
  /\ toStop' = {}
  /\ UNCHANGED <<queueVars, threads, limitVars, idleCount, shutdown,
                 isAPoolThreadFree, call, place, wasIdle, stopOnExit, asyncStops,
                 stopped>>

AtMost(n, bound) == IF n > bound THEN bound ELSE n

SetThreadLimit(n) ==
  /\ n \in NewThreadLimits
  /\ threadLimit' = n
  /\ idleThreadLimit' = AtMost(idleThreadLimit, n)
  /\ place' = IF Count > n THEN NotifyAll ELSE place
  /\ UNCHANGED <<queueVars, threads, idleCount, shutdown, isAPoolThreadFree,
                 call, wasIdle, stopOnExit, stopVars>>

SetIdleThreadLimit(n) ==
  /\ n \in NewIdleLimits
  /\ idleThreadLimit' = AtMost(n, threadLimit)
  /\ place' = IF idleCount > idleThreadLimit' THEN NotifyAll ELSE place
  /\ UNCHANGED <<queueVars, threads, threadLimit, idleCount, shutdown,
                 isAPoolThreadFree, call, wasIdle, stopOnExit, stopVars>>

-----------------------------------------------------------------------------
DispatchStep(e) ==
  \/ PutEvent(e) \/ CreateThread(e) \/ AppendThread(e)
  \/ KillThread(e) \/ StartThread(e)

WorkerStep(w) ==
  \/ TakeEvent(w) \/ Wait(w) \/ Leave(w) \/ FinishEvent(w)
  \/ ReturnFromRun(w) \/ EndThread(w)

MainStep(w) == AsyncShutdown(w) \/ StopNext(w) \/ Joined(w)

Terminated ==
  /\ \A e \in Events : call[e] \in {"ok", "failed"}
  /\ \A w \in Events : place[w] \in {"none", "gone"}
  /\ UNCHANGED vars

Next ==
  \/ \E e \in Events :
       \/ Check(e) \/ DispatchStep(e)
       \/ WorkerStep(e) \/ WaitEnds(e) \/ MainStep(e)
  \/ \E w, e \in Events : CheckAtEnd(w, e)
  \/ \E how \in {"blocking", "timed"} : Shutdown(how)
  \/ ShutdownReturns
  \/ \E n \in NewThreadLimits : SetThreadLimit(n)
  \/ \E n \in NewIdleLimits : SetIdleThreadLimit(n)
  \/ Terminated

Spec == Init /\ [][Next]_vars

\* Dispatchers and threads that are not blocked run, and so does the main thread.
Fairness ==
  /\ WF_vars(ShutdownReturns)
  /\ \A e \in Events :
       /\ WF_vars(DispatchStep(e)) /\ WF_vars(WorkerStep(e)) /\ WF_vars(MainStep(e))

FairSpec == Spec /\ Fairness

-----------------------------------------------------------------------------
(* Properties *)

\* mIdleCount never drifts from the number of threads that are idle, and so it
\* never underflows; "mIdleCount <= mThreads.Count()" (nsThreadPool.cpp:87),
\* because a thread leaves both in one critical section.
IdleCountExact ==
  /\ idleCount = Cardinality(wasIdle)
  /\ ~shutdown => wasIdle \subseteq threads

\* While no thread is about to be made, an event is never left to threads that
\* are all asleep: the decision not to spawn one, taken from counts that are
\* out of date as soon as the lock is released, never leaves an event behind.
NoEventUnattended ==
  ~shutdown /\ events # <<>> =>
    \/ \E w \in Events : place[w] \in {"awake", "running", "dispatching"}
    \/ \E e \in Events : call[e] \in {"creating", "created", "appended"}

\* Each thread the pool made has exactly one party that is to stop it, or was
\* stopped: a dispatch that still holds it, the pool, Shutdown, its own Run on
\* its way out, or the main thread's queue.  None is leaked, none stopped twice.
OneStopper ==
  \A w \in Events :
    LET parties == {p \in {"dispatch", "pool", "shutdown", "run", "main", "done"} :
                      CASE p = "dispatch" -> call[w] \in {"created", "surplus"}
                        [] p = "pool" -> w \in threads
                        [] p = "shutdown" -> w \in toStop \ stopped
                        [] p = "run" -> w \in stopOnExit
                        [] p = "main" -> w \in asyncStops
                        [] OTHER -> w \in stopped}
    IN  Cardinality(parties) = IF place[w] = "none" THEN 0 ELSE 1

\* With limits that do not change there are never more threads, nor more idle
\* ones, than allowed, however many dispatches create threads at once; and the flag
\* tells whether another could be started.  By it nsThread reports no delay: "if
\* there are unstarted threads in the pool, a new event to the pool would not be
\* delayed at all" (nsThread.cpp:734-735).
WithinLimits ==
  /\ Count <= threadLimit /\ idleCount <= idleThreadLimit
  /\ ~shutdown => isAPoolThreadFree = (Count < threadLimit)

\* When Shutdown has returned no thread runs events of the pool any more, save
\* those that ShutdownWithTimeout gave up.
NoneWorksAfterShutdown ==
  closing = "returned" => \A w \in Events : InLoop(w) => w \in leaked

\* An accepted event is run in the end, "on the next available worker thread"
\* (nsIThreadPool.idl:27-28), unless the pool is shut down first; and a shutdown
\* that finds a thread in Run still lets the queued events be run.
EventuallyRun ==
  \A e \in Events :
    /\ fate[e] = "queued" ~> fate[e] = "taken" \/ shutdown
    /\ fate[e] = "queued" /\ shutdown /\ (\E w \in Events : InLoop(w))
         ~> fate[e] = "taken"

\* After a shutdown every thread the pool has made is gone at last.
ThreadsReclaimed ==
  shutdown ~> [](\A w \in Events : place[w] \in {"none", "gone"})

\* nsIEventTarget.idl:126-128: Dispatch throws when "the thread is shutting down
\* and has finished processing events, so this event would never run and has
\* not been dispatched".
RefusalReported == \A e \in Events : fate[e] = "refused" => call[e] # "ok"
=============================================================================
