------------------------- MODULE ThreadPoolProofs -------------------------
(***************************************************************************)
(* The safety properties of ThreadPool hold for any number of events, and  *)
(* any limits.  IInv is inductive: every thread has one party that is to   *)
(* stop it (Stoppers); those that work, or are about to, are the pool's    *)
(* until Shutdown has them (Belongs); and mIdleCount is how many are idle  *)
(* (Idlers), without which the counter would have no type.  The limits and *)
(* the attention to the queue are invariants relative to it.               *)
(***************************************************************************)
EXTENDS ThreadPool, FiniteSetTheorems, TLAPS

\* The parties of OneStopper.
Held(w) == call[w] \in {"created", "surplus"}
TakenOver(w) == w \in toStop \ stopped

\* No two of the parties have the same thread, and one has each.
Exclusive(w) ==
  /\ Held(w) => ~(w \in threads \/ TakenOver(w) \/ w \in stopOnExit \cup asyncStops \cup stopped)
  /\ w \in threads => ~(TakenOver(w) \/ w \in stopOnExit \cup asyncStops \cup stopped)
  /\ TakenOver(w) => w \notin stopOnExit \cup asyncStops
  /\ w \in stopOnExit => w \notin asyncStops \cup stopped
  /\ w \in asyncStops => w \notin stopped
Somebody(w) ==
  \/ Held(w) \/ TakenOver(w)
  \/ w \in threads \cup stopOnExit \cup asyncStops \cup stopped

\* A thread has been made before it is put in mThreads, enters Run when it has
\* been, and takes itself out when it leaves.
Stage(w) ==
  /\ call[w] \in {"none", "checked", "atEnd", "creating", "failed"} => place[w] = "none"
  /\ call[w] \in {"created", "surplus", "appended"} => place[w] \in {"loop", "gone"}
  /\ place[w] = "gone" => w \in stopped
  /\ w \in stopOnExit => place[w] = "leaving"

Stoppers ==
  \A w \in Events :
    /\ Stage(w)
    /\ Exclusive(w)
    /\ place[w] # "none" <=> Somebody(w)

\* The threads that work or are about to.
Engaged(w) == InLoop(w) \/ call[w] = "appended"

\* mThreads has them until Shutdown takes them over, and keeps them until they
\* are gone, or given up.
Phase ==
  /\ shutdown <=> closing # "no"
  /\ ~shutdown => toStop = {}
  /\ shutdown => threads = {}
  /\ closing # "returned" => leaked = {}
  /\ closing = "returned" => toStop = {}
Belongs ==
  /\ Phase
  /\ \A w \in Events :
       /\ ~shutdown => (w \in threads <=> Engaged(w))
       /\ shutdown /\ Engaged(w) /\ place[w] # "gone" => w \in toStop \cup leaked

\* The threads that mIdleCount counts.
Idlers ==
  /\ idleCount = Cardinality(wasIdle)
  /\ \A w \in Events :
       /\ place[w] = "waiting" => w \in wasIdle
       /\ w \in wasIdle => place[w] \in {"waiting", "awake"}

Up(w) == place[w] \in {"awake", "running", "dispatching"}
Coming(e) == call[e] \in {"creating", "created", "appended"}

\* While there are events some thread of those in Run is up: the first of them
\* woke one, and no thread goes to sleep before there are none.
Attended ==
  ~shutdown /\ events # <<>> =>
    \/ \E w \in Events : Up(w)
    \/ (\A w \in Events : place[w] # "waiting") /\ \E e \in Events : Coming(e)

IInv == TypeOK /\ Stoppers /\ Belongs /\ Idlers

-----------------------------------------------------------------------------
(* The steps of Next, for the proofs by cases below. *)

\* The steps of one dispatch, or one thread.
OneStep(e) ==
  \/ Check(e) \/ PutEvent(e) \/ CreateThread(e) \/ AppendThread(e) \/ KillThread(e)
  \/ StartThread(e) \/ TakeEvent(e) \/ Wait(e) \/ Leave(e) \/ FinishEvent(e)
  \/ ReturnFromRun(e) \/ EndThread(e) \/ WaitEnds(e)
  \/ AsyncShutdown(e) \/ StopNext(e) \/ Joined(e)

LEMMA Steps ==
  ASSUME [Next]_vars
  PROVE  \/ \E e \in Events : OneStep(e)
         \/ \E w, e \in Events : CheckAtEnd(w, e)
         \/ \E how \in {"blocking", "timed"} : Shutdown(how)
         \/ ShutdownReturns
         \/ \E n \in NewThreadLimits : SetThreadLimit(n)
         \/ \E n \in NewIdleLimits : SetIdleThreadLimit(n)
         \/ UNCHANGED vars
<1>1. ASSUME NEW e \in Events,
             Check(e) \/ DispatchStep(e) \/ WorkerStep(e) \/ WaitEnds(e) \/ MainStep(e)
      PROVE  OneStep(e)
  BY <1>1 DEF DispatchStep, WorkerStep, MainStep, OneStep
<1>2. Terminated => UNCHANGED vars
  BY DEF Terminated
<1> QED
  BY <1>1, <1>2, Zenon DEF Next

-----------------------------------------------------------------------------
(* What notifying and counting do *)

\* Some of the threads that waited in p are awake in q.
Woken(p, q) ==
  /\ q \in [Events -> Places]
  /\ \A w \in Events : q[w] = p[w] \/ (p[w] = "waiting" /\ q[w] = "awake")

LEMMA Notified ==
  ASSUME NEW p \in [Events -> Places], NEW q \in Notify(p)
  PROVE  /\ Woken(p, q)
         /\ (\E w \in Events : p[w] = "waiting") => \E w \in Events : q[w] = "awake"
  BY DEF Notify, Woken, Places

LEMMA AllNotified == TypeOK => Woken(place, NotifyAll)
  BY DEF TypeOK, NotifyAll, Woken, Places

\* All sets of threads are finite.
LEMMA Finite == ASSUME NEW S \in SUBSET Events PROVE IsFiniteSet(S) /\ Cardinality(S) \in Nat
  BY EventsAssumption, FS_Subset, FS_CardinalityType

LEMMA AtMostType == ASSUME NEW n \in Nat, NEW b \in Nat PROVE AtMost(n, b) \in Nat /\ AtMost(n, b) <= b
  BY DEF AtMost

\* NoLongerCounted counts the idle threads without w.
LEMMA Uncounted ==
  ASSUME TypeOK, Idlers, NEW w \in Events
  PROVE  NoLongerCounted(w) \in Nat /\ NoLongerCounted(w) = Cardinality(wasIdle \ {w})
<1>1. wasIdle \in SUBSET Events /\ wasIdle \ {w} \in SUBSET Events
  BY DEF TypeOK
<1> QED
  BY <1>1, Finite, FS_RemoveElement DEF NoLongerCounted, Idlers

\* What PutEvent does to the threads: the one that dispatches at the end of its
\* event goes on, and one that waits may be woken.
LEMMA PutEventPlaces ==
  ASSUME TypeOK, NEW e \in Events, PutEvent(e)
  PROVE  \E p \in [Events -> Places] :
           /\ \/ call[e] = "checked" /\ p = place
              \/ /\ call[e] = "atEnd"
                 /\ \E v \in Events :
                      place[v] = "dispatching" /\ p = [place EXCEPT ![v] = "running"]
           /\ \/ /\ shutdown /\ place' = p
                 /\ fate' = [fate EXCEPT ![e] = "refused"]
                 /\ call' = [call EXCEPT ![e] = "ok"]
                 /\ UNCHANGED events
              \/ /\ ~shutdown /\ place' \in Notify(p)
                 /\ events' = Append(events, e)
                 /\ fate' = [fate EXCEPT ![e] = "queued"]
                 /\ call' = [call EXCEPT ![e] = IF SpawnThread(e) THEN "creating" ELSE "ok"]
<1>1. PICK p \in IF call[e] = "atEnd"
                 THEN {[place EXCEPT ![w] = "running"] :
                         w \in {v \in Events : place[v] = "dispatching"}}
                 ELSE {place} :
           \/ /\ shutdown /\ place' = p
              /\ fate' = [fate EXCEPT ![e] = "refused"]
              /\ call' = [call EXCEPT ![e] = "ok"]
              /\ UNCHANGED events
           \/ /\ ~shutdown /\ place' \in Notify(p)
              /\ events' = Append(events, e)
              /\ fate' = [fate EXCEPT ![e] = "queued"]
              /\ call' = [call EXCEPT ![e] = IF SpawnThread(e) THEN "creating" ELSE "ok"]
  BY Zenon DEF PutEvent
<1>2. call[e] \in {"checked", "atEnd"}
  BY DEF PutEvent
<1>3. p \in [Events -> Places]
  BY <1>1 DEF TypeOK, Places
<1>4. \/ call[e] = "checked" /\ p = place
      \/ /\ call[e] = "atEnd"
         /\ \E v \in Events :
              place[v] = "dispatching" /\ p = [place EXCEPT ![v] = "running"]
  BY <1>1, <1>2
<1> QED
  BY <1>1, <1>3, <1>4, Zenon

-----------------------------------------------------------------------------
(* Types.  The flags are Booleans by the form of the steps, and are proved     *)
(* apart from the rest.                                                        *)

Flags == shutdown \in BOOLEAN /\ isAPoolThreadFree \in BOOLEAN
Queue ==
  /\ events \in Seq(Events)
  /\ fate \in [Events -> {"new", "queued", "refused", "taken"}]
Limits == threadLimit \in Nat /\ idleThreadLimit \in Nat
Threads ==
  /\ call \in [Events -> Calls] /\ place \in [Events -> Places]
  /\ threads \in SUBSET Events
  /\ wasIdle \in SUBSET Events /\ stopOnExit \in SUBSET Events
  /\ asyncStops \in SUBSET Events /\ stopped \in SUBSET Events
  /\ closing \in {"no", "blocking", "timed", "returned"}
  /\ toStop \in SUBSET Events /\ leaked \in SUBSET Events

LEMMA TypeParts == ASSUME Flags', Queue', Limits', (idleCount \in Nat)', Threads' PROVE TypeOK'
  BY Zenon DEF TypeOK, Flags, Queue, Limits, Threads

LEMMA TypeInit == Init => TypeOK
<1> SUFFICES ASSUME Init PROVE TypeOK
  OBVIOUS
<1>1. Flags
  BY Zenon DEF Init, Flags
<1>2. Queue /\ Limits /\ Threads /\ idleCount \in Nat
  BY LimitsAssumption DEF Init, Queue, Limits, Threads, Calls, Places
<1> QED
  BY <1>1, <1>2, Zenon DEF TypeOK, Flags, Queue, Limits, Threads

LEMMA FlagsStep == ASSUME TypeOK, [Next]_vars PROVE Flags'
<1>1. ASSUME NEW e \in Events, AppendThread(e) PROVE Flags'
  BY <1>1, Zenon DEF TypeOK, Flags, AppendThread, StillFree
<1>2. ASSUME NEW w \in Events, Leave(w) PROVE Flags'
  <2> DEFINE free == Cardinality(threads') < threadLimit
  <2>1. free \in BOOLEAN
    OBVIOUS
  <2>2. isAPoolThreadFree' = free /\ shutdown' = shutdown
    BY <1>2, Zenon DEF Leave
  <2> QED
    BY <2>1, <2>2, Zenon DEF TypeOK, Flags
<1>3. ASSUME NEW how \in {"blocking", "timed"}, Shutdown(how) PROVE Flags'
  BY <1>3 DEF TypeOK, Flags, Shutdown
<1>4. ASSUME NEW e \in Events, OneStep(e), ~AppendThread(e), ~Leave(e)
      PROVE  UNCHANGED <<shutdown, isAPoolThreadFree>>
  BY <1>4 DEF OneStep, Check, PutEvent, CreateThread, KillThread, StartThread, TakeEvent,
              Wait, FinishEvent, ReturnFromRun, EndThread, WaitEnds, AsyncShutdown,
              StopNext, Joined
<1>5. ASSUME \/ \E w, e \in Events : CheckAtEnd(w, e)
             \/ ShutdownReturns
             \/ \E n \in NewThreadLimits : SetThreadLimit(n)
             \/ \E n \in NewIdleLimits : SetIdleThreadLimit(n)
             \/ UNCHANGED vars
      PROVE  UNCHANGED <<shutdown, isAPoolThreadFree>>
  BY <1>5 DEF CheckAtEnd, ShutdownReturns, SetThreadLimit, SetIdleThreadLimit, vars
<1>6. ASSUME UNCHANGED <<shutdown, isAPoolThreadFree>> PROVE Flags'
  BY <1>6 DEF TypeOK, Flags
<1> QED
  BY <1>1, <1>2, <1>3, <1>4, <1>5, <1>6, Steps, Zenon

\* Every step of the rest.
LEMMA TypeStep == ASSUME TypeOK, Idlers, [Next]_vars PROVE TypeOK'
<1> SUFFICES Queue' /\ Limits' /\ (idleCount \in Nat)' /\ Threads'
  BY FlagsStep, TypeParts
<1>1. ASSUME NEW e \in Events, OneStep(e) PROVE Queue' /\ Limits' /\ (idleCount \in Nat)' /\ Threads'
  <2> USE DEF Queue, Limits, Threads
  <2>1. CASE Check(e)
    BY <2>1 DEF TypeOK, Check, queueVars, limitVars, stopVars, Calls
  <2>2. CASE PutEvent(e)
    <3>1. PICK p \in [Events -> Places] :
           \/ /\ place' = p
              /\ fate' = [fate EXCEPT ![e] = "refused"]
              /\ call' = [call EXCEPT ![e] = "ok"]
              /\ UNCHANGED events
           \/ /\ place' \in Notify(p)
              /\ events' = Append(events, e)
              /\ fate' = [fate EXCEPT ![e] = "queued"]
              /\ call' = [call EXCEPT ![e] = IF SpawnThread(e) THEN "creating" ELSE "ok"]
      BY <2>2, PutEventPlaces, Zenon
    <3>2. place' \in [Events -> Places]
      BY <3>1, Notified DEF Woken
    <3>3. call' \in [Events -> Calls]
      BY <3>1 DEF TypeOK, Calls
    <3>4. Queue'
      <4>1. Append(events, e) \in Seq(Events)
        BY DEF TypeOK
      <4>2. events' \in Seq(Events)
        BY <3>1, <4>1, Zenon DEF TypeOK
      <4>3. fate' \in [Events -> {"new", "queued", "refused", "taken"}]
        BY <3>1 DEF TypeOK
      <4> QED
        BY <4>2, <4>3
    <3>5. UNCHANGED <<threads, limitVars, idleCount, wasIdle, stopOnExit, stopVars>>
      BY <2>2 DEF PutEvent
    <3> QED
      BY <3>2, <3>3, <3>4, <3>5 DEF TypeOK, limitVars, stopVars
  <2>3. CASE CreateThread(e)
    BY <2>3 DEF TypeOK, CreateThread, queueVars, limitVars, stopVars, Calls, Places
  <2>4. CASE AppendThread(e)
    BY <2>4 DEF TypeOK, AppendThread, queueVars, limitVars, stopVars, Calls
  <2>5. CASE KillThread(e)
    BY <2>5 DEF TypeOK, KillThread, ShutdownThread, queueVars, limitVars, Calls
  <2>6. CASE StartThread(e)
    BY <2>6 DEF TypeOK, StartThread, queueVars, limitVars, stopVars, Calls, Places
  <2>7. CASE TakeEvent(e)
    <3>1. Queue'
      BY <2>7 DEF TypeOK, TakeEvent
    <3> QED
      BY <2>7, <3>1, Uncounted DEF TypeOK, TakeEvent, limitVars, stopVars, Places
  <2>8. CASE Wait(e)
    BY <2>8 DEF TypeOK, Wait, queueVars, limitVars, stopVars, Places
  <2>9. CASE Leave(e)
    BY <2>9, Uncounted DEF TypeOK, Leave, ToBeStopped, queueVars, limitVars, stopVars, Places
  <2>10. CASE FinishEvent(e) \/ EndThread(e) \/ WaitEnds(e)
    BY <2>10 DEF TypeOK, FinishEvent, EndThread, WaitEnds, queueVars, limitVars, stopVars, Places
  <2>11. CASE ReturnFromRun(e)
    BY <2>11 DEF TypeOK, ReturnFromRun, ShutdownThread, queueVars, limitVars, Places
  <2>12. CASE AsyncShutdown(e) \/ StopNext(e) \/ Joined(e)
    BY <2>12 DEF TypeOK, AsyncShutdown, StopNext, Joined, queueVars, limitVars
  <2> QED
    BY <1>1, <2>1, <2>2, <2>3, <2>4, <2>5, <2>6, <2>7, <2>8, <2>9, <2>10, <2>11, <2>12
    DEF OneStep
<1>2. ASSUME NEW w \in Events, NEW e \in Events, CheckAtEnd(w, e)
      PROVE  Queue' /\ Limits' /\ (idleCount \in Nat)' /\ Threads'
  BY <1>2 DEF TypeOK, Queue, Limits, Threads, CheckAtEnd, queueVars, limitVars, stopVars,
              Calls, Places
<1>3. ASSUME NEW how \in {"blocking", "timed"}, Shutdown(how)
      PROVE  Queue' /\ Limits' /\ (idleCount \in Nat)' /\ Threads'
  BY <1>3, AllNotified DEF TypeOK, Queue, Limits, Threads, Shutdown, Woken, queueVars, limitVars
<1>4. CASE ShutdownReturns
  BY <1>4 DEF TypeOK, Queue, Limits, Threads, ShutdownReturns, queueVars, limitVars
<1>5. ASSUME NEW n \in NewThreadLimits, SetThreadLimit(n)
      PROVE  Queue' /\ Limits' /\ (idleCount \in Nat)' /\ Threads'
  <2>1. n \in Nat /\ AtMost(idleThreadLimit, n) \in Nat
    BY LimitsAssumption, AtMostType DEF TypeOK
  <2> QED
    BY <1>5, <2>1, AllNotified
    DEF TypeOK, Queue, Limits, Threads, SetThreadLimit, Woken, queueVars, stopVars
<1>6. ASSUME NEW n \in NewIdleLimits, SetIdleThreadLimit(n)
      PROVE  Queue' /\ Limits' /\ (idleCount \in Nat)' /\ Threads'
  <2>1. n \in Nat /\ AtMost(n, threadLimit) \in Nat
    BY LimitsAssumption, AtMostType DEF TypeOK
  <2> QED
    BY <1>6, <2>1, AllNotified
    DEF TypeOK, Queue, Limits, Threads, SetIdleThreadLimit, Woken, queueVars, stopVars
<1>7. CASE UNCHANGED vars
  BY <1>7 DEF TypeOK, Queue, Limits, Threads, vars
<1> QED
  BY <1>1, <1>2, <1>3, <1>4, <1>5, <1>6, <1>7, Steps

-----------------------------------------------------------------------------
(* mIdleCount *)

LEMMA IdlersStep == ASSUME TypeOK, Stoppers, Idlers, [Next]_vars PROVE Idlers'
\* Most steps leave the count and the idle threads alone; a thread that waits may
\* be woken, and none that is not idle starts to wait.
<1> DEFINE Still ==
      /\ UNCHANGED <<idleCount, wasIdle>>
      /\ \A w \in Events :
           \/ place'[w] = place[w]
           \/ place[w] = "waiting" /\ place'[w] = "awake"
           \/ place[w] \notin {"waiting", "awake"} /\ place'[w] # "waiting"
<1>0. ASSUME Still PROVE Idlers'
  BY <1>0 DEF Idlers
<1>a. ASSUME Woken(place, place'), UNCHANGED <<idleCount, wasIdle>> PROVE Still
  BY <1>a DEF Woken
<1>1. ASSUME NEW e \in Events, OneStep(e) PROVE Idlers'
  <2>1. CASE PutEvent(e)
    <3>1. PICK p \in [Events -> Places] :
           /\ \/ p = place
              \/ \E v \in Events :
                   place[v] = "dispatching" /\ p = [place EXCEPT ![v] = "running"]
           /\ place' = p \/ place' \in Notify(p)
      BY <2>1, PutEventPlaces, Zenon
    <3>2. Woken(p, place') \/ place' = p
      BY <3>1, Notified
    <3>3. UNCHANGED <<idleCount, wasIdle>>
      BY <2>1 DEF PutEvent
    <3> QED
      BY <1>0, <3>1, <3>2, <3>3 DEF TypeOK, Woken
  <2>2. CASE TakeEvent(e)
    BY <2>2, Uncounted DEF TypeOK, TakeEvent, Idlers
  <2>3. CASE Wait(e)
    <3>1. Cardinality(wasIdle \cup {e}) = IF e \in wasIdle THEN idleCount ELSE idleCount + 1
      BY Finite, FS_AddElement DEF TypeOK, Idlers
    <3> QED
      BY <2>3, <3>1 DEF TypeOK, Wait, Idlers
  <2>4. CASE Leave(e)
    BY <2>4, Uncounted DEF TypeOK, Leave, Idlers
  <2>5. CASE CreateThread(e) \/ StartThread(e) \/ FinishEvent(e) \/ ReturnFromRun(e)
             \/ EndThread(e) \/ WaitEnds(e)
    BY <1>0, <2>5 DEF TypeOK, Stoppers, Stage, CreateThread, StartThread, FinishEvent,
                      ReturnFromRun, EndThread, WaitEnds
  <2>6. CASE Check(e) \/ AppendThread(e) \/ KillThread(e)
             \/ AsyncShutdown(e) \/ StopNext(e) \/ Joined(e)
    BY <1>0, <2>6 DEF Check, AppendThread, KillThread, AsyncShutdown, StopNext, Joined
  <2> QED
    BY <1>1, <2>1, <2>2, <2>3, <2>4, <2>5, <2>6 DEF OneStep
<1>2. ASSUME NEW w \in Events, NEW e \in Events, CheckAtEnd(w, e) PROVE Idlers'
  BY <1>0, <1>2 DEF TypeOK, CheckAtEnd
<1>3. ASSUME NEW how \in {"blocking", "timed"}, Shutdown(how) PROVE Idlers'
  BY <1>0, <1>a, <1>3, AllNotified DEF Shutdown
<1>4. CASE ShutdownReturns
  BY <1>0, <1>4 DEF ShutdownReturns
<1>5. ASSUME NEW n \in NewThreadLimits, SetThreadLimit(n) PROVE Idlers'
  BY <1>0, <1>a, <1>5, AllNotified DEF SetThreadLimit
<1>6. ASSUME NEW n \in NewIdleLimits, SetIdleThreadLimit(n) PROVE Idlers'
  BY <1>0, <1>a, <1>6, AllNotified DEF SetIdleThreadLimit
<1>7. CASE UNCHANGED vars
  BY <1>0, <1>7 DEF vars
<1> QED
  BY <1>1, <1>2, <1>3, <1>4, <1>5, <1>6, <1>7, Steps

-----------------------------------------------------------------------------
(* Who stops a thread *)

LEMMA StoppersStep == ASSUME TypeOK, Stoppers, Belongs, [Next]_vars PROVE Stoppers'
<1> DEFINE Inv(w) == Stage(w) /\ Exclusive(w) /\ (place[w] # "none" <=> Somebody(w))
<1> SUFFICES ASSUME NEW t \in Events PROVE Inv(t)'
  BY DEF Stoppers
<1>0. Inv(t)
  BY DEF Stoppers
<1> USE DEF Stage, Exclusive, Somebody, Held, TakenOver
<1>1. ASSUME NEW e \in Events, OneStep(e) PROVE Inv(t)'
  <2>1. CASE Check(e)
    BY <1>0, <2>1 DEF TypeOK, Check, stopVars
  <2>2. CASE PutEvent(e)
    <3>1. PICK p \in [Events -> Places] :
           /\ \/ p = place
              \/ \E v \in Events :
                   place[v] = "dispatching" /\ p = [place EXCEPT ![v] = "running"]
           /\ place' = p \/ place' \in Notify(p)
           /\ \/ call' = [call EXCEPT ![e] = "ok"]
              \/ call' = [call EXCEPT ![e] = "creating"]
      BY <2>2, PutEventPlaces, Zenon
    <3>2. Woken(p, place') \/ place' = p
      BY <3>1, Notified
    <3>3. UNCHANGED <<threads, stopOnExit, asyncStops, stopped, toStop>>
      BY <2>2 DEF PutEvent, stopVars
    <3>4. call[e] \in {"checked", "atEnd"}
      BY <2>2 DEF PutEvent
    <3>5. \/ place'[t] = place[t]
          \/ place[t] \in {"waiting", "dispatching"} /\ place'[t] \in {"awake", "running"}
      BY <3>1, <3>2 DEF TypeOK, Woken
    <3>6. Stage(e) /\ (place[e] # "none" <=> Somebody(e))
      BY DEF Stoppers
    <3> QED
      BY <1>0, <3>1, <3>3, <3>4, <3>5, <3>6 DEF TypeOK
  <2>3. CASE CreateThread(e)
    BY <1>0, <2>3 DEF TypeOK, CreateThread, stopVars
  <2>4. CASE AppendThread(e)
    BY <1>0, <2>4 DEF TypeOK, AppendThread, stopVars
  <2>5. CASE KillThread(e)
    BY <1>0, <2>5 DEF TypeOK, KillThread, ShutdownThread
  <2>6. CASE StartThread(e)
    BY <1>0, <2>6 DEF TypeOK, StartThread, stopVars
  <2>7. CASE TakeEvent(e) \/ Wait(e) \/ FinishEvent(e) \/ EndThread(e) \/ WaitEnds(e)
    BY <1>0, <2>7 DEF TypeOK, TakeEvent, Wait, FinishEvent, EndThread, WaitEnds, stopVars
  <2>8. CASE Leave(e)
    BY <1>0, <2>8 DEF TypeOK, Leave, ToBeStopped, stopVars
  <2>9. CASE ReturnFromRun(e)
    BY <1>0, <2>9 DEF TypeOK, ReturnFromRun, ShutdownThread
  <2>10. CASE AsyncShutdown(e)
    BY <1>0, <2>10 DEF TypeOK, AsyncShutdown
  <2>11. CASE StopNext(e)
    BY <1>0, <2>11 DEF TypeOK, StopNext
  <2>12. CASE Joined(e)
    BY <1>0, <2>12 DEF TypeOK, Joined
  <2> QED
    BY <1>1, <2>1, <2>2, <2>3, <2>4, <2>5, <2>6, <2>7, <2>8, <2>9, <2>10, <2>11, <2>12
    DEF OneStep
<1>2. ASSUME NEW w \in Events, NEW e \in Events, CheckAtEnd(w, e) PROVE Inv(t)'
  BY <1>0, <1>2 DEF TypeOK, CheckAtEnd, stopVars
<1>a. ASSUME Woken(place, place')
      PROVE  \/ place'[t] = place[t]
             \/ place[t] = "waiting" /\ place'[t] = "awake"
  BY <1>a DEF Woken
<1>3. ASSUME NEW how \in {"blocking", "timed"}, Shutdown(how) PROVE Inv(t)'
  <2>1. Woken(place, place')
    BY <1>3, AllNotified DEF Shutdown
  <2> QED
    BY <1>0, <1>a, <1>3, <2>1 DEF TypeOK, Belongs, Phase, Shutdown
<1>4. CASE ShutdownReturns
  BY <1>0, <1>4 DEF TypeOK, ShutdownReturns
<1>b. ASSUME Woken(place, place'), UNCHANGED <<threads, call, stopOnExit, stopVars>> PROVE Inv(t)'
  BY <1>0, <1>a, <1>b DEF stopVars
<1>c. TypeOK => Woken(place, place)
  BY DEF TypeOK, Woken
<1>5. ASSUME NEW n \in NewThreadLimits, SetThreadLimit(n) PROVE Inv(t)'
  BY <1>b, <1>c, <1>5, AllNotified, Zenon DEF SetThreadLimit
<1>6. ASSUME NEW n \in NewIdleLimits, SetIdleThreadLimit(n) PROVE Inv(t)'
  BY <1>b, <1>c, <1>6, AllNotified, Zenon DEF SetIdleThreadLimit
<1>7. CASE UNCHANGED vars
  BY <1>0, <1>7 DEF vars
<1> QED
  BY <1>1, <1>2, <1>3, <1>4, <1>5, <1>6, <1>7, Steps, Zenon

-----------------------------------------------------------------------------
(* Which threads the pool has *)

LEMMA PhaseStep == ASSUME TypeOK, Phase, [Next]_vars PROVE Phase'
<1> USE DEF Phase
<1>1. ASSUME NEW e \in Events, AppendThread(e) PROVE Phase'
  BY <1>1 DEF AppendThread, Wanted, stopVars
<1>2. ASSUME NEW w \in Events, Leave(w) PROVE Phase'
  BY <1>2 DEF Leave, stopVars
<1>3. ASSUME NEW w \in Events, Joined(w) PROVE Phase'
  BY <1>3 DEF Joined
<1>4. ASSUME NEW e \in Events, OneStep(e), ~AppendThread(e), ~Leave(e), ~Joined(e)
      PROVE  UNCHANGED <<shutdown, threads, closing, toStop, leaked>>
  BY <1>4 DEF OneStep, Check, PutEvent, CreateThread, KillThread, StartThread, TakeEvent,
              Wait, FinishEvent, ReturnFromRun, EndThread, WaitEnds, AsyncShutdown,
              StopNext, stopVars
<1>5. ASSUME NEW how \in {"blocking", "timed"}, Shutdown(how) PROVE Phase'
  BY <1>5 DEF Shutdown
<1>6. CASE ShutdownReturns
  BY <1>6 DEF ShutdownReturns
<1>7. ASSUME \/ \E w, e \in Events : CheckAtEnd(w, e)
             \/ \E n \in NewThreadLimits : SetThreadLimit(n)
             \/ \E n \in NewIdleLimits : SetIdleThreadLimit(n)
             \/ UNCHANGED vars
      PROVE  UNCHANGED <<shutdown, threads, closing, toStop, leaked>>
  BY <1>7 DEF CheckAtEnd, SetThreadLimit, SetIdleThreadLimit, vars, stopVars
<1>8. ASSUME UNCHANGED <<shutdown, threads, closing, toStop, leaked>> PROVE Phase'
  BY <1>8
<1> HIDE DEF Phase
<1> QED
  BY <1>1, <1>2, <1>3, <1>4, <1>5, <1>6, <1>7, <1>8, Steps, Zenon

LEMMA BelongsStep == ASSUME TypeOK, Stoppers, Belongs, [Next]_vars PROVE Belongs'
<1> DEFINE Inv(w) ==
             /\ ~shutdown => (w \in threads <=> Engaged(w))
             /\ shutdown /\ Engaged(w) /\ place[w] # "gone" => w \in toStop \cup leaked
<1> SUFFICES ASSUME NEW t \in Events PROVE Inv(t)'
  BY PhaseStep DEF Belongs
<1>0. /\ Phase /\ Inv(t)
      /\ Stage(t) /\ Exclusive(t) /\ (place[t] # "none" <=> Somebody(t))
  BY DEF Belongs, Stoppers
<1> USE DEF Phase
<1> USE DEF Engaged, InLoop, Stage, Exclusive, Held, TakenOver
<1>1. ASSUME NEW e \in Events, OneStep(e) PROVE Inv(t)'
  <2>1. CASE Check(e)
    BY <1>0, <2>1 DEF TypeOK, Check, stopVars
  <2>2. CASE PutEvent(e)
    <3>1. PICK p \in [Events -> Places] :
           /\ \/ p = place
              \/ \E v \in Events :
                   place[v] = "dispatching" /\ p = [place EXCEPT ![v] = "running"]
           /\ place' = p \/ place' \in Notify(p)
           /\ \/ call' = [call EXCEPT ![e] = "ok"]
              \/ call' = [call EXCEPT ![e] = "creating"]
      BY <2>2, PutEventPlaces, Zenon
    <3>2. Woken(p, place') \/ place' = p
      BY <3>1, Notified
    <3>3. UNCHANGED <<threads, shutdown, asyncStops, stopped, closing, toStop, leaked>>
      BY <2>2 DEF PutEvent, stopVars
    <3>4. call[e] \in {"checked", "atEnd"}
      BY <2>2 DEF PutEvent
    <3>5. \/ place'[t] = place[t]
          \/ place[t] \in {"waiting", "dispatching"} /\ place'[t] \in {"awake", "running"}
      BY <3>1, <3>2 DEF TypeOK, Woken
    <3> QED
      BY <1>0, <3>1, <3>3, <3>4, <3>5 DEF TypeOK
  <2>3. CASE CreateThread(e)
    BY <1>0, <2>3 DEF TypeOK, CreateThread, stopVars
  <2>4. CASE AppendThread(e)
    BY <1>0, <2>4 DEF TypeOK, AppendThread, Wanted, stopVars
  <2>5. CASE KillThread(e)
    BY <1>0, <2>5 DEF TypeOK, KillThread
  <2>6. CASE StartThread(e)
    BY <1>0, <2>6 DEF TypeOK, StartThread, stopVars
  <2>7. CASE TakeEvent(e) \/ Wait(e) \/ FinishEvent(e) \/ WaitEnds(e)
    <3>1. /\ InLoop(e) /\ place' \in {[place EXCEPT ![e] = q] : q \in {"awake", "waiting", "running"}}
          /\ UNCHANGED <<threads, shutdown, call, toStop, leaked>>
      BY <2>7 DEF TakeEvent, Wait, FinishEvent, WaitEnds, stopVars
    <3> QED
      BY <1>0, <3>1 DEF TypeOK
  <2>12. CASE EndThread(e)
    BY <1>0, <2>12 DEF TypeOK, EndThread, stopVars
  <2>8. CASE Leave(e)
    BY <1>0, <2>8 DEF TypeOK, Leave, stopVars
  <2>9. CASE ReturnFromRun(e)
    BY <1>0, <2>9 DEF TypeOK, ReturnFromRun
  <2>10. CASE AsyncShutdown(e) \/ StopNext(e)
    BY <1>0, <2>10 DEF TypeOK, AsyncShutdown, StopNext
  <2>11. CASE Joined(e)
    BY <1>0, <2>11 DEF TypeOK, Joined
  <2> QED
    BY <1>1, <2>1, <2>2, <2>3, <2>4, <2>5, <2>6, <2>7, <2>8, <2>9, <2>10, <2>11, <2>12 DEF OneStep
<1>2. ASSUME NEW w \in Events, NEW e \in Events, CheckAtEnd(w, e) PROVE Inv(t)'
  <2>1. Stage(e)
    BY DEF Stoppers
  <2> QED
    BY <1>0, <1>2, <2>1 DEF TypeOK, CheckAtEnd, stopVars
<1>a. ASSUME Woken(place, place')
      PROVE  \/ place'[t] = place[t]
             \/ place[t] = "waiting" /\ place'[t] = "awake"
  BY <1>a DEF Woken
<1>3. ASSUME NEW how \in {"blocking", "timed"}, Shutdown(how) PROVE Inv(t)'
  <2>1. Woken(place, place')
    BY <1>3, AllNotified DEF Shutdown
  <2> QED
    BY <1>0, <1>a, <1>3, <2>1 DEF TypeOK, Shutdown
<1>4. CASE ShutdownReturns
  BY <1>0, <1>4 DEF TypeOK, ShutdownReturns
<1>b. ASSUME Woken(place, place'), UNCHANGED <<threads, call, shutdown, stopVars>>
      PROVE  Inv(t)'
  BY <1>0, <1>a, <1>b DEF stopVars
<1>c. Woken(place, place)
  BY DEF TypeOK, Woken
<1>5. ASSUME NEW n \in NewThreadLimits, SetThreadLimit(n) PROVE Inv(t)'
  BY <1>b, <1>c, <1>5, AllNotified, Zenon DEF SetThreadLimit
<1>6. ASSUME NEW n \in NewIdleLimits, SetIdleThreadLimit(n) PROVE Inv(t)'
  BY <1>b, <1>c, <1>6, AllNotified, Zenon DEF SetIdleThreadLimit
<1>7. CASE UNCHANGED vars
  BY <1>0, <1>7 DEF vars
<1> QED
  BY <1>1, <1>2, <1>3, <1>4, <1>5, <1>6, <1>7, Steps, Zenon

-----------------------------------------------------------------------------
(* The inductive invariant, and what follows from it *)

LEMMA Initially == Init => IInv
<1> SUFFICES ASSUME Init PROVE IInv
  OBVIOUS
<1>1. Stoppers
  BY DEF Init, Stoppers, Stage, Exclusive, Somebody, Held, TakenOver
<1>2. Belongs
  BY DEF Init, Belongs, Phase, Engaged, InLoop
<1>3. Idlers
  BY FS_EmptySet DEF Init, Idlers
<1> QED
  BY <1>1, <1>2, <1>3, TypeInit DEF IInv

LEMMA Preserved == IInv /\ [Next]_vars => IInv'
  BY TypeStep, StoppersStep, BelongsStep, IdlersStep DEF IInv

LEMMA Invariant == Spec => []IInv
  BY Initially, Preserved, PTL DEF Spec

\* The state always has its types.
THEOREM Types == Spec => []TypeOK
<1>1. IInv => TypeOK
  BY DEF IInv
<1> QED
  BY <1>1, Invariant, PTL

\* mIdleCount is exact and never above mThreads.Count(), because a thread that
\* is idle is in Run, and with that in mThreads unless Shutdown has emptied it.
THEOREM IdleCounting == Spec => []IdleCountExact
<1>1. IInv => IdleCountExact
  <2> SUFFICES ASSUME IInv PROVE IdleCountExact
    OBVIOUS
  <2>1. \A w \in wasIdle : w \in Events /\ InLoop(w)
    BY DEF IInv, TypeOK, Idlers, InLoop
  <2> QED
    BY <2>1 DEF IInv, Idlers, Belongs, Engaged, IdleCountExact
<1> QED
  BY <1>1, Invariant, PTL

\* Each thread the pool made has one party to stop it, and a stopped one none.
THEOREM ThreadsAreStoppedOnce == Spec => []OneStopper
<1>1. IInv => OneStopper
  <2> SUFFICES ASSUME IInv, NEW w \in Events
               PROVE  LET parties == {p \in {"dispatch", "pool", "shutdown", "run", "main", "done"} :
                            CASE p = "dispatch" -> call[w] \in {"created", "surplus"}
                              [] p = "pool" -> w \in threads
                              [] p = "shutdown" -> w \in toStop \ stopped
                              [] p = "run" -> w \in stopOnExit
                              [] p = "main" -> w \in asyncStops
                              [] OTHER -> w \in stopped}
                      IN  Cardinality(parties) = IF place[w] = "none" THEN 0 ELSE 1
    BY DEF OneStopper
  <2> DEFINE all == {"dispatch", "pool", "shutdown", "run", "main", "done"}
             Is(p) == CASE p = "dispatch" -> Held(w)
                        [] p = "pool" -> w \in threads
                        [] p = "shutdown" -> TakenOver(w)
                        [] p = "run" -> w \in stopOnExit
                        [] p = "main" -> w \in asyncStops
                        [] OTHER -> w \in stopped
             parties == {p \in all : Is(p)}
  <2>1. Exclusive(w) /\ (place[w] # "none" <=> Somebody(w))
    BY DEF IInv, Stoppers
  <2>2. CASE place[w] = "none"
    <3>1. parties = {}
      BY <2>1, <2>2 DEF Somebody
    <3> QED
      BY <2>2, <3>1, FS_EmptySet DEF Held, TakenOver
  <2>3. CASE place[w] # "none"
    <3>1. \E q : parties = {q}
      <4>1. CASE Held(w)
        BY <2>1, <4>1 DEF Exclusive
      <4>2. CASE w \in threads
        BY <2>1, <4>2 DEF Exclusive
      <4>3. CASE TakenOver(w)
        <5>1. w \notin threads \cup stopOnExit \cup asyncStops \cup stopped /\ ~Held(w)
          BY <2>1, <4>3 DEF Exclusive, TakenOver
        <5> QED
          BY <4>3, <5>1
      <4>4. CASE w \in stopOnExit
        BY <2>1, <4>4 DEF Exclusive
      <4>5. CASE w \in asyncStops
        BY <2>1, <4>5 DEF Exclusive
      <4>6. CASE w \in stopped
        BY <2>1, <4>6 DEF Exclusive, TakenOver
      <4> QED
        BY <2>1, <2>3, <4>1, <4>2, <4>3, <4>4, <4>5, <4>6 DEF Somebody
    <3>2. Cardinality(parties) = 1
      BY <3>1, FS_Singleton
    <3> QED
      BY <2>3, <3>2 DEF Held, TakenOver
  <2> QED
    BY <2>2, <2>3
<1> QED
  BY <1>1, Invariant, PTL

\* When a shutdown has returned, only threads it has given up are in Run.
THEOREM ShutdownIsComplete == Spec => []NoneWorksAfterShutdown
<1>1. IInv => NoneWorksAfterShutdown
  BY DEF IInv, Belongs, Phase, Engaged, InLoop, NoneWorksAfterShutdown
<1> QED
  BY <1>1, Invariant, PTL

-----------------------------------------------------------------------------
(* The limits, if they are not changed *)

\* As WithinLimits, with the limits what they were at first.
Limited ==
  /\ threadLimit = ThreadLimit /\ idleThreadLimit = IdleLimit
  /\ Count <= threadLimit /\ idleCount <= idleThreadLimit
  /\ ~shutdown => (isAPoolThreadFree <=> Count < threadLimit)

LEMMA LimitedStep ==
  ASSUME NewThreadLimits = {}, NewIdleLimits = {}, IInv, Limited, [Next]_vars
  PROVE  Limited'
<1>0. /\ ThreadLimit \in Nat /\ IdleLimit \in Nat
      /\ Count \in Nat /\ idleCount \in Nat /\ IsFiniteSet(threads)
      /\ TypeOK
  BY LimitsAssumption, Finite DEF IInv, TypeOK, Count
<1>1. ASSUME UNCHANGED <<limitVars, threads, idleCount, shutdown, isAPoolThreadFree>>
      PROVE  Limited'
  BY <1>1 DEF Limited, Count, limitVars
<1>2. ASSUME NEW e \in Events, OneStep(e) PROVE Limited'
  <2>1. CASE AppendThread(e)
    <3>1. CASE UNCHANGED <<threads, isAPoolThreadFree>>
      BY <1>1, <2>1, <3>1 DEF AppendThread
    <3>2. CASE /\ call[e] = "created" /\ Wanted
               /\ threads' = threads \cup {e} /\ isAPoolThreadFree' = StillFree
      <4>1. e \notin threads
        BY <3>2 DEF IInv, Stoppers, Exclusive, Held
      <4>2. Count' = Count + 1
        BY <1>0, <3>2, <4>1, FS_AddElement DEF Count
      <4>3. UNCHANGED <<threadLimit, idleThreadLimit, idleCount, shutdown>>
        BY <2>1 DEF AppendThread, limitVars
      <4>4. isAPoolThreadFree' <=> Count + 1 < threadLimit
        <5>1. isAPoolThreadFree /\ ~shutdown
          BY <3>2 DEF Limited, Wanted
        <5> QED
          BY <3>2, <5>1 DEF StillFree
      <4> QED
        BY <1>0, <3>2, <4>2, <4>3, <4>4 DEF Limited, Wanted
    <3> QED
      BY <2>1, <3>1, <3>2 DEF AppendThread
  <2>2. CASE TakeEvent(e)
    <3>1. UNCHANGED <<limitVars, threads, shutdown, isAPoolThreadFree>>
      BY <2>2 DEF TakeEvent
    <3>2. idleCount' <= idleCount
      BY <1>0, <2>2 DEF TakeEvent, NoLongerCounted
    <3>3. idleCount' \in Nat
      BY <2>2, Uncounted DEF TakeEvent, IInv
    <3> QED
      BY <1>0, <3>1, <3>2, <3>3 DEF Limited, Count, limitVars
  <2>3. CASE Wait(e)
    <3>1. UNCHANGED <<limitVars, threads, shutdown, isAPoolThreadFree>>
      BY <2>3 DEF Wait
    <3>2. \/ idleCount' = idleCount
          \/ idleCount # idleThreadLimit /\ idleCount' = idleCount + 1
      BY <2>3 DEF Wait, OutOfWork
    <3> QED
      BY <1>0, <3>1, <3>2 DEF Limited, Count, limitVars
  <2>4. CASE Leave(e)
    <3>1. UNCHANGED <<limitVars, shutdown>> /\ threads' = threads \ {e}
      BY <2>4 DEF Leave
    <3>2. idleCount' <= idleCount
      BY <1>0, <2>4 DEF Leave, NoLongerCounted
    <3>3. idleCount' \in Nat
      BY <2>4, Uncounted DEF Leave, IInv
    <3>4. Count' \in Nat /\ Count' <= Count
      <4>1. /\ IsFiniteSet(threads')
            /\ Cardinality(threads') = IF e \in threads THEN Count - 1 ELSE Count
        BY <1>0, <3>1, FS_RemoveElement DEF Count
      <4>2. Cardinality(threads') \in Nat
        BY <4>1, FS_CardinalityType
      <4> QED
        BY <1>0, <4>1, <4>2 DEF Count
    <3>5. isAPoolThreadFree' <=> Count' < threadLimit
      BY <2>4 DEF Leave, Count
    <3> QED
      BY <1>0, <3>1, <3>2, <3>3, <3>4, <3>5 DEF Limited, limitVars
  <2>5. ASSUME ~AppendThread(e), ~TakeEvent(e), ~Wait(e), ~Leave(e)
        PROVE  UNCHANGED <<limitVars, threads, idleCount, shutdown, isAPoolThreadFree>>
    BY <1>2, <2>5 DEF OneStep, Check, PutEvent, CreateThread, KillThread, StartThread,
                      FinishEvent, ReturnFromRun, EndThread, WaitEnds, AsyncShutdown,
                      StopNext, Joined
  <2> QED
    BY <1>1, <2>1, <2>2, <2>3, <2>4, <2>5
<1>3. ASSUME NEW how \in {"blocking", "timed"}, Shutdown(how) PROVE Limited'
  <2>1. Count' = 0
    BY <1>3, FS_EmptySet DEF Shutdown, Count
  <2> QED
    BY <1>0, <1>3, <2>1 DEF Limited, Shutdown, limitVars
<1>4. ASSUME \/ \E w, e \in Events : CheckAtEnd(w, e)
             \/ ShutdownReturns
             \/ UNCHANGED vars
      PROVE  UNCHANGED <<limitVars, threads, idleCount, shutdown, isAPoolThreadFree>>
  BY <1>4 DEF CheckAtEnd, ShutdownReturns, vars, limitVars
<1> QED
  BY <1>1, <1>2, <1>3, <1>4, Steps

\* A pool whose limits stay as they are, and which may have threads at all, never
\* has more of them than it may, nor more idle ones, and mIsAPoolThreadFree tells
\* whether it may have another.
THEOREM LimitsAreKept ==
  ASSUME NewThreadLimits = {}, NewIdleLimits = {}, ThreadLimit > 0
  PROVE  Spec => []WithinLimits
<1>1. Init => Limited
  BY LimitsAssumption, FS_EmptySet DEF Init, Limited, Count
<1>2. IInv /\ Limited /\ [Next]_vars => Limited'
  BY LimitedStep
<1>3. IInv /\ Limited => WithinLimits
  <2> SUFFICES ASSUME IInv, Limited PROVE WithinLimits
    OBVIOUS
  <2> DEFINE free == Count < threadLimit
  <2>1. free \in BOOLEAN
    OBVIOUS
  <2>2. isAPoolThreadFree \in BOOLEAN
    BY Zenon DEF IInv, TypeOK
  <2>3. ~shutdown => (isAPoolThreadFree <=> free)
    BY DEF Limited
  <2>4. ~shutdown => isAPoolThreadFree = free
    BY <2>1, <2>2, <2>3, Zenon
  <2> QED
    BY <2>4 DEF Limited, WithinLimits
<1> QED
  BY <1>1, <1>2, <1>3, Invariant, PTL DEF Spec

-----------------------------------------------------------------------------
(* Nothing waits for threads that sleep *)

\* A pool that is full has a thread that is up or about to be, or all that are in
\* Run wait.
LEMMA SomeThread ==
  ASSUME IInv, ~shutdown, threadLimit > 0, ~(Count < threadLimit)
  PROVE  \E w \in threads : w \in Events /\ (InLoop(w) \/ call[w] = "appended")
<1>1. threads \in SUBSET Events /\ Cardinality(threads) \in Nat /\ threadLimit \in Nat
  BY Finite DEF IInv, TypeOK
<1>2. threads # {}
  BY <1>1, FS_EmptySet DEF Count
<1> QED
  BY <1>1, <1>2 DEF IInv, Belongs, Engaged

\* Notifying takes nothing away.
LEMMA StaysUp ==
  ASSUME Woken(place, place'), UNCHANGED <<events, shutdown, call>>, Attended
  PROVE  Attended'
<1> SUFFICES ASSUME ~shutdown, events # <<>>
             PROVE  \/ \E w \in Events : Up(w)'
                    \/ (\A w \in Events : place'[w] # "waiting") /\ \E e \in Events : Coming(e)'
  BY DEF Attended
<1>1. CASE \E w \in Events : Up(w)
  BY <1>1 DEF Up, Woken
<1>2. CASE (\A w \in Events : place[w] # "waiting") /\ \E e \in Events : Coming(e)
  BY <1>2 DEF Woken, Coming
<1> QED
  BY <1>1, <1>2 DEF Attended

LEMMA AttendedPut ==
  ASSUME IInv, Attended, threadLimit > 0, NEW e \in Events, PutEvent(e)
  PROVE  Attended'
<1>0. UNCHANGED <<shutdown, threads, idleCount>> /\ TypeOK
  BY DEF PutEvent, IInv
<1> SUFFICES ASSUME ~shutdown
             PROVE  \/ \E w \in Events : Up(w)'
                    \/ (\A w \in Events : place'[w] # "waiting") /\ \E d \in Events : Coming(d)'
  BY <1>0 DEF Attended
<1>1. PICK p \in [Events -> Places] :
        /\ \/ call[e] = "checked" /\ p = place
           \/ /\ call[e] = "atEnd"
              /\ \E v \in Events :
                   place[v] = "dispatching" /\ p = [place EXCEPT ![v] = "running"]
        /\ place' \in Notify(p)
        /\ call' = [call EXCEPT ![e] = IF SpawnThread(e) THEN "creating" ELSE "ok"]
  BY <1>0, PutEventPlaces, Zenon
<1>2. CASE \E w \in Events : p[w] = "waiting"
  BY <1>1, <1>2, Notified DEF Up
<1>3. CASE /\ \A w \in Events : p[w] # "waiting"
           /\ call[e] = "atEnd"
  <2>1. PICK v \in Events : place[v] = "dispatching" /\ p = [place EXCEPT ![v] = "running"]
    BY <1>1, <1>3
  <2>2. place' = p
    BY <1>1, <1>3 DEF Notify
  <2> QED
    BY <1>0, <2>1, <2>2 DEF TypeOK, Up
<1>4. CASE /\ \A w \in Events : p[w] # "waiting"
           /\ call[e] = "checked"
  <2>1. place' = place
    BY <1>1, <1>4 DEF Notify
  <2>2. CASE SpawnThread(e)
    BY <1>0, <1>1, <1>4, <2>1, <2>2 DEF TypeOK, Coming, Notify
  <2>3. CASE ~(Count < threadLimit)
    <3>1. PICK w \in Events : InLoop(w) \/ call[w] = "appended"
      BY <2>3, SomeThread
    <3>2. CASE InLoop(w)
      BY <1>1, <1>4, <2>1, <3>2 DEF InLoop, Up
    <3>3. CASE call[w] = "appended"
      <4>1. w # e
        BY <1>4, <3>3
      <4>2. call'[w] = "appended"
        BY <1>0, <1>1, <3>3, <4>1 DEF TypeOK
      <4> QED
        BY <1>1, <1>4, <2>1, <4>2 DEF Coming
    <3> QED
      BY <3>1, <3>2, <3>3
  <2>4. CASE ~(Len(events) >= idleCount)
    <3>1. Len(events) \in Nat /\ idleCount \in Nat /\ wasIdle \in SUBSET Events
      BY <1>0 DEF TypeOK
    <3>2. wasIdle # {}
      <4>1. idleCount # 0 /\ idleCount = Cardinality(wasIdle)
        BY <2>4, <3>1 DEF IInv, Idlers
      <4> QED
        BY <4>1, FS_EmptySet, Zenon
    <3>3. PICK w \in Events : place[w] \in {"waiting", "awake"}
      BY <3>1, <3>2 DEF IInv, Idlers
    <3> QED
      BY <1>1, <1>4, <2>1, <3>3 DEF Up
  <2> QED
    BY <1>4, <2>2, <2>3, <2>4 DEF SpawnThread
<1> QED
  BY <1>1, <1>2, <1>3, <1>4

LEMMA AttendedStep ==
  ASSUME MayFail = FALSE, 0 \notin NewThreadLimits, threadLimit > 0,
         IInv, Attended, [Next]_vars
  PROVE  Attended'
<1>0. TypeOK /\ Stoppers /\ Belongs
  BY DEF IInv
\* The other ways to keep it: nothing is queued, or no thread goes to sleep and
\* one of those that are up, or about to be, still is.
<1>a. ASSUME shutdown' \/ events' = <<>> PROVE Attended'
  BY <1>a DEF Attended
<1>b. ASSUME NEW w \in Events, Up(w)' PROVE Attended'
  BY <1>b DEF Attended
<1>c. ASSUME UNCHANGED <<events, shutdown, call, place>> PROVE Attended'
  BY <1>c DEF Attended, Up, Coming
<1>d. ASSUME UNCHANGED <<events, shutdown>>,
             \A w \in Events : Up(w) => Up(w)',
             \A w \in Events : place'[w] = "waiting" => place[w] = "waiting",
             \A d \in Events : Coming(d) => Up(d)' \/ \E f \in Events : Coming(f)'
      PROVE  Attended'
  BY <1>d DEF Attended
<1>1. ASSUME NEW e \in Events, OneStep(e) PROVE Attended'
  <2>1. CASE Check(e)
    <3>1. UNCHANGED <<events, shutdown, place>>
      BY <2>1 DEF Check
    <3>2. \A d \in Events : Coming(d) => Coming(d)'
      BY <1>0, <2>1 DEF TypeOK, Check, Coming
    <3> QED
      BY <1>d, <3>1, <3>2 DEF Up
  <2>2. CASE PutEvent(e)
    BY <2>2, AttendedPut
  <2>3. CASE CreateThread(e)
    <3>1. /\ call[e] = "creating" /\ call' = [call EXCEPT ![e] = "created"]
          /\ place' = [place EXCEPT ![e] = "loop"]
          /\ UNCHANGED <<events, shutdown>>
      BY <2>3 DEF CreateThread, queueVars
    <3>2. place[e] = "none"
      BY <1>0, <3>1 DEF Stoppers, Stage
    <3>3. \A d \in Events : Coming(d) => Coming(d)'
      BY <1>0, <3>1 DEF TypeOK, Coming
    <3> QED
      BY <1>0, <1>d, <3>1, <3>2, <3>3 DEF TypeOK, Up
  <2>4. CASE AppendThread(e)
    <3>1. call[e] = "created" /\ UNCHANGED <<events, shutdown, place>>
      BY <2>4 DEF AppendThread, queueVars
    <3>2. CASE Wanted /\ call' = [call EXCEPT ![e] = "appended"]
      <4>1. \A d \in Events : Coming(d) => Coming(d)'
        BY <1>0, <3>2 DEF TypeOK, Coming
      <4> QED
        BY <1>d, <3>1, <4>1 DEF Up
    <3>3. CASE ~Wanted /\ call' = [call EXCEPT ![e] = "surplus"]
      <4>1. CASE shutdown
        BY <1>a, <3>1, <4>1
      <4>2. CASE ~shutdown
        <5>1. PICK w \in Events : InLoop(w) \/ call[w] = "appended"
          BY <3>3, <4>2, SomeThread DEF Wanted
        <5>2. CASE Up(w)
          BY <1>b, <3>1, <5>2 DEF Up
        <5>3. CASE place[w] = "waiting"
          <6>1. events = <<>> \/ \E v \in Events : Up(v)
            BY <4>2, <5>3 DEF Attended
          <6> QED
            BY <1>a, <1>b, <3>1, <6>1 DEF Up
        <5>4. CASE call[w] = "appended"
          <6>1. call'[w] = "appended"
            BY <1>0, <3>1, <3>3, <5>4 DEF TypeOK
          <6> QED
            BY <1>d, <3>1, <6>1 DEF Up, Coming
        <5> QED
          BY <5>1, <5>2, <5>3, <5>4 DEF InLoop, Up
      <4> QED
        BY <4>1, <4>2
    <3> QED
      BY <2>4, <3>2, <3>3 DEF AppendThread
  <2>5. CASE KillThread(e)
    <3>1. \A d \in Events : Coming(d) => Coming(d)'
      BY <1>0, <2>5 DEF TypeOK, KillThread, Coming
    <3> QED
      BY <1>d, <2>5, <3>1 DEF KillThread, queueVars, Up
  <2>6. CASE StartThread(e)
    <3>1. CASE shutdown
      BY <1>a, <2>6, <3>1 DEF StartThread
    <3>2. CASE ~shutdown
      <4>1. place[e] # "gone"
        BY <1>0, <2>6, <3>2
        DEF StartThread, Belongs, Engaged, Stoppers, Stage, Exclusive
      <4>2. Up(e)'
        BY <1>0, <2>6, <4>1 DEF TypeOK, StartThread, Up
      <4> QED
        BY <1>b, <4>2
    <3> QED
      BY <3>1, <3>2
  <2>7. CASE TakeEvent(e) \/ FinishEvent(e) \/ WaitEnds(e)
    <3>1. Up(e)'
      BY <1>0, <2>7 DEF TypeOK, TakeEvent, FinishEvent, WaitEnds, Up
    <3> QED
      BY <1>b, <3>1
  <2>8. CASE Wait(e) \/ Leave(e)
    BY <1>a, <2>8 DEF Wait, Leave, queueVars
  <2>9. CASE ReturnFromRun(e) \/ EndThread(e)
    <3>1. /\ UNCHANGED <<events, shutdown, call>>
          /\ place[e] \in {"leaving", "loop"}
          /\ place' \in {[place EXCEPT ![e] = q] : q \in {"loop", "gone"}}
      BY <2>9 DEF ReturnFromRun, EndThread, queueVars
    <3> QED
      BY <1>0, <1>d, <3>1 DEF TypeOK, Up, Coming
  <2>10. CASE AsyncShutdown(e) \/ StopNext(e) \/ Joined(e)
    BY <1>c, <2>10 DEF AsyncShutdown, StopNext, Joined, queueVars
  <2> QED
    BY <1>1, <2>1, <2>2, <2>3, <2>4, <2>5, <2>6, <2>7, <2>8, <2>9, <2>10 DEF OneStep
<1>2. ASSUME NEW w \in Events, NEW e \in Events, CheckAtEnd(w, e) PROVE Attended'
  <2>1. Up(w)'
    BY <1>0, <1>2 DEF TypeOK, CheckAtEnd, Up
  <2> QED
    BY <1>b, <2>1
<1>3. ASSUME NEW how \in {"blocking", "timed"}, Shutdown(how) PROVE Attended'
  BY <1>a, <1>3 DEF Shutdown
<1>4. CASE ShutdownReturns
  BY <1>c, <1>4 DEF ShutdownReturns, queueVars
<1>e. Woken(place, place)
  BY <1>0 DEF TypeOK, Woken
<1>5. ASSUME NEW n \in NewThreadLimits, SetThreadLimit(n) PROVE Attended'
  <2>1. Woken(place, place') /\ UNCHANGED <<events, shutdown, call>>
    BY <1>0, <1>5, <1>e, AllNotified, Zenon DEF SetThreadLimit, queueVars
  <2> QED
    BY <2>1, StaysUp
<1>6. ASSUME NEW n \in NewIdleLimits, SetIdleThreadLimit(n) PROVE Attended'
  <2>1. Woken(place, place') /\ UNCHANGED <<events, shutdown, call>>
    BY <1>0, <1>6, <1>e, AllNotified, Zenon DEF SetIdleThreadLimit, queueVars
  <2> QED
    BY <2>1, StaysUp
<1>7. CASE UNCHANGED vars
  BY <1>c, <1>7 DEF vars
<1> QED
  BY <1>1, <1>2, <1>3, <1>4, <1>5, <1>6, <1>7, Steps, Zenon

\* The thread limit never becomes zero by itself.
LEMMA LimitStep ==
  ASSUME 0 \notin NewThreadLimits, threadLimit > 0, [Next]_vars
  PROVE  threadLimit' > 0
<1>1. ASSUME NEW e \in Events, OneStep(e) PROVE threadLimit' = threadLimit
  BY <1>1 DEF OneStep, Check, PutEvent, CreateThread, AppendThread, KillThread, StartThread,
              TakeEvent, Wait, Leave, FinishEvent, ReturnFromRun, EndThread, WaitEnds,
              AsyncShutdown, StopNext, Joined, limitVars
<1>2. ASSUME \/ \E w, e \in Events : CheckAtEnd(w, e)
             \/ \E how \in {"blocking", "timed"} : Shutdown(how)
             \/ ShutdownReturns
             \/ \E n \in NewIdleLimits : SetIdleThreadLimit(n)
             \/ UNCHANGED vars
      PROVE  threadLimit' = threadLimit
  BY <1>2 DEF CheckAtEnd, Shutdown, ShutdownReturns, SetIdleThreadLimit, vars, limitVars
<1>3. ASSUME NEW n \in NewThreadLimits, SetThreadLimit(n) PROVE threadLimit' > 0
  BY <1>3, LimitsAssumption DEF SetThreadLimit
<1> QED
  BY <1>1, <1>2, <1>3, Steps

\* If threads can always be made, and some are allowed, then no queued event waits
\* while all the threads sleep, however often the limits are changed meanwhile.
THEOREM EventsAreAttended ==
  ASSUME MayFail = FALSE, ThreadLimit > 0, 0 \notin NewThreadLimits
  PROVE  Spec => []NoEventUnattended
<1>1. Init => Attended /\ threadLimit > 0
  BY DEF Init, Attended
<1>2. IInv /\ Attended /\ threadLimit > 0 /\ [Next]_vars => Attended' /\ threadLimit' > 0
  BY AttendedStep, LimitStep
<1>3. Attended => NoEventUnattended
  BY DEF Attended, NoEventUnattended, Up, Coming
<1> QED
  <2> DEFINE inv == Attended /\ threadLimit > 0
  <2>1. Init => inv
    BY <1>1
  <2>2. IInv /\ inv /\ [Next]_vars => inv'
    BY <1>2
  <2> HIDE DEF inv
  <2>3. Spec => []inv
    BY <2>1, <2>2, Invariant, PTL DEF Spec
  <2>4. inv => NoEventUnattended
    BY <1>3 DEF inv
  <2> QED
    BY <2>3, <2>4, PTL

=============================================================================
