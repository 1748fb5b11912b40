--------------------- MODULE ThrottledEventQueueProofs ---------------------
(***************************************************************************)
(* ThrottledEventQueue has one executor when it needs one, and implements  *)
(* EventTarget, for any number of events and of waiting threads.           *)
(***************************************************************************)
EXTENDS ThrottledEventQueue, TLAPS

\* The history agrees with the queue: what is in it, and nothing else, is
\* queued, and each event is in it once.
Queued == {queue[i] : i \in DOMAIN queue}
FateAgrees ==
  /\ \A e \in Events : fate[e] = "queued" <=> e \in Queued
  /\ \A i, j \in DOMAIN queue : queue[i] = queue[j] => i = j

\* Also on a paused queue an executor in flight has an event, and the base that
\* holds it is alive; a queue that is drained is paused and has none.
ExecutorJustified ==
  /\ executor => baseOpen /\ queue # <<>> /\ ~drained
  /\ drained => paused

IInv ==
  /\ TypeOK
  /\ OneExecutor
  /\ ExecutorJustified
  /\ FateAgrees

-----------------------------------------------------------------------------
\* A queue to which an event was appended is not empty.
LEMMA AppendIsNonempty ==
  ASSUME NEW S, NEW q \in Seq(S), NEW e \in S
  PROVE  Append(q, e) # <<>>
<1>1. Len(Append(q, e)) = Len(q) + 1 /\ Len(q) \in Nat
  OBVIOUS
<1>2. Len(<<>>) = 0
  OBVIOUS
<1> QED
  BY <1>1, <1>2

\* Every step is one of these; the two ways to wait are both Awaiting.
LEMMA Steps ==
  ASSUME [Next]_vars
  PROVE  \/ \E e \in Events : Dispatch(e)
         \/ ReturnPaused \/ ExecuteRunnable \/ GetEvent
         \/ Pause \/ Resume \/ CloseBase
         \/ \E a \in Waiters : Awaiting(a)
         \/ UNCHANGED vars
  BY DEF Next, AwaitIdle, WakeUp

\* What becomes of the queue: an event is accepted, one is taken, or none.
LEMMA QueueSteps ==
  ASSUME [Next]_vars
  PROVE  \/ \E e \in Events : fate[e] = "new" /\ Accept(e)
         \/ TakeEvent
         \/ UNCHANGED queue /\ \E e \in Events :
              fate[e] = "new" /\ fate' = [fate EXCEPT ![e] = "refused"]
         \/ UNCHANGED <<queue, fate>>
<1>1. ASSUME NEW e \in Events, Dispatch(e)
      PROVE  \/ fate[e] = "new" /\ Accept(e)
             \/ UNCHANGED queue /\ fate[e] = "new"
                  /\ fate' = [fate EXCEPT ![e] = "refused"]
  BY <1>1 DEF Dispatch
<1>2. ExecuteRunnable \/ GetEvent => TakeEvent
  BY DEF ExecuteRunnable, GetEvent
<1>3. ReturnPaused \/ Pause \/ Resume \/ CloseBase \/ UNCHANGED vars
        => UNCHANGED <<queue, fate>>
  BY DEF ReturnPaused, Pause, Resume, CloseBase, vars
<1>4. (\E a \in Waiters : Awaiting(a)) => UNCHANGED <<queue, fate>>
  BY DEF Awaiting
<1> QED
  BY <1>1, <1>2, <1>3, <1>4, Steps

-----------------------------------------------------------------------------
\* The queue and the history of its events, which OneExecutor does not need.
LEMMA FateStep ==
  ASSUME TypeOK, FateAgrees, [Next]_vars
  PROVE  /\ queue' \in Seq(Events)
         /\ fate' \in [Events -> {"new", "queued", "refused", "taken"}]
         /\ FateAgrees'
<1> USE DEF TypeOK
<1>1. CASE \E e \in Events : fate[e] = "new" /\ Accept(e)
  <2>1. PICK e \in Events : fate[e] = "new" /\ Accept(e)
    BY <1>1
  <2>2. /\ queue' \in Seq(Events)
        /\ DOMAIN queue' = 1 .. Len(queue) + 1
        /\ \A k \in 1 .. Len(queue) : queue'[k] = queue[k]
        /\ queue'[Len(queue) + 1] = e
    BY <2>1 DEF Accept
  <2>3. fate' = [fate EXCEPT ![e] = "queued"]
    BY <2>1 DEF Accept
  <2>4. e \notin Queued
    BY <2>1 DEF FateAgrees
  <2>5. Queued' = Queued \cup {e}
    BY <2>2 DEF Queued
  <2>6. \A i, j \in DOMAIN queue' : queue'[i] = queue'[j] => i = j
    BY <2>2, <2>4 DEF FateAgrees, Queued
  <2>7. \A x \in Events : fate'[x] = "queued" <=> x \in Queued'
    BY <2>3, <2>5 DEF FateAgrees
  <2> QED
    BY <2>2, <2>3, <2>6, <2>7 DEF FateAgrees
<1>2. CASE TakeEvent
  <2>1. /\ queue' \in Seq(Events) /\ Head(queue) \in Events
        /\ Len(queue) >= 1 /\ Head(queue) = queue[1]
        /\ DOMAIN queue' = 1 .. Len(queue) - 1
        /\ \A k \in 1 .. Len(queue) - 1 : queue'[k] = queue[k + 1]
    BY <1>2 DEF TakeEvent
  <2>2. fate' = [fate EXCEPT ![Head(queue)] = "taken"]
    BY <1>2 DEF TakeEvent
  <2>3. \A i, j \in DOMAIN queue' : queue'[i] = queue'[j] => i = j
    <3> SUFFICES ASSUME NEW i \in DOMAIN queue', NEW j \in DOMAIN queue',
                        queue'[i] = queue'[j]
                 PROVE  i = j
      OBVIOUS
    <3>1. i \in Nat /\ j \in Nat /\ i + 1 \in DOMAIN queue /\ j + 1 \in DOMAIN queue
      BY <2>1
    <3>2. queue[i + 1] = queue[j + 1]
      BY <2>1
    <3>3. i + 1 = j + 1
      BY <3>1, <3>2 DEF FateAgrees
    <3> QED
      BY <3>1, <3>3
  <2>4. Queued' = Queued \ {Head(queue)}
    <3>1. ASSUME NEW k \in DOMAIN queue, queue[k] # Head(queue)
          PROVE  k - 1 \in DOMAIN queue' /\ queue'[k - 1] = queue[k]
      BY <2>1, <3>1
    <3>2. ASSUME NEW k \in DOMAIN queue'
          PROVE  /\ k + 1 \in DOMAIN queue /\ queue'[k] = queue[k + 1]
                 /\ queue'[k] # Head(queue)
      BY <2>1, <3>2 DEF FateAgrees
    <3> QED
      BY <3>1, <3>2 DEF Queued
  <2>5. \A x \in Events : fate'[x] = "queued" <=> x \in Queued'
    BY <2>1, <2>2, <2>4 DEF FateAgrees
  <2> QED
    BY <2>1, <2>2, <2>3, <2>5 DEF FateAgrees
<1>3. CASE /\ UNCHANGED queue
           /\ \E e \in Events :
                fate[e] = "new" /\ fate' = [fate EXCEPT ![e] = "refused"]
  <2>1. Queued' = Queued
    BY <1>3 DEF Queued
  <2> QED
    BY <1>3, <2>1 DEF FateAgrees
<1>4. CASE UNCHANGED <<queue, fate>>
  BY <1>4 DEF FateAgrees, Queued
<1> QED
  BY <1>1, <1>2, <1>3, <1>4, QueueSteps

-----------------------------------------------------------------------------
\* The executor and the flags: typing, OneExecutor and ExecutorJustified.
LEMMA ExecutorStep ==
  ASSUME TypeOK, OneExecutor, ExecutorJustified, [Next]_vars
  PROVE  /\ executor' \in BOOLEAN /\ inBase' \in 0 .. 1
         /\ OneExecutor' /\ ExecutorJustified'
<1> USE DEF TypeOK, OneExecutor, ExecutorJustified
<1>1. ASSUME NEW e \in Events, Dispatch(e)
      PROVE  /\ executor' \in BOOLEAN /\ inBase' \in 0 .. 1
             /\ OneExecutor' /\ ExecutorJustified'
  <2>1. Append(queue, e) # <<>>
    BY AppendIsNonempty
  <2>2. CASE ~paused /\ Ensured /\ Accept(e)
    BY <1>1, <2>1, <2>2 DEF Dispatch, Ensured, Accept
  <2>3. CASE paused /\ Accept(e) /\ UNCHANGED <<executor, inBase>>
    BY <1>1, <2>3 DEF Dispatch, Accept
  <2>4. CASE UNCHANGED <<queue, executor, inBase>>
    BY <1>1, <2>4 DEF Dispatch
  <2> QED
    BY <1>1, <2>2, <2>3, <2>4 DEF Dispatch
<1>2. CASE ReturnPaused
  <2>1. executor' \in BOOLEAN /\ ~executor' /\ paused'
    BY <1>2, Zenon DEF ReturnPaused
  <2>2. inBase' = 0
    BY <1>2 DEF ReturnPaused
  <2>3. drained' = drained
    BY <1>2 DEF ReturnPaused
  <2> QED
    BY <2>1, <2>2, <2>3
<1>3. CASE ExecuteRunnable
  <2>1. /\ paused' = paused /\ drained' = drained /\ baseOpen' = baseOpen
        /\ ~paused /\ queue' = Tail(queue)
    BY <1>3 DEF ExecuteRunnable, TakeEvent
  <2>2. CASE queue' # <<>> /\ UNCHANGED <<executor, inBase>>
    BY <1>3, <2>1, <2>2 DEF ExecuteRunnable, TakeEvent
  <2>3. CASE queue' = <<>> /\ executor' = FALSE /\ inBase' = inBase - 1
    <3>1. inBase' = 0
      BY <1>3, <2>3 DEF ExecuteRunnable
    <3>2. executor' \in BOOLEAN /\ ~executor' /\ (drained' => paused')
      BY <2>1, <2>3, Zenon
    <3> QED
      BY <2>3, <3>1, <3>2
  <2> QED
    BY <1>3, <2>1, <2>2, <2>3 DEF ExecuteRunnable
<1>4. CASE GetEvent
  <2>1. drained /\ UNCHANGED <<drained, executor, inBase, baseOpen, paused>>
    BY <1>4 DEF GetEvent
  <2> QED
    BY <2>1
<1>5. CASE Pause
  BY <1>5 DEF Pause
<1>6. CASE Resume
  <2>1. /\ queue' = queue /\ drained' = drained /\ baseOpen' = baseOpen
        /\ ~drained
    BY <1>6 DEF Resume
  <2>2. CASE queue = <<>> /\ UNCHANGED <<executor, inBase>>
    BY <1>6, <2>1, <2>2 DEF Resume
  <2>3. CASE queue # <<>> /\ Ensured /\ paused' = FALSE
    BY <2>1, <2>3 DEF Ensured
  <2>4. CASE UNCHANGED <<executor, inBase, paused>>
    BY <2>1, <2>4
  <2> QED
    BY <1>6, <2>2, <2>3, <2>4 DEF Resume
<1>7. CASE CloseBase
  BY <1>7 DEF CloseBase
<1>8. ASSUME NEW a \in Waiters, Awaiting(a)
      PROVE  UNCHANGED <<drained, queue, executor, inBase, baseOpen, paused>>
  BY <1>8 DEF Awaiting
<1>9. CASE UNCHANGED <<drained, queue, executor, inBase, baseOpen, paused>>
  BY <1>9
<1>10. UNCHANGED vars => UNCHANGED <<drained, queue, executor, inBase, baseOpen, paused>>
  BY DEF vars
<1> QED
  BY <1>1, <1>2, <1>3, <1>4, <1>5, <1>6, <1>7, <1>8, <1>9, <1>10, Steps

\* The other variables keep their types.
LEMMA OtherTypes ==
  ASSUME TypeOK, [Next]_vars
  PROVE  /\ baseOpen' \in BOOLEAN /\ paused' \in BOOLEAN /\ drained' \in BOOLEAN
         /\ waiter' \in [Waiters -> {"new", "waiting", "returned"}]
         /\ woken' \in SUBSET Waiters
<1> USE DEF TypeOK, waitVars
<1>1. ASSUME NEW e \in Events, Dispatch(e)
      PROVE  UNCHANGED <<drained, baseOpen, paused, waiter, woken>>
  BY <1>1 DEF Dispatch
<1>2. CASE ReturnPaused \/ GetEvent \/ Pause \/ Resume \/ CloseBase
  BY <1>2 DEF ReturnPaused, GetEvent, Pause, Resume, CloseBase
<1>3. CASE ExecuteRunnable
  BY <1>3 DEF ExecuteRunnable, NotifyAll, Waiting
<1>4. ASSUME NEW a \in Waiters, Awaiting(a)
      PROVE  /\ UNCHANGED <<drained, baseOpen, paused>>
             /\ waiter' \in [Waiters -> {"new", "waiting", "returned"}]
             /\ woken' \in SUBSET Waiters
  BY <1>4 DEF Awaiting
<1>5. CASE UNCHANGED <<drained, baseOpen, paused, waiter, woken>>
  BY <1>5
<1>6. UNCHANGED vars => UNCHANGED <<drained, baseOpen, paused, waiter, woken>>
  BY DEF vars
<1> QED
  BY <1>1, <1>2, <1>3, <1>4, <1>5, <1>6, Steps

LEMMA InvInit == Init => IInv
<1>1. <<>> \in Seq(Events)
  OBVIOUS
<1>2. Init => TypeOK
  <2>1. Init => /\ executor \in BOOLEAN /\ baseOpen \in BOOLEAN
                /\ paused \in BOOLEAN /\ drained \in BOOLEAN
    BY Zenon DEF Init
  <2>2. Init => /\ queue \in Seq(Events) /\ inBase \in 0 .. 1
                /\ waiter \in [Waiters -> {"new", "waiting", "returned"}]
                /\ woken \in SUBSET Waiters
                /\ fate \in [Events -> {"new", "queued", "refused", "taken"}]
    BY <1>1 DEF Init
  <2> QED
    BY <2>1, <2>2 DEF TypeOK
<1>3. Init => OneExecutor /\ ExecutorJustified
  <2>1. Init => ~executor /\ inBase = 0 /\ queue = <<>>
    BY DEF Init
  <2>2. Init => (drained => paused)
    BY DEF Init
  <2> QED
    BY <2>1, <2>2 DEF OneExecutor, ExecutorJustified
<1>4. Init => FateAgrees
  BY DEF Init, FateAgrees, Queued
<1> QED
  BY <1>2, <1>3, <1>4 DEF IInv

LEMMA InvStep == IInv /\ [Next]_vars => IInv'
  BY FateStep, ExecutorStep, OtherTypes DEF IInv, TypeOK

-----------------------------------------------------------------------------
(* The abstraction *)

\* Seen as an event target, what waits is what is in the queue, and the events
\* that were not dispatched are its fresh ones.
LEMMA AbstractFresh ==
  ASSUME TypeOK, FateAgrees
  PROVE  Abstract!Fresh = Having("new")
<1>1. Abstract!Waiting = Queued
  BY DEF Abstract!Waiting, Queued
<1>2. Queued \subseteq Events
  BY DEF TypeOK, Queued
<1> QED
  BY <1>1, <1>2 DEF Abstract!Fresh, Having, TypeOK, FateAgrees

\* A target that starts open, or closed, with nothing in it.
LEMMA AbstractInit == Init => Abstract!Init
  BY DEF Init, Abstract!Init, Having

\* The queue is open if it is paused, has an executor, or can get one.
Open == paused \/ executor \/ baseOpen

\* A step that leaves the queue alone opens it, closes it, or is a stutter.
LEMMA AbstractSwitch ==
  ASSUME UNCHANGED <<queue, fate>>
  PROVE  [Abstract!Next]_(Abstract!vars)
<1>1. /\ Having("taken")' = Having("taken")
      /\ Having("refused")' = Having("refused")
  BY DEF Having
<1>2. [t \in {"queue"} |-> queue]' = [t \in {"queue"} |-> queue]
  OBVIOUS
<1>3. CASE Open <=> Open'
  BY <1>1, <1>2, <1>3 DEF Open, Abstract!vars
<1>4. CASE ~Open /\ Open'
  <2>1. Abstract!Open("queue")
    BY <1>1, <1>2, <1>4 DEF Open, Abstract!Open
  <2> QED
    BY <2>1 DEF Abstract!Next
<1>5. CASE Open /\ ~Open'
  <2>1. Abstract!Close("queue")
    BY <1>1, <1>2, <1>5 DEF Open, Abstract!Close
  <2> QED
    BY <2>1 DEF Abstract!Next
<1> QED
  BY <1>3, <1>4, <1>5

\* Nothing but Pause, Resume and CloseBase changes whether it is open.
LEMMA OpenStays ==
  ASSUME TypeOK, OneExecutor, ExecutorJustified, [Next]_vars,
         ~UNCHANGED <<queue, fate>>
  PROVE  Open' <=> Open
<1> USE DEF TypeOK, OneExecutor, ExecutorJustified, Open
<1>1. ASSUME NEW e \in Events, Dispatch(e)
      PROVE  Open' <=> Open
  <2>1. paused' = paused /\ baseOpen' = baseOpen
    BY <1>1 DEF Dispatch
  <2>2. CASE paused
    BY <2>1, <2>2, Zenon
  <2>3. CASE Ensured
    <3>1. (executor \/ baseOpen) /\ executor'
      BY <2>3, Zenon DEF Ensured
    <3> QED
      BY <2>1, <3>1, Zenon
  <2>4. CASE executor' = executor
    BY <2>1, <2>4, Zenon
  <2> QED
    BY <1>1, <2>2, <2>3, <2>4 DEF Dispatch
<1>2. CASE ExecuteRunnable
  <2>1. executor /\ baseOpen /\ baseOpen' = baseOpen
    BY <1>2 DEF ExecuteRunnable
  <2> QED
    BY <2>1, Zenon
<1>3. CASE GetEvent
  <2>1. paused' = paused /\ executor' = executor /\ baseOpen' = baseOpen
    BY <1>3 DEF GetEvent
  <2> QED
    BY <2>1, Zenon
<1>4. CASE ReturnPaused \/ Pause \/ Resume \/ CloseBase
  BY <1>4 DEF ReturnPaused, Pause, Resume, CloseBase
<1>5. ASSUME NEW a \in Waiters, Awaiting(a)
      PROVE  FALSE
  BY <1>5 DEF Awaiting
<1>6. UNCHANGED vars => FALSE
  BY DEF vars
<1> QED
  BY <1>1, <1>2, <1>3, <1>4, <1>5, <1>6, Steps

\* Only an open queue accepts an event.
LEMMA AcceptedOpen ==
  ASSUME TypeOK, NEW e \in Events, Dispatch(e), Accept(e)
  PROVE  Open
<1>1. fate' # [fate EXCEPT ![e] = "refused"]
  BY DEF Accept, TypeOK
<1>2. CASE Ensured
  BY <1>2, Zenon DEF Ensured, Open
<1> QED
  BY <1>1, <1>2, Zenon DEF Dispatch, Open

\* An event that is accepted was fresh, and the queue open.
LEMMA AbstractAccept ==
  ASSUME TypeOK, FateAgrees, Open, Open',
         NEW e \in Events, fate[e] = "new", Accept(e)
  PROVE  Abstract!Accept("queue", e)
<1>1. e \in Abstract!Fresh
  BY AbstractFresh DEF Having
<1>2. /\ Having("taken")' = Having("taken")
      /\ Having("refused")' = Having("refused")
  BY DEF Having, Accept, TypeOK
<1>3. [t \in {"queue"} |-> queue]' =
        [[t \in {"queue"} |-> queue] EXCEPT !["queue"] = Append(@, e)]
  BY DEF Accept
<1> QED
  BY <1>1, <1>2, <1>3 DEF Abstract!Accept, Open

\* An event that is refused was fresh, and the queue closed.
LEMMA AbstractRefuse ==
  ASSUME TypeOK, FateAgrees, ~Open, ~Open', UNCHANGED queue,
         NEW e \in Events, fate[e] = "new",
         fate' = [fate EXCEPT ![e] = "refused"]
  PROVE  Abstract!Refuse("queue", e)
<1>1. e \in Abstract!Fresh
  BY AbstractFresh DEF Having
<1>2. /\ Having("taken")' = Having("taken")
      /\ Having("refused")' = Having("refused") \cup {e}
  BY DEF Having, TypeOK
<1> QED
  BY <1>1, <1>2 DEF Abstract!Refuse, Open

\* The event taken is the one that waits longest.
LEMMA AbstractDeliver ==
  ASSUME TypeOK, FateAgrees, Open' <=> Open, TakeEvent
  PROVE  Abstract!Deliver("queue")
<1>1. Head(queue) \in Events /\ Head(queue) = queue[1] /\ 1 \in DOMAIN queue
  BY DEF TakeEvent, TypeOK
<1>2. fate[Head(queue)] = "queued"
  BY <1>1 DEF FateAgrees, Queued
<1>3. /\ Having("taken")' = Having("taken") \cup {Head(queue)}
      /\ Having("refused")' = Having("refused")
  BY <1>1, <1>2 DEF Having, TakeEvent, TypeOK
<1>4. [t \in {"queue"} |-> queue]' =
        [[t \in {"queue"} |-> queue] EXCEPT !["queue"] = Tail(@)]
  BY DEF TakeEvent
<1>5. [t \in {"queue"} |-> queue]["queue"] = queue
  OBVIOUS
<1> QED
  BY <1>3, <1>4, <1>5 DEF Abstract!Deliver, TakeEvent, Open

\* Every step of the queue is a step of the event target, or a stutter.
LEMMA AbstractStep ==
  ASSUME IInv, IInv', [Next]_vars
  PROVE  [Abstract!Next]_(Abstract!vars)
<1> USE DEF IInv
<1>1. CASE UNCHANGED <<queue, fate>>
  BY <1>1, AbstractSwitch
<1>2. CASE TakeEvent /\ ~UNCHANGED <<queue, fate>>
  <2>1. Abstract!Deliver("queue")
    BY <1>2, OpenStays, AbstractDeliver
  <2> QED
    BY <2>1 DEF Abstract!Next
<1>3. ASSUME NEW e \in Events, Dispatch(e), ~UNCHANGED <<queue, fate>>
      PROVE  Abstract!Accept("queue", e) \/ Abstract!Refuse("queue", e)
  <2>1. Open' <=> Open
    BY <1>3, OpenStays
  <2>2. CASE Accept(e)
    <3>1. Open
      BY <1>3, <2>2, AcceptedOpen
    <3> QED
      BY <1>3, <2>1, <2>2, <3>1, AbstractAccept DEF Dispatch
  <2>3. CASE /\ ~paused /\ NotEnsured /\ UNCHANGED queue
             /\ fate' = [fate EXCEPT ![e] = "refused"]
    <3>1. ~Open
      BY <2>3, Zenon DEF NotEnsured, Open
    <3> QED
      BY <1>3, <2>1, <2>3, <3>1, AbstractRefuse DEF Dispatch
  <2> QED
    BY <1>3, <2>2, <2>3 DEF Dispatch
<1>4. ASSUME NEW e \in Events,
             Abstract!Accept("queue", e) \/ Abstract!Refuse("queue", e)
      PROVE  Abstract!Next
  BY <1>4 DEF Abstract!Next
<1>5. ExecuteRunnable \/ GetEvent => TakeEvent
  BY DEF ExecuteRunnable, GetEvent
<1>6. ReturnPaused \/ Pause \/ Resume \/ CloseBase \/ UNCHANGED vars
        => UNCHANGED <<queue, fate>>
  BY DEF ReturnPaused, Pause, Resume, CloseBase, vars
<1>7. (\E a \in Waiters : Awaiting(a)) => UNCHANGED <<queue, fate>>
  BY DEF Awaiting
<1> QED
  BY <1>1, <1>2, <1>3, <1>4, <1>5, <1>6, <1>7, Steps

-----------------------------------------------------------------------------
(* Theorems *)

\* The invariant holds: besides OneExecutor, an executor in flight has an event
\* to find even on a paused queue, which is what ExecuteRunnable relies on.
THEOREM Invariance == Spec => []IInv
  BY InvInit, InvStep, PTL DEF Spec

\* Every variable keeps its type.
THEOREM TypeCorrect == Spec => []TypeOK
<1>1. IInv => TypeOK
  BY DEF IInv
<1> QED
  BY <1>1, Invariance, PTL

\* However events are dispatched and the queue is paused and resumed with an
\* executor in flight (EnsureExecutor, ExecuteRunnable, SetIsPaused), a queue
\* that is not paused has exactly one executor while it has events, and none
\* when it has none.
THEOREM OneExecutorAlways == Spec => []OneExecutor
<1>1. IInv => OneExecutor
  BY DEF IInv
<1> QED
  BY <1>1, Invariance, PTL

\* The queue implements an event target: Dispatch takes an event or refuses it,
\* nothing that was taken is lost, and the events are taken out in the order
\* in which they were dispatched, each once.
THEOREM Implements == Spec => ImplementsEventTarget
<1>1. IInv /\ IInv' /\ [Next]_vars => [Abstract!Next]_(Abstract!vars)
  BY AbstractStep
<1> QED
  BY <1>1, AbstractInit, Invariance, PTL
     DEF Spec, ImplementsEventTarget, Abstract!Spec
=============================================================================
