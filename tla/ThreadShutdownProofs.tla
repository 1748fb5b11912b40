----------------------- MODULE ThreadShutdownProofs -----------------------
(***************************************************************************)
(* What holds of ThreadShutdown for any number of threads, of events and   *)
(* of nested loops, whoever may stop whom and wait for whom.               *)
(*                                                                         *)
(* The key is Claims: everything that names the thread that joins u, the   *)
(* outstanding context, mShutdownContext, the shutdown event, the ack and  *)
(* the frame that waits for it, names the same one, because the compare-   *)
(* and-exchange of mShutdownRequired lets one caller through.  Outlives    *)
(* needs the thread manager's bookkeeping, ManagerWaits; that no thread is *)
(* left at the end needs, besides, that threads stop one another in some   *)
(* order.                                                                  *)
(***************************************************************************)
EXTENDS ThreadShutdown, WellFoundedInduction, TLAPS

\* The events in the queue of t, and those it has not finished with.
Queued(t) == {queue[t][i] : i \in 1 .. Len(queue[t])}
EventsOn(t) == {stack[t][i].event : i \in 1 .. Depth(t)}
Pending(t) == Queued(t) \cup EventsOn(t)

\* The threads that events of t are about to join.
Joins(f) == f.awaits = "ack" \/ f.stage = "joining"
Waited(t) == {u \in Threads : \E i \in 1 .. Depth(t) :
                                Joins(stack[t][i]) /\ stack[t][i].whom = u}

\* Something, anywhere, says that t is the thread that joins u.
ClaimedBy(u, t) ==
  \/ u \in requested[t]
  \/ context[u] = t
  \/ \E e \in Pending(u) : e.type = "shutdown" /\ e.of = t
  \/ \E e \in Pending(t) : e.type = "ack" /\ e.of = u
  \/ u \in Waited(t)

\* All that is said of u names the same thread, and nothing is said before u is
\* asked to shut down.  The main thread never is.
Claims ==
  \A u \in Threads :
    /\ u \in required \cup {Main} => \A t \in Threads : ~ClaimedBy(u, t)
    /\ \A t, v \in Threads : ClaimedBy(u, t) /\ ClaimedBy(u, v) => t = v

\* The thread manager is the outermost event of the main thread.  It waits for
\* the requested shutdowns when it has told all threads to stop; once there were
\* none requested there never is one again.
Manager == stack[Main][1]
Managing == Depth(Main) > 0 /\ Manager.event.type = "manager"
OneManager ==
  /\ \A t \in Threads : \A e \in Queued(t) : e.type # "manager"
  /\ \A t \in Threads : \A i \in 1 .. Depth(t) :
       stack[t][i].event.type = "manager" => t = Main /\ i = 1
  /\ phase[Main] \in {"loop", "dead"}
  /\ phase[Main] = "dead" => Depth(Main) = 0
ManagerWaits ==
  Managing =>
    /\ required \subseteq toStop
    /\ Manager.awaits \in {"nothing", "ack", "shutdowns"}
    /\ Manager.stage \in {"checking", "blocked"} => Manager.awaits # "nothing"
    /\ Manager.awaits = "shutdowns" => toStop = {}
    /\ Manager.stage = "finished" => Manager.awaits = "shutdowns" /\ requested[Main] = {}
    /\ Depth(Main) > 1 => Manager.stage \in {"blocked", "finished"}

\* A thread that stops others does not exit meanwhile.
Outlives ==
  \A t, u \in Threads : u \in requested[t] => ~Doomed(t) /\ phase[t] # "dead"

\* A thread leaves its loop because it was told to, and by whom.
Told ==
  \A t \in Threads : phase[t] \in {"drain", "doomed", "acked"} => context[t] \in Threads

IInv ==
  /\ TypeOK /\ Told
  /\ NothingStranded
  /\ Claims
  /\ OneManager /\ ManagerWaits
  /\ Outlives
  /\ JoinedBeforeForgotten
  /\ SpinWakesUp

\* Only who may stop a thread does, save the thread manager.
Allowed ==
  \A t \in Threads \ {Main}, u \in Threads : u \in requested[t] => <<t, u>> \in MayStop

-----------------------------------------------------------------------------
(* What the steps do to queues and stacks *)

\* The innermost event of t becomes f, and nothing else on the stacks changes.
TopBecomes(t, f) ==
  /\ stack' \in [Threads -> Seq(Frames)]
  /\ \A v \in Threads \ {t} : stack'[v] = stack[v]
  /\ Len(stack'[t]) = Depth(t)
  /\ \A i \in 1 .. Depth(t) : stack'[t][i] = IF i = Depth(t) THEN f ELSE stack[t][i]

LEMMA DepthType ==
  ASSUME TypeOK, NEW t \in Threads
  PROVE  /\ stack[t] \in Seq(Frames) /\ Depth(t) \in Nat
         /\ \A i \in 1 .. Depth(t) : stack[t][i] \in Frames /\ stack[t][i].event \in Events
         /\ Depth(t) > 0 => Top(t) \in Frames /\ Top(t).event \in Events
<1>1. stack[t] \in Seq(Frames) /\ Depth(t) \in Nat
  BY DEF TypeOK, Depth
<1>2. \A i \in 1 .. Depth(t) : stack[t][i] \in Frames
  BY <1>1 DEF Depth
<1>3. \A f \in Frames : f.event \in Events
  BY DEF Frames
<1> QED
  BY <1>1, <1>2, <1>3 DEF Top

LEMMA TopChanges ==
  ASSUME TypeOK, NEW t \in Threads, Depth(t) > 0, NEW f \in Frames,
         stack' = [stack EXCEPT ![t] = [stack[t] EXCEPT ![Depth(t)] = f]]
  PROVE  TopBecomes(t, f)
<1> DEFINE s == [stack[t] EXCEPT ![Depth(t)] = f]
<1>1. stack[t] \in Seq(Frames) /\ Depth(t) \in Nat
  BY DepthType
<1>2. s \in Seq(Frames) /\ Len(s) = Depth(t)
  BY <1>1 DEF Depth
<1>3. \A i \in 1 .. Depth(t) : s[i] = IF i = Depth(t) THEN f ELSE stack[t][i]
  BY <1>1 DEF Depth
<1>4. stack'[t] = s /\ \A v \in Threads \ {t} : stack'[v] = stack[v]
  BY DEF TypeOK
<1>5. stack' \in [Threads -> Seq(Frames)]
  BY <1>2 DEF TypeOK
<1> QED
  BY <1>2, <1>3, <1>4, <1>5 DEF TopBecomes

LEMMA Staging ==
  ASSUME TypeOK, NEW t \in Threads, Depth(t) > 0, NEW stage \in Stages,
         stack' = Staged(t, stage)
  PROVE  TopBecomes(t, [Top(t) EXCEPT !.stage = stage])
<1> DEFINE f == [Top(t) EXCEPT !.stage = stage]
<1>1. f \in Frames
  BY DepthType DEF Frames
<1>2. stack' = [stack EXCEPT ![t] = [stack[t] EXCEPT ![Depth(t)] = f]]
  BY DEF Staged, Top
<1> QED
  BY <1>1, <1>2, TopChanges

LEMMA Spins ==
  ASSUME TypeOK, NEW t \in Threads, Depth(t) > 0,
         NEW what \in {"ack", "reply", "shutdowns"}, NEW u \in Threads,
         stack' = Spinning(t, what, u)
  PROVE  TopBecomes(t, [event |-> Top(t).event, stage |-> "checking",
                        awaits |-> what, whom |-> u])
<1> DEFINE f == [event |-> Top(t).event, stage |-> "checking", awaits |-> what, whom |-> u]
<1>1. f \in Frames
  BY DepthType DEF Frames, Stages
<1>2. f = [[[Top(t) EXCEPT !.stage = "checking"] EXCEPT !.awaits = what] EXCEPT !.whom = u]
  <2> DEFINE x == [Top(t) EXCEPT !.stage = "checking"]
             y == [x EXCEPT !.awaits = what]
  <2>1. Top(t) \in Frames
    BY DepthType
  <2>2. x \in Frames /\ x.event = Top(t).event /\ x.stage = "checking"
    BY <2>1 DEF Frames, Stages
  <2> HIDE DEF x
  <2>3. y \in Frames /\ y.event = Top(t).event /\ y.stage = "checking" /\ y.awaits = what
    BY <2>2 DEF Frames
  <2> HIDE DEF y
  <2>4. [y EXCEPT !.whom = u]
          = [event |-> y.event, stage |-> y.stage, awaits |-> y.awaits, whom |-> u]
    BY <2>3 DEF Frames
  <2> QED
    BY <2>3, <2>4 DEF x, y
<1>3. stack' = [stack EXCEPT ![t] = [stack[t] EXCEPT ![Depth(t)] = f]]
  <2> DEFINE d == Depth(t)
             s1 == [stack[t] EXCEPT ![d] = [@ EXCEPT !.stage = "checking"]]
             s2 == [s1 EXCEPT ![d] = [@ EXCEPT !.awaits = what]]
             s3 == [s2 EXCEPT ![d] = [@ EXCEPT !.whom = u]]
  <2>1. d \in DOMAIN stack[t] /\ t \in DOMAIN stack
    BY DepthType DEF Depth, TypeOK
  <2>2. stack' = [[[stack EXCEPT ![t] = s1] EXCEPT ![t] = s2] EXCEPT ![t] = s3]
    BY <2>1 DEF Spinning
  <2>3. s3 = [stack[t] EXCEPT ![d] = f]
    BY <1>2, <2>1 DEF Top
  <2> HIDE DEF s1, s2, s3, d
  <2>4. stack' = [stack EXCEPT ![t] = s3]
    BY <2>1, <2>2
  <2> QED
    BY <2>3, <2>4 DEF d
<1> QED
  BY <1>1, <1>3, TopChanges

LEMMA AckJoins ==
  ASSUME TypeOK, NEW t \in Threads, Depth(t) > 0, NEW u \in Threads,
         stack' = [stack EXCEPT ![t][Depth(t)].stage = "joining", ![t][Depth(t)].whom = u]
  PROVE  TopBecomes(t, [event |-> Top(t).event, stage |-> "joining",
                        awaits |-> Top(t).awaits, whom |-> u])
<1> DEFINE f == [event |-> Top(t).event, stage |-> "joining",
                 awaits |-> Top(t).awaits, whom |-> u]
<1>1. f \in Frames
  BY DepthType DEF Frames, Stages
<1>2. f = [[Top(t) EXCEPT !.stage = "joining"] EXCEPT !.whom = u]
  <2> DEFINE x == [Top(t) EXCEPT !.stage = "joining"]
  <2>1. Top(t) \in Frames
    BY DepthType
  <2>2. x \in Frames /\ x.event = Top(t).event /\ x.stage = "joining" /\ x.awaits = Top(t).awaits
    BY <2>1 DEF Frames, Stages
  <2> HIDE DEF x
  <2>3. [x EXCEPT !.whom = u]
          = [event |-> x.event, stage |-> x.stage, awaits |-> x.awaits, whom |-> u]
    BY <2>2 DEF Frames
  <2> QED
    BY <2>2, <2>3 DEF x
<1>3. stack' = [stack EXCEPT ![t] = [stack[t] EXCEPT ![Depth(t)] = f]]
  <2> DEFINE d == Depth(t)
             s1 == [stack[t] EXCEPT ![d] = [@ EXCEPT !.stage = "joining"]]
             s2 == [s1 EXCEPT ![d] = [@ EXCEPT !.whom = u]]
  <2>1. d \in DOMAIN stack[t] /\ t \in DOMAIN stack
    BY DepthType DEF Depth, TypeOK
  <2>2. stack' = [[stack EXCEPT ![t] = s1] EXCEPT ![t] = s2]
    BY <2>1
  <2>3. s2 = [stack[t] EXCEPT ![d] = f]
    BY <1>2, <2>1 DEF Top
  <2> HIDE DEF s1, s2, d
  <2>4. stack' = [stack EXCEPT ![t] = s2]
    BY <2>1, <2>2
  <2> QED
    BY <2>3, <2>4 DEF d
<1> QED
  BY <1>1, <1>3, TopChanges

\* The innermost event of t ends.
Unwinds(t) ==
  /\ stack' \in [Threads -> Seq(Frames)]
  /\ \A v \in Threads \ {t} : stack'[v] = stack[v]
  /\ Len(stack'[t]) = Depth(t) - 1
  /\ \A i \in 1 .. Depth(t) - 1 :
       stack'[t][i] = IF i = Depth(t) - 1 THEN [stack[t][i] EXCEPT !.stage = "checking"]
                                          ELSE stack[t][i]

LEMMA Unwinding ==
  ASSUME TypeOK, NEW t \in Threads, Depth(t) > 0, stack' = Unwound(t)
  PROVE  Unwinds(t)
<1> DEFINE n == Depth(t) - 1
           F(i) == IF i = n THEN [stack[t][i] EXCEPT !.stage = "checking"] ELSE stack[t][i]
           s == [i \in 1 .. n |-> F(i)]
<1>1. n \in Nat
  BY DepthType
<1>2. \A i \in 1 .. n : stack[t][i] \in Frames
  BY <1>1, DepthType
<1>3. \A x \in Frames : [x EXCEPT !.stage = "checking"] \in Frames
  BY DEF Frames, Stages
<1>4. \A i \in 1 .. n : F(i) \in Frames
  BY <1>2, <1>3
<1>5. stack' = [stack EXCEPT ![t] = s]
  BY DEF Unwound
<1> HIDE DEF F, n
<1>6. s \in Seq(Frames) /\ Len(s) = n /\ \A i \in 1 .. n : s[i] = F(i)
  BY <1>1, <1>4
<1> HIDE DEF s
<1>7. /\ stack' \in [Threads -> Seq(Frames)] /\ stack'[t] = s
      /\ \A v \in Threads \ {t} : stack'[v] = stack[v]
  BY <1>5, <1>6 DEF TypeOK
<1> QED
  BY <1>6, <1>7 DEF Unwinds, F, n

\* t begins to run the event e.
Begins(t, e) ==
  /\ stack' \in [Threads -> Seq(Frames)]
  /\ \A v \in Threads \ {t} : stack'[v] = stack[v]
  /\ Len(stack'[t]) = Depth(t) + 1
  /\ \A i \in 1 .. Depth(t) : stack'[t][i] = stack[t][i]
  /\ stack'[t][Depth(t) + 1] = Begun(e)

LEMMA Beginning ==
  ASSUME TypeOK, NEW t \in Threads, NEW e \in Events,
         stack' = [stack EXCEPT ![t] = Append(@, Begun(e))]
  PROVE  Begins(t, e)
<1>1. Begun(e) \in Frames
  BY ThreadsAssumption DEF Begun, Frames, Stages
<1>2. stack[t] \in Seq(Frames) /\ t \in DOMAIN stack
  BY DepthType DEF TypeOK
<1> DEFINE f == Begun(e)
<1> HIDE DEF f
<1>3. /\ Append(stack[t], f) \in Seq(Frames)
      /\ Len(Append(stack[t], f)) = Depth(t) + 1
      /\ \A i \in 1 .. Depth(t) : Append(stack[t], f)[i] = stack[t][i]
      /\ Append(stack[t], f)[Depth(t) + 1] = f
  BY <1>1, <1>2 DEF f, Depth
<1>4. /\ stack'[t] = Append(stack[t], f)
      /\ \A v \in Threads \ {t} : stack'[v] = stack[v]
      /\ stack' \in [Threads -> Seq(Frames)]
  BY <1>2, <1>3 DEF TypeOK, f
<1> QED
  BY <1>3, <1>4 DEF Begins, f

\* An event is put, or its dispatch is refused.
LEMMA Putting ==
  ASSUME TypeOK, NEW u \in Threads, NEW e \in Events,
         queue' = Put(queue, u, e) \/ UNCHANGED queue
  PROVE  /\ queue' \in [Threads -> Seq(Events)]
         /\ \A v \in Threads : Queued(v)' \subseteq Queued(v) \cup (IF v = u THEN {e} ELSE {})
         /\ \A v \in Threads : queue[v] # <<>> => queue'[v] # <<>>
         /\ \A v \in Threads : Doomed(v) => queue'[v] = queue[v]
         /\ queue' = Put(queue, u, e) /\ ~Doomed(u) => queue'[u] # <<>>
<1>1. CASE Doomed(u)
  BY <1>1 DEF Put, TypeOK, Queued
<1>3. CASE UNCHANGED queue /\ queue' # Put(queue, u, e)
  BY <1>3 DEF TypeOK, Queued
<1>2. CASE ~Doomed(u) /\ queue' = Put(queue, u, e)
  <2> DEFINE q == Append(queue[u], e)
  <2>1. queue[u] \in Seq(Events)
    BY DEF TypeOK
  <2>2. /\ q \in Seq(Events) /\ Len(q) = Len(queue[u]) + 1 /\ q # <<>>
        /\ \A i \in 1 .. Len(q) : q[i] = e \/ (i \in 1 .. Len(queue[u]) /\ q[i] = queue[u][i])
    <3>1. q \in Seq(Events) /\ Len(q) = Len(queue[u]) + 1
      BY <2>1
    <3>2. q[Len(queue[u]) + 1] = e /\ \A i \in 1 .. Len(queue[u]) : q[i] = queue[u][i]
      BY <2>1
    <3>3. Len(queue[u]) \in Nat
      BY <2>1
    <3> HIDE DEF q
    <3> QED
      BY <3>1, <3>2, <3>3
  <2>3. queue' = [queue EXCEPT ![u] = q]
    BY <1>2 DEF Put
  <2> HIDE DEF q
  <2>4. queue' \in [Threads -> Seq(Events)] /\ queue'[u] = q
        /\ \A v \in Threads \ {u} : queue'[v] = queue[v]
    BY <2>2, <2>3 DEF TypeOK
  <2>5. \A x \in Queued(u)' : x = e \/ x \in Queued(u)
    <3>1. \A i \in 1 .. Len(q) : q[i] = e \/ q[i] \in Queued(u)
      BY <2>2 DEF Queued
    <3>2. Queued(u)' = {q[i] : i \in 1 .. Len(q)}
      BY <2>4, Zenon DEF Queued
    <3> QED
      BY <3>1, <3>2
  <2>6. \A v \in Threads \ {u} : Queued(v)' = Queued(v)
    BY <2>4 DEF Queued
  <2> QED
    BY <1>2, <2>2, <2>4, <2>5, <2>6
<1> QED
  BY <1>1, <1>2, <1>3

LEMMA Taking ==
  ASSUME TypeOK, NEW t \in Threads, queue[t] # <<>>, queue' = [queue EXCEPT ![t] = Tail(@)]
  PROVE  /\ Head(queue[t]) \in Events /\ Head(queue[t]) \in Queued(t)
         /\ queue' \in [Threads -> Seq(Events)]
         /\ \A v \in Threads \ {t} : queue'[v] = queue[v]
         /\ \A v \in Threads : Queued(v)' \subseteq Queued(v)
<1>1. queue[t] \in Seq(Events) /\ Len(queue[t]) > 0
  BY DEF TypeOK
<1> DEFINE q == Tail(queue[t])
<1>2. /\ q \in Seq(Events) /\ Len(q) = Len(queue[t]) - 1
      /\ \A i \in 1 .. Len(q) : i + 1 \in 1 .. Len(queue[t]) /\ q[i] = queue[t][i + 1]
  BY <1>1
<1>3. Head(queue[t]) \in Events /\ Head(queue[t]) \in Queued(t)
  BY <1>1 DEF Queued
<1> HIDE DEF q
<1>4. /\ queue' \in [Threads -> Seq(Events)] /\ queue'[t] = q
      /\ \A v \in Threads \ {t} : queue'[v] = queue[v]
  BY <1>2 DEF TypeOK, q
<1>5. \A v \in Threads : Queued(v)' \subseteq Queued(v)
  BY <1>2, <1>4 DEF Queued
<1> QED
  BY <1>3, <1>4, <1>5

-----------------------------------------------------------------------------
(* The steps of Next, for the proofs by cases below. *)

\* The steps that end a frame, or take it to another stage, and do no more.
Moves(t) ==
  \/ CheckPredicate(t) \/ Return(t) \/ JustRun(t) \/ RunReply(t)
  \/ (t = Main /\ ManagerWaitsForAll)

\* The steps that ask u to shut down.
Asks(t, u) ==
  \/ AsyncShutdown(t, u) \/ Shutdown(t, u)
  \/ (t = Main /\ ManagerStopsNext(u))

\* The end of ThreadFunc, up to the ack, and after it.
Ends(t) == LeaveLoop(t) \/ Doom(t) \/ Exit(t)

\* A sync dispatch that is accepted.
Syncs(t, u) ==
  /\ MayCall(t)
  /\ ~Doomed(u)
  /\ calls < MaxCalls
  /\ calls' = calls + 1
  /\ queue' = Put(queue, u, Event("sync", t, Depth(t)))
  /\ pendingSync' = pendingSync \cup {<<t, Depth(t)>>}
  /\ stack' = Spinning(t, "reply", u)
  /\ UNCHANGED <<phase, context, required, requested, awaitingAck, toStop>>

\* What is neither refused nor recorded of refusals.
Kept == <<queue, stack, phase, context, required, requested, awaitingAck, pendingSync,
          toStop, calls>>

LEMMA Steps ==
  ASSUME [Next]_vars
  PROVE  \/ \E t \in Threads :
              \/ DispatchTask(t) \/ ProcessNextEvent(t) \/ Moves(t)
              \/ ClearIsPending(t) \/ DispatchReply(t)
              \/ \E u \in Threads : Asks(t, u) \/ Syncs(t, u)
              \/ RunShutdownEvent(t) \/ RunAckEvent(t) \/ JoinThread(t)
              \/ Ends(t) \/ DispatchAck(t)
         \/ ManagerShutdown
         \/ ManagerReturns
         \/ UNCHANGED Kept
<1>1. Main \in Threads
  BY ThreadsAssumption
<1>2. Terminated \/ SetThreadsShutDown \/ UNCHANGED vars => UNCHANGED Kept
  BY DEF Terminated, SetThreadsShutDown, vars, Kept
<1>3. ASSUME NEW t \in Threads, NEW u \in Threads, DispatchSync(t, u)
      PROVE  Syncs(t, u) \/ JustRun(t)
  BY <1>3 DEF DispatchSync, Syncs, JustRun, MayCall
<1> QED
  BY <1>1, <1>2, <1>3, Zenon DEF Next, ThreadStep, ManagerStep, ClientStep, Moves, Asks, Ends

-----------------------------------------------------------------------------
(* Types *)

RefusalTypes ==
  /\ gXPCOMThreadsShutDown \in BOOLEAN
  /\ refusedAcks \in SUBSET Threads
  /\ refusedReplies \in SUBSET (Threads \X Nat)

Rest ==
  /\ phase \in [Threads -> {"loop", "drain", "doomed", "acked", "dead"}]
  /\ context \in [Threads -> Threads \cup {NoThread}]
  /\ required \in SUBSET (Threads \ {Main})
  /\ requested \in [Threads -> SUBSET Threads]
  /\ awaitingAck \in SUBSET Threads
  /\ pendingSync \in SUBSET (Threads \X Nat)
  /\ toStop \in SUBSET (Threads \ {Main})
  /\ calls \in 0 .. MaxCalls

LEMMA TypeParts ==
  ASSUME queue' \in [Threads -> Seq(Events)], stack' \in [Threads -> Seq(Frames)], Rest',
         RefusalTypes'
  PROVE  TypeOK'
  BY DEF TypeOK, Rest, RefusalTypes

LEMMA EventType ==
  ASSUME NEW type \in EventTypes, NEW of \in Threads, NEW depth \in Nat
  PROVE  Event(type, of, depth) \in Events
  BY DEF Event, Events

\* Who runs is on a stack.
LEMMA RunningTop ==
  ASSUME TypeOK, NEW t \in Threads, NEW types, NEW stages, Running(t, types, stages)
  PROVE  /\ Depth(t) \in Nat /\ Depth(t) > 0 /\ Depth(t) \in 1 .. Depth(t)
         /\ Top(t) = stack[t][Depth(t)] /\ Top(t) \in Frames
         /\ Top(t).event \in Events /\ Top(t).event \in EventsOn(t)
         /\ Top(t).event.of \in Threads /\ Top(t).event.depth \in Nat
         /\ Top(t).whom \in Threads
         /\ Top(t).event.type \in types /\ Top(t).stage \in stages
<1>1. Depth(t) \in Nat /\ Depth(t) > 0 /\ Depth(t) \in 1 .. Depth(t)
  BY DepthType DEF Running
<1>2. Top(t) \in Frames /\ Top(t).event \in Events
  BY <1>1, DepthType
<1>3. Top(t).event \in EventsOn(t)
  BY <1>1 DEF EventsOn, Top
<1>4. Top(t).event.of \in Threads /\ Top(t).event.depth \in Nat /\ Top(t).whom \in Threads
  BY <1>2 DEF Frames, Events
<1> QED
  BY <1>1, <1>2, <1>3, <1>4 DEF Running, Top

\* What a request does to the queues and to the stack of who makes it.
LEMMA Asking ==
  ASSUME TypeOK, NEW t \in Threads, NEW u \in Threads, Asks(t, u)
  PROVE  /\ \E types : Running(t, types, {"begun"})
         /\ UNCHANGED <<phase, context, pendingSync, calls>>
         /\ toStop' = (IF Running(t, {"manager"}, Stages) THEN toStop \ {u} ELSE toStop)
         /\ \/ /\ u \in required
               /\ required' = required \ {u}
               /\ requested' = [requested EXCEPT ![t] = @ \cup {u}]
               /\ awaitingAck' \in {awaitingAck, awaitingAck \cup {u}}
               /\ queue' = Put(queue, u, Event("shutdown", t, 0))
               /\ \/ stack' = Staged(t, "finished") /\ ~Running(t, {"manager"}, Stages)
                  \/ stack' = Spinning(t, "ack", u)
            \/ /\ u \notin required
               /\ UNCHANGED <<queue, required, requested, awaitingAck>>
               /\ \/ stack' = Staged(t, "finished") /\ ~Running(t, {"manager"}, Stages)
                  \/ UNCHANGED stack /\ Running(t, {"manager"}, Stages)
<1>1. CASE AsyncShutdown(t, u) \/ Shutdown(t, u)
  <2>1. ~Running(t, {"manager"}, Stages)
    BY <1>1 DEF AsyncShutdown, Shutdown, MayCall, InClient, Running
  <2> QED
    BY <1>1, <2>1 DEF AsyncShutdown, Shutdown, MayCall, InClient, ShutdownInternal
<1>2. CASE t = Main /\ ManagerStopsNext(u)
  <2>1. Running(t, {"manager"}, {"begun"}) /\ Running(t, {"manager"}, Stages)
    BY <1>2 DEF ManagerStopsNext, Running, Stages
  <2> QED
    BY <1>2, <2>1 DEF ManagerStopsNext, ShutdownInternal
<1> QED
  BY <1>1, <1>2 DEF Asks

-----------------------------------------------------------------------------
(* What the changes of a stack mean for the events on it, and for the threads *)
(* that they wait for.                                                        *)

LEMMA TopEvents ==
  ASSUME TypeOK, NEW t \in Threads, Depth(t) > 0, NEW f \in Frames, TopBecomes(t, f),
         f.event = Top(t).event
  PROVE  /\ \A v \in Threads : EventsOn(v)' = EventsOn(v) /\ Depth(v)' = Depth(v)
         /\ \A v \in Threads \ {t} : Waited(v)' = Waited(v)
         /\ Waited(t)' \subseteq Waited(t) \cup {f.whom}
         /\ (Joins(f) => f.whom \in Waited(t)) => Waited(t)' \subseteq Waited(t)
<1>1. \A v \in Threads \ {t} : /\ EventsOn(v)' = EventsOn(v) /\ Depth(v)' = Depth(v)
                               /\ Waited(v)' = Waited(v)
  BY DEF TopBecomes, EventsOn, Waited, Depth
<1>2. Depth(t)' = Depth(t)
  BY DEF TopBecomes, Depth
<1>3. EventsOn(t)' = EventsOn(t)
  <2>1. \A i \in 1 .. Depth(t) : stack'[t][i].event = stack[t][i].event
    BY DEF TopBecomes, Top
  <2> QED
    BY <1>2, <2>1 DEF EventsOn
<1>4. \A u \in Waited(t)' : u \in Waited(t) \/ (Joins(f) /\ u = f.whom)
  BY <1>2 DEF TopBecomes, Waited, Joins
<1> QED
  BY <1>1, <1>2, <1>3, <1>4

LEMMA UnwoundEvents ==
  ASSUME TypeOK, NEW t \in Threads, Depth(t) > 0, Unwinds(t)
  PROVE  /\ \A v \in Threads \ {t} : /\ EventsOn(v)' = EventsOn(v) /\ Depth(v)' = Depth(v)
                                     /\ Waited(v)' = Waited(v)
         /\ EventsOn(t)' \subseteq EventsOn(t) /\ Depth(t)' = Depth(t) - 1
         /\ Waited(t)' \subseteq Waited(t)
<1>1. \A v \in Threads \ {t} : /\ EventsOn(v)' = EventsOn(v) /\ Depth(v)' = Depth(v)
                               /\ Waited(v)' = Waited(v)
  BY DEF Unwinds, EventsOn, Waited, Depth
<1>2. Depth(t) \in Nat /\ Depth(t)' = Depth(t) - 1
  BY DepthType DEF Unwinds, Depth
<1>3. \A i \in 1 .. Depth(t)' : i \in 1 .. Depth(t) /\ stack[t][i] \in Frames
  BY <1>2, DepthType
<1>4. \A x \in Frames : LET y == [x EXCEPT !.stage = "checking"]
                        IN  y.event = x.event /\ y.whom = x.whom /\ (Joins(y) => Joins(x))
  BY DEF Frames, Joins
<1>5. \A i \in 1 .. Depth(t)' :
        /\ stack'[t][i].event = stack[t][i].event /\ stack'[t][i].whom = stack[t][i].whom
        /\ Joins(stack'[t][i]) => Joins(stack[t][i])
  BY <1>2, <1>3, <1>4 DEF Unwinds
<1>6. EventsOn(t)' \subseteq EventsOn(t)
  BY <1>3, <1>5 DEF EventsOn
<1>7. \A u \in Waited(t)' : u \in Waited(t)
  BY <1>3, <1>5 DEF Waited
<1> QED
  BY <1>1, <1>2, <1>6, <1>7

LEMMA BegunEvents ==
  ASSUME TypeOK, NEW t \in Threads, NEW e \in Events, Begins(t, e)
  PROVE  /\ \A v \in Threads \ {t} : EventsOn(v)' = EventsOn(v) /\ Depth(v)' = Depth(v)
         /\ EventsOn(t)' \subseteq EventsOn(t) \cup {e} /\ Depth(t)' = Depth(t) + 1
         /\ \A v \in Threads : Waited(v)' = Waited(v)
         /\ Top(t)' = Begun(e)
<1>1. \A v \in Threads \ {t} : /\ EventsOn(v)' = EventsOn(v) /\ Depth(v)' = Depth(v)
                               /\ Waited(v)' = Waited(v)
  BY DEF Begins, EventsOn, Waited, Depth
<1>2. Depth(t) \in Nat /\ Depth(t)' = Depth(t) + 1
  BY DepthType DEF Begins, Depth
<1>3. EventsOn(t)' \subseteq EventsOn(t) \cup {e}
  BY <1>2 DEF Begins, EventsOn, Begun
<1>4. Waited(t)' = Waited(t)
  <2>1. ~Joins(Begun(e))
    BY DEF Joins, Begun
  <2>2. \A i \in 1 .. Depth(t) + 1 :
          Joins(stack'[t][i]) <=> i \in 1 .. Depth(t) /\ Joins(stack[t][i])
    BY <1>2, <2>1 DEF Begins
  <2>3. \A i \in 1 .. Depth(t) : i \in 1 .. Depth(t) + 1 /\ stack'[t][i] = stack[t][i]
    BY <1>2 DEF Begins
  <2>4. \A u \in Threads : u \in Waited(t)' <=> u \in Waited(t)
    BY <1>2, <2>2, <2>3 DEF Waited
  <2>5. Waited(t)' \subseteq Threads /\ Waited(t) \subseteq Threads
    BY DEF Waited
  <2> QED
    BY <2>4, <2>5
<1>5. Top(t)' = Begun(e)
  BY <1>2 DEF Begins, Top
<1> QED
  BY <1>1, <1>2, <1>3, <1>4, <1>5

\* A step that only moves one frame on.
Moved(t) ==
  /\ Depth(t) > 0
  /\ UNCHANGED <<queue, phase, context, required, requested, awaitingAck, pendingSync,
                 toStop, calls>>
  /\ \/ Unwinds(t) /\ Top(t).event.type # "manager"
     \/ \E f \in Frames : /\ TopBecomes(t, f) /\ f.event = Top(t).event
                          /\ Joins(f) => Joins(Top(t)) /\ f.whom = Top(t).whom

LEMMA Moving == ASSUME TypeOK, NEW t \in Threads, Moves(t) PROVE Moved(t)
<1> USE DEF Moved
<1>a. ASSUME NEW stage \in Stages, stack' = Staged(t, stage), Depth(t) > 0,
             stage # "joining" \/ Joins(Top(t))
      PROVE  \E f \in Frames : /\ TopBecomes(t, f) /\ f.event = Top(t).event
                               /\ Joins(f) => Joins(Top(t)) /\ f.whom = Top(t).whom
  <2> DEFINE f == [Top(t) EXCEPT !.stage = stage]
  <2>1. Top(t) \in Frames
    BY <1>a, DepthType
  <2>2. f \in Frames /\ f.event = Top(t).event /\ f.whom = Top(t).whom
        /\ f.awaits = Top(t).awaits /\ f.stage = stage
    BY <2>1 DEF Frames
  <2>3. TopBecomes(t, f)
    BY <1>a, Staging
  <2> HIDE DEF f
  <2> QED
    BY <1>a, <2>2, <2>3 DEF Joins
<1>1. CASE CheckPredicate(t)
  <2>1. Depth(t) > 0
    BY <1>1 DEF CheckPredicate, Running
  <2>2. PICK stage \in {"blocked", "joining", "finished"} :
           stack' = Staged(t, stage) /\ (stage = "joining" => Top(t).awaits = "ack")
    BY <1>1 DEF CheckPredicate
  <2> QED
    BY <1>1, <1>a, <2>1, <2>2 DEF CheckPredicate, Stages, Joins
<1>2. CASE Return(t)
  BY <1>2, Unwinding DEF Return, Running
<1>3. CASE JustRun(t) \/ RunReply(t)
  BY <1>3, <1>a DEF JustRun, RunReply, InClient, Running, Stages
<1>4. CASE t = Main /\ ManagerWaitsForAll
  <2>1. Depth(t) > 0 /\ stack' = Spinning(t, "shutdowns", t)
    BY <1>4 DEF ManagerWaitsForAll, Running
  <2> DEFINE f == [event |-> Top(t).event, stage |-> "checking", awaits |-> "shutdowns",
                   whom |-> t]
  <2>2. TopBecomes(t, f) /\ f \in Frames
    BY <2>1, Spins, DepthType DEF Frames, Stages
  <2> QED
    BY <1>4, <2>1, <2>2 DEF ManagerWaitsForAll, Joins
<1> QED
  BY <1>1, <1>2, <1>3, <1>4 DEF Moves

LEMMA MovedEvents ==
  ASSUME TypeOK, NEW t \in Threads, Moved(t)
  PROVE  /\ stack' \in [Threads -> Seq(Frames)]
         /\ \A v \in Threads : /\ Pending(v)' \subseteq Pending(v)
                               /\ Waited(v)' \subseteq Waited(v)
<1>1. \A v \in Threads : Queued(v)' = Queued(v)
  BY DEF Moved, Queued
<1>2. CASE Unwinds(t)
  <2>1. stack' \in [Threads -> Seq(Frames)]
    BY <1>2 DEF Unwinds
  <2>2. \A v \in Threads : EventsOn(v)' \subseteq EventsOn(v) /\ Waited(v)' \subseteq Waited(v)
    BY <1>2, UnwoundEvents DEF Moved
  <2> QED
    BY <1>1, <2>1, <2>2 DEF Pending
<1>3. ASSUME NEW f \in Frames, TopBecomes(t, f), f.event = Top(t).event,
             Joins(f) => Joins(Top(t)) /\ f.whom = Top(t).whom
      PROVE  /\ stack' \in [Threads -> Seq(Frames)]
             /\ \A v \in Threads : /\ Pending(v)' \subseteq Pending(v)
                                   /\ Waited(v)' \subseteq Waited(v)
  <2>1. Joins(Top(t)) /\ Top(t).whom \in Threads => Top(t).whom \in Waited(t)
    BY DepthType DEF Moved, Waited, Top
  <2>2. f.whom \in Threads
    BY DEF Frames
  <2>3. \A v \in Threads : EventsOn(v)' = EventsOn(v) /\ Waited(v)' \subseteq Waited(v)
    BY <1>3, <2>1, <2>2, TopEvents DEF Moved
  <2> QED
    BY <1>1, <1>3, <2>3 DEF Pending, TopBecomes
<1> QED
  BY <1>2, <1>3 DEF Moved

\* Only dispatches are refused, and no refusal is taken back.
LEMMA RefusalStep ==
  ASSUME TypeOK, [Next]_vars PROVE RefusalTypes' /\ refusedReplies \subseteq refusedReplies'
<1>0. RefusalTypes
  BY DEF TypeOK, RefusalTypes
<1>1. CASE UNCHANGED refusals
  BY <1>0, <1>1 DEF refusals, RefusalTypes
<1>2. ASSUME NEW t \in Threads, DispatchReply(t)
      PROVE  RefusalTypes' /\ refusedReplies \subseteq refusedReplies'
  <2>1. Top(t).event.of \in Threads /\ Top(t).event.depth \in Nat
    BY <1>2, RunningTop DEF DispatchReply
  <2> QED
    BY <1>0, <1>2, <2>1 DEF DispatchReply, RefusalTypes
<1>3. ASSUME NEW t \in Threads, DispatchAck(t)
      PROVE  RefusalTypes' /\ refusedReplies \subseteq refusedReplies'
  BY <1>0, <1>3 DEF DispatchAck, RefusalTypes
<1>4. SetThreadsShutDown => RefusalTypes' /\ refusedReplies \subseteq refusedReplies'
  BY <1>0 DEF SetThreadsShutDown, RefusalTypes
<1>5. ASSUME NEW t \in Threads, ThreadStep(t), ~DispatchReply(t), ~DispatchAck(t)
      PROVE  UNCHANGED refusals
  BY <1>5 DEF ThreadStep, ClientStep, ProcessNextEvent, CheckPredicate, Return,
     ClearIsPending, JustRun, AsyncShutdown, Shutdown, DispatchSync, RunShutdownEvent,
     RunAckEvent, RunReply, JoinThread, LeaveLoop, Doom, Exit
<1>6. ASSUME NEW t \in Threads, DispatchTask(t) PROVE UNCHANGED refusals
  BY <1>6 DEF DispatchTask
<1>7. ManagerStep \/ ManagerShutdown \/ Terminated \/ UNCHANGED vars => UNCHANGED refusals
  BY DEF ManagerStep, ManagerStopsNext, ManagerWaitsForAll, ManagerReturns, ManagerShutdown,
     Terminated, vars
<1> QED
  BY <1>1, <1>2, <1>3, <1>4, <1>5, <1>6, <1>7 DEF Next

LEMMA OtherTypes == ASSUME TypeOK, Told, [Next]_vars, RefusalTypes' PROVE TypeOK'
<1>0. Main \in Threads /\ MaxCalls \in Nat /\ Rest
      /\ queue \in [Threads -> Seq(Events)] /\ stack \in [Threads -> Seq(Frames)]
  BY ThreadsAssumption DEF TypeOK, Rest
<1>1. ASSUME NEW t \in Threads, DispatchTask(t) PROVE TypeOK'
  <2>1. Task \in Events
    BY <1>0, EventType DEF Task, EventTypes
  <2>2. queue' \in [Threads -> Seq(Events)]
    BY <1>1, <2>1, Putting DEF DispatchTask
  <2> QED
    BY <1>0, <1>1, <2>2, TypeParts DEF DispatchTask, Rest
<1>2. ASSUME NEW t \in Threads, ProcessNextEvent(t) PROVE TypeOK'
  <2>1. queue' \in [Threads -> Seq(Events)] /\ Head(queue[t]) \in Events
    BY <1>2, Taking DEF ProcessNextEvent
  <2>2. stack' \in [Threads -> Seq(Frames)]
    BY <1>2, <2>1, Beginning DEF ProcessNextEvent, Begins
  <2> QED
    BY <1>0, <1>2, <2>1, <2>2, TypeParts DEF ProcessNextEvent, Rest
<1>3. ASSUME NEW t \in Threads, Moves(t) PROVE TypeOK'
  <2>1. Moved(t) /\ stack' \in [Threads -> Seq(Frames)]
    BY <1>3, Moving, MovedEvents
  <2> QED
    BY <1>0, <2>1, TypeParts DEF Moved, Rest
<1>4. ASSUME NEW t \in Threads, ClearIsPending(t) PROVE TypeOK'
  <2>1. stack' \in [Threads -> Seq(Frames)]
    BY <1>4, Staging DEF ClearIsPending, Running, TopBecomes, Stages
  <2> QED
    BY <1>0, <1>4, <2>1, TypeParts DEF ClearIsPending, Rest
<1>5. ASSUME NEW t \in Threads, DispatchReply(t) PROVE TypeOK'
  <2>1. stack' \in [Threads -> Seq(Frames)]
    BY <1>5, Unwinding DEF DispatchReply, Running, Unwinds
  <2>2. Top(t).event.of \in Threads /\ Event("reply", t, 0) \in Events
    BY <1>5, RunningTop, EventType DEF DispatchReply, EventTypes
  <2>3. queue' \in [Threads -> Seq(Events)]
    BY <1>5, <2>2, Putting DEF DispatchReply
  <2> QED
    BY <1>0, <1>5, <2>1, <2>3, TypeParts DEF DispatchReply, Rest
<1>6. ASSUME NEW t \in Threads, NEW u \in Threads, Asks(t, u) PROVE TypeOK'
  <2>1. Depth(t) > 0
    BY <1>6, Asking DEF Running
  <2>2. Event("shutdown", t, 0) \in Events
    BY EventType DEF EventTypes
  <2>3. queue' \in [Threads -> Seq(Events)]
    BY <1>0, <1>6, <2>2, Asking, Putting
  <2>4. stack' \in [Threads -> Seq(Frames)]
    <3>1. \/ stack' = Staged(t, "finished")
          \/ stack' = Spinning(t, "ack", u)
          \/ UNCHANGED stack
      BY <1>6, Asking
    <3>2. stack' = Staged(t, "finished") => stack' \in [Threads -> Seq(Frames)]
      BY <2>1, Staging DEF Stages, TopBecomes
    <3>3. stack' = Spinning(t, "ack", u) => stack' \in [Threads -> Seq(Frames)]
      BY <2>1, Spins DEF TopBecomes
    <3> QED
      BY <1>0, <3>1, <3>2, <3>3
  <2>5. Rest'
    <3>1. /\ required' \in {required, required \ {u}}
          /\ \/ requested' = requested
             \/ requested' = [requested EXCEPT ![t] = requested[t] \cup {u}]
          /\ awaitingAck' \in {awaitingAck, awaitingAck \cup {u}}
          /\ UNCHANGED <<phase, context, pendingSync, calls>>
      BY <1>6, Asking
    <3>2. toStop' = toStop \/ toStop' = toStop \ {u}
      BY <1>6, Asking
    <3>3. requested' \in [Threads -> SUBSET Threads]
      <4>1. requested \in [Threads -> SUBSET Threads] /\ requested[t] \cup {u} \in SUBSET Threads
        BY DEF TypeOK
      <4> QED
        BY <3>1, <4>1
    <3>4. required' \in SUBSET (Threads \ {Main}) /\ awaitingAck' \in SUBSET Threads
      BY <3>1 DEF TypeOK
    <3>5. toStop' \in SUBSET (Threads \ {Main})
      BY <3>2 DEF TypeOK
    <3> QED
      BY <1>0, <3>1, <3>3, <3>4, <3>5 DEF Rest
  <2> QED
    BY <2>3, <2>4, <2>5, TypeParts
<1>7. ASSUME NEW t \in Threads, NEW u \in Threads, Syncs(t, u) PROVE TypeOK'
  <2>1. Depth(t) \in Nat /\ Depth(t) > 0
    BY <1>7, DepthType DEF Syncs, MayCall, InClient, Running
  <2>2. Event("sync", t, Depth(t)) \in Events
    BY <2>1, EventType DEF EventTypes
  <2>3. queue' \in [Threads -> Seq(Events)]
    BY <1>7, <2>2, Putting DEF Syncs
  <2>4. stack' \in [Threads -> Seq(Frames)]
    BY <1>7, <2>1, Spins DEF Syncs, TopBecomes
  <2>5. Rest'
    BY <1>0, <1>7, <2>1 DEF Syncs, Rest
  <2> QED
    BY <2>3, <2>4, <2>5, TypeParts
<1>8. ASSUME NEW t \in Threads, RunShutdownEvent(t) PROVE TypeOK'
  <2>1. Depth(t) > 0 /\ Top(t).event.of \in Threads
    BY <1>8, RunningTop DEF RunShutdownEvent
  <2>2. stack' \in [Threads -> Seq(Frames)]
    BY <1>8, <2>1, Staging DEF RunShutdownEvent, TopBecomes, Stages
  <2> QED
    BY <1>0, <1>8, <2>1, <2>2, TypeParts DEF RunShutdownEvent, Rest
<1>9. ASSUME NEW t \in Threads, RunAckEvent(t) PROVE TypeOK'
  <2>1. Depth(t) > 0 /\ Top(t).event.of \in Threads
    BY <1>9, RunningTop DEF RunAckEvent
  <2>2. stack' \in [Threads -> Seq(Frames)]
    BY <1>9, <2>1, Staging, AckJoins DEF RunAckEvent, TopBecomes, Stages
  <2>3. awaitingAck' \in SUBSET Threads
    BY <1>0, <1>9 DEF RunAckEvent, Rest
  <2> QED
    BY <1>0, <1>9, <2>2, <2>3, TypeParts DEF RunAckEvent, Rest
<1>10. ASSUME NEW t \in Threads, JoinThread(t) PROVE TypeOK'
  <2>1. stack' \in [Threads -> Seq(Frames)]
    BY <1>10, Staging DEF JoinThread, Running, TopBecomes, Stages
  <2> QED
    BY <1>0, <1>10, <2>1, TypeParts DEF JoinThread, Rest
<1>11. ASSUME NEW t \in Threads, Ends(t) PROVE TypeOK'
  <2>1. UNCHANGED <<queue, stack>> /\ Rest'
    BY <1>0, <1>11 DEF Ends, LeaveLoop, Doom, Exit, Rest
  <2> QED
    BY <1>0, <2>1, TypeParts
<1>12. ASSUME NEW t \in Threads, DispatchAck(t) PROVE TypeOK'
  <2>1. context[t] \in Threads /\ Event("ack", t, 0) \in Events
    BY <1>12, EventType DEF DispatchAck, Told, EventTypes
  <2>2. queue' \in [Threads -> Seq(Events)]
    BY <1>12, <2>1, Putting DEF DispatchAck
  <2> QED
    BY <1>0, <1>12, <2>2, TypeParts DEF DispatchAck, Rest
<1>13. CASE ManagerShutdown
  <2>1. Begun(Event("manager", Main, 0)) \in Frames
    BY <1>0, EventType DEF EventTypes, Begun, Frames, Stages
  <2>2. <<Begun(Event("manager", Main, 0))>> \in Seq(Frames)
    BY <2>1
  <2>3. stack' \in [Threads -> Seq(Frames)]
    BY <1>0, <1>13, <2>2 DEF ManagerShutdown
  <2> QED
    BY <1>0, <1>13, <2>3, TypeParts DEF ManagerShutdown, Rest
<1>14. CASE ManagerReturns
  <2>1. stack' \in [Threads -> Seq(Frames)]
    BY <1>0, <1>14 DEF ManagerReturns
  <2> QED
    BY <1>0, <1>14, <2>1, TypeParts DEF ManagerReturns, Rest
<1>15. CASE UNCHANGED Kept
  BY <1>0, <1>15, TypeParts DEF Kept, Rest
<1> QED
  BY <1>1, <1>2, <1>3, <1>4, <1>5, <1>6, <1>7, <1>8, <1>9, <1>10, <1>11, <1>12, <1>13,
     <1>14, <1>15, Steps, Zenon

LEMMA TypeStep == ASSUME TypeOK, Told, [Next]_vars PROVE TypeOK'
  BY RefusalStep, OtherTypes

-----------------------------------------------------------------------------
(* The end of a thread *)

\* A thread that is past its loop, and in no event, begins none.
LEMMA IdleRest ==
  ASSUME TypeOK, [Next]_vars, NEW v \in Threads, Depth(v) = 0, phase[v] \notin {"loop", "drain"}
  PROVE  stack'[v] = stack[v]
<1>1. ASSUME NEW t \in Threads, ProcessNextEvent(t) PROVE stack'[v] = stack[v]
  <2>1. t # v
    BY <1>1 DEF ProcessNextEvent, Running
  <2> QED
    BY <1>1, <2>1 DEF ProcessNextEvent, TypeOK
<1>2. ASSUME NEW t \in Threads, Moves(t) PROVE stack'[v] = stack[v]
  BY <1>2, Moving DEF Moved, Unwinds, TopBecomes
<1>3. ASSUME NEW t \in Threads, Depth(t) > 0,
             \/ ClearIsPending(t) \/ RunShutdownEvent(t) \/ RunAckEvent(t) \/ JoinThread(t)
             \/ DispatchReply(t)
      PROVE  stack'[v] = stack[v]
  <2>1. t # v
    BY <1>3
  <2> QED
    BY <1>3, <2>1 DEF ClearIsPending, RunShutdownEvent, RunAckEvent, JoinThread, DispatchReply,
                      Staged, Unwound, TypeOK
<1>4. ASSUME NEW t \in Threads, NEW u \in Threads, Asks(t, u) PROVE stack'[v] = stack[v]
  <2>1. t # v
    BY <1>4, Asking DEF Running
  <2>2. \/ stack' = Staged(t, "finished")
        \/ stack' = Spinning(t, "ack", u)
        \/ UNCHANGED stack
    BY <1>4, Asking
  <2> QED
    BY <2>1, <2>2 DEF Staged, Spinning, TypeOK
<1>5. ASSUME NEW t \in Threads, NEW u \in Threads, Syncs(t, u)
      PROVE  stack'[v] = stack[v]
  <2>1. t # v
    BY <1>5 DEF Syncs, MayCall, InClient, Running
  <2> QED
    BY <1>5, <2>1 DEF Syncs, Spinning, TypeOK
<1>6. ASSUME NEW t \in Threads, DispatchTask(t) \/ Ends(t) \/ DispatchAck(t)
      PROVE  stack'[v] = stack[v]
  BY <1>6 DEF DispatchTask, Ends, LeaveLoop, Doom, Exit, DispatchAck
<1>7. CASE ManagerShutdown
  BY <1>7 DEF ManagerShutdown, TypeOK
<1>8. CASE ManagerReturns
  BY <1>8 DEF ManagerReturns, Running, TypeOK
<1>9. CASE UNCHANGED Kept
  BY <1>9 DEF Kept
<1>10. \A t \in Threads : ClearIsPending(t) \/ RunShutdownEvent(t) \/ RunAckEvent(t)
                           \/ JoinThread(t) \/ DispatchReply(t) => Depth(t) > 0
  BY DEF ClearIsPending, RunShutdownEvent, RunAckEvent, JoinThread, DispatchReply, Running
<1> QED
  BY <1>1, <1>2, <1>3, <1>4, <1>5, <1>6, <1>7, <1>8, <1>9, <1>10, Steps, Zenon

\* A doomed thread takes no more events, and runs none.
LEMMA DoomedRest ==
  ASSUME TypeOK, NothingStranded, Told, [Next]_vars, NEW v \in Threads, Doomed(v)
  PROVE  queue'[v] = queue[v] /\ stack'[v] = stack[v]
<1>0. queue[v] = <<>> /\ Depth(v) = 0
  BY DEF NothingStranded
<1>a. stack'[v] = stack[v]
  BY <1>0, IdleRest DEF Doomed
<1>1. ASSUME NEW t \in Threads, DispatchTask(t) PROVE queue'[v] = queue[v]
  <2>1. Task \in Events
    BY ThreadsAssumption, EventType DEF Task, EventTypes
  <2> QED
    BY <1>1, <2>1, Putting DEF DispatchTask
<1>2. ASSUME NEW t \in Threads, ProcessNextEvent(t) PROVE queue'[v] = queue[v]
  BY <1>0, <1>2 DEF ProcessNextEvent, TypeOK
<1>3. ASSUME NEW t \in Threads, Moves(t) PROVE queue'[v] = queue[v]
  BY <1>3, Moving DEF Moved
<1>4. ASSUME NEW t \in Threads,
             \/ ClearIsPending(t) \/ RunShutdownEvent(t) \/ RunAckEvent(t) \/ JoinThread(t)
             \/ Ends(t)
      PROVE  queue'[v] = queue[v]
  BY <1>4 DEF ClearIsPending, RunShutdownEvent, RunAckEvent, JoinThread, Ends, LeaveLoop, Doom,
              Exit
<1>5. ASSUME NEW t \in Threads, DispatchReply(t) PROVE queue'[v] = queue[v]
  <2>1. Top(t).event.of \in Threads /\ Event("reply", t, 0) \in Events
    BY <1>5, RunningTop, EventType DEF DispatchReply, EventTypes
  <2> QED
    BY <1>5, <2>1, Putting DEF DispatchReply
<1>6. ASSUME NEW t \in Threads, NEW u \in Threads, Asks(t, u) PROVE queue'[v] = queue[v]
  <2>1. Event("shutdown", t, 0) \in Events
    BY EventType DEF EventTypes
  <2>2. queue' = queue \/ queue' = Put(queue, u, Event("shutdown", t, 0))
    BY <1>6, Asking
  <2> QED
    BY <2>1, <2>2, Putting
<1>7. ASSUME NEW t \in Threads, NEW u \in Threads, Syncs(t, u) PROVE queue'[v] = queue[v]
  <2>1. Depth(t) \in Nat
    BY DepthType
  <2>2. Event("sync", t, Depth(t)) \in Events
    BY <2>1, EventType DEF EventTypes
  <2> QED
    BY <1>7, <2>2, Putting DEF Syncs
<1>8. ASSUME NEW t \in Threads, DispatchAck(t) PROVE queue'[v] = queue[v]
  <2>1. context[t] \in Threads /\ Event("ack", t, 0) \in Events
    BY <1>8, EventType DEF DispatchAck, Told, EventTypes
  <2> QED
    BY <1>8, <2>1, Putting DEF DispatchAck
<1>9. ManagerShutdown \/ ManagerReturns \/ UNCHANGED Kept => queue'[v] = queue[v]
  BY DEF ManagerShutdown, ManagerReturns, Kept
<1> QED
  BY <1>a, <1>1, <1>2, <1>3, <1>4, <1>5, <1>6, <1>7, <1>8, <1>9, Steps, Zenon

\* What the steps do to the phases, and to mShutdownContext.
LEMMA PhaseSteps ==
  ASSUME TypeOK, [Next]_vars
  PROVE  \/ UNCHANGED <<phase, context>>
         \/ \E t \in Threads : RunShutdownEvent(t)
         \/ \E t \in Threads : LeaveLoop(t) \/ Doom(t) \/ DispatchAck(t) \/ Exit(t)
         \/ ManagerReturns
<1>1. ASSUME NEW t \in Threads,
             \/ DispatchTask(t) \/ ProcessNextEvent(t) \/ ClearIsPending(t)
             \/ DispatchReply(t) \/ RunAckEvent(t) \/ JoinThread(t)
      PROVE  UNCHANGED <<phase, context>>
  BY <1>1 DEF DispatchTask, ProcessNextEvent, ClearIsPending, DispatchReply, RunAckEvent,
              JoinThread
<1>2. ASSUME NEW t \in Threads, Moves(t) PROVE UNCHANGED <<phase, context>>
  BY <1>2, Moving DEF Moved
<1>3. ASSUME NEW t \in Threads, NEW u \in Threads, Asks(t, u) \/ Syncs(t, u)
      PROVE  UNCHANGED <<phase, context>>
  BY <1>3, Asking DEF Syncs
<1>4. ManagerShutdown \/ UNCHANGED Kept => UNCHANGED <<phase, context>>
  BY DEF ManagerShutdown, Kept
<1> QED
  BY <1>1, <1>2, <1>3, <1>4, Steps, Zenon DEF Ends

LEMMA ToldStep == ASSUME TypeOK, Told, [Next]_vars PROVE Told'
<1>1. CASE UNCHANGED <<phase, context>>
  BY <1>1 DEF Told
<1>2. ASSUME NEW t \in Threads, RunShutdownEvent(t) PROVE Told'
  <2>1. Top(t).event.of \in Threads
    BY <1>2, RunningTop DEF RunShutdownEvent
  <2> QED
    BY <1>2, <2>1 DEF RunShutdownEvent, Told, TypeOK
<1>3. ASSUME NEW t \in Threads, LeaveLoop(t) \/ Doom(t) \/ DispatchAck(t) \/ Exit(t) PROVE Told'
  BY <1>3 DEF LeaveLoop, Doom, DispatchAck, Exit, Told, TypeOK
<1>4. CASE ManagerReturns
  BY <1>4 DEF ManagerReturns, Told, TypeOK
<1> QED
  BY <1>1, <1>2, <1>3, <1>4, PhaseSteps

LEMMA StrandedStep ==
  ASSUME TypeOK, NothingStranded, Told, [Next]_vars PROVE NothingStranded'
<1> SUFFICES ASSUME NEW v \in Threads, Doomed(v)' PROVE queue'[v] = <<>> /\ Depth(v)' = 0
  BY DEF NothingStranded
<1>1. CASE Doomed(v)
  BY <1>1, DoomedRest DEF NothingStranded, Depth
<1>2. CASE ~Doomed(v)
  <2>1. Doom(v)
    BY <1>2, PhaseSteps
    DEF Doomed, RunShutdownEvent, LeaveLoop, Doom, DispatchAck, Exit, ManagerReturns, TypeOK
  <2> QED
    BY <2>1 DEF Doom, Depth
<1> QED
  BY <1>1, <1>2

-----------------------------------------------------------------------------
(* One thread joins another *)

\* Steps that add no claim.
LEMMA NoNewClaim ==
  ASSUME Claims, required' \subseteq required,
         \A u, t \in Threads : ClaimedBy(u, t)' => ClaimedBy(u, t)
  PROVE  Claims'
<1> HIDE DEF ClaimedBy
<1> QED
  BY DEF Claims

LEMMA KeptClaims ==
  ASSUME Claims, required' \subseteq required, context' = context,
         \A v \in Threads : requested'[v] \subseteq requested[v],
         \A v \in Threads : Waited(v)' \subseteq Waited(v),
         \A v \in Threads : \A e \in Pending(v)' :
           e \in Pending(v) \/ e.type \notin {"shutdown", "ack"}
  PROVE  Claims'
<1>1. ASSUME NEW u \in Threads, NEW t \in Threads, ClaimedBy(u, t)' PROVE ClaimedBy(u, t)
  BY <1>1 DEF ClaimedBy
<1> QED
  BY <1>1, NoNewClaim

\* A frame that goes to another stage, save that of joining.
LEMMA StagedEvents ==
  ASSUME TypeOK, NEW t \in Threads, Depth(t) > 0, NEW stage \in Stages \ {"joining"},
         stack' = Staged(t, stage)
  PROVE  /\ \A v \in Threads : EventsOn(v)' = EventsOn(v) /\ Waited(v)' \subseteq Waited(v)
         /\ TopBecomes(t, [Top(t) EXCEPT !.stage = stage])
<1> DEFINE f == [Top(t) EXCEPT !.stage = stage]
<1>1. Top(t) \in Frames /\ Depth(t) \in 1 .. Depth(t)
  BY DepthType
<1>2. f \in Frames /\ f.event = Top(t).event /\ f.whom = Top(t).whom
      /\ f.awaits = Top(t).awaits /\ f.stage = stage
  BY <1>1 DEF Frames
<1>3. TopBecomes(t, f)
  BY Staging
<1>4. Joins(f) => f.whom \in Waited(t)
  BY <1>1, <1>2 DEF Joins, Waited, Top, Frames
<1> HIDE DEF f
<1>5. \A v \in Threads : EventsOn(v)' = EventsOn(v) /\ Waited(v)' \subseteq Waited(v)
  BY <1>2, <1>3, <1>4, TopEvents
<1> QED
  BY <1>3, <1>5 DEF f

\* A frame that begins to spin.
LEMMA SpinEvents ==
  ASSUME TypeOK, NEW t \in Threads, Depth(t) > 0,
         NEW what \in {"ack", "reply", "shutdowns"}, NEW u \in Threads,
         stack' = Spinning(t, what, u)
  PROVE  /\ \A v \in Threads : EventsOn(v)' = EventsOn(v)
         /\ \A v \in Threads \ {t} : Waited(v)' = Waited(v)
         /\ Waited(t)' \subseteq Waited(t) \cup {u}
         /\ what # "ack" => Waited(t)' \subseteq Waited(t)
<1> DEFINE f == [event |-> Top(t).event, stage |-> "checking", awaits |-> what, whom |-> u]
<1>1. f \in Frames
  BY DepthType DEF Frames, Stages
<1>2. TopBecomes(t, f)
  BY Spins
<1>3. f.event = Top(t).event /\ f.whom = u /\ (what # "ack" => ~Joins(f))
  BY DEF Joins
<1> HIDE DEF f
<1> QED
  BY <1>1, <1>2, <1>3, TopEvents

LEMMA SameStack ==
  ASSUME UNCHANGED stack
  PROVE  \A v \in Threads : EventsOn(v)' = EventsOn(v) /\ Waited(v)' = Waited(v)
  BY DEF EventsOn, Waited, Depth

LEMMA SameQueue == UNCHANGED queue => \A v \in Threads : Queued(v)' = Queued(v)
  BY DEF Queued

LEMMA ClaimsStep == ASSUME TypeOK, Told, Claims, [Next]_vars PROVE Claims'
<1>1. ASSUME NEW t \in Threads, DispatchTask(t) PROVE Claims'
  <2>1. Task \in Events /\ Task.type = "task"
    BY ThreadsAssumption, EventType DEF Task, EventTypes, Event
  <2>2. \A v \in Threads : \A e \in Queued(v)' : e \in Queued(v) \/ e = Task
    BY <1>1, <2>1, Putting DEF DispatchTask
  <2> QED
    BY <1>1, <2>1, <2>2, SameStack, KeptClaims DEF DispatchTask, Pending
<1>2. ASSUME NEW t \in Threads, ProcessNextEvent(t) PROVE Claims'
  <2> DEFINE e == Head(queue[t])
  <2>1. e \in Events /\ e \in Queued(t) /\ \A v \in Threads : Queued(v)' \subseteq Queued(v)
    BY <1>2, Taking DEF ProcessNextEvent
  <2>2. Begins(t, e)
    BY <1>2, <2>1, Beginning DEF ProcessNextEvent
  <2> HIDE DEF e
  <2>3. \A v \in Threads : Pending(v)' \subseteq Pending(v) /\ Waited(v)' = Waited(v)
    BY <2>1, <2>2, BegunEvents DEF Pending
  <2> QED
    BY <1>2, <2>3, KeptClaims DEF ProcessNextEvent
<1>3. ASSUME NEW t \in Threads, Moves(t) PROVE Claims'
  BY <1>3, Moving, MovedEvents, KeptClaims DEF Moved
<1>4. ASSUME NEW t \in Threads, ClearIsPending(t) PROVE Claims'
  <2>1. Depth(t) > 0 /\ stack' = Staged(t, "answered")
    BY <1>4 DEF ClearIsPending, Running
  <2>2. \A v \in Threads : EventsOn(v)' = EventsOn(v) /\ Waited(v)' \subseteq Waited(v)
    BY <2>1, StagedEvents DEF Stages
  <2> QED
    BY <1>4, <2>2, SameQueue, KeptClaims DEF ClearIsPending, Pending
<1>5. ASSUME NEW t \in Threads, DispatchReply(t) PROVE Claims'
  <2> DEFINE e == Event("reply", t, 0)
  <2>1. Depth(t) > 0 /\ Top(t).event.of \in Threads /\ e \in Events /\ e.type = "reply"
    BY <1>5, RunningTop, EventType DEF DispatchReply, EventTypes, Event
  <2> HIDE DEF e
  <2>2. \A v \in Threads : \A x \in Queued(v)' : x \in Queued(v) \/ x = e
    BY <1>5, <2>1, Putting DEF DispatchReply, e
  <2>3. \A v \in Threads : EventsOn(v)' \subseteq EventsOn(v) /\ Waited(v)' \subseteq Waited(v)
    BY <1>5, <2>1, Unwinding, UnwoundEvents DEF DispatchReply
  <2> QED
    BY <1>5, <2>1, <2>2, <2>3, KeptClaims DEF DispatchReply, Pending
<1>6. ASSUME NEW t \in Threads, NEW u \in Threads, Asks(t, u) PROVE Claims'
  <2> DEFINE e == Event("shutdown", t, 0)
  <2>1. Depth(t) > 0 /\ UNCHANGED context
    BY <1>6, Asking DEF Running
  <2>2. e \in Events /\ e.type = "shutdown" /\ e.of = t
    BY EventType DEF EventTypes, Event
  <2>3. /\ \A v \in Threads : EventsOn(v)' = EventsOn(v)
        /\ \A v \in Threads \ {t} : Waited(v)' \subseteq Waited(v)
        /\ Waited(t)' \subseteq Waited(t) \cup {u}
        /\ u \notin required => Waited(t)' \subseteq Waited(t)
    <3>1. CASE stack' = Staged(t, "finished")
      BY <2>1, <3>1, StagedEvents DEF Stages
    <3>2. CASE stack' = Spinning(t, "ack", u) /\ u \in required
      BY <2>1, <3>2, SpinEvents
    <3>3. CASE UNCHANGED stack
      BY <3>3, SameStack
    <3> QED
      BY <1>6, <3>1, <3>2, <3>3, Asking
  <2>4. CASE u \notin required
    <3>1. UNCHANGED <<queue, required, requested>>
      BY <1>6, <2>4, Asking
    <3> QED
      BY <2>1, <2>3, <2>4, <3>1, SameQueue, KeptClaims DEF Pending
  <2>5. CASE u \in required
    <3>1. required' = required \ {u} /\ queue' = Put(queue, u, e)
          /\ requested' = [requested EXCEPT ![t] = @ \cup {u}]
      BY <1>6, <2>5, Asking
    <3> HIDE DEF e
    <3>2. \A v \in Threads : \A x \in Pending(v)' : x \in Pending(v) \/ (v = u /\ x = e)
      BY <2>2, <2>3, <3>1, Putting DEF Pending
    <3>3. \A w, v \in Threads : w \in requested'[v] => w \in requested[v] \/ (w = u /\ v = t)
      BY <3>1 DEF TypeOK
    <3>4. \A w, v \in Threads : w \in Waited(v)' => w \in Waited(v) \/ (w = u /\ v = t)
      BY <2>3
    <3>5. ASSUME NEW w \in Threads, NEW v \in Threads, ClaimedBy(w, v)'
          PROVE  ClaimedBy(w, v) \/ (w = u /\ v = t)
      BY <2>1, <2>2, <3>2, <3>3, <3>4, <3>5 DEF ClaimedBy
    <3>6. u # Main /\ \A v \in Threads : ~ClaimedBy(u, v)
      BY <2>5 DEF Claims, TypeOK
    <3> QED
      BY <3>1, <3>5, <3>6 DEF Claims
  <2> QED
    BY <2>4, <2>5
<1>7. ASSUME NEW t \in Threads, NEW u \in Threads, Syncs(t, u) PROVE Claims'
  <2> DEFINE e == Event("sync", t, Depth(t))
  <2>1. Depth(t) \in Nat /\ Depth(t) > 0
    BY <1>7, DepthType DEF Syncs, MayCall, InClient, Running
  <2>2. e \in Events /\ e.type = "sync"
    BY <2>1, EventType DEF EventTypes, Event
  <2> HIDE DEF e
  <2>3. \A v \in Threads : \A x \in Queued(v)' : x \in Queued(v) \/ x = e
    BY <1>7, <2>2, Putting DEF Syncs, e
  <2>4. \A v \in Threads : EventsOn(v)' = EventsOn(v) /\ Waited(v)' \subseteq Waited(v)
    BY <1>7, <2>1, SpinEvents DEF Syncs
  <2> QED
    BY <1>7, <2>2, <2>3, <2>4, KeptClaims DEF Syncs, Pending
<1>8. ASSUME NEW t \in Threads, RunShutdownEvent(t) PROVE Claims'
  <2>1. /\ Depth(t) > 0 /\ stack' = Staged(t, "finished")
        /\ Top(t).event \in Pending(t) /\ Top(t).event.type = "shutdown"
    BY <1>8, RunningTop DEF RunShutdownEvent, Pending
  <2>2. \A v \in Threads : EventsOn(v)' = EventsOn(v) /\ Waited(v)' \subseteq Waited(v)
    BY <2>1, StagedEvents DEF Stages
  <2>3. /\ \A v \in Threads : Pending(v)' = Pending(v)
        /\ UNCHANGED <<required, requested>>
        /\ context' = [context EXCEPT ![t] = Top(t).event.of]
    BY <1>8, <2>2, SameQueue DEF RunShutdownEvent, Pending
  <2>4. ASSUME NEW u \in Threads, NEW v \in Threads, ClaimedBy(u, v)' PROVE ClaimedBy(u, v)
    <3>1. context'[u] = v => context[u] = v \/ (u = t /\ v = Top(t).event.of)
      BY <2>3 DEF TypeOK
    <3> QED
      BY <2>1, <2>2, <2>3, <2>4, <3>1 DEF ClaimedBy
  <2> QED
    BY <2>3, <2>4, NoNewClaim
<1>9. ASSUME NEW t \in Threads, RunAckEvent(t) PROVE Claims'
  <2> DEFINE u == Top(t).event.of
  <2>1. /\ Depth(t) > 0 /\ u \in Threads /\ Top(t).event \in Pending(t)
        /\ Top(t).event.type = "ack" /\ Top(t) \in Frames
    BY <1>9, RunningTop DEF RunAckEvent, Pending
  <2>2. ClaimedBy(u, t)
    BY <2>1 DEF ClaimedBy
  <2>3. /\ \A v \in Threads : EventsOn(v)' = EventsOn(v)
        /\ \A v \in Threads \ {t} : Waited(v)' \subseteq Waited(v)
        /\ Waited(t)' \subseteq Waited(t) \cup {u}
    <3>1. CASE stack' = Staged(t, "finished")
      BY <2>1, <3>1, StagedEvents DEF Stages
    <3>2. CASE stack' = [stack EXCEPT ![t][Depth(t)].stage = "joining",
                                      ![t][Depth(t)].whom = u]
      <4> DEFINE f == [event |-> Top(t).event, stage |-> "joining",
                       awaits |-> Top(t).awaits, whom |-> u]
      <4>1. f \in Frames /\ f.event = Top(t).event /\ f.whom = u
        BY <2>1 DEF Frames, Stages
      <4>2. TopBecomes(t, f)
        BY <2>1, <3>2, AckJoins
      <4> HIDE DEF f, u
      <4> QED
        BY <2>1, <4>1, <4>2, TopEvents
    <3> QED
      BY <1>9, <3>1, <3>2 DEF RunAckEvent
  <2>4. /\ \A v \in Threads : Pending(v)' = Pending(v)
        /\ UNCHANGED <<required, requested, context>>
    BY <1>9, <2>3, SameQueue DEF RunAckEvent, Pending
  <2>5. ASSUME NEW w \in Threads, NEW v \in Threads, ClaimedBy(w, v)' PROVE ClaimedBy(w, v)
    BY <2>2, <2>3, <2>4, <2>5 DEF ClaimedBy
  <2> QED
    BY <2>4, <2>5, NoNewClaim
<1>10. ASSUME NEW t \in Threads, JoinThread(t) PROVE Claims'
  <2>1. \E stage \in {"begun", "finished"} : stack' = Staged(t, stage)
    BY <1>10 DEF JoinThread
  <2>2. \A v \in Threads : EventsOn(v)' = EventsOn(v) /\ Waited(v)' \subseteq Waited(v)
    BY <1>10, <2>1, StagedEvents DEF JoinThread, Running, Stages
  <2>3. \A v \in Threads : requested'[v] \subseteq requested[v]
    BY <1>10 DEF JoinThread, TypeOK
  <2> QED
    BY <1>10, <2>2, <2>3, SameQueue, KeptClaims DEF JoinThread, Pending
<1>11. ASSUME NEW t \in Threads, Ends(t) PROVE Claims'
  BY <1>11, SameQueue, SameStack, KeptClaims DEF Ends, LeaveLoop, Doom, Exit, Pending
<1>12. ASSUME NEW t \in Threads, DispatchAck(t) PROVE Claims'
  <2> DEFINE e == Event("ack", t, 0)
  <2>1. context[t] \in Threads /\ e \in Events /\ e.type = "ack" /\ e.of = t
    BY <1>12, EventType DEF DispatchAck, Told, EventTypes, Event
  <2>2. /\ queue' = Put(queue, context[t], e) \/ UNCHANGED queue
        /\ UNCHANGED <<stack, required, requested, context>>
    BY <1>12 DEF DispatchAck
  <2> HIDE DEF e
  <2>3. \A v \in Threads : Waited(v)' = Waited(v) /\
          \A x \in Pending(v)' : x \in Pending(v) \/ (v = context[t] /\ x = e)
    BY <2>1, <2>2, Putting, SameStack DEF Pending
  <2>4. ASSUME NEW u \in Threads, NEW v \in Threads, ClaimedBy(u, v)' PROVE ClaimedBy(u, v)
    BY <2>1, <2>2, <2>3, <2>4 DEF ClaimedBy
  <2> QED
    BY <2>2, <2>4, NoNewClaim
<1>13. CASE ManagerShutdown
  <2> DEFINE f == Begun(Event("manager", Main, 0))
  <2>1. f.event.type = "manager" /\ ~Joins(f) /\ Main \in Threads
    BY ThreadsAssumption DEF Begun, Event, Joins
  <2> HIDE DEF f
  <2>2. /\ stack'[Main] = <<f>>
        /\ \A v \in Threads \ {Main} : stack'[v] = stack[v]
    BY <1>13, <2>1 DEF ManagerShutdown, TypeOK, f
  <2>3. \A v \in Threads \ {Main} : EventsOn(v)' = EventsOn(v) /\ Waited(v)' = Waited(v)
    BY <2>2 DEF EventsOn, Waited, Depth
  <2>4. \A e \in EventsOn(Main)' : e.type = "manager"
    BY <2>1, <2>2 DEF EventsOn, Depth
  <2>5. Waited(Main)' = {}
    BY <2>1, <2>2 DEF Waited, Depth
  <2> QED
    BY <1>13, <2>3, <2>4, <2>5, SameQueue, KeptClaims DEF ManagerShutdown, Pending
<1>14. CASE ManagerReturns
  <2>1. /\ stack'[Main] = <<>>
        /\ \A v \in Threads \ {Main} : stack'[v] = stack[v]
    BY <1>14, ThreadsAssumption DEF ManagerReturns, TypeOK
  <2>2. \A v \in Threads \ {Main} : EventsOn(v)' = EventsOn(v) /\ Waited(v)' = Waited(v)
    BY <2>1 DEF EventsOn, Waited, Depth
  <2>3. EventsOn(Main)' = {} /\ Waited(Main)' = {}
    BY <2>1 DEF EventsOn, Waited, Depth
  <2> QED
    BY <1>14, <2>2, <2>3, SameQueue, KeptClaims DEF ManagerReturns, Pending
<1>15. CASE UNCHANGED Kept
  BY <1>15, SameQueue, SameStack, KeptClaims DEF Kept, Pending
<1> QED
  BY <1>1, <1>2, <1>3, <1>4, <1>5, <1>6, <1>7, <1>8, <1>9, <1>10, <1>11, <1>12, <1>13,
     <1>14, <1>15, Steps, Zenon

-----------------------------------------------------------------------------
(* The thread manager *)

\* The events on the stacks stay where they are, until they end, and those that
\* come are from the queues.
EventsStay ==
  \A v \in Threads : \A i \in 1 .. Depth(v)' :
    \/ i \in 1 .. Depth(v) /\ stack'[v][i].event = stack[v][i].event
    \/ stack'[v][i].event \in Queued(v)

LEMMA TopStays ==
  ASSUME TypeOK, NEW t \in Threads, Depth(t) > 0, NEW f, TopBecomes(t, f),
         f.event = Top(t).event
  PROVE  EventsStay
<1>1. \A v \in Threads : Depth(v)' = Depth(v) /\ Depth(v) \in Nat
  BY DepthType DEF TopBecomes, Depth
<1>2. \A v \in Threads : \A i \in 1 .. Depth(v) : stack'[v][i].event = stack[v][i].event
  BY <1>1 DEF TopBecomes, Top
<1> QED
  BY <1>1, <1>2 DEF EventsStay

LEMMA UnwoundStays ==
  ASSUME TypeOK, NEW t \in Threads, Depth(t) > 0, Unwinds(t) PROVE EventsStay
<1>1. \A v \in Threads \ {t} : Depth(v)' = Depth(v) /\ stack'[v] = stack[v]
  BY DEF Unwinds, Depth
<1>2. Depth(t) \in Nat /\ Depth(t)' = Depth(t) - 1
  BY DepthType DEF Unwinds, Depth
<1>3. \A x \in Frames : [x EXCEPT !.stage = "checking"].event = x.event
  BY DEF Frames
<1>4. \A i \in 1 .. Depth(t)' : i \in 1 .. Depth(t) /\ stack[t][i] \in Frames
  BY <1>2, DepthType
<1>5. \A i \in 1 .. Depth(t)' : stack'[t][i].event = stack[t][i].event
  BY <1>2, <1>3, <1>4 DEF Unwinds
<1> QED
  BY <1>1, <1>4, <1>5 DEF EventsStay

LEMMA SameStays == UNCHANGED stack => EventsStay
  BY DEF EventsStay, Depth

LEMMA MovedStays == ASSUME TypeOK, NEW t \in Threads, Moved(t) PROVE EventsStay
  BY TopStays, UnwoundStays DEF Moved

\* No other event is one of the manager.
LEMMA Arrivals ==
  ASSUME TypeOK, Told, [Next]_vars
  PROVE  /\ EventsStay \/ ManagerShutdown \/ ManagerReturns
         /\ \A v \in Threads : \A x \in Queued(v)' : x \in Queued(v) \/ x.type # "manager"
<1> DEFINE Fresh == \A v \in Threads : \A x \in Queued(v)' : x \in Queued(v) \/ x.type # "manager"
<1>0. UNCHANGED queue => Fresh
  BY SameQueue
<1>a. ASSUME NEW u \in Threads, NEW e \in Events, e.type # "manager",
             queue' = Put(queue, u, e) \/ UNCHANGED queue
      PROVE  Fresh
  BY <1>a, Putting
<1>b. ASSUME NEW t \in Threads, Depth(t) > 0, NEW stage \in Stages, stack' = Staged(t, stage)
      PROVE  EventsStay
  <2>1. [Top(t) EXCEPT !.stage = stage].event = Top(t).event
    BY <1>b, DepthType DEF Frames
  <2> QED
    BY <1>b, <2>1, Staging, TopStays
<1>c. ASSUME NEW t \in Threads, Depth(t) > 0, NEW what \in {"ack", "reply"}, NEW u \in Threads,
             stack' = Spinning(t, what, u)
      PROVE  EventsStay
  BY <1>c, Spins, TopStays
<1> HIDE DEF Fresh
<1>1. ASSUME NEW t \in Threads, DispatchTask(t) PROVE EventsStay /\ Fresh
  <2>1. Task \in Events /\ Task.type = "task"
    BY ThreadsAssumption, EventType DEF Task, EventTypes, Event
  <2> QED
    BY <1>1, <1>a, <2>1, SameStays DEF DispatchTask
<1>2. ASSUME NEW t \in Threads, ProcessNextEvent(t) PROVE EventsStay /\ Fresh
  <2>1. Head(queue[t]) \in Events /\ Head(queue[t]) \in Queued(t)
        /\ \A v \in Threads : Queued(v)' \subseteq Queued(v)
    BY <1>2, Taking DEF ProcessNextEvent
  <2> DEFINE e == Head(queue[t])
  <2>2. Begins(t, e)
    BY <1>2, <2>1, Beginning DEF ProcessNextEvent
  <2> HIDE DEF e
  <2>3. \A v \in Threads \ {t} : Depth(v)' = Depth(v) /\ stack'[v] = stack[v]
    BY <2>2 DEF Begins, Depth
  <2>4. Depth(t)' = Depth(t) + 1 /\ Depth(t) \in Nat /\ Begun(e).event = e
    BY <2>2, DepthType DEF Begins, Depth, Begun
  <2>5. \A i \in 1 .. Depth(t)' : \/ i \in 1 .. Depth(t) /\ stack'[t][i].event = stack[t][i].event
                                  \/ stack'[t][i].event = e
    BY <2>2, <2>4 DEF Begins
  <2> QED
    BY <2>1, <2>3, <2>5 DEF EventsStay, Fresh, e
<1>3. ASSUME NEW t \in Threads, Moves(t) PROVE EventsStay /\ Fresh
  BY <1>0, <1>3, Moving, MovedStays DEF Moved
<1>4. ASSUME NEW t \in Threads, ClearIsPending(t) \/ RunShutdownEvent(t)
      PROVE  EventsStay /\ Fresh
  BY <1>0, <1>b, <1>4 DEF ClearIsPending, RunShutdownEvent, Running, Stages
<1>5. ASSUME NEW t \in Threads, DispatchReply(t) PROVE EventsStay /\ Fresh
  <2>1. /\ Depth(t) > 0 /\ Top(t).event.of \in Threads
        /\ Event("reply", t, 0) \in Events /\ Event("reply", t, 0).type = "reply"
    BY <1>5, RunningTop, EventType DEF DispatchReply, EventTypes, Event
  <2> QED
    BY <1>5, <1>a, <2>1, Unwinding, UnwoundStays DEF DispatchReply
<1>6. ASSUME NEW t \in Threads, NEW u \in Threads, Asks(t, u) PROVE EventsStay /\ Fresh
  <2>1. Depth(t) > 0
    BY <1>6, Asking DEF Running
  <2>2. Event("shutdown", t, 0) \in Events /\ Event("shutdown", t, 0).type = "shutdown"
    BY EventType DEF EventTypes, Event
  <2>3. queue' = queue \/ queue' = Put(queue, u, Event("shutdown", t, 0))
    BY <1>6, Asking
  <2>4. \/ stack' = Staged(t, "finished") \/ stack' = Spinning(t, "ack", u)
        \/ UNCHANGED stack
    BY <1>6, Asking
  <2>5. Fresh
    BY <1>0, <1>a, <2>2, <2>3
  <2> QED
    BY <1>b, <1>c, <2>1, <2>4, <2>5, SameStays DEF Stages
<1>7. ASSUME NEW t \in Threads, NEW u \in Threads, Syncs(t, u) PROVE EventsStay /\ Fresh
  <2>1. Depth(t) \in Nat /\ Depth(t) > 0
    BY <1>7, DepthType DEF Syncs, MayCall, InClient, Running
  <2>2. Event("sync", t, Depth(t)) \in Events /\ Event("sync", t, Depth(t)).type = "sync"
    BY <2>1, EventType DEF EventTypes, Event
  <2> QED
    BY <1>7, <1>a, <1>c, <2>1, <2>2 DEF Syncs
<1>8. ASSUME NEW t \in Threads, RunAckEvent(t) PROVE EventsStay /\ Fresh
  <2>1. Depth(t) > 0 /\ Top(t).event.of \in Threads
    BY <1>8, RunningTop DEF RunAckEvent
  <2>2. stack' = [stack EXCEPT ![t][Depth(t)].stage = "joining",
                               ![t][Depth(t)].whom = Top(t).event.of] => EventsStay
    BY <2>1, AckJoins, TopStays
  <2> QED
    BY <1>0, <1>b, <1>8, <2>1, <2>2 DEF RunAckEvent, Stages
<1>9. ASSUME NEW t \in Threads, JoinThread(t) PROVE EventsStay /\ Fresh
  <2>1. \E stage \in {"begun", "finished"} : stack' = Staged(t, stage)
    BY <1>9 DEF JoinThread
  <2> QED
    BY <1>0, <1>b, <1>9, <2>1 DEF JoinThread, Running, Stages
<1>10. ASSUME NEW t \in Threads, Ends(t) PROVE EventsStay /\ Fresh
  BY <1>0, <1>10, SameStays DEF Ends, LeaveLoop, Doom, Exit
<1>11. ASSUME NEW t \in Threads, DispatchAck(t) PROVE EventsStay /\ Fresh
  <2>1. /\ context[t] \in Threads
        /\ Event("ack", t, 0) \in Events /\ Event("ack", t, 0).type = "ack"
    BY <1>11, EventType DEF DispatchAck, Told, EventTypes, Event
  <2> QED
    BY <1>11, <1>a, <2>1, SameStays DEF DispatchAck
<1>12. ManagerShutdown \/ ManagerReturns => Fresh
  BY <1>0 DEF ManagerShutdown, ManagerReturns
<1>13. UNCHANGED Kept => EventsStay /\ Fresh
  BY <1>0, SameStays DEF Kept
<1>14. (EventsStay \/ ManagerShutdown \/ ManagerReturns) /\ Fresh
  BY <1>1, <1>2, <1>3, <1>4, <1>5, <1>6, <1>7, <1>8, <1>9, <1>10, <1>11, <1>12, <1>13,
     Steps, Zenon
<1> QED
  BY <1>14 DEF Fresh

\* The main thread is never told to leave its loop.
LEMMA MainIsNotTold == ASSUME TypeOK, Claims PROVE Main \in Threads /\ context[Main] = NoThread
<1>1. Main \in Threads /\ context[Main] \in Threads \cup {NoThread}
  BY ThreadsAssumption DEF TypeOK
<1>2. \A t \in Threads : ~ClaimedBy(Main, t)
  BY <1>1 DEF Claims
<1>3. \A t \in Threads : context[Main] # t
  BY <1>2 DEF ClaimedBy
<1> QED
  BY <1>1, <1>3

LEMMA OneManagerStep ==
  ASSUME TypeOK, Told, Claims, OneManager, [Next]_vars PROVE OneManager'
<1>0. Main \in Threads /\ context[Main] = NoThread
  BY MainIsNotTold
<1>a. /\ EventsStay \/ ManagerShutdown \/ ManagerReturns
      /\ \A v \in Threads : \A x \in Queued(v)' : x \in Queued(v) \/ x.type # "manager"
  BY Arrivals
<1>1. ASSUME NEW t \in Threads, NEW e \in Queued(t)' PROVE e.type # "manager"
  BY <1>a, <1>1 DEF OneManager
<1>2. \A t \in Threads : \A i \in 1 .. Depth(t)' :
        stack'[t][i].event.type = "manager" => t = Main /\ i = 1
  <2>1. CASE EventsStay
    <3> SUFFICES ASSUME NEW t \in Threads, NEW i \in 1 .. Depth(t)',
                        stack'[t][i].event.type = "manager"
                 PROVE  t = Main /\ i = 1
      OBVIOUS
    <3>1. stack'[t][i].event \notin Queued(t)
      BY DEF OneManager
    <3>2. i \in 1 .. Depth(t) /\ stack[t][i].event.type = "manager"
      BY <2>1, <3>1 DEF EventsStay
    <3> QED
      BY <3>2 DEF OneManager
  <2>2. CASE ManagerShutdown
    <3>1. /\ stack'[Main] = <<Begun(Event("manager", Main, 0))>>
          /\ \A v \in Threads \ {Main} : stack'[v] = stack[v]
      BY <1>0, <2>2 DEF ManagerShutdown, TypeOK
    <3>2. Depth(Main)' = 1 /\ \A v \in Threads \ {Main} : Depth(v)' = Depth(v)
      BY <3>1 DEF Depth
    <3> QED
      BY <3>1, <3>2 DEF OneManager
  <2>3. CASE ManagerReturns
    <3>1. /\ Depth(Main)' = 0
          /\ \A v \in Threads \ {Main} : stack'[v] = stack[v] /\ Depth(v)' = Depth(v)
      BY <1>0, <2>3 DEF ManagerReturns, TypeOK, Depth
    <3> QED
      BY <3>1 DEF OneManager
  <2> QED
    BY <1>a, <2>1, <2>2, <2>3
<1>3. /\ phase'[Main] \in {"loop", "dead"}
      /\ phase'[Main] # phase[Main] => ManagerReturns
  BY <1>0, PhaseSteps
  DEF OneManager, RunShutdownEvent, LeaveLoop, Doom, DispatchAck, Exit, ManagerReturns, TypeOK
<1>4. phase'[Main] = "dead" => Depth(Main)' = 0
  <2>1. CASE ManagerReturns
    BY <1>0, <2>1 DEF ManagerReturns, TypeOK, Depth
  <2>2. ASSUME ~ManagerReturns, phase'[Main] = "dead" PROVE Depth(Main)' = 0
    <3>1. phase[Main] = "dead" /\ Depth(Main) = 0
      BY <1>3, <2>2 DEF OneManager
    <3>2. stack'[Main] = stack[Main]
      BY <1>0, <3>1, IdleRest
    <3> QED
      BY <3>1, <3>2 DEF Depth
  <2> QED
    BY <2>1, <2>2
<1> QED
  BY <1>1, <1>2, <1>3, <1>4 DEF OneManager

\* The event of the manager runs on the main thread, outermost.
LEMMA ManagerTop ==
  ASSUME TypeOK, OneManager, NEW t \in Threads, Depth(t) > 0, Top(t).event.type = "manager"
  PROVE  t = Main /\ Depth(Main) = 1 /\ Top(Main) = Manager /\ Managing
<1>1. Depth(t) \in 1 .. Depth(t) /\ stack[t][Depth(t)].event.type = "manager"
  BY DepthType DEF Top
<1>2. t = Main /\ Depth(t) = 1
  BY <1>1 DEF OneManager
<1> QED
  BY <1>2 DEF Top, Manager, Managing

\* Steps that leave the main thread's events alone.
LEMMA WaitsBelow ==
  ASSUME ManagerWaits, stack'[Main] = stack[Main], toStop' = toStop, required' \subseteq required,
         requested'[Main] \subseteq requested[Main] \cup required
  PROVE  ManagerWaits'
BY DEF ManagerWaits, Managing, Manager, Depth

\* Steps of another event than the manager's.
LEMMA WaitsMeanwhile ==
  ASSUME TypeOK, OneManager, ManagerWaits, NEW t \in Threads, Depth(t) > 0,
         NEW f \in Frames, TopBecomes(t, f), f.event = Top(t).event,
         Top(t).event.type # "manager",
         toStop' = toStop, required' \subseteq required,
         requested'[Main] \subseteq requested[Main] \cup required
  PROVE  ManagerWaits'
<1>1. CASE t # Main
  <2>1. stack'[Main] = stack[Main]
    BY <1>1, ThreadsAssumption DEF TopBecomes
  <2> QED
    BY <2>1, WaitsBelow
<1>2. CASE t = Main
  <2>1. Depth(Main) \in Nat /\ Depth(Main)' = Depth(Main)
    BY <1>2, DepthType DEF TopBecomes, Depth
  <2>2. CASE Depth(Main) = 1
    <3>1. Manager' = f
      BY <1>2, <2>1, <2>2 DEF TopBecomes, Manager
    <3> QED
      BY <3>1 DEF ManagerWaits, Managing
  <2>3. CASE Depth(Main) > 1
    <3>1. Manager' = Manager
      BY <1>2, <2>1, <2>3 DEF TopBecomes, Manager
    <3> QED
      BY <2>1, <3>1 DEF ManagerWaits, Managing
  <2> QED
    BY <1>2, <2>1, <2>2, <2>3
<1> QED
  BY <1>1, <1>2

\* An event around which the manager's spins ends.
LEMMA WaitsAgain ==
  ASSUME TypeOK, ManagerWaits, NEW t \in Threads, Depth(t) > 0, Unwinds(t),
         Top(t).event.type # "manager", UNCHANGED <<toStop, required, requested>>
  PROVE  ManagerWaits'
<1>1. CASE t # Main
  <2>1. stack'[Main] = stack[Main]
    BY <1>1, ThreadsAssumption DEF Unwinds
  <2> QED
    BY <2>1, WaitsBelow
<1>2. CASE t = Main
  <2>1. Depth(Main) \in Nat /\ Depth(Main)' = Depth(Main) - 1
    BY <1>2, DepthType DEF Unwinds, Depth
  <2>2. CASE Depth(Main) = 1
    BY <2>1, <2>2 DEF ManagerWaits, Managing
  <2>3. CASE Depth(Main) = 2
    <3>0. 1 \in 1 .. Depth(Main) /\ 1 \in 1 .. Depth(Main) - 1 /\ 1 = Depth(Main) - 1
      BY <2>3
    <3>1. Manager' = [Manager EXCEPT !.stage = "checking"] /\ Manager \in Frames
      BY <1>2, <3>0, DepthType DEF Unwinds, Manager
    <3>2. Manager'.stage = "checking" /\ Manager'.awaits = Manager.awaits
          /\ Manager'.event = Manager.event
      BY <3>1 DEF Frames
    <3> QED
      BY <2>1, <2>3, <3>2 DEF ManagerWaits, Managing
  <2>4. CASE Depth(Main) > 2
    <3>1. Manager' = Manager
      BY <1>2, <2>1, <2>4 DEF Unwinds, Manager
    <3> QED
      BY <2>1, <2>4, <3>1 DEF ManagerWaits, Managing
  <2> QED
    BY <1>2, <2>1, <2>2, <2>3, <2>4
<1> QED
  BY <1>1, <1>2

\* A step of the manager itself.
LEMMA WaitsItself ==
  ASSUME TypeOK, Managing, Depth(Main) = 1, NEW f, TopBecomes(Main, f),
         f.event = Top(Main).event
  PROVE  Managing' /\ Manager' = f /\ Depth(Main)' = 1
<1>1. Depth(Main)' = 1 /\ Manager' = f
  BY DEF TopBecomes, Depth, Manager
<1> QED
  BY <1>1 DEF Managing, Manager, Top

LEMMA StageOf ==
  ASSUME NEW f \in Frames, NEW stage \in Stages
  PROVE  LET g == [f EXCEPT !.stage = stage]
         IN  /\ g \in Frames /\ g.event = f.event /\ g.stage = stage
             /\ g.awaits = f.awaits /\ g.whom = f.whom
BY DEF Frames

LEMMA ManagerWaitsStep ==
  ASSUME TypeOK, Told, Claims, OneManager, ManagerWaits, [Next]_vars PROVE ManagerWaits'
<1>0. Main \in Threads
  BY ThreadsAssumption
<1>a. ASSUME NEW t \in Threads, NEW types, NEW stages, Running(t, types, stages),
             "manager" \notin types, NEW stage \in Stages, stack' = Staged(t, stage),
             toStop' = toStop, required' \subseteq required,
             requested'[Main] \subseteq requested[Main] \cup required
      PROVE  ManagerWaits'
  <2>1. Depth(t) > 0 /\ Top(t) \in Frames /\ Top(t).event.type # "manager"
    BY <1>a, RunningTop
  <2> DEFINE f == [Top(t) EXCEPT !.stage = stage]
  <2>2. f \in Frames /\ f.event = Top(t).event
    BY <2>1, StageOf
  <2>3. TopBecomes(t, f)
    BY <1>a, <2>1, Staging
  <2> HIDE DEF f
  <2> QED
    BY <1>a, <2>1, <2>2, <2>3, WaitsMeanwhile
<1>1. ASSUME NEW t \in Threads, DispatchTask(t) PROVE ManagerWaits'
  BY <1>1, WaitsBelow DEF DispatchTask
<1>2. ASSUME NEW t \in Threads, ProcessNextEvent(t) PROVE ManagerWaits'
  <2> DEFINE e == Head(queue[t])
  <2>1. e \in Events /\ e \in Queued(t)
    BY <1>2, Taking DEF ProcessNextEvent
  <2>2. Begins(t, e)
    BY <1>2, <2>1, Beginning DEF ProcessNextEvent
  <2> HIDE DEF e
  <2>3. CASE t # Main
    <3>1. stack'[Main] = stack[Main]
      BY <1>0, <2>2, <2>3 DEF Begins
    <3> QED
      BY <1>2, <3>1, WaitsBelow DEF ProcessNextEvent
  <2>4. CASE t = Main
    <3>1. Depth(Main) \in Nat /\ Depth(Main)' = Depth(Main) + 1
      BY <1>0, <2>2, <2>4, DepthType DEF Begins, Depth
    <3>2. CASE Depth(Main) = 0
      <4>1. Manager'.event = e /\ e.type # "manager"
        BY <2>1, <2>2, <2>4, <3>2 DEF Begins, Begun, Manager, OneManager
      <4> QED
        BY <4>1 DEF ManagerWaits, Managing
    <3>3. CASE Depth(Main) > 0
      <4>1. Manager' = Manager
        BY <2>2, <2>4, <3>1, <3>3 DEF Begins, Manager
      <4>2. Depth(Main) = 1 => Manager.stage \in {"blocked", "finished"}
        BY <1>2, <2>4, <3>3 DEF ProcessNextEvent, Running, Top, Manager
      <4> QED
        BY <1>2, <3>1, <3>3, <4>1, <4>2 DEF ProcessNextEvent, ManagerWaits, Managing
    <3> QED
      BY <3>1, <3>2, <3>3
  <2> QED
    BY <2>3, <2>4
<1>3. ASSUME NEW t \in Threads, CheckPredicate(t) PROVE ManagerWaits'
  <2>1. /\ Depth(t) > 0 /\ Top(t) \in Frames /\ Top(t).stage = "checking"
    BY <1>3, RunningTop DEF CheckPredicate
  <2>2. PICK stage \in {"blocked", "joining", "finished"} :
          /\ stack' = Staged(t, stage)
          /\ stage = "finished" => Satisfied(t) /\ Top(t).awaits # "ack"
    BY <1>3 DEF CheckPredicate
  <2> DEFINE f == [Top(t) EXCEPT !.stage = stage]
  <2>a. stage \in Stages
    BY DEF Stages
  <2>3. f \in Frames /\ f.event = Top(t).event /\ f.stage = stage /\ f.awaits = Top(t).awaits
    BY <2>1, <2>a, StageOf
  <2>4. TopBecomes(t, f)
    BY <2>1, <2>2, <2>a, Staging
  <2> HIDE DEF f
  <2>5. CASE Top(t).event.type # "manager"
    BY <1>3, <2>1, <2>3, <2>4, <2>5, WaitsMeanwhile DEF CheckPredicate
  <2>6. CASE Top(t).event.type = "manager"
    <3>1. t = Main /\ Depth(Main) = 1 /\ Top(Main) = Manager /\ Managing
      BY <2>1, <2>6, ManagerTop
    <3>2. Manager' = f /\ Depth(Main)' = 1
      BY <2>3, <2>4, <3>1, WaitsItself
    <3>3. Manager.awaits \in {"ack", "shutdowns"}
      BY <2>1, <3>1 DEF ManagerWaits
    <3>4. stage = "finished" => Manager.awaits = "shutdowns" /\ requested[Main] = {}
      BY <2>2, <3>1, <3>3 DEF Satisfied
    <3> QED
      BY <1>3, <2>3, <3>1, <3>2, <3>3, <3>4 DEF CheckPredicate, ManagerWaits
  <2> QED
    BY <2>5, <2>6
<1>4. ASSUME NEW t \in Threads, Return(t) PROVE ManagerWaits'
  <2>1. Depth(t) > 0 /\ Top(t).event.type # "manager"
    BY <1>4, RunningTop DEF Return
  <2> QED
    BY <1>4, <2>1, Unwinding, WaitsAgain DEF Return
<1>5. ASSUME NEW t \in Threads, JustRun(t) PROVE ManagerWaits'
  BY <1>5, <1>a DEF JustRun, InClient, Stages
<1>6. ASSUME NEW t \in Threads, ClearIsPending(t) \/ RunShutdownEvent(t) \/ RunReply(t)
      PROVE  ManagerWaits'
  BY <1>6, <1>a DEF ClearIsPending, RunShutdownEvent, RunReply, Stages
<1>7. ASSUME NEW t \in Threads, DispatchReply(t) PROVE ManagerWaits'
  <2>1. Depth(t) > 0 /\ Top(t).event.type # "manager"
    BY <1>7, RunningTop DEF DispatchReply
  <2> QED
    BY <1>7, <2>1, Unwinding, WaitsAgain DEF DispatchReply
<1>8. ASSUME NEW t \in Threads, NEW u \in Threads, AsyncShutdown(t, u) \/ Shutdown(t, u)
      PROVE  ManagerWaits'
  <2>0. Running(t, {"task", "sync"}, {"begun"})
    BY <1>8 DEF AsyncShutdown, Shutdown, MayCall, InClient
  <2>1. Depth(t) > 0 /\ Top(t).event.type # "manager"
    BY <2>0, RunningTop
  <2>a. /\ toStop' = toStop
        /\ \/ /\ u \in required /\ required' = required \ {u}
              /\ requested' = [requested EXCEPT ![t] = @ \cup {u}]
           \/ required' = required /\ requested' = requested
    BY <1>8 DEF AsyncShutdown, Shutdown, ShutdownInternal
  <2>2. /\ toStop' = toStop /\ required' \subseteq required
        /\ requested'[Main] \subseteq requested[Main] \cup required
    <3>1. requested \in [Threads -> SUBSET Threads]
      BY DEF TypeOK
    <3>2. \A v \in Threads : requested'[v] \subseteq requested[v] \cup required
      BY <2>a, <3>1
    <3> QED
      BY <1>0, <2>a, <3>2
  <2>3. stack' = Staged(t, "finished") \/ stack' = Spinning(t, "ack", u)
    BY <1>8 DEF AsyncShutdown, Shutdown
  <2>4. CASE stack' = Staged(t, "finished")
    BY <1>a, <2>0, <2>2, <2>4 DEF Stages
  <2>5. CASE stack' = Spinning(t, "ack", u)
    <3> DEFINE f == [event |-> Top(t).event, stage |-> "checking", awaits |-> "ack", whom |-> u]
    <3>1. f \in Frames /\ f.event = Top(t).event
      BY <2>1, DepthType DEF Frames, Stages
    <3>2. TopBecomes(t, f)
      BY <2>1, <2>5, Spins
    <3> HIDE DEF f
    <3> QED
      BY <2>1, <2>2, <3>1, <3>2, WaitsMeanwhile
  <2> QED
    BY <2>3, <2>4, <2>5
<1>9. ASSUME NEW t \in Threads, NEW u \in Threads, Syncs(t, u) PROVE ManagerWaits'
  <2>1. Depth(t) > 0 /\ Top(t).event.type # "manager"
    BY <1>9, RunningTop DEF Syncs, MayCall, InClient
  <2> DEFINE f == [event |-> Top(t).event, stage |-> "checking", awaits |-> "reply", whom |-> u]
  <2>2. f \in Frames /\ f.event = Top(t).event
    BY <2>1, DepthType DEF Frames, Stages
  <2>3. TopBecomes(t, f)
    BY <1>9, <2>1, Spins DEF Syncs
  <2> HIDE DEF f
  <2> QED
    BY <1>9, <2>1, <2>2, <2>3, WaitsMeanwhile DEF Syncs
<1>10. ASSUME NEW t \in Threads, RunAckEvent(t) PROVE ManagerWaits'
  <2>1. /\ Depth(t) > 0 /\ Top(t) \in Frames /\ Top(t).event.type # "manager"
        /\ Top(t).event.of \in Threads
    BY <1>10, RunningTop DEF RunAckEvent
  <2>2. CASE stack' = Staged(t, "finished")
    BY <1>10, <1>a, <2>2 DEF RunAckEvent, Stages
  <2>3. CASE stack' = [stack EXCEPT ![t][Depth(t)].stage = "joining",
                                    ![t][Depth(t)].whom = Top(t).event.of]
    <3> DEFINE f == [event |-> Top(t).event, stage |-> "joining", awaits |-> Top(t).awaits,
                     whom |-> Top(t).event.of]
    <3>1. f \in Frames /\ f.event = Top(t).event
      BY <2>1 DEF Frames, Stages
    <3>2. TopBecomes(t, f)
      BY <2>1, <2>3, AckJoins
    <3> HIDE DEF f
    <3> QED
      BY <1>10, <2>1, <3>1, <3>2, WaitsMeanwhile DEF RunAckEvent
  <2> QED
    BY <1>10, <2>2, <2>3 DEF RunAckEvent
<1>11. ASSUME NEW t \in Threads, JoinThread(t) PROVE ManagerWaits'
  <2>1. /\ Depth(t) > 0 /\ Top(t) \in Frames /\ Top(t).stage = "joining"
    BY <1>11, RunningTop DEF JoinThread
  <2>2. PICK stage \in {"begun", "finished"} :
          stack' = Staged(t, stage) /\ (Top(t).event.type = "manager" => stage = "begun")
    BY <1>11 DEF JoinThread
  <2> DEFINE f == [Top(t) EXCEPT !.stage = stage]
  <2>a. stage \in Stages
    BY DEF Stages
  <2>3. f \in Frames /\ f.event = Top(t).event /\ f.stage = stage /\ f.awaits = Top(t).awaits
    BY <2>1, <2>a, StageOf
  <2>4. TopBecomes(t, f)
    BY <2>1, <2>2, <2>a, Staging
  <2> HIDE DEF f
  <2>5. CASE Top(t).event.type # "manager"
    BY <1>0, <1>11, <2>1, <2>3, <2>4, <2>5, WaitsMeanwhile DEF JoinThread, TypeOK
  <2>6. CASE Top(t).event.type = "manager"
    <3>1. t = Main /\ Depth(Main) = 1 /\ Top(Main) = Manager /\ Managing
      BY <2>1, <2>6, ManagerTop
    <3>2. Manager' = f /\ Depth(Main)' = 1
      BY <2>3, <2>4, <3>1, WaitsItself
    <3> QED
      BY <1>11, <2>2, <2>3, <2>6, <3>1, <3>2 DEF JoinThread, ManagerWaits
  <2> QED
    BY <2>5, <2>6
<1>12. ASSUME NEW t \in Threads, Ends(t) \/ DispatchAck(t) PROVE ManagerWaits'
  BY <1>12, WaitsBelow DEF Ends, LeaveLoop, Doom, Exit, DispatchAck
<1>13. CASE ManagerShutdown
  <2>1. stack'[Main] = <<Begun(Event("manager", Main, 0))>>
    BY <1>0, <1>13 DEF ManagerShutdown, TypeOK
  <2>2. Depth(Main)' = 1 /\ Manager'.stage = "begun" /\ Manager'.awaits = "nothing"
    BY <2>1 DEF Depth, Manager, Begun
  <2> QED
    BY <1>13, <2>2 DEF ManagerShutdown, ManagerWaits
<1>14. ASSUME NEW u \in Threads, ManagerStopsNext(u) PROVE ManagerWaits'
  <2>1. Depth(Main) > 0 /\ Top(Main).event.type = "manager" /\ Top(Main).stage = "begun"
    BY <1>14 DEF ManagerStopsNext, Running
  <2>2. Depth(Main) = 1 /\ Top(Main) = Manager /\ Managing
    BY <1>0, <2>1, ManagerTop
  <2>3. required' \subseteq toStop' /\ toStop' \subseteq toStop
    BY <1>14, <2>2 DEF ManagerStopsNext, ShutdownInternal, ManagerWaits
  <2>4. CASE UNCHANGED stack
    BY <2>1, <2>2, <2>3, <2>4 DEF ManagerWaits, Managing, Manager, Depth
  <2>5. CASE stack' = Spinning(Main, "ack", u)
    <3> DEFINE f == [event |-> Top(Main).event, stage |-> "checking", awaits |-> "ack",
                     whom |-> u]
    <3>1. TopBecomes(Main, f)
      BY <1>0, <2>1, <2>5, Spins
    <3>2. f.event = Top(Main).event /\ f.stage = "checking" /\ f.awaits = "ack"
      OBVIOUS
    <3> HIDE DEF f
    <3>3. Manager' = f /\ Depth(Main)' = 1
      BY <2>2, <3>1, <3>2, WaitsItself
    <3> QED
      BY <2>3, <3>2, <3>3 DEF ManagerWaits
  <2> QED
    BY <1>14, <2>4, <2>5 DEF ManagerStopsNext
<1>15. CASE ManagerWaitsForAll
  <2>1. Depth(Main) > 0 /\ Top(Main).event.type = "manager"
    BY <1>15 DEF ManagerWaitsForAll, Running
  <2>2. Depth(Main) = 1 /\ Top(Main) = Manager /\ Managing
    BY <1>0, <2>1, ManagerTop
  <2> DEFINE f == [event |-> Top(Main).event, stage |-> "checking", awaits |-> "shutdowns",
                   whom |-> Main]
  <2>3. TopBecomes(Main, f)
    BY <1>0, <1>15, <2>1, Spins DEF ManagerWaitsForAll
  <2>4. f.event = Top(Main).event /\ f.stage = "checking" /\ f.awaits = "shutdowns"
    OBVIOUS
  <2> HIDE DEF f
  <2>5. Manager' = f /\ Depth(Main)' = 1
    BY <2>2, <2>3, <2>4, WaitsItself
  <2> QED
    BY <1>15, <2>2, <2>4, <2>5 DEF ManagerWaitsForAll, ManagerWaits
<1>16. CASE ManagerReturns
  BY <1>0, <1>16 DEF ManagerReturns, ManagerWaits, Managing, Depth, TypeOK
<1>17. CASE UNCHANGED Kept
  BY <1>17, WaitsBelow DEF Kept
<1> QED
  BY <1>1, <1>2, <1>3, <1>4, <1>5, <1>6, <1>7, <1>8, <1>9, <1>10, <1>11, <1>12, <1>13, <1>14,
     <1>15, <1>16, <1>17, Steps, Zenon DEF Moves, Asks

-----------------------------------------------------------------------------
(* Who was told to stop is not forgotten, nor who told it *)

\* What the steps do to mShutdownRequired and to the outstanding contexts.
LEMMA Requests ==
  ASSUME TypeOK, [Next]_vars
  PROVE  \/ UNCHANGED <<required, requested>>
         \/ \E t, u \in Threads :
              /\ Depth(t) > 0 /\ UNCHANGED phase
              /\ u \in required /\ required' = required \ {u}
              /\ requested' = [requested EXCEPT ![t] = @ \cup {u}]
              /\ t = Main \/ <<t, u>> \in MayStop
         \/ \E t \in Threads : JoinThread(t)
<1>1. ASSUME NEW t \in Threads,
             \/ DispatchTask(t) \/ ProcessNextEvent(t) \/ ClearIsPending(t)
             \/ DispatchReply(t) \/ RunShutdownEvent(t) \/ RunAckEvent(t) \/ Ends(t)
             \/ DispatchAck(t)
      PROVE  UNCHANGED <<required, requested>>
  BY <1>1 DEF DispatchTask, ProcessNextEvent, ClearIsPending, DispatchReply, RunShutdownEvent,
              RunAckEvent, Ends, LeaveLoop, Doom, Exit, DispatchAck
<1>2. ASSUME NEW t \in Threads, Moves(t) PROVE UNCHANGED <<required, requested>>
  BY <1>2, Moving DEF Moved
<1>3. ASSUME NEW t \in Threads, NEW u \in Threads, Asks(t, u)
      PROVE  \/ UNCHANGED <<required, requested>>
             \/ /\ Depth(t) > 0 /\ UNCHANGED phase
                /\ u \in required /\ required' = required \ {u}
                /\ requested' = [requested EXCEPT ![t] = @ \cup {u}]
                /\ t = Main \/ <<t, u>> \in MayStop
  <2>1. t = Main \/ <<t, u>> \in MayStop
    BY <1>3 DEF Asks, AsyncShutdown, Shutdown
  <2> QED
    BY <1>3, <2>1, Asking DEF Running
<1>4. ASSUME NEW t \in Threads, NEW u \in Threads, Syncs(t, u)
      PROVE  UNCHANGED <<required, requested>>
  BY <1>4 DEF Syncs
<1>5. ManagerShutdown \/ ManagerReturns \/ UNCHANGED Kept => UNCHANGED <<required, requested>>
  BY DEF ManagerShutdown, ManagerReturns, Kept
<1> QED
  BY <1>1, <1>2, <1>3, <1>4, <1>5, Steps, Zenon

\* How a context comes and goes.
LEMMA RequestMoves ==
  ASSUME TypeOK, [Next]_vars, NEW v \in Threads, NEW u \in Threads
  PROVE  /\ u \in requested'[v] /\ u \notin requested[v]
              => /\ Depth(v) > 0 /\ UNCHANGED phase
                 /\ u \in required /\ (v = Main \/ <<v, u>> \in MayStop)
         /\ u \in requested[v] /\ u \notin requested'[v] => phase[u] = "dead"
         /\ required' \subseteq required
         /\ u \in required /\ u \notin required' => \E t \in Threads : u \in requested'[t]
<1>0. requested \in [Threads -> SUBSET Threads]
  BY DEF TypeOK
<1>1. CASE UNCHANGED <<required, requested>>
  BY <1>1
<1>2. ASSUME NEW t \in Threads, NEW w \in Threads, Depth(t) > 0, UNCHANGED phase,
             w \in required, required' = required \ {w}, t = Main \/ <<t, w>> \in MayStop,
             requested' = [requested EXCEPT ![t] = @ \cup {w}]
      PROVE  /\ u \in requested'[v] /\ u \notin requested[v]
                   => /\ Depth(v) > 0 /\ UNCHANGED phase
                      /\ u \in required /\ (v = Main \/ <<v, u>> \in MayStop)
             /\ u \in requested[v] /\ u \notin requested'[v] => phase[u] = "dead"
             /\ required' \subseteq required
             /\ u \in required /\ u \notin required' => \E x \in Threads : u \in requested'[x]
  <2>1. requested'[t] = requested[t] \cup {w} /\ (v # t => requested'[v] = requested[v])
    BY <1>0, <1>2
  <2> QED
    BY <1>2, <2>1
<1>3. ASSUME NEW t \in Threads, JoinThread(t)
      PROVE  /\ u \in requested'[v] => u \in requested[v]
             /\ u \in requested[v] /\ u \notin requested'[v] => phase[u] = "dead"
             /\ required' = required
  BY <1>0, <1>3 DEF JoinThread
<1> QED
  BY <1>1, <1>2, <1>3, Requests

\* How one thread goes on to its end.
LEMMA PhaseMoves ==
  ASSUME TypeOK, [Next]_vars, NEW t \in Threads
  PROVE  \/ phase'[t] = phase[t]
         \/ phase[t] = "loop" /\ phase'[t] = "drain" /\ context[t] # NoThread
         \/ Doom(t) /\ phase'[t] = "doomed"
         \/ phase[t] = "doomed" /\ phase'[t] = "acked"
         \/ phase[t] = "acked" /\ phase'[t] = "dead"
         \/ t = Main /\ ManagerReturns /\ phase'[t] = "dead"
<1>1. ASSUME NEW v \in Threads, RunShutdownEvent(v) PROVE phase'[t] = phase[t]
  BY <1>1 DEF RunShutdownEvent
<1>2. ASSUME NEW v \in Threads, LeaveLoop(v) \/ Doom(v) \/ DispatchAck(v) \/ Exit(v), v # t
      PROVE  phase'[t] = phase[t]
  BY <1>2 DEF LeaveLoop, Doom, DispatchAck, Exit, TypeOK
<1>3. LeaveLoop(t) => phase[t] = "loop" /\ phase'[t] = "drain" /\ context[t] # NoThread
  BY DEF LeaveLoop, TypeOK
<1>4. Doom(t) => phase'[t] = "doomed"
  BY DEF Doom, TypeOK
<1>5. DispatchAck(t) => phase[t] = "doomed" /\ phase'[t] = "acked"
  BY DEF DispatchAck, TypeOK
<1>6. Exit(t) => phase[t] = "acked" /\ phase'[t] = "dead"
  BY DEF Exit, TypeOK
<1>7. ManagerReturns => IF t = Main THEN phase'[t] = "dead" ELSE phase'[t] = phase[t]
  BY DEF ManagerReturns, TypeOK
<1> QED
  BY <1>1, <1>2, <1>3, <1>4, <1>5, <1>6, <1>7, PhaseSteps

LEMMA OutlivesStep ==
  ASSUME TypeOK, NothingStranded, OneManager, ManagerWaits, Outlives, [Next]_vars
  PROVE  Outlives'
<1> SUFFICES ASSUME NEW t \in Threads, NEW u \in Threads, u \in requested'[t]
             PROVE  ~Doomed(t)' /\ phase'[t] # "dead"
  BY DEF Outlives
<1>1. CASE u \notin requested[t]
  <2>1. Depth(t) > 0 /\ UNCHANGED phase
    BY <1>1, RequestMoves
  <2>2. ~Doomed(t) /\ phase[t] # "dead"
    BY <2>1, DepthType DEF NothingStranded, OneManager, Doomed
  <2> QED
    BY <2>1, <2>2 DEF Doomed
<1>2. CASE u \in requested[t]
  <2>1. ~Doomed(t) /\ phase[t] # "dead" /\ requested[t] # {}
    BY <1>2 DEF Outlives
  <2>2. ASSUME ManagerReturns PROVE t # Main
    <3>1. Depth(Main) > 0 /\ Top(Main).event.type = "manager" /\ Top(Main).stage = "finished"
      BY <2>2 DEF ManagerReturns, Running
    <3>2. Top(Main) = Manager /\ Managing
      BY <3>1, ManagerTop, ThreadsAssumption
    <3> QED
      BY <2>1, <3>1, <3>2 DEF ManagerWaits
  <2> QED
    BY <2>1, <2>2, PhaseMoves DEF Doomed, Doom
<1> QED
  BY <1>1, <1>2

LEMMA JoinedStep ==
  ASSUME TypeOK, JoinedBeforeForgotten, [Next]_vars PROVE JoinedBeforeForgotten'
<1> SUFFICES ASSUME NEW v \in Threads \ {Main}
             PROVE  v \in required' \/ phase'[v] = "dead" \/ \E t \in Threads : v \in requested'[t]
  BY DEF JoinedBeforeForgotten
<1>1. CASE phase[v] = "dead"
  BY <1>1, PhaseMoves DEF Doom
<1>2. CASE v \in required
  BY <1>2, RequestMoves
<1>3. ASSUME NEW t \in Threads, v \in requested[t], phase[v] # "dead"
      PROVE  v \in requested'[t]
  BY <1>3, RequestMoves
<1> QED
  BY <1>1, <1>2, <1>3 DEF JoinedBeforeForgotten

-----------------------------------------------------------------------------
(* Nested loops are woken *)

\* v waits for a reply that somebody is about to send, or that v refused.
Replied(v) ==
  /\ Top(v).awaits = "reply"
  /\ (\E u \in Threads : Answering(u, v)) \/ <<v, Depth(v)>> \in refusedReplies
Wakes(v) ==
  /\ Running(v, EventTypes, {"blocked"})
  /\ Satisfied(v)
  => queue[v] # <<>> \/ Replied(v)

\* A loop that no step woke still is to be.
LEMMA StillWakes ==
  ASSUME NEW v \in Threads, Wakes(v), stack'[v] = stack[v],
         awaitingAck \subseteq awaitingAck', pendingSync \subseteq pendingSync',
         requested[v] \subseteq requested'[v], refusedReplies \subseteq refusedReplies',
         queue[v] # <<>> => queue'[v] # <<>>,
         \A u \in Threads : Answering(u, v)
                              => \/ stack'[u] = stack[u] \/ queue'[v] # <<>>
                                 \/ <<v, Depth(v)>> \in refusedReplies'
  PROVE  Wakes(v)'
<1> SUFFICES ASSUME Running(v, EventTypes, {"blocked"})', Satisfied(v)', queue'[v] = <<>>
             PROVE  Replied(v)'
  BY DEF Wakes
<1>1. Depth(v)' = Depth(v) /\ Top(v)' = Top(v)
  BY DEF Depth, Top
<1>2. Running(v, EventTypes, {"blocked"})
  BY <1>1 DEF Running
<1>3. Satisfied(v)
  BY <1>1 DEF Satisfied
<1>4. Replied(v)
  BY <1>2, <1>3 DEF Wakes
<1>5. CASE <<v, Depth(v)>> \in refusedReplies'
  BY <1>1, <1>4, <1>5 DEF Replied
<1>6. CASE <<v, Depth(v)>> \notin refusedReplies'
  <2>1. PICK u \in Threads : Answering(u, v)
    BY <1>4, <1>6 DEF Replied
  <2>2. stack'[u] = stack[u]
    BY <1>6, <2>1
  <2>3. Answering(u, v)'
    BY <1>1, <2>1, <2>2 DEF Answering, Running, Top, Depth
  <2> QED
    BY <1>1, <1>4, <2>3 DEF Replied
<1> QED
  BY <1>5, <1>6

\* Steps of one thread, which does not block, and had told nobody that its sync
\* dispatch is over.
LEMMA OthersWake ==
  ASSUME TypeOK, SpinWakesUp, NEW t \in Threads,
         \A v \in Threads \ {t} : stack'[v] = stack[v],
         ~Running(t, {"sync"}, {"answered"}), ~Running(t, EventTypes, {"blocked"})',
         \A v \in Threads \ {t} : queue[v] # <<>> => queue'[v] # <<>>,
         awaitingAck \subseteq awaitingAck', pendingSync \subseteq pendingSync',
         refusedReplies \subseteq refusedReplies',
         \A v \in Threads \ {t} : requested[v] \subseteq requested'[v]
  PROVE  SpinWakesUp'
<1>1. Wakes(t)'
  BY DEF Wakes
<1>2. ASSUME NEW v \in Threads \ {t} PROVE Wakes(v)'
  <2>1. Wakes(v)
    BY DEF SpinWakesUp, Wakes, Replied
  <2>2. \A u \in Threads : Answering(u, v) => stack'[u] = stack[u]
    BY DEF Answering
  <2> QED
    BY <2>1, <2>2, StillWakes
<1>3. \A v \in Threads : Wakes(v)'
  BY <1>1, <1>2
<1> QED
  BY <1>3 DEF SpinWakesUp, Wakes, Replied

LEMMA NotBlocked ==
  ASSUME TypeOK, NEW t \in Threads, Depth(t) > 0, NEW f, TopBecomes(t, f), f.stage # "blocked"
  PROVE  ~Running(t, EventTypes, {"blocked"})'
<1>1. Depth(t)' = Depth(t) /\ Depth(t) \in Nat
  BY DepthType DEF TopBecomes, Depth
<1>2. Top(t)' = f
  BY <1>1 DEF TopBecomes, Top
<1> QED
  BY <1>2 DEF Running

LEMMA NotBlockedAgain ==
  ASSUME TypeOK, NEW t \in Threads, Depth(t) > 0, Unwinds(t)
  PROVE  ~Running(t, EventTypes, {"blocked"})'
<1>1. Depth(t) \in Nat /\ Depth(t)' = Depth(t) - 1
  BY DepthType DEF Unwinds, Depth
<1>2. SUFFICES ASSUME Depth(t) > 1 PROVE Top(t)'.stage = "checking"
  BY <1>1 DEF Running
<1>3. /\ Depth(t) - 1 \in 1 .. Depth(t) - 1 /\ Depth(t) - 1 \in 1 .. Depth(t)
  BY <1>1, <1>2
<1>4. Top(t)' = [stack[t][Depth(t) - 1] EXCEPT !.stage = "checking"]
  BY <1>1, <1>3 DEF Unwinds, Top
<1> QED
  BY <1>3, <1>4, DepthType DEF Frames

\* A frame that only goes to a stage where it is not blocked.
LEMMA StagedWake ==
  ASSUME TypeOK, SpinWakesUp, NEW t \in Threads, Depth(t) > 0, Top(t).stage # "answered",
         NEW stage \in Stages \ {"blocked"}, stack' = Staged(t, stage),
         \A v \in Threads \ {t} : queue[v] # <<>> => queue'[v] # <<>>,
         awaitingAck \subseteq awaitingAck', pendingSync \subseteq pendingSync',
         refusedReplies \subseteq refusedReplies',
         \A v \in Threads \ {t} : requested[v] \subseteq requested'[v]
  PROVE  SpinWakesUp'
<1> DEFINE f == [Top(t) EXCEPT !.stage = stage]
<1>1. TopBecomes(t, f)
  BY Staging
<1>2. f.stage # "blocked"
  BY DepthType, StageOf
<1> HIDE DEF f
<1>3. ~Running(t, EventTypes, {"blocked"})'
  BY <1>1, <1>2, NotBlocked
<1>4. \A v \in Threads \ {t} : stack'[v] = stack[v]
  BY <1>1 DEF TopBecomes
<1>5. ~Running(t, {"sync"}, {"answered"})
  BY DEF Running
<1> QED
  BY <1>3, <1>4, <1>5, OthersWake

\* A frame that begins to spin.
LEMMA SpinningWake ==
  ASSUME TypeOK, SpinWakesUp, NEW t \in Threads, Depth(t) > 0, Top(t).stage # "answered",
         NEW what \in {"ack", "reply", "shutdowns"}, NEW u \in Threads,
         stack' = Spinning(t, what, u),
         \A v \in Threads \ {t} : queue[v] # <<>> => queue'[v] # <<>>,
         awaitingAck \subseteq awaitingAck', pendingSync \subseteq pendingSync',
         refusedReplies \subseteq refusedReplies',
         \A v \in Threads \ {t} : requested[v] \subseteq requested'[v]
  PROVE  SpinWakesUp'
<1> DEFINE f == [event |-> Top(t).event, stage |-> "checking", awaits |-> what, whom |-> u]
<1>1. TopBecomes(t, f)
  BY Spins
<1>2. f.stage # "blocked"
  OBVIOUS
<1> HIDE DEF f
<1>3. ~Running(t, EventTypes, {"blocked"})'
  BY <1>1, <1>2, NotBlocked
<1>4. \A v \in Threads \ {t} : stack'[v] = stack[v]
  BY <1>1 DEF TopBecomes
<1>5. ~Running(t, {"sync"}, {"answered"})
  BY DEF Running
<1> QED
  BY <1>3, <1>4, <1>5, OthersWake

\* Steps that only put events.
LEMMA AllStillWake ==
  ASSUME SpinWakesUp, UNCHANGED <<stack, awaitingAck, pendingSync, requested>>,
         refusedReplies \subseteq refusedReplies',
         \A v \in Threads : queue[v] # <<>> => queue'[v] # <<>>
  PROVE  SpinWakesUp'
<1>1. ASSUME NEW v \in Threads PROVE Wakes(v)'
  <2>1. Wakes(v)
    BY DEF SpinWakesUp, Wakes, Replied
  <2> QED
    BY <2>1, StillWakes
<1> QED
  BY <1>1 DEF SpinWakesUp, Wakes, Replied

LEMMA CheckWakes ==
  ASSUME TypeOK, SpinWakesUp, refusedReplies \subseteq refusedReplies', NEW t \in Threads,
         CheckPredicate(t)
  PROVE  SpinWakesUp'
<1>1. Depth(t) > 0 /\ Top(t) \in Frames /\ Top(t).stage = "checking"
  BY RunningTop DEF CheckPredicate
<1>2. CASE Satisfied(t)
  <2>1. \E stage \in {"joining", "finished"} : stack' = Staged(t, stage)
    BY <1>2 DEF CheckPredicate
  <2> QED
    BY <1>1, <2>1, StagedWake DEF CheckPredicate, Stages
<1>3. CASE ~Satisfied(t)
  <2> DEFINE f == [Top(t) EXCEPT !.stage = "blocked"]
  <2>1. f.awaits = Top(t).awaits /\ f.whom = Top(t).whom
    BY <1>1, StageOf DEF Stages
  <2>2. TopBecomes(t, f)
    BY <1>1, <1>3, Staging DEF CheckPredicate, Stages
  <2> HIDE DEF f
  <2>3. Depth(t)' = Depth(t) /\ Depth(t) \in Nat /\ Top(t)' = f
    BY <1>1, <2>2, DepthType DEF TopBecomes, Depth, Top
  <2>4. ~Satisfied(t)'
    BY <1>3, <2>1, <2>3 DEF Satisfied, CheckPredicate
  <2>5. ASSUME NEW v \in Threads \ {t} PROVE Wakes(v)'
    <3>1. Wakes(v)
      BY DEF SpinWakesUp, Wakes, Replied
    <3>2. ASSUME NEW u \in Threads, Answering(u, v) PROVE stack'[u] = stack[u]
      BY <1>1, <2>2, <3>2 DEF Answering, Running, TopBecomes
    <3> QED
      BY <2>2, <3>1, <3>2, StillWakes DEF TopBecomes, CheckPredicate
  <2>6. \A v \in Threads : Wakes(v)'
    BY <2>4, <2>5 DEF Wakes
  <2> QED
    BY <2>6 DEF SpinWakesUp, Wakes, Replied
<1> QED
  BY <1>2, <1>3

\* Who finds its sync dispatch over is about to be sent the reply.
LEMMA AnswerWakes ==
  ASSUME TypeOK, SpinWakesUp, refusedReplies \subseteq refusedReplies', NEW t \in Threads,
         ClearIsPending(t)
  PROVE  SpinWakesUp'
<1>1. /\ Depth(t) > 0 /\ Top(t) \in Frames /\ Top(t).stage = "finished"
      /\ Top(t).event.type = "sync"
  BY RunningTop DEF ClearIsPending
<1> DEFINE f == [Top(t) EXCEPT !.stage = "answered"]
<1>2. f.event = Top(t).event /\ f.stage = "answered"
  BY <1>1, StageOf DEF Stages
<1>3. TopBecomes(t, f)
  BY <1>1, Staging DEF ClearIsPending, Stages
<1> HIDE DEF f
<1>4. Depth(t)' = Depth(t) /\ Depth(t) \in Nat /\ Top(t)' = f
  BY <1>1, <1>3, DepthType DEF TopBecomes, Depth, Top
<1>5. ~Running(t, EventTypes, {"blocked"})'
  BY <1>2, <1>4 DEF Running
<1>6. ASSUME NEW v \in Threads \ {t} PROVE Wakes(v)'
  <2> SUFFICES ASSUME Running(v, EventTypes, {"blocked"})', Satisfied(v)'
               PROVE  queue'[v] # <<>> \/ Replied(v)'
    BY DEF Wakes
  <2>1. stack'[v] = stack[v] /\ Depth(v)' = Depth(v) /\ Top(v)' = Top(v)
    BY <1>3 DEF TopBecomes, Depth, Top
  <2>2. CASE Satisfied(v)
    <3>1. queue[v] # <<>> \/ Replied(v)
      BY <2>1, <2>2 DEF SpinWakesUp, Running, Replied
    <3>2. ASSUME NEW u \in Threads, Answering(u, v) PROVE Answering(u, v)'
      BY <1>1, <1>3, <2>1, <3>2 DEF Answering, Running, TopBecomes, Depth, Top
    <3> QED
      BY <2>1, <3>1, <3>2 DEF ClearIsPending, Replied
  <2>3. CASE ~Satisfied(v)
    <3>1. /\ <<v, Depth(v)>> = <<Top(t).event.of, Top(t).event.depth>>
          /\ Top(v).awaits = "reply"
      BY <2>1, <2>3 DEF Satisfied, ClearIsPending
    <3>2. Answering(t, v)'
      BY <1>1, <1>2, <1>4, <2>1, <3>1 DEF Answering, Running
    <3> QED
      BY <2>1, <3>1, <3>2 DEF Replied
  <2> QED
    BY <2>2, <2>3
<1>7. \A v \in Threads : Wakes(v)'
  BY <1>5, <1>6 DEF Wakes
<1> QED
  BY <1>7 DEF SpinWakesUp, Wakes, Replied

LEMMA ReplyWakes ==
  ASSUME TypeOK, NothingStranded, SpinWakesUp, refusedReplies \subseteq refusedReplies',
         NEW t \in Threads, DispatchReply(t)
  PROVE  SpinWakesUp'
<1> DEFINE o == Top(t).event.of
           d == Top(t).event.depth
           e == Event("reply", t, 0)
<1>1. /\ Depth(t) > 0 /\ o \in Threads /\ e \in Events
      /\ queue' = Put(queue, o, e) \/ (UNCHANGED queue /\ <<o, d>> \in refusedReplies')
  BY RunningTop, EventType DEF DispatchReply, EventTypes
<1> HIDE DEF o, d, e
<1>2. /\ \A v \in Threads : queue[v] # <<>> => queue'[v] # <<>>
      /\ <<o, d>> \notin refusedReplies' /\ ~Doomed(o) => queue'[o] # <<>>
  BY <1>1, Putting
<1>3. Unwinds(t)
  BY <1>1, Unwinding DEF DispatchReply
<1>4. ~Running(t, EventTypes, {"blocked"})'
  BY <1>1, <1>3, NotBlockedAgain
<1>5. ASSUME NEW v \in Threads \ {t}, Running(v, EventTypes, {"blocked"})' PROVE Wakes(v)'
  <2>1. stack'[v] = stack[v] /\ Depth(v) > 0
    BY <1>3, <1>5 DEF Unwinds, Running, Depth
  <2>2. ~Doomed(v)
    BY <2>1 DEF NothingStranded
  <2>3. Wakes(v)
    BY DEF SpinWakesUp, Wakes, Replied
  <2>4. ASSUME NEW u \in Threads, Answering(u, v)
        PROVE  stack'[u] = stack[u] \/ queue'[v] # <<>> \/ <<v, Depth(v)>> \in refusedReplies'
    BY <1>2, <1>3, <2>2, <2>4 DEF Unwinds, Answering, o, d
  <2> QED
    BY <1>2, <2>1, <2>3, <2>4, StillWakes DEF DispatchReply
<1>6. \A v \in Threads : Wakes(v)'
  BY <1>4, <1>5 DEF Wakes
<1> QED
  BY <1>6 DEF SpinWakesUp, Wakes, Replied

\* The ack comes to the thread that waits for it.
LEMMA AckWakes ==
  ASSUME TypeOK, Claims, SpinWakesUp, refusedReplies \subseteq refusedReplies',
         NEW t \in Threads, RunAckEvent(t)
  PROVE  SpinWakesUp'
<1> DEFINE u == Top(t).event.of
<1>1. /\ Depth(t) > 0 /\ Top(t) \in Frames /\ u \in Threads /\ Top(t).stage = "begun"
      /\ Top(t).event.type = "ack" /\ Top(t).event \in EventsOn(t)
  BY RunningTop DEF RunAckEvent
<1>2. ClaimedBy(u, t)
  BY <1>1 DEF ClaimedBy, Pending
<1>3. CASE u \notin awaitingAck
  <2> DEFINE f == [event |-> Top(t).event, stage |-> "joining", awaits |-> Top(t).awaits,
                   whom |-> u]
  <2>1. f.stage # "blocked"
    OBVIOUS
  <2>2. TopBecomes(t, f)
    BY <1>1, <1>3, AckJoins DEF RunAckEvent
  <2> HIDE DEF f
  <2>3. ~Running(t, EventTypes, {"blocked"})'
    BY <1>1, <2>1, <2>2, NotBlocked
  <2>4. ~Running(t, {"sync"}, {"answered"})
    BY <1>1 DEF Running
  <2>5. UNCHANGED <<queue, awaitingAck, pendingSync, requested>>
    BY <1>3 DEF RunAckEvent
  <2>6. \A v \in Threads \ {t} : stack'[v] = stack[v]
    BY <2>2 DEF TopBecomes
  <2> QED
    BY <2>3, <2>4, <2>5, <2>6, OthersWake
<1>4. CASE u \in awaitingAck
  <2>1. /\ stack' = Staged(t, "finished") /\ awaitingAck' = awaitingAck \ {u}
        /\ UNCHANGED <<queue, pendingSync, requested>>
    BY <1>4 DEF RunAckEvent
  <2> DEFINE f == [Top(t) EXCEPT !.stage = "finished"]
  <2>2. f.stage # "blocked"
    BY <1>1, StageOf DEF Stages
  <2>3. TopBecomes(t, f)
    BY <1>1, <2>1, Staging DEF Stages
  <2> HIDE DEF f, u
  <2>4. ~Running(t, EventTypes, {"blocked"})'
    BY <1>1, <2>2, <2>3, NotBlocked
  <2>5. ASSUME NEW v \in Threads \ {t}, Running(v, EventTypes, {"blocked"})', Satisfied(v)'
        PROVE  queue'[v] # <<>> \/ Replied(v)'
    <3>1. stack'[v] = stack[v] /\ Depth(v)' = Depth(v) /\ Top(v)' = Top(v)
      BY <2>3 DEF TopBecomes, Depth, Top
    <3>2. Running(v, EventTypes, {"blocked"}) /\ Depth(v) \in 1 .. Depth(v)
      BY <2>5, <3>1, DepthType DEF Running
    <3>3. ~(Top(v).awaits = "ack" /\ Top(v).whom = u)
      <4>1. SUFFICES ASSUME Top(v).awaits = "ack", Top(v).whom = u PROVE FALSE
        OBVIOUS
      <4>2. u \in Waited(v)
        BY <1>1, <3>2, <4>1 DEF Waited, Joins, Top
      <4>3. ClaimedBy(u, v)
        BY <4>2 DEF ClaimedBy
      <4> QED
        BY <1>1, <1>2, <4>3, Zenon DEF Claims
    <3>4. Satisfied(v)
      BY <2>1, <2>5, <3>1, <3>3 DEF Satisfied
    <3>5. queue[v] # <<>> \/ Replied(v)
      BY <3>2, <3>4 DEF SpinWakesUp, Replied
    <3>6. ASSUME NEW w \in Threads, Answering(w, v) PROVE Answering(w, v)'
      BY <1>1, <2>3, <3>1, <3>6 DEF Answering, Running, TopBecomes, Depth, Top
    <3> QED
      BY <2>1, <3>1, <3>5, <3>6 DEF Replied
  <2>6. \A v \in Threads : Wakes(v)'
    BY <2>4, <2>5 DEF Wakes
  <2> QED
    BY <2>6 DEF SpinWakesUp, Wakes, Replied
<1> QED
  BY <1>3, <1>4

LEMMA AllWake ==
  ASSUME TypeOK, NothingStranded, Told, Claims, OneManager, SpinWakesUp, [Next]_vars,
         refusedReplies \subseteq refusedReplies'
  PROVE  SpinWakesUp'
<1>0. Main \in Threads
  BY ThreadsAssumption
<1>a. ASSUME NEW u \in Threads, NEW e \in Events, queue' = Put(queue, u, e) \/ UNCHANGED queue
      PROVE  \A v \in Threads : queue[v] # <<>> => queue'[v] # <<>>
  BY <1>a, Putting
<1>1. ASSUME NEW t \in Threads, DispatchTask(t) PROVE SpinWakesUp'
  <2>1. Task \in Events
    BY ThreadsAssumption, EventType DEF Task, EventTypes
  <2> QED
    BY <1>1, <1>a, <2>1, AllStillWake DEF DispatchTask
<1>2. ASSUME NEW t \in Threads, ProcessNextEvent(t) PROVE SpinWakesUp'
  <2> DEFINE e == Head(queue[t])
  <2>1. e \in Events /\ \A v \in Threads \ {t} : queue'[v] = queue[v]
    BY <1>2, Taking DEF ProcessNextEvent
  <2>2. Begins(t, e)
    BY <1>2, <2>1, Beginning DEF ProcessNextEvent
  <2> HIDE DEF e
  <2>3. Top(t)'.stage = "begun"
    BY <2>1, <2>2, BegunEvents DEF Begun
  <2>4. ~Running(t, EventTypes, {"blocked"})'
    BY <2>3 DEF Running
  <2>5. ~Running(t, {"sync"}, {"answered"})
    BY <1>2 DEF ProcessNextEvent, Running
  <2>6. /\ \A v \in Threads \ {t} : stack'[v] = stack[v]
        /\ UNCHANGED <<awaitingAck, pendingSync, requested>>
    BY <1>2, <2>2 DEF ProcessNextEvent, Begins
  <2> QED
    BY <2>1, <2>4, <2>5, <2>6, OthersWake
<1>3. ASSUME NEW t \in Threads, Return(t) PROVE SpinWakesUp'
  <2>1. Depth(t) > 0 /\ ~Running(t, {"sync"}, {"answered"})
    BY <1>3 DEF Return, Running
  <2>2. Unwinds(t)
    BY <1>3, <2>1, Unwinding DEF Return
  <2>3. ~Running(t, EventTypes, {"blocked"})'
    BY <2>1, <2>2, NotBlockedAgain
  <2>4. /\ \A v \in Threads \ {t} : stack'[v] = stack[v]
        /\ UNCHANGED <<queue, awaitingAck, pendingSync, requested>>
    BY <1>3, <2>2 DEF Return, Unwinds
  <2> QED
    BY <2>1, <2>3, <2>4, OthersWake
<1>4. ASSUME NEW t \in Threads, JustRun(t) \/ RunReply(t) \/ RunShutdownEvent(t)
      PROVE  SpinWakesUp'
  <2>1. Depth(t) > 0 /\ Top(t).stage = "begun" /\ stack' = Staged(t, "finished")
    BY <1>4 DEF JustRun, InClient, RunReply, RunShutdownEvent, Running
  <2>2. UNCHANGED <<queue, awaitingAck, pendingSync, requested>>
    BY <1>4 DEF JustRun, RunReply, RunShutdownEvent
  <2> QED
    BY <2>1, <2>2, StagedWake DEF Stages
<1>5. ASSUME NEW t \in Threads, NEW u \in Threads, Asks(t, u) PROVE SpinWakesUp'
  <2> DEFINE e == Event("shutdown", t, 0)
  <2>1. Depth(t) > 0 /\ Top(t).stage = "begun" /\ UNCHANGED pendingSync
    BY <1>5, Asking DEF Running
  <2>2. e \in Events
    BY EventType DEF EventTypes
  <2>3. queue' = queue \/ queue' = Put(queue, u, e)
    BY <1>5, Asking
  <2>4. \A v \in Threads : queue[v] # <<>> => queue'[v] # <<>>
    BY <1>a, <2>2, <2>3
  <2>5. /\ awaitingAck \subseteq awaitingAck'
        /\ requested' = requested \/ requested' = [requested EXCEPT ![t] = @ \cup {u}]
    BY <1>5, Asking
  <2>6. \A v \in Threads : requested[v] \subseteq requested'[v]
    BY <2>5 DEF TypeOK
  <2>7. \/ stack' = Staged(t, "finished") \/ stack' = Spinning(t, "ack", u)
        \/ UNCHANGED stack
    BY <1>5, Asking
  <2>8. CASE stack' = Staged(t, "finished")
    BY <2>1, <2>4, <2>5, <2>6, <2>8, StagedWake DEF Stages
  <2>9. CASE stack' = Spinning(t, "ack", u)
    BY <2>1, <2>4, <2>5, <2>6, <2>9, SpinningWake
  <2>10. CASE UNCHANGED stack
    <3>1. ASSUME NEW v \in Threads PROVE Wakes(v)'
      <4>1. Wakes(v)
        BY DEF SpinWakesUp, Wakes, Replied
      <4> QED
        BY <2>1, <2>4, <2>5, <2>6, <2>10, <4>1, StillWakes
    <3> QED
      BY <3>1 DEF SpinWakesUp, Wakes, Replied
  <2> QED
    BY <2>7, <2>8, <2>9, <2>10
<1>6. ASSUME NEW t \in Threads, NEW u \in Threads, Syncs(t, u) PROVE SpinWakesUp'
  <2>1. Depth(t) > 0 /\ Top(t).stage = "begun" /\ Depth(t) \in Nat
    BY <1>6, DepthType DEF Syncs, MayCall, InClient, Running
  <2>2. Event("sync", t, Depth(t)) \in Events
    BY <2>1, EventType DEF EventTypes
  <2>3. \A v \in Threads : queue[v] # <<>> => queue'[v] # <<>>
    BY <1>6, <1>a, <2>2 DEF Syncs
  <2> QED
    BY <1>6, <2>1, <2>3, SpinningWake DEF Syncs
<1>7. ASSUME NEW t \in Threads, JoinThread(t) PROVE SpinWakesUp'
  <2>1. /\ Depth(t) > 0 /\ Top(t).stage = "joining"
        /\ \E stage \in {"begun", "finished"} : stack' = Staged(t, stage)
        /\ UNCHANGED <<queue, awaitingAck, pendingSync>>
    BY <1>7 DEF JoinThread, Running
  <2>2. \A v \in Threads \ {t} : requested'[v] = requested[v]
    BY <1>7 DEF JoinThread, TypeOK
  <2> QED
    BY <2>1, <2>2, StagedWake DEF Stages
<1>8. ASSUME NEW t \in Threads, Ends(t) PROVE SpinWakesUp'
  BY <1>8, AllStillWake DEF Ends, LeaveLoop, Doom, Exit
<1>9. ASSUME NEW t \in Threads, DispatchAck(t) PROVE SpinWakesUp'
  <2>1. context[t] \in Threads /\ Event("ack", t, 0) \in Events
    BY <1>9, EventType DEF DispatchAck, Told, EventTypes
  <2> QED
    BY <1>9, <1>a, <2>1, AllStillWake DEF DispatchAck
<1>10. CASE ManagerShutdown
  <2>1. stack'[Main] = <<Begun(Event("manager", Main, 0))>>
    BY <1>0, <1>10 DEF ManagerShutdown, TypeOK
  <2>2. Top(Main)'.stage = "begun"
    BY <2>1 DEF Top, Depth, Begun
  <2>3. ~Running(Main, EventTypes, {"blocked"})' /\ ~Running(Main, {"sync"}, {"answered"})
    BY <1>10, <2>2 DEF Running, ManagerShutdown
  <2>4. /\ \A v \in Threads \ {Main} : stack'[v] = stack[v]
        /\ UNCHANGED <<queue, awaitingAck, pendingSync, requested>>
    BY <1>0, <1>10 DEF ManagerShutdown, TypeOK
  <2> QED
    BY <1>0, <2>3, <2>4, OthersWake
<1>11. CASE ManagerWaitsForAll
  <2>1. Depth(Main) > 0 /\ Top(Main).stage = "begun"
    BY <1>11 DEF ManagerWaitsForAll, Running
  <2> QED
    BY <1>0, <1>11, <2>1, SpinningWake DEF ManagerWaitsForAll
<1>12. CASE ManagerReturns
  <2>1. Depth(Main)' = 0
    BY <1>0, <1>12 DEF ManagerReturns, Depth, TypeOK
  <2>2. ~Running(Main, EventTypes, {"blocked"})' /\ ~Running(Main, {"sync"}, {"answered"})
    BY <1>12, <2>1 DEF Running, ManagerReturns
  <2>3. /\ \A v \in Threads \ {Main} : stack'[v] = stack[v]
        /\ UNCHANGED <<queue, awaitingAck, pendingSync, requested>>
    BY <1>0, <1>12 DEF ManagerReturns, TypeOK
  <2> QED
    BY <1>0, <2>2, <2>3, OthersWake
<1>13. CASE UNCHANGED Kept
  BY <1>13, AllStillWake DEF Kept
<1> QED
  BY <1>1, <1>2, <1>3, <1>4, <1>5, <1>6, <1>7, <1>8, <1>9, <1>10, <1>11, <1>12, <1>13,
     CheckWakes, AnswerWakes, ReplyWakes, AckWakes, Steps, Zenon DEF Moves

LEMMA WakesStep ==
  ASSUME TypeOK, NothingStranded, Told, Claims, OneManager, SpinWakesUp, [Next]_vars
  PROVE  SpinWakesUp'
  BY RefusalStep, AllWake

-----------------------------------------------------------------------------
(* The invariant *)

LEMMA Initially == ASSUME Init PROVE IInv
<1>a. Rest
  BY ThreadsAssumption DEF Init, Rest
<1>b. RefusalTypes
  BY DEF Init, RefusalTypes
<1>1. TypeOK
  BY <1>a, <1>b DEF Init, TypeOK, Rest, RefusalTypes
<1>2. /\ \A t \in Threads : Queued(t) = {} /\ EventsOn(t) = {} /\ Waited(t) = {}
      /\ \A t \in Threads : Depth(t) = 0
  BY DEF Init, Queued, EventsOn, Waited, Depth
<1>3. \A u, t \in Threads : ~ClaimedBy(u, t)
  BY <1>2, ThreadsAssumption DEF Init, ClaimedBy, Pending
<1>4. Claims
  BY <1>3 DEF Claims
<1>5. OneManager /\ ManagerWaits
  BY <1>2, ThreadsAssumption DEF Init, OneManager, ManagerWaits, Managing
<1>6. NothingStranded /\ Outlives /\ Told /\ SpinWakesUp
  BY <1>2 DEF Init, NothingStranded, Outlives, Told, SpinWakesUp, Doomed, Running
<1>7. JoinedBeforeForgotten
  BY DEF Init, JoinedBeforeForgotten
<1> QED
  BY <1>1, <1>4, <1>5, <1>6, <1>7 DEF IInv

LEMMA Preserved == ASSUME IInv, [Next]_vars PROVE IInv'
  BY TypeStep, ToldStep, StrandedStep, ClaimsStep, OneManagerStep, ManagerWaitsStep,
     OutlivesStep, JoinedStep, WakesStep DEF IInv

LEMMA Invariant == Spec => []IInv
  BY Initially, Preserved, PTL DEF Spec

\* Every variable has its type: no event is one of no kind, none is dispatched
\* to a thread that does not exist.
THEOREM Types == Spec => []TypeOK
<1>1. IInv => TypeOK
  BY DEF IInv
<1> QED
  BY <1>1, Invariant, PTL

\* A queue that refuses events has run all that it took, and its thread is in no
\* event (nsThread::ThreadFunc).
THEOREM EverythingIsRun == Spec => []NothingStranded
<1>1. IInv => NothingStranded
  BY DEF IInv
<1> QED
  BY <1>1, Invariant, PTL

\* The ack of a thread that was told to stop comes to the thread that joins it,
\* while that one still runs events and has the context (nsThread::ThreadFunc,
\* nsThread::ShutdownComplete).
THEOREM AcksAreDelivered == Spec => []AckDeliverable
<1>1. ASSUME IInv PROVE AckDeliverable
  <2> SUFFICES ASSUME NEW t \in Threads, NEW u \in Threads, u \in requested[t]
               PROVE  /\ ~Doomed(t) /\ phase[t] # "dead"
                      /\ context[u] \in {t, NoThread}
    BY DEF AckDeliverable
  <2>1. ~Doomed(t) /\ phase[t] # "dead"
    BY <1>1 DEF IInv, Outlives
  <2>2. ASSUME NEW v \in Threads, context[u] = v PROVE v = t
    <3>1. ClaimedBy(u, t) /\ ClaimedBy(u, v)
      BY <2>2 DEF ClaimedBy
    <3> QED
      BY <1>1, <3>1, Zenon DEF IInv, Claims
  <2> QED
    BY <1>1, <2>1, <2>2 DEF IInv, TypeOK
<1> QED
  BY <1>1, Invariant, PTL

\* No thread that was told to stop is forgotten before it is gone
\* (nsThread::ShutdownInternal, nsThread::ShutdownComplete).
THEOREM NobodyIsForgotten == Spec => []JoinedBeforeForgotten
<1>1. IInv => JoinedBeforeForgotten
  BY DEF IInv
<1> QED
  BY <1>1, Invariant, PTL

\* A thread does not sleep in a nested loop that could end: an event wakes it,
\* but if it refused the reply to its own sync dispatch (SpinEventLoopUntil in
\* nsThread::Shutdown and in DISPATCH_SYNC, ThreadEventTarget.cpp:116).
THEOREM NestedLoopsAreWoken == Spec => []SpinWakesUp
<1>1. IInv => SpinWakesUp
  BY DEF IInv
<1> QED
  BY <1>1, Invariant, PTL

-----------------------------------------------------------------------------
(* The last act of the thread manager *)

LEMMA AllowedStep ==
  ASSUME TypeOK, Allowed, [Next]_vars PROVE Allowed'
<1> SUFFICES ASSUME NEW t \in Threads \ {Main}, NEW u \in Threads, u \in requested'[t]
             PROVE  <<t, u>> \in MayStop
  BY DEF Allowed
<1> QED
  BY RequestMoves DEF Allowed

\* Among threads of which some are left one stands first.
LEMMA HasFirst ==
  ASSUME NEW rank \in [Threads -> Nat], NEW S \in SUBSET Threads, S # {}
  PROVE  \E first \in S : \A other \in S : rank[first] <= rank[other]
<1> DEFINE Ranks == {rank[t] : t \in S}
<1>1. Ranks \subseteq Nat /\ Ranks # {}
  OBVIOUS
<1>2. PICK a \in Ranks : \A b \in Ranks : <<b, a>> \notin OpToRel(<, Nat)
  <2> HIDE DEF Ranks
  <2> QED
    BY <1>1, NatLessThanWellFounded, WFMin, Zenon
<1>3. \A b \in Ranks : a <= b
  <2> HIDE DEF Ranks
  <2>1. \A b \in Ranks : ~(b < a)
    BY <1>1, <1>2, Zenon DEF OpToRel
  <2> QED
    BY <1>1, <2>1
<1>4. PICK first \in S : rank[first] = a
  OBVIOUS
<1>5. \A other \in S : rank[other] \in Ranks
  OBVIOUS
<1> QED
  BY <1>3, <1>4, <1>5

\* Nobody stops a thread of its own rank, or of a lower one.
Ordered(rank) == \A t, u \in Threads : <<t, u>> \in MayStop => rank[t] < rank[u]

LEMMA LastStep ==
  ASSUME NEW rank \in [Threads -> Nat], Ordered(rank),
         IInv, Allowed, NoBackgroundThreads, [Next]_vars
  PROVE  NoBackgroundThreads'
<1> SUFFICES ASSUME phase'[Main] = "dead" PROVE \A t \in Threads : phase'[t] = "dead"
  BY DEF NoBackgroundThreads
<1>0. Main \in Threads /\ TypeOK
  BY ThreadsAssumption DEF IInv
<1>1. CASE phase[Main] = "dead"
  <2>1. \A t \in Threads : phase[t] = "dead"
    BY <1>1 DEF NoBackgroundThreads
  <2> QED
    BY <1>0, <2>1, PhaseMoves DEF Doom
<1>2. CASE phase[Main] # "dead"
  <2>1. ManagerReturns
    BY <1>0, <1>2, PhaseMoves DEF Doom, IInv, OneManager
  <2>2. Manager.stage = "finished" /\ Managing
    <3>1. Depth(Main) > 0 /\ Top(Main).event.type = "manager" /\ Top(Main).stage = "finished"
      BY <2>1 DEF ManagerReturns, Running
    <3> QED
      BY <1>0, <3>1, ManagerTop DEF IInv
  <2>3. required = {} /\ requested[Main] = {}
    BY <2>2 DEF IInv, ManagerWaits
  <2> DEFINE Alive == {t \in Threads \ {Main} : phase[t] # "dead"}
  <2>4. ASSUME Alive # {} PROVE FALSE
    <3>1. PICK u \in Alive : \A other \in Alive : rank[u] <= rank[other]
      BY <2>4, HasFirst
    <3>2. PICK t \in Threads : u \in requested[t]
      BY <2>3 DEF IInv, JoinedBeforeForgotten
    <3>3. t \in Alive /\ <<t, u>> \in MayStop
      BY <2>3, <3>2 DEF IInv, Outlives, Allowed
    <3>4. rank[t] < rank[u] /\ rank[u] <= rank[t]
      BY <3>1, <3>3 DEF Ordered
    <3>5. rank[t] \in Nat /\ rank[u] \in Nat
      OBVIOUS
    <3> QED
      BY <3>4, <3>5
  <2> QED
    BY <1>0, <2>1, <2>4 DEF ManagerReturns, TypeOK
<1> QED
  BY <1>1, <1>2

\* Where threads stop one another in some order, no thread is left when
\* nsThreadManager::Shutdown returns ("There are no more background threads at
\* this point"), also of those that another thread stops asynchronously.
THEOREM NoneIsLeft ==
  ASSUME NEW rank \in [Threads -> Nat], Ordered(rank)
  PROVE  Spec => []NoBackgroundThreads
<1> DEFINE Inv == IInv /\ Allowed /\ NoBackgroundThreads
<1>1. Init => Inv
  <2>1. Init => Allowed /\ NoBackgroundThreads
    BY ThreadsAssumption DEF Init, Allowed, NoBackgroundThreads
  <2> QED
    BY <2>1, Initially
<1>2. Inv /\ [Next]_vars => Inv'
  <2> SUFFICES ASSUME Inv, [Next]_vars PROVE Inv'
    OBVIOUS
  <2>1. IInv' /\ Allowed'
    BY Preserved, AllowedStep DEF IInv
  <2>2. NoBackgroundThreads'
    BY LastStep
  <2> QED
    BY <2>1, <2>2
<1>3. Inv => NoBackgroundThreads
  OBVIOUS
<1> QED
  BY <1>1, <1>2, <1>3, PTL DEF Spec

=============================================================================
