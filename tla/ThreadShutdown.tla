-------------------------- MODULE ThreadShutdown --------------------------
(***************************************************************************)
(* How threads stop one another (xpcom/threads/nsThread.cpp).              *)
(*                                                                         *)
(* Every nsThread runs events, one nested in the other when an event spins *)
(* its thread's loop: Shutdown() spins until the ack of the thread it      *)
(* stops, a DISPATCH_SYNC until its runnable was run, and the thread       *)
(* manager, at the end, for all threads.  A thread told to stop leaves its *)
(* loop, drains its queue, dooms it, sends the ack to the thread that      *)
(* stops it and exits; only then can it be joined.                         *)
(*                                                                         *)
(* The queues are those of ThreadEventQueue without its nested queues: the *)
(* critical sections of PutEvent, GetEvent and ShutdownIfNoPendingEvents.  *)
(***************************************************************************)
EXTENDS Integers, Sequences, SequencesExt

CONSTANTS
  Threads,   \* the XPCOM threads
  Main,      \* the main thread
  NoThread,  \* no thread at all
  MayStop,   \* pairs <<t, u>>: code on t may shut u down
  MaySync,   \* pairs <<t, u>>: code on t may dispatch in sync to u
  SyncCalls, \* do the runnables dispatched in sync make such calls, too?
  MaxCalls   \* bound on the events dispatched by clients

ASSUME ThreadsAssumption ==
  /\ Main \in Threads
  /\ NoThread \notin Threads
  /\ MayStop \subseteq Threads \X (Threads \ {Main})
  /\ \A t \in Threads : <<t, t>> \notin MayStop
  /\ MaySync \subseteq Threads \X Threads
  /\ SyncCalls \in BOOLEAN
  /\ MaxCalls \in Nat

VARIABLES
  queue,       \* per thread: the events in mEvents
  stack,       \* per thread: the events being run, outermost first
  phase,       \* per thread: loop, drain, doomed, acked or dead
  context,     \* mShutdownContext: the thread that joins, or NoThread
  required,    \* the threads with mShutdownRequired
  requested,   \* per thread: mRequestedShutdownContexts, by terminating thread
  awaitingAck, \* the threads whose context has mAwaitingShutdownAck
  pendingSync, \* the nsThreadSyncDispatch with mIsPending, by origin and depth
  toStop,      \* threadsToShutdown of nsThreadManager::Shutdown
  calls,       \* how many events clients have dispatched
  gXPCOMThreadsShutDown, \* do the threads but the main one refuse events?
  refusedAcks,           \* history: the threads whose ack was refused
  refusedReplies         \* history: ... and the sync dispatches whose reply was

refusals == <<gXPCOMThreadsShutDown, refusedAcks, refusedReplies>>
vars == <<queue, stack, phase, context, required, requested, awaitingAck,
          pendingSync, toStop, calls, refusals>>

\* of is the joining thread of a shutdown event, the terminating thread of an
\* ack, and with depth names the frame that waits for a sync dispatch.
Event(type, of, depth) == [type |-> type, of |-> of, depth |-> depth]
EventTypes == {"task", "sync", "reply", "shutdown", "ack", "manager"}
Events == [type : EventTypes, of : Threads, depth : Nat]

\* An event being run.  It has begun, or checks a SpinEventLoopUntil predicate,
\* or is blocked in NS_ProcessNextEvent, or joins, or its Run has finished, or
\* (a sync dispatch) has cleared mIsPending.
Stages == {"begun", "checking", "blocked", "joining", "finished", "answered"}
Frames == [event : Events, stage : Stages,
           awaits : {"nothing", "ack", "reply", "shutdowns"}, whom : Threads]
Begun(e) == [event |-> e, stage |-> "begun", awaits |-> "nothing", whom |-> Main]

TypeOK ==
  /\ queue \in [Threads -> Seq(Events)]
  /\ stack \in [Threads -> Seq(Frames)]
  /\ phase \in [Threads -> {"loop", "drain", "doomed", "acked", "dead"}]
  /\ context \in [Threads -> Threads \cup {NoThread}]
  /\ required \in SUBSET (Threads \ {Main})
  /\ requested \in [Threads -> SUBSET Threads]
  /\ awaitingAck \in SUBSET Threads
  /\ pendingSync \in SUBSET (Threads \X Nat)
  /\ toStop \in SUBSET (Threads \ {Main})
  /\ calls \in 0 .. MaxCalls
  /\ gXPCOMThreadsShutDown \in BOOLEAN
  /\ refusedAcks \in SUBSET Threads
  /\ refusedReplies \in SUBSET (Threads \X Nat)

Init ==
  /\ queue = [t \in Threads |-> <<>>]
  /\ stack = [t \in Threads |-> <<>>]
  /\ phase = [t \in Threads |-> "loop"]
  /\ context = [t \in Threads |-> NoThread]
  /\ required = Threads \ {Main}
  /\ requested = [t \in Threads |-> {}]
  /\ awaitingAck = {}
  /\ pendingSync = {}
  /\ toStop = {}
  /\ calls = 0
  /\ gXPCOMThreadsShutDown = FALSE
  /\ refusedAcks = {}
  /\ refusedReplies = {}

-----------------------------------------------------------------------------
(* Queues and frames *)

Doomed(t) == phase[t] \in {"doomed", "acked"} \/ (phase[t] = "dead" /\ t # Main)

\* The queues once e was put to u: a doomed queue refuses it.
Put(q, u, e) == IF Doomed(u) THEN q ELSE [q EXCEPT ![u] = Append(@, e)]

Depth(t) == Len(stack[t])
Top(t) == stack[t][Depth(t)]
Running(t, types, stages) ==
  /\ Depth(t) > 0
  /\ Top(t).event.type \in types
  /\ Top(t).stage \in stages

\* Thread t's stack when its innermost event goes to another stage.
Staged(t, stage) == [stack EXCEPT ![t][Depth(t)].stage = stage]

\* ... when it begins to spin the event loop for something.
Spinning(t, what, u) ==
  [stack EXCEPT ![t][Depth(t)].stage = "checking",
                ![t][Depth(t)].awaits = what,
                ![t][Depth(t)].whom = u]

\* ... and when it returns into the loop of the event around it.
Unwound(t) ==
  [stack EXCEPT ![t] =
     [i \in 1 .. Depth(t) - 1 |->
        IF i = Depth(t) - 1 THEN [@[i] EXCEPT !.stage = "checking"] ELSE @[i]]]

-----------------------------------------------------------------------------
(* Dispatching and running events *)

\* ThreadEventTarget::Dispatch begins with a test: once the flag is set every
\* thread but the main one refuses.  The flag is a plain bool that the main
\* thread sets without a lock: any other thread t may have tested it before.
Refuses(u) == gXPCOMThreadsShutDown /\ u # Main
Accepts(t, u) == t = Main => ~Refuses(u)

\* Anyone dispatches a runnable to thread t.
Task == Event("task", Main, 0)
DispatchTask(t) ==
  /\ calls < MaxCalls
  /\ phase[Main] # "dead"
  /\ calls' = calls + 1
  /\ \/ queue' = Put(queue, t, Task)
     \/ Refuses(t) /\ UNCHANGED queue
  /\ UNCHANGED <<stack, phase, context, required, requested, awaitingAck,
                 pendingSync, toStop, refusals>>

\* The loop of ThreadFunc runs until it was told to quit, that of a nested
\* SpinEventLoopUntil as long as its predicate is false, and the last
\* NS_ProcessPendingEvents of the thread manager as long as there are events.
ProcessNextEvent(t) ==
  /\ queue[t] # <<>>
  /\ \/ Depth(t) = 0 /\ phase[t] = "loop" /\ context[t] = NoThread
     \/ Depth(t) = 0 /\ phase[t] = "drain"
     \/ Running(t, EventTypes, {"blocked"})
     \/ Running(t, {"manager"}, {"finished"})
  /\ stack' = [stack EXCEPT ![t] = Append(@, Begun(Head(queue[t])))]
  /\ queue' = [queue EXCEPT ![t] = Tail(@)]
  /\ UNCHANGED <<phase, context, required, requested, awaitingAck,
                 pendingSync, toStop, calls, refusals>>

\* SpinEventLoopUntil evaluates its predicate, between two events only.
Satisfied(t) ==
  CASE Top(t).awaits = "ack" -> Top(t).whom \notin awaitingAck
    [] Top(t).awaits = "reply" -> <<t, Depth(t)>> \notin pendingSync
    [] OTHER -> requested[t] = {}

CheckPredicate(t) ==
  /\ Running(t, EventTypes, {"checking"})
  /\ stack' = Staged(t, IF ~Satisfied(t) THEN "blocked"
                        ELSE IF Top(t).awaits = "ack" THEN "joining"
                        ELSE "finished")
  /\ UNCHANGED <<queue, phase, context, required, requested, awaitingAck,
                 pendingSync, toStop, calls, refusals>>

\* The innermost runnable is over.  An nsThreadSyncDispatch first lets its
\* origin go on and then wakes it.
Return(t) ==
  /\ Running(t, EventTypes \ {"sync", "manager"}, {"finished"})
  /\ stack' = Unwound(t)
  /\ UNCHANGED <<queue, phase, context, required, requested, awaitingAck,
                 pendingSync, toStop, calls, refusals>>

ClearIsPending(t) ==
  /\ Running(t, {"sync"}, {"finished"})
  /\ pendingSync' = pendingSync \ {<<Top(t).event.of, Top(t).event.depth>>}
  /\ stack' = Staged(t, "answered")
  /\ UNCHANGED <<queue, phase, context, required, requested, awaitingAck,
                 toStop, calls, refusals>>

\* Mutant: the origin is not woken.
ReplyForgotten(t) ==
  /\ Running(t, {"sync"}, {"answered"})
  /\ stack' = Unwound(t)
  /\ UNCHANGED <<queue, phase, context, required, requested, awaitingAck,
                 pendingSync, toStop, calls, refusals>>

DispatchReply(t) ==
  /\ Running(t, {"sync"}, {"answered"})
  /\ stack' = Unwound(t)
  /\ LET e == Top(t).event
     IN  \/ /\ Accepts(t, e.of)
            /\ queue' = Put(queue, e.of, Event("reply", t, 0))
            /\ UNCHANGED refusedReplies
         \/ /\ Refuses(e.of)
            /\ refusedReplies' = refusedReplies \cup {<<e.of, e.depth>>}
            /\ UNCHANGED queue
  /\ UNCHANGED <<phase, context, required, requested, awaitingAck, pendingSync,
                 toStop, calls, gXPCOMThreadsShutDown, refusedAcks>>

-----------------------------------------------------------------------------
(* What the runnables of clients do: one call, or none *)

InClient(t) == Running(t, {"task", "sync"}, {"begun"})
MayCall(t) == InClient(t) /\ (SyncCalls \/ Top(t).event.type = "task")

\* ShutdownInternal, once its compareExchange has found mShutdownRequired.
ShutdownInternal(t, u, aSync) ==
  /\ u \in required
  /\ required' = required \ {u}
  /\ requested' = [requested EXCEPT ![t] = @ \cup {u}]
  /\ awaitingAck' = IF aSync THEN awaitingAck \cup {u} ELSE awaitingAck
  /\ queue' = Put(queue, u, Event("shutdown", t, 0))

JustRun(t) ==
  /\ InClient(t)
  /\ stack' = Staged(t, "finished")
  /\ UNCHANGED <<queue, phase, context, required, requested, awaitingAck,
                 pendingSync, toStop, calls, refusals>>

\* With the shutdown already requested by anyone AsyncShutdown is JustRun.
AsyncShutdown(t, u) ==
  /\ MayCall(t)
  /\ <<t, u>> \in MayStop
  /\ ShutdownInternal(t, u, FALSE)
  /\ stack' = Staged(t, "finished")
  /\ UNCHANGED <<phase, context, pendingSync, toStop, calls, refusals>>

Shutdown(t, u) ==
  /\ MayCall(t)
  /\ <<t, u>> \in MayStop
  /\ \/ /\ ShutdownInternal(t, u, TRUE)
        /\ stack' = Spinning(t, "ack", u)
     \/ /\ u \notin required
        /\ stack' = Staged(t, "finished")
        /\ UNCHANGED <<queue, required, requested, awaitingAck>>
  /\ UNCHANGED <<phase, context, pendingSync, toStop, calls, refusals>>

\* Dispatch with DISPATCH_SYNC; a refusal ends the call.
DispatchSync(t, u) ==
  /\ MayCall(t)
  /\ <<t, u>> \in MaySync
  /\ \/ /\ Accepts(t, u)
        /\ ~Doomed(u)
        /\ calls < MaxCalls
        /\ calls' = calls + 1
        /\ queue' = Put(queue, u, Event("sync", t, Depth(t)))
        /\ pendingSync' = pendingSync \cup {<<t, Depth(t)>>}
        /\ stack' = Spinning(t, "reply", u)
     \/ /\ Refuses(u) \/ Doomed(u)
        /\ stack' = Staged(t, "finished")
        /\ UNCHANGED <<queue, pendingSync, calls>>
  /\ UNCHANGED <<phase, context, required, requested, awaitingAck, toStop,
                 refusals>>

-----------------------------------------------------------------------------
(* The events of the shutdown itself *)

\* nsThreadShutdownEvent
RunShutdownEvent(t) ==
  /\ Running(t, {"shutdown"}, {"begun"})
  /\ context' = [context EXCEPT ![t] = Top(t).event.of]
  /\ stack' = Staged(t, "finished")
  /\ UNCHANGED <<queue, phase, required, requested, awaitingAck, pendingSync,
                 toStop, calls, refusals>>

\* Mutant: whatever is up the stack is not told.
AckAlwaysJoins(t) ==
  /\ Running(t, {"ack"}, {"begun"})
  /\ stack' = [stack EXCEPT ![t][Depth(t)].stage = "joining",
                            ![t][Depth(t)].whom = Top(t).event.of]
  /\ UNCHANGED <<queue, phase, context, required, requested, awaitingAck,
                 pendingSync, toStop, calls, refusals>>

\* nsThreadShutdownAckEvent, which calls ShutdownComplete.
RunAckEvent(t) ==
  /\ Running(t, {"ack"}, {"begun"})
  /\ LET u == Top(t).event.of
     IN  \/ /\ u \in awaitingAck
            /\ awaitingAck' = awaitingAck \ {u}
            /\ stack' = Staged(t, "finished")
         \/ /\ u \notin awaitingAck
            /\ stack' = [stack EXCEPT ![t][Depth(t)].stage = "joining",
                                      ![t][Depth(t)].whom = u]
            /\ UNCHANGED awaitingAck
  /\ UNCHANGED <<queue, phase, context, required, requested, pendingSync,
                 toStop, calls, refusals>>

\* The reply of a sync dispatch finds mSyncTask taken and does nothing.
RunReply(t) ==
  /\ Running(t, {"reply"}, {"begun"})
  /\ stack' = Staged(t, "finished")
  /\ UNCHANGED <<queue, phase, context, required, requested, awaitingAck,
                 pendingSync, toStop, calls, refusals>>

\* Mutant: the context is dropped without a join.
CompleteWithoutJoin(t) ==
  /\ Running(t, EventTypes, {"joining"})
  /\ requested' = [requested EXCEPT ![t] = @ \ {Top(t).whom}]
  /\ stack' = Staged(t, IF Top(t).event.type = "manager" THEN "begun"
                                                         ELSE "finished")
  /\ UNCHANGED <<queue, phase, context, required, awaitingAck, pendingSync,
                 toStop, calls, refusals>>

\* ShutdownComplete from PR_JoinThread on.
JoinThread(t) ==
  /\ Running(t, EventTypes, {"joining"})
  /\ phase[Top(t).whom] = "dead"
  /\ requested' = [requested EXCEPT ![t] = @ \ {Top(t).whom}]
  /\ stack' = Staged(t, IF Top(t).event.type = "manager" THEN "begun"
                                                         ELSE "finished")
  /\ UNCHANGED <<queue, phase, context, required, awaitingAck, pendingSync,
                 toStop, calls, refusals>>

-----------------------------------------------------------------------------
(* The end of ThreadFunc *)

LeaveLoop(t) ==
  /\ phase[t] = "loop" /\ Depth(t) = 0
  /\ context[t] # NoThread
  /\ phase' = [phase EXCEPT ![t] = "drain"]
  /\ UNCHANGED <<queue, stack, context, required, requested, awaitingAck,
                 pendingSync, toStop, calls, refusals>>

\* Mutants: the thread does not wait for those it stops; nor for its queue.
DoomWithoutWaiting(t) ==
  /\ phase[t] = "drain" /\ Depth(t) = 0
  /\ queue[t] = <<>>
  /\ phase' = [phase EXCEPT ![t] = "doomed"]
  /\ UNCHANGED <<queue, stack, context, required, requested, awaitingAck,
                 pendingSync, toStop, calls, refusals>>
DoomWithoutDraining(t) ==
  /\ phase[t] = "drain" /\ Depth(t) = 0
  /\ requested[t] = {}
  /\ phase' = [phase EXCEPT ![t] = "doomed"]
  /\ UNCHANGED <<queue, stack, context, required, requested, awaitingAck,
                 pendingSync, toStop, calls, refusals>>

\* WaitForAllAsynchronousShutdowns, then ShutdownIfNoPendingEvents: no event
\* runs between the two.
Doom(t) ==
  /\ phase[t] = "drain" /\ Depth(t) = 0
  /\ requested[t] = {}
  /\ queue[t] = <<>>
  /\ phase' = [phase EXCEPT ![t] = "doomed"]
  /\ UNCHANGED <<queue, stack, context, required, requested, awaitingAck,
                 pendingSync, toStop, calls, refusals>>

\* To the joining thread, through its ThreadEventTarget; a joiner that refuses
\* the ack waits on.
DispatchAck(t) ==
  /\ phase[t] = "doomed"
  /\ phase' = [phase EXCEPT ![t] = "acked"]
  /\ \/ /\ queue' = Put(queue, context[t], Event("ack", t, 0))
        /\ UNCHANGED refusedAcks
     \/ /\ Refuses(context[t])
        /\ refusedAcks' = refusedAcks \cup {t}
        /\ UNCHANGED queue
  /\ UNCHANGED <<stack, context, required, requested, awaitingAck, pendingSync,
                 toStop, calls, gXPCOMThreadsShutDown, refusedReplies>>

Exit(t) ==
  /\ phase[t] = "acked"
  /\ phase' = [phase EXCEPT ![t] = "dead"]
  /\ UNCHANGED <<queue, stack, context, required, requested, awaitingAck,
                 pendingSync, toStop, calls, refusals>>

-----------------------------------------------------------------------------
(* nsThreadManager::Shutdown, on the main thread's outermost level *)

\* The main thread is about to stop the others (ShutdownXPCOM).  It still runs
\* events.  (A plugin process calls the manager without setting the flag.)
SetThreadsShutDown ==
  /\ phase[Main] = "loop" /\ Depth(Main) = 0
  /\ ~gXPCOMThreadsShutDown
  /\ gXPCOMThreadsShutDown' = TRUE
  /\ UNCHANGED <<queue, stack, phase, context, required, requested, awaitingAck,
                 pendingSync, toStop, calls, refusedAcks, refusedReplies>>

ManagerShutdown ==
  /\ phase[Main] = "loop" /\ Depth(Main) = 0
  /\ queue[Main] = <<>>
  /\ toStop' = required
  /\ stack' = [stack EXCEPT ![Main] = <<Begun(Event("manager", Main, 0))>>]
  /\ UNCHANGED <<queue, phase, context, required, requested, awaitingAck,
                 pendingSync, calls, refusals>>

\* thread->Shutdown() for the next one, in the order of the thread list; it is
\* a no-op if another thread was faster.
ManagerStopsNext(u) ==
  /\ Running(Main, {"manager"}, {"begun"})
  /\ u \in toStop
  /\ toStop' = toStop \ {u}
  /\ \/ /\ ShutdownInternal(Main, u, TRUE)
        /\ stack' = Spinning(Main, "ack", u)
     \/ /\ u \notin required
        /\ UNCHANGED <<queue, stack, required, requested, awaitingAck>>
  /\ UNCHANGED <<phase, context, pendingSync, calls, refusals>>

\* Mutant: the manager forgets the asynchronous shutdowns.
ManagerDoesNotWait ==
  /\ Running(Main, {"manager"}, {"begun"})
  /\ toStop = {}
  /\ stack' = Staged(Main, "finished")
  /\ UNCHANGED <<queue, phase, context, required, requested, awaitingAck,
                 pendingSync, toStop, calls, refusals>>

ManagerWaitsForAll ==
  /\ Running(Main, {"manager"}, {"begun"})
  /\ toStop = {}
  /\ stack' = Spinning(Main, "shutdowns", Main)
  /\ UNCHANGED <<queue, phase, context, required, requested, awaitingAck,
                 pendingSync, toStop, calls, refusals>>

ManagerReturns ==
  /\ Running(Main, {"manager"}, {"finished"})
  /\ queue[Main] = <<>>
  /\ stack' = [stack EXCEPT ![Main] = <<>>]
  /\ phase' = [phase EXCEPT ![Main] = "dead"]
  /\ UNCHANGED <<queue, context, required, requested, awaitingAck,
                 pendingSync, toStop, calls, refusals>>

-----------------------------------------------------------------------------
ClientStep(t) ==
  \/ JustRun(t)
  \/ \E u \in Threads : AsyncShutdown(t, u) \/ Shutdown(t, u) \/ DispatchSync(t, u)

ThreadStep(t) ==
  \/ ProcessNextEvent(t)
  \/ CheckPredicate(t)
  \/ Return(t)
  \/ ClearIsPending(t)
  \/ DispatchReply(t)
  \/ ClientStep(t)
  \/ RunShutdownEvent(t)
  \/ RunAckEvent(t)
  \/ RunReply(t)
  \/ JoinThread(t)
  \/ LeaveLoop(t)
  \/ Doom(t)
  \/ DispatchAck(t)
  \/ Exit(t)

ManagerStep ==
  \/ \E u \in Threads : ManagerStopsNext(u)
  \/ ManagerWaitsForAll
  \/ ManagerReturns

Terminated == phase[Main] = "dead" /\ UNCHANGED vars

Next ==
  \/ \E t \in Threads : DispatchTask(t) \/ ThreadStep(t)
  \/ SetThreadsShutDown
  \/ ManagerShutdown
  \/ ManagerStep
  \/ Terminated

Spec == Init /\ [][Next]_vars

\* The scheduler runs every thread that is not blocked.
Fairness ==
  \A t \in Threads : WF_vars(ThreadStep(t) \/ (t = Main /\ ManagerStep))

FairSpec == Spec /\ Fairness

-----------------------------------------------------------------------------
(* Properties *)

\* What was accepted is run: once a thread's queue refuses events it is empty,
\* and the thread is in no event (the "key invariant" of nsThread.cpp:471-476,
\* here with every way in which events reach a thread that is shutting down).
NothingStranded == \A t \in Threads : Doomed(t) => queue[t] = <<>> /\ Depth(t) = 0

\* A thread that stops others outlives them: while a context of a thread is
\* outstanding the joining thread runs events, so the ack, which names that
\* context by raw pointer, always finds the joiner and its context alive.  (It
\* may still be refused.)
AckDeliverable ==
  \A t, u \in Threads :
    u \in requested[t] =>
      /\ ~Doomed(t) /\ phase[t] # "dead"
      /\ context[u] \in {t, NoThread}

\* Nobody forgets a thread it was told to stop before that thread is gone.
JoinedBeforeForgotten ==
  \A u \in Threads \ {Main} :
    u \in required \/ phase[u] = "dead" \/ \E t \in Threads : u \in requested[t]

\* A nested loop that could end does not stay blocked: when what it waits for
\* has come, an event is there to wake it, or the reply to the very sync dispatch
\* it waits for is still to be sent to it, or was refused by its own thread.
Answering(u, t) ==
  /\ Running(u, {"sync"}, {"answered"})
  /\ Top(u).event.of = t /\ Top(u).event.depth = Depth(t)
SpinWakesUp ==
  \A t \in Threads :
    /\ Running(t, EventTypes, {"blocked"})
    /\ Satisfied(t)
    => \/ queue[t] # <<>>
       \/ /\ Top(t).awaits = "reply"
          /\ \/ \E u \in Threads : Answering(u, t)
             \/ <<t, Depth(t)>> \in refusedReplies

\* "There are no more background threads at this point" (nsThreadManager.cpp
\* :481): whoever stopped them, and however.
NoBackgroundThreads ==
  phase[Main] = "dead" => \A t \in Threads : phase[t] = "dead"

\* Whoever stops a thread, and however deep in nested loops, is at last rid of
\* it; so is the thread manager of all of them.  Nothing but the refusal of an
\* ack or of a reply makes them wait for ever.
Refused == refusedAcks # {} \/ refusedReplies # {}
Stopping ==
  \/ \E u \in Threads \ {Main} : u \notin required /\ phase[u] # "dead"
  \/ Depth(Main) > 0 /\ stack[Main][1].event.type = "manager"
ShutdownCompletes == Stopping ~> ~Stopping \/ Refused
=============================================================================
