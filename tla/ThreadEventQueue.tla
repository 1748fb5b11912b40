------------------------- MODULE ThreadEventQueue -------------------------
(***************************************************************************)
(* ThreadEventQueue (xpcom/threads/ThreadEventQueue.cpp): the monitor-     *)
(* protected event queue every nsThread owns, with an EventQueue inside    *)
(* or, on the main thread, a PrioritizedEventQueue.                        *)
(*                                                                         *)
(* Any thread may put an event; only the owning thread gets events, pushes *)
(* and pops nested queues, and finally asks the queue to refuse everything *)
(* from then on.  Each action below is one critical section of mLock.  An  *)
(* operation gives the lock up in mEventsAvailable.Wait(), and, of a       *)
(* prioritized queue, while it asks the IdlePeriodState whether it is time *)
(* for idle events.  Of the priorities there are two here, normal and      *)
(* idle.                                                                   *)
(***************************************************************************)
EXTENDS Integers, Sequences, SequencesExt

CONSTANTS
  Events,    \* the runnables that get dispatched, each at most once
  MaxPushes  \* bound on the calls of PushEventQueue

ASSUME MaxPushesAssumption == MaxPushes \in Nat

\* Where events are put: into the base queue (Base), there with idle priority
\* (Idle), or through the NestedSink made by the n-th PushEventQueue.
Base == 0
Idle == -1
Sinks == Idle .. MaxPushes

VARIABLES
  prioritized, \* mBaseQueue is a PrioritizedEventQueue
  queue,      \* per sink: the events in its EventQueue, oldest first
  levels,     \* the sinks of mBaseQueue and mNestedQueues; the last is topmost
  pushes,     \* the number of nested queues pushed so far
  connected,  \* the NestedSinks whose mQueue is not null
  doomed,     \* mEventsAreDoomed
  owner,      \* the owning thread: running, waiting for an event, or exited; in
              \* the IdlePeriodState, called by GetEvent (updating) or by
              \* HasPendingEvent (peeking)
  signaled,   \* mEventsAvailable was notified since the owner began to wait
  promised,   \* mHasPendingEventsPromisedIdleEvent
  shuttingDown, \* the thread or XPCOM is shutting down
  sentTo,     \* history: the sink each event was put to
  fate,       \* history: what became of each event
  owed        \* history: per sink, the events it accepted and not yet
              \* taken, in the order of the puts

nestVars == <<levels, pushes, connected>>
idleVars == <<prioritized, promised, shuttingDown>>
vars == <<queue, nestVars, doomed, owner, signaled, idleVars, sentTo, fate, owed>>

Fates == {"new", "queued", "refused", "taken"}

TypeOK ==
  /\ queue \in [Sinks -> Seq(Events)]
  /\ levels \in Seq(Sinks) /\ levels # <<>>
  /\ pushes \in 0 .. MaxPushes
  /\ connected \in SUBSET Sinks
  /\ doomed \in BOOLEAN
  /\ owner \in {"running", "waiting", "updating", "peeking", "exited"}
  /\ signaled \in BOOLEAN
  /\ prioritized \in BOOLEAN /\ promised \in BOOLEAN /\ shuttingDown \in BOOLEAN
  /\ sentTo \in [Events -> Sinks]
  /\ fate \in [Events -> Fates]
  /\ owed \in [Sinks -> Seq(Events)]

Init ==
  /\ queue = [s \in Sinks |-> <<>>]
  /\ levels = <<Base>>
  /\ pushes = 0
  /\ connected = {}
  /\ doomed = FALSE
  /\ owner = "running"
  /\ signaled = FALSE
  /\ prioritized \in BOOLEAN
  /\ promised = FALSE
  /\ shuttingDown = FALSE
  /\ sentTo = [e \in Events |-> Base]
  /\ fate = [e \in Events |-> "new"]
  /\ owed = [s \in Sinks |-> <<>>]

-----------------------------------------------------------------------------
(* Putting events: any thread *)

\* PutEventInternal turns an event away when the queue is doomed, or when the
\* sink it came through has been disconnected.
Refuses(s) == doomed \/ s \notin connected \cup {Base, Idle}

\* Mutant: the notification is forgotten.
NotNotified == signaled

\* The condition variable keeps no memory: a notification that finds nobody
\* waiting is gone.
Notified == signaled \/ owner = "waiting"

\* "Should only queue idle runnables on main thread", the owner.
PutEvent(e, s) ==
  /\ fate[e] = "new"
  /\ s <= pushes
  /\ s = Idle => prioritized /\ owner = "running"
  /\ sentTo' = [sentTo EXCEPT ![e] = s]
  /\ \/ /\ Refuses(s)
        /\ fate' = [fate EXCEPT ![e] = "refused"]
        /\ UNCHANGED <<queue, signaled, owed>>
     \/ /\ ~Refuses(s)
        /\ queue' = [queue EXCEPT ![s] = Append(@, e)]
        /\ fate' = [fate EXCEPT ![e] = "queued"]
        /\ owed' = [owed EXCEPT ![s] = Append(@, e)]
        /\ signaled' = Notified
  /\ UNCHANGED <<nestVars, doomed, owner, idleVars>>

-----------------------------------------------------------------------------
(* The owning thread *)

Top == levels[Len(levels)]

\* GetEvent asks the idle state, and returns as far as that is concerned.
HasIdleState == prioritized /\ Top = Base

\* A queue's GetEvent hands out its oldest event, and the promise of
\* HasPendingEvent is forgotten (ForgetPendingTaskGuarantee).  That it is also the
\* oldest of its sink, which owed strikes, is for ImplementsEventTarget to show.
TakeFrom(s) ==
  /\ queue[s] # <<>>
  /\ queue' = [queue EXCEPT ![s] = Tail(@)]
  /\ fate' = [fate EXCEPT ![Head(queue[s])] = "taken"]
  /\ owed' = [owed EXCEPT ![sentTo[Head(queue[s])]] = Tail(@)]
  /\ owner' = "running"
  /\ signaled' = FALSE
  /\ promised' = (promised /\ ~HasIdleState)

StartWaiting ==
  /\ owner' = "waiting"
  /\ signaled' = FALSE
  /\ UNCHANGED <<queue, fate, owed, promised>>

\* The loop of GetEvent up to its return or to where it gives the lock up.  A
\* prioritized queue hands out no idle event before it has asked the idle state,
\* and it asks also when it has no events, to tell so.
Look ==
  \/ TakeFrom(Top)
  \/ /\ queue[Top] = <<>>
     /\ ~HasIdleState
     /\ StartWaiting
  \/ /\ queue[Top] = <<>>
     /\ HasIdleState
     /\ owner' = "updating"
     /\ signaled' = FALSE
     /\ UNCHANGED <<queue, fate, owed, promised>>

\* With aMayWait false and nothing queued a plain queue returns null and changes
\* nothing.
GetEvent ==
  /\ owner = "running"
  /\ Look
  /\ UNCHANGED <<nestVars, doomed, prioritized, shuttingDown, sentTo>>

\* Wait() returns, notified or spuriously as condition variables may, and the
\* for(;;) of GetEvent looks at the queues again.
ReturnFromWait ==
  /\ owner = "waiting"
  /\ Look
  /\ UNCHANGED <<nestVars, doomed, prioritized, shuttingDown, sentTo>>

\* Whether GetIdleDeadlineInternal gives a deadline, so that idle events may run:
\* as the idle period and the idle token have it, but always in a shutdown, and
\* if HasPendingEvent has promised an event.
IsIdleTime == IF promised \/ shuttingDown THEN {TRUE} ELSE BOOLEAN

\* PrioritizedEventQueue::GetEvent, with the answer of the idle state: normal events
\* come first, and idle ones only in idle time.
TakeByPriority(idleTime) ==
  \/ TakeFrom(Base)
  \/ queue[Base] = <<>> /\ idleTime /\ TakeFrom(Idle)

\* It has no event that may run.
NoneReady(idleTime) == queue[Base] = <<>> /\ (idleTime => queue[Idle] = <<>>)

\* Mutant: it is not looked again at the queue.
SleepAfterUpdate ==
  /\ owner = "updating"
  /\ \E idleTime \in IsIdleTime :
       \/ idleTime /\ TakeFrom(Idle)
       \/ (idleTime => queue[Idle] = <<>>) /\ StartWaiting
  /\ UNCHANGED <<nestVars, doomed, prioritized, shuttingDown, sentTo>>

\* GetEvent, with the lock again: "we must try to get a runnable again before we
\* start sleeping".  With aMayWait false it returns null.
LookAgain ==
  /\ owner = "updating"
  /\ \E idleTime \in IsIdleTime :
       \/ TakeByPriority(idleTime)
       \/ /\ NoneReady(idleTime)
          /\ \/ StartWaiting
             \/ /\ owner' = "running"
                /\ promised' = FALSE
                /\ UNCHANGED <<queue, fate, owed, signaled>>
  /\ UNCHANGED <<nestVars, doomed, prioritized, shuttingDown, sentTo>>

\* Of other queues HasPendingEvent changes nothing; and this one says at once
\* that there is a normal event, or nothing.
HasPendingEvent ==
  /\ owner = "running"
  /\ HasIdleState
  /\ promised' = FALSE
  /\ owner' = IF queue[Base] = <<>> /\ queue[Idle] # <<>> THEN "peeking" ELSE "running"
  /\ UNCHANGED <<queue, nestVars, doomed, signaled, prioritized, shuttingDown, sentTo, fate, owed>>

\* "If it returns non-null then GetDeadlineForIdleTask will return non-null until
\* ForgetPendingTaskGuarantee() is called" (IdlePeriodState.h:82-84).
HasPendingEventPeeked ==
  /\ owner = "peeking"
  /\ \E idleTime \in IsIdleTime : promised' = (idleTime /\ queue[Idle] # <<>>)
  /\ owner' = "running"
  /\ UNCHANGED <<queue, nestVars, doomed, signaled, prioritized, shuttingDown, sentTo, fate, owed>>

\* The thread learns of its shutdown in an event that it runs.
BeginShutdown ==
  /\ owner = "running"
  /\ shuttingDown' = TRUE
  /\ UNCHANGED <<queue, nestVars, doomed, owner, signaled, prioritized, promised, sentTo, fate, owed>>

PushEventQueue ==
  /\ owner = "running"
  /\ pushes < MaxPushes
  /\ pushes' = pushes + 1
  /\ levels' = Append(levels, pushes + 1)
  /\ connected' = connected \cup {pushes + 1}
  /\ UNCHANGED <<queue, doomed, owner, signaled, idleVars, sentTo, fate, owed>>

\* Mutant: the events of the popped queue go with it.
PoppedDropsEvents == [queue EXCEPT ![Top] = <<>>]

\* The queues once the topmost one is popped: its events follow, in their
\* order, those of the queue below it.
Popped ==
  LET below == levels[Len(levels) - 1]
  IN  [queue EXCEPT ![below] = @ \o queue[Top], ![Top] = <<>>]

\* Mutant: the sink of the popped queue stays connected.
PopWithoutDisconnect ==
  /\ owner = "running"
  /\ Len(levels) > 1
  /\ queue' = Popped
  /\ levels' = Front(levels)
  /\ UNCHANGED <<connected, pushes, doomed, owner, signaled, idleVars, sentTo, fate, owed>>

PopEventQueue ==
  /\ owner = "running"
  /\ Len(levels) > 1
  /\ connected' = connected \ {Top}
  /\ queue' = Popped
  /\ levels' = Front(levels)
  /\ UNCHANGED <<pushes, doomed, owner, signaled, idleVars, sentTo, fate, owed>>

\* Called by the last loop of ThreadFunc, which leaves the loop on success.
ShutdownIfNoPendingEvents ==
  /\ owner = "running"
  /\ Len(levels) = 1
  /\ queue[Base] = <<>> /\ queue[Idle] = <<>>
  /\ doomed' = TRUE
  /\ owner' = "exited"
  /\ UNCHANGED <<queue, nestVars, signaled, idleVars, sentTo, fate, owed>>

\* Nothing is left to do once the owner is gone and every event was given away.
Terminated ==
  /\ owner = "exited"
  /\ \A e \in Events : fate[e] # "new"
  /\ UNCHANGED vars

OwnerStep ==
  \/ GetEvent
  \/ ReturnFromWait
  \/ LookAgain
  \/ HasPendingEvent
  \/ HasPendingEventPeeked
  \/ BeginShutdown
  \/ PushEventQueue
  \/ PopEventQueue
  \/ ShutdownIfNoPendingEvents

Next ==
  \/ \E e \in Events, s \in Sinks : PutEvent(e, s)
  \/ OwnerStep
  \/ Terminated

Spec == Init /\ [][Next]_vars

\* The event loop that owns the queue calls GetEvent again and again, whatever
\* else it calls between; the idle state answers; and the scheduler runs a thread
\* whose condition variable was notified.
Fairness ==
  /\ SF_vars(GetEvent)
  /\ WF_vars(LookAgain) /\ WF_vars(HasPendingEventPeeked)
  /\ WF_vars(signaled /\ ReturnFromWait)

FairSpec == Spec /\ Fairness

-----------------------------------------------------------------------------
(* Properties *)

\* Queues, sinks and connections agree: the levels of nesting carry distinct
\* sinks, the sinks that still accept events are exactly those of the nested
\* queues that exist, and a queue that does not exist holds no event.  This is
\* what makes the raw pointer NestedSink::mQueue safe: "It must live at least
\* until Disconnect is called to clear it out" (ThreadEventQueue.cpp:42-44).
SinkQueuesAlive ==
  /\ levels[1] = Base
  /\ \A i, j \in DOMAIN levels : i < j => levels[i] < levels[j]
  /\ connected = {levels[i] : i \in 2 .. Len(levels)}
  /\ \A s \in Sinks : queue[s] # <<>> => s \in connected \cup {Base, Idle}

\* Once the queue refuses events it holds none: the "key invariant" of
\* ThreadFunc (nsThread.cpp:471-476), by which an event whose Dispatch
\* succeeded is run before the thread goes away.
DoomedMeansEmpty == doomed => \A s \in Sinks : queue[s] = <<>>

\* The owner never sleeps through an event: if it waits and nobody has woken
\* it, there is nothing for it to take, whatever came while the lock was released.
\* It may wait over idle events, but not if HasPendingEvent has said that there is
\* one to run.  A nested queue hides the ones below.
NoLostWakeup ==
  owner = "waiting" =>
    /\ ~signaled => queue[Top] = <<>>
    /\ Top = Base => ~promised

\* An accepted event is in exactly one queue, once, until it is handed to the
\* owner, whatever is pushed and popped meanwhile; no other event is queued.
NothingLost ==
  /\ \A e \in Events :
       fate[e] = "queued" <=>
         \E s \in Sinks : \E k \in DOMAIN queue[s] : queue[s][k] = e
  /\ \A s, t \in Sinks : \A k \in DOMAIN queue[s], l \in DOMAIN queue[t] :
       queue[s][k] = queue[t][l] => s = t /\ k = l

\* The queue implements an event target for each sink: events come out in the
\* order in which they went in through that sink, each once, also those a
\* popped queue left behind, and nothing is stranded when the thread exits.
Having(f) == {e \in Events : fate[e] = f}
Abstract ==
  INSTANCE EventTarget WITH
    Targets <- Sinks,
    pending <- owed,
    open <- connected \cup (IF doomed THEN {} ELSE {Base, Idle}),
    delivered <- Having("taken"),
    refused <- Having("refused"),
    finished <- doomed
ImplementsEventTarget == Abstract!Spec

\* An accepted event is eventually run, unless nested event loops keep it
\* covered for ever: no wakeup is lost between Notify and Wait.  An idle event may
\* have to wait for idle time, but at the latest the shutdown runs it, to "ensure
\* that the idle queue gets exhausted" (IdlePeriodState.cpp:106-110).
EventuallyRun ==
  \A e \in Events :
    <>[](Top = Base) =>
      (fate[e] = "queued" /\ (sentTo[e] = Idle => shuttingDown) ~> fate[e] = "taken")
=============================================================================
