------------------------ MODULE LazyIdleThreadProofs ------------------------
(***************************************************************************)
(* What holds of LazyIdleThread for any number of events, whoever          *)
(* dispatches them when.                                                   *)
(*                                                                         *)
(* FreshStart is about a thread that is gone, and says that the counters   *)
(* are what they were before it was made.  That they come to be so needs   *)
(* an account of them while it lives (Counts): each is the number of the   *)
(* events that will lower it.  What is in the queue and not counted, the   *)
(* event that installs the observer and the one that stops the thread, has *)
(* its place there (Order, End).                                           *)
(*                                                                         *)
(* That it is an EventTarget is about the tasks among the events: what is  *)
(* owed is what the thread has and what is kept (Placed), in the order of  *)
(* the calls (InTurn).                                                     *)
(***************************************************************************)
EXTENDS LazyIdleThread, TLAPS

\* The observer is not there yet, as InitThread comes first.
Ahead == queue # <<>> /\ queue[1] = "init"

\* The thread was asked to stop and has not been told yet.
Ending == spinning /\ real = "alive"

\* Which parts of the state go together.
Phases ==
  /\ hasThread <=> real # "none"
  /\ doing # "stoppingAgain"
  /\ doing # "nothing" => hasThread
  /\ doing = "stopping" => ~spinning
  /\ spinning => hasThread
  /\ useQueue <=> spinning
  /\ ~hasThread => queue = <<>> /\ mail = <<>> /\ step = "idle"
  /\ timer # "null" => hasThread /\ ~spinning /\ doing # "stopping"
  /\ cleanedUp => spinning /\ ~observer /\ step # "notify"
  /\ real \in {"stopped", "ended"} => cleanedUp /\ queue = <<>> /\ step = "idle"
  /\ acked => real = "ended" /\ mail = <<>>

\* InitThread is the first event, CleanupThread and the stop are the last.
Order ==
  \A i \in 1 .. Len(queue) :
    /\ queue[i] = "init" => i = 1 /\ ~observer /\ step = "idle"
    /\ queue[i] = "cleanup" => i = Len(queue) - 1 /\ spinning /\ ~cleanedUp
    /\ queue[i] = "stop" => i = Len(queue) /\ spinning

\* A thread that is about to end has these events before it.
End ==
  /\ Ending => queue # <<>> /\ queue[Len(queue)] = "stop"
  /\ Ending /\ cleanedUp => Len(queue) = 1
  /\ Ending /\ ~cleanedUp => Len(queue) >= 2 /\ queue[Len(queue) - 1] = "cleanup"
  /\ real = "alive" /\ ~cleanedUp => observer \/ Ahead

\* The ack is the last the owner hears of a thread.
Letters ==
  /\ \A i \in 1 .. Len(mail) : mail[i] = "ack" => i = Len(mail) /\ real = "ended" /\ ~acked
  /\ real = "ended" /\ ~acked => mail # <<>> /\ mail[Len(mail)] = "ack"

\* What is kept for the next thread was dispatched by the owner's clients.
Clients == \A i \in 1 .. Len(queued) : queued[i] \notin {"init", "cleanup", "stop"}

\* What the counters count: the events whose AfterProcessNextEvent is to come, with
\* the pretended one, and the ScheduleTimers that are to come.
One(b) == IF b THEN 1 ELSE 0
Counts ==
  /\ pendingCount =
       Len(queue) - One(Ahead) - One(Ending) + One(step = "after") + One(~enabled)
  /\ idleCount = Len(mail) + One(step = "notify") - One(real = "ended" /\ ~acked)

Life == Phases /\ Order /\ End /\ Letters /\ Clients /\ Counts

\* Once Shutdown is called nothing is kept any more, and the thread is being stopped.
Closing ==
  /\ isShutdown => timer = "null" /\ doing # "enabling"
  /\ reentered => isShutdown
  /\ ~isShutdown /\ ~useQueue => queued = <<>>
  /\ isShutdown /\ ~reentered => queued = <<>> /\ (hasThread => doing = "stopping" \/ spinning)

\* What is owed is what was accepted and did not run, each task once; it is with the
\* thread or kept for the next one.
Has(s, x) == \E i \in DOMAIN s : s[i] = x
Distinct(s) == \A k, l \in DOMAIN s : s[k] = s[l] => k = l
Placed ==
  /\ Distinct(owed)
  /\ \A e \in Tasks :
       /\ Has(owed, e) <=> fate[e] = "accepted"
       /\ Has(queue, e) \/ Has(queued, e) <=> fate[e] = "accepted"

\* The tasks of s stand in the order of o, and those of s before those of t.
Sorted(s, o) ==
  \A i, j \in DOMAIN s, k, l \in DOMAIN o : i < j /\ s[i] = o[k] /\ s[j] = o[l] => k < l
Precedes(s, t, o) ==
  \A i \in DOMAIN s, j \in DOMAIN t, k, l \in DOMAIN o : s[i] = o[k] /\ t[j] = o[l] => k < l
Fits(s, t, o) == Sorted(s, o) /\ Sorted(t, o) /\ Precedes(s, t, o)
InTurn == Fits(queue, queued, owed)

IInv == TypeOK /\ (~reentered => Life) /\ Closing /\ Placed /\ InTurn

-----------------------------------------------------------------------------
(* The type of the state.  The flags and the rest are proved apart, as different *)
(* provers see to them.                                                          *)
Flags ==
  /\ hasThread \in BOOLEAN /\ enabled \in BOOLEAN /\ isShutdown \in BOOLEAN
  /\ cleanedUp \in BOOLEAN /\ useQueue \in BOOLEAN /\ spinning \in BOOLEAN
  /\ acked \in BOOLEAN /\ observer \in BOOLEAN /\ reentered \in BOOLEAN
Data ==
  /\ pendingCount \in Int /\ idleCount \in Int /\ toggles \in Nat
  /\ timer \in {"null", "unset", "armed"}
  /\ doing \in {"nothing", "enabling", "stopping", "stoppingAgain"}
  /\ real \in {"none", "alive", "stopped", "ended"}
  /\ step \in {"idle", "after", "notify"}
  /\ fate \in [Tasks -> {"new", "accepted", "refused", "run"}]
Lists ==
  /\ queued \in Seq(Tasks \cup Chores)
  /\ queue \in Seq(Tasks \cup Chores)
  /\ mail \in Seq({"schedule", "ack"})

LEMMA FlagsStep == Flags /\ [Next]_vars => Flags'
<1> SUFFICES ASSUME Flags, [Next]_vars
             PROVE  Flags'
    OBVIOUS
<1>1. ASSUME NEW e \in Tasks, Dispatch(e)
      PROVE  Flags'
      BY <1>1, Zenon DEF Dispatch, Accept, Post, Flags
<1>2. CASE DisableIdleTimeout \/ EnableIdleTimeout
      BY <1>2, Zenon DEF DisableIdleTimeout, EnableIdleTimeout, worker, Flags
<1>3. CASE DispatchDummy
      BY <1>3, Zenon DEF DispatchDummy, Accept, Post, Flags
<1>4. CASE RunEvent
      BY <1>4, Zenon DEF RunEvent, owner, Flags
<1>5. CASE AfterProcessNextEvent
      BY <1>5, Zenon DEF AfterProcessNextEvent, owner, Flags
<1>6. CASE DispatchScheduleTimer \/ EndThread
      BY <1>6, Zenon DEF DispatchScheduleTimer, EndThread, owner, counters, Flags
<1>7. CASE ScheduleTimer \/ ReceiveAck
      BY <1>7, Zenon DEF ScheduleTimer, ReceiveAck, worker, counters, Flags
<1>8. CASE Notify
      BY <1>8, Zenon DEF Notify, Flags
<1>9. CASE Shutdown \/ StopThread
      BY <1>9, Zenon DEF Shutdown, StopThread, Flags
<1>10. CASE ShutdownAgain \/ ForgetThread
      BY <1>10, Zenon DEF ShutdownAgain, ForgetThread, worker, Flags
<1>11. CASE FinishShutdownThread
      BY <1>11, Zenon DEF FinishShutdownThread, Flags
<1>12. CASE UNCHANGED vars
      BY <1>12, Zenon DEF vars, counters, owner, worker, Flags
<1> QED BY <1>1, <1>2, <1>3, <1>4, <1>5, <1>6, <1>7, <1>8, <1>9, <1>10, <1>11, <1>12, Zenon
        DEF Next, ThreadStep, OwnerStep

LEMMA DataStep == Data /\ [Next]_vars => Data'
<1> SUFFICES ASSUME Data, [Next]_vars
             PROVE  Data'
    OBVIOUS
<1>1. ASSUME NEW e \in Tasks, Dispatch(e)
      PROVE  Data'
      BY <1>1 DEF Dispatch, Accept, Post, Data, Chores
<1>2. CASE DisableIdleTimeout \/ EnableIdleTimeout
      BY <1>2 DEF DisableIdleTimeout, EnableIdleTimeout, worker, Data
<1>3. CASE DispatchDummy
      BY <1>3 DEF DispatchDummy, Accept, Post, Data, Chores
<1>4. CASE RunEvent
      BY <1>4 DEF RunEvent, owner, Data
<1>5. CASE AfterProcessNextEvent
      BY <1>5 DEF AfterProcessNextEvent, owner, Data
<1>6. CASE DispatchScheduleTimer \/ EndThread
      BY <1>6 DEF DispatchScheduleTimer, EndThread, owner, counters, Data
<1>7. CASE ScheduleTimer \/ ReceiveAck
      BY <1>7 DEF ScheduleTimer, ReceiveAck, OneNotificationLess, worker, counters, Data
<1>8. CASE Notify
  <2>1. \A e \in Tasks : [fate EXCEPT ![e] = "accepted"] \in
                            [Tasks -> {"new", "accepted", "refused", "run"}]
        BY DEF Data
  <2>2. pendingCount' \in Int
    <3>1. pendingCount' \in {pendingCount, pendingCount + Len(<<>>)}
            \cup {pendingCount + Len(<<e>>) : e \in Tasks}
          BY <1>8, Zenon DEF Notify, BeginShutdownThread
    <3> QED BY <3>1 DEF Data
  <2>3. fate' \in [Tasks -> {"new", "accepted", "refused", "run"}]
        BY <1>8, <2>1, Zenon DEF Notify, BeginShutdownThread, Data
  <2>4. idleCount' = idleCount /\ toggles' = toggles /\ real' = real /\ step' = step
        BY <1>8, Zenon DEF Notify
  <2>5. timer' \in {"null", "unset", "armed"}
        BY <1>8, Zenon DEF Notify, BeginShutdownThread
  <2>6. doing' \in {"nothing", "enabling", "stopping", "stoppingAgain"}
        BY <1>8, Zenon DEF Notify, BeginShutdownThread, Data
  <2> QED BY <2>2, <2>3, <2>4, <2>5, <2>6 DEF Data
<1>9. CASE Shutdown \/ StopThread
      BY <1>9 DEF Shutdown, BeginShutdownThread, StopThread, Data, Chores
<1>10. CASE ShutdownAgain \/ ForgetThread
      BY <1>10 DEF ShutdownAgain, ForgetThread, worker, Data, Chores
<1>11. CASE FinishShutdownThread
      BY <1>11 DEF FinishShutdownThread, Kept, Data, Chores
<1>12. CASE UNCHANGED vars
      BY <1>12 DEF vars, counters, owner, worker, Data
<1> QED BY <1>1, <1>2, <1>3, <1>4, <1>5, <1>6, <1>7, <1>8, <1>9, <1>10, <1>11, <1>12, Zenon
        DEF Next, ThreadStep, OwnerStep

Items == Tasks \cup Chores
LEMMA ListFacts ==
  ASSUME NEW S, NEW s \in Seq(S)
  PROVE  /\ \A e \in S : Append(s, e) \in Seq(S) /\ s \o <<e>> \in Seq(S) /\ <<e>> \o s \in Seq(S)
         /\ \A e, f \in S : s \o <<e, f>> \in Seq(S) /\ <<e, f>> \in Seq(S)
         /\ s \o <<>> = s /\ <<>> \in Seq(S)
         /\ s # <<>> => Tail(s) \in Seq(S) /\ Head(s) \in S
<1>1. \A e \in S : Append(s, e) \in Seq(S) /\ s \o <<e>> \in Seq(S) /\ <<e>> \o s \in Seq(S)
      OBVIOUS
<1>2. \A e, f \in S : <<e, f>> \in Seq(S)
      OBVIOUS
<1>3. \A e, f \in S : s \o <<e, f>> \in Seq(S)
      BY <1>2
<1>4. s \o <<>> = s /\ <<>> \in Seq(S)
      OBVIOUS
<1>5. s # <<>> => Tail(s) \in Seq(S) /\ Head(s) \in S
      OBVIOUS
<1> QED BY <1>1, <1>2, <1>3, <1>4, <1>5

LEMMA ListsStep == Lists /\ [Next]_vars => Lists'
<1> SUFFICES ASSUME Lists, [Next]_vars
             PROVE  Lists'
    OBVIOUS
<1> DEFINE Signs == {"schedule", "ack"}
<1>a. queued \in Seq(Items) /\ queue \in Seq(Items) /\ mail \in Seq(Signs)
      BY Zenon DEF Lists, Items
<1>b. "init" \in Items /\ "cleanup" \in Items /\ "stop" \in Items /\ "dummy" \in Items
      BY DEF Items, Chores
<1>c. \A e \in Tasks : e \in Items
      BY DEF Items
<1>d. "schedule" \in Signs /\ "ack" \in Signs
      OBVIOUS
<1>e. SUFFICES queued' \in Seq(Items) /\ queue' \in Seq(Items) /\ mail' \in Seq(Signs)
      BY Zenon DEF Lists, Items
<1> HIDE DEF Signs
<1>f. ASSUME NEW e \in Items, Accept(e)
      PROVE  queued' \in Seq(Items) /\ queue' \in Seq(Items)
  <2>1. <<e>> \in Seq(Items) /\ queue \o <<e>> \in Seq(Items) /\ <<"init">> \o <<e>> \in Seq(Items)
        BY <1>a, <1>b, ListFacts
  <2>2. Append(queued, e) \in Seq(Items)
        BY <1>a, ListFacts, Zenon
  <2> QED BY <1>f, <1>a, <2>1, <2>2, Zenon DEF Accept, Post
<1>1. ASSUME NEW e \in Tasks, Dispatch(e)
      PROVE  queued' \in Seq(Items) /\ queue' \in Seq(Items) /\ mail' \in Seq(Signs)
      BY <1>1, <1>a, <1>c, <1>f, Zenon DEF Dispatch
<1>2. CASE DisableIdleTimeout \/ EnableIdleTimeout
      BY <1>2, <1>a, Zenon DEF DisableIdleTimeout, EnableIdleTimeout, worker
<1>3. CASE DispatchDummy
      BY <1>3, <1>a, <1>b, <1>f, Zenon DEF DispatchDummy
<1>4. CASE RunEvent
      BY <1>4, <1>a, ListFacts, Zenon DEF RunEvent, owner
<1>5. CASE AfterProcessNextEvent
      BY <1>5, <1>a, Zenon DEF AfterProcessNextEvent, owner
<1>6. CASE DispatchScheduleTimer \/ EndThread
  <2>1. Append(mail, "schedule") \in Seq(Signs) /\ Append(mail, "ack") \in Seq(Signs)
        BY <1>a, <1>d, ListFacts
  <2> QED BY <1>6, <1>a, <2>1, Zenon DEF DispatchScheduleTimer, EndThread, owner
<1>7. CASE ScheduleTimer \/ ReceiveAck
      BY <1>7, <1>a, ListFacts, Zenon DEF ScheduleTimer, ReceiveAck, worker
<1>8. CASE Notify
  <2>1. queue \o <<>> \in Seq(Items) /\ \A e \in Tasks : queue \o <<e>> \in Seq(Items)
        BY <1>a, <1>c, ListFacts
  <2> QED BY <1>8, <1>a, <2>1, Zenon DEF Notify, BeginShutdownThread
<1>9. CASE Shutdown \/ StopThread
  <2>1. queue \o <<>> \in Seq(Items) /\ queue \o <<"cleanup", "stop">> \in Seq(Items)
        BY <1>a, <1>b, ListFacts
  <2> QED BY <1>9, <1>a, <2>1, Zenon DEF Shutdown, BeginShutdownThread, StopThread
<1>10. CASE ShutdownAgain \/ ForgetThread
  <2>1. Append(queue, "cleanup") \in Seq(Items)
        BY <1>a, <1>b, ListFacts
  <2> QED BY <1>10, <1>a, <2>1, Zenon DEF ShutdownAgain, ForgetThread, worker
<1>11. CASE FinishShutdownThread
  <2>1. <<"init">> \o queued \in Seq(Items) /\ <<>> \in Seq(Items)
        BY <1>a, <1>b, ListFacts
  <2> QED BY <1>11, <1>a, <2>1, Zenon DEF FinishShutdownThread, Kept
<1>12. CASE UNCHANGED vars
      BY <1>12, <1>a, Zenon DEF vars, owner, worker
<1> QED BY <1>1, <1>2, <1>3, <1>4, <1>5, <1>6, <1>7, <1>8, <1>9, <1>10, <1>11, <1>12, Zenon
        DEF Next, ThreadStep, OwnerStep

LEMMA TypeParts == TypeOK <=> Flags /\ Data /\ Lists /\ owed \in Seq(Tasks)
BY Zenon DEF TypeOK, Flags, Data, Lists

LEMMA TypesInit == Init => TypeOK
<1>1. Init => Flags
      BY Zenon DEF Init, Flags
<1>2. Init => Data
      BY DEF Init, Data
<1>3. Init => Lists
      BY DEF Init, Lists
<1>4. Init => owed \in Seq(Tasks)
      BY DEF Init
<1> QED BY <1>1, <1>2, <1>3, <1>4, TypeParts

LEMMA TypesStep == TypeOK /\ [Next]_vars => Flags' /\ Data' /\ Lists'
BY TypeParts, FlagsStep, DataStep, ListsStep

-----------------------------------------------------------------------------
(* The account of the events, one action at a time *)

\* One more event for a thread that is not being stopped.
LEMMA OneMore ==
  ASSUME TypeOK, Life, NEW e \in Tasks \cup {"dummy"},
         hasThread, ~spinning, queue' = queue \o <<e>>, pendingCount' = pendingCount + 1,
         UNCHANGED <<real, observer, idleCount, cleanedUp, enabled, spinning, acked, step, mail>>
  PROVE  Order' /\ End' /\ Letters' /\ Counts'
<1>1. e \notin {"init", "cleanup", "stop"}
      BY TasksAssumption DEF Chores
<1>2. /\ Len(queue') = Len(queue) + 1
      /\ queue' # <<>>
      /\ \A i \in 1 .. Len(queue) : queue'[i] = queue[i]
      /\ queue'[Len(queue')] = e
      BY DEF TypeOK
<1>3. ~cleanedUp /\ real = "alive"
      BY DEF Life, Phases, TypeOK
<1>4. Order'
  <2>1. ASSUME NEW i \in 1 .. Len(queue')
        PROVE  /\ queue'[i] = "init" => i = 1 /\ ~observer /\ step = "idle"
               /\ queue'[i] # "cleanup" /\ queue'[i] # "stop"
        BY <1>1, <1>2 DEF Life, Order, TypeOK
  <2> QED BY <2>1, Zenon DEF Order
<1>5. Ahead' <=> Ahead
      BY <1>1, <1>2 DEF Ahead, TypeOK
<1>6. End' /\ Letters'
      BY <1>3, <1>5, Zenon DEF Life, End, Letters, Ending
<1>7. Counts'
  <2>1. /\ One(Ahead)' = One(Ahead) /\ One(Ending)' = One(Ending)
        /\ One(step = "after")' = One(step = "after") /\ One(~enabled)' = One(~enabled)
        /\ One(real = "ended" /\ ~acked)' = One(real = "ended" /\ ~acked)
        /\ One(step = "notify")' = One(step = "notify")
        BY <1>5, Zenon DEF One, Ending
  <2>2. /\ One(Ahead) \in Int /\ One(Ending) \in Int /\ One(step = "after") \in Int
        /\ One(~enabled) \in Int /\ Len(queue) \in Int
        BY DEF One, TypeOK
  <2>3. pendingCount =
          Len(queue) - One(Ahead) - One(Ending) + One(step = "after") + One(~enabled)
        BY Zenon DEF Life, Counts
  <2>4. pendingCount' =
          Len(queue') - One(Ahead) - One(Ending) + One(step = "after") + One(~enabled)
        BY <1>2, <2>2, <2>3
  <2> QED BY <2>1, <2>4, Zenon DEF Life, Counts
<1> QED BY <1>4, <1>6, <1>7

\* Dispatch puts an event behind the others, or keeps it, or makes a thread.
LEMMA AcceptLife ==
  ASSUME TypeOK, Life, NEW e \in Tasks \cup {"dummy"}, Accept(e),
         doing \in {"nothing", "enabling"}, doing' = "nothing",
         UNCHANGED <<idleCount, cleanedUp, enabled, useQueue, spinning, acked, step, mail>>
  PROVE  Life'
<1>a. e \notin {"init", "cleanup", "stop"}
      BY TasksAssumption DEF Chores
<1>1. CASE useQueue
  <2>1. queued' = Append(queued, e)
        BY <1>1, Zenon DEF Accept, UseRunnableQueue
  <2>2. UNCHANGED <<hasThread, pendingCount, timer, real, queue, observer>>
        BY <1>1, Zenon DEF Accept, UseRunnableQueue
  <2>3. Phases'
        BY <2>2, Zenon DEF Life, Phases
  <2>4. Order' /\ End' /\ Letters' /\ Counts'
        BY <2>2, Zenon DEF Life, Order, End, Letters, Counts, Ahead, Ending
  <2>5. Clients'
        BY <1>a, <2>1 DEF Life, Clients, TypeOK
  <2> QED BY <2>3, <2>4, <2>5, Zenon DEF Life
<1>2. CASE ~useQueue /\ hasThread
  <2>1. queue' = queue \o <<e>> /\ pendingCount' = pendingCount + Len(<<e>>)
        BY <1>2, Zenon DEF Accept, UseRunnableQueue, Post
  <2>2. hasThread' /\ UNCHANGED <<queued, timer, real, observer>>
        BY <1>2, Zenon DEF Accept, UseRunnableQueue, Post
  <2>3. ~spinning /\ ~cleanedUp /\ real # "none"
        BY <1>2, Zenon DEF Life, Phases
  <2>4. real \notin {"stopped", "ended"}
        BY <2>3, Zenon DEF Life, Phases
  <2>5. Phases'
        BY <2>2, <2>3, <2>4, <1>2, Zenon DEF Life, Phases
  <2>6. pendingCount' = pendingCount + 1
        BY <2>1
  <2>7. Order' /\ End' /\ Letters' /\ Counts'
        BY <1>2, <2>1, <2>2, <2>3, <2>6, OneMore
  <2> QED BY <2>2, <2>5, <2>7, Zenon DEF Life, Clients
<1>3. CASE ~useQueue /\ ~hasThread
  <2>1. queue' = <<"init">> \o <<e>> /\ pendingCount' = pendingCount + Len(<<e>>)
        BY <1>3, Zenon DEF Accept, UseRunnableQueue, Post
  <2>2. /\ hasThread' /\ queued' = queued /\ timer' = "unset" /\ real' = "alive"
        /\ ~observer'
        BY <1>3, Zenon DEF Accept, UseRunnableQueue, Post
  <2>3. Len(queue') = 2 /\ queue' # <<>> /\ queue'[1] = "init" /\ queue'[2] = e
        BY <2>1
  <2>4. /\ ~spinning /\ ~cleanedUp /\ real = "none" /\ queue = <<>> /\ mail = <<>>
        /\ step = "idle" /\ ~acked
        BY <1>3 DEF Life, Phases, TypeOK
  <2>5. Phases'
        BY <2>2, <2>4, <1>3, Zenon DEF Life, Phases
  <2>6. Order'
    <3>1. ASSUME NEW i \in 1 .. Len(queue')
          PROVE  /\ queue'[i] = "init" => i = 1
                 /\ queue'[i] # "cleanup" /\ queue'[i] # "stop"
          BY <1>a, <2>3
    <3> QED BY <3>1, <2>2, <2>4, Zenon DEF Order
  <2>7. End' /\ Clients'
        BY <2>2, <2>3, <2>4, Zenon DEF Life, End, Clients, Ending, Ahead
  <2>8. Letters'
        BY <2>2, <2>4 DEF Letters, TypeOK
  <2>9. Counts'
    <3>1. /\ One(Ahead)' = 1 /\ One(Ending)' = 0 /\ One(step = "after")' = 0
          /\ One(~enabled)' = One(~enabled)
          /\ One(real = "ended" /\ ~acked)' = 0 /\ One(step = "notify")' = 0
          BY <2>2, <2>3, <2>4 DEF One, Ending, Ahead
    <3>2. pendingCount = One(~enabled) /\ idleCount = 0
          BY <2>4 DEF Life, Counts, One, Ahead, Ending
    <3>3. pendingCount' = pendingCount + 1 /\ idleCount' = 0 /\ Len(mail') = 0
          BY <2>1, <2>4, <3>2
    <3> QED BY <3>1, <3>2, <3>3, <2>3 DEF Counts, One
  <2> QED BY <2>5, <2>6, <2>7, <2>8, <2>9, Zenon DEF Life
<1> QED BY <1>1, <1>2, <1>3

LEMMA DispatchLife ==
  ASSUME TypeOK, Life, NEW e \in Tasks, Dispatch(e)
  PROVE  Life'
<1>1. CASE isShutdown
  <2>1. UNCHANGED <<hasThread, pendingCount, timer, real, queue, observer, queued>>
        BY <1>1, Zenon DEF Dispatch
  <2>2. /\ doing' = doing
        /\ UNCHANGED <<idleCount, cleanedUp, enabled, useQueue, spinning, acked, step, mail>>
        BY Zenon DEF Dispatch
  <2> QED BY <2>1, <2>2, Zenon
          DEF Life, Phases, Order, End, Letters, Clients, Counts, Ahead, Ending
<1>2. CASE ~isShutdown
  <2>1. Accept(e) /\ doing = "nothing"
        BY <1>2, Zenon DEF Dispatch
  <2>2. /\ doing' = "nothing"
        /\ UNCHANGED <<idleCount, cleanedUp, enabled, useQueue, spinning, acked, step, mail>>
        BY Zenon DEF Dispatch
  <2> QED BY <2>1, <2>2, AcceptLife
<1> QED BY <1>1, <1>2

LEMMA DispatchDummyLife ==
  ASSUME TypeOK, Life, DispatchDummy
  PROVE  Life'
<1>1. Accept("dummy") /\ doing = "enabling"
      BY Zenon DEF DispatchDummy
<1>2. /\ doing' = "nothing"
      /\ UNCHANGED <<idleCount, cleanedUp, enabled, useQueue, spinning, acked, step, mail>>
      BY Zenon DEF DispatchDummy
<1> QED BY <1>1, <1>2, AcceptLife

\* ShutdownThread begins: the timer is gone, and there may be one more event.
LEMMA BeginLife ==
  ASSUME TypeOK, Life, BeginShutdownThread(<<>>) \/ \E e \in Tasks : BeginShutdownThread(<<e>>),
         doing = "nothing", ~spinning,
         UNCHANGED <<idleCount, cleanedUp, hasThread, enabled, useQueue, queued, spinning,
                     acked, real, observer, step, mail>>
  PROVE  Life'
<1>1. Phases' /\ Clients'
  <2>1. timer' = "null"
        BY Zenon DEF BeginShutdownThread
  <2>2. doing' = doing \/ doing' = "stopping"
        BY Zenon DEF BeginShutdownThread
  <2>3. hasThread \/ (doing' = doing /\ queue' = queue)
        BY Zenon DEF BeginShutdownThread
  <2>4. hasThread => real \notin {"none", "stopped", "ended"}
        BY Zenon DEF Life, Phases
  <2> QED BY <2>1, <2>2, <2>3, <2>4, Zenon DEF Life, Phases, Clients
<1>2. ASSUME queue' = queue, pendingCount' = pendingCount
      PROVE  Order' /\ End' /\ Letters' /\ Counts'
      BY <1>2, Zenon DEF Life, Order, End, Letters, Counts, Ahead, Ending
<1>3. CASE ~hasThread
      BY <1>1, <1>2, <1>3, Zenon DEF Life, BeginShutdownThread
<1>4. CASE hasThread /\ BeginShutdownThread(<<>>)
  <2>1. queue' = queue \o <<>> /\ pendingCount' = pendingCount + Len(<<>>)
        BY <1>4, Zenon DEF BeginShutdownThread
  <2>2. queue' = queue /\ pendingCount' = pendingCount
        BY <2>1 DEF TypeOK
  <2> QED BY <1>1, <1>2, <2>2, Zenon DEF Life
<1>5. ASSUME NEW e \in Tasks, hasThread, BeginShutdownThread(<<e>>)
      PROVE  Life'
  <2>1. queue' = queue \o <<e>> /\ pendingCount' = pendingCount + Len(<<e>>)
        BY <1>5, Zenon DEF BeginShutdownThread
  <2>2. pendingCount' = pendingCount + 1
        BY <2>1
  <2>3. Order' /\ End' /\ Letters' /\ Counts'
        BY <1>5, <2>1, <2>2, OneMore
  <2> QED BY <1>1, <2>3, Zenon DEF Life
<1> QED BY <1>3, <1>4, <1>5, Zenon

LEMMA NotifyLife ==
  ASSUME TypeOK, Life, Notify
  PROVE  Life'
<1>1. doing = "nothing" /\ timer = "armed" /\ ~spinning
      BY Zenon DEF Notify, Life, Phases
<1>2. UNCHANGED <<idleCount, cleanedUp, hasThread, enabled, useQueue, queued, spinning,
                  acked, real, observer, step, mail>>
      BY Zenon DEF Notify
<1>3. CASE BeginShutdownThread(<<>>) \/ \E e \in Tasks : BeginShutdownThread(<<e>>)
      BY <1>1, <1>2, <1>3, BeginLife
<1>4. CASE timer' = "unset" /\ UNCHANGED <<pendingCount, doing, queue>>
  <2>1. Phases'
        BY <1>1, <1>2, <1>4, Zenon DEF Life, Phases
  <2> QED BY <1>2, <1>4, <2>1, Zenon
          DEF Life, Order, End, Letters, Clients, Counts, Ahead, Ending
<1> QED BY <1>3, <1>4, Zenon DEF Notify

LEMMA ShutdownLife ==
  ASSUME TypeOK, Life, Shutdown
  PROVE  Life'
<1>1. doing = "nothing" /\ ~spinning /\ BeginShutdownThread(<<>>)
      BY Zenon DEF Shutdown
<1>2. UNCHANGED <<idleCount, cleanedUp, hasThread, enabled, useQueue, queued, spinning,
                  acked, real, observer, step, mail>>
      BY Zenon DEF Shutdown
<1> QED BY <1>1, <1>2, BeginLife

LEMMA DisableIdleTimeoutLife ==
  ASSUME TypeOK, Life, DisableIdleTimeout
  PROVE  Life'
<1>1. Phases'
      BY Zenon DEF Life, Phases, DisableIdleTimeout, worker
<1>2. Order'
      BY DEF Life, Phases, Order, Ending, TypeOK, DisableIdleTimeout, worker
<1>3. End'
      BY DEF Life, Phases, Order, End, Ahead, Ending, TypeOK, DisableIdleTimeout, worker
<1>4. Letters'
      BY DEF Life, Phases, Letters, TypeOK, DisableIdleTimeout, worker
<1>5. Clients'
      BY DEF Life, Clients, TypeOK, DisableIdleTimeout, worker
<1>6. Counts'
      BY DEF Life, Phases, Order, End, Letters, Counts, One, Ahead, Ending, TypeOK,
         DisableIdleTimeout, worker
<1> QED BY <1>1, <1>2, <1>3, <1>4, <1>5, <1>6, Zenon DEF Life

LEMMA EnableIdleTimeoutLife ==
  ASSUME TypeOK, Life, EnableIdleTimeout
  PROVE  Life'
<1>1. Phases'
      BY Zenon DEF Life, Phases, EnableIdleTimeout, worker
<1>2. Order'
      BY DEF Life, Phases, Order, Ending, TypeOK, EnableIdleTimeout, worker
<1>3. End'
      BY DEF Life, Phases, Order, End, Ahead, Ending, TypeOK, EnableIdleTimeout, worker
<1>4. Letters'
      BY DEF Life, Phases, Letters, TypeOK, EnableIdleTimeout, worker
<1>5. Clients'
      BY DEF Life, Clients, TypeOK, EnableIdleTimeout, worker
<1>6. Counts'
      BY DEF Life, Phases, Order, End, Letters, Counts, One, Ahead, Ending, TypeOK,
         EnableIdleTimeout, worker
<1> QED BY <1>1, <1>2, <1>3, <1>4, <1>5, <1>6, Zenon DEF Life

\* The thread runs an event.  InitThread is not counted, as it was not there when
\* its event was begun; CleanupThread is; the stop finds the observer gone.
LEMMA RunEventLife ==
  ASSUME TypeOK, Life, RunEvent
  PROVE  Life'
<1> DEFINE event == queue[1]
<1>1. /\ queue # <<>> /\ event = Head(queue) /\ queue' = Tail(queue) /\ step = "idle"
      /\ Len(queue) \in Nat /\ Len(queue) > 0
      /\ Len(queue') = Len(queue) - 1
      /\ \A i \in 1 .. Len(queue') : queue'[i] = queue[i + 1]
      BY DEF RunEvent, TypeOK
<1>2. /\ observer' <=> (event = "init" \/ (observer /\ event # "cleanup"))
      /\ cleanedUp' <=> (cleanedUp \/ event = "cleanup")
      /\ real' = IF event = "stop" THEN "stopped" ELSE real
      /\ step' = IF observer THEN "after" ELSE "idle"
      BY <1>1, Zenon DEF RunEvent
<1>3. UNCHANGED <<pendingCount, idleCount, hasThread, timer, enabled, useQueue, queued, doing,
                  spinning, acked, mail>>
      BY Zenon DEF RunEvent, owner
<1>4. real = "alive" /\ hasThread
      BY <1>1 DEF RunEvent, Life, Phases, TypeOK
<1>5. \A i \in 1 .. Len(queue') : queue'[i] # "init"
  <2>1. ASSUME NEW i \in 1 .. Len(queue')
        PROVE  queue'[i] # "init"
    <3>1. i + 1 \in 1 .. Len(queue) /\ i + 1 # 1
          BY <1>1
    <3> QED BY <1>1, <3>1, Zenon DEF Life, Order
  <2> QED BY <2>1
<1>6. ~Ahead'
  <2>1. queue' # <<>> => 1 \in 1 .. Len(queue')
        BY <1>1 DEF TypeOK
  <2> QED BY <1>5, <2>1, Zenon DEF Ahead
<1> HIDE DEF event
<1>7. Order'
  <2>1. ASSUME NEW i \in 1 .. Len(queue')
        PROVE  /\ queue'[i] = "cleanup" => i = Len(queue') - 1 /\ spinning /\ ~cleanedUp
                                             /\ event # "cleanup"
               /\ queue'[i] = "stop" => i = Len(queue') /\ spinning
    <3>1. i \in Int /\ i + 1 \in 1 .. Len(queue) /\ 1 \in 1 .. Len(queue) /\ i >= 1
          BY <1>1
    <3>2. /\ queue[i + 1] = "cleanup" => i + 1 = Len(queue) - 1 /\ spinning /\ ~cleanedUp
          /\ queue[1] = "cleanup" => 1 = Len(queue) - 1
          /\ queue[i + 1] = "stop" => i + 1 = Len(queue) /\ spinning
          BY <3>1, Zenon DEF Life, Order
    <3>3. /\ queue[i + 1] = "cleanup" => i = Len(queue') - 1 /\ event # "cleanup"
          /\ queue[i + 1] = "stop" => i = Len(queue')
      <4>1. Len(queue) \in Int /\ Len(queue') = Len(queue) - 1
            BY <1>1
      <4>2. i + 1 = Len(queue) - 1 => i = Len(queue') - 1 /\ 1 # Len(queue) - 1
            BY <3>1, <4>1
      <4>3. i + 1 = Len(queue) => i = Len(queue')
            BY <3>1, <4>1
      <4> QED BY <3>2, <4>2, <4>3, Zenon DEF event
    <3> QED BY <1>1, <3>2, <3>3, Zenon
  <2> QED BY <1>2, <1>3, <1>5, <2>1, Zenon DEF Order
<1>8. Letters' /\ Clients'
      BY <1>1, <1>2, <1>3, <1>4 DEF Life, Letters, Clients
<1>9. Counts' <=> /\ pendingCount = Len(queue)
                         - 1 - One(Ending') + One(step' = "after") + One(~enabled)
                  /\ idleCount = Len(mail) + One(step' = "notify") - One(real' = "ended" /\ ~acked)
      BY <1>1, <1>3, <1>6 DEF Counts, One
<1>10. idleCount = Len(mail) + One(step' = "notify") - One(real' = "ended" /\ ~acked)
  <2>1. idleCount = Len(mail) + One(step = "notify") - One(real = "ended" /\ ~acked)
        BY Zenon DEF Life, Counts
  <2>2. step' # "notify" /\ real' # "ended"
        BY <1>2, <1>4
  <2> QED BY <2>1, <2>2, <1>1, <1>4 DEF One
<1>11. pendingCount = Len(queue)
           - One(Ahead) - One(Ending) + One(step = "after") + One(~enabled)
      BY Zenon DEF Life, Counts
<1>12. Ahead <=> event = "init"
      BY <1>1, Zenon DEF Ahead, event
<1>13. 1 \in 1 .. Len(queue)
      BY <1>1
<1>a. /\ One(~enabled) \in Int /\ One(Ending) \in Int /\ One(step = "after") = 0
      /\ ~Ahead => One(Ahead) = 0
      /\ Ahead => One(Ahead) = 1
      BY <1>1 DEF One
<1>14. CASE event = "init"
  <2>1. ~observer /\ ~cleanedUp
        BY <1>1, <1>4, <1>13, <1>14 DEF Life, Phases, Order, End, Ending, event
  <2>2. observer' /\ ~cleanedUp' /\ real' = real /\ step' = "idle"
        BY <1>2, <1>14, <2>1
  <2>3. Phases'
        BY <1>3, <1>4, <2>2, Zenon DEF Life, Phases
  <2>4. End'
    <3>1. Ending => /\ Len(queue) >= 2 /\ queue[Len(queue)] = "stop"
                    /\ queue[Len(queue) - 1] = "cleanup"
          BY <2>1, Zenon DEF Life, End
    <3>2. Ending => Len(queue) > 2
          BY <1>1, <1>14, <3>1 DEF event
    <3>3. Ending => /\ Len(queue') >= 2 /\ queue' # <<>> /\ queue'[Len(queue')] = "stop"
                    /\ queue'[Len(queue') - 1] = "cleanup"
          BY <1>1, <3>1, <3>2
    <3>4. Ending' <=> Ending
          BY <1>3, <2>2, Zenon DEF Ending
    <3> QED BY <2>2, <3>3, <3>4, Zenon DEF End
  <2>5. pendingCount = Len(queue) - 1 - One(Ending') + One(step' = "after") + One(~enabled)
    <3>1. Ending' <=> Ending
          BY <1>3, <2>2, Zenon DEF Ending
    <3>2. One(Ending') = One(Ending) /\ One(step' = "after") = 0
          BY <2>2, <3>1 DEF One
    <3> QED BY <1>1, <1>11, <1>12, <1>14, <1>a, <3>2
  <2> QED BY <1>7, <1>8, <1>9, <1>10, <2>3, <2>4, <2>5, Zenon DEF Life
<1>15. CASE event = "stop"
  <2>1. Len(queue) = 1 /\ spinning
        BY <1>13, <1>15 DEF Life, Order, event
  <2>2. cleanedUp /\ ~observer
        BY <1>1, <1>4, <2>1 DEF Life, Phases, End, Ending
  <2>3. ~observer' /\ cleanedUp' /\ real' = "stopped" /\ step' = "idle"
        BY <1>2, <1>15, <2>2
  <2>4. queue' = <<>>
        BY <1>1, <2>1 DEF TypeOK
  <2>5. Phases'
        BY <1>3, <1>4, <2>1, <2>3, <2>4, Zenon DEF Life, Phases
  <2>6. End'
        BY <2>3, Zenon DEF End, Ending
  <2>7. pendingCount = Len(queue) - 1 - One(Ending') + One(step' = "after") + One(~enabled)
    <3>1. ~Ending' /\ Ending
          BY <1>4, <2>1, <2>3 DEF Ending
    <3>2. One(Ending') = 0 /\ One(Ending) = 1 /\ One(step' = "after") = 0
          BY <2>3, <3>1 DEF One
    <3> QED BY <1>1, <1>11, <1>12, <1>15, <1>a, <3>2
  <2> QED BY <1>7, <1>8, <1>9, <1>10, <2>5, <2>6, <2>7, Zenon DEF Life
<1>16. CASE event = "cleanup"
  <2>1. Len(queue) = 2 /\ spinning /\ ~cleanedUp
    <3>1. 1 = Len(queue) - 1
          BY <1>13, <1>16, Zenon DEF Life, Order, event
    <3>2. Len(queue) = 2
          BY <1>1, <3>1
    <3>3. spinning /\ ~cleanedUp
          BY <1>13, <1>16, Zenon DEF Life, Order, event
    <3> QED BY <3>2, <3>3
  <2>2. observer /\ queue[2] = "stop"
        BY <1>4, <1>12, <1>16, <2>1 DEF Life, End, Ending
  <2>3. ~observer' /\ cleanedUp' /\ real' = real /\ step' = "after"
        BY <1>2, <1>16, <2>2
  <2>4. Phases'
        BY <1>3, <1>4, <2>1, <2>3, Zenon DEF Life, Phases
  <2>5. End'
    <3>1. Len(queue') = 1 /\ 1 \in 1 .. Len(queue') /\ 1 + 1 = 2
          BY <1>1, <2>1
    <3>2. queue'[1] = "stop"
          BY <1>1, <2>2, <3>1
    <3>3. queue' # <<>>
          BY <3>1
    <3> QED BY <3>1, <3>2, <3>3, <2>3, Zenon DEF End
  <2>6. pendingCount = Len(queue) - 1 - One(Ending') + One(step' = "after") + One(~enabled)
    <3>1. Ending' /\ Ending
          BY <1>3, <1>4, <2>1, <2>3 DEF Ending
    <3>2. One(Ending') = 1 /\ One(Ending) = 1 /\ One(step' = "after") = 1
          BY <2>3, <3>1 DEF One
    <3> QED BY <1>1, <1>11, <1>12, <1>16, <1>a, <3>2
  <2> QED BY <1>7, <1>8, <1>9, <1>10, <2>4, <2>5, <2>6, Zenon DEF Life
<1>17. CASE event \notin {"init", "cleanup", "stop"}
  <2>1. ~cleanedUp
    <3>1. cleanedUp => Len(queue) = 1 /\ queue[Len(queue)] = "stop"
          BY <1>4, Zenon DEF Life, Phases, End, Ending
    <3> QED BY <1>17, <3>1 DEF event
  <2>2. observer
        BY <1>4, <1>12, <1>17, <2>1, Zenon DEF Life, End
  <2>3. observer' /\ ~cleanedUp' /\ real' = real /\ step' = "after"
        BY <1>2, <1>17, <2>1, <2>2
  <2>4. Phases'
        BY <1>3, <1>4, <2>3, Zenon DEF Life, Phases
  <2>5. Ending' <=> Ending
        BY <1>3, <2>3, Zenon DEF Ending
  <2>6. End'
    <3>1. Ending => /\ Len(queue) >= 2 /\ queue[Len(queue)] = "stop"
                    /\ queue[Len(queue) - 1] = "cleanup"
          BY <2>1, Zenon DEF Life, End
    <3>2. Ending => Len(queue) > 2
          BY <1>1, <1>17, <3>1 DEF event
    <3>3. Ending => /\ Len(queue') >= 2 /\ queue' # <<>> /\ queue'[Len(queue')] = "stop"
                    /\ queue'[Len(queue') - 1] = "cleanup"
          BY <1>1, <3>1, <3>2
    <3> QED BY <2>3, <2>5, <3>3, Zenon DEF End
  <2>7. pendingCount = Len(queue) - 1 - One(Ending') + One(step' = "after") + One(~enabled)
    <3>1. One(Ending') = One(Ending) /\ One(step' = "after") = 1
          BY <2>3, <2>5 DEF One
    <3> QED BY <1>1, <1>11, <1>12, <1>17, <1>a, <3>1
  <2> QED BY <1>7, <1>8, <1>9, <1>10, <2>4, <2>6, <2>7, Zenon DEF Life
<1> QED BY <1>14, <1>15, <1>16, <1>17

LEMMA AfterProcessNextEventLife ==
  ASSUME TypeOK, Life, AfterProcessNextEvent
  PROVE  Life'
<1>1. Phases'
      BY Zenon DEF Life, Phases, AfterProcessNextEvent, owner
<1>2. Order'
      BY DEF Life, Phases, Order, Ending, TypeOK, AfterProcessNextEvent, owner
<1>3. End'
      BY DEF Life, Phases, Order, End, Ahead, Ending, TypeOK, AfterProcessNextEvent, owner
<1>4. Letters'
      BY DEF Life, Phases, Letters, TypeOK, AfterProcessNextEvent, owner
<1>5. Clients'
      BY DEF Life, Clients, TypeOK, AfterProcessNextEvent, owner
<1>6. Counts'
  <2>1. /\ step = "after" /\ pendingCount' = pendingCount - 1
        /\ UNCHANGED <<queue, mail, spinning, real, enabled, acked>>
        BY Zenon DEF AfterProcessNextEvent, owner
  <2>2. (Ahead' <=> Ahead) /\ (Ending' <=> Ending)
        BY <2>1, Zenon DEF Ahead, Ending
  <2>3. \/ idleCount' = idleCount + 1 /\ step' = "notify"
        \/ idleCount' = idleCount /\ step' = "idle"
        BY Zenon DEF AfterProcessNextEvent
  <2>4. /\ pendingCount = Len(queue)
               - One(Ahead) - One(Ending) + One(step = "after") + One(~enabled)
        /\ idleCount = Len(mail) + One(step = "notify") - One(real = "ended" /\ ~acked)
        BY Zenon DEF Life, Counts
  <2>5. Len(queue) \in Nat /\ Len(mail) \in Nat
        BY DEF TypeOK
  <2>a. /\ One(step = "after") = 1 /\ One(step' = "after") = 0 /\ One(step = "notify") = 0
        /\ step' = "notify" => One(step' = "notify") = 1
        /\ step' = "idle" => One(step' = "notify") = 0
        BY <2>1, <2>3 DEF One
  <2>b. /\ One(Ahead) \in Int /\ One(Ending) \in Int /\ One(~enabled) \in Int
        /\ One(real = "ended" /\ ~acked) \in Int
        BY DEF One
  <2>6. pendingCount' = Len(queue)
            - One(Ahead) - One(Ending) + One(step' = "after") + One(~enabled)
        BY <2>1, <2>4, <2>5, <2>a, <2>b
  <2>7. idleCount' = Len(mail) + One(step' = "notify") - One(real = "ended" /\ ~acked)
        BY <2>3, <2>4, <2>5, <2>a, <2>b
  <2>8. /\ One(Ahead)' = One(Ahead) /\ One(Ending)' = One(Ending)
        /\ One(step = "after")' = One(step' = "after") /\ One(~enabled)' = One(~enabled)
        /\ One(real = "ended" /\ ~acked)' = One(real = "ended" /\ ~acked)
        /\ One(step = "notify")' = One(step' = "notify")
        BY <2>1, <2>2, Zenon DEF One
  <2> QED BY <2>1, <2>6, <2>7, <2>8, Zenon DEF Counts
<1> QED BY <1>1, <1>2, <1>3, <1>4, <1>5, <1>6, Zenon DEF Life

LEMMA DispatchScheduleTimerLife ==
  ASSUME TypeOK, Life, DispatchScheduleTimer
  PROVE  Life'
<1>1. Phases'
      BY Zenon DEF Life, Phases, DispatchScheduleTimer, counters, owner
<1>2. Order'
      BY DEF Life, Phases, Order, Ending, TypeOK, DispatchScheduleTimer, counters, owner
<1>3. End'
      BY DEF Life, Phases, Order, End, Ahead, Ending, TypeOK, DispatchScheduleTimer,
         counters, owner
<1>4. Letters'
      BY DEF Life, Phases, Letters, TypeOK, DispatchScheduleTimer, counters, owner
<1>5. Clients'
      BY DEF Life, Clients, TypeOK, DispatchScheduleTimer, counters, owner
<1>6. Counts'
      BY DEF Life, Phases, Order, End, Letters, Counts, One, Ahead, Ending, TypeOK,
         DispatchScheduleTimer, counters, owner
<1> QED BY <1>1, <1>2, <1>3, <1>4, <1>5, <1>6, Zenon DEF Life

LEMMA EndThreadLife ==
  ASSUME TypeOK, Life, EndThread
  PROVE  Life'
<1>1. Phases'
      BY Zenon DEF Life, Phases, EndThread, counters, owner
<1>2. Order'
      BY DEF Life, Phases, Order, Ending, TypeOK, EndThread, counters, owner
<1>3. End'
      BY DEF Life, Phases, Order, End, Ahead, Ending, TypeOK, EndThread, counters, owner
<1>4. Letters'
      BY DEF Life, Phases, Letters, TypeOK, EndThread, counters, owner
<1>5. Clients'
      BY DEF Life, Clients, TypeOK, EndThread, counters, owner
<1>6. Counts'
      BY DEF Life, Phases, Order, End, Letters, Counts, One, Ahead, Ending, TypeOK,
         EndThread, counters, owner
<1> QED BY <1>1, <1>2, <1>3, <1>4, <1>5, <1>6, Zenon DEF Life

LEMMA ScheduleTimerLife ==
  ASSUME TypeOK, Life, ScheduleTimer
  PROVE  Life'
<1>1. Phases'
      BY Zenon DEF Life, Phases, ScheduleTimer, OneNotificationLess, worker
<1>2. Order'
      BY DEF Life, Phases, Order, Ending, TypeOK, ScheduleTimer, OneNotificationLess, worker
<1>3. End'
      BY DEF Life, Phases, Order, End, Ahead, Ending, TypeOK, ScheduleTimer,
         OneNotificationLess, worker
<1>4. Letters'
  <2>1. /\ mail # <<>> /\ mail' = Tail(mail) /\ mail[1] = "schedule"
        /\ real' = real /\ acked' = acked
        BY DEF ScheduleTimer, worker, TypeOK
  <2>2. /\ Len(mail') = Len(mail) - 1
        /\ \A i \in 1 .. Len(mail') : mail'[i] = mail[i + 1]
        /\ Len(mail) \in Nat /\ Len(mail) > 0
        BY <2>1 DEF TypeOK
  <2>3. ASSUME NEW i \in 1 .. Len(mail'), mail'[i] = "ack"
        PROVE  i = Len(mail') /\ real = "ended" /\ ~acked
        BY <2>2, <2>3 DEF Life, Letters
  <2>4. ASSUME real = "ended" /\ ~acked
        PROVE  mail' # <<>> /\ mail'[Len(mail')] = "ack"
    <3>1. mail[Len(mail)] = "ack"
          BY <2>4, Zenon DEF Life, Letters
    <3>2. Len(mail) > 1
          BY <2>1, <2>2, <3>1
    <3> QED BY <2>2, <3>1, <3>2
  <2> QED BY <2>1, <2>3, <2>4, Zenon DEF Letters
<1>5. Clients'
      BY DEF Life, Clients, TypeOK, ScheduleTimer, OneNotificationLess, worker
<1>6. Counts'
      BY DEF Life, Phases, Order, End, Letters, Counts, One, Ahead, Ending, TypeOK,
         ScheduleTimer, OneNotificationLess, worker
<1> QED BY <1>1, <1>2, <1>3, <1>4, <1>5, <1>6, Zenon DEF Life

LEMMA StopThreadLife ==
  ASSUME TypeOK, Life, StopThread
  PROVE  Life'
<1>1. Phases'
      BY Zenon DEF Life, Phases, StopThread
<1>2. Order'
      BY DEF Life, Phases, Order, Ending, TypeOK, StopThread
<1>3. End'
      BY DEF Life, Phases, Order, End, Ahead, Ending, TypeOK, StopThread
<1>4. Letters'
      BY DEF Life, Phases, Letters, TypeOK, StopThread
<1>5. Clients'
      BY DEF Life, Clients, TypeOK, StopThread
<1>6. Counts'
  <2>1. /\ doing = "stopping" /\ queue' = queue \o <<"cleanup", "stop">> /\ spinning'
        /\ pendingCount' = pendingCount + 1
        /\ UNCHANGED <<idleCount, enabled, real, step, mail, acked>>
        BY Zenon DEF StopThread
  <2>2. ~spinning /\ ~cleanedUp /\ hasThread
        BY <2>1, Zenon DEF Life, Phases
  <2>3. real = "alive"
        BY <2>2 DEF Life, Phases, TypeOK
  <2>4. Len(queue') = Len(queue) + 2 /\ Len(queue) \in Nat
        BY <2>1 DEF TypeOK
  <2>5. Ahead' <=> Ahead
        BY <2>1 DEF Ahead, TypeOK
  <2>6. Ending' /\ ~Ending
        BY <2>1, <2>2, <2>3 DEF Ending
  <2>7. /\ pendingCount = Len(queue)
               - One(Ahead) - One(Ending) + One(step = "after") + One(~enabled)
        /\ idleCount = Len(mail) + One(step = "notify") - One(real = "ended" /\ ~acked)
        BY Zenon DEF Life, Counts
  <2>8. /\ One(Ahead)' = One(Ahead) /\ One(Ending)' = 1 /\ One(Ending) = 0
        /\ One(step = "after")' = One(step = "after") /\ One(~enabled)' = One(~enabled)
        /\ One(real = "ended" /\ ~acked)' = One(real = "ended" /\ ~acked)
        /\ One(step = "notify")' = One(step = "notify")
        BY <2>1, <2>5, <2>6, Zenon DEF One
  <2>9. pendingCount' = Len(queue') - One(Ahead) - 1 + One(step = "after") + One(~enabled)
    <3>1. One(Ahead) \in Int /\ One(step = "after") \in Int /\ One(~enabled) \in Int
          BY DEF One
    <3> QED BY <2>1, <2>4, <2>7, <2>8, <3>1
  <2> QED BY <2>1, <2>7, <2>8, <2>9, Zenon DEF Counts
<1> QED BY <1>1, <1>2, <1>3, <1>4, <1>5, <1>6, Zenon DEF Life

LEMMA ReceiveAckLife ==
  ASSUME TypeOK, Life, ReceiveAck
  PROVE  Life'
<1>1. Phases'
  <2>1. mail # <<>> /\ mail[1] = "ack" /\ mail' = Tail(mail) /\ acked'
        BY DEF ReceiveAck, TypeOK
  <2>2. 1 \in 1 .. Len(mail)
        BY <2>1 DEF TypeOK
  <2>3. Len(mail) = 1 /\ real = "ended"
        BY <2>1, <2>2 DEF Life, Letters
  <2>4. mail' = <<>>
        BY <2>1, <2>3 DEF TypeOK
  <2>5. UNCHANGED <<cleanedUp, hasThread, timer, useQueue, doing, spinning, worker>>
        BY Zenon DEF ReceiveAck, counters
  <2> QED BY <2>1, <2>3, <2>4, <2>5, Zenon DEF Life, Phases, worker
<1>2. Order'
      BY DEF Life, Phases, Order, Ending, TypeOK, ReceiveAck, counters, worker
<1>3. End'
      BY DEF Life, Phases, Order, End, Ahead, Ending, TypeOK, ReceiveAck, counters, worker
<1>4. Letters'
      BY DEF Life, Phases, Letters, TypeOK, ReceiveAck, counters, worker
<1>5. Clients'
      BY DEF Life, Clients, TypeOK, ReceiveAck, counters, worker
<1>6. Counts'
  <2>1. mail # <<>> /\ mail[1] = "ack" /\ mail' = Tail(mail) /\ acked'
        BY DEF ReceiveAck, TypeOK
  <2>2. 1 \in 1 .. Len(mail)
        BY <2>1 DEF TypeOK
  <2>3. Len(mail) = 1 /\ real = "ended" /\ ~acked
        BY <2>1, <2>2 DEF Life, Letters
  <2>4. Len(mail') = 0
        BY <2>1, <2>3 DEF TypeOK
  <2>5. UNCHANGED <<pendingCount, idleCount, enabled, spinning, real, queue, step>>
        BY Zenon DEF ReceiveAck, counters, worker
  <2>6. pendingCount' = (Len(queue)
            - One(Ahead) - One(Ending) + One(step = "after") + One(~enabled))'
        BY <2>5, Zenon DEF Life, Counts, One, Ahead, Ending
  <2>7. idleCount = Len(mail) + One(step = "notify") - 1
        BY <2>3, Zenon DEF Life, Counts, One
  <2>8. One(step = "notify")' = One(step = "notify") /\ One(real = "ended" /\ ~acked)' = 0
        BY <2>1, <2>5, Zenon DEF One
  <2>9. One(step = "notify") \in Int
        BY DEF One
  <2>10. idleCount' = Len(mail') + One(step = "notify") - 0
        BY <2>3, <2>4, <2>5, <2>7, <2>9
  <2> QED BY <2>6, <2>8, <2>10, Zenon DEF Counts
<1> QED BY <1>1, <1>2, <1>3, <1>4, <1>5, <1>6, Zenon DEF Life

LEMMA FinishShutdownThreadLife ==
  ASSUME TypeOK, Life, FinishShutdownThread
  PROVE  Life'
<1>1. Phases'
      BY Zenon DEF Life, Phases, FinishShutdownThread, Kept
<1>2. Order'
  <2>1. /\ real = "ended" /\ queue = <<>> /\ mail = <<>> /\ step = "idle" /\ hasThread
        BY DEF FinishShutdownThread, Life, Phases, TypeOK
  <2>2. CASE queue' = queue
        BY <2>1, <2>2 DEF Order
  <2>3. CASE queue' = <<"init">> \o queued /\ ~observer'
    <3>1. step' = step
          BY Zenon DEF FinishShutdownThread
    <3>2. /\ Len(queue') = 1 + Len(queued) /\ queue'[1] = "init" /\ Len(queued) \in Nat
          /\ \A i \in 1 .. Len(queued) : queue'[i + 1] = queued[i]
          BY <2>3 DEF TypeOK
    <3>3. ASSUME NEW i \in 1 .. Len(queue'), i # 1
          PROVE  queue'[i] \notin {"init", "cleanup", "stop"}
      <4>1. i - 1 \in 1 .. Len(queued) /\ (i - 1) + 1 = i
            BY <3>2, <3>3
      <4>2. queue'[i] = queued[i - 1]
            BY <3>2, <4>1
      <4> QED BY <4>1, <4>2, Zenon DEF Life, Clients
    <3>4. queue'[1] # "cleanup" /\ queue'[1] # "stop"
          BY <3>2
    <3> QED BY <2>1, <2>3, <3>1, <3>3, <3>4, Zenon DEF Order
  <2> QED BY <2>2, <2>3, Zenon DEF FinishShutdownThread, Kept
<1>3. End'
      BY DEF Life, Phases, Order, End, Ahead, Ending, TypeOK, FinishShutdownThread, Kept
<1>4. Letters'
      BY DEF Life, Phases, Letters, TypeOK, FinishShutdownThread, Kept
<1>5. Clients'
      BY DEF Life, Clients, TypeOK, FinishShutdownThread, Kept
<1>6. Counts'
  <2>1. /\ real = "ended" /\ queue = <<>> /\ mail = <<>> /\ step = "idle" /\ hasThread
        BY DEF FinishShutdownThread, Life, Phases, TypeOK
  <2>2. /\ ~spinning' /\ ~acked' /\ acked
        /\ UNCHANGED <<idleCount, enabled, step, mail>>
        BY Zenon DEF FinishShutdownThread
  <2>3. pendingCount = One(~enabled) /\ idleCount = 0
        BY <2>1, <2>2 DEF Life, Counts, One, Ahead, Ending
  <2>4. /\ One(Ending)' = 0 /\ One(step = "after")' = 0 /\ One(~enabled)' = One(~enabled)
        /\ One(step = "notify")' = 0
        BY <2>1, <2>2 DEF One, Ending
  <2>5. CASE real' = "none" /\ queue' = queue /\ pendingCount' = pendingCount
    <3>1. One(Ahead)' = 0 /\ Len(queue') = 0 /\ Len(mail') = 0 /\ One(real = "ended" /\ ~acked)' = 0
          BY <2>1, <2>2, <2>5 DEF One, Ahead
    <3> QED BY <2>2, <2>3, <2>4, <2>5, <3>1 DEF Counts, One
  <2>6. CASE /\ real' = "alive" /\ queue' = <<"init">> \o queued
             /\ pendingCount' = pendingCount + Len(queued)
    <3>1. Len(queue') = 1 + Len(queued) /\ queue'[1] = "init" /\ queue' # <<>> /\ Len(queued) \in Nat
          BY <2>6 DEF TypeOK
    <3>2. One(Ahead)' = 1 /\ Len(mail') = 0 /\ One(real = "ended" /\ ~acked)' = 0
          BY <2>1, <2>2, <2>6, <3>1 DEF One, Ahead
    <3>3. pendingCount' = (1 + Len(queued)) - 1 - 0 + 0 + One(~enabled)
      <4>1. One(~enabled) \in Int
            BY DEF One
      <4> QED BY <2>3, <2>6, <3>1, <4>1
    <3>4. idleCount' = 0 + 0 - 0
          BY <2>2, <2>3
    <3> QED BY <2>2, <2>4, <3>1, <3>2, <3>3, <3>4, Zenon DEF Counts
  <2> QED BY <2>5, <2>6, Zenon DEF FinishShutdownThread, Kept
<1> QED BY <1>1, <1>2, <1>3, <1>4, <1>5, <1>6, Zenon DEF Life

-----------------------------------------------------------------------------
LEMMA LifeInit == Init => Life
<1> SUFFICES ASSUME Init PROVE Life
    OBVIOUS
<1>1. Phases
      BY Zenon DEF Init, Phases
<1>2. Order /\ Letters /\ Clients
      BY DEF Init, Order, Letters, Clients
<1>3. End
      BY Zenon DEF Init, End, Ending
<1>4. ~Ahead /\ ~Ending
      BY Zenon DEF Init, Ahead, Ending
<1>5. Counts
      BY <1>4 DEF Init, Counts, One
<1> QED BY <1>1, <1>2, <1>3, <1>5, Zenon DEF Life

\* ShutdownAgain is what the account does not survive; ForgetThread follows it.
LEMMA LifeStep ==
  ASSUME TypeOK, ~reentered => Life, [Next]_vars
  PROVE  (~reentered => Life)'
<1> SUFFICES ASSUME ~reentered'
             PROVE  Life'
    OBVIOUS
<1>1. reentered' = reentered \/ ShutdownAgain
      BY Zenon DEF Next, ThreadStep, OwnerStep, Dispatch, DisableIdleTimeout,
         EnableIdleTimeout,
         DispatchDummy, RunEvent, AfterProcessNextEvent, DispatchScheduleTimer, EndThread,
         ScheduleTimer, Notify, Shutdown, StopThread, ForgetThread, ReceiveAck,
         FinishShutdownThread, vars
<1>2. ~ShutdownAgain
      BY Zenon DEF ShutdownAgain
<1>3. Life
      BY <1>1, <1>2, Zenon
<1>4. ~ForgetThread
      BY <1>3 DEF ForgetThread, Life, Phases
<1>5. ASSUME NEW e \in Tasks, Dispatch(e)
      PROVE  Life'
      BY <1>3, <1>5, DispatchLife
<1>6. CASE UNCHANGED vars
      BY <1>3, <1>6, Zenon DEF vars, counters, owner, worker,
         Life, Phases, Order, End, Letters, Clients, Counts, Ahead, Ending
<1> QED BY <1>2, <1>3, <1>4, <1>5, <1>6, DisableIdleTimeoutLife, EnableIdleTimeoutLife,
        DispatchDummyLife, RunEventLife, AfterProcessNextEventLife, DispatchScheduleTimerLife,
        EndThreadLife, ScheduleTimerLife, NotifyLife, ShutdownLife, StopThreadLife,
        ReceiveAckLife, FinishShutdownThreadLife, Zenon
        DEF Next, ThreadStep, OwnerStep

LEMMA LifeGivesFreshStart == TypeOK /\ (~reentered => Life) => FreshStart
<1> SUFFICES ASSUME TypeOK, Life
             PROVE  /\ acked => NothingPending /\ cleanedUp
                    /\ ~hasThread => NothingPending /\ timer = "null" /\ ~cleanedUp
    BY Zenon DEF FreshStart
<1>1. CASE acked
  <2>1. /\ real = "ended" /\ queue = <<>> /\ mail = <<>> /\ step = "idle" /\ hasThread /\ cleanedUp
        BY <1>1 DEF Life, Phases, TypeOK
  <2>2. NothingPending
        BY <1>1, <2>1 DEF Life, Counts, One, Ahead, Ending, NothingPending, TypeOK
  <2> QED BY <2>1, <2>2
<1>2. CASE ~acked /\ ~hasThread
  <2>1. /\ real = "none" /\ queue = <<>> /\ mail = <<>> /\ step = "idle" /\ ~spinning
        /\ timer = "null" /\ ~cleanedUp
        BY <1>2 DEF Life, Phases, TypeOK
  <2>2. NothingPending
        BY <1>2, <2>1 DEF Life, Counts, One, Ahead, Ending, NothingPending, TypeOK
  <2> QED BY <1>2, <2>1, <2>2
<1> QED BY <1>1, <1>2

-----------------------------------------------------------------------------
(* The order of the tasks *)

LEMMA Appended ==
  ASSUME NEW S, NEW s \in Seq(S), NEW e \in S
  PROVE  /\ Append(s, e) \in Seq(S) /\ s \o <<e>> = Append(s, e)
         /\ DOMAIN s = 1 .. Len(s) /\ Len(s) \in Nat
         /\ DOMAIN Append(s, e) = 1 .. Len(s) + 1
         /\ Append(s, e)[Len(s) + 1] = e
         /\ \A i \in DOMAIN s : Append(s, e)[i] = s[i]
         /\ \A x : Has(Append(s, e), x) <=> Has(s, x) \/ x = e
<1>1. Append(s, e) \in Seq(S) /\ s \o <<e>> = Append(s, e)
      OBVIOUS
<1>2. /\ DOMAIN s = 1 .. Len(s) /\ Len(s) \in Nat
      /\ DOMAIN Append(s, e) = 1 .. Len(s) + 1
      /\ Append(s, e)[Len(s) + 1] = e
      /\ \A i \in DOMAIN s : Append(s, e)[i] = s[i]
      OBVIOUS
<1>3. \A x : Has(Append(s, e), x) <=> Has(s, x) \/ x = e
      BY <1>2 DEF Has
<1> QED BY <1>1, <1>2, <1>3

\* A new task, put last where it goes, is last of what is owed.
LEMMA TaskPut ==
  ASSUME NEW s \in Seq(Items), NEW t \in Seq(Items), NEW o \in Seq(Tasks), NEW e \in Tasks,
         Fits(s, t, o), ~Has(s, e), ~Has(t, e), ~Has(o, e)
  PROVE  /\ Fits(s, Append(t, e), Append(o, e))
         /\ t = <<>> => Fits(Append(s, e), t, Append(o, e))
<1> DEFINE p == Append(o, e)
<1>1. e \in Items
      BY DEF Items
<1>2. /\ DOMAIN o = 1 .. Len(o) /\ Len(o) \in Nat /\ DOMAIN p = 1 .. Len(o) + 1
      /\ p[Len(o) + 1] = e
      /\ \A k \in DOMAIN o : p[k] = o[k]
      BY Appended
<1> HIDE DEF p
<1>3. \A k \in DOMAIN p : p[k] # e => k \in DOMAIN o /\ o[k] = p[k]
      BY <1>2
<1>4. \A k \in DOMAIN p : p[k] = e => k = Len(o) + 1
      BY <1>2 DEF Has
<1>5. ASSUME NEW u \in Seq(Items), Sorted(u, o), ~Has(u, e)
      PROVE  Sorted(u, p)
      BY <1>3, <1>5 DEF Sorted, Has
<1>6. ASSUME NEW u \in Seq(Items), Sorted(u, o), ~Has(u, e)
      PROVE  Sorted(Append(u, e), p)
  <2> DEFINE v == Append(u, e)
  <2>1. /\ DOMAIN u = 1 .. Len(u) /\ Len(u) \in Nat /\ DOMAIN v = 1 .. Len(u) + 1
        /\ v[Len(u) + 1] = e
        /\ \A i \in DOMAIN u : v[i] = u[i]
        BY <1>1, Appended
  <2> HIDE DEF v
  <2>2. ASSUME NEW i \in DOMAIN v, NEW j \in DOMAIN v, NEW k \in DOMAIN p, NEW l \in DOMAIN p,
               i < j, v[i] = p[k], v[j] = p[l]
        PROVE  k < l
    <3>1. i \in DOMAIN u
          BY <2>1, <2>2
    <3>2. u[i] = p[k] /\ u[i] # e
          BY <3>1, <2>1, <2>2, <1>6 DEF Has
    <3>3. k \in DOMAIN o /\ o[k] = u[i]
          BY <3>2, <1>3
    <3>4. CASE j \in DOMAIN u
      <4>1. u[j] = p[l] /\ u[j] # e
            BY <3>4, <2>1, <2>2, <1>6 DEF Has
      <4>2. l \in DOMAIN o /\ o[l] = u[j]
            BY <4>1, <1>3
      <4> QED BY <2>2, <3>1, <3>3, <3>4, <4>2, <1>6 DEF Sorted
    <3>5. CASE j = Len(u) + 1
      <4>1. l = Len(o) + 1
            BY <3>5, <2>1, <2>2, <1>4
      <4> QED BY <3>3, <4>1, <1>2
    <3>6. j \in DOMAIN u \/ j = Len(u) + 1
          BY <2>1
    <3> QED BY <3>4, <3>5, <3>6
  <2>3. Sorted(v, p)
        BY <2>2 DEF Sorted
  <2> QED BY <2>3 DEF v
<1>7. Precedes(s, Append(t, e), p)
  <2>1. /\ DOMAIN Append(t, e) = 1 .. Len(t) + 1 /\ Append(t, e)[Len(t) + 1] = e
        /\ DOMAIN t = 1 .. Len(t) /\ Len(t) \in Nat
        /\ \A i \in DOMAIN t : Append(t, e)[i] = t[i]
        BY <1>1, Appended
  <2> DEFINE v == Append(t, e)
  <2> HIDE DEF v
  <2>2. ASSUME NEW i \in DOMAIN s, NEW j \in DOMAIN v, NEW k \in DOMAIN p, NEW l \in DOMAIN p,
               s[i] = p[k], v[j] = p[l]
        PROVE  k < l
    <3>1. k \in DOMAIN o /\ o[k] = s[i]
          BY <2>2, <1>3 DEF Has
    <3>2. CASE j \in DOMAIN t
      <4>1. t[j] = p[l] /\ t[j] # e
            BY <3>2, <2>1, <2>2 DEF Has, v
      <4>2. l \in DOMAIN o /\ o[l] = t[j]
            BY <4>1, <1>3
      <4> QED BY <3>1, <3>2, <4>2 DEF Fits, Precedes
    <3>3. CASE j = Len(t) + 1
      <4>1. l = Len(o) + 1
            BY <3>3, <2>1, <2>2, <1>4 DEF v
      <4> QED BY <3>1, <4>1, <1>2
    <3> QED BY <3>2, <3>3, <2>1 DEF v
  <2>3. Precedes(s, v, p)
        BY <2>2 DEF Precedes
  <2> QED BY <2>3 DEF v
<1>8. Fits(s, Append(t, e), p)
      BY <1>5, <1>6, <1>7 DEF Fits
<1>9. ASSUME t = <<>> PROVE Fits(Append(s, e), t, p)
  <2>1. Sorted(Append(s, e), p) /\ Sorted(t, p)
        BY <1>5, <1>6 DEF Fits
  <2>2. Precedes(Append(s, e), t, p)
        BY <1>9 DEF Precedes
  <2> QED BY <2>1, <2>2 DEF Fits
<1> QED BY <1>8, <1>9 DEF p

\* Chores may be put anywhere, and be first.
LEMMA ChorePut ==
  ASSUME NEW s \in Seq(Items), NEW t \in Seq(Items), NEW o \in Seq(Tasks), NEW c \in Chores,
         Fits(s, t, o)
  PROVE  /\ Fits(Append(s, c), t, o) /\ Fits(s, Append(t, c), o)
         /\ s = <<>> => Fits(<<c>> \o t, <<>>, o)
<1>1. c \in Items /\ \A k \in DOMAIN o : o[k] # c
      BY TasksAssumption DEF Items
<1>2. ASSUME NEW u \in Seq(Items), NEW i \in DOMAIN Append(u, c), Append(u, c)[i] # c
      PROVE  i \in DOMAIN u /\ Append(u, c)[i] = u[i]
      BY <1>1, <1>2, Appended
<1>3. ASSUME NEW u \in Seq(Items), Sorted(u, o)
      PROVE  Sorted(Append(u, c), o)
  <2> SUFFICES ASSUME NEW i \in DOMAIN Append(u, c), NEW j \in DOMAIN Append(u, c),
                      NEW k \in DOMAIN o, NEW l \in DOMAIN o,
                      i < j, Append(u, c)[i] = o[k], Append(u, c)[j] = o[l]
               PROVE  k < l
      BY DEF Sorted
  <2>1. Append(u, c)[i] # c /\ Append(u, c)[j] # c
        BY <1>1
  <2>2. i \in DOMAIN u /\ j \in DOMAIN u /\ u[i] = o[k] /\ u[j] = o[l]
        BY <1>2, <2>1
  <2> QED BY <1>3, <2>2 DEF Sorted
<1>4. Precedes(Append(s, c), t, o)
  <2> SUFFICES ASSUME NEW i \in DOMAIN Append(s, c), NEW j \in DOMAIN t,
                      NEW k \in DOMAIN o, NEW l \in DOMAIN o,
                      Append(s, c)[i] = o[k], t[j] = o[l]
               PROVE  k < l
      BY DEF Precedes
  <2>1. i \in DOMAIN s /\ s[i] = o[k]
        BY <1>1, <1>2
  <2> QED BY <2>1 DEF Fits, Precedes
<1>5. Precedes(s, Append(t, c), o)
  <2> SUFFICES ASSUME NEW i \in DOMAIN s, NEW j \in DOMAIN Append(t, c),
                      NEW k \in DOMAIN o, NEW l \in DOMAIN o,
                      s[i] = o[k], Append(t, c)[j] = o[l]
               PROVE  k < l
      BY DEF Precedes
  <2>1. j \in DOMAIN t /\ t[j] = o[l]
        BY <1>1, <1>2
  <2> QED BY <2>1 DEF Fits, Precedes
<1>6. Sorted(<<c>> \o t, o)
  <2> DEFINE v == <<c>> \o t
  <2>1. /\ DOMAIN v = 1 .. Len(t) + 1 /\ v[1] = c /\ DOMAIN t = 1 .. Len(t) /\ Len(t) \in Nat
        /\ \A i \in 1 .. Len(t) : v[i + 1] = t[i]
        BY <1>1
  <2> HIDE DEF v
  <2>2. ASSUME NEW i \in DOMAIN v, v[i] # c
        PROVE  i - 1 \in DOMAIN t /\ t[i - 1] = v[i]
    <3>1. i - 1 \in 1 .. Len(t) /\ (i - 1) + 1 = i
          BY <2>1, <2>2
    <3> QED BY <2>1, <3>1
  <2>3. ASSUME NEW i \in DOMAIN v, NEW j \in DOMAIN v, NEW k \in DOMAIN o, NEW l \in DOMAIN o,
               i < j, v[i] = o[k], v[j] = o[l]
        PROVE  k < l
    <3>1. i - 1 \in DOMAIN t /\ j - 1 \in DOMAIN t /\ t[i - 1] = o[k] /\ t[j - 1] = o[l]
          BY <1>1, <2>2, <2>3
    <3>2. i - 1 < j - 1
          BY <2>1, <2>3
    <3> QED BY <3>1, <3>2 DEF Fits, Sorted
  <2>4. Sorted(v, o)
        BY <2>3 DEF Sorted
  <2> QED BY <2>4 DEF v
<1>7. Sorted(<<>>, o) /\ Precedes(<<c>> \o t, <<>>, o)
      BY DEF Sorted, Precedes
<1> QED BY <1>3, <1>4, <1>5, <1>6, <1>7 DEF Fits

\* What the thread takes next leaves the rest in order; a task among it is the first
\* that is owed.
LEMMA HeadTaken ==
  ASSUME NEW s \in Seq(Items), NEW t \in Seq(Items), NEW o \in Seq(Tasks),
         Fits(s, t, o), s # <<>>
  PROVE  /\ Fits(Tail(s), t, o)
         /\ \A x : Has(s, x) <=> x = Head(s) \/ Has(Tail(s), x)
         /\ Distinct(o) /\ Has(o, Head(s)) /\ (\A x \in Tasks : Has(o, x) => Has(s, x) \/ Has(t, x)) =>
              /\ o # <<>> /\ Head(o) = Head(s)
              /\ Tail(o) \in Seq(Tasks) /\ Distinct(Tail(o))
              /\ \A x : Has(Tail(o), x) <=> Has(o, x) /\ x # Head(s)
              /\ ~Has(Tail(s), Head(s)) /\ ~Has(t, Head(s))
              /\ Fits(Tail(s), t, Tail(o))
<1>1. /\ DOMAIN s = 1 .. Len(s) /\ Len(s) \in Nat /\ Len(s) > 0 /\ Head(s) = s[1]
      /\ DOMAIN Tail(s) = 1 .. Len(s) - 1
      /\ \A i \in 1 .. Len(s) - 1 : Tail(s)[i] = s[i + 1]
      OBVIOUS
<1> DEFINE u == Tail(s)
<1> HIDE DEF u
<1>2. ASSUME NEW i \in DOMAIN u
      PROVE  i + 1 \in DOMAIN s /\ u[i] = s[i + 1] /\ i \in Int
      BY <1>1 DEF u
<1>3. Sorted(u, o)
      BY <1>2 DEF Fits, Sorted
<1>4. Precedes(u, t, o)
      BY <1>2 DEF Fits, Precedes
<1>5. ASSUME NEW x PROVE Has(s, x) <=> x = s[1] \/ Has(u, x)
  <2>1. ASSUME NEW i \in DOMAIN s, i # 1
        PROVE  i - 1 \in DOMAIN u /\ u[i - 1] = s[i]
    <3>1. i - 1 \in 1 .. Len(s) - 1 /\ (i - 1) + 1 = i
          BY <1>1, <2>1
    <3> QED BY <1>1, <3>1 DEF u
  <2>2. 1 \in DOMAIN s
        BY <1>1
  <2> QED BY <1>2, <2>1, <2>2 DEF Has
<1>6. ASSUME Distinct(o), Has(o, s[1]), \A x \in Tasks : Has(o, x) => Has(s, x) \/ Has(t, x)
      PROVE  /\ o # <<>> /\ Head(o) = s[1]
             /\ Tail(o) \in Seq(Tasks) /\ Distinct(Tail(o))
             /\ \A x : Has(Tail(o), x) <=> Has(o, x) /\ x # s[1]
             /\ ~Has(u, s[1]) /\ ~Has(t, s[1])
             /\ Fits(u, t, Tail(o))
  <2>1. PICK k \in DOMAIN o : o[k] = s[1]
        BY <1>6 DEF Has
  <2>2. DOMAIN o = 1 .. Len(o) /\ Len(o) \in Nat /\ Len(o) > 0 /\ o # <<>> /\ Head(o) = o[1]
        BY <2>1
  <2>3. 1 \in DOMAIN s /\ 1 \in DOMAIN o /\ o[1] \in Tasks
        BY <1>1, <2>2
  <2>4. k = 1
    <3>1. Has(s, o[1]) \/ Has(t, o[1])
          BY <1>6, <2>3 DEF Has
    <3>2. CASE Has(s, o[1])
      <4>1. PICK i \in DOMAIN s : s[i] = o[1]
            BY <3>2 DEF Has
      <4>2. CASE i = 1
            BY <1>6, <2>1, <2>3, <4>1, <4>2 DEF Distinct
      <4>3. CASE 1 < i
        <5>1. k < 1
              BY <2>1, <2>3, <4>1, <4>3 DEF Fits, Sorted
        <5> QED BY <5>1, <2>2
      <4> QED BY <4>2, <4>3, <1>1
    <3>3. CASE Has(t, o[1])
      <4>1. PICK i \in DOMAIN t : t[i] = o[1]
            BY <3>3 DEF Has
      <4>2. k < 1
            BY <2>1, <2>3, <4>1 DEF Fits, Precedes
      <4> QED BY <4>2, <2>2
    <3> QED BY <3>1, <3>2, <3>3
  <2>5. o[1] = s[1]
        BY <2>1, <2>4
  <2> DEFINE p == Tail(o)
  <2>6. /\ p \in Seq(Tasks) /\ DOMAIN p = 1 .. Len(o) - 1
        /\ \A l \in 1 .. Len(o) - 1 : p[l] = o[l + 1]
        BY <2>2
  <2> HIDE DEF p
  <2>7. ASSUME NEW l \in DOMAIN p
        PROVE  l + 1 \in DOMAIN o /\ p[l] = o[l + 1] /\ l \in Int /\ l + 1 # 1
        BY <2>2, <2>6
  <2>8. Distinct(p)
    <3>1. ASSUME NEW l \in DOMAIN p, NEW m \in DOMAIN p, p[l] = p[m]
          PROVE  l = m
      <4>1. l + 1 = m + 1
            BY <3>1, <2>7, <1>6 DEF Distinct
      <4> QED BY <4>1, <2>7
    <3> QED BY <3>1 DEF Distinct
  <2>9. ASSUME NEW x
        PROVE  Has(p, x) <=> Has(o, x) /\ x # s[1]
    <3>1. ASSUME NEW l \in DOMAIN o, l # 1
          PROVE  l - 1 \in DOMAIN p /\ p[l - 1] = o[l]
      <4>1. l - 1 \in 1 .. Len(o) - 1 /\ (l - 1) + 1 = l
            BY <3>1, <2>2
      <4> QED BY <4>1, <2>6
    <3>2. \A l \in DOMAIN p : p[l] # s[1]
          BY <2>3, <2>5, <2>7, <1>6 DEF Distinct
    <3>3. Has(p, x) => Has(o, x) /\ x # s[1]
          BY <2>7, <3>2 DEF Has
    <3>4. Has(o, x) /\ x # s[1] => Has(p, x)
          BY <2>5, <3>1 DEF Has
    <3> QED BY <3>3, <3>4
  <2>10. ~Has(u, s[1]) /\ ~Has(t, s[1])
    <3>1. ASSUME NEW i \in DOMAIN u, u[i] = s[1] PROVE FALSE
      <4>1. i + 1 \in DOMAIN s /\ s[i + 1] = o[1] /\ 1 < i + 1
            BY <3>1, <1>1, <1>2, <2>5 DEF u
      <4>2. 1 < 1
            BY <4>1, <2>3, <2>5 DEF Fits, Sorted
      <4> QED BY <4>2
    <3>2. ASSUME NEW i \in DOMAIN t, t[i] = s[1] PROVE FALSE
      <4>1. 1 < 1
            BY <3>2, <2>3, <2>5 DEF Fits, Precedes
      <4> QED BY <4>1
    <3> QED BY <3>1, <3>2 DEF Has
  <2>11. ASSUME NEW v, Sorted(v, o) PROVE Sorted(v, p)
    <3> SUFFICES ASSUME NEW i \in DOMAIN v, NEW j \in DOMAIN v, NEW l \in DOMAIN p,
                        NEW m \in DOMAIN p, i < j, v[i] = p[l], v[j] = p[m]
                 PROVE  l < m
        BY DEF Sorted
    <3>1. l + 1 < m + 1
          BY <2>7, <2>11 DEF Sorted
    <3> QED BY <3>1, <2>7
  <2>12. ASSUME Precedes(u, t, o) PROVE Precedes(u, t, p)
    <3> SUFFICES ASSUME NEW i \in DOMAIN u, NEW j \in DOMAIN t, NEW l \in DOMAIN p,
                        NEW m \in DOMAIN p, u[i] = p[l], t[j] = p[m]
                 PROVE  l < m
        BY DEF Precedes
    <3>1. l + 1 < m + 1
          BY <2>7, <2>12 DEF Precedes
    <3> QED BY <3>1, <2>7
  <2>13. Fits(u, t, p)
         BY <1>3, <1>4, <2>11, <2>12 DEF Fits
  <2> QED BY <2>2, <2>5, <2>6, <2>8, <2>9, <2>10, <2>13 DEF p
<1>7. Fits(u, t, o)
      BY <1>3, <1>4 DEF Fits
<1> QED BY <1>1, <1>5, <1>6, <1>7 DEF u

-----------------------------------------------------------------------------
LEMMA ClosingStep ==
  ASSUME TypeOK, ~reentered => Life, Closing, [Next]_vars
  PROVE  Closing'
<1>1. ASSUME NEW e \in Tasks, Dispatch(e)
      PROVE  Closing'
  <2>1. UNCHANGED <<isShutdown, useQueue, doing, spinning, reentered>>
        BY <1>1, Zenon DEF Dispatch
  <2>2. isShutdown => UNCHANGED <<hasThread, timer, queued>>
        BY <1>1, Zenon DEF Dispatch
  <2>3. ~isShutdown /\ ~useQueue => queued' = queued
        BY <1>1, Zenon DEF Dispatch, Accept, UseRunnableQueue, Post
  <2>4. /\ isShutdown' <=> isShutdown
        /\ useQueue' <=> useQueue
        /\ spinning' <=> spinning
        /\ reentered' <=> reentered
        BY <2>1
  <2>5. CASE isShutdown
    <3>1. hasThread' <=> hasThread
          BY <2>2, <2>5
    <3> QED BY <2>1, <2>2, <2>4, <2>5, <3>1, Zenon DEF Closing
  <2>6. CASE ~isShutdown
        BY <2>3, <2>4, <2>6, Zenon DEF Closing
  <2> QED BY <2>5, <2>6
<1>2. CASE DisableIdleTimeout
      BY <1>2 DEF DisableIdleTimeout, worker, Closing, TypeOK
<1>3. CASE EnableIdleTimeout
      BY <1>3, Zenon DEF EnableIdleTimeout, worker, Closing
<1>4. CASE DispatchDummy
      BY <1>4, Zenon DEF DispatchDummy, Accept, UseRunnableQueue, Post, Closing
<1>5. CASE ThreadStep
  <2>1. UNCHANGED <<hasThread, timer, isShutdown, useQueue, queued, doing, spinning, reentered>>
        BY <1>5, Zenon DEF ThreadStep, RunEvent, AfterProcessNextEvent, DispatchScheduleTimer,
           EndThread, counters, owner
  <2> QED BY <2>1, Zenon DEF Closing
<1>6. CASE ScheduleTimer
      BY <1>6 DEF ScheduleTimer, worker, Closing
<1>7. CASE ReceiveAck
      BY <1>7, Zenon DEF ReceiveAck, worker, counters, Closing
<1>8. CASE Notify
  <2>1. ~isShutdown /\ isShutdown' = isShutdown
        BY <1>8 DEF Notify, Closing
  <2>2. UNCHANGED <<isShutdown, useQueue, queued, reentered>>
        BY <1>8, Zenon DEF Notify
  <2>3. /\ ~isShutdown'
        /\ ~reentered'
        /\ ~useQueue' => ~useQueue
        BY <2>1, <2>2 DEF Closing
  <2> QED BY <2>1, <2>2, <2>3, Zenon DEF Closing
<1>9. CASE Shutdown
  <2>1. ~reentered => queued = <<>>
        BY <1>9, Zenon DEF Shutdown, Life, Phases, Closing
  <2>2. isShutdown' /\ timer' = "null" /\ (hasThread => doing' = "stopping")
        /\ doing' # "enabling"
        BY <1>9 DEF Shutdown, BeginShutdownThread
  <2> QED BY <1>9, <2>1, <2>2, Zenon DEF Shutdown, Closing
<1>10. CASE StopThread
       BY <1>10 DEF StopThread, Closing
<1>11. CASE ShutdownAgain
  <2>1. ~reentered => timer = "null"
        BY <1>11, Zenon DEF ShutdownAgain, Life, Phases
  <2>2. timer = "null"
        BY <2>1, Zenon DEF Closing
  <2>3. doing' # "enabling"
        BY <1>11 DEF ShutdownAgain
  <2> QED BY <1>11, <2>2, <2>3, Zenon DEF ShutdownAgain, Closing
<1>12. CASE ForgetThread
  <2>1. reentered
        BY <1>12, Zenon DEF ForgetThread, Life, Phases
  <2>2. doing' # "enabling"
        BY <1>12 DEF ForgetThread
  <2> QED BY <1>12, <2>1, <2>2, Zenon DEF ForgetThread, worker, Closing
<1>13. CASE FinishShutdownThread
       BY <1>13, Zenon DEF FinishShutdownThread, Kept, Closing
<1>14. CASE UNCHANGED vars
       BY <1>14, Zenon DEF vars, counters, owner, worker, Closing
<1> QED BY <1>1, <1>2, <1>3, <1>4, <1>5, <1>6, <1>7, <1>8, <1>9, <1>10, <1>11, <1>12, <1>13,
        <1>14, Zenon DEF Next, OwnerStep

\* Accounts of the tasks, kept by every step.
Accounts == owed \in Seq(Tasks) /\ Placed /\ InTurn

LEMMA AccountsLists ==
  TypeOK => queue \in Seq(Items) /\ queued \in Seq(Items) /\ owed \in Seq(Tasks)
BY Zenon DEF TypeOK, Items

\* A task that was accepted is behind the others.
LEMMA TaskAccounted ==
  ASSUME TypeOK, Placed, InTurn, NEW e \in Tasks, fate[e] = "new",
         fate' = [fate EXCEPT ![e] = "accepted"], owed' = Append(owed, e),
         \/ queue' = queue /\ queued' = Append(queued, e)
         \/ queued = <<>> /\ queued' = queued /\ queue' = queue \o <<e>>
         \/ /\ queue = <<>> /\ queued = <<>> /\ queued' = queued
            /\ queue' = <<"init">> \o <<e>>
  PROVE  Accounts'
<1>1. queue \in Seq(Items) /\ queued \in Seq(Items) /\ owed \in Seq(Tasks) /\ e \in Items
      BY AccountsLists DEF Items
<1>2. ~Has(queue, e) /\ ~Has(queued, e) /\ ~Has(owed, e)
      BY DEF Placed
<1>3. \A x \in Tasks : fate'[x] = "accepted" <=> fate[x] = "accepted" \/ x = e
      BY DEF TypeOK
<1>4. owed' \in Seq(Tasks) /\ Distinct(owed')
      /\ \A x : Has(owed', x) <=> Has(owed, x) \/ x = e
  <2>1. /\ owed' \in Seq(Tasks)
        /\ DOMAIN owed = 1 .. Len(owed) /\ Len(owed) \in Nat /\ DOMAIN owed' = 1 .. Len(owed) + 1
        /\ owed'[Len(owed) + 1] = e
        /\ \A k \in DOMAIN owed : owed'[k] = owed[k]
        /\ \A x : Has(owed', x) <=> Has(owed, x) \/ x = e
        BY <1>1, Appended
  <2>2. \A k \in DOMAIN owed' : k \in DOMAIN owed \/ k = Len(owed) + 1
        BY <2>1
  <2>3. Distinct(owed')
        BY <1>2, <2>1, <2>2 DEF Placed, Distinct, Has
  <2> QED BY <2>1, <2>3
<1>5. CASE queue' = queue /\ queued' = Append(queued, e)
  <2>1. Fits(queue, queued', owed')
        BY <1>1, <1>2, <1>5, TaskPut DEF InTurn
  <2>2. \A x : Has(queued', x) <=> Has(queued, x) \/ x = e
        BY <1>1, <1>5, Appended
  <2> QED BY <1>3, <1>4, <1>5, <2>1, <2>2 DEF Accounts, Placed, InTurn
<1>6. CASE queued = <<>> /\ queued' = queued /\ queue' = queue \o <<e>>
  <2>1. queue' = Append(queue, e) /\ \A x : Has(queue', x) <=> Has(queue, x) \/ x = e
    <3>1. queue \o <<e>> = Append(queue, e)
          BY <1>1, Appended
    <3>2. \A x : Has(Append(queue, e), x) <=> Has(queue, x) \/ x = e
          BY <1>1, Appended
    <3> QED BY <1>6, <3>1, <3>2, Zenon
  <2>2. Fits(queue', queued, owed')
        BY <1>1, <1>2, <1>6, <2>1, TaskPut DEF InTurn
  <2> QED BY <1>3, <1>4, <1>6, <2>1, <2>2 DEF Accounts, Placed, InTurn
<1>7. CASE /\ queue = <<>> /\ queued = <<>> /\ queued' = queued
           /\ queue' = <<"init">> \o <<e>>
  <2>1. "init" \in Chores /\ "init" \in Items
        BY DEF Chores, Items
  <2>2. <<"init">> = Append(<<>>, "init") /\ <<"init">> \in Seq(Items)
        BY <2>1
  <2>3. Fits(<<"init">>, queued, owed)
        BY <1>1, <1>7, <2>1, <2>2, ChorePut DEF InTurn
  <2>4. ~Has(<<"init">>, e)
        BY <2>1, TasksAssumption DEF Has
  <2>5. queue' = Append(<<"init">>, e)
        /\ \A x : Has(queue', x) <=> Has(<<"init">>, x) \/ x = e
    <3>1. <<"init">> \o <<e>> = Append(<<"init">>, e)
          OBVIOUS
    <3> DEFINE first == <<"init">>
    <3>2. first \in Seq(Items)
          BY <2>2
    <3> HIDE DEF first
    <3>3. \A x : Has(Append(first, e), x) <=> Has(first, x) \/ x = e
          BY <1>1, <3>2, Appended
    <3> QED BY <1>7, <3>1, <3>3, Zenon DEF first
  <2>6. Fits(queue', queued, owed')
        BY <1>1, <1>2, <1>7, <2>2, <2>3, <2>4, <2>5, TaskPut
  <2>7. \A x \in Tasks : ~Has(<<"init">>, x) /\ ~Has(queue, x)
        BY <1>7, <2>1, TasksAssumption DEF Has
  <2> QED BY <1>3, <1>4, <1>7, <2>5, <2>6, <2>7 DEF Accounts, Placed, InTurn
<1> QED BY <1>5, <1>6, <1>7

\* A chore changes nothing of this.
LEMMA ChoreAccounted ==
  ASSUME TypeOK, Placed, InTurn, UNCHANGED <<fate, owed>>, NEW c \in Chores,
         \/ queue' = queue /\ queued' = Append(queued, c)
         \/ queued' = queued /\ queue' = queue \o <<c>>
         \/ queue = <<>> /\ queue' = <<c>> \o queued /\ queued' = <<>>
  PROVE  Accounts'
<1>1. queue \in Seq(Items) /\ queued \in Seq(Items) /\ owed \in Seq(Tasks) /\ c \in Items
      BY AccountsLists DEF Items
<1>2. \A x \in Tasks : x # c
      BY TasksAssumption
<1>3. InTurn'
  <2>1. queue \o <<c>> = Append(queue, c)
        BY <1>1, Appended
  <2> QED BY <1>1, <2>1, ChorePut DEF InTurn
<1>4. ASSUME NEW x \in Tasks
      PROVE  Has(queue', x) \/ Has(queued', x) <=> Has(queue, x) \/ Has(queued, x)
  <2>1. CASE queue' = queue /\ queued' = Append(queued, c)
        BY <1>1, <1>2, <2>1, Appended
  <2>2. CASE queued' = queued /\ queue' = queue \o <<c>>
    <3>1. queue \o <<c>> = Append(queue, c)
          BY <1>1, Appended
    <3>2. Has(Append(queue, c), x) <=> Has(queue, x) \/ x = c
          BY <1>1, Appended
    <3> QED BY <1>2, <2>2, <3>1, <3>2, Zenon
  <2>3. CASE queue = <<>> /\ queue' = <<c>> \o queued /\ queued' = <<>>
    <3>1. /\ DOMAIN queue' = 1 .. Len(queued) + 1 /\ queue'[1] = c
          /\ DOMAIN queued = 1 .. Len(queued) /\ Len(queued) \in Nat
          /\ \A i \in 1 .. Len(queued) : queue'[i + 1] = queued[i]
          BY <1>1, <2>3
    <3>2. \A i \in DOMAIN queued : i + 1 \in DOMAIN queue' /\ queue'[i + 1] = queued[i]
          BY <3>1
    <3>3. ASSUME NEW i \in DOMAIN queue', queue'[i] # c
          PROVE  i - 1 \in DOMAIN queued /\ queue'[i] = queued[i - 1]
      <4>1. i - 1 \in 1 .. Len(queued) /\ (i - 1) + 1 = i
            BY <3>1, <3>3
      <4> QED BY <3>1, <4>1
    <3>4. ~Has(queue, x) /\ ~Has(queued', x)
          BY <2>3 DEF Has
    <3>5. Has(queue', x) => Has(queued, x)
          BY <1>2, <3>3 DEF Has
    <3>6. Has(queued, x) => Has(queue', x)
          BY <3>2 DEF Has
    <3> QED BY <3>4, <3>5, <3>6
  <2> QED BY <2>1, <2>2, <2>3
<1>5. Placed'
      BY <1>4 DEF Placed
<1> QED BY <1>1, <1>3, <1>5 DEF Accounts

LEMMA AccountsStep ==
  ASSUME TypeOK, ~reentered => Life, Closing, Placed, InTurn, [Next]_vars
  PROVE  Accounts'
<1>1. queue \in Seq(Items) /\ queued \in Seq(Items) /\ owed \in Seq(Tasks)
      BY AccountsLists
<1>2. ASSUME UNCHANGED <<queue, queued, fate, owed>>
      PROVE  Accounts'
      BY <1>1, <1>2 DEF Accounts, Placed, InTurn
<1>3. "init" \in Chores /\ "cleanup" \in Chores /\ "stop" \in Chores /\ "dummy" \in Chores
      BY DEF Chores
<1>4. ~reentered /\ ~hasThread => queue = <<>>
      BY Zenon DEF Life, Phases
\* Where Accept puts an event.
<1>5. ASSUME NEW e, Accept(e), ~isShutdown, useQueue' = useQueue
      PROVE  \/ queue' = queue /\ queued' = Append(queued, e)
             \/ queued = <<>> /\ queued' = queued /\ queue' = queue \o <<e>>
             \/ /\ queue = <<>> /\ queued = <<>> /\ queued' = queued
                /\ queue' = <<"init">> \o <<e>>
      BY <1>4, <1>5, Zenon DEF Accept, UseRunnableQueue, Post, Closing
<1>6. ASSUME NEW e \in Tasks, Dispatch(e)
      PROVE  Accounts'
  <2>1. CASE isShutdown
    <3>1. /\ fate[e] = "new" /\ fate' = [fate EXCEPT ![e] = "refused"]
          /\ UNCHANGED <<queue, queued, owed>>
          BY <1>6, <2>1, Zenon DEF Dispatch
    <3>2. \A x \in Tasks : fate'[x] = "accepted" <=> fate[x] = "accepted"
          BY <3>1 DEF TypeOK
    <3> QED BY <1>1, <3>1, <3>2 DEF Accounts, Placed, InTurn
  <2>2. CASE ~isShutdown
    <3>1. /\ fate[e] = "new" /\ fate' = [fate EXCEPT ![e] = "accepted"]
          /\ owed' = Append(owed, e) /\ Accept(e) /\ useQueue' = useQueue
          BY <1>6, <2>2, Zenon DEF Dispatch
    <3> QED BY <1>5, <2>2, <3>1, TaskAccounted
  <2> QED BY <2>1, <2>2
<1>7. CASE DispatchDummy
  <2>1. Accept("dummy") /\ UNCHANGED <<fate, owed, useQueue>> /\ ~isShutdown
        BY <1>7, Zenon DEF DispatchDummy, Closing
  <2>2. CASE queue' = <<"init">> \o <<"dummy">> /\ queue = <<>> /\ queued = <<>> /\ queued' = queued
    <3>1. InTurn'
      <4>1. <<"init">> \in Seq(Items) /\ <<"init">> = Append(<<>>, "init") /\ <<>> \in Seq(Items)
            BY <1>3 DEF Items
      <4>2. Fits(<<"init">>, <<>>, owed)
            BY <1>1, <1>3, <2>2, <4>1, ChorePut DEF InTurn
      <4> DEFINE first == <<"init">>
      <4>3. first \in Seq(Items) /\ Fits(first, <<>>, owed)
            BY <4>1, <4>2
      <4>4. queue' = Append(first, "dummy")
            BY <2>2
      <4> HIDE DEF first
      <4>5. Fits(queue', <<>>, owed)
            BY <1>1, <1>3, <4>1, <4>3, <4>4, ChorePut
      <4> QED BY <2>1, <2>2, <4>5 DEF InTurn
    <3>2. \A x \in Tasks : ~Has(queue', x) /\ ~Has(queue, x)
          BY <1>3, <2>2, TasksAssumption DEF Has
    <3>3. Placed'
          BY <2>1, <2>2, <3>2 DEF Placed
    <3> QED BY <1>1, <2>1, <3>1, <3>3 DEF Accounts
  <2> QED BY <1>3, <1>5, <2>1, <2>2, ChoreAccounted
<1>8. CASE RunEvent
  <2> DEFINE event == Head(queue)
  <2>1. /\ queue # <<>> /\ queue' = Tail(queue) /\ queued' = queued
        /\ fate' = [x \in Tasks |-> IF x = event THEN "run" ELSE fate[x]]
        /\ owed' = IF event \in Tasks THEN Tail(owed) ELSE owed
        BY <1>8, Zenon DEF RunEvent, owner
  <2>2. /\ Fits(queue', queued, owed)
        /\ \A x : Has(queue, x) <=> x = event \/ Has(queue', x)
        BY <1>1, <2>1, HeadTaken DEF InTurn
  <2>3. CASE event \in Tasks
    <3>1. Has(owed, event) /\ Distinct(owed)
          /\ \A x \in Tasks : Has(owed, x) => Has(queue, x) \/ Has(queued, x)
          BY <2>2, <2>3, Zenon DEF Placed
    <3>2. /\ Tail(owed) \in Seq(Tasks) /\ Distinct(Tail(owed))
          /\ \A x : Has(Tail(owed), x) <=> Has(owed, x) /\ x # event
          /\ ~Has(Tail(queue), event) /\ ~Has(queued, event)
          /\ Fits(Tail(queue), queued, Tail(owed))
          BY <1>1, <2>1, <3>1, HeadTaken DEF InTurn
    <3>3. \A x \in Tasks : fate'[x] = "accepted" <=> fate[x] = "accepted" /\ x # event
          BY <2>1
    <3>4. Placed'
      <4>1. ASSUME NEW x \in Tasks
            PROVE  /\ Has(owed', x) <=> fate'[x] = "accepted"
                   /\ Has(queue', x) \/ Has(queued', x) <=> fate'[x] = "accepted"
            BY <2>1, <2>2, <2>3, <3>2, <3>3, Zenon DEF Placed
      <4>2. Distinct(owed')
            BY <2>1, <2>3, <3>2
      <4> QED BY <4>1, <4>2 DEF Placed
    <3> QED BY <2>1, <2>3, <3>2, <3>4 DEF Accounts, InTurn
  <2>4. CASE event \notin Tasks
    <3>1. \A x \in Tasks : fate'[x] = fate[x] /\ (Has(queue, x) <=> Has(queue', x))
          BY <2>1, <2>2, <2>4
    <3> QED BY <1>1, <2>1, <2>2, <2>4, <3>1 DEF Accounts, Placed, InTurn
  <2> QED BY <2>3, <2>4
<1>9. CASE Notify
  <2>1. queued' = queued /\ timer # "null" /\ ~isShutdown
        BY <1>9, Zenon DEF Notify, Closing
  <2>2. hasThread /\ queued = <<>>
        BY <2>1, Zenon DEF Closing, Life, Phases
  <2>3. CASE UNCHANGED <<fate, owed>>
    <3>1. queue' = queue \/ queue' = queue \o <<>> \/ fate' # fate
      <4>1. \A e \in Tasks : fate[e] = "new" => [fate EXCEPT ![e] = "accepted"] # fate
            BY DEF TypeOK
      <4> QED BY <1>9, <4>1, Zenon DEF Notify, BeginShutdownThread
    <3>2. queue' = queue
          BY <1>1, <2>3, <3>1
    <3> QED BY <1>2, <2>1, <2>3, <3>2
  <2>4. CASE \E e \in Tasks :
               /\ fate[e] = "new"
               /\ fate' = [fate EXCEPT ![e] = "accepted"]
               /\ owed' = Append(owed, e)
               /\ BeginShutdownThread(<<e>>)
    <3>1. PICK e \in Tasks :
               /\ fate[e] = "new"
               /\ fate' = [fate EXCEPT ![e] = "accepted"]
               /\ owed' = Append(owed, e)
               /\ BeginShutdownThread(<<e>>)
          BY <2>4
    <3>2. queue' = queue \o <<e>>
          BY <2>2, <3>1, Zenon DEF BeginShutdownThread
    <3> QED BY <2>1, <2>2, <3>1, <3>2, TaskAccounted
  <2> QED BY <1>9, <2>3, <2>4, Zenon DEF Notify
<1>10. CASE Shutdown
  <2>1. queue' \in {queue, queue \o <<>>} /\ UNCHANGED <<queued, fate, owed>>
        BY <1>10, Zenon DEF Shutdown, BeginShutdownThread
  <2>2. queue' = queue
        BY <1>1, <2>1
  <2> QED BY <1>2, <2>1, <2>2
<1>11. CASE StopThread
  <2>1. queue' = queue \o <<"cleanup", "stop">> /\ UNCHANGED <<queued, fate, owed>>
        BY <1>11, Zenon DEF StopThread
  <2> DEFINE middle == Append(queue, "cleanup")
  <2>2. "cleanup" \in Items /\ "stop" \in Items
        BY <1>3 DEF Items
  <2>3. queue' = Append(middle, "stop")
        BY <1>1, <2>1, <2>2
  <2>4. middle \in Seq(Items) /\ \A x : Has(middle, x) <=> Has(queue, x) \/ x = "cleanup"
        BY <1>1, <2>2, Appended
  <2>5. Fits(middle, queued, owed)
        BY <1>1, <1>3, ChorePut DEF InTurn
  <2> HIDE DEF middle
  <2>6. Fits(queue', queued, owed)
        BY <1>1, <1>3, <2>3, <2>4, <2>5, ChorePut
  <2>7. \A x : Has(queue', x) <=> Has(middle, x) \/ x = "stop"
        BY <2>2, <2>3, <2>4, Appended
  <2>8. \A x \in Tasks : Has(queue', x) <=> Has(queue, x)
        BY <1>3, <2>4, <2>7, TasksAssumption
  <2> QED BY <1>1, <2>1, <2>6, <2>8 DEF Accounts, Placed, InTurn
<1>12. CASE ShutdownAgain
  <2>1. UNCHANGED <<queued, fate, owed>> /\ queue' \in {queue, Append(queue, "cleanup")}
        BY <1>12, Zenon DEF ShutdownAgain
  <2>2. CASE queue' = Append(queue, "cleanup")
    <3>1. queue' = queue \o <<"cleanup">>
          BY <1>1, <2>2
    <3> QED BY <1>3, <2>1, <3>1, ChoreAccounted
  <2> QED BY <1>2, <2>1, <2>2
<1>13. CASE FinishShutdownThread
  <2>1. UNCHANGED <<fate, owed>>
        BY <1>13, Zenon DEF FinishShutdownThread
  <2>2. CASE queue' = queue /\ (queued' = queued \/ (queued = <<>> /\ queued' = <<>>))
        BY <1>2, <2>1, <2>2
  <2>3. CASE ~isShutdown /\ queued' = <<>> /\ queue' = <<"init">> \o queued
    <3>1. ~reentered /\ acked
          BY <1>13, <2>3, Zenon DEF FinishShutdownThread, Closing
    <3>2. queue = <<>>
          BY <3>1, Zenon DEF Life, Phases
    <3> QED BY <1>3, <2>1, <2>3, <3>2, ChoreAccounted
  <2>4. CASE isShutdown
    <3>1. queue' = queue /\ queued' = IF isShutdown THEN queued ELSE <<>>
          BY <1>13, <2>4, Zenon DEF FinishShutdownThread
    <3>2. queued' = queued
          BY <2>4, <3>1
    <3> QED BY <1>2, <2>1, <3>1, <3>2
  <2>5. CASE ~isShutdown
        BY <1>13, <2>2, <2>3, <2>5, Zenon DEF FinishShutdownThread, Kept
  <2> QED BY <2>4, <2>5
<1>14. CASE \/ DisableIdleTimeout \/ EnableIdleTimeout \/ AfterProcessNextEvent
            \/ DispatchScheduleTimer \/ EndThread
  <2>1. UNCHANGED <<queue, queued, fate, owed>>
        BY <1>14, Zenon DEF DisableIdleTimeout, EnableIdleTimeout, AfterProcessNextEvent,
           DispatchScheduleTimer, EndThread, owner, worker
  <2> QED BY <1>2, <2>1
<1>15. CASE ForgetThread \/ ScheduleTimer \/ ReceiveAck \/ UNCHANGED vars
  <2>1. UNCHANGED <<queue, queued, fate, owed>>
        BY <1>15, Zenon DEF ForgetThread, ScheduleTimer, ReceiveAck, vars, owner, worker
  <2> QED BY <1>2, <2>1
<1> QED BY <1>6, <1>7, <1>8, <1>9, <1>10, <1>11, <1>12, <1>13, <1>14, <1>15, Zenon
        DEF Next, OwnerStep, ThreadStep

-----------------------------------------------------------------------------
LEMMA Invariance == Spec => []IInv
<1>1. Init => IInv
  <2> SUFFICES ASSUME Init PROVE IInv
      OBVIOUS
  <2>1. TypeOK /\ Life
        BY TypesInit, LifeInit
  <2>2. Closing
        BY DEF Init, Closing
  <2>3. Placed /\ InTurn
        BY DEF Init, Placed, Distinct, Has, InTurn, Fits, Sorted, Precedes
  <2> QED BY <2>1, <2>2, <2>3 DEF IInv
<1>2. IInv /\ [Next]_vars => IInv'
  <2> SUFFICES ASSUME IInv, [Next]_vars
               PROVE  TypeOK' /\ (~reentered => Life)' /\ Closing' /\ Placed' /\ InTurn'
      BY Zenon DEF IInv
  <2>1. TypeOK /\ (~reentered => Life) /\ Closing /\ Placed /\ InTurn
        BY Zenon DEF IInv
  <2>2. Accounts'
        BY <2>1, AccountsStep
  <2>3. TypeOK'
    <3>1. TypeOK' <=> Flags' /\ Data' /\ Lists' /\ (owed \in Seq(Tasks))'
          BY Zenon DEF TypeOK, Flags, Data, Lists
    <3> QED BY <2>1, <2>2, <3>1, TypesStep DEF Accounts
  <2>4. (~reentered => Life)'
        BY <2>1, LifeStep
  <2>5. Closing'
        BY <2>1, ClosingStep
  <2> QED BY <2>2, <2>3, <2>4, <2>5 DEF Accounts
<1> QED BY <1>1, <1>2, PTL DEF Spec

\* What the state may be, whatever the calls (the members of LazyIdleThread.h).
THEOREM Types == Spec => []TypeOK
<1>1. IInv => TypeOK
      BY Zenon DEF IInv
<1> QED BY <1>1, Invariance, PTL

\* Whatever is dispatched, toggled and shut down in whatever order, no thread leaves
\* anything behind for the next one to miscount (AfterProcessNextEvent, ScheduleTimer
\* and the assertions of ~LazyIdleThread and ShutdownThread).
THEOREM NothingLeftBehind == Spec => []FreshStart
<1>1. IInv => FreshStart
      BY LifeGivesFreshStart DEF IInv
<1> QED BY <1>1, Invariance, PTL

-----------------------------------------------------------------------------
(* The refinement of EventTarget *)

Finished == isShutdown /\ doing = "nothing" /\ ~spinning /\ ~reentered

\* With the last thread gone, nothing is owed.
LEMMA NothingOwed == IInv /\ Finished => ~hasThread /\ owed = <<>>
<1> SUFFICES ASSUME IInv, Finished PROVE ~hasThread /\ owed = <<>>
    OBVIOUS
<1>1. TypeOK /\ Life /\ Closing /\ Placed /\ ~reentered
      BY Zenon DEF IInv, Finished
<1>2. ~hasThread /\ queue = <<>> /\ queued = <<>>
      BY <1>1 DEF Life, Phases, Closing, Finished
<1>3. \A e : ~Has(queue, e) /\ ~Has(queued, e)
      BY <1>2 DEF Has
<1>4. owed \in Seq(Tasks) /\ \A k \in DOMAIN owed : Has(owed, owed[k])
      BY <1>1, Zenon DEF TypeOK, Has
<1>5. \A k \in DOMAIN owed : owed[k] \in Tasks
      BY <1>4
<1>6. \A k \in DOMAIN owed : FALSE
      BY <1>1, <1>3, <1>4, <1>5, Zenon DEF Placed
<1> QED BY <1>2, <1>4, <1>6

\* What was not dispatched yet is fresh.
LEMMA AbstractFresh ==
  ASSUME TypeOK, Placed, NEW e \in Tasks, fate[e] = "new"
  PROVE  e \in Abstract!Fresh
<1> DEFINE pending == [t \in {"lazy"} |-> owed]
<1>1. e \notin Having("run") /\ e \notin Having("refused")
      BY DEF Having
<1>2. \A k \in DOMAIN owed : owed[k] # e
      BY Zenon DEF Placed, Has
<1>3. e \notin UNION {{pending[t][i] : i \in DOMAIN pending[t]} : t \in {"lazy"}}
      BY <1>2
<1> QED BY <1>1, <1>3 DEF Abstract!Fresh, Abstract!Waiting

LEMMA AbstractInit == Init => Abstract!Init
<1> SUFFICES ASSUME Init PROVE Abstract!Init
    OBVIOUS
<1>1. Having("run") = {} /\ Having("refused") = {}
      BY DEF Init, Having
<1>2. ~isShutdown /\ owed = <<>>
      BY DEF Init
<1> QED BY <1>1, <1>2 DEF Abstract!Init

\* Nothing the target promises about is touched.
LEMMA AbstractStutter ==
  ASSUME UNCHANGED <<fate, owed>>, isShutdown' <=> isShutdown, Finished' <=> Finished
  PROVE  UNCHANGED Abstract!vars
BY DEF Abstract!vars, Having, Finished

LEMMA AbstractAccept ==
  ASSUME TypeOK, Placed, NEW e \in Tasks, fate[e] = "new", ~isShutdown,
         fate' = [fate EXCEPT ![e] = "accepted"], owed' = Append(owed, e), ~isShutdown'
  PROVE  Abstract!Next
<1>1. e \in Abstract!Fresh
      BY AbstractFresh
<1>2. Having("run")' = Having("run") /\ Having("refused")' = Having("refused")
      BY DEF Having, TypeOK
<1>3. [t \in {"lazy"} |-> owed]' = [[t \in {"lazy"} |-> owed] EXCEPT !["lazy"] = Append(@, e)]
      OBVIOUS
<1>4. Abstract!Accept("lazy", e)
      BY <1>1, <1>2, <1>3 DEF Abstract!Accept
<1> QED BY <1>4 DEF Abstract!Next

LEMMA AbstractRefuse ==
  ASSUME TypeOK, Placed, NEW e \in Tasks, fate[e] = "new", isShutdown, isShutdown',
         fate' = [fate EXCEPT ![e] = "refused"], owed' = owed, Finished' <=> Finished
  PROVE  Abstract!Next
<1>1. e \in Abstract!Fresh
      BY AbstractFresh
<1>2. Having("run")' = Having("run") /\ Having("refused")' = Having("refused") \cup {e}
      BY DEF Having, TypeOK
<1>3. Abstract!Refuse("lazy", e)
      BY <1>1, <1>2 DEF Abstract!Refuse, Finished
<1> QED BY <1>3 DEF Abstract!Next

\* A task the thread runs is the one the target owes first.
LEMMA AbstractDeliver ==
  ASSUME IInv, RunEvent, Head(queue) \in Tasks
  PROVE  Abstract!Next
<1> DEFINE event == Head(queue)
<1>1. TypeOK /\ Placed /\ InTurn
      BY Zenon DEF IInv
<1>2. queue \in Seq(Items) /\ queued \in Seq(Items) /\ owed \in Seq(Tasks)
      BY <1>1, AccountsLists
<1>3. /\ queue # <<>> /\ owed' = Tail(owed)
      /\ fate' = [x \in Tasks |-> IF x = event THEN "run" ELSE fate[x]]
      /\ UNCHANGED <<isShutdown, doing, spinning, reentered>>
      BY Zenon DEF RunEvent, owner
<1>4. \A x : Has(queue, x) <=> x = event \/ Has(Tail(queue), x)
      BY <1>1, <1>2, <1>3, HeadTaken DEF InTurn
<1>5. Has(owed, event) /\ Distinct(owed)
      /\ \A x \in Tasks : Has(owed, x) => Has(queue, x) \/ Has(queued, x)
      BY <1>1, <1>4, Zenon DEF Placed
<1>6. owed # <<>> /\ Head(owed) = event
      BY <1>1, <1>2, <1>3, <1>5, HeadTaken DEF InTurn
<1>7. fate[event] = "accepted"
      BY <1>1, <1>5, Zenon DEF Placed
<1>8. Having("run")' = Having("run") \cup {event} /\ Having("refused")' = Having("refused")
      BY <1>3, <1>7 DEF Having
<1>9. [t \in {"lazy"} |-> owed]' = [[t \in {"lazy"} |-> owed] EXCEPT !["lazy"] = Tail(@)]
      BY <1>3
<1>10. Abstract!Deliver("lazy")
       BY <1>3, <1>6, <1>8, <1>9 DEF Abstract!Deliver
<1> QED BY <1>10 DEF Abstract!Next

\* Shutdown closes the target, and finishes it, then or when the thread is joined.
LEMMA AbstractClose ==
  ASSUME UNCHANGED <<fate, owed>>, isShutdown', ~Finished, ~Finished'
  PROVE  [Abstract!Next]_(Abstract!vars)
<1>1. Abstract!Close("lazy")
      BY DEF Abstract!Close, Having, Finished
<1> QED BY <1>1 DEF Abstract!Next

LEMMA AbstractFinish ==
  ASSUME UNCHANGED <<fate, owed>>, owed = <<>>, Finished'
  PROVE  Abstract!Next
<1>1. isShutdown'
      BY DEF Finished
<1>2. Abstract!Finish
      BY <1>1 DEF Abstract!Finish, Having, Finished
<1> QED BY <1>2 DEF Abstract!Next

LEMMA AbstractStep == IInv /\ IInv' /\ [Next]_vars => [Abstract!Next]_(Abstract!vars)
<1> SUFFICES ASSUME IInv, IInv', [Next]_vars
             PROVE  [Abstract!Next]_(Abstract!vars)
    OBVIOUS
<1>1. TypeOK /\ (~reentered => Life) /\ Closing /\ Placed
      BY Zenon DEF IInv
<1>2. ASSUME UNCHANGED <<fate, owed>>, isShutdown' <=> isShutdown, Finished' <=> Finished
      PROVE  [Abstract!Next]_(Abstract!vars)
      BY <1>2, AbstractStutter
\* It finishes only when nothing is owed (NothingOwed).
<1>3. ASSUME UNCHANGED <<fate, owed>>, isShutdown', ~Finished
      PROVE  [Abstract!Next]_(Abstract!vars)
  <2>1. CASE Finished'
    <3>1. owed' = <<>>
      <4>1. (IInv /\ Finished => ~hasThread /\ owed = <<>>)'
            BY NothingOwed, PTL
      <4> QED BY <2>1, <4>1
    <3> QED BY <1>3, <2>1, <3>1, AbstractFinish
  <2> QED BY <1>3, <2>1, AbstractClose
<1>4. ASSUME NEW e \in Tasks, Dispatch(e)
      PROVE  [Abstract!Next]_(Abstract!vars)
  <2>1. /\ fate[e] = "new"
        /\ isShutdown' <=> isShutdown
        /\ Finished' <=> Finished
    <3>1. fate[e] = "new" /\ UNCHANGED <<isShutdown, doing, spinning, reentered>>
          BY <1>4, Zenon DEF Dispatch
    <3> QED BY <3>1 DEF Finished
  <2>2. CASE isShutdown
        BY <1>1, <1>4, <2>1, <2>2, AbstractRefuse, Zenon DEF Dispatch
  <2>3. CASE ~isShutdown
        BY <1>1, <1>4, <2>1, <2>3, AbstractAccept, Zenon DEF Dispatch
  <2> QED BY <2>2, <2>3
<1>5. CASE RunEvent
  <2>1. CASE Head(queue) \in Tasks
        BY <1>5, <2>1, AbstractDeliver
  <2>2. CASE Head(queue) \notin Tasks
    <3>1. /\ fate' = [x \in Tasks |-> IF x = Head(queue) THEN "run" ELSE fate[x]]
          /\ owed' = owed
          /\ UNCHANGED <<isShutdown, doing, spinning, reentered>>
          BY <1>5, <2>2, Zenon DEF RunEvent, owner
    <3>2. fate' = fate
          BY <1>1, <2>2, <3>1 DEF TypeOK
    <3> QED BY <1>2, <3>1, <3>2 DEF Finished
  <2> QED BY <2>1, <2>2
<1>6. CASE Notify
  <2>1. ~isShutdown /\ ~isShutdown'
        BY <1>1, <1>6, Zenon DEF Notify, Closing
  <2>2. CASE UNCHANGED <<fate, owed>>
        BY <1>2, <2>1, <2>2 DEF Finished
  <2>3. CASE \E e \in Tasks :
               /\ fate[e] = "new"
               /\ fate' = [fate EXCEPT ![e] = "accepted"]
               /\ owed' = Append(owed, e)
        BY <1>1, <2>1, <2>3, AbstractAccept
  <2> QED BY <1>6, <2>2, <2>3, Zenon DEF Notify
<1>7. CASE Shutdown
  <2>1. UNCHANGED <<fate, owed, spinning, reentered>> /\ isShutdown' /\ doing = "nothing" /\ ~spinning
        BY <1>7, Zenon DEF Shutdown
  <2>2. CASE Finished
    <3>1. ~hasThread
          BY <2>2, NothingOwed
    <3>2. doing' = doing
          BY <1>7, <3>1, Zenon DEF Shutdown, BeginShutdownThread
    <3> QED BY <1>2, <2>1, <2>2, <3>2 DEF Finished
  <2> QED BY <1>3, <2>1, <2>2
<1>8. CASE ShutdownAgain
  <2>1. UNCHANGED <<fate, owed>> /\ isShutdown' /\ spinning
        BY <1>8, Zenon DEF ShutdownAgain
  <2> QED BY <1>3, <2>1 DEF Finished
<1>9. CASE FinishShutdownThread
  <2>1. UNCHANGED <<fate, owed, isShutdown>> /\ spinning
        BY <1>9, Zenon DEF FinishShutdownThread
  <2>2. CASE isShutdown
        BY <1>3, <2>1, <2>2 DEF Finished
  <2>3. CASE ~isShutdown
        BY <1>2, <2>1, <2>3 DEF Finished
  <2> QED BY <2>2, <2>3
<1>10. CASE DispatchDummy \/ EnableIdleTimeout
  <2>1. UNCHANGED <<fate, owed, isShutdown, spinning, reentered>>
        BY <1>10, Zenon DEF DispatchDummy, EnableIdleTimeout, worker
  <2>2. isShutdown => doing' = doing
        BY <1>1, <1>10, Zenon DEF DispatchDummy, EnableIdleTimeout, Closing
  <2> QED BY <1>2, <2>1, <2>2 DEF Finished
<1>11. CASE StopThread
  <2>1. UNCHANGED <<fate, owed, isShutdown>> /\ doing # "nothing" /\ spinning'
        BY <1>11 DEF StopThread
  <2> QED BY <1>2, <2>1 DEF Finished
<1>12. CASE ForgetThread
  <2>1. UNCHANGED <<fate, owed, isShutdown>> /\ reentered /\ reentered'
        BY <1>1, <1>12, Zenon DEF ForgetThread, Life, Phases
  <2> QED BY <1>2, <2>1 DEF Finished
<1>13. CASE \/ DisableIdleTimeout \/ AfterProcessNextEvent \/ DispatchScheduleTimer \/ EndThread
            \/ ScheduleTimer \/ ReceiveAck \/ UNCHANGED vars
  <2>1. UNCHANGED <<fate, owed, isShutdown, doing, spinning, reentered>>
        BY <1>13, Zenon DEF DisableIdleTimeout, AfterProcessNextEvent, DispatchScheduleTimer,
           EndThread, ScheduleTimer, ReceiveAck, vars, owner
  <2> QED BY <1>2, <2>1 DEF Finished
<1> QED BY <1>4, <1>5, <1>6, <1>7, <1>8, <1>9, <1>10, <1>11, <1>12, <1>13, Zenon
        DEF Next, OwnerStep, ThreadStep

\* However many threads come and go, the target hands out what it accepted in the
\* order of the calls, each task once, also what waited for the next thread
\* (mQueuedRunnables), and owes nothing when Shutdown returns.
THEOREM Implements == Spec => ImplementsEventTarget
<1>1. IInv /\ IInv' /\ [Next]_vars => [Abstract!Next]_(Abstract!vars)
      BY AbstractStep
<1> QED BY <1>1, AbstractInit, Invariance, PTL DEF Spec, ImplementsEventTarget, Abstract!Spec
=============================================================================
