---------------------- MODULE ThreadEventQueueProofs ----------------------
(***************************************************************************)
(* Theorems about ThreadEventQueue, for any set of events and any bound on *)
(* the nesting of queues.                                                  *)
(***************************************************************************)
EXTENDS ThreadEventQueue, SequenceTheorems, TLAPS

\* The owner has left its loop exactly when the queue is doomed, and then no nested
\* queue is left.
ExitedIffDoomed ==
  /\ doomed <=> owner = "exited"
  /\ doomed => connected = {}

\* The next nested queue gets a sink that no level carries, and to which nothing
\* was put.
NextSinkIsNew ==
  /\ \A i \in DOMAIN levels : levels[i] <= pushes
  /\ \A e \in Events : sentTo[e] <= pushes

\* There is an idle event as long as one is promised, as RanOutOfTasks asserts
\* (IdlePeriodState.cpp:56), and the idle state is only asked for the base queue of a
\* prioritized queue.
PromiseBacked ==
  /\ promised => prioritized /\ queue[Idle] # <<>>
  /\ owner \in {"updating", "peeking"} => HasIdleState

\* What is owed are the events that are queued, each once, under its sink.
Owing ==
  /\ \A s \in Sinks : \A k, l \in DOMAIN owed[s] : owed[s][k] = owed[s][l] => k = l
  /\ \A s \in Sinks : \A k \in DOMAIN owed[s] :
       sentTo[owed[s][k]] = s /\ fate[owed[s][k]] = "queued"
  /\ \A e \in Events : fate[e] = "queued" =>
       \E k \in DOMAIN owed[sentTo[e]] : owed[sentTo[e]][k] = e

\* The events of one sink are in one queue: its own, until that is popped.
OneHome ==
  /\ \A q \in Sinks : \A i \in DOMAIN queue[q] :
       sentTo[queue[q][i]] \in connected \cup {Base, Idle} => sentTo[queue[q][i]] = q
  /\ \A q, r \in Sinks : \A i \in DOMAIN queue[q], j \in DOMAIN queue[r] :
       sentTo[queue[q][i]] = sentTo[queue[r][j]] => q = r

\* In a queue, those of one sink are in the order of their puts.
InTurn ==
  \A q, s \in Sinks : \A i, j \in DOMAIN queue[q], k, l \in DOMAIN owed[s] :
    i < j /\ owed[s][k] = queue[q][i] /\ owed[s][l] = queue[q][j] => k < l

Accounts == Owing /\ OneHome /\ InTurn

\* The safety invariants are inductive once these are put together.
IInv ==
  /\ TypeOK
  /\ SinkQueuesAlive
  /\ NextSinkIsNew
  /\ ExitedIffDoomed
  /\ DoomedMeansEmpty
  /\ NoLostWakeup
  /\ PromiseBacked
  /\ NothingLost
  /\ Accounts

-----------------------------------------------------------------------------
(* Sequences of events *)

\* What Append leaves at each position.
LEMMA AppendAt ==
  ASSUME NEW S, NEW q \in Seq(S), NEW e \in S
  PROVE  /\ Append(q, e) \in Seq(S)
         /\ DOMAIN Append(q, e) = 1 .. Len(q) + 1
         /\ \A k \in 1 .. Len(q) : Append(q, e)[k] = q[k]
         /\ Append(q, e)[Len(q) + 1] = e
OBVIOUS

\* What Tail leaves at each position.
LEMMA TailAt ==
  ASSUME NEW S, NEW q \in Seq(S), q # <<>>
  PROVE  /\ Head(q) \in S /\ Head(q) = q[1] /\ Len(q) >= 1
         /\ Tail(q) \in Seq(S)
         /\ DOMAIN Tail(q) = 1 .. Len(q) - 1
         /\ \A k \in 1 .. Len(q) - 1 : Tail(q)[k] = q[k + 1]
OBVIOUS

\* What a concatenation holds at each position.
LEMMA ConcatAt ==
  ASSUME NEW S, NEW q \in Seq(S), NEW r \in Seq(S)
  PROVE  /\ q \o r \in Seq(S)
         /\ DOMAIN (q \o r) = 1 .. Len(q) + Len(r)
         /\ \A k \in 1 .. Len(q) : (q \o r)[k] = q[k]
         /\ \A k \in 1 .. Len(r) : (q \o r)[Len(q) + k] = r[k]
OBVIOUS

\* Front keeps all elements but the last.
LEMMA FrontAt ==
  ASSUME NEW S, NEW q \in Seq(S), Len(q) > 1
  PROVE  /\ Front(q) \in Seq(S) /\ Front(q) # <<>>
         /\ Len(Front(q)) = Len(q) - 1
         /\ DOMAIN Front(q) = 1 .. Len(q) - 1
         /\ \A k \in 1 .. Len(q) - 1 : Front(q)[k] = q[k]
<1>1. /\ Front(q) \in Seq(S)
      /\ Len(Front(q)) = Len(q) - 1
      /\ \A k \in 1 .. Len(q) - 1 : Front(q)[k] = q[1 + k - 1]
  <2>1. 1 \in Int /\ Len(q) - 1 \in Int /\ \A i \in 1 .. Len(q) - 1 : q[i] \in S
    OBVIOUS
  <2> QED
    BY <2>1, SubSeqProperties DEF Front
<1>2. DOMAIN Front(q) = 1 .. Len(q) - 1 /\ Front(q) # <<>>
  BY <1>1
<1>3. \A k \in 1 .. Len(q) - 1 : 1 + k - 1 = k
  OBVIOUS
<1> QED
  BY <1>1, <1>2, <1>3

\* No event is at two places of a family of queues.
Once(Q) ==
  \A s, t \in Sinks : \A k \in DOMAIN Q[s], l \in DOMAIN Q[t] :
    Q[s][k] = Q[t][l] => s = t /\ k = l

\* Event e is in one of the queues.
Holds(Q, e) == \E s \in Sinks : \E k \in DOMAIN Q[s] : Q[s][k] = e

\* The queues R are those of Q with what was in b behind what was in a.
Moved(Q, R, a, b) ==
  /\ R[a] = Q[a] \o Q[b]
  /\ R[b] = <<>>
  /\ \A s \in Sinks \ {a, b} : R[s] = Q[s]

\* Moving all the events of one queue behind those of another keeps each event
\* in one place: the loop of PopEventQueue.
LEMMA MoveConserves ==
  ASSUME NEW Q, Q \in [Sinks -> Seq(Events)], NEW R, R \in [Sinks -> Seq(Events)],
         NEW a, a \in Sinks, NEW b, b \in Sinks, a # b,
         Moved(Q, R, a, b), Once(Q)
  PROVE  Once(R) /\ \A e : Holds(R, e) <=> Holds(Q, e)
<1> USE DEF Moved, Once, Holds
<1>1. PICK m \in Nat, n \in Nat : DOMAIN Q[a] = 1 .. m /\ DOMAIN Q[b] = 1 .. n
                              /\ m = Len(Q[a]) /\ n = Len(Q[b])
  OBVIOUS
<1>2. /\ DOMAIN R[a] = 1 .. m + n
      /\ \A k \in 1 .. m : R[a][k] = Q[a][k]
      /\ \A k \in 1 .. n : R[a][m + k] = Q[b][k]
  BY <1>1, ConcatAt
<1>3. ASSUME NEW k \in DOMAIN R[a], k > m
      PROVE  k - m \in DOMAIN Q[b] /\ R[a][k] = Q[b][k - m]
  <2>1. k - m \in 1 .. n /\ m + (k - m) = k
    BY <1>2, <1>3
  <2>2. R[a][m + (k - m)] = Q[b][k - m]
    BY <1>2, <2>1
  <2> QED
    BY <1>1, <2>1, <2>2
<1>4. ASSUME NEW s \in Sinks, NEW k \in DOMAIN R[s]
      PROVE  \/ s # b /\ k \in DOMAIN Q[s] /\ R[s][k] = Q[s][k]
             \/ /\ s = a /\ k \in Int /\ k - m \in DOMAIN Q[b]
                /\ R[s][k] = Q[b][k - m]
  <2>1. CASE s # a
    <3>1. s # b
      BY <1>4
    <3>2. R[s] = Q[s]
      BY <2>1, <3>1
    <3> QED
      BY <3>1, <3>2
  <2>2. CASE s = a
    <3>1. k \in 1 .. m + n
      BY <1>2, <2>2
    <3>2. CASE k <= m
      BY <1>1, <1>2, <2>2, <3>1, <3>2
    <3>3. CASE k > m
      <4>1. k \in DOMAIN R[a] /\ R[a] = R[s]
        BY <2>2
      <4>2. k - m \in DOMAIN Q[b] /\ R[a][k] = Q[b][k - m]
        BY <1>3, <3>3, <4>1
      <4> QED
        BY <2>2, <3>1, <4>1, <4>2
    <3> QED
      BY <3>1, <3>2, <3>3
  <2> QED
    BY <2>1, <2>2
<1>5. ASSUME NEW s \in Sinks, NEW t \in Sinks, NEW k \in DOMAIN R[s], NEW l \in DOMAIN R[t],
             R[s][k] = R[t][l]
      PROVE  s = t /\ k = l
  <2>1. \/ s # b /\ k \in DOMAIN Q[s] /\ R[s][k] = Q[s][k]
        \/ s = a /\ k \in Int /\ k - m \in DOMAIN Q[b] /\ R[s][k] = Q[b][k - m]
    BY <1>4
  <2>2. \/ t # b /\ l \in DOMAIN Q[t] /\ R[t][l] = Q[t][l]
        \/ t = a /\ l \in Int /\ l - m \in DOMAIN Q[b] /\ R[t][l] = Q[b][l - m]
    BY <1>4
  <2>3. CASE /\ s # b /\ k \in DOMAIN Q[s] /\ R[s][k] = Q[s][k]
             /\ t # b /\ l \in DOMAIN Q[t] /\ R[t][l] = Q[t][l]
    <3>1. Q[s][k] = Q[t][l]
      BY <1>5, <2>3
    <3> QED
      BY <2>3, <3>1
  <2>4. CASE /\ s = a /\ k \in Int /\ k - m \in DOMAIN Q[b] /\ R[s][k] = Q[b][k - m]
             /\ t = a /\ l \in Int /\ l - m \in DOMAIN Q[b] /\ R[t][l] = Q[b][l - m]
    <3>1. Q[b][k - m] = Q[b][l - m]
      BY <1>5, <2>4
    <3>2. k - m = l - m
      BY <2>4, <3>1
    <3> QED
      BY <2>4, <3>2
  <2>5. CASE /\ s # b /\ k \in DOMAIN Q[s] /\ R[s][k] = Q[s][k]
             /\ l - m \in DOMAIN Q[b] /\ R[t][l] = Q[b][l - m]
    <3>1. Q[s][k] = Q[b][l - m]
      BY <1>5, <2>5
    <3> QED
      BY <2>5, <3>1
  <2>6. CASE /\ k - m \in DOMAIN Q[b] /\ R[s][k] = Q[b][k - m]
             /\ t # b /\ l \in DOMAIN Q[t] /\ R[t][l] = Q[t][l]
    <3>1. Q[b][k - m] = Q[t][l]
      BY <1>5, <2>6
    <3> QED
      BY <2>6, <3>1
  <2> QED
    BY <2>1, <2>2, <2>3, <2>4, <2>5, <2>6
<1>6. ASSUME NEW s \in Sinks, NEW k \in DOMAIN Q[s]
      PROVE  \E t \in Sinks : \E l \in DOMAIN R[t] : R[t][l] = Q[s][k]
  <2>1. CASE s # a /\ s # b
    BY <2>1
  <2>2. CASE s = a
    <3>1. k \in DOMAIN R[a] /\ R[a][k] = Q[s][k]
      BY <1>1, <1>2, <2>2
    <3> QED
      BY <3>1
  <2>3. CASE s = b
    <3>1. k \in 1 .. n /\ m + k \in 1 .. m + n
      BY <1>1, <2>3
    <3>2. m + k \in DOMAIN R[a] /\ R[a][m + k] = Q[s][k]
      BY <1>2, <2>3, <3>1
    <3> QED
      BY <3>2
  <2> QED
    BY <2>1, <2>2, <2>3
<1>7. ASSUME NEW s \in Sinks, NEW k \in DOMAIN R[s]
      PROVE  \E t \in Sinks : \E l \in DOMAIN Q[t] : Q[t][l] = R[s][k]
  <2>1. CASE k \in DOMAIN Q[s] /\ R[s][k] = Q[s][k]
    BY <2>1
  <2>2. CASE k - m \in DOMAIN Q[b] /\ R[s][k] = Q[b][k - m]
    BY <2>2
  <2> QED
    BY <1>4, <2>1, <2>2
<1>8. \A e : Holds(R, e) <=> Holds(Q, e)
  BY <1>6, <1>7
<1> QED
  BY <1>5, <1>8

-----------------------------------------------------------------------------
(* The invariant *)

\* The sinks are numbers, among them those of the base queue.
LEMMA SinksAre ==
  /\ Base \in Sinks /\ Idle \in Sinks /\ Idle # Base
  /\ \A s \in Sinks : s \in Int
BY MaxPushesAssumption DEF Base, Idle, Sinks

\* The initial queue is a single, empty base queue, so the invariant holds.
LEMMA InitIInv == Init => IInv
<1> SUFFICES ASSUME Init PROVE IInv
  OBVIOUS
<1> USE MaxPushesAssumption DEF Init, Base, Idle, Sinks
<1>1. TypeOK
  <2>1. Base \in Sinks /\ pushes \in 0 .. MaxPushes
    OBVIOUS
  <2> HIDE DEF Base, Idle, Sinks
  <2>2. levels \in Seq(Sinks) /\ levels # <<>>
    BY <2>1
  <2>3. queue \in [Sinks -> Seq(Events)]
    OBVIOUS
  <2>4. /\ sentTo \in [Events -> Sinks] /\ fate \in [Events -> Fates]
        /\ owed \in [Sinks -> Seq(Events)]
    BY <2>1 DEF Fates
  <2> QED
    BY <2>1, <2>2, <2>3, <2>4 DEF TypeOK
<1>2. SinkQueuesAlive /\ NextSinkIsNew
  BY DEF SinkQueuesAlive, NextSinkIsNew
<1>3. ExitedIffDoomed /\ DoomedMeansEmpty /\ NoLostWakeup /\ PromiseBacked
  BY DEF ExitedIffDoomed, DoomedMeansEmpty, NoLostWakeup, PromiseBacked, Top
<1>4. NothingLost
  BY DEF NothingLost
<1>5. Owing /\ OneHome /\ InTurn
  <2> HIDE DEF Base, Idle, Sinks
  <2> QED
    BY <1>1 DEF TypeOK, Accounts, Owing, OneHome, InTurn
<1> QED
  BY <1>1, <1>2, <1>3, <1>4, <1>5 DEF IInv

\* The topmost level is one of the sinks, and each queue a sequence of events.
LEMMA TopTyped ==
  ASSUME TypeOK
  PROVE  /\ Len(levels) \in DOMAIN levels /\ Top \in Sinks
         /\ \A s \in Sinks : queue[s] \in Seq(Events)
BY DEF TypeOK, Top

\* No level is that of the idle events, as the base queue is the lowest.
LEMMA LevelsNotIdle ==
  ASSUME TypeOK, SinkQueuesAlive
  PROVE  /\ Idle \in Sinks /\ Base \in Sinks /\ Idle # Base
         /\ \A i \in DOMAIN levels : levels[i] # Idle
         /\ Top # Idle
<1>1. levels \in Seq(Sinks) /\ levels # <<>> /\ 1 \in DOMAIN levels
  BY DEF TypeOK
<1>2. Idle \in Sinks /\ Base \in Sinks /\ Idle # Base
  BY SinksAre
<1>3. ASSUME NEW i \in DOMAIN levels PROVE levels[i] # Idle
  <2>1. CASE i = 1
    BY <1>2, <2>1 DEF SinkQueuesAlive
  <2>2. CASE i # 1
    <3>1. 1 < i /\ levels[1] = 0 /\ levels[i] \in Int
      BY <1>1, <2>2, SinksAre DEF SinkQueuesAlive, Base
    <3>2. levels[1] < levels[i]
      BY <1>1, <3>1 DEF SinkQueuesAlive
    <3> QED
      BY <3>1, <3>2 DEF Idle
  <2> QED
    BY <2>1, <2>2
<1> QED
  BY <1>1, <1>2, <1>3, TopTyped DEF Top

\* The event that is put is in no queue yet, and owed nowhere.
LEMMA PutEventSentTo ==
  ASSUME IInv, NEW e \in Events, NEW s \in Sinks, PutEvent(e, s)
  PROVE  /\ s <= pushes
         /\ \A d \in Events : sentTo'[d] = IF d = e THEN s ELSE sentTo[d]
         /\ \A q \in Sinks : \A i \in DOMAIN queue[q] : queue[q][i] \in Events \ {e}
         /\ \A q \in Sinks : \A k \in DOMAIN owed[q] : owed[q][k] \in Events \ {e}
<1>1. fate[e] = "new" /\ s <= pushes /\ sentTo' = [sentTo EXCEPT ![e] = s]
  BY DEF PutEvent
<1>2. TypeOK /\ NothingLost /\ Owing
  BY DEF IInv, Accounts
<1>3. ASSUME NEW q \in Sinks, NEW i \in DOMAIN queue[q] PROVE queue[q][i] \in Events \ {e}
  <2>1. queue[q][i] \in Events
    BY <1>2 DEF TypeOK
  <2>2. fate[queue[q][i]] = "queued"
    BY <1>2, <2>1 DEF NothingLost
  <2> QED
    BY <1>1, <2>1, <2>2
<1>4. ASSUME NEW q \in Sinks, NEW k \in DOMAIN owed[q] PROVE owed[q][k] \in Events \ {e}
  <2>1. owed[q][k] \in Events
    BY <1>2 DEF TypeOK
  <2> QED
    BY <1>1, <1>2, <2>1 DEF Owing
<1>5. \A d \in Events : sentTo'[d] = IF d = e THEN s ELSE sentTo[d]
  BY <1>1, <1>2 DEF TypeOK
<1> QED
  BY <1>1, <1>3, <1>4, <1>5

\* An accepted event becomes the last of its sink, in its own queue, where those of
\* the sink before it are.
LEMMA PutEventOwing ==
  ASSUME IInv, NEW e \in Events, NEW s \in Sinks, PutEvent(e, s),
         s = Base \/ s = Idle \/ s \in connected,
         queue' = [queue EXCEPT ![s] = Append(queue[s], e)],
         owed' = [owed EXCEPT ![s] = Append(owed[s], e)],
         fate' = [fate EXCEPT ![e] = "queued"],
         UNCHANGED connected
  PROVE  Accounts'
<1> DEFINE m == Len(queue[s])
           n == Len(owed[s])
<1>1. /\ queue \in [Sinks -> Seq(Events)] /\ owed \in [Sinks -> Seq(Events)]
      /\ fate \in [Events -> Fates] /\ sentTo \in [Events -> Sinks]
      /\ queue[s] \in Seq(Events) /\ owed[s] \in Seq(Events)
  BY DEF IInv, TypeOK
<1>2. /\ m \in Nat /\ DOMAIN queue[s] = 1 .. m /\ DOMAIN queue'[s] = 1 .. m + 1
      /\ \A i \in 1 .. m : queue'[s][i] = queue[s][i]
      /\ queue'[s][m + 1] = e
      /\ \A q \in Sinks \ {s} : queue'[q] = queue[q]
  BY <1>1, AppendAt
<1>3. /\ n \in Nat /\ DOMAIN owed[s] = 1 .. n /\ DOMAIN owed'[s] = 1 .. n + 1
      /\ \A k \in 1 .. n : owed'[s][k] = owed[s][k]
      /\ owed'[s][n + 1] = e
      /\ \A q \in Sinks \ {s} : owed'[q] = owed[q]
  BY <1>1, AppendAt
<1> HIDE DEF m, n
<1>4. /\ \A q \in Sinks : \A i \in DOMAIN queue'[q] :
           \/ q = s /\ i = m + 1 /\ queue'[q][i] = e
           \/ i \in DOMAIN queue[q] /\ queue'[q][i] = queue[q][i] /\ queue[q][i] \in Events \ {e}
      /\ \A q \in Sinks : DOMAIN queue[q] \subseteq DOMAIN queue'[q]
  BY <1>2, PutEventSentTo
<1>5. /\ \A q \in Sinks : \A k \in DOMAIN owed'[q] :
           \/ q = s /\ k = n + 1 /\ owed'[q][k] = e
           \/ k \in DOMAIN owed[q] /\ owed'[q][k] = owed[q][k] /\ owed[q][k] \in Events \ {e}
      /\ \A q \in Sinks : \A k \in DOMAIN owed[q] :
           k \in DOMAIN owed'[q] /\ owed'[q][k] = owed[q][k]
  BY <1>3, PutEventSentTo
<1>6. \A d \in Events :
        /\ sentTo'[d] = IF d = e THEN s ELSE sentTo[d]
        /\ fate'[d] = IF d = e THEN "queued" ELSE fate[d]
        /\ sentTo[d] \in Sinks
  <2>1. \A d \in Events : sentTo'[d] = IF d = e THEN s ELSE sentTo[d]
    BY PutEventSentTo
  <2>2. \A d \in Events : fate'[d] = IF d = e THEN "queued" ELSE fate[d]
    BY <1>1
  <2>3. \A d \in Events : sentTo[d] \in Sinks
    BY <1>1
  <2> QED
    BY <2>1, <2>2, <2>3, Zenon
<1>7. Owing'
  <2>1. \A q \in Sinks : \A k, l \in DOMAIN owed'[q] : owed'[q][k] = owed'[q][l] => k = l
    BY <1>5 DEF IInv, Accounts, Owing
  <2>2. \A q \in Sinks : \A k \in DOMAIN owed'[q] :
          sentTo'[owed'[q][k]] = q /\ fate'[owed'[q][k]] = "queued"
    BY <1>5, <1>6 DEF IInv, Accounts, Owing
  <2>3. ASSUME NEW d \in Events, fate'[d] = "queued"
        PROVE  \E k \in DOMAIN owed'[sentTo'[d]] : owed'[sentTo'[d]][k] = d
    <3>1. CASE d = e
      <4>1. n + 1 \in DOMAIN owed'[s]
        BY <1>3
      <4> QED
        BY <1>3, <1>6, <3>1, <4>1
    <3>2. CASE d # e
      <4>1. fate[d] = "queued" /\ sentTo'[d] = sentTo[d] /\ sentTo[d] \in Sinks
        <5>1. fate'[d] = fate[d] /\ sentTo'[d] = sentTo[d] /\ sentTo[d] \in Sinks
          BY <1>6, <3>2, Zenon
        <5> QED
          BY <2>3, <5>1
      <4>2. PICK k \in DOMAIN owed[sentTo[d]] : owed[sentTo[d]][k] = d
        BY <4>1 DEF IInv, Accounts, Owing
      <4> QED
        BY <1>5, <4>1, <4>2
    <3> QED
      BY <3>1, <3>2
  <2> QED
    BY <2>1, <2>2, <2>3 DEF Owing
<1>8. OneHome'
  <2>1. \A q \in Sinks : \A i \in DOMAIN queue[q] : sentTo[queue[q][i]] = s => q = s
    BY DEF IInv, Accounts, OneHome
  <2>2. \A q \in Sinks : \A i \in DOMAIN queue'[q] :
          \/ q = s /\ sentTo'[queue'[q][i]] = s
          \/ /\ i \in DOMAIN queue[q] /\ queue'[q][i] = queue[q][i]
             /\ sentTo'[queue'[q][i]] = sentTo[queue[q][i]]
    BY <1>4, <1>6
  <2>3. \A q \in Sinks : \A i \in DOMAIN queue'[q] :
       sentTo'[queue'[q][i]] \in connected' \cup {Base, Idle} => sentTo'[queue'[q][i]] = q
    BY <2>2 DEF IInv, Accounts, OneHome
  <2>4. \A q, p \in Sinks : \A i \in DOMAIN queue'[q], j \in DOMAIN queue'[p] :
       sentTo'[queue'[q][i]] = sentTo'[queue'[p][j]] => q = p
    BY <2>1, <2>2 DEF IInv, Accounts, OneHome
  <2> QED
    BY <2>3, <2>4 DEF OneHome
<1>9. InTurn'
  <2> SUFFICES ASSUME NEW q \in Sinks, NEW p \in Sinks,
                      NEW i \in DOMAIN queue'[q], NEW j \in DOMAIN queue'[q],
                      NEW k \in DOMAIN owed'[p], NEW l \in DOMAIN owed'[p],
                      i < j, owed'[p][k] = queue'[q][i], owed'[p][l] = queue'[q][j]
               PROVE  k < l
    BY DEF InTurn
  <2>1. CASE queue'[q][j] = e
    <3>1. q = s /\ j = m + 1 /\ p = s /\ l = n + 1
      BY <1>4, <1>5, <2>1
    <3>2. i \in DOMAIN queue[q] /\ queue'[q][i] # e
      <4>1. i # m + 1
        BY <1>2, <3>1
      <4> QED
        BY <1>4, <3>1, <4>1
    <3>3. k \in 1 .. n
      BY <1>3, <1>5, <3>1, <3>2
    <3> QED
      BY <1>3, <3>1, <3>3
  <2>2. CASE queue'[q][j] # e
    <3>1. j \in DOMAIN queue[q] /\ queue'[q][j] = queue[q][j]
      BY <1>4, <2>2
    <3>2. l \in DOMAIN owed[p] /\ owed'[p][l] = owed[p][l]
      BY <1>5, <2>2
    <3>3. i \in DOMAIN queue[q] /\ queue'[q][i] = queue[q][i] /\ queue[q][i] # e
      <4>1. ~(q = s /\ i = m + 1)
        BY <1>2, <3>1
      <4> QED
        BY <1>4, <4>1
    <3>4. k \in DOMAIN owed[p] /\ owed'[p][k] = owed[p][k]
      BY <1>5, <3>3
    <3> QED
      BY <3>1, <3>2, <3>3, <3>4 DEF IInv, Accounts, InTurn
  <2> QED
    BY <2>1, <2>2
<1> QED
  BY <1>7, <1>8, <1>9 DEF Accounts

\* Putting an event lengthens one queue by an event that was in none, and wakes
\* a waiting owner.
LEMMA PutEventIInv ==
  ASSUME IInv, NEW e \in Events, NEW s \in Sinks, PutEvent(e, s)
  PROVE  IInv'
<1> USE DEF IInv
<1>1. CASE Refuses(s)
  <2>1. fate' = [fate EXCEPT ![e] = "refused"] /\ UNCHANGED <<queue, signaled, owed>>
    BY <1>1 DEF PutEvent
  <2>2. TypeOK'
    BY <2>1 DEF PutEvent, TypeOK, Fates, nestVars, idleVars
  <2>3. NothingLost'
    BY <2>1 DEF PutEvent, NothingLost, TypeOK, Fates
  <2>4. UNCHANGED <<levels, pushes, connected, doomed, owner, prioritized, promised>>
    BY DEF PutEvent, nestVars, idleVars
  <2>5. (SinkQueuesAlive /\ ExitedIffDoomed)'
    BY <2>1, <2>4 DEF SinkQueuesAlive, ExitedIffDoomed
  <2>7. NextSinkIsNew'
    BY <2>4, PutEventSentTo DEF NextSinkIsNew
  <2>8. Accounts'
    <3>1. \A d \in Events \ {e} : sentTo'[d] = sentTo[d] /\ fate'[d] = fate[d]
      BY <2>1, PutEventSentTo DEF TypeOK
    <3>2. fate'[e] = "refused"
      BY <2>1 DEF TypeOK
    <3>3. \A q \in Sinks : \A i \in DOMAIN queue[q] :
            sentTo'[queue[q][i]] = sentTo[queue[q][i]]
      BY <3>1, PutEventSentTo
    <3>4. \A q \in Sinks : \A k \in DOMAIN owed[q] :
            /\ sentTo'[owed[q][k]] = sentTo[owed[q][k]]
            /\ fate'[owed[q][k]] = fate[owed[q][k]]
      BY <3>1, PutEventSentTo
    <3>5. OneHome'
      BY <2>1, <2>4, <3>3 DEF Accounts, OneHome
    <3>6. Owing'
      <4>1. ASSUME NEW d \in Events, fate'[d] = "queued"
            PROVE  \E k \in DOMAIN owed'[sentTo'[d]] : owed'[sentTo'[d]][k] = d
        <5>1. d # e
          BY <3>2, <4>1
        <5>2. fate[d] = "queued" /\ sentTo'[d] = sentTo[d]
          BY <3>1, <4>1, <5>1
        <5> QED
          BY <2>1, <5>2 DEF Accounts, Owing
      <4> QED
        BY <2>1, <3>4, <4>1 DEF Accounts, Owing
    <3>7. InTurn'
      BY <2>1 DEF Accounts, InTurn
    <3> QED
      BY <3>5, <3>6, <3>7 DEF Accounts
  <2>6. (DoomedMeansEmpty /\ NoLostWakeup /\ PromiseBacked)'
    BY <2>1, <2>4 DEF DoomedMeansEmpty, NoLostWakeup, PromiseBacked, HasIdleState, Top
  <2> QED
    BY <2>2, <2>3, <2>5, <2>6, <2>7, <2>8
<1>2. CASE ~Refuses(s)
  <2>1. /\ fate[e] = "new" /\ ~doomed /\ (s = Base \/ s = Idle \/ s \in connected)
        /\ queue' = [queue EXCEPT ![s] = Append(queue[s], e)]
        /\ fate' = [fate EXCEPT ![e] = "queued"]
        /\ owed' = [owed EXCEPT ![s] = Append(owed[s], e)]
        /\ signaled' = (signaled \/ owner = "waiting")
        /\ UNCHANGED <<levels, pushes, connected, doomed, owner, prioritized, promised>>
    BY <1>2 DEF PutEvent, Refuses, Notified, nestVars, idleVars
  <2>2. /\ queue[s] \in Seq(Events) /\ queue \in [Sinks -> Seq(Events)]
        /\ owed[s] \in Seq(Events) /\ owed \in [Sinks -> Seq(Events)]
    BY DEF TypeOK
  <2>3. TypeOK'
    BY <2>1, <2>2, AppendAt DEF PutEvent, TypeOK, Fates, idleVars
  <2>4. SinkQueuesAlive'
    BY <2>1, <2>2 DEF SinkQueuesAlive
  <2>8. NextSinkIsNew'
    BY <2>1, PutEventSentTo DEF NextSinkIsNew
  <2>9. Accounts'
    BY <2>1, <2>2, PutEventOwing
  <2>5. (ExitedIffDoomed /\ DoomedMeansEmpty /\ NoLostWakeup)'
    BY <2>1 DEF ExitedIffDoomed, DoomedMeansEmpty, NoLostWakeup, TypeOK, Top
  <2>7. PromiseBacked'
    <3>1. queue'[Idle] = <<>> => queue[Idle] = <<>>
      <4>1. Idle \in Sinks
        BY SinksAre
      <4>2. queue'[s] # <<>> /\ \A q \in Sinks \ {s} : queue'[q] = queue[q]
        BY <2>1, <2>2, AppendAt
      <4> QED
        BY <4>1, <4>2
    <3> QED
      BY <2>1, <3>1 DEF PromiseBacked, HasIdleState, Top
  <2>6. NothingLost'
    <3> DEFINE q == Append(queue[s], e)
    <3>1. /\ queue'[s] = q
          /\ \A t \in Sinks \ {s} : queue'[t] = queue[t]
          /\ DOMAIN q = 1 .. Len(queue[s]) + 1
          /\ \A k \in 1 .. Len(queue[s]) : q[k] = queue[s][k]
          /\ q[Len(queue[s]) + 1] = e
          /\ DOMAIN queue[s] = 1 .. Len(queue[s]) /\ Len(queue[s]) \in Nat
      BY <2>1, <2>2, AppendAt
    <3>2. \A t \in Sinks : \A k \in DOMAIN queue[t] : queue[t][k] # e
      BY <2>1 DEF NothingLost
    <3>3. \A t \in Sinks : \A k \in DOMAIN queue'[t] :
            \/ t = s /\ k = Len(queue[s]) + 1 /\ queue'[t][k] = e
            \/ k \in DOMAIN queue[t] /\ queue'[t][k] = queue[t][k]
      BY <3>1
    <3>4. \A d \in Events : fate'[d] = "queued" <=>
            \E t \in Sinks : \E k \in DOMAIN queue'[t] : queue'[t][k] = d
      <4> SUFFICES ASSUME NEW d \in Events
                   PROVE  fate'[d] = "queued" <=>
                            \E t \in Sinks : \E k \in DOMAIN queue'[t] :
                               queue'[t][k] = d
        OBVIOUS
      <4>1. CASE d = e
        <5>1. Len(queue[s]) + 1 \in DOMAIN queue'[s] /\ queue'[s][Len(queue[s]) + 1] = e
          BY <3>1
        <5>2. fate'[d] = "queued"
          BY <2>1, <4>1 DEF TypeOK
        <5> QED
          BY <4>1, <5>1, <5>2
      <4>2. CASE d # e
        <5>1. fate'[d] = fate[d]
          BY <2>1, <4>2 DEF TypeOK
        <5>2. ASSUME NEW t \in Sinks, NEW k \in DOMAIN queue[t]
              PROVE  k \in DOMAIN queue'[t] /\ queue'[t][k] = queue[t][k]
          BY <3>1
        <5> QED
          BY <3>3, <4>2, <5>1, <5>2 DEF NothingLost
      <4> QED
        BY <4>1, <4>2
    <3>5. \A t, u \in Sinks : \A k \in DOMAIN queue'[t], l \in DOMAIN queue'[u] :
            queue'[t][k] = queue'[u][l] => t = u /\ k = l
      BY <3>2, <3>3 DEF NothingLost
    <3> QED
      BY <3>4, <3>5 DEF NothingLost
  <2> QED
    BY <2>3, <2>4, <2>5, <2>6, <2>7, <2>8, <2>9
<1> QED
  BY <1>1, <1>2

\* The event at the head of a queue is the first of those its sink is owed.
Oldest(u) ==
  LET s == sentTo[Head(queue[u])]
  IN  owed[s] # <<>> /\ Head(owed[s]) = Head(queue[u])
LEMMA TakenIsOldest ==
  ASSUME IInv, NEW u \in Sinks, queue[u] # <<>>
  PROVE  Oldest(u)
<1> DEFINE e == Head(queue[u])
           s == sentTo[e]
           d == owed[s][1]
<1>1. TypeOK /\ NothingLost /\ Owing /\ OneHome /\ InTurn
  BY DEF IInv, Accounts
<1>2. e \in Events /\ e = queue[u][1] /\ 1 \in DOMAIN queue[u] /\ s \in Sinks
  <2>1. queue[u] \in Seq(Events)
    BY <1>1 DEF TypeOK
  <2>2. e \in Events /\ e = queue[u][1] /\ 1 \in DOMAIN queue[u]
    BY <2>1, TailAt
  <2> QED
    BY <1>1, <2>2 DEF TypeOK
<1>3. PICK l \in DOMAIN owed[s] : owed[s][l] = e
  <2>1. fate[e] = "queued"
    BY <1>1, <1>2 DEF NothingLost
  <2> QED
    BY <1>1, <1>2, <2>1 DEF Owing
<1>4. /\ owed[s] \in Seq(Events) /\ owed[s] # <<>> /\ Head(owed[s]) = d
      /\ 1 \in DOMAIN owed[s] /\ d \in Events /\ l \in Nat /\ l >= 1
  <2>1. owed[s] \in Seq(Events)
    BY <1>1, <1>2 DEF TypeOK
  <2> QED
    BY <1>3, <2>1
<1>5. PICK q \in Sinks : \E i \in DOMAIN queue[q] : queue[q][i] = d
  <2>1. fate[d] = "queued"
    BY <1>1, <1>2, <1>4 DEF Owing
  <2> QED
    BY <1>1, <1>4, <2>1 DEF NothingLost
<1>6. PICK i \in DOMAIN queue[q] : queue[q][i] = d
  BY <1>5
<1>7. q = u
  <2>1. sentTo[d] = s
    BY <1>1, <1>2, <1>4 DEF Owing
  <2> QED
    BY <1>1, <1>2, <1>6, <2>1 DEF OneHome
<1>8. i = 1
  <2> SUFFICES ASSUME i # 1 PROVE FALSE
    OBVIOUS
  <2>1. 1 < i
    BY <1>1, <1>6 DEF TypeOK
  <2>2. l < 1
    BY <1>1, <1>2, <1>3, <1>4, <1>6, <1>7, <2>1 DEF InTurn
  <2> QED
    BY <1>4, <2>2
<1> QED
  BY <1>2, <1>4, <1>6, <1>7, <1>8 DEF Oldest

\* What follows the event that is taken, in its queue and in its sink, moves up.
LEMMA TakeOwing ==
  ASSUME IInv, NEW u \in Sinks, TakeFrom(u), UNCHANGED <<connected, sentTo>>
  PROVE  Accounts'
<1> DEFINE e == Head(queue[u])
           s == sentTo[e]
<1>1. TypeOK /\ NothingLost /\ Owing /\ OneHome /\ InTurn
  BY DEF IInv, Accounts
<1>2. /\ queue[u] # <<>> /\ queue[u] \in Seq(Events) /\ queue \in [Sinks -> Seq(Events)]
      /\ owed \in [Sinks -> Seq(Events)] /\ fate \in [Events -> Fates]
      /\ queue' = [queue EXCEPT ![u] = Tail(queue[u])]
      /\ owed' = [owed EXCEPT ![s] = Tail(owed[s])]
      /\ fate' = [fate EXCEPT ![e] = "taken"]
  BY <1>1 DEF TakeFrom, TypeOK
<1>3. e \in Events /\ s \in Sinks /\ owed[s] \in Seq(Events)
  BY <1>1, <1>2, TailAt DEF TypeOK
<1>4. owed[s] # <<>> /\ Head(owed[s]) = e
  BY <1>2, TakenIsOldest DEF Oldest
<1> DEFINE J(q, i) == IF q = u THEN i + 1 ELSE i
           L(p, k) == IF p = s THEN k + 1 ELSE k
<1>5. \A q \in Sinks : \A i \in DOMAIN queue'[q] :
        J(q, i) \in DOMAIN queue[q] /\ queue'[q][i] = queue[q][J(q, i)] /\ i \in Int
  <2>1. /\ DOMAIN Tail(queue[u]) = 1 .. Len(queue[u]) - 1
        /\ \A k \in 1 .. Len(queue[u]) - 1 : Tail(queue[u])[k] = queue[u][k + 1]
        /\ DOMAIN queue[u] = 1 .. Len(queue[u]) /\ Len(queue[u]) \in Nat
    BY <1>2, TailAt
  <2>2. queue'[u] = Tail(queue[u]) /\ \A q \in Sinks \ {u} : queue'[q] = queue[q]
    BY <1>2
  <2> SUFFICES ASSUME NEW q \in Sinks, NEW i \in DOMAIN queue'[q]
               PROVE  J(q, i) \in DOMAIN queue[q] /\ queue'[q][i] = queue[q][J(q, i)] /\ i \in Int
    OBVIOUS
  <2>3. CASE q = u
    <3>1. i \in 1 .. Len(queue[u]) - 1 /\ queue'[u][i] = Tail(queue[u])[i]
      BY <2>1, <2>2, <2>3
    <3>2. i + 1 \in 1 .. Len(queue[u]) /\ i \in Int
      BY <2>1, <3>1
    <3> QED
      BY <2>1, <2>3, <3>1, <3>2
  <2>4. CASE q # u
    <3>1. queue'[q] = queue[q] /\ queue[q] \in Seq(Events)
      BY <1>2, <2>2, <2>4
    <3> QED
      BY <2>4, <3>1
  <2> QED
    BY <2>3, <2>4
<1>6. /\ DOMAIN owed[s] = 1 .. Len(owed[s]) /\ Len(owed[s]) \in Nat /\ Len(owed[s]) >= 1
      /\ DOMAIN owed'[s] = 1 .. Len(owed[s]) - 1
      /\ \A k \in 1 .. Len(owed[s]) - 1 : owed'[s][k] = owed[s][k + 1]
      /\ owed[s][1] = e
      /\ \A p \in Sinks \ {s} : owed'[p] = owed[p]
      /\ \A p \in Sinks : \A k \in DOMAIN owed[p] : k \in Int
  <2>1. owed'[s] = Tail(owed[s]) /\ \A p \in Sinks \ {s} : owed'[p] = owed[p]
    BY <1>2, <1>3
  <2> QED
    BY <1>2, <1>3, <1>4, <2>1, TailAt
<1>7. \A p \in Sinks : \A k \in DOMAIN owed'[p] :
        L(p, k) \in DOMAIN owed[p] /\ owed'[p][k] = owed[p][L(p, k)] /\ k \in Int
  <2> SUFFICES ASSUME NEW p \in Sinks, NEW k \in DOMAIN owed'[p]
               PROVE  L(p, k) \in DOMAIN owed[p] /\ owed'[p][k] = owed[p][L(p, k)] /\ k \in Int
    OBVIOUS
  <2>1. CASE p = s
    <3>1. k \in 1 .. Len(owed[s]) - 1
      BY <1>6, <2>1
    <3>2. k + 1 \in 1 .. Len(owed[s]) /\ k \in Int
      BY <1>6, <3>1
    <3> QED
      BY <1>6, <2>1, <3>1, <3>2
  <2>2. CASE p # s
    BY <1>6, <2>2
  <2> QED
    BY <2>1, <2>2
<1>8. \A p \in Sinks : \A k \in DOMAIN owed'[p] : owed'[p][k] \in Events \ {e}
  <2> SUFFICES ASSUME NEW p \in Sinks, NEW k \in DOMAIN owed'[p]
               PROVE  owed'[p][k] \in Events \ {e}
    OBVIOUS
  <2>1. owed'[p][k] \in Events
    BY <1>2, <1>7
  <2>2. ASSUME owed'[p][k] = e PROVE FALSE
    <3>1. p = s
      BY <1>1, <1>7, <2>2 DEF Owing
    <3>2. k \in 1 .. Len(owed[s]) - 1 /\ owed[s][k + 1] = owed[s][1] /\ k + 1 \in DOMAIN owed[s]
      <4>1. k \in 1 .. Len(owed[s]) - 1 /\ owed'[s][k] = e
        BY <1>6, <2>2, <3>1
      <4>2. k + 1 \in 1 .. Len(owed[s])
        BY <1>6, <4>1
      <4> QED
        BY <1>6, <4>1, <4>2
    <3>3. k + 1 = 1
      BY <1>1, <1>3, <1>6, <3>2 DEF Owing
    <3> QED
      BY <3>2, <3>3
  <2> QED
    BY <2>1, <2>2
<1>9. \A d \in Events \ {e} : fate'[d] = fate[d]
  BY <1>2
<1>10. Owing'
  <2>1. \A p \in Sinks : \A k, l \in DOMAIN owed'[p] : owed'[p][k] = owed'[p][l] => k = l
    <3> SUFFICES ASSUME NEW p \in Sinks, NEW k \in DOMAIN owed'[p], NEW l \in DOMAIN owed'[p],
                        owed'[p][k] = owed'[p][l]
                 PROVE  k = l
      OBVIOUS
    <3>1. L(p, k) = L(p, l) /\ k \in Int /\ l \in Int
      BY <1>1, <1>7 DEF Owing
    <3> QED
      BY <3>1
  <2>2. \A p \in Sinks : \A k \in DOMAIN owed'[p] :
          sentTo'[owed'[p][k]] = p /\ fate'[owed'[p][k]] = "queued"
    BY <1>1, <1>7, <1>8, <1>9 DEF Owing
  <2>3. ASSUME NEW d \in Events, fate'[d] = "queued"
        PROVE  \E k \in DOMAIN owed'[sentTo'[d]] : owed'[sentTo'[d]][k] = d
    <3>1. fate'[e] = "taken"
      BY <1>2, <1>3
    <3>2. d # e /\ fate[d] = "queued" /\ sentTo[d] \in Sinks
      BY <1>1, <1>9, <2>3, <3>1 DEF TypeOK
    <3>3. PICK k \in DOMAIN owed[sentTo[d]] : owed[sentTo[d]][k] = d
      BY <1>1, <3>2 DEF Owing
    <3>4. CASE sentTo[d] = s
      <4>1. k # 1 /\ k \in 1 .. Len(owed[s])
        BY <1>6, <3>2, <3>3, <3>4
      <4>2. k - 1 \in 1 .. Len(owed[s]) - 1 /\ (k - 1) + 1 = k
        BY <1>6, <4>1
      <4>3. k - 1 \in DOMAIN owed'[s] /\ owed'[s][k - 1] = d
        BY <1>6, <3>3, <3>4, <4>2
      <4> QED
        BY <3>4, <4>3
    <3>5. CASE sentTo[d] # s
      BY <1>6, <3>2, <3>3, <3>5
    <3> QED
      BY <3>4, <3>5
  <2> QED
    BY <2>1, <2>2, <2>3 DEF Owing
<1>11. OneHome'
  BY <1>1, <1>5 DEF OneHome
<1>12. InTurn'
  <2> SUFFICES ASSUME NEW q \in Sinks, NEW p \in Sinks,
                      NEW i \in DOMAIN queue'[q], NEW j \in DOMAIN queue'[q],
                      NEW k \in DOMAIN owed'[p], NEW l \in DOMAIN owed'[p],
                      i < j, owed'[p][k] = queue'[q][i], owed'[p][l] = queue'[q][j]
               PROVE  k < l
    BY DEF InTurn
  <2>1. /\ J(q, i) \in DOMAIN queue[q] /\ J(q, j) \in DOMAIN queue[q] /\ J(q, i) < J(q, j)
        /\ queue'[q][i] = queue[q][J(q, i)] /\ queue'[q][j] = queue[q][J(q, j)]
    BY <1>5
  <2>2. /\ L(p, k) \in DOMAIN owed[p] /\ L(p, l) \in DOMAIN owed[p] /\ k \in Int /\ l \in Int
        /\ owed'[p][k] = owed[p][L(p, k)] /\ owed'[p][l] = owed[p][L(p, l)]
    BY <1>7
  <2> HIDE DEF J, L
  <2>3. L(p, k) < L(p, l)
    BY <1>1, <2>1, <2>2 DEF InTurn
  <2> USE DEF L
  <2> QED
    BY <2>2, <2>3
<1> QED
  BY <1>10, <1>11, <1>12 DEF Accounts

\* Taking the first event of a queue shortens it by the event that is taken.
LEMMA TakeIInv ==
  ASSUME IInv, owner \notin {"exited"}, NEW u \in Sinks, TakeFrom(u),
         u = Top \/ HasIdleState,
         UNCHANGED <<nestVars, doomed, prioritized, shuttingDown, sentTo>>
  PROVE  IInv'
<1> USE DEF IInv, nestVars
<1>0. ~doomed /\ queue[u] \in Seq(Events)
  BY TopTyped DEF ExitedIffDoomed
<1> DEFINE q == queue[u]
           e == Head(q)
<1>1. /\ q # <<>>
      /\ queue' = [queue EXCEPT ![u] = Tail(q)]
      /\ fate' = [fate EXCEPT ![e] = "taken"]
      /\ owner' = "running" /\ signaled' = FALSE
      /\ promised' = (promised /\ ~HasIdleState)
  BY DEF TakeFrom
<1>2. /\ e \in Events /\ e = q[1] /\ Len(q) \in Nat /\ Len(q) >= 1
      /\ DOMAIN q = 1 .. Len(q)
      /\ Tail(q) \in Seq(Events)
      /\ DOMAIN Tail(q) = 1 .. Len(q) - 1
      /\ \A k \in 1 .. Len(q) - 1 : Tail(q)[k] = q[k + 1]
  BY <1>0, <1>1, TailAt
<1>8. /\ Oldest(u)
      /\ owed' = [owed EXCEPT ![sentTo[e]] = Tail(owed[sentTo[e]])]
      /\ owed[sentTo[e]] \in Seq(Events) /\ sentTo[e] \in Sinks
  BY <1>1, <1>2, TakenIsOldest DEF TakeFrom, TypeOK
<1>9. Accounts'
  <2> HIDE DEF IInv
  <2> QED
    BY <1>0, <1>1, TakeOwing
<1>3. TypeOK'
  <2>1. owed' \in [Sinks -> Seq(Events)]
    BY <1>8, TailAt DEF TypeOK, Oldest
  <2> QED
    BY <1>1, <1>2, <2>1 DEF TypeOK, Fates
<1>4. (SinkQueuesAlive /\ NextSinkIsNew)'
  BY <1>0, <1>1, <1>2 DEF SinkQueuesAlive, NextSinkIsNew, TypeOK
<1>5. (ExitedIffDoomed /\ DoomedMeansEmpty /\ NoLostWakeup)'
  BY <1>0, <1>1 DEF ExitedIffDoomed, DoomedMeansEmpty, NoLostWakeup
<1>6. NothingLost'
  <2>1. \A t \in Sinks : \A k \in DOMAIN queue'[t] :
          \/ t # u /\ k \in DOMAIN queue[t] /\ queue'[t][k] = queue[t][k]
          \/ /\ t = u /\ k \in 1 .. Len(q) - 1 /\ k + 1 \in DOMAIN queue[t]
             /\ queue'[t][k] = queue[t][k + 1]
    <3> SUFFICES ASSUME NEW t \in Sinks, NEW k \in DOMAIN queue'[t]
                 PROVE  \/ t # u /\ k \in DOMAIN queue[t] /\ queue'[t][k] = queue[t][k]
                        \/ /\ t = u /\ k \in 1 .. Len(q) - 1 /\ k + 1 \in DOMAIN queue[t]
                           /\ queue'[t][k] = queue[t][k + 1]
      OBVIOUS
    <3>1. queue'[u] = Tail(q) /\ (t # u => queue'[t] = queue[t])
      BY <1>1 DEF TypeOK
    <3> HIDE DEF IInv
    <3>2. CASE t = u
      <4>1. k \in 1 .. Len(q) - 1 /\ queue'[t][k] = q[k + 1]
        BY <1>2, <3>1, <3>2
      <4>2. k + 1 \in 1 .. Len(q)
        BY <1>2, <4>1
      <4> QED
        BY <1>2, <3>2, <4>1, <4>2
    <3> QED
      BY <3>1, <3>2
  <2>2. \A t \in Sinks : \A k \in DOMAIN queue[t] :
          \/ t = u /\ k = 1 /\ queue[t][k] = e
          \/ \E l \in DOMAIN queue'[t] : queue'[t][l] = queue[t][k]
    <3> SUFFICES ASSUME NEW t \in Sinks, NEW k \in DOMAIN queue[t]
                 PROVE  \/ t = u /\ k = 1 /\ queue[t][k] = e
                        \/ \E l \in DOMAIN queue'[t] : queue'[t][l] = queue[t][k]
      OBVIOUS
    <3>1. CASE t # u
      BY <1>1, <3>1 DEF TypeOK
    <3>2. CASE t = u /\ k = 1
      BY <1>2, <3>2
    <3>3. CASE t = u /\ k # 1
      <4>1. k - 1 \in 1 .. Len(q) - 1 /\ queue'[t] = Tail(q)
        BY <1>0, <1>1, <1>2, <3>3 DEF TypeOK
      <4>2. Tail(q)[k - 1] = q[k] /\ k - 1 \in DOMAIN Tail(q)
        BY <1>2, <3>3, <4>1
      <4> QED
        BY <3>3, <4>1, <4>2
    <3> QED
      BY <3>1, <3>2, <3>3
  <2>3. \A t, v \in Sinks : \A k \in DOMAIN queue'[t], l \in DOMAIN queue'[v] :
          queue'[t][k] = queue'[v][l] => t = v /\ k = l
    BY <2>1 DEF NothingLost
  <2>4. \A t \in Sinks : \A k \in DOMAIN queue'[t] : queue'[t][k] # e
    BY <1>0, <1>2, <2>1 DEF NothingLost
  <2>5. \A d \in Events : fate'[d] = "queued" <=>
          \E t \in Sinks : \E k \in DOMAIN queue'[t] : queue'[t][k] = d
    <3> SUFFICES ASSUME NEW d \in Events
                 PROVE  fate'[d] = "queued" <=>
                          \E t \in Sinks : \E k \in DOMAIN queue'[t] :
                             queue'[t][k] = d
      OBVIOUS
    <3>1. CASE d = e
      BY <1>1, <1>2, <2>4, <3>1 DEF TypeOK
    <3>2. CASE d # e
      <4>1. fate'[d] = fate[d]
        BY <1>1, <3>2 DEF TypeOK
      <4> QED
        BY <2>1, <2>2, <3>2, <4>1 DEF NothingLost
    <3> QED
      BY <3>1, <3>2
  <2> QED
    BY <2>3, <2>5 DEF NothingLost
<1>7. PromiseBacked'
  <2> SUFFICES ASSUME promised' PROVE prioritized' /\ queue'[Idle] # <<>>
    BY <1>1 DEF PromiseBacked
  <2>1. promised /\ ~HasIdleState
    BY <1>1
  <2>2. u # Idle /\ Idle \in Sinks
    BY <2>1, LevelsNotIdle
  <2>3. queue'[Idle] = queue[Idle]
    BY <1>1, <2>2 DEF TypeOK
  <2> QED
    BY <2>1, <2>3 DEF PromiseBacked
<1> QED
  BY <1>3, <1>4, <1>5, <1>6, <1>7, <1>9

\* Nothing but the state of the owner and the promise changes, as when it begins to
\* wait or to ask the idle state.
LEMMA OwnerIInv ==
  ASSUME IInv, owner # "exited",
         owner' \in {"running", "waiting", "updating", "peeking"},
         UNCHANGED <<queue, fate, owed, nestVars, doomed, prioritized, sentTo>>,
         signaled' \in BOOLEAN, promised' \in BOOLEAN, shuttingDown' \in BOOLEAN,
         NoLostWakeup', PromiseBacked'
  PROVE  IInv'
<1>1. UNCHANGED <<levels, pushes, connected>>
  BY DEF nestVars
<1>2. TypeOK'
  BY <1>1 DEF IInv, TypeOK
<1>3. (SinkQueuesAlive /\ NextSinkIsNew)'
  BY <1>1 DEF IInv, SinkQueuesAlive, NextSinkIsNew
<1>4. NothingLost'
  BY <1>1 DEF IInv, NothingLost
<1>5. Accounts'
  BY <1>1 DEF IInv, Accounts, Owing, OneHome, InTurn
<1>6. (ExitedIffDoomed /\ DoomedMeansEmpty)'
  BY DEF IInv, ExitedIffDoomed, DoomedMeansEmpty
<1> QED
  BY <1>2, <1>3, <1>4, <1>5, <1>6 DEF IInv

\* The loop of GetEvent takes an event, waits, or asks the idle state.
LEMMA LookIInv ==
  ASSUME IInv, owner \in {"running", "waiting"}, Look,
         UNCHANGED <<nestVars, doomed, prioritized, shuttingDown, sentTo>>
  PROVE  IInv'
<1>1. CASE TakeFrom(Top)
  <2>1. Top \in Sinks
    BY TopTyped DEF IInv
  <2> QED
    BY <1>1, <2>1, TakeIInv
<1>2. CASE queue[Top] = <<>> /\ ~HasIdleState /\ StartWaiting
  <2>1. /\ owner' = "waiting" /\ signaled' = FALSE
        /\ UNCHANGED <<queue, fate, owed, promised, prioritized, levels>>
    BY <1>2 DEF StartWaiting, nestVars
  <2>2. NoLostWakeup'
    BY <1>2, <2>1 DEF IInv, NoLostWakeup, PromiseBacked, HasIdleState, Top
  <2>3. PromiseBacked'
    BY <2>1 DEF IInv, PromiseBacked
  <2>4. promised' \in BOOLEAN /\ shuttingDown' \in BOOLEAN
    BY <2>1 DEF IInv, TypeOK
  <2> QED
    BY <2>1, <2>2, <2>3, <2>4, OwnerIInv
<1>3. CASE /\ queue[Top] = <<>> /\ HasIdleState
           /\ owner' = "updating" /\ signaled' = FALSE
           /\ UNCHANGED <<queue, fate, owed, promised>>
  <2>1. (NoLostWakeup /\ PromiseBacked)'
    BY <1>3 DEF IInv, NoLostWakeup, PromiseBacked, HasIdleState, Top, nestVars
  <2>2. promised' \in BOOLEAN /\ shuttingDown' \in BOOLEAN
    BY <1>3 DEF IInv, TypeOK
  <2> QED
    BY <1>3, <2>1, <2>2, OwnerIInv
<1> QED
  BY <1>1, <1>2, <1>3 DEF Look

\* With the lock again, GetEvent waits only if there is no normal event, and no
\* idle event was promised.
LEMMA LookAgainIInv == ASSUME IInv, LookAgain PROVE IInv'
<1>1. /\ owner = "updating" /\ HasIdleState /\ Top = Base
      /\ Base \in Sinks /\ Idle \in Sinks
      /\ UNCHANGED <<nestVars, doomed, prioritized, shuttingDown, sentTo>>
      /\ shuttingDown' \in BOOLEAN
  BY LevelsNotIdle DEF IInv, LookAgain, PromiseBacked, HasIdleState, TypeOK
<1>2. CASE TakeFrom(Base) \/ TakeFrom(Idle)
  BY <1>1, <1>2, TakeIInv
<1>3. ASSUME NEW idleTime \in IsIdleTime,
             queue[Base] = <<>>, idleTime => queue[Idle] = <<>>,
             \/ StartWaiting
             \/ /\ owner' = "running" /\ promised' = FALSE
                /\ UNCHANGED <<queue, fate, owed, signaled>>
      PROVE  IInv'
  <2>1. ~promised /\ ~promised'
    <3>1. promised => queue[Idle] = <<>>
      BY <1>3 DEF IsIdleTime
    <3>2. ~promised
      BY <3>1 DEF IInv, PromiseBacked
    <3> QED
      BY <1>3, <3>2 DEF StartWaiting
  <2>2. /\ UNCHANGED <<queue, fate, owed>>
        /\ owner' \in {"running", "waiting"}
        /\ signaled' \in BOOLEAN /\ promised' \in BOOLEAN
    BY <1>3, <2>1 DEF IInv, TypeOK, StartWaiting
  <2>3. (NoLostWakeup /\ PromiseBacked)'
    BY <1>1, <1>3, <2>1, <2>2 DEF NoLostWakeup, PromiseBacked, Top, nestVars
  <2> QED
    BY <1>1, <2>2, <2>3, OwnerIInv
<1> QED
  BY <1>2, <1>3 DEF LookAgain, TakeByPriority, NoneReady

\* HasPendingEvent promises an idle event only if there is one.
LEMMA HasPendingIInv ==
  ASSUME IInv, HasPendingEvent \/ HasPendingEventPeeked
  PROVE  IInv'
<1>1. CASE HasPendingEvent
  <2>1. /\ HasIdleState /\ promised' = FALSE
        /\ owner = "running" /\ owner' \in {"running", "peeking"}
        /\ UNCHANGED <<queue, fate, owed, nestVars, doomed, signaled, prioritized, shuttingDown, sentTo>>
    BY <1>1 DEF HasPendingEvent
  <2>2. signaled' \in BOOLEAN /\ promised' \in BOOLEAN /\ shuttingDown' \in BOOLEAN
    BY <2>1 DEF IInv, TypeOK
  <2>3. (NoLostWakeup /\ PromiseBacked)'
    BY <2>1 DEF NoLostWakeup, PromiseBacked, HasIdleState, Top, nestVars
  <2> QED
    BY <2>1, <2>2, <2>3, OwnerIInv
<1>2. CASE HasPendingEventPeeked
  <2>1. PICK idleTime \in IsIdleTime : promised' = (idleTime /\ queue[Idle] # <<>>)
    BY <1>2 DEF HasPendingEventPeeked
  <2>2. /\ owner = "peeking" /\ owner' = "running" /\ HasIdleState
        /\ UNCHANGED <<queue, fate, owed, nestVars, doomed, signaled, prioritized, shuttingDown, sentTo>>
    BY <1>2 DEF IInv, PromiseBacked, HasPendingEventPeeked
  <2>3. signaled' \in BOOLEAN /\ promised' \in BOOLEAN /\ shuttingDown' \in BOOLEAN
    BY <2>1, <2>2 DEF IInv, TypeOK, IsIdleTime
  <2>4. (NoLostWakeup /\ PromiseBacked)'
    BY <2>1, <2>2, <2>3 DEF NoLostWakeup, PromiseBacked, HasIdleState
  <2> QED
    BY <2>2, <2>3, <2>4, OwnerIInv
<1> QED
  BY <1>1, <1>2

\* That the thread shuts down changes nothing else.
LEMMA BeginShutdownIInv == ASSUME IInv, BeginShutdown PROVE IInv'
<1>1. /\ owner = "running" /\ owner' = "running" /\ shuttingDown' = TRUE
      /\ UNCHANGED <<queue, fate, owed, nestVars, doomed, signaled, prioritized, promised, sentTo>>
  BY DEF BeginShutdown
<1>2. signaled' \in BOOLEAN /\ promised' \in BOOLEAN
  BY <1>1 DEF IInv, TypeOK
<1>3. (NoLostWakeup /\ PromiseBacked)'
  BY <1>1 DEF IInv, NoLostWakeup, PromiseBacked
<1> QED
  BY <1>1, <1>2, <1>3, OwnerIInv

\* A push adds a level with a sink, and an empty queue, of its own.
LEMMA PushIInv == ASSUME IInv, PushEventQueue PROVE IInv'
<1> USE DEF IInv
<1> DEFINE n == Len(levels)
<1>1. /\ pushes' = pushes + 1
      /\ levels' = Append(levels, pushes + 1)
      /\ connected' = connected \cup {pushes + 1}
      /\ owner = "running" /\ pushes < MaxPushes
      /\ UNCHANGED <<queue, doomed, owner, signaled, sentTo, fate, owed>>
      /\ UNCHANGED <<prioritized, promised, shuttingDown>>
  BY DEF PushEventQueue, idleVars
<1>2. /\ pushes \in Nat /\ pushes + 1 \in Sinks /\ n \in Nat /\ n >= 1
      /\ levels \in Seq(Sinks) /\ DOMAIN levels = 1 .. n
      /\ \A i \in 1 .. n : levels[i] \in Int
  <2>1. /\ pushes \in 0 .. MaxPushes
        /\ levels \in Seq(Sinks) /\ levels # <<>> /\ \A s \in Sinks : s \in Int
    BY SinksAre DEF TypeOK
  <2> HIDE DEF IInv
  <2>2. pushes \in Nat /\ pushes + 1 \in Sinks
    BY <1>1, <2>1, MaxPushesAssumption DEF Sinks, Idle
  <2>3. n \in Nat /\ n >= 1 /\ DOMAIN levels = 1 .. n /\ \A i \in 1 .. n : levels[i] \in Sinks
    BY <2>1
  <2> QED
    BY <2>1, <2>2, <2>3
<1>3. /\ levels' \in Seq(Sinks) /\ levels' # <<>>
      /\ Len(levels') = n + 1 /\ DOMAIN levels' = 1 .. n + 1
      /\ \A i \in 1 .. n : levels'[i] = levels[i]
      /\ levels'[n + 1] = pushes + 1
  <2> HIDE DEF n
  <2>1. Append(levels, pushes + 1) \in Seq(Sinks)
    BY <1>2, AppendAt
  <2> QED
    BY <1>1, <1>2, <2>1, AppendAt DEF n
<1>4. TypeOK'
  <2>1. pushes' \in 0 .. MaxPushes
    BY <1>1, <1>2, MaxPushesAssumption
  <2>2. connected' \in SUBSET Sinks
    BY <1>1, <1>2 DEF TypeOK
  <2> HIDE DEF n
  <2> QED
    BY <1>1, <1>3, <2>1, <2>2 DEF TypeOK
<1>5. \A i \in 1 .. n : levels[i] <= pushes
  BY <1>2 DEF NextSinkIsNew
<1>10. \A e \in Events : sentTo[e] <= pushes /\ sentTo[e] \in Int
  BY SinksAre DEF NextSinkIsNew, TypeOK
<1>6. NextSinkIsNew'
  <2>1. ASSUME NEW i \in DOMAIN levels' PROVE levels'[i] <= pushes'
    <3>1. i \in 1 .. n \/ i = n + 1
      BY <1>2, <1>3
    <3> QED
      BY <1>1, <1>2, <1>3, <1>5, <3>1
  <2>2. \A e \in Events : sentTo'[e] <= pushes'
    BY <1>1, <1>2, <1>10
  <2> QED
    BY <2>1, <2>2 DEF NextSinkIsNew
<1>7. SinkQueuesAlive'
  <2>1. levels'[1] = Base
    BY <1>2, <1>3 DEF SinkQueuesAlive
  <2>2. ASSUME NEW i \in DOMAIN levels', NEW j \in DOMAIN levels', i < j
        PROVE  levels'[i] < levels'[j]
    <3>1. i \in 1 .. n /\ (j \in 1 .. n \/ j = n + 1)
      BY <1>2, <1>3, <2>2
    <3>2. \A k, l \in 1 .. n : k < l => levels[k] < levels[l]
      BY <1>2 DEF SinkQueuesAlive
    <3> QED
      BY <1>2, <1>3, <1>5, <2>2, <3>1, <3>2
  <2>3. connected' = {levels'[i] : i \in 2 .. Len(levels')}
    <3>1. connected = {levels[i] : i \in 2 .. n}
      BY DEF SinkQueuesAlive
    <3>2. 2 .. n + 1 = 2 .. n \cup {n + 1} /\ 2 .. n \subseteq 1 .. n
      BY <1>2
    <3> HIDE DEF n
    <3> QED
      BY <1>1, <1>3, <3>1, <3>2
  <2>4. \A s \in Sinks : queue'[s] # <<>> => s \in connected' \cup {Base, Idle}
    BY <1>1 DEF SinkQueuesAlive
  <2> QED
    BY <2>1, <2>2, <2>3, <2>4 DEF SinkQueuesAlive
<1>8. (ExitedIffDoomed /\ DoomedMeansEmpty /\ NoLostWakeup /\ NothingLost)'
  BY <1>1 DEF ExitedIffDoomed, DoomedMeansEmpty, NoLostWakeup, NothingLost
<1>9. PromiseBacked'
  BY <1>1 DEF PromiseBacked
<1>11. Accounts'
  <2>1. Owing' /\ InTurn'
    BY <1>1 DEF Accounts, Owing, InTurn
  <2>2. \A q \in Sinks : \A i \in DOMAIN queue[q] : sentTo[queue[q][i]] # pushes + 1
    <3> SUFFICES ASSUME NEW q \in Sinks, NEW i \in DOMAIN queue[q]
                 PROVE  sentTo[queue[q][i]] # pushes + 1
      OBVIOUS
    <3>1. queue[q][i] \in Events
      BY DEF TypeOK
    <3> QED
      BY <1>2, <1>10, <3>1
  <2>3. OneHome'
    BY <1>1, <2>2 DEF Accounts, OneHome
  <2> QED
    BY <2>1, <2>3 DEF Accounts
<1> QED
  BY <1>4, <1>6, <1>7, <1>8, <1>9, <1>11

\* The events that a pop moves are put behind those of other sinks only, and stay in
\* their order.
LEMMA PopOwing ==
  ASSUME IInv, NEW a \in Sinks, NEW b \in Sinks, a # b,
         queue' \in [Sinks -> Seq(Events)], Moved(queue, queue', a, b),
         connected' = connected \ {b}, b # Idle, b # Base,
         UNCHANGED <<sentTo, fate, owed>>
  PROVE  Accounts'
<1>1. TypeOK /\ Owing /\ OneHome /\ InTurn
  BY DEF IInv, Accounts
<1> DEFINE m == Len(queue[a])
           Old(q, i) == IF q # a \/ i <= m THEN q ELSE b
           At(q, i) == IF q # a \/ i <= m THEN i ELSE i - m
<1>2. \A q \in Sinks : \A i \in DOMAIN queue'[q] :
        /\ q # b /\ i \in Int /\ m \in Int
        /\ Old(q, i) \in Sinks /\ At(q, i) \in DOMAIN queue[Old(q, i)]
        /\ queue'[q][i] = queue[Old(q, i)][At(q, i)]
  <2> SUFFICES ASSUME NEW q \in Sinks, NEW i \in DOMAIN queue'[q]
               PROVE  /\ q # b /\ i \in Int /\ m \in Int
                      /\ Old(q, i) \in Sinks /\ At(q, i) \in DOMAIN queue[Old(q, i)]
                      /\ queue'[q][i] = queue[Old(q, i)][At(q, i)]
    OBVIOUS
  <2>1. /\ queue'[a] = queue[a] \o queue[b] /\ queue'[b] = <<>>
        /\ \A p \in Sinks \ {a, b} : queue'[p] = queue[p]
        /\ queue[a] \in Seq(Events) /\ queue[b] \in Seq(Events) /\ queue'[q] \in Seq(Events)
    BY <1>1 DEF Moved, TypeOK
  <2>2. q # b /\ i \in Int /\ m \in Nat
    BY <2>1
  <2>3. CASE q # a
    BY <2>1, <2>2, <2>3
  <2>4. CASE q = a /\ i <= m
    <3>1. i \in 1 .. m /\ DOMAIN queue[a] = 1 .. m /\ queue'[a][i] = queue[a][i]
      BY <2>1, <2>2, <2>4
    <3> QED
      BY <2>2, <2>4, <3>1
  <2>5. CASE q = a /\ i > m
    <3>1. /\ DOMAIN queue'[a] = 1 .. m + Len(queue[b]) /\ Len(queue[b]) \in Nat
          /\ DOMAIN queue[b] = 1 .. Len(queue[b])
          /\ \A k \in 1 .. Len(queue[b]) : queue'[a][m + k] = queue[b][k]
      <4>1. PICK x \in Seq(Events), y \in Seq(Events) : x = queue[a] /\ y = queue[b]
        BY <2>1
      <4>2. /\ DOMAIN (x \o y) = 1 .. Len(x) + Len(y) /\ Len(y) \in Nat
            /\ DOMAIN y = 1 .. Len(y)
            /\ \A k \in 1 .. Len(y) : (x \o y)[Len(x) + k] = y[k]
        BY ConcatAt
      <4> QED
        BY <2>1, <4>1, <4>2, Zenon
    <3> HIDE DEF m
    <3>2. i - m \in 1 .. Len(queue[b]) /\ m + (i - m) = i
      BY <2>2, <2>5, <3>1
    <3>3. queue'[a][m + (i - m)] = queue[b][i - m]
      BY <3>1, <3>2
    <3> QED
      BY <2>2, <2>5, <3>1, <3>2, <3>3
  <2> QED
    BY <2>2, <2>3, <2>4, <2>5
<1>3. Owing'
  BY <1>1 DEF Owing
<1> HIDE DEF m
<1>4. OneHome'
  <2>1. ASSUME NEW q \in Sinks, NEW i \in DOMAIN queue'[q],
               sentTo[queue'[q][i]] \in (connected \ {b}) \cup {Base, Idle}
        PROVE  sentTo[queue'[q][i]] = q
    <3> HIDE DEF Old, At
    <3>1. /\ Old(q, i) \in Sinks /\ At(q, i) \in DOMAIN queue[Old(q, i)]
          /\ queue'[q][i] = queue[Old(q, i)][At(q, i)]
      BY <1>2
    <3>2. sentTo[queue'[q][i]] = Old(q, i)
      BY <1>1, <2>1, <3>1 DEF OneHome
    <3>3. Old(q, i) # b
      BY <2>1, <3>2
    <3> USE DEF Old
    <3> QED
      BY <3>2, <3>3
  <2>2. ASSUME NEW q \in Sinks, NEW p \in Sinks,
               NEW i \in DOMAIN queue'[q], NEW j \in DOMAIN queue'[p],
               sentTo[queue'[q][i]] = sentTo[queue'[p][j]]
        PROVE  q = p
    <3> HIDE DEF Old, At
    <3>1. /\ Old(q, i) \in Sinks /\ At(q, i) \in DOMAIN queue[Old(q, i)]
          /\ queue'[q][i] = queue[Old(q, i)][At(q, i)]
          /\ Old(p, j) \in Sinks /\ At(p, j) \in DOMAIN queue[Old(p, j)]
          /\ queue'[p][j] = queue[Old(p, j)][At(p, j)]
          /\ q # b /\ p # b
      BY <1>2
    <3>2. Old(q, i) = Old(p, j)
      BY <1>1, <2>2, <3>1 DEF OneHome
    <3> USE DEF Old
    <3> QED
      BY <3>1, <3>2
  <2> QED
    BY <2>1, <2>2 DEF OneHome
<1>5. InTurn'
  <2> SUFFICES ASSUME NEW q \in Sinks, NEW p \in Sinks,
                      NEW i \in DOMAIN queue'[q], NEW j \in DOMAIN queue'[q],
                      NEW k \in DOMAIN owed[p], NEW l \in DOMAIN owed[p],
                      i < j, owed[p][k] = queue'[q][i], owed[p][l] = queue'[q][j]
               PROVE  k < l
    BY DEF InTurn
  <2>1. sentTo[queue'[q][i]] = sentTo[queue'[q][j]]
    BY <1>1 DEF Owing
  <2>2. Old(q, i) = Old(q, j)
    <3> HIDE DEF Old, At
    <3>1. /\ Old(q, i) \in Sinks /\ At(q, i) \in DOMAIN queue[Old(q, i)]
          /\ queue'[q][i] = queue[Old(q, i)][At(q, i)]
          /\ Old(q, j) \in Sinks /\ At(q, j) \in DOMAIN queue[Old(q, j)]
          /\ queue'[q][j] = queue[Old(q, j)][At(q, j)]
      BY <1>2
    <3> QED
      BY <1>1, <2>1, <3>1 DEF OneHome
  <2>3. At(q, i) < At(q, j)
    <3>1. i \in Int /\ j \in Int /\ m \in Int
      BY <1>2
    <3> HIDE DEF m
    <3> QED
      BY <2>2, <3>1
  <2>4. /\ At(q, i) \in DOMAIN queue[Old(q, i)] /\ At(q, j) \in DOMAIN queue[Old(q, i)]
        /\ Old(q, i) \in Sinks
        /\ queue'[q][i] = queue[Old(q, i)][At(q, i)]
        /\ queue'[q][j] = queue[Old(q, i)][At(q, j)]
    BY <1>2, <2>2
  <2> HIDE DEF Old, At
  <2> QED
    BY <1>1, <2>3, <2>4 DEF InTurn
<1> QED
  BY <1>3, <1>4, <1>5 DEF Accounts

\* A pop removes the last level, disconnects its sink and no other, and moves
\* its events one level down.
LEMMA PopIInv == ASSUME IInv, PopEventQueue PROVE IInv'
<1> USE DEF IInv
<1> DEFINE n == Len(levels)
           low == levels[n - 1]
<1>0. /\ owner = "running" /\ n > 1
      /\ connected' = connected \ {Top}
      /\ queue' = [queue EXCEPT ![low] = queue[low] \o queue[Top], ![Top] = <<>>]
      /\ levels' = Front(levels)
      /\ UNCHANGED <<pushes, doomed, owner, signaled, sentTo, fate, owed>>
      /\ UNCHANGED <<prioritized, promised, shuttingDown>>
  BY DEF PopEventQueue, Popped, idleVars
<1>1. /\ levels \in Seq(Sinks) /\ n \in Nat /\ DOMAIN levels = 1 .. n
      /\ n - 1 \in 1 .. n /\ n \in 1 .. n
      /\ Top = levels[n] /\ Top \in Sinks /\ low \in Sinks
      /\ queue \in [Sinks -> Seq(Events)]
  BY <1>0 DEF TypeOK, Top
<1>2. \A i \in 1 .. n : levels[i] \in Int
  BY <1>1, SinksAre
<1>3. \A i \in 1 .. n - 1 : levels[i] < Top
  <2>1. \A i, j \in 1 .. n : i < j => levels[i] < levels[j]
    BY <1>1 DEF SinkQueuesAlive
  <2> HIDE DEF n, IInv
  <2>2. \A i \in 1 .. n - 1 : i \in 1 .. n /\ i < n
    BY <1>1
  <2> QED
    BY <1>1, <2>1, <2>2
<1>4. low # Top
  <2>1. n - 1 \in 1 .. n - 1 /\ Top \in Int
    BY <1>0, <1>1, <1>2
  <2> HIDE DEF n
  <2> QED
    BY <1>3, <2>1
<1>5. /\ levels' \in Seq(Sinks) /\ levels' # <<>> /\ Len(levels') = n - 1
      /\ DOMAIN levels' = 1 .. n - 1
      /\ \A i \in 1 .. n - 1 : levels'[i] = levels[i]
  <2>1. levels \in Seq(Sinks) /\ Len(levels) > 1 /\ levels' = Front(levels)
    BY <1>0, <1>1
  <2> HIDE DEF IInv
  <2> QED
    BY <2>1, FrontAt
<1>6. queue' \in [Sinks -> Seq(Events)] /\ Moved(queue, queue', low, Top)
  <2> HIDE DEF low, IInv
  <2>1. PICK q \in Seq(Events) : q = queue[low] \o queue[Top]
    BY <1>1, ConcatAt
  <2>2. PICK none \in Seq(Events) : none = <<>>
    <3>1. <<>> \in Seq(Events)
      OBVIOUS
    <3> QED
      BY <3>1, Zenon
  <2>3. queue' = [queue EXCEPT ![low] = q, ![Top] = none]
    BY <1>0, <2>1, <2>2
  <2>4. /\ queue' \in [Sinks -> Seq(Events)]
        /\ queue'[low] = q
        /\ queue'[Top] = none
        /\ \A s \in Sinks \ {low, Top} : queue'[s] = queue[s]
    BY <1>1, <1>4, <2>3
  <2> QED
    BY <2>1, <2>2, <2>4 DEF Moved
<1>7. /\ queue' \in [Sinks -> Seq(Events)] /\ queue'[Top] = <<>>
      /\ \A s \in Sinks \ {low, Top} : queue'[s] = queue[s]
  BY <1>6 DEF Moved
<1>8. TypeOK'
  <2>1. connected' \in SUBSET Sinks
    BY <1>0 DEF TypeOK
  <2> QED
    BY <1>0, <1>5, <1>7, <2>1 DEF TypeOK
<1>9. NextSinkIsNew'
  <2>1. \A i \in 1 .. n - 1 : i \in DOMAIN levels
    BY <1>1
  <2>2. \A i \in 1 .. n - 1 : levels'[i] <= pushes
    BY <1>5, <2>1 DEF NextSinkIsNew
  <2> QED
    BY <1>0, <1>5, <2>2 DEF NextSinkIsNew
<1>10. SinkQueuesAlive'
  <2>1. connected' = {levels'[i] : i \in 2 .. Len(levels')}
    <3>1. connected = {levels[i] : i \in 2 .. n}
      BY DEF SinkQueuesAlive
    <3>2. 2 .. n = (2 .. n - 1) \cup {n} /\ 2 .. n - 1 \subseteq 1 .. n - 1
      <4> HIDE DEF IInv, n, low
      <4> QED
        BY <1>0, <1>1
    <3>3. \A i \in 2 .. n - 1 : levels[i] # Top
      BY <1>1, <1>2, <1>3, <3>2
    <3>4. connected' = {levels[i] : i \in 2 .. n - 1}
      <4> HIDE DEF n
      <4> QED
        BY <1>0, <1>1, <3>1, <3>2, <3>3
    <3> HIDE DEF n
    <3> QED
      BY <1>5, <3>2, <3>4
  <2>2. low \in connected' \cup {Base}
    <3>1. CASE n = 2
      BY <1>1, <3>1 DEF SinkQueuesAlive
    <3>2. CASE n > 2
      <4>1. n - 1 \in 2 .. Len(levels') /\ n - 1 \in 1 .. n - 1
        BY <1>1, <1>5, <3>2
      <4>2. low = levels'[n - 1]
        BY <1>5, <4>1
      <4> HIDE DEF n, low
      <4> QED
        BY <2>1, <4>1, <4>2
    <3> QED
      BY <1>0, <1>1, <3>1, <3>2
  <2>3. \A s \in Sinks : queue'[s] # <<>> => s \in connected' \cup {Base, Idle}
    <3>1. \A s \in Sinks \ {Top} : queue[s] # <<>> => s \in connected' \cup {Base, Idle}
      BY <1>0 DEF SinkQueuesAlive
    <3> HIDE DEF low, IInv
    <3>2. \A s \in Sinks : s = low \/ s = Top \/ s \in Sinks \ {low, Top}
      OBVIOUS
    <3> QED
      BY <1>7, <2>2, <3>1, <3>2
  <2>4. levels'[1] = Base
    BY <1>0, <1>1, <1>5 DEF SinkQueuesAlive
  <2>5. \A i, j \in DOMAIN levels' : i < j => levels'[i] < levels'[j]
    <3>1. \A i, j \in 1 .. n : i < j => levels[i] < levels[j]
      BY <1>1 DEF SinkQueuesAlive
    <3>2. 1 .. n - 1 \subseteq 1 .. n
      BY <1>1
    <3> HIDE DEF n
    <3> QED
      BY <1>5, <3>1, <3>2
  <2> QED
    BY <2>1, <2>3, <2>4, <2>5 DEF SinkQueuesAlive
<1>11. (ExitedIffDoomed /\ DoomedMeansEmpty /\ NoLostWakeup)'
  <2>1. ~doomed
    BY <1>0 DEF ExitedIffDoomed
  <2> QED
    BY <1>0, <2>1 DEF ExitedIffDoomed, DoomedMeansEmpty, NoLostWakeup
<1>13. PromiseBacked'
  <2>1. Idle \in Sinks /\ low # Idle /\ Top # Idle
    BY <1>1, LevelsNotIdle
  <2>2. queue'[Idle] = queue[Idle]
    BY <1>7, <2>1
  <2> QED
    BY <1>0, <2>2 DEF PromiseBacked
<1>12. NothingLost'
  <2> HIDE DEF low, IInv
  <2>1. Once(queue)
    BY DEF IInv, NothingLost, Once
  <2>2. Once(queue') /\ \A e : Holds(queue', e) <=> Holds(queue, e)
    BY <1>1, <1>4, <1>6, <2>1, MoveConserves
  <2>3. NothingLost
    BY DEF IInv
  <2> QED
    BY <1>0, <2>2, <2>3 DEF NothingLost, Once, Holds
<1>14. Accounts'
  <2> HIDE DEF n, low, IInv
  <2>1. Top # Idle /\ Top # Base
    <3>1. TypeOK /\ SinkQueuesAlive
      BY DEF IInv
    <3>2. levels[1] < Top
      BY <1>0, <1>1, <1>3
    <3>3. levels[1] = Base /\ Base \in Int
      BY <3>1, SinksAre DEF SinkQueuesAlive
    <3> QED
      BY <3>1, <3>2, <3>3, LevelsNotIdle
  <2> QED
    BY <1>0, <1>1, <1>4, <1>6, <2>1, PopOwing
<1> QED
  BY <1>8, <1>9, <1>10, <1>11, <1>12, <1>13, <1>14

\* The thread dooms its queue only when nothing is queued or nested.
LEMMA ShutdownIInv == ASSUME IInv, ShutdownIfNoPendingEvents PROVE IInv'
<1> USE DEF IInv, ShutdownIfNoPendingEvents, nestVars, idleVars
<1>1. connected = {}
  BY DEF SinkQueuesAlive, TypeOK
<1>2. \A s \in Sinks : queue[s] = <<>>
  BY <1>1 DEF SinkQueuesAlive
<1>3. TypeOK' /\ SinkQueuesAlive' /\ NextSinkIsNew'
  BY DEF TypeOK, SinkQueuesAlive, NextSinkIsNew
<1>4. (ExitedIffDoomed /\ DoomedMeansEmpty /\ NoLostWakeup)'
  BY <1>1, <1>2 DEF ExitedIffDoomed, DoomedMeansEmpty, NoLostWakeup
<1>5. PromiseBacked' /\ NothingLost'
  BY DEF PromiseBacked, NothingLost, Once, Holds
<1>6. Accounts'
  BY DEF Accounts, Owing, OneHome, InTurn
<1> QED
  BY <1>3, <1>4, <1>5, <1>6

\* No step of the specification breaks the invariant.
LEMMA NextIInv == IInv /\ [Next]_vars => IInv'
<1> SUFFICES ASSUME IInv, [Next]_vars PROVE IInv'
  OBVIOUS
<1>1. ASSUME NEW e \in Events, NEW s \in Sinks, PutEvent(e, s) PROVE IInv'
  BY <1>1, PutEventIInv
<1>2. CASE GetEvent
  BY <1>2, LookIInv DEF GetEvent
<1>3. CASE ReturnFromWait
  BY <1>3, LookIInv DEF ReturnFromWait
<1>4. CASE PushEventQueue
  BY <1>4, PushIInv
<1>5. CASE PopEventQueue
  BY <1>5, PopIInv
<1>6. CASE ShutdownIfNoPendingEvents
  BY <1>6, ShutdownIInv
<1>7. CASE UNCHANGED vars
  <2> USE <1>7 DEF vars, nestVars, idleVars, IInv
  <2>1. (TypeOK /\ SinkQueuesAlive /\ NextSinkIsNew)'
    BY DEF TypeOK, SinkQueuesAlive, NextSinkIsNew
  <2>2. (ExitedIffDoomed /\ DoomedMeansEmpty /\ NoLostWakeup /\ PromiseBacked)'
    BY DEF ExitedIffDoomed, DoomedMeansEmpty, NoLostWakeup, PromiseBacked,
       HasIdleState, Top
  <2>3. NothingLost'
    BY DEF NothingLost, Once, Holds
  <2>4. Accounts'
    BY DEF Accounts, Owing, OneHome, InTurn
  <2> QED
    BY <2>1, <2>2, <2>3, <2>4
<1>8. CASE LookAgain
  BY <1>8, LookAgainIInv
<1>9. CASE HasPendingEvent \/ HasPendingEventPeeked
  BY <1>9, HasPendingIInv
<1>10. CASE BeginShutdown
  BY <1>10, BeginShutdownIInv
<1> QED
  BY <1>1, <1>2, <1>3, <1>4, <1>5, <1>6, <1>7, <1>8, <1>9, <1>10
  DEF Next, OwnerStep, Terminated

\* The invariant holds in every state the queue can reach.
LEMMA Invariance == Spec => []IInv
BY InitIInv, NextIInv, PTL DEF Spec

-----------------------------------------------------------------------------
(* What follows from it *)

\* Every variable keeps its type, whatever is put, pushed and popped.
THEOREM TypeCorrect == Spec => []TypeOK
<1>1. IInv => TypeOK
  BY DEF IInv
<1> QED
  BY <1>1, Invariance, PTL

\* A NestedSink is connected exactly as long as its queue exists, so the raw
\* pointer NestedSink::mQueue never dangles, at any depth of nesting.
THEOREM SinksNeverDangle == Spec => []SinkQueuesAlive
<1>1. IInv => SinkQueuesAlive
  BY DEF IInv
<1> QED
  BY <1>1, Invariance, PTL

\* A queue that refuses events has none left, nested or not: what was accepted
\* is run before the thread exits.
THEOREM NothingStranded == Spec => []DoomedMeansEmpty
<1>1. IInv => DoomedMeansEmpty
  BY DEF IInv
<1> QED
  BY <1>1, Invariance, PTL

\* An owner asleep without a wakeup under way has nothing to take.
THEOREM WakeupsNotLost == Spec => []NoLostWakeup
<1>1. IInv => NoLostWakeup
  BY DEF IInv
<1> QED
  BY <1>1, Invariance, PTL

\* PutEvent, GetEvent and the moves of PopEventQueue lose and duplicate nothing.
THEOREM EventsConserved == Spec => []NothingLost
<1>1. IInv => NothingLost
  BY DEF IInv
<1> QED
  BY <1>1, Invariance, PTL

-----------------------------------------------------------------------------
(* The refinement of EventTarget.  What a sink's target has pending is what the  *)
(* sink is owed; a step that takes an event is a Deliver of its sink because the *)
(* event is the first of those (TakenIsOldest).                                  *)

\* The open targets.
IsOpen(s) == s \in connected \cup (IF doomed THEN {} ELSE {Base, Idle})

\* An event nobody has put yet is fresh.
LEMMA AbstractFresh ==
  ASSUME IInv, NEW e \in Events, fate[e] = "new"
  PROVE  e \in Abstract!Fresh
<1>1. e \notin Having("taken") \cup Having("refused")
  BY DEF Having
<1>2. \A s \in Sinks : \A k \in DOMAIN owed[s] : owed[s][k] # e
  BY DEF IInv, Accounts, Owing
<1>3. e \notin Abstract!Waiting
  BY <1>2 DEF Abstract!Waiting
<1> QED
  BY <1>1, <1>3 DEF Abstract!Fresh

\* There is nothing pending at the start.
LEMMA AbstractInit == Init => Abstract!Init
<1> SUFFICES ASSUME Init PROVE Abstract!Init
  OBVIOUS
<1>1. connected \cup (IF doomed THEN {} ELSE {Base, Idle}) \in SUBSET Sinks
  BY SinksAre DEF Init
<1>2. Having("taken") = {} /\ Having("refused") = {}
  BY DEF Init, Having
<1> QED
  BY <1>1, <1>2 DEF Init, Abstract!Init

\* A put is accepted by an open target, and refused by a closed one.
LEMMA AbstractPut ==
  ASSUME IInv, NEW e \in Events, NEW s \in Sinks, PutEvent(e, s)
  PROVE  Abstract!Accept(s, e) \/ Abstract!Refuse(s, e)
<1>1. /\ fate[e] = "new" /\ e \in Abstract!Fresh
      /\ UNCHANGED <<connected, doomed>>
      /\ fate \in [Events -> Fates]
  BY AbstractFresh DEF PutEvent, nestVars, IInv, TypeOK
<1>2. Refuses(s) <=> ~IsOpen(s)
  BY DEF IInv, ExitedIffDoomed, Refuses, IsOpen
<1>3. CASE Refuses(s)
  <2>1. UNCHANGED owed /\ fate' = [fate EXCEPT ![e] = "refused"]
    BY <1>3 DEF PutEvent
  <2>2. /\ Having("taken")' = Having("taken")
        /\ Having("refused")' = Having("refused") \cup {e}
    BY <1>1, <2>1 DEF Having
  <2> QED
    BY <1>1, <1>2, <1>3, <2>1, <2>2 DEF Abstract!Refuse, IsOpen
<1>4. CASE ~Refuses(s)
  <2>1. owed' = [owed EXCEPT ![s] = Append(@, e)] /\ fate' = [fate EXCEPT ![e] = "queued"]
    BY <1>4 DEF PutEvent
  <2>2. Having("taken")' = Having("taken") /\ Having("refused")' = Having("refused")
    BY <1>1, <2>1 DEF Having
  <2> QED
    BY <1>1, <1>2, <1>4, <2>1, <2>2 DEF Abstract!Accept, IsOpen
<1> QED
  BY <1>3, <1>4

\* The event that is taken is the next of its target.
LEMMA AbstractTake ==
  ASSUME IInv, NEW u \in Sinks, TakeFrom(u), UNCHANGED <<connected, doomed, sentTo>>
  PROVE  \E s \in Sinks : Abstract!Deliver(s)
<1> DEFINE e == Head(queue[u])
           s == sentTo[e]
<1>1. /\ fate \in [Events -> Fates] /\ e \in Events /\ s \in Sinks
      /\ queue[u] # <<>> /\ e = queue[u][1] /\ 1 \in DOMAIN queue[u]
  <2>1. queue[u] # <<>> /\ queue[u] \in Seq(Events)
    BY DEF IInv, TypeOK, TakeFrom
  <2>2. e \in Events /\ e = queue[u][1] /\ 1 \in DOMAIN queue[u]
    BY <2>1, TailAt
  <2> QED
    BY <2>1, <2>2 DEF IInv, TypeOK
<1>2. owed[s] # <<>> /\ Head(owed[s]) = e
  BY <1>1, TakenIsOldest DEF Oldest
<1>3. fate[e] = "queued"
  BY <1>1 DEF IInv, NothingLost
<1>4. fate' = [fate EXCEPT ![e] = "taken"] /\ owed' = [owed EXCEPT ![s] = Tail(@)]
  BY DEF TakeFrom
<1>5. Having("taken")' = Having("taken") \cup {e} /\ Having("refused")' = Having("refused")
  BY <1>1, <1>3, <1>4 DEF Having
<1>6. Abstract!Deliver(s)
  BY <1>2, <1>4, <1>5 DEF Abstract!Deliver
<1> QED
  BY <1>1, <1>6

\* A push opens a target, a pop closes one.
LEMMA AbstractNest ==
  ASSUME IInv, PushEventQueue \/ PopEventQueue
  PROVE  \E s \in Sinks : Abstract!Open(s) \/ Abstract!Close(s)
<1>1. ~doomed /\ UNCHANGED <<doomed, fate, owed>>
  BY DEF IInv, ExitedIffDoomed, PushEventQueue, PopEventQueue
<1>2. Having("taken")' = Having("taken") /\ Having("refused")' = Having("refused")
  BY <1>1 DEF Having
<1>3. CASE PushEventQueue
  <2>1. connected' = connected \cup {pushes + 1}
    BY <1>3 DEF PushEventQueue
  <2>2. pushes + 1 \in Sinks
    BY <1>3, MaxPushesAssumption DEF PushEventQueue, IInv, TypeOK, Sinks, Idle
  <2>3. Abstract!Open(pushes + 1)
    BY <1>1, <1>2, <2>1 DEF Abstract!Open
  <2> QED
    BY <2>2, <2>3
<1>4. CASE PopEventQueue
  <2>1. connected' = connected \ {Top}
    BY <1>4 DEF PopEventQueue
  <2>2. Top \in Sinks /\ Top # Idle /\ Top # Base
    <3>1. TypeOK /\ SinkQueuesAlive
      BY DEF IInv
    <3>2. Len(levels) > 1 /\ levels \in Seq(Sinks)
      BY <1>4, <3>1 DEF PopEventQueue, TypeOK
    <3>3. levels[1] < Top /\ levels[1] = Base
      <4>1. 1 \in DOMAIN levels /\ Len(levels) \in DOMAIN levels /\ 1 < Len(levels)
        BY <3>2
      <4> QED
        BY <3>1, <4>1 DEF SinkQueuesAlive, Top
    <3>4. Base \in Int
      BY SinksAre
    <3> QED
      BY <3>1, <3>3, <3>4, TopTyped, LevelsNotIdle
  <2>3. Abstract!Close(Top)
    BY <1>1, <1>2, <2>1, <2>2 DEF Abstract!Close
  <2> QED
    BY <2>2, <2>3
<1> QED
  BY <1>3, <1>4

\* When the thread leaves its loop nothing is owed.
LEMMA AbstractFinish ==
  ASSUME IInv, ShutdownIfNoPendingEvents
  PROVE  Abstract!Finish
<1>1. /\ doomed' = TRUE /\ Len(levels) = 1 /\ queue[Base] = <<>> /\ queue[Idle] = <<>>
      /\ UNCHANGED <<connected, fate, owed>>
  BY DEF ShutdownIfNoPendingEvents, nestVars
<1>2. connected = {}
  BY <1>1 DEF IInv, SinkQueuesAlive, TypeOK
<1>3. \A s \in Sinks : queue[s] = <<>>
  BY <1>1, <1>2 DEF IInv, SinkQueuesAlive
<1>4. ASSUME NEW s \in Sinks, owed[s] # <<>> PROVE FALSE
  <2>1. owed[s] \in Seq(Events)
    BY DEF IInv, TypeOK
  <2>2. 1 \in DOMAIN owed[s] /\ owed[s][1] \in Events
    BY <1>4, <2>1
  <2>3. fate[owed[s][1]] = "queued"
    BY <2>2 DEF IInv, Accounts, Owing
  <2> QED
    BY <1>3, <2>2, <2>3 DEF IInv, NothingLost
<1>5. Having("taken")' = Having("taken") /\ Having("refused")' = Having("refused")
  BY <1>1 DEF Having
<1> QED
  BY <1>1, <1>2, <1>4, <1>5 DEF Abstract!Finish

\* Every step is one of EventTarget, or changes nothing that it knows of.
LEMMA AbstractStep ==
  ASSUME IInv, [Next]_vars
  PROVE  [Abstract!Next]_(Abstract!vars)
<1>1. ASSUME UNCHANGED <<connected, doomed, fate, owed>> PROVE UNCHANGED Abstract!vars
  <2>1. Having("taken")' = Having("taken") /\ Having("refused")' = Having("refused")
    BY <1>1 DEF Having
  <2> QED
    BY <1>1, <2>1 DEF Abstract!vars
<1>2. ASSUME NEW e \in Events, NEW s \in Sinks, PutEvent(e, s) PROVE Abstract!Next
  BY <1>2, AbstractPut DEF Abstract!Next
<1>3. ASSUME NEW u \in Sinks, TakeFrom(u), UNCHANGED <<nestVars, doomed, sentTo>>
      PROVE  Abstract!Next
  BY <1>3, AbstractTake DEF nestVars, Abstract!Next
<1>4. Top \in Sinks /\ Base \in Sinks /\ Idle \in Sinks
  BY TopTyped, SinksAre DEF IInv
<1>5. CASE GetEvent \/ ReturnFromWait
  <2>1. Look /\ UNCHANGED <<nestVars, doomed, sentTo>>
    BY <1>5 DEF GetEvent, ReturnFromWait
  <2> QED
    BY <1>1, <1>3, <1>4, <2>1 DEF Look, StartWaiting, nestVars
<1>6. CASE LookAgain
  <2>1. /\ UNCHANGED <<nestVars, doomed, sentTo>>
        /\ TakeFrom(Base) \/ TakeFrom(Idle) \/ UNCHANGED <<fate, owed>>
    BY <1>6 DEF LookAgain, TakeByPriority, StartWaiting
  <2> QED
    BY <1>1, <1>3, <1>4, <2>1 DEF nestVars
<1>7. CASE HasPendingEvent \/ HasPendingEventPeeked \/ BeginShutdown
  BY <1>1, <1>7 DEF HasPendingEvent, HasPendingEventPeeked, BeginShutdown, nestVars
<1>8. CASE PushEventQueue \/ PopEventQueue
  BY <1>8, AbstractNest DEF Abstract!Next
<1>9. CASE ShutdownIfNoPendingEvents
  BY <1>9, AbstractFinish DEF Abstract!Next
<1>10. CASE UNCHANGED vars
  BY <1>1, <1>10 DEF vars, nestVars
<1> QED
  BY <1>2, <1>5, <1>6, <1>7, <1>8, <1>9, <1>10 DEF Next, OwnerStep, Terminated

\* Each sink is an event target: what it accepted is handed out in the order of the
\* puts, each event once, also what a pop moved to the queue below (PopEventQueue)
\* and what waited for idle time, and nothing is left when the thread exits.
THEOREM Implements == Spec => ImplementsEventTarget
<1>1. IInv /\ [Next]_vars => [Abstract!Next]_(Abstract!vars)
  BY AbstractStep
<1> QED
  BY <1>1, AbstractInit, Invariance, PTL DEF Spec, ImplementsEventTarget, Abstract!Spec
=============================================================================
