-------------------------- MODULE MozPromiseProofs --------------------------
(***************************************************************************)
(* What holds of MozPromise for any number of promises, of targets and of  *)
(* calls.                                                                  *)
(*                                                                         *)
(* A request is in one place at a time: in mThenValues of its promise, in  *)
(* the queue of its target, or done with; and it moves from the one to the *)
(* next in the order of the calls of Then (Lists, Queues, Line).  Each     *)
(* promise has one party that settles it (Roles): its producer, the        *)
(* promise it follows, or the holder of All, whose counter is the number   *)
(* of members that have not reported (Holder).                             *)
(***************************************************************************)
EXTENDS MozPromise, FiniteSetTheorems, TLAPS

RequestRecords ==
  [on : Promises, target : Targets, completion : Promises \cup {NoPromise}, index : Nat]

\* TypeOK, but for the outcomes: that All's is one of promises takes an induction.
Shape ==
  /\ kind \in [Promises -> Kinds]
  /\ value = [p \in Promises |-> value[p]]
  /\ thens \in [Promises -> Seq(Requests)]
  /\ chained \in [Promises -> Seq(Promises)]
  /\ locked \in SUBSET Promises
  /\ source \in [Promises -> Promises \cup {NoPromise}]
  /\ request \in Seq(RequestRecords)
  /\ Len(request) <= MaxThens
  /\ complete \in SUBSET Issued
  /\ disconnected \in SUBSET Issued
  /\ told = [r \in Requests |-> told[r]]
  /\ queue \in [Targets -> Seq(Requests \cup Promises)]
  /\ open \in SUBSET Targets
  /\ members \in Seq(Promises)
  /\ joined \in Nat
  /\ held.promise \in Promises \cup {NoPromise} /\ held.outstanding \in Nat
  /\ held = [promise |-> held.promise, values |-> held.values, outstanding |-> held.outstanding]

Outcome == \A p \in Promises : Settled(p) => value[p].how \in {"resolve", "reject"}

\* The mutex is held as long as there is somebody to tell, and nobody waits for
\* a promise that is settled.
Mutexes == \A p \in Promises : p \in locked <=> Settled(p) /\ Waits(p)

InThens(r) == \E i \in 1 .. Len(thens[request[r].on]) : thens[request[r].on][i] = r
InQueue(r) == \E i \in 1 .. Len(queue[request[r].target]) : queue[request[r].target][i] = r

\* Those that wait for p, in the order of their calls.
Lists ==
  \A p \in Promises :
    /\ \A i \in 1 .. Len(thens[p]) :
         /\ thens[p][i] \in Issued \ complete
         /\ request[thens[p][i]].on = p
         /\ ~InQueue(thens[p][i])
    /\ \A i, j \in 1 .. Len(thens[p]) : i < j => thens[p][i] < thens[p][j]

\* The runnables of t: a request was answered, and is told once, or a call is to be
\* made for a proxy.
IsAnswer(t, i) ==
  /\ queue[t][i] \in Issued \ complete
  /\ request[queue[t][i]].target = t
  /\ Settled(request[queue[t][i]].on)
IsCall(t, i) ==
  /\ queue[t][i] \in Promises
  /\ kind[queue[t][i]] = "proxy"
  /\ source[queue[t][i]] = NoPromise
Queues == \A t \in Targets : \A i \in 1 .. Len(queue[t]) : IsAnswer(t, i) \/ IsCall(t, i)
Sorted ==
  \A t \in Targets : \A i, j \in 1 .. Len(queue[t]) :
    /\ queue[t][i] = queue[t][j] => i = j
    /\ /\ i < j
       /\ queue[t][i] \in Requests /\ queue[t][j] \in Requests
       /\ request[queue[t][i]].on = request[queue[t][j]].on
       => queue[t][i] < queue[t][j]
Calls ==
  \A t, u \in Targets : \A i \in 1 .. Len(queue[t]), j \in 1 .. Len(queue[u]) :
    queue[t][i] \in Promises /\ queue[t][i] = queue[u][j] => t = u

Alike(r, s) == request[r].on = request[s].on /\ request[r].target = request[s].target
Line ==
  /\ \A r, s \in Issued : r < s /\ Alike(r, s) =>
       /\ s \in complete => r \in complete
       /\ InQueue(s) => r \in complete \/ InQueue(r)
  /\ \A r \in Issued : request[r].target \in open => r \in complete \/ InQueue(r) \/ InThens(r)

\* Who is told was called with the answer.
Truth ==
  /\ \A r \in Requests : told[r] # Pending => r \in complete /\ told[r] = value[request[r].on]
  /\ \A r \in disconnected : told[r] = Pending

\* Who settles a promise.
Follows(q) == kind[q] \in {"completion", "proxy"}
Roles ==
  /\ \A q \in Promises :
       /\ source[q] # NoPromise => Follows(q)
       /\ Follows(q) /\ source[q] = NoPromise => ~Settled(q)
       /\ kind[q] = "none" => ~Settled(q)
       /\ source[q] # NoPromise /\ Settled(q) => value[q] = value[source[q]]
  /\ \A x \in Promises : \A i \in 1 .. Len(chained[x]) : source[chained[x][i]] = x
  /\ \A r \in Issued : request[r].completion # NoPromise =>
       /\ kind[request[r].completion] = "completion"
       /\ r \notin complete => source[request[r].completion] = NoPromise
  /\ \A r, s \in Issued :
       request[r].completion = request[s].completion => r = s \/ request[r].completion = NoPromise

\* What All has asked the members, and what it knows of them.
Reported(i) == \E r \in complete : request[r].index = i
Missing == {i \in 1 .. Len(members) : ~Reported(i)}
Asked ==
  /\ \A a \in Promises : kind[a] = "all" => members # <<>>
  /\ \A a, b \in Promises : kind[a] = "all" /\ kind[b] = "all" => a = b
  /\ \A i \in 1 .. Len(members) : kind[members[i]] \notin {"none", "all"}
  /\ joined <= Len(members)
  /\ \A r \in Issued : request[r].index # 0 =>
       /\ request[r].index <= joined
       /\ request[r].on = members[request[r].index]
       /\ request[r].completion = NoPromise
       /\ r \notin disconnected
  /\ \A r, s \in Issued : request[r].index = request[s].index => r = s \/ request[r].index = 0
Holder ==
  /\ held.promise # NoPromise =>
       /\ kind[held.promise] = "all"
       /\ ~Settled(held.promise)
       /\ held.outstanding = Cardinality(Missing)
       /\ held.outstanding # 0
       /\ held.values = [i \in 1 .. Len(members) |-> held.values[i]]
       /\ \A i \in 1 .. Len(members) : Reported(i) =>
            value[members[i]].how = "resolve" /\ held.values[i] = value[members[i]].of
  /\ \A a \in Promises : kind[a] = "all" =>
       /\ ~Settled(a) => held.promise = a
       /\ value[a].how = "resolve" =>
            /\ \A i \in 1 .. Len(members) : value[members[i]].how = "resolve"
            /\ value[a].of = FlattenSeq([i \in 1 .. Len(members) |-> value[members[i]].of])
       /\ value[a].how = "reject" => \E i \in 1 .. Len(members) : value[members[i]] = value[a]

IInv ==
  /\ Shape /\ Outcome /\ Mutexes
  /\ Lists /\ Queues /\ Sorted /\ Calls /\ Line
  /\ Truth /\ Roles /\ Asked /\ Holder

-----------------------------------------------------------------------------
(* Lists and requests *)

\* A list becomes longer by one.
LEMMA Grow ==
  ASSUME NEW S, NEW T, NEW f \in [T -> Seq(S)], NEW t \in T, NEW e \in S,
         NEW g, g = [f EXCEPT ![t] = Append(@, e)]
  PROVE  /\ g \in [T -> Seq(S)]
         /\ \A u \in T : u # t => g[u] = f[u]
         /\ Len(f[t]) \in Nat /\ Len(g[t]) = Len(f[t]) + 1
         /\ \A i \in 1 .. Len(f[t]) : g[t][i] = f[t][i]
         /\ g[t][Len(f[t]) + 1] = e
OBVIOUS

\* A list becomes shorter by its first.
LEMMA Shrink ==
  ASSUME NEW S, NEW T, NEW f \in [T -> Seq(S)], NEW t \in T, f[t] # <<>>,
         NEW g, g = [f EXCEPT ![t] = Tail(@)]
  PROVE  /\ g \in [T -> Seq(S)]
         /\ \A u \in T : u # t => g[u] = f[u]
         /\ Len(f[t]) \in Nat /\ Len(g[t]) = Len(f[t]) - 1
         /\ 1 \in 1 .. Len(f[t]) /\ f[t][1] = Head(f[t]) /\ Head(f[t]) \in S
         /\ \A i \in 1 .. Len(g[t]) : i + 1 \in 1 .. Len(f[t]) /\ g[t][i] = f[t][i + 1]
<1>1. g[t] = Tail(f[t]) /\ f[t] \in Seq(S) /\ f[t] # <<>>
      OBVIOUS
<1>2. g \in [T -> Seq(S)]
      OBVIOUS
<1>3. \A u \in T : u # t => g[u] = f[u]
      OBVIOUS
<1>4. /\ Len(f[t]) \in Nat /\ Len(g[t]) = Len(f[t]) - 1
      /\ 1 \in 1 .. Len(f[t]) /\ f[t][1] = Head(f[t]) /\ Head(f[t]) \in S
      BY <1>1
<1>5. \A i \in 1 .. Len(g[t]) : i + 1 \in 1 .. Len(f[t]) /\ g[t][i] = f[t][i + 1]
      BY <1>1
<1> QED BY <1>2, <1>3, <1>4, <1>5

\* The requests that were issued, and what is known of each.
LEMMA IssuedAre ==
  ASSUME Shape
  PROVE  /\ Issued = 1 .. Len(request) /\ Len(request) \in Nat
         /\ Issued \subseteq Requests
         /\ \A r \in Issued :
              /\ request[r] \in RequestRecords
              /\ request[r].on \in Promises /\ request[r].target \in Targets
              /\ request[r].completion \in Promises \cup {NoPromise} /\ request[r].index \in Nat
<1>1. /\ Issued = 1 .. Len(request) /\ Len(request) \in Nat
      /\ Issued \subseteq Requests
      BY PromiseAssumption DEF Shape, Issued, Requests
<1>2. \A r \in Issued : request[r] \in RequestRecords
      BY <1>1 DEF Shape
<1>3. ASSUME NEW q \in RequestRecords
      PROVE  /\ q.on \in Promises /\ q.target \in Targets
             /\ q.completion \in Promises \cup {NoPromise} /\ q.index \in Nat
      BY DEF RequestRecords
<1> QED BY <1>1, <1>2, <1>3, Zenon

\* What Ask adds to the requests.
LEMMA Asks ==
  ASSUME Shape, NEW p \in Promises, NEW t \in Targets,
         NEW c \in Promises \cup {NoPromise}, NEW k \in Nat, Ask(p, t, c, k),
         NEW n, n = Len(request) + 1
  PROVE  /\ n \in Requests /\ n \notin Issued
         /\ Issued' = Issued \cup {n}
         /\ \A r \in Issued : r < n /\ request'[r] = request[r]
         /\ request'[n] = [on |-> p, target |-> t, completion |-> c, index |-> k]
         /\ request' \in Seq(RequestRecords) /\ Len(request') <= MaxThens
<1> DEFINE new == [on |-> p, target |-> t, completion |-> c, index |-> k]
<1>1. new \in RequestRecords
      BY DEF RequestRecords
<1>2. request' = Append(request, new) /\ Len(request) < MaxThens
      BY DEF Ask
<1> HIDE DEF new
<1>3. request \in Seq(RequestRecords) /\ Len(request) \in Nat
      BY DEF Shape
<1>4. /\ request' \in Seq(RequestRecords) /\ Len(request') = n
      /\ \A r \in 1 .. Len(request) : request'[r] = request[r]
      /\ request'[n] = new
      BY <1>1, <1>2, <1>3
<1>5. DOMAIN request' = 1 .. n /\ DOMAIN request = 1 .. Len(request)
      BY <1>3, <1>4
<1> QED BY <1>2, <1>3, <1>4, <1>5, PromiseAssumption DEF Issued, Requests, new

\* Nothing that is issued, settled or made is ever taken back.
Lasting ==
  /\ \A p \in Promises : Settled(p) => value'[p] = value[p]
  /\ \A p \in Promises : kind[p] # "none" => kind'[p] = kind[p]
  /\ Issued \subseteq Issued'
  /\ \A r \in Issued : request'[r] = request[r]
  /\ complete \subseteq complete'

\* A settled promise stays settled.
LEMMA StaysSettled ==
  ASSUME Lasting, NEW p \in Promises, Settled(p)
  PROVE  Settled(p)'
BY DEF Lasting, Settled, Pending

\* Settle does what it says to a promise that is not settled.
LEMMA Settles ==
  ASSUME Shape, NEW p \in Promises, ~Settled(p), NEW o, o.how \in {"resolve", "reject"},
         Settle(p, o)
  PROVE  /\ value'[p] = o /\ Settled(p)'
         /\ \A q \in Promises : q # p => value'[q] = value[q]
         /\ value' = [q \in Promises |-> value'[q]]
         /\ locked' = IF Waits(p) THEN locked \cup {p} ELSE locked
<1>1. value' = [value EXCEPT ![p] = o] /\ locked' = IF Waits(p) THEN locked \cup {p} ELSE locked
      BY Zenon DEF Settle, Accepts
<1>2. value = [q \in Promises |-> value[q]]
      BY Zenon DEF Shape
<1>3. /\ value'[p] = o
      /\ \A q \in Promises : q # p => value'[q] = value[q]
      /\ value' = [q \in Promises |-> value'[q]]
      BY <1>1, <1>2
<1>4. Settled(p)'
      BY <1>3 DEF Settled, Pending
<1> QED BY <1>1, <1>3, <1>4

\* A promise that is settled ignores another answer.
LEMMA NotSettledAgain ==
  ASSUME NEW p \in Promises, Settled(p), NEW o, Settle(p, o)
  PROVE  value' = value /\ locked' = locked
BY Zenon DEF Settle, Accepts

-----------------------------------------------------------------------------
(* Where the requests are *)

Places == Lists /\ Queues /\ Sorted /\ Calls /\ Line
\* A request in a queue is an answer, a promise in it the call of a proxy.
LEMMA QueueElements ==
  ASSUME Shape, Places, NEW t \in Targets, NEW i \in 1 .. Len(queue[t])
  PROVE  /\ queue[t][i] \in Requests => IsAnswer(t, i) /\ queue[t][i] \in Issued
         /\ queue[t][i] \in Promises => IsCall(t, i)
         /\ queue[t][i] \in Requests \cup Promises
<1>1. IsAnswer(t, i) \/ IsCall(t, i)
      BY DEF Places, Queues
<1>2. IsAnswer(t, i) => queue[t][i] \in Issued
      BY DEF IsAnswer
<1>3. IsCall(t, i) => queue[t][i] \in Promises
      BY DEF IsCall
<1>4. \A r \in Requests : r \notin Promises
      BY PromiseAssumption DEF Requests, Promises
<1> QED BY <1>1, <1>2, <1>3, <1>4, IssuedAre, Zenon

\* What stays where it is remains what it is.
LEMMA Elsewhere ==
  ASSUME Shape, Places, Lasting, NEW t \in Targets, NEW i \in 1 .. Len(queue[t]),
         NEW k, queue'[t][k] = queue[t][i], queue[t][i] \notin complete' \ complete,
         \A q \in Promises : kind[q] = "proxy" /\ q = queue[t][i] => source'[q] = source[q]
  PROVE  /\ IsAnswer(t, k)' \/ IsCall(t, k)'
         /\ queue[t][i] \in Requests =>
              /\ request'[queue[t][i]] = request[queue[t][i]]
              /\ queue[t][i] \in Issued
<1>1. CASE IsAnswer(t, i)
  <2>0. PICK r : r = queue[t][i]
        OBVIOUS
  <2>1. r \in Issued \ complete /\ request[r].target = t /\ Settled(request[r].on)
        BY <1>1, <2>0 DEF IsAnswer
  <2>2. r \in Issued' /\ request'[r] = request[r] /\ request[r].on \in Promises
        BY <2>1, IssuedAre, Zenon DEF Lasting
  <2>3. PICK p \in Promises : p = request[r].on
        BY <2>2
  <2>4. Settled(p)' /\ request'[r].on = p
        BY <2>1, <2>2, <2>3, StaysSettled
  <2>5. queue'[t][k] = r /\ r \notin complete'
        BY <2>0, <2>1
  <2>6. IsAnswer(t, k)'
        BY <2>1, <2>2, <2>4, <2>5 DEF IsAnswer, Settled
  <2> QED BY <2>0, <2>1, <2>2, <2>6
<1>2. CASE IsCall(t, i)
  <2>1. queue[t][i] \in Promises /\ kind[queue[t][i]] = "proxy" /\ source[queue[t][i]] = NoPromise
        BY <1>2, Zenon DEF IsCall
  <2>2. kind'[queue[t][i]] = "proxy"
        BY <2>1 DEF Lasting
  <2>3. IsCall(t, k)'
        BY <2>1, <2>2 DEF IsCall
  <2>4. queue[t][i] \notin Requests
        BY <2>1, PromiseAssumption DEF Requests, Promises
  <2> QED BY <2>3, <2>4
<1> QED BY <1>1, <1>2, Zenon DEF Places, Queues

\* A target is given a runnable.
LEMMA QueueGrows ==
  ASSUME Shape, Places, Lasting, NEW t \in Targets, NEW e \in Requests \cup Promises,
         NEW n, n = Len(queue[t]) + 1,
         queue' = [queue EXCEPT ![t] = Append(@, e)],
         complete' = complete,
         \A q \in Promises : kind[q] = "proxy" => source'[q] = source[q],
         \A u \in Targets : \A i \in 1 .. Len(queue[u]) : queue[u][i] # e,
         IsAnswer(t, n)' \/ IsCall(t, n)',
         e \in Requests => \A i \in 1 .. Len(queue[t]) :
           queue[t][i] \in Requests /\ request[queue[t][i]].on = request'[e].on
             => queue[t][i] < e
  PROVE  /\ Queues' /\ Sorted' /\ Calls'
         /\ \A r \in Issued : InQueue(r)' <=> InQueue(r) \/ r = e
         /\ e \in Requests => e \in Issued' /\ InQueue(e)'
<1>1. queue \in [Targets -> Seq(Requests \cup Promises)]
      BY Zenon DEF Shape
<1>2. /\ Len(queue[t]) \in Nat /\ Len(queue'[t]) = n
      /\ \A i \in 1 .. Len(queue[t]) : queue'[t][i] = queue[t][i]
      /\ queue'[t][n] = e
      /\ \A u \in Targets : u # t => queue'[u] = queue[u]
      BY <1>1, Grow
<1>3. \A i \in 1 .. Len(queue'[t]) : i = n \/ i \in 1 .. Len(queue[t])
      BY <1>2
<1>4. n \in 1 .. Len(queue'[t]) /\ \A i \in 1 .. Len(queue[t]) : i \in 1 .. Len(queue'[t]) /\ i < n
      BY <1>2
<1>5. ASSUME NEW u \in Targets, NEW i \in 1 .. Len(queue'[u])
      PROVE  \/ u = t /\ i = n
             \/ i \in 1 .. Len(queue[u]) /\ queue'[u][i] = queue[u][i]
      BY <1>2, <1>3, Zenon
<1>6. Queues'
  <2> SUFFICES ASSUME NEW u \in Targets, NEW i \in 1 .. Len(queue'[u])
               PROVE  (IsAnswer(u, i) \/ IsCall(u, i))'
      BY Zenon DEF Queues
  <2>1. CASE u = t /\ i = n
        BY <2>1
  <2>2. CASE i \in 1 .. Len(queue[u]) /\ queue'[u][i] = queue[u][i]
        BY <2>2, Elsewhere
  <2> QED BY <1>5, <2>1, <2>2, Zenon
<1>7. ASSUME NEW u \in Targets, NEW i \in 1 .. Len(queue[u]), queue[u][i] \in Requests
      PROVE  request'[queue[u][i]] = request[queue[u][i]]
      BY <1>7, QueueElements DEF Lasting
<1>8. Sorted'
  <2> SUFFICES ASSUME NEW u \in Targets, NEW i \in 1 .. Len(queue'[u]),
                      NEW j \in 1 .. Len(queue'[u])
               PROVE  /\ queue'[u][i] = queue'[u][j] => i = j
                      /\ /\ i < j
                         /\ queue'[u][i] \in Requests /\ queue'[u][j] \in Requests
                         /\ request'[queue'[u][i]].on = request'[queue'[u][j]].on
                         => queue'[u][i] < queue'[u][j]
      BY Zenon DEF Sorted
  <2>1. CASE /\ i \in 1 .. Len(queue[u]) /\ queue'[u][i] = queue[u][i]
             /\ j \in 1 .. Len(queue[u]) /\ queue'[u][j] = queue[u][j]
    <3>1. /\ queue[u][i] = queue[u][j] => i = j
          /\ /\ i < j
             /\ queue[u][i] \in Requests /\ queue[u][j] \in Requests
             /\ request[queue[u][i]].on = request[queue[u][j]].on
             => queue[u][i] < queue[u][j]
          BY <2>1, Zenon DEF Places, Sorted
    <3>2. /\ queue[u][i] \in Requests => request'[queue[u][i]] = request[queue[u][i]]
          /\ queue[u][j] \in Requests => request'[queue[u][j]] = request[queue[u][j]]
          BY <1>7, <2>1, Zenon
    <3> QED BY <2>1, <3>1, <3>2
  <2>2. CASE u = t /\ i = n /\ j = n
        BY <2>2, <1>2
  <2>3. CASE u = t /\ i = n /\ j \in 1 .. Len(queue[u]) /\ queue'[u][j] = queue[u][j]
    <3>1. queue'[u][i] # queue'[u][j]
          BY <2>3, <1>2, Zenon
    <3>2. ~(i < j)
          BY <2>3, <1>2
    <3> QED BY <3>1, <3>2, Zenon
  <2>4. CASE u = t /\ j = n /\ i \in 1 .. Len(queue[u]) /\ queue'[u][i] = queue[u][i]
        BY <2>4, <1>2, <1>7
  <2> QED BY <1>5, <2>1, <2>2, <2>3, <2>4, Zenon
<1>9. Calls'
  <2> SUFFICES ASSUME NEW u \in Targets, NEW v \in Targets,
                      NEW i \in 1 .. Len(queue'[u]), NEW j \in 1 .. Len(queue'[v]),
                      queue'[u][i] \in Promises, queue'[u][i] = queue'[v][j]
               PROVE  u = v
      BY Zenon DEF Calls
  <2>1. CASE u = t /\ i = n
        BY <1>2, <1>5, <2>1
  <2>2. CASE v = t /\ j = n
        BY <1>2, <1>5, <2>2
  <2>3. CASE /\ i \in 1 .. Len(queue[u]) /\ queue'[u][i] = queue[u][i]
             /\ j \in 1 .. Len(queue[v]) /\ queue'[v][j] = queue[v][j]
        BY <2>3, Zenon DEF Places, Calls
  <2> QED BY <1>5, <2>1, <2>2, <2>3, Zenon
<1>10. e \in Requests => e \in Issued' /\ request'[e].target = t
  <2>1. IsCall(t, n)' => e \in Promises
        BY <1>2 DEF IsCall
  <2>2. IsAnswer(t, n)' => e \in Issued' /\ request'[e].target = t
        BY <1>2 DEF IsAnswer
  <2>3. e \in Requests => e \notin Promises
        BY PromiseAssumption DEF Requests, Promises
  <2> QED BY <2>1, <2>2, <2>3, Zenon
<1>11. ASSUME NEW r \in Issued
       PROVE  InQueue(r)' <=> InQueue(r) \/ r = e
  <2> DEFINE u == request[r].target
  <2>1. request'[r].target = u /\ u \in Targets /\ r \in Requests
        BY IssuedAre, Zenon DEF Lasting
  <2>2. InQueue(r)' <=> \E i \in 1 .. Len(queue'[u]) : queue'[u][i] = r
        BY <2>1, Zenon DEF InQueue
  <2>3. InQueue(r) <=> \E i \in 1 .. Len(queue[u]) : queue[u][i] = r
        BY Zenon DEF InQueue
  <2> HIDE DEF u
  <2>4. r = e => u = t
        BY <1>10, <2>1, Zenon
  <2>5. InQueue(r)' => InQueue(r) \/ r = e
        BY <1>2, <1>5, <2>1, <2>2, <2>3, Zenon
  <2>6. r = e => InQueue(r)'
        BY <1>2, <1>4, <2>2, <2>4, Zenon
  <2>7. InQueue(r) => InQueue(r)'
        BY <1>2, <1>4, <2>1, <2>2, <2>3, Zenon
  <2> QED BY <2>5, <2>6, <2>7
<1>12. e \in Requests => InQueue(e)'
  <2>1. e \in Requests => request'[e].target = t
        BY <1>10
  <2> QED BY <1>2, <1>4, <2>1, Zenon DEF InQueue
<1> QED BY <1>6, <1>8, <1>9, <1>10, <1>11, <1>12, Zenon

\* A target runs its first runnable.
LEMMA QueueShrinks ==
  ASSUME Shape, Places, Lasting, NEW t \in Targets, NEW e \in Requests \cup Promises,
         RunsNext(t, e), thens' = thens, request' = request, open' = open,
         complete' = IF e \in Requests THEN complete \cup {e} ELSE complete,
         \A q \in Promises : kind[q] = "proxy" /\ q # e => source'[q] = source[q]
  PROVE  Places'
<1>1. queue \in [Targets -> Seq(Requests \cup Promises)]
      BY Zenon DEF Shape
<1>2. queue[t] # <<>> /\ queue' = [queue EXCEPT ![t] = Tail(@)]
      BY Zenon DEF RunsNext
<1>3. /\ Len(queue[t]) \in Nat /\ Len(queue'[t]) = Len(queue[t]) - 1
      /\ 1 \in 1 .. Len(queue[t]) /\ queue[t][1] = e
      /\ \A i \in 1 .. Len(queue'[t]) :
           i + 1 \in 1 .. Len(queue[t]) /\ queue'[t][i] = queue[t][i + 1]
      /\ \A u \in Targets : u # t => queue'[u] = queue[u]
  <2>1. Head(queue[t]) = e
        BY Zenon DEF RunsNext
  <2> QED BY <1>1, <1>2, <2>1, Shrink
<1>4. \A r \in Requests : r \notin Promises
      BY PromiseAssumption DEF Requests, Promises
<1>5. Issued' = Issued
      BY Zenon DEF Issued
\* The runnables that are left are not e.
<1>6. ASSUME NEW u \in Targets, NEW i \in 1 .. Len(queue'[u])
      PROVE  \E k \in 1 .. Len(queue[u]) :
               queue'[u][i] = queue[u][k] /\ queue[u][k] # e /\ (u = t => k = i + 1)
  <2>1. CASE u = t
    <3>1. i + 1 \in 1 .. Len(queue[t]) /\ queue'[t][i] = queue[t][i + 1] /\ i + 1 # 1
          BY <1>3, <2>1
    <3>2. queue[t][i + 1] # e
          BY <1>3, <3>1, Zenon DEF Places, Sorted
    <3> QED BY <2>1, <3>1, <3>2, Zenon
  <2>2. CASE u # t
    <3>1. i \in 1 .. Len(queue[u]) /\ queue'[u][i] = queue[u][i]
          BY <1>3, <2>2, Zenon
    <3>2. queue[u][i] # e
      <4>1. CASE queue[u][i] \in Promises
            BY <1>3, <2>2, <3>1, <4>1, Zenon DEF Places, Calls
      <4>2. CASE queue[u][i] \in Requests
        <5>1. request[queue[u][i]].target = u
              BY <3>1, <4>2, QueueElements DEF IsAnswer
        <5>2. e \in Requests => request[e].target = t
              BY <1>3, QueueElements DEF IsAnswer
        <5> QED BY <2>2, <4>2, <5>1, <5>2, Zenon
      <4> QED BY <3>1, <4>1, <4>2, QueueElements, Zenon
    <3> QED BY <2>2, <3>1, <3>2, Zenon
  <2> QED BY <2>1, <2>2
<1>7. complete \subseteq complete' /\ complete' \ complete \subseteq {e}
      BY Zenon
<1>8. Queues'
  <2> SUFFICES ASSUME NEW u \in Targets, NEW i \in 1 .. Len(queue'[u])
               PROVE  (IsAnswer(u, i) \/ IsCall(u, i))'
      BY Zenon DEF Queues
  <2>1. PICK k \in 1 .. Len(queue[u]) : queue'[u][i] = queue[u][k] /\ queue[u][k] # e
        BY <1>6, Zenon
  <2>2. queue[u][k] \notin complete' \ complete
        BY <1>7, <2>1, Zenon
  <2>3. \A q \in Promises : kind[q] = "proxy" /\ q = queue[u][k] => source'[q] = source[q]
        BY <2>1, Zenon
  <2> QED BY <2>1, <2>2, <2>3, Elsewhere
<1>9. Sorted'
  <2> SUFFICES ASSUME NEW u \in Targets, NEW i \in 1 .. Len(queue'[u]),
                      NEW j \in 1 .. Len(queue'[u])
               PROVE  /\ queue'[u][i] = queue'[u][j] => i = j
                      /\ /\ i < j
                         /\ queue'[u][i] \in Requests /\ queue'[u][j] \in Requests
                         /\ request'[queue'[u][i]].on = request'[queue'[u][j]].on
                         => queue'[u][i] < queue'[u][j]
      BY Zenon DEF Sorted
  <2>1. CASE u # t
        BY <1>3, <2>1 DEF Places, Sorted
  <2>2. CASE u = t
    <3>1. /\ i + 1 \in 1 .. Len(queue[t]) /\ queue'[t][i] = queue[t][i + 1]
          /\ j + 1 \in 1 .. Len(queue[t]) /\ queue'[t][j] = queue[t][j + 1]
          BY <1>3, <2>2
    <3>2. i \in Int /\ j \in Int /\ (i + 1 = j + 1 => i = j) /\ (i < j => i + 1 < j + 1)
          OBVIOUS
    <3> QED BY <2>2, <3>1, <3>2 DEF Places, Sorted
  <2> QED BY <2>1, <2>2
<1>10. Calls'
  <2> SUFFICES ASSUME NEW u \in Targets, NEW v \in Targets,
                      NEW i \in 1 .. Len(queue'[u]), NEW j \in 1 .. Len(queue'[v]),
                      queue'[u][i] \in Promises, queue'[u][i] = queue'[v][j]
               PROVE  u = v
      BY Zenon DEF Calls
  <2>1. PICK k \in 1 .. Len(queue[u]) : queue'[u][i] = queue[u][k]
        BY <1>6, Zenon
  <2>2. PICK l \in 1 .. Len(queue[v]) : queue'[v][j] = queue[v][l]
        BY <1>6, Zenon
  <2>3. queue[u][k] \in Promises /\ queue[u][k] = queue[v][l]
        BY <2>1, <2>2
  <2> QED BY <2>3, Zenon DEF Places, Calls
<1>11. ASSUME NEW r \in Issued
       PROVE  /\ InQueue(r)' => InQueue(r) /\ r # e
              /\ InQueue(r) /\ r # e => InQueue(r)'
  <2> DEFINE u == request[r].target
  <2>1. u \in Targets
        BY IssuedAre, Zenon
  <2>2. InQueue(r)' <=> \E i \in 1 .. Len(queue'[u]) : queue'[u][i] = r
        BY Zenon DEF InQueue
  <2>3. InQueue(r) <=> \E i \in 1 .. Len(queue[u]) : queue[u][i] = r
        BY Zenon DEF InQueue
  <2> HIDE DEF u
  <2>4. InQueue(r)' => InQueue(r) /\ r # e
        BY <1>6, <2>1, <2>2, <2>3, Zenon
  <2>5. ASSUME NEW i \in 1 .. Len(queue[u]), queue[u][i] = r, r # e
        PROVE  \E k \in 1 .. Len(queue'[u]) : queue'[u][k] = r
    <3>1. CASE u # t
          BY <1>3, <2>1, <2>5, <3>1, Zenon
    <3>2. CASE u = t
      <4>1. i - 1 \in 1 .. Len(queue'[t]) /\ (i - 1) + 1 = i
            BY <1>3, <2>5, <3>2
      <4>2. queue'[t][i - 1] = queue[t][i]
            BY <1>3, <4>1
      <4> QED BY <2>5, <3>2, <4>1, <4>2, Zenon
    <3> QED BY <3>1, <3>2
  <2> QED BY <2>2, <2>3, <2>4, <2>5, Zenon
<1>12. e \in Requests => e \in Issued /\ InQueue(e)
  <2>1. e \in Requests => IsAnswer(t, 1) /\ e \in Issued
        BY <1>3, QueueElements
  <2>2. e \in Requests => request[e].target = t
        BY <1>3, <2>1, Zenon DEF IsAnswer
  <2> QED BY <1>3, <2>1, <2>2, Zenon DEF InQueue
<1>13. Lists'
  <2> SUFFICES ASSUME NEW p \in Promises, NEW i \in 1 .. Len(thens[p])
               PROVE  thens[p][i] \notin complete' /\ ~InQueue(thens[p][i])'
      BY <1>5, Zenon DEF Places, Lists
  <2>1. thens[p][i] \in Issued \ complete /\ ~InQueue(thens[p][i])
        BY Zenon DEF Places, Lists
  <2>2. thens[p][i] # e
        BY <1>12, <2>1, IssuedAre, Zenon
  <2> QED BY <1>7, <1>11, <2>1, <2>2, Zenon
<1>14. Line'
  <2>1. ASSUME NEW r \in Issued, NEW s \in Issued, r < s, Alike(r, s)
        PROVE  /\ s \in complete' => r \in complete'
               /\ InQueue(s)' => r \in complete' \/ InQueue(r)'
    <3>1. s \in complete \/ InQueue(s) => r \in complete \/ InQueue(r)
          BY <2>1, Zenon DEF Places, Line
    <3>2. r \in Requests /\ s \in Requests /\ r \in Int /\ s \in Int
          BY IssuedAre DEF Requests
    \* e comes before those that were asked for after it.
    <3>3. s = e => ~InQueue(r)
      <4> SUFFICES ASSUME s = e, InQueue(r)
                   PROVE  FALSE
          OBVIOUS
      <4>1. request[s].target = t
            BY <1>3, <3>2, QueueElements DEF IsAnswer
      <4>2. request[r].target = t /\ request[r].on = request[s].on
            BY <2>1, <4>1, Zenon DEF Alike
      <4>3. PICK i \in 1 .. Len(queue[t]) : queue[t][i] = r
            BY <4>2, Zenon DEF InQueue
      <4>4. i # 1
            BY <1>3, <2>1, <3>2, <4>3
      <4>5. 1 < i
            BY <1>3, <4>3, <4>4
      <4>6. e < r
            BY <1>3, <3>2, <4>2, <4>3, <4>5 DEF Places, Sorted
      <4> QED BY <2>1, <3>2, <4>6
    <3>4. s \in complete' => s \in complete \/ s = e
          BY <1>7, Zenon
    <3>5. r = e => r \in complete'
          BY <3>2, Zenon
    <3>6. InQueue(s)' => InQueue(s)
          BY <1>11, Zenon
    <3>7. InQueue(r) => InQueue(r)' \/ r = e
          BY <1>11, Zenon
    <3>8. s \in complete => r \in complete
          BY <2>1, Zenon DEF Places, Line
    <3>9. s = e => r \in complete
          BY <1>12, <3>1, <3>2, <3>3, Zenon
    <3> QED BY <1>7, <3>1, <3>4, <3>5, <3>6, <3>7, <3>8, <3>9, Zenon
  <2>2. ASSUME NEW r \in Issued, request[r].target \in open
        PROVE  r \in complete' \/ InQueue(r)' \/ InThens(r)'
    <3>1. r \in complete \/ InQueue(r) \/ InThens(r)
          BY <2>2, Zenon DEF Places, Line
    <3>2. InThens(r)' <=> InThens(r)
          BY Zenon DEF InThens
    <3>3. r = e => r \in complete'
          BY IssuedAre, Zenon
    <3> QED BY <1>7, <1>11, <3>1, <3>2, <3>3, Zenon
  <2>3. \A r, s \in Issued : Alike(r, s)' <=> Alike(r, s)
        BY Zenon DEF Alike
  <2> QED BY <1>5, <2>1, <2>2, <2>3, Zenon DEF Line
<1> QED BY <1>8, <1>9, <1>10, <1>13, <1>14, Zenon DEF Places

\* The queues stay in order when only the promises change.
LEMMA QueuesStay ==
  ASSUME Shape, Places, Lasting, queue' = queue, complete' = complete,
         \A q \in Promises : kind[q] = "proxy" => source'[q] = source[q]
  PROVE  /\ Queues' /\ Sorted' /\ Calls'
         /\ \A r \in Issued : InQueue(r)' <=> InQueue(r)
<1>1. Queues'
  <2> SUFFICES ASSUME NEW t \in Targets, NEW i \in 1 .. Len(queue[t])
               PROVE  IsAnswer(t, i)' \/ IsCall(t, i)'
      BY Zenon DEF Queues
  <2>1. queue'[t][i] = queue[t][i] /\ queue[t][i] \notin complete' \ complete
        OBVIOUS
  <2>2. \A q \in Promises : kind[q] = "proxy" /\ q = queue[t][i] => source'[q] = source[q]
        OBVIOUS
  <2> QED BY <2>1, <2>2, Elsewhere
<1>2. ASSUME NEW t \in Targets, NEW i \in 1 .. Len(queue[t]), queue[t][i] \in Requests
      PROVE  request'[queue[t][i]] = request[queue[t][i]]
      BY <1>2, QueueElements DEF Lasting
<1>3. Sorted'
  <2> SUFFICES ASSUME NEW t \in Targets, NEW i \in 1 .. Len(queue'[t]),
                      NEW j \in 1 .. Len(queue'[t])
               PROVE  /\ queue'[t][i] = queue'[t][j] => i = j
                      /\ /\ i < j
                         /\ queue'[t][i] \in Requests /\ queue'[t][j] \in Requests
                         /\ request'[queue'[t][i]].on = request'[queue'[t][j]].on
                         => queue'[t][i] < queue'[t][j]
      BY Zenon DEF Sorted
  <2> QED BY <1>2 DEF Places, Sorted
<1>4. Calls'
      BY Zenon DEF Places, Calls
<1>5. \A r \in Issued : InQueue(r)' <=> InQueue(r)
  <2>1. \A r \in Issued : request'[r] = request[r]
        BY Zenon DEF Lasting
  <2> QED BY <2>1, Zenon DEF InQueue
<1> QED BY <1>1, <1>3, <1>4, <1>5

\* Nobody is overtaken when nobody moves.
LEMMA LineKept ==
  ASSUME Shape, Places, UNCHANGED <<thens, request, complete>>, open' \subseteq open,
         \A r \in Issued : InQueue(r)' <=> InQueue(r)
  PROVE  Lists' /\ Line'
<1>1. Issued' = Issued
      BY Zenon DEF Issued
<1>2. Lists'
  <2>1. ASSUME NEW p \in Promises, NEW i \in 1 .. Len(thens[p])
        PROVE  ~InQueue(thens[p][i])'
    <3>1. PICK s : s = thens[p][i]
          OBVIOUS
    <3>2. s \in Issued /\ ~InQueue(s)
          BY <3>1, Zenon DEF Places, Lists
    <3>3. ~InQueue(s)'
          BY <3>2, Zenon
    <3> QED BY <3>1, <3>3
  <2> QED BY <1>1, <2>1, Zenon DEF Places, Lists
<1>3. \A r : InThens(r)' <=> InThens(r)
      BY Zenon DEF InThens
<1>4. Line'
      BY <1>1, <1>3, Zenon DEF Places, Line, Alike
<1> QED BY <1>2, <1>4

\* The steps that move no request.
LEMMA NothingMoved ==
  ASSUME Shape, Places, Lasting,
         UNCHANGED <<thens, queue, request, complete>>, open' \subseteq open,
         \A q \in Promises : kind[q] = "proxy" => source'[q] = source[q]
  PROVE  Places'
<1>1. /\ Queues' /\ Sorted' /\ Calls'
      /\ \A r \in Issued : InQueue(r)' <=> InQueue(r)
      BY QueuesStay, Zenon
<1>2. Lists' /\ Line'
      BY <1>1, LineKept, Zenon
<1> QED BY <1>1, <1>2, Zenon DEF Places
-----------------------------------------------------------------------------
(* What a step has no part in *)

\* Somebody waits for a promise if either of its lists has a length.
LEMMA WaitsIs ==
  ASSUME Shape, NEW p \in Promises
  PROVE  /\ Len(thens[p]) \in Nat /\ Len(chained[p]) \in Nat
         /\ Waits(p) <=> Len(thens[p]) + Len(chained[p]) # 0
         /\ thens[p] = <<>> <=> Len(thens[p]) = 0
         /\ chained[p] = <<>> <=> Len(chained[p]) = 0
<1>1. thens[p] \in Seq(Requests) /\ chained[p] \in Seq(Promises)
      BY DEF Shape
<1>2. /\ Len(thens[p]) \in Nat /\ Len(chained[p]) \in Nat
      /\ thens[p] = <<>> <=> Len(thens[p]) = 0
      /\ chained[p] = <<>> <=> Len(chained[p]) = 0
      BY <1>1
<1>3. Waits(p) <=> Len(thens[p]) # 0 \/ Len(chained[p]) # 0
      BY <1>2, Zenon DEF Waits
<1>4. \A m, n \in Nat : m # 0 \/ n # 0 <=> m + n # 0
      OBVIOUS
<1> QED BY <1>2, <1>3, <1>4, Zenon

\* A promise that was resolved or rejected is settled.
LEMMA HowSettled ==
  ASSUME Outcome, NEW p \in Promises
  PROVE  /\ Settled(p) => value[p].how \in {"resolve", "reject"}
         /\ value[p].how = "resolve" => Settled(p)
         /\ value[p].how = "reject" => Settled(p)
BY DEF Outcome, Settled, Pending

\* What was told stays the answer.
LEMMA TruthKept ==
  ASSUME Shape, Truth, Lasting, told' = told, disconnected' = disconnected
  PROVE  Truth'
<1>1. ASSUME NEW r \in Requests, told[r] # Pending
      PROVE  r \in complete' /\ told[r] = value'[request'[r].on]
  <2>1. r \in complete /\ told[r] = value[request[r].on] /\ r \in Issued
        BY <1>1 DEF Truth, Shape
  <2>2. request'[r] = request[r] /\ request[r].on \in Promises /\ r \in complete'
        BY <2>1, IssuedAre DEF Lasting
  <2>3. Settled(request[r].on)
        BY <1>1, <2>1, Zenon DEF Settled
  <2> QED BY <2>1, <2>2, <2>3 DEF Lasting
<1> QED BY <1>1, Zenon DEF Truth, Pending

\* A member reports when its request is completed, and at no other time.
LEMMA ReportsKept ==
  ASSUME Shape, Lasting, complete' = complete, NEW i
  PROVE  Reported(i)' <=> Reported(i)
<1>1. \A r \in complete : request'[r] = request[r]
      BY DEF Shape, Lasting
<1> QED BY <1>1, Zenon DEF Reported

\* Promises change, and All has asked what it had.
LEMMA AskedKept ==
  ASSUME Shape, Asked, Lasting, \A a \in Promises : kind'[a] = "all" <=> kind[a] = "all",
         UNCHANGED <<members, joined, request, disconnected>>
  PROVE  Asked'
<1>1. Issued' = Issued
      BY Zenon DEF Issued
<1>2. ASSUME NEW i \in 1 .. Len(members)
      PROVE  kind'[members[i]] \notin {"none", "all"}
  <2>1. members[i] \in Promises
        BY DEF Shape
  <2> QED BY <2>1, Zenon DEF Asked, Lasting
<1>3. \A a \in Promises : kind'[a] = "all" => members # <<>>
      BY Zenon DEF Asked
<1>4. \A a, b \in Promises : kind'[a] = "all" /\ kind'[b] = "all" => a = b
      BY Zenon DEF Asked
<1> QED BY <1>1, <1>2, <1>3, <1>4, Zenon DEF Asked

\* The holder has what it had as long as no member reports.
LEMMA HolderKept ==
  ASSUME Shape, Outcome, Asked, Holder, Lasting,
         \A a \in Promises : kind'[a] = "all" <=> kind[a] = "all",
         \A a \in Promises : kind[a] = "all" => value'[a] = value[a],
         \A i \in 1 .. Len(members) : Reported(i)' <=> Reported(i),
         UNCHANGED <<members, held>>
  PROVE  Holder'
<1>1. Missing' = Missing
      BY Zenon DEF Missing
<1>2. \A i \in 1 .. Len(members) : members[i] \in Promises
      BY DEF Shape
<1>3. ASSUME NEW i \in 1 .. Len(members), value[members[i]].how \in {"resolve", "reject"}
      PROVE  value'[members[i]] = value[members[i]]
      BY <1>2, <1>3, HowSettled DEF Lasting
<1>4. ASSUME held.promise # NoPromise
      PROVE  /\ kind'[held.promise] = "all"
             /\ ~Settled(held.promise)'
             /\ held.outstanding = Cardinality(Missing')
             /\ held.outstanding # 0
             /\ held.values = [i \in 1 .. Len(members) |-> held.values[i]]
             /\ \A i \in 1 .. Len(members) : Reported(i)' =>
                  value'[members[i]].how = "resolve" /\ held.values[i] = value'[members[i]].of
  <2>1. /\ kind[held.promise] = "all" /\ ~Settled(held.promise)
        /\ held.outstanding = Cardinality(Missing) /\ held.outstanding # 0
        /\ held.values = [i \in 1 .. Len(members) |-> held.values[i]]
        /\ \A i \in 1 .. Len(members) : Reported(i) =>
             value[members[i]].how = "resolve" /\ held.values[i] = value[members[i]].of
        BY <1>4, Zenon DEF Holder
  <2>2. held.promise \in Promises
        BY <1>4 DEF Shape
  <2>3. kind'[held.promise] = "all" /\ ~Settled(held.promise)'
        BY <2>1, <2>2 DEF Settled, Pending
  <2>4. \A i \in 1 .. Len(members) : Reported(i)' =>
          value'[members[i]].how = "resolve" /\ held.values[i] = value'[members[i]].of
        BY <1>3, <2>1
  <2> QED BY <1>1, <2>1, <2>3, <2>4, Zenon
<1>5. ASSUME NEW a \in Promises, kind'[a] = "all"
      PROVE  /\ ~Settled(a)' => held.promise = a
             /\ value'[a].how = "resolve" =>
                  /\ \A i \in 1 .. Len(members) : value'[members[i]].how = "resolve"
                  /\ value'[a].of = FlattenSeq([i \in 1 .. Len(members) |-> value'[members[i]].of])
             /\ value'[a].how = "reject" => \E i \in 1 .. Len(members) : value'[members[i]] = value'[a]
  <2>1. kind[a] = "all" /\ value'[a] = value[a]
        BY <1>5, Zenon
  <2>2. ~Settled(a)' => held.promise = a
        BY <2>1, Zenon DEF Holder, Settled, Pending
  <2>3. ASSUME value'[a].how = "resolve"
        PROVE  /\ \A i \in 1 .. Len(members) : value'[members[i]].how = "resolve"
               /\ value'[a].of = FlattenSeq([i \in 1 .. Len(members) |-> value'[members[i]].of])
    <3>0. value[a].how = "resolve"
          BY <2>1, <2>3
    <3>1. /\ \A i \in 1 .. Len(members) : value[members[i]].how = "resolve"
          /\ value[a].of = FlattenSeq([i \in 1 .. Len(members) |-> value[members[i]].of])
          BY <2>1, <3>0, Zenon DEF Holder
    <3>2. \A i \in 1 .. Len(members) : value'[members[i]] = value[members[i]]
          BY <1>3, <3>1
    <3>3. [i \in 1 .. Len(members) |-> value'[members[i]].of]
            = [i \in 1 .. Len(members) |-> value[members[i]].of]
          BY <3>2
    <3> QED BY <2>1, <3>1, <3>2, <3>3
  <2>4. ASSUME value'[a].how = "reject"
        PROVE  \E i \in 1 .. Len(members) : value'[members[i]] = value'[a]
    <3>0. value[a].how = "reject"
          BY <2>1, <2>4
    <3>1. PICK i \in 1 .. Len(members) : value[members[i]] = value[a]
          BY <2>1, <3>0, Zenon DEF Holder
    <3> QED BY <1>3, <2>1, <3>0, <3>1
  <2> QED BY <2>2, <2>3, <2>4
<1>6. members' = members /\ held' = held
      OBVIOUS
<1>7. held'.promise # NoPromise =>
       /\ kind'[held'.promise] = "all"
       /\ ~Settled(held.promise)'
       /\ held'.outstanding = Cardinality(Missing')
       /\ held'.outstanding # 0
       /\ held'.values = [i \in 1 .. Len(members') |-> held'.values[i]]
       /\ \A i \in 1 .. Len(members') : Reported(i)' =>
            value'[members'[i]].how = "resolve" /\ held'.values[i] = value'[members'[i]].of
      BY <1>4, <1>6
<1>8. \A a \in Promises : kind'[a] = "all" =>
       /\ ~Settled(a)' => held'.promise = a
       /\ value'[a].how = "resolve" =>
            /\ \A i \in 1 .. Len(members') : value'[members'[i]].how = "resolve"
            /\ value'[a].of = FlattenSeq([i \in 1 .. Len(members') |-> value'[members'[i]].of])
       /\ value'[a].how = "reject" => \E i \in 1 .. Len(members') : value'[members'[i]] = value'[a]
      BY <1>5, <1>6
<1> QED BY <1>7, <1>8, Zenon DEF Holder

\* No promise is settled, made or chained.
LEMMA RolesKept ==
  ASSUME Shape, Roles, Lasting, UNCHANGED <<kind, value, chained, source, request>>
  PROVE  Roles'
<1>1. Issued' = Issued /\ complete \subseteq complete'
      BY Zenon DEF Issued, Lasting
<1>2. \A q \in Promises : Follows(q)' <=> Follows(q)
      BY Zenon DEF Follows
<1>3. \A q \in Promises : Settled(q)' <=> Settled(q)
      BY Zenon DEF Settled, Pending
<1>4. \A q \in Promises :
        /\ source[q] # NoPromise => Follows(q)'
        /\ Follows(q)' /\ source[q] = NoPromise => ~Settled(q)'
        /\ kind[q] = "none" => ~Settled(q)'
        /\ source[q] # NoPromise /\ Settled(q)' => value[q] = value[source[q]]
      BY <1>2, <1>3, Zenon DEF Roles
<1>5. \A r \in Issued : request[r].completion # NoPromise =>
        /\ kind[request[r].completion] = "completion"
        /\ r \notin complete' => source[request[r].completion] = NoPromise
      BY <1>1, Zenon DEF Roles
<1> QED BY <1>1, <1>4, <1>5, Zenon DEF Roles

\* A step that leaves promises and requests alone takes nothing back.
LEMMA NothingLost ==
  ASSUME Shape, UNCHANGED <<kind, value, request>>, complete \subseteq complete'
  PROVE  Lasting
BY Zenon DEF Lasting, Issued

\* A promise is settled by the party that is to settle it.
LEMMA RolesSettled ==
  ASSUME Shape, Roles, UNCHANGED <<kind, chained, source, request>>,
         complete \subseteq complete',
         NEW p \in Promises, ~Settled(p), kind[p] # "none", NEW o, o # Pending,
         value'[p] = o, \A q \in Promises : q # p => value'[q] = value[q],
         Follows(p) => source[p] # NoPromise /\ value[source[p]] = o
  PROVE  Roles'
<1>1. Issued' = Issued
      BY Zenon DEF Issued
<1>2. \A q \in Promises : Follows(q)' <=> Follows(q)
      BY Zenon DEF Follows
<1>3. Settled(p)' /\ \A q \in Promises : q # p => (Settled(q)' <=> Settled(q))
      BY Zenon DEF Settled, Pending
<1>4. ASSUME NEW q \in Promises
      PROVE  /\ source[q] # NoPromise => Follows(q)'
             /\ Follows(q)' /\ source[q] = NoPromise => ~Settled(q)'
             /\ kind[q] = "none" => ~Settled(q)'
      BY <1>2, <1>3, Zenon DEF Roles
<1>5. ASSUME NEW q \in Promises, source[q] # NoPromise, Settled(q)'
      PROVE  value'[q] = value'[source[q]]
  <2>1. source[q] \in Promises /\ Follows(q)
        BY <1>5 DEF Shape, Roles
  <2>2. CASE q = p
    <3>1. value[source[p]] = o /\ source[p] # p
          BY <2>1, <2>2 DEF Settled
    <3> QED BY <2>1, <2>2, <3>1
  <2>3. CASE q # p
    <3>1. value[q] = value[source[q]] /\ Settled(q)
          BY <1>3, <1>5, <2>3, Zenon DEF Roles
    <3>2. source[q] # p
          BY <3>1, Zenon DEF Settled
    <3> QED BY <2>1, <2>3, <3>1, <3>2
  <2> QED BY <2>2, <2>3
<1>6. \A r \in Issued : request[r].completion # NoPromise =>
        /\ kind[request[r].completion] = "completion"
        /\ r \notin complete' => source[request[r].completion] = NoPromise
      BY <1>1, Zenon DEF Roles
<1> QED BY <1>1, <1>4, <1>5, <1>6, Zenon DEF Roles

\* Who settles a promise that somebody waits for holds on to its mutex.
LEMMA MutexesSettled ==
  ASSUME Shape, Mutexes, NEW p \in Promises, ~Settled(p), NEW o, o.how \in {"resolve", "reject"},
         Settle(p, o), UNCHANGED <<thens, chained>>
  PROVE  Mutexes' /\ locked' \in SUBSET Promises
<1>1. /\ Settled(p)' /\ \A q \in Promises : q # p => value'[q] = value[q]
      /\ locked' = IF Waits(p) THEN locked \cup {p} ELSE locked
      BY Settles
<1>2. \A q \in Promises : Waits(q)' <=> Waits(q)
      BY Zenon DEF Waits
<1>3. \A q \in Promises : q # p => (Settled(q)' <=> Settled(q)) /\ (q \in locked' <=> q \in locked)
      BY <1>1, Zenon DEF Settled, Pending
<1>4. p \in locked' <=> Waits(p)
  <2>1. p \notin locked
        BY Zenon DEF Mutexes
  <2> QED BY <1>1, <2>1, Zenon
<1>5. locked' \in SUBSET Promises
      BY <1>1 DEF Shape
<1>6. Mutexes'
      BY <1>1, <1>2, <1>3, <1>4, Zenon DEF Mutexes
<1> QED BY <1>5, <1>6

\* A settled promise was resolved or rejected.
LEMMA OutcomeSettled ==
  ASSUME Outcome, NEW p \in Promises, NEW o, o.how \in {"resolve", "reject"},
         value'[p] = o, \A q \in Promises : q # p => value'[q] = value[q]
  PROVE  Outcome'
<1>1. ASSUME NEW q \in Promises, Settled(q)'
      PROVE  value'[q].how \in {"resolve", "reject"}
  <2>1. CASE q = p
        BY <2>1
  <2>2. CASE q # p
    <3>1. value'[q] = value[q] /\ Settled(q)
          BY <1>1, <2>2 DEF Settled, Pending
    <3> QED BY <3>1 DEF Outcome
  <2> QED BY <2>1, <2>2
<1> QED BY <1>1, Zenon DEF Outcome

\* A promise is settled that no holder has.
LEMMA SettleStep ==
  ASSUME IInv, NEW p \in Promises, ~Settled(p), NEW o, o.how \in {"resolve", "reject"},
         Settle(p, o), kind[p] \notin {"none", "all"},
         Follows(p) => source[p] # NoPromise /\ value[source[p]] = o,
         UNCHANGED <<kind, thens, chained, source, requestVars, targetVars, allVars>>
  PROVE  IInv'
<1>1. Shape /\ Outcome /\ Mutexes /\ Places /\ Truth /\ Roles /\ Asked /\ Holder
      BY Zenon DEF IInv, Places
<1>2. /\ value'[p] = o
      /\ \A q \in Promises : q # p => value'[q] = value[q]
      /\ value' = [q \in Promises |-> value'[q]]
      BY <1>1, Settles
<1>3. Lasting /\ complete' = complete /\ open' = open
  <2>1. \A q \in Promises : Settled(q) => value'[q] = value[q]
        BY <1>2, Zenon
  <2> QED BY <2>1, Zenon DEF Lasting, Issued, requestVars, targetVars
<1>4. o # Pending
      BY DEF Pending
<1>5. Mutexes' /\ locked' \in SUBSET Promises
      BY <1>1, MutexesSettled
<1>6. Outcome'
      BY <1>1, <1>2, OutcomeSettled
<1>7. Places'
      BY <1>1, <1>3, NothingMoved, Zenon DEF requestVars, targetVars
<1>8. Roles'
      BY <1>1, <1>2, <1>3, <1>4, RolesSettled, Zenon DEF requestVars
<1>9. Truth'
      BY <1>1, <1>3, TruthKept, Zenon DEF requestVars
<1>10. Asked'
      BY <1>1, <1>3, AskedKept, Zenon DEF requestVars, allVars
<1>11. Holder'
  <2>1. \A i \in 1 .. Len(members) : Reported(i)' <=> Reported(i)
        BY <1>1, <1>3, ReportsKept, Zenon
  <2>2. \A a \in Promises : kind[a] = "all" => value'[a] = value[a]
        BY <1>2, Zenon
  <2> QED BY <1>1, <1>3, <2>1, <2>2, HolderKept, Zenon DEF allVars
<1>12. Shape'
  <2>1. UNCHANGED <<kind, thens, chained, source, request, complete, disconnected, told>>
        BY DEF requestVars
  <2>2. UNCHANGED <<queue, open, members, joined, held>>
        BY DEF targetVars, allVars
  <2> QED BY <1>1, <1>2, <1>5, <2>1, <2>2, Zenon DEF Shape, Issued
<1> QED BY <1>5, <1>6, <1>7, <1>8, <1>9, <1>10, <1>11, <1>12, Zenon DEF IInv, Places

-----------------------------------------------------------------------------
(* The moves of a request *)

\* Who waits first is told first.
LEMMA FirstInLine ==
  ASSUME Shape, Places, NEW p \in Promises, thens[p] # <<>>
  PROVE  \E r \in Issued \ complete :
           /\ r = Head(thens[p]) /\ r \in Requests
           /\ request[r].on = p /\ request[r].target \in Targets
           /\ ~InQueue(r)
           /\ \A i \in 1 .. Len(thens[p]) : i = 1 \/ r < thens[p][i]
           /\ thens[p][1] = r
<1>1. Len(thens[p]) \in Nat /\ 1 \in 1 .. Len(thens[p]) /\ thens[p][1] = Head(thens[p])
  <2>1. thens[p] \in Seq(Requests)
        BY DEF Shape
  <2> QED BY <2>1
<1>2. PICK r : r = thens[p][1]
      OBVIOUS
<1>3. /\ r \in Issued \ complete /\ request[r].on = p /\ ~InQueue(r)
      BY <1>1, <1>2, Zenon DEF Places, Lists
<1>4. r \in Requests /\ request[r].target \in Targets
      BY <1>3, IssuedAre, Zenon
<1>5. ASSUME NEW i \in 1 .. Len(thens[p]), i # 1
      PROVE  r < thens[p][i]
  <2>1. 1 < i
        BY <1>5
  <2> QED BY <1>1, <1>2, <2>1, Zenon DEF Places, Lists
<1> QED BY <1>1, <1>2, <1>3, <1>4, <1>5, Zenon

\* Telling the first consumer overtakes nobody.
LEMMA Dispatched ==
  ASSUME Shape, Mutexes, Places, NEW p \in Promises, DispatchNext(p)
  PROVE  Places' /\ Lasting /\ thens' \in [Promises -> Seq(Requests)]
<1>1. /\ p \in locked /\ thens[p] # <<>>
      /\ Deliver(Head(thens[p]))
      /\ thens' = [thens EXCEPT ![p] = Tail(@)]
      /\ UNCHANGED <<kind, value, chained, source, request, complete, open>>
      BY DEF DispatchNext, requestVars
<1>2. PICK r \in Issued \ complete :
           /\ r = Head(thens[p]) /\ r \in Requests
           /\ request[r].on = p /\ request[r].target \in Targets
           /\ ~InQueue(r)
           /\ \A i \in 1 .. Len(thens[p]) : i = 1 \/ r < thens[p][i]
           /\ thens[p][1] = r
      BY <1>1, FirstInLine, Zenon
<1>3. Issued' = Issued /\ Lasting
      BY <1>1, Zenon DEF Issued, Lasting
<1>4. PICK t \in Targets : t = request[r].target
      BY <1>2
<1>5. queue' = IF t \in open THEN [queue EXCEPT ![t] = Append(@, r)] ELSE queue
      BY <1>1, <1>2, <1>4, Zenon DEF Deliver
<1>6. Settled(p)
      BY <1>1, Zenon DEF Mutexes
<1>7. ASSUME NEW s \in Issued, InQueue(s), request[s].on = p, request[s].target = t
      PROVE  s < r
  <2>1. s # r
        BY <1>2, <1>7, Zenon
  <2>2. r \in Nat /\ s \in Nat
        BY IssuedAre DEF Requests
  <2>3. CASE r < s
        BY <1>2, <1>4, <1>7, <2>3, Zenon DEF Places, Line, Alike
  <2> QED BY <2>1, <2>2, <2>3
<1>8. /\ Queues' /\ Sorted' /\ Calls'
      /\ \A s \in Issued : InQueue(s)' <=> InQueue(s) \/ (t \in open /\ s = r)
  <2>1. CASE t \notin open
        BY <1>1, <1>3, <1>5, <2>1, QueuesStay, Zenon
  <2>2. CASE t \in open
    <3>1. PICK n : n = Len(queue[t]) + 1
          OBVIOUS
    <3>2. queue' = [queue EXCEPT ![t] = Append(@, r)]
          BY <1>5, <2>2, Zenon
    <3>3. queue'[t][n] = r
      <4>1. queue \in [Targets -> Seq(Requests \cup Promises)] /\ r \in Requests \cup Promises
            BY <1>2, Zenon DEF Shape
      <4> QED BY <3>1, <3>2, <4>1, Grow
    <3>4. IsAnswer(t, n)'
          BY <1>1, <1>2, <1>3, <1>4, <1>6, <3>3 DEF IsAnswer, Settled
    <3>5. ASSUME NEW u \in Targets, NEW i \in 1 .. Len(queue[u])
          PROVE  queue[u][i] # r
      <4> SUFFICES ASSUME queue[u][i] = r
                   PROVE  FALSE
          OBVIOUS
      <4>1. IsAnswer(u, i)
            BY <1>2, QueueElements
      <4>2. request[r].target = u
            BY <4>1 DEF IsAnswer
      <4> QED BY <1>2, <4>2, Zenon DEF InQueue
    <3>6. ASSUME NEW i \in 1 .. Len(queue[t]), queue[t][i] \in Requests,
                 request[queue[t][i]].on = request'[r].on
          PROVE  queue[t][i] < r
      <4>1. IsAnswer(t, i) /\ queue[t][i] \in Issued
            BY <3>6, QueueElements
      <4>2. PICK s \in Issued : s = queue[t][i]
            BY <4>1
      <4>3. request[s].target = t /\ request[s].on = p
            BY <1>1, <1>2, <3>6, <4>1, <4>2 DEF IsAnswer
      <4>4. InQueue(s)
            BY <4>2, <4>3, Zenon DEF InQueue
      <4> QED BY <1>7, <4>2, <4>3, <4>4
    <3> QED BY <1>1, <1>2, <1>3, <2>2, <3>1, <3>2, <3>4, <3>5, <3>6, QueueGrows
  <2> QED BY <2>1, <2>2
<1>9. /\ thens' \in [Promises -> Seq(Requests)]
      /\ \A q \in Promises : q # p => thens'[q] = thens[q]
      /\ Len(thens[p]) \in Nat /\ Len(thens'[p]) = Len(thens[p]) - 1
      /\ \A i \in 1 .. Len(thens'[p]) :
           i + 1 \in 1 .. Len(thens[p]) /\ thens'[p][i] = thens[p][i + 1]
  <2>1. thens \in [Promises -> Seq(Requests)]
        BY Zenon DEF Shape
  <2> QED BY <1>1, <2>1, Shrink
\* Those that still wait did so before.
<1>10. ASSUME NEW q \in Promises, NEW i \in 1 .. Len(thens'[q])
       PROVE  \E k \in 1 .. Len(thens[q]) : thens'[q][i] = thens[q][k] /\ thens[q][k] # r
  <2>1. CASE q = p
    <3>1. i + 1 \in 1 .. Len(thens[p]) /\ thens'[p][i] = thens[p][i + 1] /\ i + 1 # 1
          BY <1>9, <2>1
    <3>2. r < thens[p][i + 1] /\ r \in Int
          BY <1>2, <3>1 DEF Requests
    <3>3. thens[p][i + 1] # r
          BY <3>2
    <3> QED BY <2>1, <3>1, <3>3, Zenon
  <2>2. CASE q # p
    <3>1. i \in 1 .. Len(thens[q]) /\ thens'[q][i] = thens[q][i]
          BY <1>9, <2>2, Zenon
    <3>2. request[thens[q][i]].on = q
          BY <3>1, Zenon DEF Places, Lists
    <3>3. thens[q][i] # r
          BY <1>2, <2>2, <3>2
    <3> QED BY <3>1, <3>3, Zenon
  <2> QED BY <2>1, <2>2
<1>11. Lists'
  <2> SUFFICES ASSUME NEW q \in Promises
               PROVE  /\ \A i \in 1 .. Len(thens'[q]) :
                           (/\ thens[q][i] \in Issued \ complete
                            /\ request[thens[q][i]].on = q
                            /\ ~InQueue(thens[q][i]))'
                      /\ \A i, j \in 1 .. Len(thens'[q]) : i < j => thens'[q][i] < thens'[q][j]
      BY Zenon DEF Lists
  <2>1. ASSUME NEW i \in 1 .. Len(thens'[q])
        PROVE  (/\ thens[q][i] \in Issued \ complete
                /\ request[thens[q][i]].on = q
                /\ ~InQueue(thens[q][i]))'
    <3>1. PICK k \in 1 .. Len(thens[q]) : thens'[q][i] = thens[q][k] /\ thens[q][k] # r
          BY <1>10, Zenon
    <3>2. PICK s : s = thens[q][k]
          OBVIOUS
    <3>3. s \in Issued \ complete /\ request[s].on = q /\ ~InQueue(s) /\ s # r
          BY <3>1, <3>2, Zenon DEF Places, Lists
    <3>4. ~InQueue(s)'
          BY <1>8, <3>3, Zenon
    <3>5. thens'[q][i] = s
          BY <3>1, <3>2
    <3> QED BY <1>1, <1>3, <3>3, <3>4, <3>5
  <2>2. ASSUME NEW i \in 1 .. Len(thens'[q]), NEW j \in 1 .. Len(thens'[q]), i < j
        PROVE  thens'[q][i] < thens'[q][j]
    <3>1. CASE q = p
          BY <1>9, <2>2, <3>1 DEF Places, Lists
    <3>2. CASE q # p
          BY <1>9, <2>2, <3>2, Zenon DEF Places, Lists
    <3> QED BY <3>1, <3>2
  <2> QED BY <2>1, <2>2
<1>12. ASSUME NEW s \in Issued, InThens(s), s # r
       PROVE  InThens(s)'
  <2>1. PICK q \in Promises : q = request[s].on
        BY IssuedAre
  <2>2. PICK i \in 1 .. Len(thens[q]) : thens[q][i] = s
        BY <1>12, <2>1, Zenon DEF InThens
  <2>3. \E k \in 1 .. Len(thens'[q]) : thens'[q][k] = s
    <3>1. CASE q # p
          BY <1>9, <2>2, <3>1, Zenon
    <3>2. CASE q = p
      <4>1. i # 1
            BY <1>2, <1>12, <2>2, <3>2
      <4>2. i - 1 \in 1 .. Len(thens'[p]) /\ (i - 1) + 1 = i
            BY <1>9, <2>2, <3>2, <4>1
      <4>3. thens'[p][i - 1] = thens[p][i]
            BY <1>9, <4>2
      <4> QED BY <2>2, <3>2, <4>2, <4>3, Zenon
    <3> QED BY <3>1, <3>2
  <2> QED BY <1>1, <2>1, <2>3, Zenon DEF InThens
<1>13. ASSUME NEW s \in Issued, s < r, Alike(s, r), t \in open
       PROVE  s \in complete \/ InQueue(s)
  <2>1. request[s].on = p /\ request[s].target = t
        BY <1>2, <1>4, <1>13 DEF Alike
  <2>2. s \in complete \/ InQueue(s) \/ InThens(s)
        BY <1>13, <2>1, Zenon DEF Places, Line
  <2>3. ~InThens(s)
    <3> SUFFICES ASSUME NEW i \in 1 .. Len(thens[p]), thens[p][i] = s
                 PROVE  FALSE
        BY <2>1, Zenon DEF InThens
    <3>1. s \in Int /\ r \in Int
          BY IssuedAre DEF Requests
    <3> QED BY <1>2, <1>13, <3>1
  <2> QED BY <2>2, <2>3
<1>14. Line'
  <2>1. \A s, u \in Issued : Alike(s, u)' <=> Alike(s, u)
        BY <1>1, Zenon DEF Alike
  <2>2. ASSUME NEW s \in Issued, NEW u \in Issued, s < u, Alike(s, u), InQueue(u)'
        PROVE  s \in complete \/ InQueue(s)'
        BY <1>8, <1>13, <2>2, Zenon DEF Places, Line
  <2>3. ASSUME NEW s \in Issued, request[s].target \in open
        PROVE  s \in complete \/ InQueue(s)' \/ InThens(s)'
        BY <1>4, <1>8, <1>12, <2>3, Zenon DEF Places, Line
  <2> QED BY <1>1, <1>3, <2>1, <2>2, <2>3, Zenon DEF Places, Line
<1> QED BY <1>3, <1>8, <1>9, <1>11, <1>14, Zenon DEF Places

\* Ask has no part in the promises that are settled or made.
LEMMA AskedInLine ==
  ASSUME Shape, Mutexes, Places, NEW p \in Promises, NEW t \in Targets,
         NEW c \in Promises \cup {NoPromise}, NEW k \in Nat, Ask(p, t, c, k),
         \A q \in Promises : kind[q] # "none" => kind'[q] = kind[q]
  PROVE  Places' /\ Lasting /\ thens' \in [Promises -> Seq(Requests)]
<1>1. PICK n : n = Len(request) + 1
      OBVIOUS
<1>2. /\ n \in Requests /\ n \notin Issued
      /\ Issued' = Issued \cup {n}
      /\ \A r \in Issued : r < n /\ request'[r] = request[r]
      /\ request'[n] = [on |-> p, target |-> t, completion |-> c, index |-> k]
      BY <1>1, Asks
<1>3. /\ p \notin locked /\ t \in open /\ open' = open
      /\ UNCHANGED <<value, chained, source, complete>>
      /\ Enlist(p, n)
      BY <1>1, Zenon DEF Ask
<1>4. Lasting
      BY <1>2, <1>3, Zenon DEF Lasting
<1>5. request'[n].on = p /\ request'[n].target = t
      BY <1>2
<1>6. n \notin complete
      BY <1>2 DEF Shape
<1>7. \A u \in Targets : \A i \in 1 .. Len(queue[u]) : queue[u][i] # n
      BY <1>2, QueueElements, Zenon
<1>8. \A q \in Promises : \A i \in 1 .. Len(thens[q]) : thens[q][i] # n /\ thens[q][i] \in Issued
      BY <1>2, Zenon DEF Places, Lists
<1>9. \A r \in Issued : r \in Requests
      BY IssuedAre, Zenon
<1>10. \A r, s \in Issued : Alike(r, s)' <=> Alike(r, s)
      BY <1>2 DEF Alike
<1>11. \A s \in Issued' : ~(n < s)
  <2>1. n \in Int /\ \A s \in Issued : s \in Int
        BY <1>2, <1>9 DEF Requests
  <2>2. \A s \in Issued : ~(n < s)
        BY <1>2, <2>1
  <2> QED BY <1>2, <2>1, <2>2
<1>13. CASE Settled(p)
  <2>1. queue' = [queue EXCEPT ![t] = Append(@, n)] /\ thens' = thens
        BY <1>3, <1>5, <1>13, Zenon DEF Enlist
  <2>2. PICK m : m = Len(queue[t]) + 1
        OBVIOUS
  <2>3. queue'[t][m] = n
    <3>1. queue \in [Targets -> Seq(Requests \cup Promises)] /\ n \in Requests \cup Promises
          BY <1>2, Zenon DEF Shape
    <3> QED BY <2>1, <2>2, <3>1, Grow
  <2>4. IsAnswer(t, m)'
        BY <1>2, <1>3, <1>5, <1>6, <1>13, <2>3 DEF IsAnswer, Settled
  <2>5. ASSUME NEW i \in 1 .. Len(queue[t]), queue[t][i] \in Requests
        PROVE  queue[t][i] < n
        BY <1>2, <2>5, QueueElements, Zenon
  <2>6. /\ Queues' /\ Sorted' /\ Calls'
        /\ \A r \in Issued : InQueue(r)' <=> InQueue(r) \/ r = n
        /\ InQueue(n)'
        BY <1>2, <1>3, <1>4, <1>7, <2>1, <2>2, <2>4, <2>5, QueueGrows
  <2>7. \A r \in Issued : InQueue(r)' <=> InQueue(r)
        BY <1>2, <2>6, Zenon
  <2>8. thens[p] = <<>>
        BY <1>3, <1>13, Zenon DEF Mutexes, Waits
  <2>9. Lists'
    <3>1. ASSUME NEW q \in Promises, NEW i \in 1 .. Len(thens[q])
          PROVE  (/\ thens[q][i] \in Issued \ complete
                  /\ request[thens[q][i]].on = q
                  /\ ~InQueue(thens[q][i]))'
      <4>1. PICK s : s = thens[q][i]
            OBVIOUS
      <4>2. s \in Issued \ complete /\ request[s].on = q /\ ~InQueue(s)
            BY <4>1, Zenon DEF Places, Lists
      <4>3. s \in Issued' /\ s \notin complete' /\ request'[s].on = q /\ ~InQueue(s)'
            BY <1>2, <1>3, <2>7, <4>2
      <4>4. thens'[q][i] = s
            BY <2>1, <4>1
      <4> QED BY <4>3, <4>4
    <3> QED BY <2>1, <3>1, Zenon DEF Places, Lists
  <2>10. Line'
    <3>1. ASSUME NEW r \in Issued, Alike(r, n)'
          PROVE  r \in complete' \/ InQueue(r)'
      <4>1. request[r].on = p /\ request[r].target = t
            BY <1>2, <1>5, <3>1 DEF Alike
      <4>2. r \in complete \/ InQueue(r) \/ InThens(r)
            BY <1>3, <4>1, Zenon DEF Places, Line
      <4>3. ~InThens(r)
            BY <2>8, <4>1 DEF InThens
      <4> QED BY <1>3, <2>7, <4>2, <4>3, Zenon
    <3>2. ASSUME NEW r \in Issued', NEW s \in Issued', r < s, Alike(r, s)'
          PROVE  /\ s \in complete' => r \in complete'
                 /\ InQueue(s)' => r \in complete' \/ InQueue(r)'
      <4>1. r # n
            BY <1>11, <3>2, Zenon
      <4>2. CASE s = n
        <5>1. r \in Issued
              BY <1>2, <4>1, Zenon
        <5>2. request'[r].on = request'[n].on /\ request'[r].target = request'[n].target
              BY <3>2, <4>2 DEF Alike
        <5>3. Alike(r, n)'
              BY <5>2 DEF Alike
        <5> QED BY <1>3, <1>6, <3>1, <4>2, <5>1, <5>3, Zenon
      <4>3. CASE s # n
        <5>1. r \in Issued /\ s \in Issued
              BY <1>2, <4>1, <4>3, Zenon
        <5> QED BY <1>3, <1>10, <2>7, <3>2, <5>1, Zenon DEF Places, Line
      <4> QED BY <4>2, <4>3
    <3>3. ASSUME NEW r \in Issued', request'[r].target \in open'
          PROVE  r \in complete' \/ InQueue(r)' \/ InThens(r)'
      <4>1. CASE r = n
            BY <2>6, <4>1
      <4>2. CASE r # n
        <5>1. r \in Issued /\ request'[r] = request[r]
              BY <1>2, <4>2, Zenon
        <5>2. r \in complete \/ InQueue(r) \/ InThens(r)
              BY <1>3, <3>3, <5>1, Zenon DEF Places, Line
        <5>3. InThens(r)' <=> InThens(r)
              BY <2>1, <5>1, Zenon DEF InThens
        <5> QED BY <1>3, <2>7, <5>1, <5>2, <5>3, Zenon
      <4> QED BY <4>1, <4>2
    <3> QED BY <3>2, <3>3, Zenon DEF Line
  <2>11. thens' \in [Promises -> Seq(Requests)]
        BY <2>1 DEF Shape
  <2> QED BY <1>4, <2>6, <2>9, <2>10, <2>11, Zenon DEF Places
<1>12. CASE ~Settled(p)
  <2>1. thens' = [thens EXCEPT ![p] = Append(@, n)] /\ queue' = queue
        BY <1>3, <1>12, Zenon DEF Enlist
  <2>2. /\ thens' \in [Promises -> Seq(Requests)]
        /\ \A q \in Promises : q # p => thens'[q] = thens[q]
        /\ Len(thens[p]) \in Nat /\ Len(thens'[p]) = Len(thens[p]) + 1
        /\ \A i \in 1 .. Len(thens[p]) : thens'[p][i] = thens[p][i]
        /\ thens'[p][Len(thens[p]) + 1] = n
    <3>1. thens \in [Promises -> Seq(Requests)]
          BY Zenon DEF Shape
    <3> QED BY <1>2, <2>1, <3>1, Grow
  <2>3. PICK m : m = Len(thens[p]) + 1
        OBVIOUS
  <2>4. /\ m \in 1 .. Len(thens'[p]) /\ thens'[p][m] = n
        /\ \A i \in 1 .. Len(thens'[p]) : i = m \/ i \in 1 .. Len(thens[p])
        /\ \A i \in 1 .. Len(thens[p]) : i \in 1 .. Len(thens'[p]) /\ i < m
        BY <2>2, <2>3
  <2>5. ASSUME NEW q \in Promises, NEW i \in 1 .. Len(thens'[q])
        PROVE  \/ q = p /\ i = m
               \/ i \in 1 .. Len(thens[q]) /\ thens'[q][i] = thens[q][i]
        BY <2>2, <2>4, Zenon
  <2>6. /\ Queues' /\ Sorted' /\ Calls'
        /\ \A r \in Issued : InQueue(r)' <=> InQueue(r)
        BY <1>3, <1>4, <2>1, QueuesStay, Zenon
  <2>7. ~InQueue(n)'
    <3>1. queue'[t] = queue[t]
          BY <2>1
    <3> QED BY <1>5, <1>7, <3>1, Zenon DEF InQueue
  <2>8. Lists'
    <3>1. ASSUME NEW q \in Promises, NEW i \in 1 .. Len(thens'[q])
          PROVE  (/\ thens[q][i] \in Issued \ complete
                  /\ request[thens[q][i]].on = q
                  /\ ~InQueue(thens[q][i]))'
      <4>1. PICK s : s = thens'[q][i]
            OBVIOUS
      <4>2. CASE q = p /\ i = m
        <5>1. s = n
              BY <2>4, <4>1, <4>2
        <5>2. s \in Issued' /\ s \notin complete' /\ request'[s].on = q /\ ~InQueue(s)'
              BY <1>2, <1>3, <1>5, <1>6, <2>7, <4>2, <5>1, Zenon
        <5> QED BY <4>1, <5>2
      <4>3. CASE i \in 1 .. Len(thens[q]) /\ thens'[q][i] = thens[q][i]
        <5>1. s \in Issued \ complete /\ request[s].on = q /\ ~InQueue(s)
              BY <4>1, <4>3, Zenon DEF Places, Lists
        <5>2. s \in Issued' /\ s \notin complete' /\ request'[s].on = q /\ ~InQueue(s)'
              BY <1>2, <1>3, <2>6, <5>1
        <5> QED BY <4>1, <5>2
      <4> QED BY <2>5, <4>2, <4>3, Zenon
    <3>2. ASSUME NEW q \in Promises, NEW i \in 1 .. Len(thens'[q]), NEW j \in 1 .. Len(thens'[q]),
                 i < j
          PROVE  thens'[q][i] < thens'[q][j]
      <4>1. CASE q = p /\ i = m
        <5>1. j \in 1 .. Len(thens'[p]) /\ i \in Int /\ j \in Int
              BY <3>2, <4>1
        <5>2. ~(i < j)
              BY <2>2, <2>3, <4>1, <5>1
        <5> QED BY <3>2, <5>2
      <4>2. CASE i \in 1 .. Len(thens[q]) /\ thens'[q][i] = thens[q][i]
        <5>1. CASE q = p /\ j = m
          <6>1. thens[q][i] < n
                BY <1>2, <1>8, <4>2, Zenon
          <6> QED BY <2>4, <4>2, <5>1, <6>1
        <5>2. CASE j \in 1 .. Len(thens[q]) /\ thens'[q][j] = thens[q][j]
          <6>1. thens[q][i] < thens[q][j]
                BY <3>2, <4>2, <5>2, Zenon DEF Places, Lists
          <6> QED BY <4>2, <5>2, <6>1
        <5> QED BY <2>5, <5>1, <5>2, Zenon
      <4> QED BY <2>5, <4>1, <4>2, Zenon
    <3> QED BY <3>1, <3>2, Zenon DEF Lists
  <2>9. Line'
    <3>1. ASSUME NEW r \in Issued', NEW s \in Issued', r < s, Alike(r, s)'
          PROVE  /\ s \in complete' => r \in complete'
                 /\ InQueue(s)' => r \in complete' \/ InQueue(r)'
      <4>1. r # n
            BY <1>11, <3>1, Zenon
      <4>2. CASE s = n
            BY <1>3, <1>6, <2>7, <4>2, Zenon
      <4>3. CASE s # n
        <5>1. r \in Issued /\ s \in Issued
              BY <1>2, <4>1, <4>3, Zenon
        <5> QED BY <1>3, <1>10, <2>6, <3>1, <5>1, Zenon DEF Places, Line
      <4> QED BY <4>2, <4>3
    <3>2. ASSUME NEW r \in Issued', request'[r].target \in open'
          PROVE  r \in complete' \/ InQueue(r)' \/ InThens(r)'
      <4>1. CASE r = n
            BY <1>5, <2>4, <4>1, Zenon DEF InThens
      <4>2. CASE r # n
        <5>1. r \in Issued /\ request'[r] = request[r] /\ request[r].on \in Promises
              BY <1>2, <4>2, IssuedAre, Zenon
        <5>2. r \in complete \/ InQueue(r) \/ InThens(r)
              BY <1>3, <3>2, <5>1, Zenon DEF Places, Line
        <5>3. InThens(r) => InThens(r)'
          <6> SUFFICES ASSUME NEW i \in 1 .. Len(thens[request[r].on]),
                              thens[request[r].on][i] = r
                       PROVE  InThens(r)'
              BY Zenon DEF InThens
          <6>1. PICK q \in Promises : q = request[r].on
                BY <5>1
          <6>2. i \in 1 .. Len(thens'[q]) /\ thens'[q][i] = r
                BY <2>2, <2>4, <6>1
          <6> QED BY <5>1, <6>1, <6>2, Zenon DEF InThens
        <5> QED BY <1>3, <2>6, <5>1, <5>2, <5>3, Zenon
      <4> QED BY <4>1, <4>2
    <3> QED BY <3>1, <3>2, Zenon DEF Line
  <2> QED BY <1>4, <2>2, <2>6, <2>8, <2>9, Zenon DEF Places
<1> QED BY <1>12, <1>13

\* The call of a proxy overtakes no request.
LEMMA CallQueued ==
  ASSUME Shape, Places, Roles, NEW q \in Promises, NEW t \in Targets, InvokeAsync(q, t)
  PROVE  Places' /\ Lasting /\ queue' \in [Targets -> Seq(Requests \cup Promises)]
<1>1. /\ kind[q] = "none" /\ kind' = [kind EXCEPT ![q] = "proxy"]
      /\ queue' = IF t \in open THEN [queue EXCEPT ![t] = Append(@, q)] ELSE queue
      /\ UNCHANGED <<value, thens, source, request, complete, open>>
      BY Zenon DEF InvokeAsync, requestVars
<1>2. kind'[q] = "proxy" /\ \A p \in Promises : p # q => kind'[p] = kind[p]
      BY <1>1 DEF Shape
<1>3. Lasting
      BY <1>1, <1>2, Zenon DEF Lasting, Issued
<1>4. queue \in [Targets -> Seq(Requests \cup Promises)] /\ q \in Requests \cup Promises
      BY Zenon DEF Shape
<1>5. \A r \in Issued : r # q
  <2>1. \A r \in Requests : r \notin Promises
        BY PromiseAssumption DEF Requests, Promises
  <2> QED BY <2>1, IssuedAre, Zenon
<1>6. /\ Queues' /\ Sorted' /\ Calls'
      /\ \A r \in Issued : InQueue(r)' <=> InQueue(r)
  <2>1. CASE t \notin open
        BY <1>1, <1>3, <2>1, QueuesStay, Zenon
  <2>2. CASE t \in open
    <3>1. PICK n : n = Len(queue[t]) + 1
          OBVIOUS
    <3>2. queue' = [queue EXCEPT ![t] = Append(@, q)]
          BY <1>1, <2>2, Zenon
    <3>3. queue'[t][n] = q
          BY <1>4, <3>1, <3>2, Grow
    <3>4. source[q] = NoPromise
          BY <1>1, Zenon DEF Roles, Follows
    <3>5. IsCall(t, n)'
          BY <1>1, <1>2, <3>3, <3>4 DEF IsCall
    <3>6. ASSUME NEW u \in Targets, NEW i \in 1 .. Len(queue[u])
          PROVE  queue[u][i] # q
      <4>1. queue[u][i] \in Promises => IsCall(u, i)
            BY QueueElements
      <4> QED BY <1>1, <4>1, Zenon DEF IsCall
    <3>7. q \notin Requests
          BY PromiseAssumption DEF Requests, Promises
    <3>8. \A r \in Issued : InQueue(r)' <=> InQueue(r) \/ r = q
          BY <1>1, <1>3, <1>4, <3>1, <3>2, <3>5, <3>6, <3>7, QueueGrows
    <3>9. Queues' /\ Sorted' /\ Calls'
          BY <1>1, <1>3, <1>4, <3>1, <3>2, <3>5, <3>6, <3>7, QueueGrows
    <3> QED BY <1>5, <3>8, <3>9, Zenon
  <2> QED BY <2>1, <2>2
<1>7. Lists' /\ Line'
      BY <1>1, <1>6, LineKept, Zenon
<1>8. queue' \in [Targets -> Seq(Requests \cup Promises)]
      BY <1>1, <1>4, Grow
<1> QED BY <1>3, <1>6, <1>7, <1>8, Zenon DEF Places

-----------------------------------------------------------------------------
(* The steps *)

\* The mutex is released after the last of them.
LEMMA Unlocked ==
  ASSUME Shape, Mutexes, NEW p \in Promises, p \in locked, UnlockAfterLast(p), value' = value,
         thens' \in [Promises -> Seq(Requests)], chained' \in [Promises -> Seq(Promises)],
         \A q \in Promises : q # p => thens'[q] = thens[q] /\ chained'[q] = chained[q],
         Len(thens'[p]) + Len(chained'[p]) = Len(thens[p]) + Len(chained[p]) - 1
  PROVE  Mutexes' /\ locked' \in SUBSET Promises
<1>1. /\ Len(thens[p]) \in Nat /\ Len(chained[p]) \in Nat
      BY WaitsIs
<1>2. /\ Len(thens'[p]) \in Nat /\ Len(chained'[p]) \in Nat
      /\ thens'[p] = <<>> <=> Len(thens'[p]) = 0
      /\ chained'[p] = <<>> <=> Len(chained'[p]) = 0
  <2>1. thens'[p] \in Seq(Requests) /\ chained'[p] \in Seq(Promises)
        OBVIOUS
  <2> QED BY <2>1
<1>3. Len(thens[p]) + Len(chained[p]) = 1 <=> Len(thens'[p]) = 0 /\ Len(chained'[p]) = 0
  <2>1. PICK a, b, c, d \in Nat : /\ a = Len(thens[p]) /\ b = Len(chained[p])
                                  /\ c = Len(thens'[p]) /\ d = Len(chained'[p])
        BY <1>1, <1>2, Zenon
  <2>2. c + d = a + b - 1
        BY <2>1, Zenon
  <2>3. a + b = 1 <=> c = 0 /\ d = 0
        BY <2>2
  <2> QED BY <2>1, <2>3, Zenon
<1>4. Waits(p)' <=> ~(Len(thens[p]) + Len(chained[p]) = 1)
      BY <1>2, <1>3, Zenon DEF Waits
<1>5. p \in locked' <=> Waits(p)'
      BY <1>4, Zenon DEF UnlockAfterLast
<1>6. \A q \in Promises : q # p => (q \in locked' <=> q \in locked) /\ (Waits(q)' <=> Waits(q))
      BY Zenon DEF UnlockAfterLast, Waits
<1>7. \A q \in Promises : Settled(q)' <=> Settled(q)
      BY Zenon DEF Settled, Pending
<1>8. locked' \in SUBSET Promises
      BY Zenon DEF UnlockAfterLast, Shape
<1>9. Mutexes'
      BY <1>5, <1>6, <1>7, Zenon DEF Mutexes
<1> QED BY <1>8, <1>9

\* No promise is settled.
LEMMA OutcomeKept ==
  ASSUME Outcome, value' = value
  PROVE  Outcome'
BY DEF Outcome, Settled, Pending

\* The steps that close a target, or change nothing.
LEMMA NothingButClosed ==
  ASSUME IInv, open' \subseteq open, UNCHANGED promiseVars, UNCHANGED requestVars,
         UNCHANGED queue, UNCHANGED allVars
  PROVE  IInv'
<1>1. Shape /\ Outcome /\ Mutexes /\ Places /\ Truth /\ Roles /\ Asked /\ Holder
      BY Zenon DEF IInv, Places
<1>2. /\ UNCHANGED <<kind, value, thens, chained, locked, source>>
      /\ UNCHANGED <<request, complete, disconnected, told, queue, members, joined, held>>
      BY DEF promiseVars, requestVars, allVars
<1>3. Lasting /\ Issued' = Issued /\ open' \subseteq open
      BY <1>1, <1>2, NothingLost, Zenon DEF Issued
<1>4. Outcome' /\ Places' /\ Roles' /\ Truth' /\ Asked'
      BY <1>1, <1>2, <1>3, OutcomeKept, NothingMoved, RolesKept, TruthKept, AskedKept, Zenon
<1>5. Mutexes'
      BY <1>1, <1>2, Zenon DEF Mutexes, Settled, Waits, Pending
<1>6. Holder'
  <2>1. \A i \in 1 .. Len(members) : Reported(i)' <=> Reported(i)
        BY <1>1, <1>2, <1>3, ReportsKept, Zenon
  <2> QED BY <1>1, <1>2, <1>3, <2>1, HolderKept, Zenon
<1>7. Shape'
      BY <1>1, <1>2, <1>3, Zenon DEF Shape
<1> QED BY <1>4, <1>5, <1>6, <1>7, Zenon DEF IInv, Places

\* Nothing happens.
LEMMA Unchanged ==
  ASSUME IInv, UNCHANGED vars
  PROVE  IInv'
BY NothingButClosed DEF vars, targetVars

\* The producer answers.
LEMMA ResolveStep ==
  ASSUME IInv, NEW p \in Promises, NEW how \in {"resolve", "reject"}, ResolveOrReject(p, how)
  PROVE  IInv'
<1>1. /\ kind[p] = "plain" /\ Settle(p, [how |-> how, of |-> <<p>>])
      /\ UNCHANGED <<kind, thens, chained, source, requestVars, targetVars, allVars>>
      BY Zenon DEF ResolveOrReject
<1>2. ~Follows(p)
      BY <1>1 DEF Follows
<1>3. CASE ~Settled(p)
      BY <1>1, <1>2, <1>3, SettleStep
<1>4. CASE Settled(p)
  <2>1. value' = value /\ locked' = locked
        BY <1>1, <1>4, NotSettledAgain
  <2> QED BY <1>1, <2>1, Unchanged DEF vars, promiseVars
<1> QED BY <1>3, <1>4

\* DispatchAll tells the next consumer.
LEMMA DispatchNextStep ==
  ASSUME IInv, NEW p \in Promises, DispatchNext(p)
  PROVE  IInv'
<1>1. Shape /\ Outcome /\ Mutexes /\ Places /\ Truth /\ Roles /\ Asked /\ Holder
      BY Zenon DEF IInv, Places
<1>2. /\ p \in locked /\ thens[p] # <<>>
      /\ Deliver(Head(thens[p]))
      /\ thens' = [thens EXCEPT ![p] = Tail(@)]
      /\ UnlockAfterLast(p)
      /\ UNCHANGED <<kind, value, chained, source, open>>
      /\ UNCHANGED <<request, complete, disconnected, told>>
      /\ UNCHANGED <<members, joined, held>>
      BY DEF DispatchNext, requestVars, allVars
<1>3. Places' /\ Lasting /\ thens' \in [Promises -> Seq(Requests)]
      BY <1>1, Dispatched
<1>4. Mutexes' /\ locked' \in SUBSET Promises
  <2>1. /\ \A q \in Promises : q # p => thens'[q] = thens[q]
        /\ Len(thens[p]) \in Nat /\ Len(thens'[p]) = Len(thens[p]) - 1
    <3>1. thens \in [Promises -> Seq(Requests)]
          BY <1>1, Zenon DEF Shape
    <3> QED BY <1>2, <3>1, Shrink
  <2>2. chained' \in [Promises -> Seq(Promises)] /\ Len(chained'[p]) = Len(chained[p])
        BY <1>1, <1>2, Zenon DEF Shape
  <2>3. Len(chained[p]) \in Nat
        BY <1>1, WaitsIs
  <2>4. Len(thens'[p]) + Len(chained'[p]) = Len(thens[p]) + Len(chained[p]) - 1
        BY <2>1, <2>2, <2>3
  <2> QED BY <1>1, <1>2, <1>3, <2>1, <2>2, <2>4, Unlocked, Zenon
<1>5. Outcome' /\ Truth' /\ Roles' /\ Asked'
      BY <1>1, <1>2, <1>3, OutcomeKept, TruthKept, RolesKept, AskedKept, Zenon
<1>6. Holder'
  <2>1. \A i \in 1 .. Len(members) : Reported(i)' <=> Reported(i)
        BY <1>1, <1>2, <1>3, ReportsKept, Zenon
  <2> QED BY <1>1, <1>2, <1>3, <2>1, HolderKept, Zenon
<1>7. queue' \in [Targets -> Seq(Requests \cup Promises)]
  <2>1. PICK r : r = Head(thens[p])
        OBVIOUS
  <2>2. r \in Requests /\ request[r].target \in Targets
        BY <1>1, <1>2, <2>1, FirstInLine
  <2>5. PICK t \in Targets : t = request[r].target
        BY <2>2
  <2>3. queue \in [Targets -> Seq(Requests \cup Promises)] /\ r \in Requests \cup Promises
        BY <1>1, <2>2, Zenon DEF Shape
  <2>4. \/ queue' = queue
        \/ queue' = [queue EXCEPT ![t] = Append(@, r)]
        BY <1>2, <2>1, <2>5, Zenon DEF Deliver
  <2>6. CASE queue' = [queue EXCEPT ![t] = Append(@, r)]
        BY <2>3, <2>6, Grow
  <2> QED BY <2>3, <2>4, <2>6
<1>8. Shape'
      BY <1>1, <1>2, <1>3, <1>4, <1>7, Zenon DEF Shape, Issued
<1> QED BY <1>3, <1>4, <1>5, <1>6, <1>8, Zenon DEF IInv, Places

\* ForwardTo settles the next promise that follows, or has done so.
LEMMA ForwardStep ==
  ASSUME IInv, NEW p \in Promises, Forward(p)
  PROVE  IInv'
<1>1. Shape /\ Outcome /\ Mutexes /\ Places /\ Truth /\ Roles /\ Asked /\ Holder
      BY Zenon DEF IInv, Places
<1>2. /\ p \in locked /\ chained[p] # <<>>
      /\ \/ /\ ~Settled(Head(chained[p]))
            /\ Settle(Head(chained[p]), value[p])
            /\ UNCHANGED chained
         \/ /\ chained' = [chained EXCEPT ![p] = Tail(@)]
            /\ UnlockAfterLast(p)
            /\ UNCHANGED value
      /\ UNCHANGED <<kind, thens, source, requestVars, targetVars, allVars>>
      BY Zenon DEF Forward
<1>3. PICK q : q = Head(chained[p])
      OBVIOUS
<1>4. q \in Promises /\ source[q] = p
  <2>1. Len(chained[p]) \in Nat /\ 1 \in 1 .. Len(chained[p]) /\ chained[p][1] = q /\ q \in Promises
    <3>1. chained[p] \in Seq(Promises)
          BY <1>1 DEF Shape
    <3> QED BY <1>2, <1>3, <3>1
  <2> QED BY <1>1, <2>1, Zenon DEF Roles
<1>5. Settled(p) /\ value[p].how \in {"resolve", "reject"}
  <2>1. Settled(p)
        BY <1>1, <1>2, Zenon DEF Mutexes
  <2> QED BY <1>1, <2>1 DEF Outcome
<1>6. Follows(q) /\ source[q] # NoPromise
  <2>1. source[q] # NoPromise
        BY <1>4, PromiseAssumption DEF Promises
  <2> QED BY <1>1, <1>4, <2>1, Zenon DEF Roles
<1>7. CASE ~Settled(q) /\ Settle(q, value[p]) /\ UNCHANGED chained
  <2>1. kind[q] \notin {"none", "all"}
        BY <1>6 DEF Follows
  <2>2. UNCHANGED <<kind, thens, chained, source, requestVars, targetVars, allVars>>
        BY <1>2, <1>7
  <2> QED BY <1>4, <1>5, <1>6, <1>7, <2>1, <2>2, SettleStep
<1>8. CASE chained' = [chained EXCEPT ![p] = Tail(@)] /\ UnlockAfterLast(p) /\ UNCHANGED value
  <2>1. UNCHANGED <<kind, value, thens, source>>
        BY <1>2, <1>8
  <2>2. UNCHANGED <<request, complete, disconnected, told>>
        BY <1>2 DEF requestVars
  <2>3. UNCHANGED <<queue, open, members, joined, held>>
        BY <1>2 DEF targetVars, allVars
  <2>4. Lasting
        BY <1>1, <2>1, <2>2, NothingLost, Zenon
  <2>5. /\ chained' \in [Promises -> Seq(Promises)]
        /\ \A x \in Promises : x # p => chained'[x] = chained[x]
        /\ Len(chained[p]) \in Nat /\ Len(chained'[p]) = Len(chained[p]) - 1
        /\ \A i \in 1 .. Len(chained'[p]) :
             i + 1 \in 1 .. Len(chained[p]) /\ chained'[p][i] = chained[p][i + 1]
    <3>1. chained \in [Promises -> Seq(Promises)]
          BY <1>1, Zenon DEF Shape
    <3> QED BY <1>2, <1>8, <3>1, Shrink
  <2>6. Mutexes' /\ locked' \in SUBSET Promises
    <3>1. Len(thens[p]) \in Nat /\ Len(thens'[p]) = Len(thens[p])
          BY <1>1, <2>1, WaitsIs
    <3>2. Len(thens'[p]) + Len(chained'[p]) = Len(thens[p]) + Len(chained[p]) - 1
          BY <2>5, <3>1
    <3>3. thens' \in [Promises -> Seq(Requests)]
          BY <1>1, <2>1, Zenon DEF Shape
    <3> QED BY <1>1, <1>2, <1>8, <2>1, <2>5, <3>2, <3>3, Unlocked, Zenon
  <2>7. Outcome' /\ Truth' /\ Asked' /\ Places'
        BY <1>1, <2>1, <2>2, <2>3, <2>4, OutcomeKept, TruthKept, AskedKept, NothingMoved, Zenon
  <2>8. Holder'
    <3>1. \A i \in 1 .. Len(members) : Reported(i)' <=> Reported(i)
          BY <1>1, <2>2, <2>4, ReportsKept, Zenon
    <3> QED BY <1>1, <2>1, <2>3, <2>4, <3>1, HolderKept, Zenon
  <2>9. Roles'
    <3>1. ASSUME NEW x \in Promises, NEW i \in 1 .. Len(chained'[x])
          PROVE  source[chained'[x][i]] = x
      <4>1. CASE x = p
        <5>1. PICK k \in 1 .. Len(chained[p]) : chained'[p][i] = chained[p][k]
              BY <2>5, <4>1
        <5> QED BY <1>1, <4>1, <5>1, Zenon DEF Roles
      <4>2. CASE x # p
            BY <1>1, <2>5, <4>2, Zenon DEF Roles
      <4> QED BY <4>1, <4>2
    <3>2. /\ Issued' = Issued
          /\ \A x \in Promises : (Follows(x)' <=> Follows(x)) /\ (Settled(x)' <=> Settled(x))
          BY <2>1, <2>2, Zenon DEF Issued, Follows, Settled, Pending
    <3> QED BY <1>1, <2>1, <2>2, <3>1, <3>2, Zenon DEF Roles
  <2>10. Shape'
        BY <1>1, <2>1, <2>2, <2>3, <2>5, <2>6, Zenon DEF Shape, Issued
  <2> QED BY <2>6, <2>7, <2>8, <2>9, <2>10, Zenon DEF IInv, Places
<1> QED BY <1>2, <1>3, <1>7, <1>8

\* A consumer disconnects.
LEMMA DisconnectStep ==
  ASSUME IInv, NEW r \in Requests, Disconnect(r)
  PROVE  IInv'
<1>1. Shape /\ Outcome /\ Mutexes /\ Places /\ Truth /\ Roles /\ Asked /\ Holder
      BY Zenon DEF IInv, Places
<1>2. /\ r \in Issued \ complete /\ request[r].index = 0
      /\ disconnected' = disconnected \cup {r}
      /\ UNCHANGED <<kind, value, thens, chained, locked, source>>
      /\ UNCHANGED <<request, complete, told, queue, open, members, joined, held>>
      BY DEF Disconnect, promiseVars, targetVars, allVars
<1>3. Lasting /\ Issued' = Issued
      BY <1>1, <1>2, NothingLost, Zenon DEF Issued
<1>4. Outcome' /\ Places' /\ Roles'
      BY <1>1, <1>2, <1>3, OutcomeKept, NothingMoved, RolesKept, Zenon
<1>5. Mutexes'
      BY <1>1, <1>2, Zenon DEF Mutexes, Settled, Waits, Pending
<1>6. Truth'
      BY <1>1, <1>2, Zenon DEF Truth, Pending
<1>7. Asked'
      BY <1>1, <1>2, <1>3, Zenon DEF Asked
<1>8. Holder'
  <2>1. \A i \in 1 .. Len(members) : Reported(i)' <=> Reported(i)
        BY <1>1, <1>2, <1>3, ReportsKept, Zenon
  <2> QED BY <1>1, <1>2, <1>3, <2>1, HolderKept, Zenon
<1>9. Shape'
  <2>1. disconnected' \in SUBSET Issued
        BY <1>1, <1>2 DEF Shape
  <2> QED BY <1>1, <1>2, <1>3, <2>1, Zenon DEF Shape
<1> QED BY <1>4, <1>5, <1>6, <1>7, <1>8, <1>9, Zenon DEF IInv, Places

\* A target is shut down.
LEMMA CloseStep ==
  ASSUME IInv, NEW t \in Targets, Close(t)
  PROVE  IInv'
BY NothingButClosed DEF Close

\* A promise is made that nobody has yet.
LEMMA RolesMade ==
  ASSUME Shape, Roles, UNCHANGED <<value, chained, source, request>>, complete' = complete,
         NEW q \in Promises, kind[q] = "none",
         \A p \in Promises : p # q => kind'[p] = kind[p]
  PROVE  Roles'
<1>1. /\ Issued' = Issued
      /\ \A p \in Promises : p # q => (Follows(p)' <=> Follows(p))
      /\ \A p \in Promises : Settled(p)' <=> Settled(p)
      BY Zenon DEF Issued, Follows, Settled, Pending
<1>2. source[q] = NoPromise /\ ~Settled(q)
      BY Zenon DEF Roles, Follows
<1>3. ASSUME NEW p \in Promises
      PROVE  /\ source[p] # NoPromise => Follows(p)'
             /\ Follows(p)' /\ source[p] = NoPromise => ~Settled(p)
             /\ kind'[p] = "none" => ~Settled(p)
             /\ source[p] # NoPromise /\ Settled(p) => value[p] = value[source[p]]
  <2>1. CASE p = q
        BY <1>2, <2>1
  <2>2. CASE p # q
        BY <1>1, <2>2, Zenon DEF Roles
  <2> QED BY <2>1, <2>2
<1>4. ASSUME NEW r \in Issued, request[r].completion # NoPromise
      PROVE  /\ kind'[request[r].completion] = "completion"
             /\ r \notin complete => source[request[r].completion] = NoPromise
  <2>1. request[r].completion \in Promises
        BY <1>4, IssuedAre, Zenon
  <2>2. /\ kind[request[r].completion] = "completion"
        /\ r \notin complete => source[request[r].completion] = NoPromise
        BY <1>4, Zenon DEF Roles
  <2>3. request[r].completion # q
        BY <2>2
  <2> QED BY <2>1, <2>2, <2>3
<1>5. \A r, s \in Issued :
        request[r].completion = request[s].completion => r = s \/ request[r].completion = NoPromise
      BY Zenon DEF Roles
<1>6. \A x \in Promises : \A i \in 1 .. Len(chained[x]) : source[chained[x][i]] = x
      BY Zenon DEF Roles
<1> QED BY <1>1, <1>3, <1>4, <1>5, <1>6, Zenon DEF Roles

\* A proxy promise is made, and its call dispatched.
LEMMA InvokeStep ==
  ASSUME IInv, NEW q \in Promises, NEW t \in Targets, InvokeAsync(q, t)
  PROVE  IInv'
<1>1. Shape /\ Outcome /\ Mutexes /\ Places /\ Truth /\ Roles /\ Asked /\ Holder
      BY Zenon DEF IInv, Places
<1>2. /\ kind[q] = "none" /\ kind' = [kind EXCEPT ![q] = "proxy"]
      /\ UNCHANGED <<value, thens, chained, locked, source>>
      /\ UNCHANGED <<request, complete, disconnected, told, open, members, joined, held>>
      BY DEF InvokeAsync, requestVars, allVars
<1>3. Places' /\ Lasting /\ queue' \in [Targets -> Seq(Requests \cup Promises)]
      BY <1>1, CallQueued
<1>4. /\ kind' \in [Promises -> Kinds] /\ kind'[q] = "proxy"
      /\ \A p \in Promises : p # q => kind'[p] = kind[p]
      BY <1>1, <1>2 DEF Shape, Kinds
<1>5. \A a \in Promises : kind'[a] = "all" <=> kind[a] = "all"
      BY <1>2, <1>4
<1>6. Outcome' /\ Truth' /\ Roles' /\ Asked'
      BY <1>1, <1>2, <1>3, <1>4, <1>5, OutcomeKept, TruthKept, RolesMade, AskedKept, Zenon
<1>7. Mutexes'
      BY <1>1, <1>2, Zenon DEF Mutexes, Settled, Waits, Pending
<1>8. Holder'
  <2>1. \A i \in 1 .. Len(members) : Reported(i)' <=> Reported(i)
        BY <1>1, <1>2, <1>3, ReportsKept, Zenon
  <2> QED BY <1>1, <1>2, <1>3, <1>5, <2>1, HolderKept, Zenon
<1>9. Shape'
      BY <1>1, <1>2, <1>3, <1>4, Zenon DEF Shape, Issued
<1> QED BY <1>3, <1>6, <1>7, <1>8, <1>9, Zenon DEF IInv, Places

\* A consumer asks, and wants no completion promise, or one that is made for it.
LEMMA RolesAsked ==
  ASSUME Shape, Roles, NEW p \in Promises, NEW t \in Targets,
         NEW c \in Promises \cup {NoPromise}, NEW k \in Nat, Ask(p, t, c, k),
         c # NoPromise => kind[c] = "none" /\ kind'[c] = "completion",
         \A q \in Promises : q # c => kind'[q] = kind[q]
  PROVE  Roles'
<1>1. PICK n : n = Len(request) + 1
      OBVIOUS
<1>2. /\ n \notin Issued
      /\ Issued' = Issued \cup {n}
      /\ \A r \in Issued : request'[r] = request[r]
      /\ request'[n] = [on |-> p, target |-> t, completion |-> c, index |-> k]
      BY <1>1, Asks
<1>3. UNCHANGED <<value, chained, source, complete>>
      BY Zenon DEF Ask
<1>4. request'[n].completion = c
      BY <1>2
<1>5. /\ \A q \in Promises : q # c => (Follows(q)' <=> Follows(q))
      /\ \A q \in Promises : Settled(q)' <=> Settled(q)
      BY <1>3, Zenon DEF Follows, Settled, Pending
<1>6. c # NoPromise => c \in Promises /\ source[c] = NoPromise /\ ~Settled(c)
      BY Zenon DEF Roles, Follows
<1>7. ASSUME NEW q \in Promises
      PROVE  /\ source[q] # NoPromise => Follows(q)'
             /\ Follows(q)' /\ source[q] = NoPromise => ~Settled(q)
             /\ kind'[q] = "none" => ~Settled(q)
             /\ source[q] # NoPromise /\ Settled(q) => value[q] = value[source[q]]
  <2>1. CASE q = c
    <3>1. c # NoPromise
          BY <2>1, PromiseAssumption DEF Promises
    <3> QED BY <1>6, <2>1, <3>1
  <2>2. CASE q # c
        BY <1>5, <2>2, Zenon DEF Roles
  <2> QED BY <2>1, <2>2
<1>8. ASSUME NEW r \in Issued, request[r].completion # NoPromise
      PROVE  /\ kind'[request[r].completion] = "completion"
             /\ r \notin complete => source[request[r].completion] = NoPromise
             /\ request[r].completion # c
  <2>1. request[r].completion \in Promises
        BY <1>8, IssuedAre, Zenon
  <2>2. /\ kind[request[r].completion] = "completion"
        /\ r \notin complete => source[request[r].completion] = NoPromise
        BY <1>8, Zenon DEF Roles
  <2>3. request[r].completion # c
        BY <1>8, <2>2
  <2> QED BY <2>1, <2>2, <2>3
<1>9. ASSUME NEW r \in Issued', request'[r].completion # NoPromise
      PROVE  /\ kind'[request'[r].completion] = "completion"
             /\ r \notin complete' => source'[request'[r].completion] = NoPromise
  <2>1. CASE r = n
        BY <1>3, <1>4, <1>6, <1>9, <2>1
  <2>2. CASE r # n
        BY <1>2, <1>3, <1>8, <1>9, <2>2
  <2> QED BY <2>1, <2>2
<1>10. ASSUME NEW r \in Issued', NEW s \in Issued', request'[r].completion = request'[s].completion
       PROVE  r = s \/ request'[r].completion = NoPromise
  <2>1. CASE r \in Issued /\ s \in Issued
        BY <1>2, <1>10, <2>1 DEF Roles
  <2>2. CASE r = n \/ s = n
        BY <1>2, <1>4, <1>8, <1>10, <2>2
  <2> QED BY <1>2, <2>1, <2>2
<1>11. \A x \in Promises : \A i \in 1 .. Len(chained[x]) : source[chained[x][i]] = x
      BY Zenon DEF Roles
<1> QED BY <1>3, <1>5, <1>7, <1>9, <1>10, <1>11, Zenon DEF Roles

\* Nobody comes to wait for a promise that is settled.
LEMMA MutexesAsked ==
  ASSUME Shape, Mutexes, NEW p \in Promises, NEW t \in Targets, NEW c, NEW k, Ask(p, t, c, k)
  PROVE  Mutexes'
<1>1. /\ p \notin locked /\ Enlist(p, Len(request) + 1)
      /\ UNCHANGED <<value, chained, locked>>
      BY Zenon DEF Ask
<1>2. \A q \in Promises : Settled(q)' <=> Settled(q)
      BY <1>1, Zenon DEF Settled, Pending
<1>3. ASSUME NEW q \in Promises, Settled(q)
      PROVE  Waits(q)' <=> Waits(q)
  <2>1. thens'[q] = thens[q]
    <3>1. CASE Settled(p)
          BY <1>1, <3>1, Zenon DEF Enlist
    <3>2. CASE ~Settled(p)
      <4>1. thens' = [thens EXCEPT ![p] = Append(@, Len(request) + 1)]
            BY <1>1, <3>2, Zenon DEF Enlist
      <4> QED BY <1>3, <3>2, <4>1 DEF Shape
    <3> QED BY <3>1, <3>2
  <2> QED BY <1>1, <2>1, Zenon DEF Waits
<1> QED BY <1>1, <1>2, <1>3, Zenon DEF Mutexes

\* A request is issued.
LEMMA AskStep ==
  ASSUME IInv, NEW p \in Promises, NEW t \in Targets,
         NEW c \in Promises \cup {NoPromise}, NEW k \in Nat, Ask(p, t, c, k),
         kind' \in [Promises -> Kinds],
         c # NoPromise => kind[c] = "none" /\ kind'[c] = "completion",
         \A q \in Promises : q # c => kind'[q] = kind[q],
         \/ k = 0 /\ joined' = joined
         \/ /\ k = joined + 1 /\ joined' = k /\ k <= Len(members)
            /\ p = members[k] /\ c = NoPromise,
         UNCHANGED <<members, held>>
  PROVE  IInv'
<1>1. Shape /\ Outcome /\ Mutexes /\ Places /\ Truth /\ Roles /\ Asked /\ Holder
      BY Zenon DEF IInv, Places
<1>2. PICK n : n = Len(request) + 1
      OBVIOUS
<1>3. /\ n \in Requests /\ n \notin Issued
      /\ Issued' = Issued \cup {n}
      /\ \A r \in Issued : r < n /\ request'[r] = request[r]
      /\ request'[n] = [on |-> p, target |-> t, completion |-> c, index |-> k]
      /\ request' \in Seq(RequestRecords) /\ Len(request') <= MaxThens
      BY <1>1, <1>2, Asks
<1>4. UNCHANGED <<value, chained, locked, source, complete, disconnected, told, open>>
      BY Zenon DEF Ask
<1>5. /\ \A q \in Promises : kind[q] # "none" => kind'[q] = kind[q]
      /\ \A q \in Promises : kind'[q] = "all" <=> kind[q] = "all"
  <2>1. ASSUME NEW q \in Promises
        PROVE  /\ kind[q] # "none" => kind'[q] = kind[q]
               /\ kind'[q] = "all" <=> kind[q] = "all"
    <3>1. CASE q = c
      <4>1. kind[q] = "none" /\ kind'[q] = "completion"
            BY <3>1, PromiseAssumption DEF Promises
      <4> QED BY <4>1
    <3>2. CASE q # c
          BY <3>2
    <3> QED BY <3>1, <3>2
  <2> QED BY <2>1
<1>6. Places' /\ Lasting /\ thens' \in [Promises -> Seq(Requests)]
      BY <1>1, <1>5, AskedInLine, Zenon
<1>7. Outcome' /\ Truth' /\ Mutexes' /\ Roles'
      BY <1>1, <1>4, <1>6, OutcomeKept, TruthKept, MutexesAsked, RolesAsked, Zenon
<1>8. Holder'
  <2>1. \A i \in 1 .. Len(members) : Reported(i)' <=> Reported(i)
        BY <1>1, <1>4, <1>6, ReportsKept, Zenon
  <2> QED BY <1>1, <1>4, <1>5, <1>6, <2>1, HolderKept, Zenon
<1>9. joined \in Nat /\ joined <= Len(members) /\ Len(members) \in Nat
      BY <1>1 DEF Shape, Asked
<1>10. joined' \in Nat /\ joined <= joined' /\ joined' <= Len(members)
      BY <1>9
<1>11. queue' \in [Targets -> Seq(Requests \cup Promises)]
  <2>1. queue \in [Targets -> Seq(Requests \cup Promises)] /\ n \in Requests \cup Promises
        BY <1>1, <1>3, Zenon DEF Shape
  <2>2. Enlist(p, n) /\ request'[n].target = t
        BY <1>2, <1>3 DEF Ask
  <2>3. CASE queue' = [queue EXCEPT ![t] = Append(@, n)]
        BY <2>1, <2>3, Grow
  <2>4. queue' = queue \/ queue' = [queue EXCEPT ![t] = Append(@, n)]
        BY <2>2, Zenon DEF Enlist
  <2> QED BY <2>1, <2>3, <2>4
<1>12. Shape'
  <2>1. complete' \in SUBSET Issued' /\ disconnected' \in SUBSET Issued'
        BY <1>1, <1>3, <1>4, Zenon DEF Shape
  <2> QED BY <1>1, <1>3, <1>4, <1>6, <1>10, <1>11, <2>1, Zenon DEF Shape
<1>13. Asked'
  <2>1. n \notin disconnected
        BY <1>1, <1>3 DEF Shape
  <2>2. request'[n].on = p /\ request'[n].completion = c /\ request'[n].index = k
        BY <1>3
  <2>3. ASSUME NEW r \in Issued, request[r].index # 0
        PROVE  /\ request[r].index <= joined' /\ request[r].on = members[request[r].index]
               /\ request[r].completion = NoPromise /\ r \notin disconnected
               /\ request[r].index <= joined
    <3>1. /\ request[r].index <= joined /\ request[r].on = members[request[r].index]
          /\ request[r].completion = NoPromise /\ r \notin disconnected
          BY <1>1, <2>3, Zenon DEF Asked
    <3>2. request[r].index \in Nat
          BY <1>1, IssuedAre
    <3> QED BY <1>9, <1>10, <3>1, <3>2
  <2>4. ASSUME NEW r \in Issued', request'[r].index # 0
        PROVE  /\ request'[r].index <= joined' /\ request'[r].on = members[request'[r].index]
               /\ request'[r].completion = NoPromise /\ r \notin disconnected
    <3>1. CASE r = n
      <4>1. k = joined' /\ p = members[k] /\ c = NoPromise /\ joined' \in Nat
            BY <1>10, <2>2, <2>4, <3>1
      <4> QED BY <2>1, <2>2, <3>1, <4>1
    <3>2. CASE r # n
          BY <1>3, <2>3, <2>4, <3>2
    <3> QED BY <3>1, <3>2
  <2>5. ASSUME NEW r \in Issued', NEW s \in Issued', request'[r].index = request'[s].index
        PROVE  r = s \/ request'[r].index = 0
    <3>1. CASE r \in Issued /\ s \in Issued
          BY <1>1, <1>3, <2>5, <3>1 DEF Asked
    <3>2. ASSUME NEW u \in Issued, request[u].index = k
          PROVE  k = 0
          BY <1>9, <2>3, <3>2
    <3>3. CASE r = n \/ s = n
          BY <1>3, <2>2, <2>5, <3>2, <3>3
    <3> QED BY <1>3, <3>1, <3>3
  <2>6. ASSUME NEW i \in 1 .. Len(members)
        PROVE  kind'[members[i]] \notin {"none", "all"}
    <3>1. members[i] \in Promises
          BY <1>1 DEF Shape
    <3> QED BY <1>1, <1>5, <3>1, Zenon DEF Asked
  <2>7. /\ \A a \in Promises : kind'[a] = "all" => members # <<>>
        /\ \A a, b \in Promises : kind'[a] = "all" /\ kind'[b] = "all" => a = b
        BY <1>1, <1>5, Zenon DEF Asked
  <2> QED BY <1>4, <1>10, <2>4, <2>5, <2>6, <2>7, Zenon DEF Asked
<1> QED BY <1>6, <1>7, <1>8, <1>12, <1>13, Zenon DEF IInv, Places

\* A consumer calls Then.
LEMMA ThenSteps ==
  ASSUME IInv, NEW p \in Promises, NEW t \in Targets, NEW c \in Promises,
         Then(p, t) \/ ThenForPromise(p, t, c)
  PROVE  IInv'
<1>1. kind \in [Promises -> Kinds]
      BY Zenon DEF IInv, Shape
<1>2. CASE Then(p, t)
  <2>1. Ask(p, t, NoPromise, 0) /\ UNCHANGED <<kind, members, joined, held>>
        BY <1>2 DEF Then, allVars
  <2>2. NoPromise \notin Promises
        BY PromiseAssumption DEF Promises
  <2> QED BY <1>1, <2>1, <2>2, AskStep
<1>3. CASE ThenForPromise(p, t, c)
  <2>1. /\ kind[c] = "none" /\ kind' = [kind EXCEPT ![c] = "completion"]
        /\ Ask(p, t, c, 0) /\ UNCHANGED <<members, joined, held>>
        BY <1>3 DEF ThenForPromise, allVars
  <2>2. /\ kind' \in [Promises -> Kinds] /\ kind'[c] = "completion"
        /\ \A q \in Promises : q # c => kind'[q] = kind[q]
        BY <1>1, <2>1 DEF Kinds
  <2> QED BY <2>1, <2>2, AskStep
<1> QED BY <1>2, <1>3

\* All calls Then on the next member.
LEMMA JoinStep ==
  ASSUME IInv, NEW t \in Targets, JoinNext(t)
  PROVE  IInv'
<1>1. /\ kind \in [Promises -> Kinds] /\ members \in Seq(Promises) /\ joined \in Nat
      /\ Len(members) \in Nat
      BY DEF IInv, Shape
<1>2. /\ joined < Len(members)
      /\ Ask(members[joined + 1], t, NoPromise, joined + 1)
      /\ joined' = joined + 1 /\ UNCHANGED <<kind, members, held>>
      BY Zenon DEF JoinNext
<1>3. PICK k : k = joined + 1
      OBVIOUS
<1>4. k \in Nat /\ k \in 1 .. Len(members) /\ k <= Len(members)
      BY <1>1, <1>2, <1>3
<1>5. PICK p \in Promises : p = members[k]
      BY <1>1, <1>4
<1>6. NoPromise \notin Promises
      BY PromiseAssumption DEF Promises
<1> QED BY <1>1, <1>2, <1>3, <1>4, <1>5, <1>6, AskStep

\* All makes its promise and the holder.
LEMMA AllStep ==
  ASSUME IInv, NEW n \in 1 .. MaxMembers, NEW a \in Promises,
         NEW ps \in TupleOf({q \in Promises : Available(q)}, n), All(ps, a)
  PROVE  IInv'
<1>1. Shape /\ Outcome /\ Mutexes /\ Places /\ Truth /\ Roles /\ Asked /\ Holder
      BY Zenon DEF IInv, Places
<1>2. /\ members = <<>> /\ kind[a] = "none" /\ members' = ps
      /\ held' = [promise |-> a, values |-> [i \in DOMAIN ps |-> <<>>], outstanding |-> Len(ps)]
      /\ kind' = [kind EXCEPT ![a] = "all"]
      /\ UNCHANGED <<value, thens, chained, locked, source, joined>>
      /\ UNCHANGED <<request, complete, disconnected, told, queue, open>>
      BY DEF All, requestVars, targetVars
<1>3. n \in Nat /\ n # 0 /\ DOMAIN ps = 1 .. n /\ Len(ps) = n /\ ps \in Seq(Promises)
      /\ \A i \in 1 .. n : ps[i] \in Promises /\ kind[ps[i]] # "none"
  <2>1. n \in Nat /\ n # 0
        BY PromiseAssumption
  <2>2. ps \in [1 .. n -> {q \in Promises : Available(q)}]
        BY Zenon DEF TupleOf
  <2>3. \A i \in 1 .. n : ps[i] \in Promises /\ kind[ps[i]] # "none"
        BY <2>2, Zenon DEF Available
  <2>4. ps \in [1 .. n -> Promises]
        BY <2>2
  <2>5. DOMAIN ps = 1 .. n /\ Len(ps) = n /\ ps \in Seq(Promises)
        BY <2>1, <2>4
  <2> QED BY <2>1, <2>3, <2>5
<1>4. \A b \in Promises : kind[b] # "all"
      BY <1>1, <1>2, Zenon DEF Asked
<1>5. /\ kind' \in [Promises -> Kinds] /\ kind'[a] = "all"
      /\ \A p \in Promises : p # a => kind'[p] = kind[p]
      BY <1>1, <1>2 DEF Shape, Kinds
<1>6. Lasting /\ Issued' = Issued
      BY <1>2, <1>5, Zenon DEF Lasting, Issued
<1>7. Outcome' /\ Truth' /\ Roles'
      BY <1>1, <1>2, <1>5, <1>6, OutcomeKept, TruthKept, RolesMade, Zenon
<1>8. Places'
      BY <1>1, <1>2, <1>6, NothingMoved, Zenon
<1>9. Mutexes'
      BY <1>1, <1>2, Zenon DEF Mutexes, Settled, Waits, Pending
<1>10. joined = 0
  <2>1. Len(members) = 0
        BY <1>2
  <2>2. joined \in Nat /\ joined <= Len(members)
        BY <1>1 DEF Asked, Shape
  <2> QED BY <2>1, <2>2
<1>11. \A r \in Issued : request[r].index = 0
  <2>1. ASSUME NEW r \in Issued, request[r].index # 0
        PROVE  FALSE
    <3>1. request[r].index \in Nat
          BY <1>1, IssuedAre
    <3>2. request[r].index <= joined
          BY <1>1, <2>1, Zenon DEF Asked
    <3> QED BY <1>10, <2>1, <3>1, <3>2
  <2> QED BY <2>1
<1>12. Asked'
  <2>1. \A b, c \in Promises : kind'[b] = "all" /\ kind'[c] = "all" => b = c
        BY <1>4, <1>5, Zenon
  <2>2. \A i \in 1 .. n : kind'[ps[i]] \notin {"none", "all"}
    <3>1. ASSUME NEW i \in 1 .. n
          PROVE  kind'[ps[i]] \notin {"none", "all"}
      <4>1. ps[i] # a
            BY <1>2, <1>3
      <4>2. kind'[ps[i]] = kind[ps[i]]
            BY <1>3, <1>5, <4>1
      <4> QED BY <1>3, <1>4, <4>2
    <3> QED BY <3>1
  <2>3. ps # <<>>
        BY <1>3
  <2>4. joined <= n
        BY <1>3, <1>10
  <2>5. Len(members') = n
        BY <1>2, <1>3
  <2> QED BY <1>2, <1>6, <1>11, <2>1, <2>2, <2>3, <2>4, <2>5, Zenon DEF Asked
<1>13. Holder'
  <2>1. ASSUME NEW i \in 1 .. n
        PROVE  ~Reported(i)'
    <3>1. i # 0
          BY <1>3
    <3>2. \A r \in complete : request[r].index = 0
          BY <1>1, <1>11, Zenon DEF Shape
    <3> QED BY <1>2, <3>1, <3>2, Zenon DEF Reported
  <2>2. Missing' = 1 .. n
        BY <1>2, <1>3, <2>1 DEF Missing
  <2>3. Cardinality(Missing') = n
    <3>1. Cardinality(1 .. n) = n
          BY <1>3, FS_Interval
    <3> QED BY <2>2, <3>1
  <2>4. ~Settled(a)
        BY <1>1, <1>2, Zenon DEF Roles
  <2>5. /\ held'.promise = a /\ held'.outstanding = n
        /\ held'.values = [i \in 1 .. n |-> <<>>]
        BY <1>2, <1>3
  <2>6. held'.values = [i \in 1 .. n |-> held'.values[i]]
        BY <2>5
  <2>7. /\ kind'[held'.promise] = "all" /\ ~Settled(held.promise)'
        /\ held'.outstanding = Cardinality(Missing') /\ held'.outstanding # 0
        BY <1>2, <1>3, <1>5, <2>3, <2>4, <2>5 DEF Settled, Pending
  <2>8. value'[a].how # "resolve" /\ value'[a].how # "reject"
        BY <1>2, <2>4 DEF Settled, Pending
  <2>9. \A b \in Promises : kind'[b] = "all" => b = a
        BY <1>4, <1>5, Zenon
  <2>10. Len(members') = n
        BY <1>2, <1>3
  <2> QED BY <2>1, <2>5, <2>6, <2>7, <2>8, <2>9, <2>10, Zenon DEF Holder
<1>14. Shape'
  <2>1. /\ held'.promise \in Promises \cup {NoPromise} /\ held'.outstanding \in Nat
        /\ held' = [promise |-> held'.promise, values |-> held'.values, outstanding |-> held'.outstanding]
        BY <1>2, <1>3
  <2> QED BY <1>1, <1>2, <1>3, <1>5, <1>6, <2>1, Zenon DEF Shape
<1> QED BY <1>7, <1>8, <1>9, <1>12, <1>13, <1>14, Zenon DEF IInv, Places

-----------------------------------------------------------------------------
(* What the targets run *)

\* What a target runs was under way until then.
LEMMA Runs ==
  ASSUME Shape, Places, NEW t \in Targets, NEW e \in Requests \cup Promises, RunsNext(t, e)
  PROVE  /\ e \in Requests => /\ e \in Issued \ complete
                              /\ Settled(request[e].on)
         /\ e \in Promises => kind[e] = "proxy" /\ source[e] = NoPromise
         /\ queue' \in [Targets -> Seq(Requests \cup Promises)]
<1>1. queue \in [Targets -> Seq(Requests \cup Promises)]
      BY Zenon DEF Shape
<1>2. /\ queue[t] # <<>> /\ Head(queue[t]) = e
      /\ queue' = [queue EXCEPT ![t] = Tail(@)]
      BY Zenon DEF RunsNext
<1>3. /\ queue' \in [Targets -> Seq(Requests \cup Promises)]
      /\ 1 \in 1 .. Len(queue[t]) /\ queue[t][1] = e
      BY <1>1, <1>2, Shrink
<1>4. /\ e \in Requests => IsAnswer(t, 1)
      /\ e \in Promises => IsCall(t, 1)
      BY <1>3, QueueElements
<1>5. IsAnswer(t, 1) => e \in Issued \ complete /\ Settled(request[e].on)
      BY <1>3 DEF IsAnswer
<1>6. IsCall(t, 1) => kind[e] = "proxy" /\ source[e] = NoPromise
      BY <1>3 DEF IsCall
<1> QED BY <1>3, <1>4, <1>5, <1>6, Zenon

\* q follows x, and so it has no other to settle it.
LEMMA RolesChained ==
  ASSUME Shape, Roles, UNCHANGED <<kind, value, request>>, complete \subseteq complete',
         NEW q \in Promises, Follows(q), source[q] = NoPromise,
         NEW x \in Promises, ChainTo(x, q),
         \A r \in Issued : request[r].completion = q => r \in complete'
  PROVE  Roles' /\ chained' \in [Promises -> Seq(Promises)]
         /\ source' \in [Promises -> Promises \cup {NoPromise}]
         /\ \A p \in Promises : p # q => source'[p] = source[p]
<1>1. /\ chained' = [chained EXCEPT ![x] = Append(@, q)]
      /\ source' = [source EXCEPT ![q] = x]
      BY Zenon DEF ChainTo
<1>2. /\ chained' \in [Promises -> Seq(Promises)]
      /\ \A y \in Promises : y # x => chained'[y] = chained[y]
      /\ Len(chained[x]) \in Nat /\ Len(chained'[x]) = Len(chained[x]) + 1
      /\ \A i \in 1 .. Len(chained[x]) : chained'[x][i] = chained[x][i]
      /\ chained'[x][Len(chained[x]) + 1] = q
  <2>1. chained \in [Promises -> Seq(Promises)]
        BY Zenon DEF Shape
  <2> QED BY <1>1, <2>1, Grow
<1>3. /\ source' \in [Promises -> Promises \cup {NoPromise}]
      /\ source'[q] = x /\ \A p \in Promises : p # q => source'[p] = source[p]
      BY <1>1 DEF Shape
<1>4. /\ Issued' = Issued
      /\ \A p \in Promises : (Follows(p)' <=> Follows(p)) /\ (Settled(p)' <=> Settled(p))
      BY Zenon DEF Issued, Follows, Settled, Pending
<1>5. ~Settled(q) /\ NoPromise \notin Promises
      BY PromiseAssumption DEF Promises, Roles
<1>6. ASSUME NEW p \in Promises
      PROVE  /\ source'[p] # NoPromise => Follows(p)
             /\ Follows(p) /\ source'[p] = NoPromise => ~Settled(p)
             /\ kind[p] = "none" => ~Settled(p)
             /\ source'[p] # NoPromise /\ Settled(p) => value[p] = value[source'[p]]
  <2>1. CASE p = q
        BY <1>3, <1>5, <2>1
  <2>2. CASE p # q
        BY <1>3, <2>2, Zenon DEF Roles
  <2> QED BY <2>1, <2>2
<1>7. ASSUME NEW y \in Promises, NEW i \in 1 .. Len(chained[y])
      PROVE  source'[chained[y][i]] = y
  <2>1. chained[y][i] \in Promises /\ source[chained[y][i]] = y
    <3>1. chained[y] \in Seq(Promises)
          BY DEF Shape
    <3> QED BY <3>1 DEF Roles
  <2>2. chained[y][i] # q
        BY <1>5, <2>1, Zenon
  <2> QED BY <1>3, <2>1, <2>2
<1>8. ASSUME NEW y \in Promises, NEW i \in 1 .. Len(chained'[y])
      PROVE  source'[chained'[y][i]] = y
  <2>1. CASE y # x
        BY <1>2, <1>7, <2>1
  <2>2. CASE y = x /\ i \in 1 .. Len(chained[x])
        BY <1>2, <1>7, <2>2
  <2>3. CASE y = x /\ i = Len(chained[x]) + 1
        BY <1>2, <1>3, <2>3
  <2> QED BY <1>2, <2>1, <2>2, <2>3
<1>9. ASSUME NEW r \in Issued, request[r].completion # NoPromise
      PROVE  /\ kind[request[r].completion] = "completion"
             /\ r \notin complete' => source'[request[r].completion] = NoPromise
  <2>1. request[r].completion \in Promises
        BY <1>9, IssuedAre, Zenon
  <2>2. /\ kind[request[r].completion] = "completion"
        /\ r \notin complete' => source[request[r].completion] = NoPromise
        BY <1>9, Zenon DEF Roles
  <2>3. r \notin complete' => request[r].completion # q
        BY Zenon
  <2> QED BY <1>3, <2>1, <2>2, <2>3, Zenon
<1>10. \A r, s \in Issued :
         request[r].completion = request[s].completion => r = s \/ request[r].completion = NoPromise
      BY Zenon DEF Roles
<1>11. Roles'
      BY <1>4, <1>6, <1>8, <1>9, <1>10, Zenon DEF Roles
<1> QED BY <1>2, <1>3, <1>11

\* A settled promise that gets a follower is locked until it has forwarded to it.
LEMMA MutexesChained ==
  ASSUME Shape, Mutexes, UNCHANGED <<value, thens>>,
         NEW q \in Promises, NEW x \in Promises, ChainTo(x, q)
  PROVE  Mutexes' /\ locked' \in SUBSET Promises
<1>1. /\ x \notin locked
      /\ chained' = [chained EXCEPT ![x] = Append(@, q)]
      /\ locked' = IF Settled(x) THEN locked \cup {x} ELSE locked
      BY Zenon DEF ChainTo
<1>2. /\ \A y \in Promises : y # x => chained'[y] = chained[y]
      /\ chained'[x] # <<>>
  <2>1. chained \in [Promises -> Seq(Promises)]
        BY Zenon DEF Shape
  <2>2. /\ \A y \in Promises : y # x => chained'[y] = chained[y]
        /\ Len(chained[x]) \in Nat /\ Len(chained'[x]) = Len(chained[x]) + 1
        BY <1>1, <2>1, Grow
  <2> QED BY <2>2
<1>3. \A y \in Promises : Settled(y)' <=> Settled(y)
      BY Zenon DEF Settled, Pending
<1>4. \A y \in Promises : y # x => (Waits(y)' <=> Waits(y)) /\ (y \in locked' <=> y \in locked)
      BY <1>1, <1>2, Zenon DEF Waits
<1>5. Waits(x)'
      BY <1>2, Zenon DEF Waits
<1>6. x \in locked' <=> Settled(x)
      BY <1>1, Zenon
<1>7. Mutexes'
      BY <1>3, <1>4, <1>5, <1>6, Zenon DEF Mutexes
<1>8. locked' \in SUBSET Promises
      BY <1>1 DEF Shape
<1> QED BY <1>7, <1>8

\* A target makes the call of a proxy.
LEMMA CallStep ==
  ASSUME IInv, NEW t \in Targets, NEW q \in Promises, RunCall(t, q)
  PROVE  IInv'
<1>1. Shape /\ Outcome /\ Mutexes /\ Places /\ Truth /\ Roles /\ Asked /\ Holder
      BY Zenon DEF IInv, Places
<1>2. PICK x \in Promises : ChainTo(x, q)
      BY Zenon DEF RunCall
<1>3. /\ RunsNext(t, q)
      /\ UNCHANGED <<kind, value, thens, request, complete, disconnected, told>>
      /\ UNCHANGED <<open, members, joined, held>>
      BY DEF RunCall, requestVars, allVars
<1>4. q \notin Requests
      BY PromiseAssumption DEF Promises, Requests
<1>5. /\ kind[q] = "proxy" /\ source[q] = NoPromise
      /\ queue' \in [Targets -> Seq(Requests \cup Promises)]
      BY <1>1, <1>3, Runs
<1>6. Lasting /\ Issued' = Issued
      BY <1>1, <1>3, NothingLost, Zenon DEF Issued
<1>7. Roles' /\ chained' \in [Promises -> Seq(Promises)]
         /\ source' \in [Promises -> Promises \cup {NoPromise}]
         /\ \A p \in Promises : p # q => source'[p] = source[p]
  <2>1. Follows(q)
        BY <1>5 DEF Follows
  <2>2. ASSUME NEW r \in Issued, request[r].completion = q
        PROVE  FALSE
    <3>1. q # NoPromise
          BY PromiseAssumption DEF Promises
    <3>2. kind[q] = "completion"
          BY <1>1, <2>2, <3>1, Zenon DEF Roles
    <3> QED BY <1>5, <3>2
  <2> QED BY <1>1, <1>2, <1>3, <1>5, <2>1, <2>2, RolesChained
<1>8. Mutexes' /\ locked' \in SUBSET Promises
      BY <1>1, <1>2, <1>3, MutexesChained
<1>9. Places'
      BY <1>1, <1>3, <1>4, <1>6, <1>7, QueueShrinks
<1>10. Outcome' /\ Truth' /\ Asked'
      BY <1>1, <1>3, <1>6, OutcomeKept, TruthKept, AskedKept, Zenon
<1>11. Holder'
  <2>1. \A i \in 1 .. Len(members) : Reported(i)' <=> Reported(i)
        BY <1>1, <1>3, <1>6, ReportsKept, Zenon
  <2> QED BY <1>1, <1>3, <1>6, <2>1, HolderKept, Zenon
<1>12. Shape'
      BY <1>1, <1>3, <1>5, <1>6, <1>7, <1>8, Zenon DEF Shape
<1> QED BY <1>7, <1>8, <1>9, <1>10, <1>11, <1>12, Zenon DEF IInv, Places

\* What every run of a request does, whatever it tells.
LEMMA Completed ==
  ASSUME IInv, NEW t \in Targets, NEW r \in Requests, RunRequest(t, r)
  PROVE  /\ r \in Issued \ complete /\ Settled(request[r].on)
         /\ complete' = complete \cup {r}
         /\ queue' \in [Targets -> Seq(Requests \cup Promises)]
         /\ UNCHANGED <<kind, thens, request, disconnected, open, members, joined>>
         /\ \A i : Reported(i)' <=> Reported(i) \/ i = request[r].index
<1>1. /\ RunsNext(t, r) /\ complete' = complete \cup {r}
      /\ UNCHANGED <<kind, thens, request, disconnected, open, members, joined>>
      BY DEF RunRequest
<1>2. /\ r \in Issued \ complete /\ Settled(request[r].on)
      /\ queue' \in [Targets -> Seq(Requests \cup Promises)]
      BY <1>1, Runs DEF IInv, Places
<1>3. \A i : Reported(i)' <=> Reported(i) \/ i = request[r].index
      BY <1>1 DEF Reported
<1> QED BY <1>1, <1>2, <1>3

\* A request is told the answer, or what it is owed when it has disconnected.
LEMMA TruthTold ==
  ASSUME Shape, Truth, Lasting, NEW r \in Issued, Settled(request[r].on),
         complete' = complete \cup {r}, disconnected' = disconnected, request' = request,
         \/ ~Listens(r) /\ told' = told
         \/ Listens(r) /\ told' = [told EXCEPT ![r] = value[request[r].on]]
  PROVE  Truth' /\ told' = [s \in Requests |-> told'[s]]
<1>1. told = [s \in Requests |-> told[s]] /\ r \in Requests
      BY IssuedAre, Zenon DEF Shape
<1>2. \/ told' = told
      \/ told'[r] = value[request[r].on] /\ \A s \in Requests : s # r => told'[s] = told[s]
      BY <1>1
<1>3. told' = [s \in Requests |-> told'[s]]
      BY <1>1
<1>4. request[r].on \in Promises /\ value'[request[r].on] = value[request[r].on]
      BY IssuedAre DEF Lasting
<1>5. ASSUME NEW s \in Requests, told[s] # Pending
      PROVE  s \in complete /\ told[s] = value'[request[s].on]
  <2>1. s \in complete /\ told[s] = value[request[s].on] /\ s \in Issued
        BY <1>5 DEF Truth, Shape
  <2>2. request[s].on \in Promises /\ Settled(request[s].on)
        BY <1>5, <2>1, IssuedAre DEF Settled
  <2> QED BY <2>1, <2>2 DEF Lasting
<1>6. ASSUME NEW s \in Requests, told'[s] # Pending
      PROVE  s \in complete' /\ told'[s] = value'[request'[s].on]
  <2>1. CASE told'[s] = told[s]
        BY <1>5, <1>6, <2>1
  <2>2. CASE s = r /\ told'[r] = value[request[r].on]
        BY <1>4, <2>2
  <2> QED BY <1>2, <2>1, <2>2
<1>7. ASSUME NEW s \in disconnected
      PROVE  told'[s] = Pending
  <2>1. told[s] = Pending /\ s \in Requests
        BY IssuedAre DEF Truth, Shape
  <2>2. s = r => told' = told
        BY Zenon DEF Listens
  <2> QED BY <1>2, <2>1, <2>2
<1>8. Truth'
      BY <1>6, <1>7, Zenon DEF Truth, Pending
<1> QED BY <1>3, <1>8

\* A request that All did not make leaves its holder alone.
LEMMA ConsumerTold ==
  ASSUME IInv, NEW t \in Targets, NEW r \in Requests, RunRequest(t, r),
         value' = value, held' = held,
         held.promise = NoPromise \/ request[r].index = 0
  PROVE  Outcome' /\ Asked' /\ Holder' /\ Lasting
<1>1. Shape /\ Outcome /\ Asked /\ Holder
      BY Zenon DEF IInv
<1>2. /\ r \in Issued \ complete /\ complete' = complete \cup {r}
      /\ UNCHANGED <<kind, request, disconnected, members, joined>>
      /\ \A i : Reported(i)' <=> Reported(i) \/ i = request[r].index
      BY Completed
<1>3. Lasting
      BY <1>1, <1>2, NothingLost, Zenon
<1>4. Outcome' /\ Asked'
      BY <1>1, <1>2, <1>3, OutcomeKept, AskedKept, Zenon
<1>5. CASE request[r].index = 0
  <2>1. \A i \in 1 .. Len(members) : i # 0
        BY <1>1 DEF Shape
  <2>2. \A i \in 1 .. Len(members) : Reported(i)' <=> Reported(i)
        BY <1>2, <1>5, <2>1, Zenon
  <2>3. Holder'
        BY <1>1, <1>2, <1>3, <2>2, HolderKept, Zenon
  <2> QED BY <1>3, <1>4, <2>3
<1>6. CASE held.promise = NoPromise
  <2>1. Holder'
        BY <1>1, <1>2, <1>6, Zenon DEF Holder, Settled, Pending
  <2> QED BY <1>3, <1>4, <2>1
<1> QED BY <1>5, <1>6

\* What the holder has at hand when a member reports.
LEMMA MemberReports ==
  ASSUME IInv, NEW r \in Issued \ complete, Settled(request[r].on), request[r].index # 0,
         held.promise # NoPromise,
         NEW i, i = request[r].index, NEW a, a = held.promise
  PROVE  /\ i \in Missing /\ i \in 1 .. Len(members) /\ members[i] = request[r].on
         /\ members[i] \in Promises /\ Settled(members[i])
         /\ a \in Promises /\ kind[a] = "all" /\ ~Settled(a)
         /\ IsFiniteSet(Missing) /\ held.outstanding = Cardinality(Missing)
         /\ held.outstanding \in Nat /\ held.outstanding # 0
<1>1. Shape /\ Asked /\ Holder
      BY Zenon DEF IInv
<1>2. /\ i <= joined /\ members[i] = request[r].on
      BY <1>1, Zenon DEF Asked
<1>3. i \in Nat /\ joined \in Nat /\ Len(members) \in Nat /\ joined <= Len(members)
      BY <1>1, IssuedAre DEF Shape, Asked
<1>4. i \in 1 .. Len(members)
      BY <1>2, <1>3
<1>5. members[i] \in Promises
      BY <1>1, <1>4 DEF Shape
<1>6. ~Reported(i)
  <2> SUFFICES ASSUME NEW s \in complete, request[s].index = i
               PROVE  FALSE
      BY Zenon DEF Reported
  <2>1. s \in Issued
        BY <1>1 DEF Shape
  <2>2. s = r
        BY <1>1, <2>1, Zenon DEF Asked
  <2> QED BY <2>2
<1>7. i \in Missing
      BY <1>4, <1>6, Zenon DEF Missing
<1>8. IsFiniteSet(Missing)
  <2>1. IsFiniteSet(1 .. Len(members))
        BY <1>3, FS_Interval
  <2>2. Missing \in SUBSET (1 .. Len(members))
        BY DEF Missing
  <2> QED BY <2>1, <2>2, FS_Subset, Zenon
<1>9. /\ a \in Promises /\ kind[a] = "all" /\ ~Settled(a)
      /\ held.outstanding = Cardinality(Missing)
      /\ held.outstanding \in Nat /\ held.outstanding # 0
  <2>1. a \in Promises /\ held.outstanding \in Nat
        BY <1>1 DEF Shape
  <2> QED BY <1>1, <2>1, Zenon DEF Holder
<1> QED BY <1>2, <1>4, <1>5, <1>7, <1>8, <1>9, Zenon

\* The holder settles the promise of All, and lets it go.
LEMMA AllSettled ==
  ASSUME IInv, NEW t \in Targets, NEW r \in Requests, RunRequest(t, r),
         NEW a \in Promises, kind[a] = "all", ~Settled(a),
         NEW o, o.how \in {"resolve", "reject"}, Settle(a, o),
         held'.promise = NoPromise,
         UNCHANGED <<chained, source>>,
         o.how = "resolve" =>
           /\ \A j \in 1 .. Len(members) : value[members[j]].how = "resolve"
           /\ o.of = FlattenSeq([j \in 1 .. Len(members) |-> value[members[j]].of]),
         o.how = "reject" => \E j \in 1 .. Len(members) : Settled(members[j]) /\ value[members[j]] = o
  PROVE  /\ Outcome' /\ Asked' /\ Holder' /\ Lasting /\ Roles' /\ Mutexes'
         /\ locked' \in SUBSET Promises /\ value' = [p \in Promises |-> value'[p]]
<1>1. Shape /\ Outcome /\ Asked /\ Holder /\ Roles /\ Mutexes
      BY Zenon DEF IInv
<1>2. /\ complete' = complete \cup {r}
      /\ UNCHANGED <<kind, thens, request, disconnected, members, joined>>
      BY Completed
<1>3. /\ value'[a] = o /\ \A p \in Promises : p # a => value'[p] = value[p]
      /\ value' = [p \in Promises |-> value'[p]]
      BY <1>1, Settles
<1>4. Lasting
      BY <1>2, <1>3, Zenon DEF Lasting, Issued
<1>5. Outcome' /\ o # Pending
      BY <1>1, <1>3, OutcomeSettled DEF Pending
<1>6. Asked'
      BY <1>1, <1>2, <1>4, AskedKept, Zenon
<1>7. Mutexes' /\ locked' \in SUBSET Promises
      BY <1>1, <1>2, MutexesSettled
<1>8. Roles'
  <2>1. ~Follows(a) /\ kind[a] # "none"
        BY DEF Follows
  <2>2. complete \subseteq complete'
        BY <1>2
  <2> QED BY <1>1, <1>2, <1>3, <1>5, <2>1, <2>2, RolesSettled, Zenon
<1>9. \A j \in 1 .. Len(members) :
        Settled(members[j]) => value'[members[j]] = value[members[j]]
  <2>1. \A j \in 1 .. Len(members) : members[j] \in Promises
        BY <1>1 DEF Shape
  <2> QED BY <1>4, <2>1, Zenon DEF Lasting
<1>10. o.how = "resolve" =>
         /\ \A j \in 1 .. Len(members) : value'[members[j]].how = "resolve"
         /\ o.of = FlattenSeq([j \in 1 .. Len(members) |-> value'[members[j]].of])
  <2> SUFFICES ASSUME o.how = "resolve"
               PROVE  /\ \A j \in 1 .. Len(members) : value'[members[j]].how = "resolve"
                      /\ o.of = FlattenSeq([j \in 1 .. Len(members) |-> value'[members[j]].of])
      BY Zenon
  <2>1. /\ \A j \in 1 .. Len(members) : value[members[j]].how = "resolve"
        /\ o.of = FlattenSeq([j \in 1 .. Len(members) |-> value[members[j]].of])
        BY Zenon
  <2>2. ASSUME NEW j \in 1 .. Len(members)
        PROVE  value'[members[j]] = value[members[j]]
    <3>1. members[j] \in Promises
          BY <1>1 DEF Shape
    <3>2. Settled(members[j])
          BY <1>1, <2>1, <3>1, HowSettled
    <3> QED BY <1>9, <3>2
  <2>3. [j \in 1 .. Len(members) |-> value'[members[j]].of]
          = [j \in 1 .. Len(members) |-> value[members[j]].of]
        BY <2>2
  <2> QED BY <2>1, <2>2, <2>3
<1>11. o.how = "reject" => \E j \in 1 .. Len(members) : value'[members[j]] = o
       BY <1>9
<1>12. \A b \in Promises : kind[b] = "all" => b = a
       BY <1>1, Zenon DEF Asked
<1>13. Settled(a)'
       BY <1>3, <1>5 DEF Settled, Pending
<1>14. ASSUME NEW b \in Promises, kind'[b] = "all"
       PROVE  /\ ~Settled(b)' => held'.promise = b
              /\ value'[b].how = "resolve" =>
                   /\ \A j \in 1 .. Len(members') : value'[members'[j]].how = "resolve"
                   /\ value'[b].of = FlattenSeq([j \in 1 .. Len(members') |-> value'[members'[j]].of])
              /\ value'[b].how = "reject" => \E j \in 1 .. Len(members') : value'[members'[j]] = value'[b]
  <2>1. b = a /\ members' = members
        BY <1>2, <1>12, <1>14
  <2> QED BY <1>3, <1>10, <1>11, <1>13, <2>1
<1>15. Holder'
       BY <1>14, Zenon DEF Holder
<1> QED BY <1>3, <1>4, <1>5, <1>6, <1>7, <1>8, <1>15

\* One member of several has resolved.
LEMMA OneOfSeveral ==
  ASSUME IInv, NEW t \in Targets, NEW r \in Requests, RunRequest(t, r),
         request[r].index # 0, held.promise # NoPromise,
         value' = value, value[request[r].on].how = "resolve",
         held.outstanding # 1,
         held'.promise = held.promise, held'.outstanding = held.outstanding - 1,
         held'.values = [held.values EXCEPT ![request[r].index] = value[request[r].on].of]
  PROVE  /\ Outcome' /\ Asked' /\ Holder' /\ Lasting
         /\ held'.promise \in Promises \cup {NoPromise} /\ held'.outstanding \in Nat
<1>1. Shape /\ Outcome /\ Asked /\ Holder
      BY Zenon DEF IInv
<1>2. /\ r \in Issued \ complete /\ Settled(request[r].on) /\ complete' = complete \cup {r}
      /\ UNCHANGED <<kind, request, disconnected, members, joined>>
      /\ \A i : Reported(i)' <=> Reported(i) \/ i = request[r].index
      BY Completed
<1>3. Lasting
      BY <1>1, <1>2, NothingLost, Zenon
<1>4. Outcome' /\ Asked'
      BY <1>1, <1>2, <1>3, OutcomeKept, AskedKept, Zenon
<1>5. PICK i, a : i = request[r].index /\ a = held.promise
      OBVIOUS
<1>6. /\ i \in Missing /\ i \in 1 .. Len(members) /\ members[i] = request[r].on
      /\ a \in Promises /\ kind[a] = "all" /\ ~Settled(a)
      /\ IsFiniteSet(Missing) /\ held.outstanding = Cardinality(Missing)
      /\ held.outstanding \in Nat /\ held.outstanding # 0
      BY <1>2, <1>5, MemberReports
<1>7. /\ held'.promise = a /\ held'.outstanding = held.outstanding - 1
      /\ held'.values = [held.values EXCEPT ![i] = value[members[i]].of]
      BY <1>5, <1>6, Zenon
<1>8. held'.outstanding \in Nat /\ held'.outstanding # 0
      BY <1>6, <1>7
<1>9. held'.outstanding = Cardinality(Missing')
  <2>1. Missing' = Missing \ {i}
    <3>1. Missing' = {j \in 1 .. Len(members) : ~Reported(j)'}
          BY <1>2, Zenon DEF Missing
    <3> QED BY <1>2, <1>5, <3>1 DEF Missing
  <2>2. Cardinality(Missing \ {i}) = Cardinality(Missing) - 1
        BY <1>6, FS_RemoveElement
  <2> QED BY <1>6, <1>7, <2>1, <2>2
<1>10. /\ held.values = [j \in 1 .. Len(members) |-> held.values[j]]
       /\ \A j \in 1 .. Len(members) : Reported(j) =>
            value[members[j]].how = "resolve" /\ held.values[j] = value[members[j]].of
       BY <1>1, Zenon DEF Holder
<1>11. /\ held'.values = [j \in 1 .. Len(members) |-> held'.values[j]]
       /\ held'.values[i] = value[members[i]].of
       /\ \A j \in 1 .. Len(members) : j # i => held'.values[j] = held.values[j]
       BY <1>6, <1>7, <1>10
<1>12. ASSUME NEW j \in 1 .. Len(members), Reported(j)'
       PROVE  value[members[j]].how = "resolve" /\ held'.values[j] = value[members[j]].of
  <2>1. CASE j = i
        BY <1>6, <1>11, <2>1
  <2>2. CASE j # i
    <3>1. Reported(j)
          BY <1>2, <1>5, <1>12, <2>2, Zenon
    <3> QED BY <1>10, <1>11, <2>2, <3>1
  <2> QED BY <2>1, <2>2
<1>13. Holder'
  <2>1. ASSUME NEW b \in Promises, kind[b] = "all"
        PROVE  b = a
        BY <1>1, <1>6, <2>1, Zenon DEF Asked
  <2>2. value[a].how # "resolve" /\ value[a].how # "reject"
        BY <1>6 DEF Settled, Pending
  <2>3. ~Settled(held.promise)'
        BY <1>6, <1>7 DEF Settled, Pending
  <2>4. kind'[held'.promise] = "all" /\ members' = members
        BY <1>2, <1>6, <1>7
  <2>5. \A j \in 1 .. Len(members') : Reported(j)' =>
          value'[members'[j]].how = "resolve" /\ held'.values[j] = value'[members'[j]].of
        BY <1>12, <2>4
  <2>6. held'.values = [j \in 1 .. Len(members') |-> held'.values[j]]
        BY <1>11, <2>4
  <2>7. ASSUME NEW b \in Promises, kind'[b] = "all"
        PROVE  held'.promise = b /\ value'[b].how # "resolve" /\ value'[b].how # "reject"
        BY <1>2, <1>7, <2>1, <2>2, <2>7
  <2> QED BY <1>8, <1>9, <2>3, <2>4, <2>5, <2>6, <2>7, Zenon DEF Holder
<1> QED BY <1>3, <1>4, <1>6, <1>7, <1>8, <1>13

\* The record of the holder after a member has resolved.
LEMMA Fields ==
  ASSUME NEW h, h = [promise |-> h.promise, values |-> h.values, outstanding |-> h.outstanding],
         NEW v, NEW g, g = [h EXCEPT !.values = v, !.outstanding = @ - 1]
  PROVE  /\ g.promise = h.promise /\ g.values = v /\ g.outstanding = h.outstanding - 1
         /\ g = [promise |-> g.promise, values |-> g.values, outstanding |-> g.outstanding]
OBVIOUS

\* A target tells a consumer.
LEMMA RunStep ==
  ASSUME IInv, NEW t \in Targets, NEW r \in Requests, RunRequest(t, r)
  PROVE  IInv'
<1>1. Shape /\ Outcome /\ Mutexes /\ Places /\ Truth /\ Roles /\ Asked /\ Holder
      BY Zenon DEF IInv, Places
<1>2. /\ r \in Issued \ complete /\ Settled(request[r].on) /\ complete' = complete \cup {r}
      /\ queue' \in [Targets -> Seq(Requests \cup Promises)]
      /\ UNCHANGED <<kind, thens, request, disconnected, open, members, joined>>
      BY Completed
<1>3. RunsNext(t, r)
      BY DEF RunRequest
<1>4. PICK outcome, c, i, a : /\ outcome = value[request[r].on] /\ c = request[r].completion
                              /\ i = request[r].index /\ a = held.promise
      OBVIOUS
<1>5. /\ \/ ~Listens(r) /\ told' = told
         \/ Listens(r) /\ told' = [told EXCEPT ![r] = outcome]
      /\ \/ /\ ~Listens(r)
            /\ UNCHANGED <<value, chained, locked, source, held>>
         \/ /\ i # 0 /\ HolderTold(i, outcome)
            /\ UNCHANGED <<chained, source>>
         \/ /\ i = 0 /\ c = NoPromise
            /\ UNCHANGED <<value, chained, locked, source, held>>
         \/ /\ c # NoPromise
            /\ \E x \in Promises : ChainTo(x, c)
            /\ UNCHANGED <<value, held>>
      BY <1>4, Zenon DEF RunRequest
<1>6. Issued' = Issued /\ complete \subseteq complete'
      BY <1>2, Zenon DEF Issued
<1>7. c \in Promises \cup {NoPromise} /\ i \in Nat
      BY <1>1, <1>2, <1>4, IssuedAre
<1>8. outcome.how \in {"resolve", "reject"} /\ outcome # Pending
  <2>1. request[r].on \in Promises
        BY <1>1, <1>2, IssuedAre
  <2> QED BY <1>1, <1>2, <1>4, <2>1 DEF Outcome, Settled
\* What is left once the promises and the holder are seen to.
<1>9. ASSUME Outcome', Asked', Holder', Lasting, Roles', Mutexes', locked' \in SUBSET Promises,
             value' = [p \in Promises |-> value'[p]],
             chained' \in [Promises -> Seq(Promises)],
             source' \in [Promises -> Promises \cup {NoPromise}],
             \A q \in Promises : kind[q] = "proxy" => source'[q] = source[q],
             held'.promise \in Promises \cup {NoPromise}, held'.outstanding \in Nat,
             held' = [promise |-> held'.promise, values |-> held'.values, outstanding |-> held'.outstanding]
      PROVE  IInv'
  <2>1. Truth' /\ told' = [s \in Requests |-> told'[s]]
        BY <1>1, <1>2, <1>4, <1>5, <1>9, TruthTold, Zenon
  <2>2. Places'
    <3>1. complete' = IF r \in Requests THEN complete \cup {r} ELSE complete
          BY <1>2
    <3> QED BY <1>1, <1>2, <1>3, <1>9, <3>1, QueueShrinks
  <2>3. complete' \in SUBSET Issued
        BY <1>1, <1>2 DEF Shape
  <2>4. Shape'
        BY <1>1, <1>2, <1>6, <1>9, <2>1, <2>3, Zenon DEF Shape
  <2> QED BY <1>9, <2>1, <2>2, <2>4, Zenon DEF IInv, Places
<1>10. CASE /\ ~Listens(r) \/ (i = 0 /\ c = NoPromise)
            /\ UNCHANGED <<value, chained, locked, source, held>>
  <2>1. held.promise = NoPromise \/ request[r].index = 0
    <3>1. ~Listens(r) => request[r].index = 0
          BY <1>1, <1>2, Zenon DEF Asked, Listens
    <3> QED BY <1>4, <1>10, <3>1, Zenon
  <2>2. Outcome' /\ Asked' /\ Holder' /\ Lasting
        BY <1>10, <2>1, ConsumerTold, Zenon
  <2>3. Roles'
        BY <1>1, <1>2, <1>10, <2>2, RolesKept, Zenon
  <2>4. Mutexes'
        BY <1>1, <1>2, <1>10, Zenon DEF Mutexes, Settled, Waits, Pending
  <2>5. /\ held'.promise \in Promises \cup {NoPromise} /\ held'.outstanding \in Nat
        /\ held' = [promise |-> held'.promise, values |-> held'.values, outstanding |-> held'.outstanding]
        /\ locked' \in SUBSET Promises /\ value' = [p \in Promises |-> value'[p]]
        /\ chained' \in [Promises -> Seq(Promises)]
        /\ source' \in [Promises -> Promises \cup {NoPromise}]
        BY <1>1, <1>10, Zenon DEF Shape
  <2>6. source' = source
        BY <1>10
  <2> QED BY <1>9, <2>2, <2>3, <2>4, <2>5, <2>6, Zenon
<1>11. CASE c # NoPromise /\ (\E x \in Promises : ChainTo(x, c)) /\ UNCHANGED <<value, held>>
  <2>1. request[r].index = 0
        BY <1>1, <1>2, <1>4, <1>11, Zenon DEF Asked
  <2>2. Outcome' /\ Asked' /\ Holder' /\ Lasting
        BY <1>11, <2>1, ConsumerTold, Zenon
  <2>3. c \in Promises
        BY <1>7, <1>11
  <2>4. kind[c] = "completion" /\ source[c] = NoPromise
        BY <1>1, <1>2, <1>4, <1>11, Zenon DEF Roles
  <2>5. \A s \in Issued : request[s].completion = c => s \in complete'
    <3>1. \A s \in Issued : request[s].completion = c => s = r
          BY <1>1, <1>2, <1>4, <1>11 DEF Roles
    <3> QED BY <1>2, <3>1
  <2>6. PICK x \in Promises : ChainTo(x, c)
        BY <1>11
  <2>7. Follows(c) /\ UNCHANGED <<kind, value, request, thens>>
        BY <1>2, <1>11, <2>4 DEF Follows
  <2>8. Roles' /\ chained' \in [Promises -> Seq(Promises)]
        /\ source' \in [Promises -> Promises \cup {NoPromise}]
        /\ \A p \in Promises : p # c => source'[p] = source[p]
        BY <1>1, <1>6, <2>3, <2>4, <2>5, <2>6, <2>7, RolesChained
  <2>9. Mutexes' /\ locked' \in SUBSET Promises
        BY <1>1, <2>3, <2>6, <2>7, MutexesChained
  <2>10. /\ held'.promise \in Promises \cup {NoPromise} /\ held'.outstanding \in Nat
         /\ held' = [promise |-> held'.promise, values |-> held'.values, outstanding |-> held'.outstanding]
         /\ value' = [p \in Promises |-> value'[p]]
        BY <1>1, <1>11, Zenon DEF Shape
  <2>11. \A q \in Promises : kind[q] = "proxy" => source'[q] = source[q]
        BY <2>4, <2>8
  <2> QED BY <1>9, <2>2, <2>8, <2>9, <2>10, <2>11, Zenon
<1>12. CASE i # 0 /\ HolderTold(i, outcome) /\ UNCHANGED <<chained, source>>
  <2>1. /\ chained' \in [Promises -> Seq(Promises)]
        /\ source' \in [Promises -> Promises \cup {NoPromise}]
        /\ \A q \in Promises : kind[q] = "proxy" => source'[q] = source[q]
        BY <1>1, <1>12, Zenon DEF Shape
  <2>2. \/ /\ a = NoPromise
           /\ UNCHANGED <<held, value, locked>>
        \/ /\ a # NoPromise /\ outcome.how = "reject"
           /\ Settle(a, outcome) /\ held' = Release
        \/ /\ a # NoPromise /\ outcome.how = "resolve"
           /\ held.outstanding = 1
           /\ Settle(a, [how |-> "resolve", of |-> FlattenSeq([held.values EXCEPT ![i] = outcome.of])])
           /\ held' = [Release EXCEPT !.outstanding = 0]
        \/ /\ a # NoPromise /\ outcome.how = "resolve"
           /\ held.outstanding # 1
           /\ held' = [held EXCEPT !.values = [held.values EXCEPT ![i] = outcome.of],
                                   !.outstanding = @ - 1]
           /\ UNCHANGED <<value, locked>>
        BY <1>4, <1>12, Zenon DEF HolderTold, Slot
  <2>3. ASSUME a # NoPromise
        PROVE  /\ i \in Missing /\ i \in 1 .. Len(members) /\ members[i] = request[r].on
               /\ Settled(members[i])
               /\ a \in Promises /\ kind[a] = "all" /\ ~Settled(a)
               /\ IsFiniteSet(Missing) /\ held.outstanding = Cardinality(Missing)
        BY <1>2, <1>4, <1>12, <2>3, MemberReports, Zenon
  <2>4. CASE a = NoPromise /\ UNCHANGED <<held, value, locked>>
    <3>1. Outcome' /\ Asked' /\ Holder' /\ Lasting
          BY <1>4, <2>4, ConsumerTold, Zenon
    <3>2. Roles'
          BY <1>1, <1>2, <1>12, <2>4, <3>1, RolesKept, Zenon
    <3>3. Mutexes'
          BY <1>1, <1>2, <1>12, <2>4, Zenon DEF Mutexes, Settled, Waits, Pending
    <3>4. /\ held'.promise \in Promises \cup {NoPromise} /\ held'.outstanding \in Nat
          /\ held' = [promise |-> held'.promise, values |-> held'.values, outstanding |-> held'.outstanding]
          /\ locked' \in SUBSET Promises /\ value' = [p \in Promises |-> value'[p]]
          BY <1>1, <2>4, Zenon DEF Shape
    <3> QED BY <1>9, <2>1, <3>1, <3>2, <3>3, <3>4, Zenon
  <2>5. CASE a # NoPromise /\ outcome.how = "reject" /\ Settle(a, outcome) /\ held' = Release
    <3>1. /\ held'.promise = NoPromise /\ held'.outstanding \in Nat
          /\ held' = [promise |-> held'.promise, values |-> held'.values, outstanding |-> held'.outstanding]
          BY <1>1, <2>5 DEF Release, Shape
    <3>2. \E j \in 1 .. Len(members) : Settled(members[j]) /\ value[members[j]] = outcome
          BY <1>4, <2>3, <2>5
    <3>3. /\ Outcome' /\ Asked' /\ Holder' /\ Lasting /\ Roles' /\ Mutexes'
          /\ locked' \in SUBSET Promises /\ value' = [p \in Promises |-> value'[p]]
      <4>1. outcome.how \in {"resolve", "reject"} /\ outcome.how # "resolve"
            BY <2>5
      <4>2. outcome.how = "resolve" =>
              /\ \A j \in 1 .. Len(members) : value[members[j]].how = "resolve"
              /\ outcome.of = FlattenSeq([j \in 1 .. Len(members) |-> value[members[j]].of])
            BY <4>1, Zenon
      <4>3. a \in Promises /\ kind[a] = "all" /\ ~Settled(a)
            BY <2>3, <2>5, Zenon
      <4>4. Settle(a, outcome) /\ held'.promise = NoPromise /\ UNCHANGED <<chained, source>>
            BY <1>12, <2>5, <3>1, Zenon
      <4>5. outcome.how = "reject" =>
              \E j \in 1 .. Len(members) : Settled(members[j]) /\ value[members[j]] = outcome
            BY <3>2, Zenon
      <4> QED BY <4>1, <4>2, <4>3, <4>4, <4>5, AllSettled
    <3>4. held'.promise \in Promises \cup {NoPromise}
          BY <3>1
    <3> QED BY <1>9, <2>1, <3>1, <3>3, <3>4, Zenon
  <2>6. CASE /\ a # NoPromise /\ outcome.how = "resolve" /\ held.outstanding = 1
             /\ Settle(a, [how |-> "resolve", of |-> FlattenSeq([held.values EXCEPT ![i] = outcome.of])])
             /\ held' = [Release EXCEPT !.outstanding = 0]
    <3>1. /\ held'.promise = NoPromise /\ held'.outstanding \in Nat
          /\ held' = [promise |-> held'.promise, values |-> held'.values, outstanding |-> held'.outstanding]
          BY <2>6 DEF Release
    <3>2. \A j \in 1 .. Len(members) : j = i \/ Reported(j)
      <4>1. \E x : Missing = {x}
            BY <2>3, <2>6, FS_Singleton
      <4>2. Missing = {i}
            BY <2>3, <2>6, <4>1
      <4> QED BY <4>2 DEF Missing
    <3>3. /\ held.values = [j \in 1 .. Len(members) |-> held.values[j]]
          /\ \A j \in 1 .. Len(members) : Reported(j) =>
               value[members[j]].how = "resolve" /\ held.values[j] = value[members[j]].of
          BY <1>1, <1>4, <2>6, Zenon DEF Holder
    <3>4. \A j \in 1 .. Len(members) : value[members[j]].how = "resolve"
      <4>1. value[members[i]].how = "resolve"
            BY <1>4, <2>3, <2>6
      <4> QED BY <3>2, <3>3, <4>1
    <3>5. [held.values EXCEPT ![i] = outcome.of] = [j \in 1 .. Len(members) |-> value[members[j]].of]
      <4>1. outcome.of = value[members[i]].of
            BY <1>4, <2>3, <2>6
      <4> QED BY <3>2, <3>3, <4>1
    <3>6. PICK o : o = [how |-> "resolve", of |-> FlattenSeq([held.values EXCEPT ![i] = outcome.of])]
          OBVIOUS
    <3>7. /\ o.how = "resolve"
          /\ o.of = FlattenSeq([j \in 1 .. Len(members) |-> value[members[j]].of])
          BY <3>5, <3>6
    <3>8. Settle(a, o)
          BY <2>6, <3>6, Zenon
    <3>9. /\ Outcome' /\ Asked' /\ Holder' /\ Lasting /\ Roles' /\ Mutexes'
          /\ locked' \in SUBSET Promises /\ value' = [p \in Promises |-> value'[p]]
      <4>1. o.how \in {"resolve", "reject"} /\ o.how # "reject"
            BY <3>7
      <4> QED BY <1>12, <2>3, <2>6, <3>1, <3>4, <3>7, <3>8, <4>1, AllSettled
    <3>10. held'.promise \in Promises \cup {NoPromise}
          BY <3>1
    <3> QED BY <1>9, <2>1, <3>1, <3>9, <3>10, Zenon
  <2>7. CASE /\ a # NoPromise /\ outcome.how = "resolve"
             /\ held.outstanding # 1
             /\ held' = [held EXCEPT !.values = [held.values EXCEPT ![i] = outcome.of],
                                     !.outstanding = @ - 1]
             /\ UNCHANGED <<value, locked>>
    <3>1. /\ Outcome' /\ Asked' /\ Holder' /\ Lasting
          /\ held'.promise \in Promises \cup {NoPromise} /\ held'.outstanding \in Nat
          /\ held' = [promise |-> held'.promise, values |-> held'.values, outstanding |-> held'.outstanding]
      <4>1. /\ held'.promise = held.promise /\ held'.outstanding = held.outstanding - 1
            /\ held'.values = [held.values EXCEPT ![i] = outcome.of]
            /\ held' = [promise |-> held'.promise, values |-> held'.values, outstanding |-> held'.outstanding]
            BY <1>1, <2>7, Fields DEF Shape
      <4> QED BY <1>4, <1>12, <2>7, <4>1, OneOfSeveral
    <3>2. Roles'
          BY <1>1, <1>2, <1>12, <2>7, <3>1, RolesKept, Zenon
    <3>3. Mutexes'
          BY <1>1, <1>2, <1>12, <2>7, Zenon DEF Mutexes, Settled, Waits, Pending
    <3>4. locked' \in SUBSET Promises /\ value' = [p \in Promises |-> value'[p]]
          BY <1>1, <2>7, Zenon DEF Shape
    <3> QED BY <1>9, <2>1, <3>1, <3>2, <3>3, <3>4, Zenon
  <2> QED BY <2>2, <2>4, <2>5, <2>6, <2>7, Zenon
<1> QED BY <1>5, <1>10, <1>11, <1>12, Zenon

-----------------------------------------------------------------------------
(* Every behavior *)

\* Nothing has been asked or answered at first.
LEMMA Initially ==
  ASSUME Init
  PROVE  IInv
<1>1. /\ kind = [p \in Promises |-> IF p \in Plain THEN "plain" ELSE "none"]
      /\ value = [p \in Promises |-> Pending]
      /\ thens = [p \in Promises |-> <<>>]
      /\ chained = [p \in Promises |-> <<>>]
      /\ locked = {}
      /\ source = [p \in Promises |-> NoPromise]
      /\ request = <<>> /\ complete = {} /\ disconnected = {}
      /\ told = [r \in Requests |-> Pending]
      /\ queue = [t \in Targets |-> <<>>]
      /\ open = Targets /\ members = <<>> /\ joined = 0
      /\ held = [promise |-> NoPromise, values |-> <<>>, outstanding |-> 0]
      BY Zenon DEF Init
<1>2. Issued = {} /\ Len(request) = 0 /\ Len(members) = 0 /\ request \in Seq(RequestRecords)
      BY <1>1 DEF Issued
<1>3. /\ kind \in [Promises -> Kinds]
      /\ \A p \in Promises : kind[p] \in {"plain", "none"}
      BY <1>1 DEF Kinds
<1>4. \A p \in Promises : /\ value[p] = Pending /\ ~Settled(p)
                          /\ Len(thens[p]) = 0 /\ thens[p] = <<>>
                          /\ Len(chained[p]) = 0 /\ source[p] = NoPromise
      BY <1>1 DEF Settled
<1>5. \A t \in Targets : Len(queue[t]) = 0
      BY <1>1
<1>6. /\ thens \in [Promises -> Seq(Requests)]
      /\ chained \in [Promises -> Seq(Promises)]
      /\ queue \in [Targets -> Seq(Requests \cup Promises)]
      /\ value = [p \in Promises |-> value[p]]
      /\ source \in [Promises -> Promises \cup {NoPromise}]
      /\ told = [r \in Requests |-> told[r]]
      BY <1>1
<1>7. /\ held.promise = NoPromise /\ held.outstanding \in Nat
      /\ held = [promise |-> held.promise, values |-> held.values, outstanding |-> held.outstanding]
      BY <1>1
<1>8. Shape
  <2>1. Len(request) <= MaxThens
        BY <1>2, PromiseAssumption
  <2>2. members \in Seq(Promises) /\ joined \in Nat
        BY <1>1
  <2>3. complete \in SUBSET Issued /\ disconnected \in SUBSET Issued /\ locked \in SUBSET Promises
        BY <1>1
  <2>4. open \in SUBSET Targets /\ held.promise \in Promises \cup {NoPromise}
        BY <1>1, <1>7
  <2> QED BY <1>2, <1>3, <1>6, <1>7, <2>1, <2>2, <2>3, <2>4, Zenon DEF Shape
<1>9. \A n : n \notin 1 .. 0
      OBVIOUS
<1>10. Outcome /\ Mutexes
       BY <1>1, <1>4, Zenon DEF Outcome, Mutexes
<1>11. Lists /\ Queues /\ Sorted /\ Calls /\ Line
  <2>1. \A p \in Promises : \A n : n \notin 1 .. Len(thens[p])
        BY <1>4, <1>9
  <2>2. \A t \in Targets : \A n : n \notin 1 .. Len(queue[t])
        BY <1>5, <1>9
  <2> QED BY <1>2, <2>1, <2>2, Zenon DEF Lists, Queues, Sorted, Calls, Line
<1>12. Truth
  <2>1. \A r \in Requests : told[r] = Pending
        BY <1>1
  <2> QED BY <1>1, <2>1, Zenon DEF Truth
<1>13. Roles
  <2>1. \A p \in Promises : ~Follows(p)
        BY <1>3 DEF Follows
  <2>2. \A p \in Promises : \A n : n \notin 1 .. Len(chained[p])
        BY <1>4, <1>9
  <2> QED BY <1>2, <1>4, <2>1, <2>2, Zenon DEF Roles
<1>14. \A p \in Promises : kind[p] # "all"
       BY <1>3
<1>15. \A n : n \notin 1 .. Len(members)
       BY <1>2, <1>9
<1>16. Asked
  <2>1. joined <= Len(members)
        BY <1>1, <1>2
  <2> QED BY <1>2, <1>14, <1>15, <2>1, Zenon DEF Asked
<1>17. Holder
       BY <1>7, <1>14, Zenon DEF Holder
<1> QED BY <1>8, <1>10, <1>11, <1>12, <1>13, <1>16, <1>17, Zenon DEF IInv

\* Every step keeps the invariant.
LEMMA Preserved ==
  ASSUME IInv, [Next]_vars
  PROVE  IInv'
<1>1. CASE UNCHANGED vars
      BY <1>1, Unchanged
<1>2. CASE Next
  <2>1. ASSUME NEW p \in Promises, NEW how \in {"resolve", "reject"}, ResolveOrReject(p, how)
        PROVE  IInv'
        BY <2>1, ResolveStep
  <2>2. ASSUME NEW p \in Promises, DispatchStep(p)
        PROVE  IInv'
        BY <2>2, DispatchNextStep, ForwardStep, Zenon DEF DispatchStep
  <2>3. ASSUME NEW p \in Promises, NEW n \in 1 .. MaxMembers,
               NEW ps \in TupleOf({q \in Promises : Available(q)}, n), All(ps, p)
        PROVE  IInv'
        BY <2>3, AllStep
  <2>4. ASSUME NEW p \in Promises, NEW t \in Targets, InvokeAsync(p, t)
        PROVE  IInv'
        BY <2>4, InvokeStep
  <2>5. ASSUME NEW p \in Promises, NEW c \in Promises, NEW t \in Targets,
               Then(p, t) \/ ThenForPromise(p, t, c)
        PROVE  IInv'
        BY <2>5, ThenSteps
  <2>6. ASSUME NEW r \in Requests, Disconnect(r)
        PROVE  IInv'
        BY <2>6, DisconnectStep
  <2>7. ASSUME NEW t \in Targets, JoinNext(t) \/ Run(t) \/ Close(t)
        PROVE  IInv'
        BY <2>7, JoinStep, RunStep, CallStep, CloseStep, Zenon DEF Run
  <2> QED BY <1>2, <2>1, <2>2, <2>3, <2>4, <2>5, <2>6, <2>7, Zenon DEF Next
<1> QED BY <1>1, <1>2

\* The invariant holds of every behavior.
THEOREM Invariance == Spec => []IInv
<1>1. Init => IInv
      BY Initially
<1>2. IInv /\ [Next]_vars => IInv'
      BY Preserved
<1> QED BY <1>1, <1>2, PTL DEF Spec

\* There is one answer, and who is told at all is told that one, however late;
\* a promise that follows another has its outcome, and who disconnects is told
\* nothing (Private::Resolve and Reject, DoResolveOrReject, ChainTo).
THEOREM OneAnswer == Spec => []ToldTruly
<1>1. IInv => ToldTruly
  <2> SUFFICES ASSUME IInv
               PROVE  ToldTruly
      OBVIOUS
  <2> QED BY Zenon DEF IInv, Truth, Roles, ToldTruly
<1> QED BY <1>1, Invariance, PTL

\* Consumers on one target are told in the order of their calls of Then, whether
\* they came before the answer or after it (ThenInternal, DispatchAll).
THEOREM ToldInOrder == Spec => []InOrder
<1>1. IInv => InOrder
  <2> SUFFICES ASSUME IInv
               PROVE  InOrder
      OBVIOUS
  <2> QED BY Zenon DEF IInv, Line, Alike, InOrder
<1> QED BY <1>1, Invariance, PTL

\* The promise of All has the values of all members in their order, or the
\* rejection of one of them, and is settled by the time the last has reported
\* (AllPromiseHolder).
THEOREM AllKeepsFaith == Spec => []AllFaithful
<1>1. IInv => AllFaithful
  <2> SUFFICES ASSUME IInv, NEW a \in Promises, kind[a] = "all"
               PROVE  /\ value[a].how = "resolve" =>
                           /\ \A i \in DOMAIN members : value[members[i]].how = "resolve"
                           /\ value[a].of = FlattenSeq([i \in DOMAIN members |-> value[members[i]].of])
                      /\ value[a].how = "reject" =>
                           \E i \in DOMAIN members : value[members[i]] = value[a]
                      /\ ~Settled(a) => \E i \in DOMAIN members :
                           ~\E r \in complete : request[r].index = i
      BY Zenon DEF AllFaithful
  <2>1. Holder /\ DOMAIN members = 1 .. Len(members)
        BY DEF IInv, Shape
  <2>2. ASSUME ~Settled(a)
        PROVE  \E i \in 1 .. Len(members) : ~\E r \in complete : request[r].index = i
    <3>1. held.promise = a /\ a # NoPromise
          BY <2>1, <2>2, PromiseAssumption DEF Holder, Promises
    <3>2. Cardinality(Missing) # 0
          BY <2>1, <3>1, Zenon DEF Holder
    <3>3. Missing # {}
          BY <3>2, FS_EmptySet
    <3> QED BY <3>3 DEF Missing, Reported
  <2>3. /\ value[a].how = "resolve" =>
             /\ \A i \in 1 .. Len(members) : value[members[i]].how = "resolve"
             /\ value[a].of = FlattenSeq([i \in 1 .. Len(members) |-> value[members[i]].of])
        /\ value[a].how = "reject" => \E i \in 1 .. Len(members) : value[members[i]] = value[a]
        BY <2>1, Zenon DEF Holder
  <2> QED BY <2>1, <2>2, <2>3
<1> QED BY <1>1, Invariance, PTL
=============================================================================
