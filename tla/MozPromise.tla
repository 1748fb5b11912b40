----------------------------- MODULE MozPromise -----------------------------
(***************************************************************************)
(* MozPromise (xpcom/threads/MozPromise.h): the answer to an asynchronous  *)
(* request, given once, on some thread, to consumers on other threads.     *)
(*                                                                         *)
(* A consumer calls Then with the target on which it wants to be told; its *)
(* callback may return a promise, which the completion promise of the Then *)
(* is chained to.  InvokeAsync has another target compute a promise, and   *)
(* All waits for several.  Every operation of a promise holds its mMutex;  *)
(* the one that settles it holds it while it tells the consumers, each on  *)
(* its target, and forwards the answer to the chained promises, whose      *)
(* mutexes that takes, too: each of these is an action of its own.         *)
(* Which thread holds a mutex is not kept, so that a target may run on     *)
(* while a callback that it runs is settling a promise.                    *)
(***************************************************************************)
EXTENDS Integers, Sequences, SequencesExt

CONSTANTS
  Plain,      \* promises that a producer made and is to resolve or reject
  Derived,    \* promises that are settled after others: completion promises,
              \* the proxies of InvokeAsync, and the promise of All
  Targets,    \* the event targets on which consumers are told
  NoPromise,  \* no promise, as of a Then without a completion promise
  MaxThens,   \* bound on the calls of Then
  MaxMembers  \* bound on the promises All waits for

ASSUME PromiseAssumption ==
  /\ Plain \cap Derived = {}
  /\ NoPromise \notin Plain \cup Derived
  /\ \A p \in Plain \cup Derived : p \notin Nat
  /\ MaxThens \in Nat
  /\ MaxMembers \in Nat \ {0}

Promises == Plain \cup Derived

\* The requests, or ThenValues, are numbered in the order of their Then.
Requests == 1 .. MaxThens

VARIABLES
  kind,       \* what each promise was made by
  value,      \* mValue: pending, or how and with what the promise was settled
  thens,      \* mThenValues
  chained,    \* mChainedPromises; of a settled promise, those to be forwarded to
  locked,     \* the promises whose mMutex is held, in DispatchAll or ForwardTo
  source,     \* history: the promise that ChainTo made each promise follow
  request,    \* what each Then was called with, in the order of the calls
  complete,   \* the requests with mComplete
  disconnected, \* the requests with mDisconnected
  told,       \* history: the outcome each callback was called with
  queue,      \* per target, the runnables: of a request, or the call of a proxy
  open,       \* the targets that accept a Dispatch
  members,    \* the promises All was given
  joined,     \* how many of them All has called Then on
  held        \* AllPromiseHolder: mPromise, mResolveValues, mOutstandingPromises

promiseVars == <<kind, value, thens, chained, locked, source>>
requestVars == <<request, complete, disconnected, told>>
targetVars == <<queue, open>>
allVars == <<members, joined, held>>
vars == <<promiseVars, requestVars, targetVars, allVars>>

\* An outcome keeps whose answer it is; that of All is made of several.
Pending == [how |-> "pending", of |-> <<>>]
Outcomes == {Pending} \cup [how : {"resolve", "reject"}, of : Seq(Promises)]

Kinds == {"none", "plain", "completion", "proxy", "all"}

TypeOK ==
  /\ kind \in [Promises -> Kinds]
  /\ value \in [Promises -> Outcomes]
  /\ thens \in [Promises -> Seq(Requests)]
  /\ chained \in [Promises -> Seq(Promises)]
  /\ locked \in SUBSET Promises
  /\ source \in [Promises -> Promises \cup {NoPromise}]
  /\ request \in
       Seq([on : Promises, target : Targets, completion : Promises \cup {NoPromise}, index : Nat])
  /\ complete \in SUBSET Requests
  /\ disconnected \in SUBSET Requests
  /\ told \in [Requests -> Outcomes]
  /\ queue \in [Targets -> Seq(Requests \cup Promises)]
  /\ open \in SUBSET Targets
  /\ members \in Seq(Promises)
  /\ joined \in Nat
  /\ held \in [promise : Promises \cup {NoPromise}, values : Seq(Seq(Promises)), outstanding : Nat]

Init ==
  /\ kind = [p \in Promises |-> IF p \in Plain THEN "plain" ELSE "none"]
  /\ value = [p \in Promises |-> Pending]
  /\ thens = [p \in Promises |-> <<>>]
  /\ chained = [p \in Promises |-> <<>>]
  /\ locked = {}
  /\ source = [p \in Promises |-> NoPromise]
  /\ request = <<>>
  /\ complete = {}
  /\ disconnected = {}
  /\ told = [r \in Requests |-> Pending]
  /\ queue = [t \in Targets |-> <<>>]
  /\ open = Targets
  /\ members = <<>>
  /\ joined = 0
  /\ held = [promise |-> NoPromise, values |-> <<>>, outstanding |-> 0]

Issued == DOMAIN request
Settled(p) == value[p] # Pending

-----------------------------------------------------------------------------
(* Settling a promise *)

\* Mutant: a promise may be settled twice.
AcceptsAgain(p) == TRUE

\* Resolve, Reject and ResolveOrReject ignore a promise that is not pending.
Accepts(p) == ~Settled(p)

\* What DispatchAll has to do.
Waits(p) == thens[p] # <<>> \/ chained[p] # <<>>

\* Private::Resolve and Reject up to DispatchAll, which the next actions are.
Settle(p, outcome) ==
  IF Accepts(p)
  THEN /\ value' = [value EXCEPT ![p] = outcome]
       /\ locked' = IF Waits(p) THEN locked \cup {p} ELSE locked
  ELSE UNCHANGED <<value, locked>>

\* DispatchAll returns, and with it who called it, after the last of them.
UnlockAfterLast(p) ==
  locked' = IF Len(thens[p]) + Len(chained[p]) = 1 THEN locked \ {p} ELSE locked

\* A producer resolves or rejects its promise.
ResolveOrReject(p, how) ==
  /\ kind[p] = "plain"
  /\ p \notin locked
  /\ Settle(p, [how |-> how, of |-> <<p>>])
  /\ UNCHANGED <<kind, thens, chained, source, requestVars, targetVars, allVars>>

\* ThenValueBase::Dispatch.  The result of the target's Dispatch is ignored; a
\* runnable it refuses is destroyed.
Deliver(r) ==
  LET t == request[r].target
  IN  queue' = IF t \in open THEN [queue EXCEPT ![t] = Append(@, r)] ELSE queue

\* Mutant: the consumers are told in the opposite order.
DispatchLast(p) ==
  /\ p \in locked
  /\ thens[p] # <<>>
  /\ Deliver(Last(thens[p]))
  /\ thens' = [thens EXCEPT ![p] = Front(@)]
  /\ UnlockAfterLast(p)
  /\ UNCHANGED <<kind, value, chained, source, requestVars, open, allVars>>

\* The loop of DispatchAll over the consumers.
DispatchNext(p) ==
  /\ p \in locked
  /\ thens[p] # <<>>
  /\ Deliver(Head(thens[p]))
  /\ thens' = [thens EXCEPT ![p] = Tail(@)]
  /\ UnlockAfterLast(p)
  /\ UNCHANGED <<kind, value, chained, source, requestVars, open, allVars>>

\* Its loop over the chained promises.  ForwardTo takes the mutex of each, settles
\* it unless it is settled, and returns once that has told its own.
Forward(p) ==
  /\ p \in locked
  /\ thens[p] = <<>> /\ chained[p] # <<>>
  /\ LET q == Head(chained[p])
     IN  \/ /\ ~Settled(q)
            /\ Settle(q, value[p])
            /\ UNCHANGED chained
         \/ /\ Settled(q) /\ q \notin locked
            /\ chained' = [chained EXCEPT ![p] = Tail(@)]
            /\ UnlockAfterLast(p)
            /\ UNCHANGED value
  /\ UNCHANGED <<kind, thens, source, requestVars, targetVars, allVars>>

-----------------------------------------------------------------------------
(* Consumers *)

\* The promise returned by All is in the caller's hands once All returns.
Available(p) == kind[p] # "none" /\ (kind[p] = "all" => joined = Len(members))

\* Mutant: the request waits whether or not the promise is settled.
EnlistAlways(p, r) ==
  /\ thens' = [thens EXCEPT ![p] = Append(@, r)]
  /\ UNCHANGED queue

\* ThenInternal: tell the consumer now, or have it wait.
Enlist(p, r) ==
  \/ /\ Settled(p)
     /\ queue' = [queue EXCEPT ![request'[r].target] = Append(@, r)]
     /\ UNCHANGED thens
  \/ /\ ~Settled(p)
     /\ thens' = [thens EXCEPT ![p] = Append(@, r)]
     /\ UNCHANGED queue

\* A Then whose target refuses the runnable, by a consumer that has not
\* disconnected, would fail the assertion of AssertIsDead.
Ask(p, t, c, i) ==
  /\ Len(request) < MaxThens
  /\ p \notin locked
  /\ t \in open
  /\ request' = Append(request, [on |-> p, target |-> t, completion |-> c, index |-> i])
  /\ Enlist(p, Len(request) + 1)
  /\ UNCHANGED <<value, chained, locked, source, complete, disconnected, told, open>>

\* Then, for a caller that does nothing with what it returns but perhaps keep
\* the request, or for one that wants the completion promise.
Then(p, t) ==
  /\ Available(p)
  /\ Ask(p, t, NoPromise, 0)
  /\ UNCHANGED <<kind, allVars>>

ThenForPromise(p, t, c) ==
  /\ Available(p)
  /\ kind[c] = "none"
  /\ kind' = [kind EXCEPT ![c] = "completion"]
  /\ Ask(p, t, c, 0)
  /\ UNCHANGED allVars

\* MozPromiseRequestHolder::Disconnect, on the target, of a request that has
\* not been completed; the answer may be under way.
Disconnect(r) ==
  /\ r \in Issued \ (complete \cup disconnected)
  /\ request[r].completion = NoPromise /\ request[r].index = 0
  /\ disconnected' = disconnected \cup {r}
  /\ UNCHANGED <<promiseVars, request, complete, told, targetVars, allVars>>

\* A consumer that disconnects may shut its target down: what is queued there
\* is still run, what comes later is refused.
Close(t) ==
  /\ t \in open
  /\ \A r \in Issued : request[r].target = t => r \in complete \cup disconnected
  /\ open' = open \ {t}
  /\ UNCHANGED <<promiseVars, requestVars, queue, allVars>>

-----------------------------------------------------------------------------
(* All *)

All(ps, a) ==
  /\ members = <<>>
  /\ kind[a] = "none"
  /\ members' = ps
  /\ held' = [promise |-> a, values |-> [i \in DOMAIN ps |-> <<>>], outstanding |-> Len(ps)]
  /\ kind' = [kind EXCEPT ![a] = "all"]
  /\ UNCHANGED <<value, thens, chained, locked, source, requestVars, targetVars, joined>>

\* The loop of All, which other threads run beside.
JoinNext(t) ==
  /\ joined < Len(members)
  /\ \A s \in Issued : request[s].index # 0 => request[s].target = t
  /\ Ask(members[joined + 1], t, NoPromise, joined + 1)
  /\ joined' = joined + 1
  /\ UNCHANGED <<kind, members, held>>

\* Mutant: the values are kept in the order in which they come.
SlotOfArrival(i) == Len(members) - held.outstanding + 1

\* Where AllPromiseHolder::Resolve keeps the value of the i-th promise.
Slot(i) == i

Release == [promise |-> NoPromise, values |-> <<>>, outstanding |-> held.outstanding]

\* AllPromiseHolder::Resolve and Reject, called with the outcome of a member.
HolderTold(i, outcome) ==
  \/ /\ held.promise = NoPromise
     /\ UNCHANGED <<held, value, locked>>
  \/ /\ held.promise # NoPromise
     /\ outcome.how = "reject"
     /\ Settle(held.promise, outcome)
     /\ held' = Release
  \/ /\ held.promise # NoPromise
     /\ outcome.how = "resolve"
     /\ LET values == [held.values EXCEPT ![Slot(i)] = outcome.of]
        IN  IF held.outstanding = 1
            THEN /\ Settle(held.promise, [how |-> "resolve", of |-> FlattenSeq(values)])
                 /\ held' = [Release EXCEPT !.outstanding = 0]
            ELSE /\ held' = [held EXCEPT !.values = values, !.outstanding = @ - 1]
                 /\ UNCHANGED <<value, locked>>

-----------------------------------------------------------------------------
(* What the targets run *)

RunsNext(t, e) ==
  /\ queue[t] # <<>> /\ Head(queue[t]) = e
  /\ queue' = [queue EXCEPT ![t] = Tail(@)]

\* ChainTo: q follows x.  If x is settled, Forward follows.
ChainTo(x, q) ==
  /\ Available(x) /\ x \notin locked
  /\ chained' = [chained EXCEPT ![x] = Append(@, q)]
  /\ source' = [source EXCEPT ![q] = x]
  /\ locked' = IF Settled(x) THEN locked \cup {x} ELSE locked

\* DoResolveOrReject bails out of a request that was disconnected.
Listens(r) == r \notin disconnected

\* ResolveOrRejectRunnable::Run.  The callback of a Then with a completion
\* promise returns a promise x, the one of All tells its holder.
RunRequest(t, r) ==
  /\ RunsNext(t, r)
  /\ complete' = complete \cup {r}
  /\ LET outcome == value[request[r].on]
         c == request[r].completion
     IN  \/ /\ ~Listens(r)
            /\ UNCHANGED <<told, value, chained, locked, source, held>>
         \/ /\ Listens(r)
            /\ told' = [told EXCEPT ![r] = outcome]
            /\ \/ /\ request[r].index # 0
                  /\ HolderTold(request[r].index, outcome)
                  /\ UNCHANGED <<chained, source>>
               \/ /\ request[r].index = 0 /\ c = NoPromise
                  /\ UNCHANGED <<value, chained, locked, source, held>>
               \/ /\ c # NoPromise
                  /\ \E x \in Promises \ {c} : ChainTo(x, c)
                  /\ UNCHANGED <<value, held>>
  /\ UNCHANGED <<kind, thens, request, disconnected, open, members, joined>>

\* InvokeAsync: the caller has the proxy promise at once.  If the target
\* refuses the call, nobody will ever settle it.
InvokeAsync(q, t) ==
  /\ kind[q] = "none"
  /\ kind' = [kind EXCEPT ![q] = "proxy"]
  /\ queue' = IF t \in open THEN [queue EXCEPT ![t] = Append(@, q)] ELSE queue
  /\ UNCHANGED <<value, thens, chained, locked, source, requestVars, open, allVars>>

\* ProxyRunnable::Run: the method returns a promise x, which q follows.
RunCall(t, q) ==
  /\ RunsNext(t, q)
  /\ \E x \in Promises \ {q} : ChainTo(x, q)
  /\ UNCHANGED <<kind, value, thens, requestVars, open, allVars>>

-----------------------------------------------------------------------------

Run(t) ==
  \/ \E r \in Requests : RunRequest(t, r)
  \/ \E q \in Promises : RunCall(t, q)

DispatchStep(p) == DispatchNext(p) \/ Forward(p)

Next ==
  \/ \E p \in Promises :
       \/ \E how \in {"resolve", "reject"} : ResolveOrReject(p, how)
       \/ DispatchStep(p)
       \/ \E n \in 1 .. MaxMembers :
            \E ps \in TupleOf({q \in Promises : Available(q)}, n) : All(ps, p)
       \/ \E t \in Targets : InvokeAsync(p, t)
  \/ \E p, c \in Promises, t \in Targets : Then(p, t) \/ ThenForPromise(p, t, c)
  \/ \E r \in Requests : Disconnect(r)
  \/ \E t \in Targets : JoinNext(t) \/ Run(t) \/ Close(t)

Spec == Init /\ [][Next]_vars

\* A thread in DispatchAll goes on, and so does the event loop of a target.
Fairness ==
  /\ \A p \in Promises : WF_vars(DispatchStep(p))
  /\ \A t \in Targets : WF_vars(Run(t))

FairSpec == Spec /\ Fairness

-----------------------------------------------------------------------------
(* Properties *)

\* There is one answer: who is told, on whatever thread and however late, is told
\* what the promise was settled with, and a promise that follows another one has
\* its outcome.  "The resolve/reject methods will never be called"
\* (MozPromise.h:1271) once a consumer has disconnected, also if the answer was
\* under way by then.
ToldTruly ==
  /\ \A r \in Requests : told[r] # Pending => told[r] = value[request[r].on]
  /\ \A p \in Promises :
       source[p] # NoPromise /\ Settled(p) => value[p] = value[source[p]]
  /\ \A r \in disconnected : told[r] = Pending

\* Consumers of one promise on one target are told in the order of their calls of
\* Then, those that came before the answer and those that came after.
InOrder ==
  \A r, s \in Issued :
    /\ r < s
    /\ request[r].on = request[s].on /\ request[r].target = request[s].target
    /\ s \in complete
    => r \in complete

\* The promise of All is resolved with the values of all promises, in their
\* order, or rejected like one of them; and it is settled once they all are and
\* were reported to it.
AllFaithful ==
  \A a \in Promises : kind[a] = "all" =>
    /\ value[a].how = "resolve" =>
         /\ \A i \in DOMAIN members : value[members[i]].how = "resolve"
         /\ value[a].of = FlattenSeq([i \in DOMAIN members |-> value[members[i]].of])
    /\ value[a].how = "reject" => \E i \in DOMAIN members : value[members[i]] = value[a]
    /\ ~Settled(a) => \E i \in DOMAIN members :
         ~\E r \in complete : request[r].index = i

\* Every consumer of a settled promise is told in the end, unless it disconnects,
\* and a promise that follows a settled one is settled: no Then and no ChainTo
\* slips through beside the settling.
EventuallyTold ==
  /\ \A r \in Requests :
       r \in Issued /\ Settled(request[r].on) ~> told[r] # Pending \/ r \in disconnected
  /\ \A p \in Promises :
       source[p] # NoPromise /\ Settled(source[p]) ~> Settled(p)
=============================================================================
