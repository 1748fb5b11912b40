---------------------------- MODULE EventTarget ----------------------------
(***************************************************************************)
(* What an event target promises to the code that dispatches to it,        *)
(* whatever queues, locks and threads it is built from                     *)
(* (xpcom/threads/nsIEventTarget.idl, nsISerialEventTarget.idl).           *)
(*                                                                         *)
(* A group of targets shares one runner.  Each target is open or closed;   *)
(* an open target takes every event it is given, a closed one refuses it.  *)
(* The events one target took are delivered in the order in which they     *)
(* were taken, each of them once, also after the target has closed.  The   *)
(* group finishes only when nothing is pending any more, and from then on  *)
(* no target is open: no event that was taken is ever stranded.            *)
(*                                                                         *)
(* ThreadEventQueue, ThrottledEventQueue, TaskQueue and LazyIdleThread are *)
(* shown to implement this module.                                         *)
(***************************************************************************)
EXTENDS Sequences

CONSTANTS
  Targets,  \* the dispatch targets of the group
  Events    \* the events given to them, each at most once

VARIABLES
  pending,   \* per target: the events taken and not yet delivered, in order
  open,      \* the targets that still take events
  delivered, \* the events the runner has been given
  refused,   \* the events a closed target turned away
  finished   \* the runner has stopped for good

vars == <<pending, open, delivered, refused, finished>>

Waiting == UNION {{pending[t][i] : i \in DOMAIN pending[t]} : t \in Targets}
Fresh == Events \ (Waiting \cup delivered \cup refused)

Init ==
  /\ pending = [t \in Targets |-> <<>>]
  /\ open \in SUBSET Targets
  /\ delivered = {}
  /\ refused = {}
  /\ finished = FALSE

Accept(t, e) ==
  /\ t \in open
  /\ e \in Fresh
  /\ pending' = [pending EXCEPT ![t] = Append(@, e)]
  /\ UNCHANGED <<open, delivered, refused, finished>>

Refuse(t, e) ==
  /\ t \notin open
  /\ e \in Fresh
  /\ refused' = refused \cup {e}
  /\ UNCHANGED <<pending, open, delivered, finished>>

Deliver(t) ==
  /\ pending[t] # <<>>
  /\ delivered' = delivered \cup {Head(pending[t])}
  /\ pending' = [pending EXCEPT ![t] = Tail(@)]
  /\ UNCHANGED <<open, refused, finished>>

Open(t) ==
  /\ ~finished
  /\ open' = open \cup {t}
  /\ UNCHANGED <<pending, delivered, refused, finished>>

Close(t) ==
  /\ open' = open \ {t}
  /\ UNCHANGED <<pending, delivered, refused, finished>>

Finish ==
  /\ \A t \in Targets : pending[t] = <<>>
  /\ open' = {}
  /\ finished' = TRUE
  /\ UNCHANGED <<pending, delivered, refused>>

Next ==
  \/ \E t \in Targets, e \in Events : Accept(t, e) \/ Refuse(t, e)
  \/ \E t \in Targets : Deliver(t) \/ Open(t) \/ Close(t)
  \/ Finish

Spec == Init /\ [][Next]_vars
=============================================================================
