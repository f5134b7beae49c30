--------------------------- MODULE EventLifecycle ---------------------------
(***************************************************************************)
(* What Hooklane promises about an event: the status and attempt count     *)
(* that GET /v1/events/{event_id} shows, and how they may change.  It says *)
(* nothing of queues, workers or failures.  Both backends are meant to     *)
(* implement it.                                                           *)
(***************************************************************************)
EXTENDS Naturals

CONSTANT Events

VARIABLES status, attempt

vars == <<status, attempt>>

Waiting == {"queued", "retry_scheduled"}

Init ==
    /\ status = [e \in Events |-> "none"]
    /\ attempt = [e \in Events |-> 0]

Move(e, from, to) ==
    /\ status[e] \in from
    /\ status' = [status EXCEPT ![e] = to]
    /\ UNCHANGED attempt

Accept(e) == Move(e, {"none"}, "queued")

\* An attempt begins, or replaces one whose worker has gone.
Attempt(e) ==
    /\ status[e] \in Waiting \cup {"delivering"}
    /\ status' = [status EXCEPT ![e] = "delivering"]
    /\ attempt' = [attempt EXCEPT ![e] = @ + 1]

Succeed(e) == Move(e, {"delivering"}, "delivered")
Postpone(e) == Move(e, {"delivering"}, "retry_scheduled")
Requeue(e) == Move(e, {"retry_scheduled"}, "queued")
GiveUp(e) == Move(e, {"queued", "delivering"}, "dead_letter")

Next ==
    \E e \in Events :
        Accept(e) \/ Attempt(e) \/ Succeed(e) \/ Postpone(e) \/ Requeue(e) \/ GiveUp(e)

Spec == Init /\ [][Next]_vars
=============================================================================
