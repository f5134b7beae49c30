--------------------------- MODULE DeliveryWorker ---------------------------
(***************************************************************************)
(* The Redis backend's delivery side: any number of worker processes, each *)
(* looping over EventWorker.run_once, against one event store and one      *)
(* downstream sink.  run_once awaits after every store call and around the *)
(* delivery, so each of its awaited calls is a step of its own and steps   *)
(* of different workers interleave freely.                                 *)
(*                                                                         *)
(* A store call can fail.  The worker then raises EventStoreUnavailable    *)
(* out of run_once and starts over, whether the script was not run, was    *)
(* refused, or was run and only its answer lost.  A script that was run    *)
(* and whose answer is lost is the step of that script followed by         *)
(* Abandon, so one action covers an unreachable Redis, a lost answer, an   *)
(* unexpected exception and a crash with a restart.                        *)
(***************************************************************************)
EXTENDS EventStore, DeliveryPolicy

CONSTANTS
    Workers,
    Overlap,     \* may an entry become idle while a live worker handles it?
    MaxFaults,   \* bound: abandoned and retransmitted calls in a behaviour
    MaxStray     \* bound: records written by something other than Hooklane

ASSUME OverlapAssumption == Overlap \in BOOLEAN
ASSUME BoundsAssumption == MaxFaults \in Nat /\ MaxStray \in Nat

VARIABLES
    pc,         \* the store or sink call a worker is about to make
    held,       \* the stream entry it works on, 0 if none
    tries,      \* the attempt count mark_delivery_started returned to it
    receipts,   \* events the sink has processed
    faults,     \* abandoned and retransmitted calls so far
    strays      \* stray records so far

workerVars == <<pc, held, tries>>
vars == <<storeVars, workerVars, receipts, faults, strays>>

\* Calls made while no entry is held, and while one is.
Scouting == {"ensure", "release", "claim", "read"}
Handling == {"start", "deliver", "complete", "retry", "bury", "isolate_claimed", "isolate_read"}

TypeOK ==
    /\ StoreTypeOK
    /\ pc \in [Workers -> Scouting \cup Handling]
    /\ held \in [Workers -> Nat]
    /\ tries \in [Workers -> Nat]
    /\ receipts \subseteq Events
    /\ faults \in 0 .. MaxFaults
    /\ strays \in 0 .. MaxStray

Init ==
    /\ StoreInit
    /\ pc = [w \in Workers |-> "ensure"]
    /\ held = [w \in Workers |-> 0]
    /\ tries = [w \in Workers |-> 0]
    /\ receipts = {}
    /\ faults = 0
    /\ strays = 0

HeldEvent(w) == stream[held[w]].event

Goto(w, label) ==
    /\ pc' = [pc EXCEPT ![w] = label]
    /\ UNCHANGED <<held, tries>>

\* run_once is over, normally or by an exception: nothing local survives it.
StartOver(w) ==
    /\ pc' = [pc EXCEPT ![w] = "ensure"]
    /\ held' = [held EXCEPT ![w] = 0]
    /\ tries' = [tries EXCEPT ![w] = 0]

\* The script answered with an error: EventStoreUnavailable.
Refused(w) == StartOver(w) /\ UNCHANGED storeVars

Hold(w, i, label) ==
    /\ pc' = [pc EXCEPT ![w] = label]
    /\ held' = [held EXCEPT ![w] = i]
    /\ UNCHANGED tries

(***************************************************************************)
(* The API accepts an event (see Ingress for the request side).            *)
(***************************************************************************)
Accept(e) ==
    /\ CanEnqueue(e)
    /\ Enqueue(e, "parsable")
    /\ UNCHANGED <<workerVars, receipts, faults, strays>>

(***************************************************************************)
(* One iteration of a worker, in the order of run_once.                    *)
(***************************************************************************)
Ensure(w) ==
    /\ pc[w] = "ensure"
    /\ EnsureConsumerGroup
    /\ Goto(w, "release")
    /\ UNCHANGED <<receipts, faults, strays>>

Release(w) ==
    /\ pc[w] = "release"
    /\ \/ \E e \in due : ReleaseDueRetry(e) \/ RemoveInvalidRecord(e)
       \/ due = {} /\ UNCHANGED storeVars
    /\ Goto(w, "claim")
    /\ UNCHANGED <<receipts, faults, strays>>

\* An entry with another disposition than delivery, or one that does not
\* parse, goes to quarantine in a call of its own.
Claim(w) ==
    /\ pc[w] = "claim"
    /\ \/ \E i \in Claimable :
            /\ ClaimStalePending(i)
            /\ Hold(w, i, IF PendingDisposition(i) = "delivery" /\ stream[i].form = "parsable"
                          THEN "start" ELSE "isolate_claimed")
       \/ Claimable = {} /\ UNCHANGED storeVars /\ Goto(w, "read")
    /\ UNCHANGED <<receipts, faults, strays>>

Read(w) ==
    /\ pc[w] = "read"
    /\ \/ \E i \in Unread :
            /\ ReadNext(i)
            /\ Hold(w, i, IF stream[i].form = "parsable" THEN "start" ELSE "isolate_read")
       \/ Unread = {} /\ UNCHANGED storeVars /\ StartOver(w)
    /\ UNCHANGED <<receipts, faults, strays>>

\* claim_stale_pending returns None after a quarantine and run_once goes on
\* to read_next; after read_next's own quarantine the iteration is over.
Isolate(w) ==
    /\ pc[w] \in {"isolate_claimed", "isolate_read"}
    /\ \/ /\ CanQuarantine(held[w])
          /\ QuarantineMessage(held[w])
          /\ IF pc[w] = "isolate_claimed" THEN Hold(w, 0, "read") ELSE StartOver(w)
       \/ ~CanQuarantine(held[w]) /\ Refused(w)
    /\ UNCHANGED <<receipts, faults, strays>>

Start(w) ==
    /\ pc[w] = "start"
    /\ \/ /\ CanStartDelivery(HeldEvent(w), held[w])
          /\ StartDelivery(HeldEvent(w))
          /\ tries' = [tries EXCEPT ![w] = attempt[HeldEvent(w)] + 1]
          /\ pc' = [pc EXCEPT ![w] = "deliver"]
          /\ UNCHANGED held
       \/ ~CanStartDelivery(HeldEvent(w), held[w]) /\ Refused(w)
    /\ UNCHANGED <<receipts, faults, strays>>

\* Mutant: a redirect counts as success.
AfterFailureRedirectSucceeds(class, attemptCount) ==
    CASE class = "http_3xx" -> "complete"
      [] class # "http_3xx" /\ ShouldDeadLetter(class, attemptCount) -> "bury"
      [] OTHER -> "retry"

\* What the worker does about a failed delivery.
AfterFailure(class, attemptCount) ==
    IF ShouldDeadLetter(class, attemptCount) THEN "bury" ELSE "retry"

\* The POST to the sink.  A 2xx answer means the sink processed the event; a
\* failure leaves that open (the sink may answer too late, or not at all).
Deliver(w) ==
    /\ pc[w] = "deliver"
    /\ \/ /\ receipts' = receipts \cup {HeldEvent(w)}
          /\ Goto(w, "complete")
       \/ \E class \in ErrorClass :
            /\ receipts' \in {receipts, receipts \cup {HeldEvent(w)}}
            /\ Goto(w, AfterFailure(class, tries[w]))
    /\ UNCHANGED <<storeVars, faults, strays>>

MarkDelivered(w) ==
    /\ pc[w] = "complete"
    /\ \/ /\ CanCompleteDelivery(HeldEvent(w), held[w])
          /\ CompleteDelivery(HeldEvent(w), held[w])
          /\ StartOver(w)
       \/ ~CanCompleteDelivery(HeldEvent(w), held[w]) /\ Refused(w)
    /\ UNCHANGED <<receipts, faults, strays>>

Retry(w) ==
    /\ pc[w] = "retry"
    /\ \/ /\ CanScheduleRetry(HeldEvent(w), held[w])
          /\ ScheduleRetry(HeldEvent(w))
          /\ StartOver(w)
       \/ ~CanScheduleRetry(HeldEvent(w), held[w]) /\ Refused(w)
    /\ UNCHANGED <<receipts, faults, strays>>

Bury(w) ==
    /\ pc[w] = "bury"
    /\ \/ /\ CanMoveToDeadLetter(HeldEvent(w), held[w])
          /\ MoveToDeadLetter(HeldEvent(w), held[w])
          /\ StartOver(w)
       \/ ~CanMoveToDeadLetter(HeldEvent(w), held[w]) /\ Refused(w)
    /\ UNCHANGED <<receipts, faults, strays>>

Abandon(w) ==
    /\ faults < MaxFaults
    /\ pc[w] # "ensure"
    /\ faults' = faults + 1
    /\ StartOver(w)
    /\ UNCHANGED <<storeVars, receipts, strays>>

\* The Redis client library sends a script again when the connection breaks
\* before the answer.  A second run of the other scripts is an abandoned call
\* and the next iteration's, or is refused; these two do not notice.
Retransmit(w) ==
    /\ faults < MaxFaults
    /\ faults' = faults + 1
    /\ \/ /\ pc[w] = "start"
          /\ CanStartDelivery(HeldEvent(w), held[w])
          /\ StartDelivery(HeldEvent(w))
       \/ /\ pc[w] = "retry"
          /\ CanScheduleRetry(HeldEvent(w), held[w])
          /\ ScheduleRetry(HeldEvent(w))
    /\ UNCHANGED <<workerVars, receipts, strays>>

(***************************************************************************)
(* The environment: time and stray records.                                *)
(***************************************************************************)
\* pending_idle_ms is meant to exceed the time an iteration takes (60 s by
\* default; the sink client gives up on a silent sink after 5 s).  Overlap
\* drops that assumption: a slow or paused worker finds its entry claimed.
Age(i) ==
    /\ Overlap \/ \A w \in Workers : held[w] # i
    /\ BecomeIdle(i)
    /\ UNCHANGED <<workerVars, receipts, faults, strays>>

ComeDue(e) ==
    /\ BecomeDue(e)
    /\ UNCHANGED <<workerVars, receipts, faults, strays>>

Stray ==
    /\ strays < MaxStray
    /\ strays' = strays + 1
    /\ \/ \E entry \in Entry : StrayMessage(entry)
       \/ \E e \in Events : StrayRetryMember(e)
       \/ \E e \in Events : CanEnqueue(e) /\ Enqueue(e, "malformed")
    /\ UNCHANGED <<workerVars, receipts, faults>>

Step(w) ==
    \/ Ensure(w) \/ Release(w) \/ Claim(w) \/ Read(w) \/ Isolate(w)
    \/ Start(w) \/ Deliver(w) \/ MarkDelivered(w) \/ Retry(w) \/ Bury(w)

Next ==
    \/ \E e \in Events : Accept(e) \/ ComeDue(e)
    \/ \E w \in Workers : Step(w) \/ Abandon(w) \/ Retransmit(w)
    \/ \E i \in DOMAIN stream : Age(i)
    \/ Stray

Spec == Init /\ [][Next]_vars

\* Every worker's loop runs on (its process is restarted when it exits), and
\* time passes.  Accepting, failing and stray records are never owed.
Fairness ==
    /\ \A w \in Workers : WF_vars(Step(w))
    /\ WF_vars(\E i \in DOMAIN stream : Age(i))
    /\ \A e \in Events : WF_vars(ComeDue(e))

FairSpec == Spec /\ Fairness

(***************************************************************************)
(* Properties.                                                             *)
(***************************************************************************)
Accepted(e) == status[e] # "none"

\* The event's current entry is kept in a dead-letter or quarantine stream.
FiledIn(log, e) == \E n \in DOMAIN log : log[n].event = e /\ log[n].source = streamId[e]

\* No accepted event is lost: its current stream entry can still be read or
\* claimed, or the sink has processed it, or it is kept in the dead-letter or
\* the quarantine stream.  Whatever workers overlap, crash or are told about
\* a script's outcome (run_once acknowledges only after the sink's answer).
NoLoss ==
    \A e \in Events : Accepted(e) =>
        \/ streamId[e] \in Live
        \/ e \in receipts
        \/ FiledIn(deadLetter, e)
        \/ FiledIn(quarantine, e)

\* The public status never claims a success the sink has not seen.
DeliveredIsReceived ==
    \A e \in Events : status[e] = "delivered" => e \in receipts

\* A scheduled retry is in the schedule: the claim script skips it, so the
\* schedule is all that brings it back (release_due_retry).
NoStrandedRetry ==
    \A e \in Events : status[e] = "retry_scheduled" => e \in retries

\* An event reaches the dead-letter stream once at most, although the move
\* can be repeated by a second worker or after a lost answer.
DeadLetterOnce ==
    \A m, n \in DOMAIN deadLetter : deadLetter[m].event = deadLetter[n].event => m = n

\* While an event is open a worker can still get hold of its entry.
OpenIsLive ==
    \A e \in Events : status[e] \in Open => streamId[e] \in Live

\* An event reported as dead_letter can be inspected: its entry was copied to
\* the dead-letter stream or noted in the quarantine stream.
DeadLetterIsFiled ==
    \A e \in Events : status[e] = "dead_letter" =>
        FiledIn(deadLetter, e) \/ FiledIn(quarantine, e)

\* Delivery attempts stay within the policy's maximum, plus one for every
\* iteration that was abandoned before it recorded its outcome and every
\* start the client library sent twice.
AttemptsBounded ==
    \A e \in Events : attempt[e] <= MaxAttempts + faults

\* Every accepted event is eventually delivered or dead-lettered.
EventuallyTerminal ==
    \A e \in Events : Accepted(e) ~> status[e] \in Terminal

\* The workers and the store implement the public life of an event: the hash
\* a client reads goes through no other transition.
Lifecycle == INSTANCE EventLifecycle WITH status <- status, attempt <- attempt

ImplementsLifecycle == Lifecycle!Spec
=============================================================================
