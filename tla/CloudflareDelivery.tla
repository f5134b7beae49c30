------------------------- MODULE CloudflareDelivery -------------------------
(***************************************************************************)
(* The Cloudflare backend: D1 rows, the outbox that bridges D1 and the     *)
(* Queue, and the queue consumer.  A D1 statement or batch is atomic; the  *)
(* acceptance handler, repair runs and consumer invocations await between  *)
(* them, so each awaited call is a step of its own.                        *)
(*                                                                         *)
(* Time is a lease running out, of an outbox claim or a delivery attempt.  *)
(* Tokens are fresh uuids; here a token is the run that drew it, which     *)
(* always claims before it writes.                                         *)
(***************************************************************************)
EXTENDS DeliveryPolicy, FiniteSets

CONSTANTS
    Events,
    Inherited,     \* events an earlier release, with a higher maximum, may have left to retry
    Messages,      \* queue messages, and so a bound on how many can be sent
    NoEvent,
    Repairers,     \* repair runs that can be under way at once
    Consumers,     \* consumer invocations that can be under way at once
    NoToken,       \* NULL
    Overlap,       \* may a lease run out while its owner is at work?
    RepairLimit,   \* LIMIT of claim_outbox: 100 in the code
    MaxRetries,    \* max_retries of the Queue: 4 in wrangler.jsonc
    MaxFaults      \* bound: failed sends, failed D1 calls and dying runs

ASSUME InheritedAssumption == Inherited \subseteq Events
ASSUME NullAssumption == NoEvent \notin Events /\ NoToken \notin Repairers \cup Consumers
ASSUME OverlapAssumption == Overlap \in BOOLEAN
ASSUME LimitAssumption == RepairLimit \in Nat \ {0} /\ MaxRetries \in Nat /\ MaxFaults \in Nat

VARIABLES
    status, attempt,        \* columns of events: status, attempt_count,
    token, leased,          \*   delivery_token, and whose delivery lease runs
    outbox,                 \* columns of outbox: state,
    claim, claimLeased,     \*   claim_token, and whose claim lease runs
    ref, place, tries,      \* of a message: event id, where it is, its retries
    apc,                    \* of the request that creates an event; "past" if left over
    rpc, todo,              \* of a repair run: next call, claimed events ahead
    cpc, job, mine,         \* of a consumer: next call, message, attempt it claimed
    receipts, calls,        \* events the sink processed; how often it was called
    faults

rowVars == <<status, attempt, token, leased>>
outboxVars == <<outbox, claim, claimLeased>>
queueVars == <<ref, place, tries>>
repairVars == <<rpc, todo>>
consumerVars == <<cpc, job, mine>>
sinkVars == <<receipts, calls>>
vars == <<rowVars, outboxVars, queueVars, apc, repairVars, consumerVars, sinkVars, faults>>

Waiting == {"queued", "retry_scheduled"}
Terminal == {"delivered", "dead_letter"}
Open == Waiting \cup {"delivering"}

TypeOK ==
    /\ status \in [Events -> Open \cup Terminal \cup {"none"}]
    /\ attempt \in [Events -> Nat]
    /\ token \in [Events -> Consumers \cup {NoToken}]
    /\ leased \subseteq Events
    /\ outbox \in [Events -> {"none", "pending", "sent"}]
    /\ claim \in [Events -> Repairers \cup {NoToken}]
    /\ claimLeased \subseteq Events
    /\ ref \in [Messages -> Events \cup {NoEvent}]
    /\ place \in [Messages -> {"unsent", "queue", "taken", "acked", "dlq"}]
    /\ tries \in [Messages -> 0 .. MaxRetries]
    /\ apc \in [Events -> {"new", "send", "mark", "done", "past"}]
    /\ rpc \in [Repairers -> {"idle", "send", "mark", "release"}]
    /\ todo \in [Repairers -> SUBSET Events]
    /\ cpc \in [Consumers -> {"idle", "start", "look", "exhaust", "reread", "deliver",
                              "complete", "retry", "bury", "ack", "again"}]
    /\ job \in [Consumers -> Messages \cup {NoToken}]
    /\ mine \in [Consumers -> Nat]
    /\ receipts \subseteq Events
    /\ calls \in [Events -> Nat]
    /\ faults \in 0 .. MaxFaults

\* A left over row waits with no attempt to spare; its outbox row is sent and
\* at least one message for it is in the queue.
LeftOver == {e \in Events : apc[e] = "past"}

Init ==
    /\ apc \in [Events -> {"new", "past"}]
    /\ LeftOver \subseteq Inherited
    /\ status = [e \in Events |-> IF e \in LeftOver THEN "retry_scheduled" ELSE "none"]
    /\ attempt = [e \in Events |-> IF e \in LeftOver THEN MaxAttempts ELSE 0]
    /\ token = [e \in Events |-> NoToken]
    /\ leased = {}
    /\ outbox = [e \in Events |-> IF e \in LeftOver THEN "sent" ELSE "none"]
    /\ claim = [e \in Events |-> NoToken]
    /\ claimLeased = {}
    /\ ref \in [Messages -> LeftOver \cup {NoEvent}]
    /\ \A e \in LeftOver : \E m \in Messages : ref[m] = e
    /\ place = [m \in Messages |-> IF ref[m] = NoEvent THEN "unsent" ELSE "queue"]
    /\ tries = [m \in Messages |-> 0]
    /\ rpc = [r \in Repairers |-> "idle"]
    /\ todo = [r \in Repairers |-> {}]
    /\ cpc = [c \in Consumers |-> "idle"]
    /\ job = [c \in Consumers |-> NoToken]
    /\ mine = [c \in Consumers |-> 0]
    /\ receipts = {}
    /\ calls = [e \in Events |-> attempt[e]]
    /\ faults = 0

(***************************************************************************)
(* The Queue (external): at least once, in no order.  A message handed     *)
(* back more than MaxRetries times moves to the provider's DLQ.            *)
(***************************************************************************)
Unsent == {m \in Messages : place[m] = "unsent"}

Send(e) == \E m \in Unsent :
    /\ ref' = [ref EXCEPT ![m] = e]
    /\ place' = [place EXCEPT ![m] = "queue"]
    /\ UNCHANGED tries

HandBack(m) ==
    /\ place' = [place EXCEPT ![m] = IF tries[m] < MaxRetries THEN "queue" ELSE "dlq"]
    /\ tries' = [tries EXCEPT ![m] = IF @ < MaxRetries THEN @ + 1 ELSE @]
    /\ UNCHANGED ref

Fault ==
    /\ faults < MaxFaults
    /\ faults' = faults + 1

(***************************************************************************)
(* POST /v1/events: one D1 batch creates the event and its pending outbox  *)
(* row.  A repeated request finds the row and changes nothing.             *)
(***************************************************************************)
Accept(e) ==
    /\ apc[e] = "new"
    /\ apc' = [apc EXCEPT ![e] = "send"]
    /\ status' = [status EXCEPT ![e] = "queued"]
    /\ outbox' = [outbox EXCEPT ![e] = "pending"]
    /\ UNCHANGED <<attempt, token, leased, claim, claimLeased, queueVars, repairVars, consumerVars,
                   sinkVars, faults>>

AcceptSend(e) ==
    /\ apc[e] = "send"
    /\ Send(e)
    /\ apc' = [apc EXCEPT ![e] = "mark"]
    /\ UNCHANGED <<rowVars, outboxVars, repairVars, consumerVars, sinkVars, faults>>

\* Mutant: the row counts as sent whatever the Queue said.
AcceptSendFailsMarked(e) ==
    /\ apc[e] = "send"
    /\ Fault
    /\ Send(e) \/ UNCHANGED queueVars
    /\ apc' = [apc EXCEPT ![e] = "done"]
    /\ outbox' = [outbox EXCEPT ![e] = "sent"]
    /\ UNCHANGED <<rowVars, claim, claimLeased, repairVars, consumerVars, sinkVars>>

\* The send is not confirmed; it may have happened.  The outbox row stays.
AcceptSendFails(e) ==
    /\ apc[e] = "send"
    /\ Fault
    /\ Send(e) \/ UNCHANGED queueVars
    /\ apc' = [apc EXCEPT ![e] = "done"]
    /\ UNCHANGED <<rowVars, outboxVars, repairVars, consumerVars, sinkVars>>

\* mark_dispatched: a compare-and-set on the state and the claim token.
MarkDispatched(e, t) ==
    IF outbox[e] = "pending" /\ claim[e] = t
    THEN /\ outbox' = [outbox EXCEPT ![e] = "sent"]
         /\ claim' = [claim EXCEPT ![e] = NoToken]
         /\ claimLeased' = claimLeased \ {e}
    ELSE UNCHANGED outboxVars

AcceptMark(e) ==
    /\ apc[e] = "mark"
    /\ MarkDispatched(e, NoToken)
    /\ apc' = [apc EXCEPT ![e] = "done"]
    /\ UNCHANGED <<rowVars, queueVars, repairVars, consumerVars, sinkVars, faults>>

(***************************************************************************)
(* repair, run by the cron trigger.                                        *)
(***************************************************************************)
\* Mutant: only rows nobody ever claimed.
ClaimableUnclaimed == {e \in Events : outbox[e] = "pending" /\ claim[e] = NoToken}

ClaimableOutbox ==
    {e \in Events : outbox[e] = "pending" /\ (claim[e] = NoToken \/ e \notin claimLeased)}

\* Sends that are already promised, so that the bound on messages stops new
\* repair runs and nothing else.
Promised ==
    Cardinality({e \in Events : apc[e] \in {"new", "send"}})
        + Cardinality({p \in Repairers \X Events : p[2] \in todo[p[1]]})

RepairClaim(r) ==
    /\ rpc[r] = "idle"
    /\ \E batch \in SUBSET ClaimableOutbox :
        /\ batch # {}
        /\ Cardinality(Unsent) >= Promised + Cardinality(batch)
        /\ Cardinality(batch) <= RepairLimit
        /\ batch = ClaimableOutbox \/ Cardinality(batch) = RepairLimit
        /\ todo' = [todo EXCEPT ![r] = batch]
        /\ claim' = [e \in Events |-> IF e \in batch THEN r ELSE claim[e]]
        /\ claimLeased' = claimLeased \cup batch
    /\ rpc' = [rpc EXCEPT ![r] = "send"]
    /\ UNCHANGED <<rowVars, outbox, queueVars, apc, consumerVars, sinkVars, faults>>

\* The row at hand is the first of todo; rows come in no particular order.
AtHand(r) == CHOOSE e \in todo[r] : TRUE

RepairSend(r) ==
    /\ rpc[r] = "send"
    /\ Send(AtHand(r))
    /\ rpc' = [rpc EXCEPT ![r] = "mark"]
    /\ UNCHANGED <<rowVars, outboxVars, apc, todo, consumerVars, sinkVars, faults>>

RepairSendFails(r) ==
    /\ rpc[r] = "send"
    /\ Fault
    /\ Send(AtHand(r)) \/ UNCHANGED queueVars
    /\ rpc' = [rpc EXCEPT ![r] = "release"]
    /\ UNCHANGED <<rowVars, outboxVars, apc, todo, consumerVars, sinkVars>>

\* The loop goes on with the next claimed row, or the run is over.
NextRow(r) ==
    /\ todo' = [todo EXCEPT ![r] = @ \ {AtHand(r)}]
    /\ rpc' = [rpc EXCEPT ![r] = IF todo[r] = {AtHand(r)} THEN "idle" ELSE "send"]

RepairMark(r) ==
    /\ rpc[r] = "mark"
    /\ MarkDispatched(AtHand(r), r)
    /\ NextRow(r)
    /\ UNCHANGED <<rowVars, queueVars, apc, consumerVars, sinkVars, faults>>

\* release_outbox_claim
RepairRelease(r) ==
    /\ rpc[r] = "release"
    /\ IF outbox[AtHand(r)] = "pending" /\ claim[AtHand(r)] = r
       THEN /\ claim' = [claim EXCEPT ![AtHand(r)] = NoToken]
            /\ claimLeased' = claimLeased \ {AtHand(r)}
            /\ UNCHANGED outbox
       ELSE UNCHANGED outboxVars
    /\ NextRow(r)
    /\ UNCHANGED <<rowVars, queueVars, apc, consumerVars, sinkVars, faults>>

\* D1 fails on the transition: the claim stays and the loop goes on.
RepairSkip(r) ==
    /\ rpc[r] \in {"mark", "release"}
    /\ Fault
    /\ NextRow(r)
    /\ UNCHANGED <<rowVars, outboxVars, queueVars, apc, consumerVars, sinkVars>>

RepairDies(r) ==
    /\ rpc[r] # "idle"
    /\ Fault
    /\ rpc' = [rpc EXCEPT ![r] = "idle"]
    /\ todo' = [todo EXCEPT ![r] = {}]
    /\ UNCHANGED <<rowVars, outboxVars, queueVars, apc, consumerVars, sinkVars>>

(***************************************************************************)
(* The queue handler and DeliveryService.process.                          *)
(***************************************************************************)
JobEvent(c) == ref[job[c]]

\* Calls made between a claim and the report of its outcome.
Owning == {"deliver", "complete", "retry", "bury"}

Goto(c, label) ==
    /\ cpc' = [cpc EXCEPT ![c] = label]
    /\ UNCHANGED <<job, mine>>

Take(c, m) ==
    /\ cpc[c] = "idle"
    /\ place[m] = "queue"
    /\ place' = [place EXCEPT ![m] = "taken"]
    /\ cpc' = [cpc EXCEPT ![c] = "start"]
    /\ job' = [job EXCEPT ![c] = m]
    /\ UNCHANGED <<rowVars, outboxVars, ref, tries, apc, repairVars, mine, sinkVars, faults>>

\* Mutant: a waiting event is claimed whatever its count.
CanClaimUnbounded(e) ==
    \/ status[e] \in Waiting
    \/ status[e] = "delivering" /\ e \notin leased

\* The WHERE clause of the claim in mark_delivery_started.
CanClaim(e) ==
    \/ status[e] \in Waiting /\ attempt[e] < MaxAttempts
    \/ status[e] = "delivering" /\ e \notin leased /\ attempt[e] <= MaxAttempts

\* Mutant: every claim counts.
NextAttemptAlways(e) == attempt[e] + 1

\* Its attempt_count: the last attempt is repeated without being counted again.
NextAttempt(e) ==
    IF status[e] = "delivering" /\ attempt[e] >= MaxAttempts THEN attempt[e] ELSE attempt[e] + 1

Start(c) ==
    /\ cpc[c] = "start"
    /\ LET e == JobEvent(c) IN
       \/ /\ CanClaim(e)
          /\ status' = [status EXCEPT ![e] = "delivering"]
          /\ attempt' = [attempt EXCEPT ![e] = NextAttempt(e)]
          /\ token' = [token EXCEPT ![e] = c]
          /\ leased' = leased \cup {e}
          /\ mine' = [mine EXCEPT ![c] = NextAttempt(e)]
          /\ cpc' = [cpc EXCEPT ![c] = "deliver"]
          /\ UNCHANGED job
       \/ ~CanClaim(e) /\ Goto(c, "look") /\ UNCHANGED rowVars
    /\ UNCHANGED <<outboxVars, queueVars, apc, repairVars, sinkVars, faults>>

\* The snapshot after a claim that matched no row: a finished event is
\* acknowledged, a busy or just changed one goes back to the queue, one
\* without attempts left is finished off.
Look(c) ==
    /\ cpc[c] = "look"
    /\ LET e == JobEvent(c) IN
       Goto(c, CASE status[e] \in Terminal -> "ack"
                 [] status[e] \in Waiting /\ attempt[e] >= MaxAttempts -> "exhaust"
                 [] OTHER -> "again")
    /\ UNCHANGED <<rowVars, outboxVars, queueVars, apc, repairVars, sinkVars, faults>>

Exhaust(c) ==
    /\ cpc[c] = "exhaust"
    /\ LET e == JobEvent(c) IN
       IF status[e] \in Waiting /\ attempt[e] >= MaxAttempts
       THEN status' = [status EXCEPT ![e] = "dead_letter"] /\ Goto(c, "ack")
       ELSE UNCHANGED status /\ Goto(c, "reread")
    /\ UNCHANGED <<attempt, token, leased, outboxVars, queueVars, apc, repairVars, sinkVars, faults>>

\* Mutant: a message that lost its attempt is done with.
RereadAcks(c) ==
    /\ cpc[c] = "reread"
    /\ Goto(c, "ack")
    /\ UNCHANGED <<rowVars, outboxVars, queueVars, apc, repairVars, sinkVars, faults>>

\* Whoever loses a compare-and-set reports the state as it is now
\* (_current_result, and the end of mark_delivery_started).
Reread(c) ==
    /\ cpc[c] = "reread"
    /\ Goto(c, IF status[JobEvent(c)] \in Terminal THEN "ack" ELSE "again")
    /\ UNCHANGED <<rowVars, outboxVars, queueVars, apc, repairVars, sinkVars, faults>>

\* What process does about a failed delivery.
AfterFailure(class, attemptCount) ==
    IF ShouldDeadLetter(class, attemptCount) THEN "bury" ELSE "retry"

\* FixedMockSink: a 2xx answer means the sink processed the event; a failure
\* leaves that open.
Deliver(c) ==
    /\ cpc[c] = "deliver"
    /\ calls' = [calls EXCEPT ![JobEvent(c)] = @ + 1]
    /\ \/ /\ receipts' = receipts \cup {JobEvent(c)}
          /\ Goto(c, "complete")
       \/ \E class \in ErrorClass :
            /\ receipts' \in {receipts, receipts \cup {JobEvent(c)}}
            /\ Goto(c, AfterFailure(class, mine[c]))
    /\ UNCHANGED <<rowVars, outboxVars, queueVars, apc, repairVars, faults>>

\* Mutants: the outcome is written whoever owns the attempt, and whatever
\* the status is.
OwnsUnfenced(c, e) == status[e] = "delivering"
OwnsAlways(c, e) == status[e] # "none"

\* The WHERE clause of _update_terminal.
Owns(c, e) == status[e] = "delivering" /\ token[e] = c

UpdateTerminal(c, from, newStatus, label) ==
    /\ cpc[c] = from
    /\ LET e == JobEvent(c) IN
       IF Owns(c, e)
       THEN /\ status' = [status EXCEPT ![e] = newStatus]
            /\ token' = [token EXCEPT ![e] = NoToken]
            /\ leased' = leased \ {e}
            /\ Goto(c, label)
       ELSE Goto(c, "reread") /\ UNCHANGED <<status, token, leased>>
    /\ UNCHANGED <<attempt, outboxVars, queueVars, apc, repairVars, sinkVars, faults>>

MarkDelivered(c) == UpdateTerminal(c, "complete", "delivered", "ack")
MarkRetry(c) == UpdateTerminal(c, "retry", "retry_scheduled", "again")
MarkDeadLetter(c) == UpdateTerminal(c, "bury", "dead_letter", "ack")

Leave(c) ==
    /\ cpc' = [cpc EXCEPT ![c] = "idle"]
    /\ job' = [job EXCEPT ![c] = NoToken]
    /\ mine' = [mine EXCEPT ![c] = 0]

Ack(c) ==
    /\ cpc[c] = "ack"
    /\ place' = [place EXCEPT ![job[c]] = "acked"]
    /\ Leave(c)
    /\ UNCHANGED <<rowVars, outboxVars, ref, tries, apc, repairVars, sinkVars, faults>>

Again(c) ==
    /\ cpc[c] = "again"
    /\ HandBack(job[c])
    /\ Leave(c)
    /\ UNCHANGED <<rowVars, outboxVars, apc, repairVars, sinkVars, faults>>

\* D1 fails, an answer is lost, or the invocation dies: the message comes
\* back.  A statement that ran before its answer was lost is its own step.
Fail(c) ==
    /\ cpc[c] # "idle"
    /\ Fault
    /\ HandBack(job[c])
    /\ Leave(c)
    /\ UNCHANGED <<rowVars, outboxVars, apc, repairVars, sinkVars>>

(***************************************************************************)
(* Time.  Both leases last 30 s.  A delivery gives up on the sink after    *)
(* 5 s; nothing bounds the D1 and Queue calls, or how long a run is        *)
(* suspended, which is what Overlap stands for.                            *)
(***************************************************************************)
ExpireClaim(e) ==
    /\ e \in claimLeased
    /\ Overlap \/ \A r \in Repairers : e \notin todo[r]
    /\ claimLeased' = claimLeased \ {e}
    /\ UNCHANGED <<rowVars, outbox, claim, queueVars, apc, repairVars, consumerVars, sinkVars, faults>>

ExpireDelivery(e) ==
    /\ e \in leased
    /\ Overlap \/ \A c \in Consumers : token[e] = c => cpc[c] \notin Owning
    /\ leased' = leased \ {e}
    /\ UNCHANGED <<status, attempt, token, outboxVars, queueVars, apc, repairVars, consumerVars,
                   sinkVars, faults>>

RequestStep(e) == Accept(e) \/ AcceptSend(e) \/ AcceptMark(e)
RepairStep(r) == RepairClaim(r) \/ RepairSend(r) \/ RepairMark(r) \/ RepairRelease(r)
ConsumerStep(c) ==
    \/ \E m \in Messages : Take(c, m)
    \/ Start(c) \/ Look(c) \/ Exhaust(c) \/ Reread(c) \/ Deliver(c)
    \/ MarkDelivered(c) \/ MarkRetry(c) \/ MarkDeadLetter(c) \/ Ack(c) \/ Again(c)

Next ==
    \/ \E e \in Events : RequestStep(e) \/ AcceptSendFails(e) \/ ExpireClaim(e) \/ ExpireDelivery(e)
    \/ \E r \in Repairers : RepairStep(r) \/ RepairSendFails(r) \/ RepairSkip(r) \/ RepairDies(r)
    \/ \E c \in Consumers : ConsumerStep(c) \/ Fail(c)

Spec == Init /\ [][Next]_vars

\* The cron trigger keeps running repair, the queue keeps delivering, leases
\* run out.  A request owes nothing: it may die at any of its awaits.
Fairness ==
    /\ \A r \in Repairers : WF_vars(RepairStep(r))
    /\ \A c \in Consumers : WF_vars(ConsumerStep(c))
    /\ \A e \in Events : WF_vars(ExpireClaim(e)) /\ WF_vars(ExpireDelivery(e))

FairSpec == Spec /\ Fairness

(***************************************************************************)
(* Properties.                                                             *)
(***************************************************************************)
Accepted(e) == status[e] # "none"
RefersTo(m, e, places) == ref[m] = e /\ place[m] \in places

\* An event that is not finished is never forgotten: its outbox row is still
\* pending, or a message for it is in the queue, with a consumer, or in the
\* provider's DLQ (the order commit, send, mark dispatched).
OpenIsReferenced ==
    \A e \in Events : status[e] \in Open =>
        \/ outbox[e] = "pending"
        \/ \E m \in Messages : RefersTo(m, e, {"queue", "taken", "dlq"})

\* A message is acknowledged only for a finished event, whoever finished it.
AckedIsTerminal ==
    \A m \in Messages : place[m] = "acked" => status[ref[m]] \in Terminal

\* There is no attempt beyond the maximum, whatever consumers die or overlap.
AttemptsBounded ==
    \A e \in Events : attempt[e] <= MaxAttempts

\* An event that waits for its next attempt has one left: an attempt that
\* lost its lease cannot put the last one back to retry_scheduled.
WaitingHasBudget ==
    \A e \in Events \ LeftOver : status[e] \in Waiting => attempt[e] < MaxAttempts

\* A row that was left with no attempt to spare is finished off without
\* another call to the sink, by whichever of its messages comes first.
ExhaustedIsNotDelivered ==
    \A e \in LeftOver : calls[e] = MaxAttempts /\ status[e] \in {"retry_scheduled", "dead_letter"}

\* Every accepted event is finished or left to the operator in the DLQ.
EventuallySettled ==
    \A e \in Events : Accepted(e) ~>
        status[e] \in Terminal \/ \E m \in Messages : RefersTo(m, e, {"dlq"})

\* The D1 row a client reads goes through the public life of an event, and
\* so never leaves a terminal status, although stale attempts report late.  A
\* row that was left over began its public life under another maximum.
Lifecycle == INSTANCE EventLifecycle WITH
    status <- [e \in Events |-> IF e \in LeftOver THEN "none" ELSE status[e]],
    attempt <- [e \in Events |-> IF e \in LeftOver THEN 0 ELSE attempt[e]]

ImplementsLifecycle == Lifecycle!Spec
=============================================================================
