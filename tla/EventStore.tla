----------------------------- MODULE EventStore -----------------------------
(***************************************************************************)
(* RedisEventStore: the state Hooklane keeps in Redis and the operations   *)
(* on it.  Redis runs a Lua script or a single command atomically, so each *)
(* operation below is one step.  A script that answers with an error reply *)
(* has changed nothing: the condition under which it answers normally is   *)
(* its Can... operator, the effect has the script's own name.              *)
(*                                                                         *)
(* A stream entry is identified by its position (Redis stream ids grow);   *)
(* entries are never deleted, an acknowledged one only leaves the pending  *)
(* entries list.  Payload, event type, error class and timestamps are data *)
(* no decision depends on; "form" says whether the worker can parse the    *)
(* entry.                                                                  *)
(***************************************************************************)
EXTENDS Integers, Sequences, FiniteSets

CONSTANTS
    Events,     \* the event ids
    NoEvent,    \* an event_id field that is missing or no UUID
    ScanLimit   \* COUNT of the XPENDING in the claim script: 100 in the code

ASSUME NoEventAssumption == NoEvent \notin Events
ASSUME ScanLimitAssumption == ScanLimit \in Nat \ {0}

VARIABLES
    stream,      \* the event stream, a sequence of entries
    cursor,      \* the consumer group's last-delivered entry, or NoGroup
    pel,         \* the group's pending entries: delivered, not acknowledged
    idle,        \* those pending for at least pending_idle_ms
    status,      \* the status hash of an event: status,
    attempt,     \*   attempt_count
    streamId,    \*   and stream_id
    retries,     \* members of the retry schedule (a sorted set)
    due,         \* those whose score is not in the future
    deadLetter,  \* the dead-letter stream
    quarantine   \* the quarantine stream

hashVars == <<status, attempt, streamId>>
groupVars == <<cursor, pel, idle>>
scheduleVars == <<retries, due>>
storeVars == <<stream, groupVars, hashVars, scheduleVars, deadLetter, quarantine>>

\* The consumer group does not exist yet.
NoGroup == -1

Entry == [event : Events, form : {"parsable"}]
            \cup [event : Events \cup {NoEvent}, form : {"malformed"}]
Filed == [event : Events \cup {NoEvent}, source : Nat]

Open == {"queued", "delivering", "retry_scheduled"}
Terminal == {"delivered", "dead_letter"}

StoreTypeOK ==
    /\ stream \in Seq(Entry)
    /\ cursor \in Nat \cup {NoGroup}
    /\ pel \subseteq Nat
    /\ idle \subseteq pel
    /\ status \in [Events -> Open \cup Terminal \cup {"none"}]
    /\ attempt \in [Events -> Nat]
    /\ streamId \in [Events -> Nat]
    /\ retries \subseteq Events
    /\ due \subseteq retries
    /\ deadLetter \in Seq(Filed)
    /\ quarantine \in Seq(Filed)

StoreInit ==
    /\ stream = <<>>
    /\ cursor = NoGroup
    /\ pel = {}
    /\ idle = {}
    /\ status = [e \in Events |-> "none"]
    /\ attempt = [e \in Events |-> 0]
    /\ streamId = [e \in Events |-> 0]
    /\ retries = {}
    /\ due = {}
    /\ deadLetter = <<>>
    /\ quarantine = <<>>

(***************************************************************************)
(* Helpers.                                                                *)
(***************************************************************************)
Unread == {i \in 1 .. Len(stream) : i > cursor}

\* An entry a worker can still obtain, by reading or by claiming it.
Live == pel \cup Unread

XAck(i) ==
    /\ pel' = pel \ {i}
    /\ idle' = idle \ {i}
    /\ UNCHANGED cursor

\* The entry's own event points back at it.
Current(i) ==
    /\ stream[i].event \in Events
    /\ streamId[stream[i].event] = i

(***************************************************************************)
(* Acceptance.  The status hash must not exist yet.                        *)
(***************************************************************************)
CanEnqueue(e) == status[e] = "none"

Enqueue(e, form) ==
    /\ stream' = Append(stream, [event |-> e, form |-> form])
    /\ status' = [status EXCEPT ![e] = "queued"]
    /\ attempt' = [attempt EXCEPT ![e] = 0]
    /\ streamId' = [streamId EXCEPT ![e] = Len(stream) + 1]
    /\ UNCHANGED <<groupVars, scheduleVars, deadLetter, quarantine>>

(***************************************************************************)
(* The consumer group starts at id 0-0, so that it also covers what was    *)
(* accepted before it existed.                                             *)
(***************************************************************************)
\* Mutant: a group created at "$" misses what was accepted before it existed.
EnsureConsumerGroupAtTail ==
    /\ cursor' = IF cursor = NoGroup THEN Len(stream) ELSE cursor
    /\ UNCHANGED <<stream, pel, idle, hashVars, scheduleVars, deadLetter, quarantine>>

EnsureConsumerGroup ==
    /\ cursor' = IF cursor = NoGroup THEN 0 ELSE cursor
    /\ UNCHANGED <<stream, pel, idle, hashVars, scheduleVars, deadLetter, quarantine>>

\* XREADGROUP ... > COUNT 1: entry i is handed out and becomes pending.
ReadNext(i) ==
    /\ cursor # NoGroup
    /\ i \in Unread
    /\ i = cursor + 1
    /\ cursor' = i
    /\ pel' = pel \cup {i}
    /\ UNCHANGED <<stream, idle, hashVars, scheduleVars, deadLetter, quarantine>>

(***************************************************************************)
(* Claiming.  The script looks at the first ScanLimit idle pending entries *)
(* in stream order, skips those of a scheduled retry and claims the first  *)
(* other one, which resets its idle time.                                  *)
(***************************************************************************)
\* Mutant: a scheduled retry is not told apart from a broken record.
PendingDispositionRetryBlind(i) ==
    IF Current(i) /\ status[stream[i].event] \in {"queued", "delivering"}
    THEN "delivery" ELSE "invariant_violation"

PendingDisposition(i) ==
    IF ~Current(i) THEN "invariant_violation"
    ELSE CASE status[stream[i].event] = "retry_scheduled" -> "retry_scheduled"
           [] status[stream[i].event] \in {"queued", "delivering"} -> "delivery"
           [] OTHER -> "invariant_violation"

Scanned == {i \in idle : Cardinality({j \in idle : j <= i}) <= ScanLimit}

\* Mutant: only started deliveries are recovered, not entries read and dropped.
ClaimableStartedOnly ==
    {i \in Scanned : Current(i) /\ status[stream[i].event] = "delivering"}

Claimable == {i \in Scanned : PendingDisposition(i) # "retry_scheduled"}

ClaimStalePending(i) ==
    /\ i \in Claimable
    /\ \A j \in Claimable : i <= j
    /\ idle' = idle \ {i}
    /\ UNCHANGED <<stream, cursor, pel, hashVars, scheduleVars, deadLetter, quarantine>>

(***************************************************************************)
(* Delivery transitions of event e through entry i.                        *)
(***************************************************************************)
CanStartDelivery(e, i) == streamId[e] = i

StartDelivery(e) ==
    /\ status' = [status EXCEPT ![e] = "delivering"]
    /\ attempt' = [attempt EXCEPT ![e] = @ + 1]
    /\ UNCHANGED <<stream, groupVars, streamId, scheduleVars, deadLetter, quarantine>>

CanCompleteDelivery(e, i) == streamId[e] = i /\ i \in pel

CompleteDelivery(e, i) ==
    /\ XAck(i)
    /\ status' = [status EXCEPT ![e] = "delivered"]
    /\ UNCHANGED <<stream, attempt, streamId, scheduleVars, deadLetter, quarantine>>

CanScheduleRetry(e, i) == streamId[e] = i

\* Mutant: the failed entry is acknowledged when its retry is scheduled.
ScheduleRetryAcks(e) ==
    /\ status' = [status EXCEPT ![e] = "retry_scheduled"]
    /\ XAck(streamId[e])
    /\ retries' = retries \cup {e}
    /\ due' = due \ {e}
    /\ UNCHANGED <<stream, attempt, streamId, deadLetter, quarantine>>

\* ZADD moves the due time of a member that is already scheduled.
ScheduleRetry(e) ==
    /\ status' = [status EXCEPT ![e] = "retry_scheduled"]
    /\ retries' = retries \cup {e}
    /\ due' = due \ {e}
    /\ UNCHANGED <<stream, groupVars, attempt, streamId, deadLetter, quarantine>>

\* Mutant: the move does not ask whether the entry is still pending.
CanMoveToDeadLetterUnchecked(e, i) ==
    /\ streamId[e] = i
    /\ status[e] = "delivering"
    /\ attempt[e] >= 1
    /\ stream[i].event = e

CanMoveToDeadLetter(e, i) ==
    /\ streamId[e] = i
    /\ status[e] = "delivering"
    /\ attempt[e] >= 1
    /\ i \in pel
    /\ stream[i].event = e

MoveToDeadLetter(e, i) ==
    /\ deadLetter' = Append(deadLetter, [event |-> e, source |-> i])
    /\ XAck(i)
    /\ status' = [status EXCEPT ![e] = "dead_letter"]
    /\ retries' = retries \ {e}
    /\ due' = due \ {e}
    /\ UNCHANGED <<stream, attempt, streamId, quarantine>>

(***************************************************************************)
(* Releasing a due retry copies its entry to the end of the stream.  A     *)
(* member whose records do not fit together is removed from the schedule;  *)
(* its event ends as dead_letter if its hash is a sound retry_scheduled.   *)
(***************************************************************************)
CanRelease(e) ==
    /\ status[e] = "retry_scheduled"
    /\ streamId[e] \in pel
    /\ stream[streamId[e]].event = e

ReleaseDueRetry(e) ==
    /\ e \in due
    /\ CanRelease(e)
    /\ stream' = Append(stream, stream[streamId[e]])
    /\ XAck(streamId[e])
    /\ status' = [status EXCEPT ![e] = "queued"]
    /\ streamId' = [streamId EXCEPT ![e] = Len(stream) + 1]
    /\ retries' = retries \ {e}
    /\ due' = due \ {e}
    /\ UNCHANGED <<attempt, deadLetter, quarantine>>

\* Mutants: the error class written into the status field; the hash not
\* touched at all; the hash overwritten whatever its status.
RemoveInvalidRecordFields(e, newStatus) ==
    /\ e \in due
    /\ ~CanRelease(e)
    /\ status' = [status EXCEPT ![e] = newStatus]
    /\ retries' = retries \ {e}
    /\ due' = due \ {e}
    /\ UNCHANGED <<stream, groupVars, attempt, streamId, deadLetter, quarantine>>

RemoveInvalidRecordSwapped(e) ==
    RemoveInvalidRecordFields(e, IF status[e] = "retry_scheduled" THEN "invariant_violation" ELSE status[e])

RemoveInvalidRecordScheduleOnly(e) == RemoveInvalidRecordFields(e, status[e])

RemoveInvalidRecordForced(e) ==
    RemoveInvalidRecordFields(e, IF status[e] = "none" THEN "none" ELSE "dead_letter")

RemoveInvalidRecord(e) ==
    /\ e \in due
    /\ ~CanRelease(e)
    /\ status' = [status EXCEPT ![e] =
                    IF @ = "retry_scheduled" /\ attempt[e] >= 1 THEN "dead_letter" ELSE @]
    /\ retries' = retries \ {e}
    /\ due' = due \ {e}
    /\ UNCHANGED <<stream, groupVars, attempt, streamId, deadLetter, quarantine>>

(***************************************************************************)
(* Quarantine acknowledges a pending entry the worker will not deliver.    *)
(* The event ends as dead_letter only if this is its current entry and no  *)
(* outcome has been recorded for it.                                       *)
(***************************************************************************)
CanQuarantine(i) == i \in pel

QuarantineMessage(i) ==
    /\ quarantine' = Append(quarantine, [event |-> stream[i].event, source |-> i])
    /\ XAck(i)
    /\ status' = [e \in Events |->
                    IF /\ stream[i].event = e
                       /\ streamId[e] = i
                       /\ status[e] \in {"queued", "delivering"}
                    THEN "dead_letter"
                    ELSE status[e]]
    /\ UNCHANGED <<stream, attempt, streamId, scheduleVars, deadLetter>>

(***************************************************************************)
(* Time.  A pending entry reaches the idle threshold, a scheduled retry    *)
(* its due time.                                                           *)
(***************************************************************************)
BecomeIdle(i) ==
    /\ i \in pel \ idle
    /\ idle' = idle \cup {i}
    /\ UNCHANGED <<stream, cursor, pel, hashVars, scheduleVars, deadLetter, quarantine>>

BecomeDue(e) ==
    /\ e \in retries \ due
    /\ due' = due \cup {e}
    /\ UNCHANGED <<stream, groupVars, hashVars, retries, deadLetter, quarantine>>

(***************************************************************************)
(* Records another program, or an older version of this one, left behind:  *)
(* a stream entry no status hash points at, and a retry member.            *)
(***************************************************************************)
StrayMessage(entry) ==
    /\ stream' = Append(stream, entry)
    /\ UNCHANGED <<groupVars, hashVars, scheduleVars, deadLetter, quarantine>>

StrayRetryMember(e) ==
    /\ retries' = retries \cup {e}
    /\ due' = due \cup {e}
    /\ UNCHANGED <<stream, groupVars, hashVars, deadLetter, quarantine>>
=============================================================================
