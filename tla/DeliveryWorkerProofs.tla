------------------------ MODULE DeliveryWorkerProofs ------------------------
(***************************************************************************)
(* Proofs about DeliveryWorker, for every set of events and workers, every *)
(* limit, and with or without overlapping workers.                         *)
(***************************************************************************)
EXTENDS DeliveryWorker, TLAPS

(***************************************************************************)
(* The inductive invariant.  NoLoss is about what an acknowledgement may   *)
(* remove, so it needs where an entry stands in the stream, what the hash  *)
(* of an event points at, and what a worker has behind it at each call.    *)
(***************************************************************************)
\* Pending entries are among those handed out, which exist.
GroupInv ==
    /\ cursor <= Len(stream)
    /\ pel \subseteq 1 .. cursor

\* The hash of an accepted event points at an entry of that event.
HashInv ==
    \A e \in Events :
        /\ status[e] = "none" => streamId[e] = 0 /\ attempt[e] = 0
        /\ status[e] # "none" => streamId[e] \in 1 .. Len(stream) /\ stream[streamId[e]].event = e

\* A worker holds an existing entry; past "start" it has begun an attempt at
\* an accepted event; at "complete" the sink has processed it.
Attempting == {"deliver", "complete", "retry", "bury"}

Placed(w) ==
    /\ pc[w] \in Handling => held[w] \in 1 .. Len(stream)
    /\ pc[w] \in Attempting \cup {"start"} => HeldEvent(w) \in Events
    /\ pc[w] \in Attempting => Accepted(HeldEvent(w)) /\ attempt[HeldEvent(w)] >= 1
    /\ pc[w] = "complete" => HeldEvent(w) \in receipts

WorkerInv == \A w \in Workers : Placed(w)

\* A retry is scheduled after an attempt and has its place in the schedule.
RetryInv ==
    \A e \in Events : status[e] = "retry_scheduled" => e \in retries /\ attempt[e] >= 1

\* A dead-lettered entry stays its event's current one and is acknowledged.
FilingInv ==
    \A n \in 1 .. Len(deadLetter) :
        /\ deadLetter[n].event \in Events
        /\ Accepted(deadLetter[n].event)
        /\ deadLetter[n].source = streamId[deadLetter[n].event]
        /\ deadLetter[n].source \in 1 .. cursor
        /\ deadLetter[n].source \notin pel

IInv ==
    /\ TypeOK
    /\ GroupInv
    /\ HashInv
    /\ WorkerInv
    /\ RetryInv
    /\ FilingInv
    /\ NoLoss
    /\ DeliveredIsReceived
    /\ DeadLetterOnce

\* What appending (XADD) does to the stream and to the two filing streams.
LEMMA AppendFacts ==
    ASSUME NEW S, NEW s \in Seq(S), NEW x \in S
    PROVE  /\ Append(s, x) \in Seq(S)
           /\ Len(Append(s, x)) = Len(s) + 1
           /\ \A n \in 1 .. Len(s) : Append(s, x)[n] = s[n]
           /\ Append(s, x)[Len(s) + 1] = x
           /\ Len(s) + 1 \in DOMAIN Append(s, x)
OBVIOUS

\* An entry of the stream is well typed.
LEMMA EntryFacts ==
    ASSUME TypeOK, NEW i \in 1 .. Len(stream)
    PROVE  /\ stream[i] \in Entry
           /\ stream[i].event \in Events \cup {NoEvent}
           /\ stream[i].form = "parsable" => stream[i].event \in Events
BY DEF TypeOK, StoreTypeOK, Entry

\* The empty Redis database and freshly started workers are well typed.
LEMMA TypeInit == Init => TypeOK
BY BoundsAssumption DEF Init, StoreInit, TypeOK, StoreTypeOK, Scouting, NoGroup

\* Every step keeps the types, given where a handled entry stands.
LEMMA TypeStep ==
    ASSUME TypeOK, GroupInv, HashInv, WorkerInv, Next
    PROVE  TypeOK'
<1> USE DEF TypeOK, StoreTypeOK, NoGroup
<1>1. ASSUME NEW e \in Events, Accept(e)
      PROVE  TypeOK'
  <2>1. [event |-> e, form |-> "parsable"] \in Entry
    BY DEF Entry
  <2> QED BY <1>1, <2>1, AppendFacts
          DEF Accept, CanEnqueue, Enqueue, workerVars, groupVars, scheduleVars, Open
<1>2. ASSUME NEW e \in Events, ComeDue(e)
      PROVE  TypeOK'
  BY <1>2 DEF ComeDue, BecomeDue, workerVars, groupVars, hashVars
<1>3. ASSUME NEW w \in Workers, Ensure(w)
      PROVE  TypeOK'
  BY <1>3 DEF Ensure, EnsureConsumerGroup, Goto, hashVars, scheduleVars, Scouting
<1>4. ASSUME NEW w \in Workers, Release(w)
      PROVE  TypeOK'
  <2>1. ASSUME NEW e \in due, ReleaseDueRetry(e)
        PROVE  TypeOK'
    <3>1. stream[streamId[e]] \in Entry
      BY <2>1 DEF ReleaseDueRetry, CanRelease, GroupInv
    <3>2. stream' \in Seq(Entry)
      BY <2>1, <3>1, AppendFacts DEF ReleaseDueRetry
    <3>3. pc' \in [Workers -> Scouting \cup Handling] /\ UNCHANGED <<held, tries, receipts, faults, strays>>
      BY <1>4 DEF Release, Goto, Scouting
    <3>4. pel' \subseteq Nat /\ idle' \subseteq pel' /\ cursor' = cursor
      BY <2>1 DEF ReleaseDueRetry, XAck
    <3>5. status' \in [Events -> Open \cup Terminal \cup {"none"}] /\ streamId' \in [Events -> Nat]
      BY <2>1 DEF ReleaseDueRetry, Open
    <3> QED BY <2>1, <3>2, <3>3, <3>4, <3>5 DEF ReleaseDueRetry
  <2>2. ASSUME NEW e \in due, RemoveInvalidRecord(e)
        PROVE  TypeOK'
    BY <1>4, <2>2 DEF Release, RemoveInvalidRecord, Goto, Scouting, Terminal, groupVars
  <2>3. CASE UNCHANGED storeVars
    BY <1>4, <2>3 DEF Release, Goto, Scouting, storeVars, groupVars, hashVars, scheduleVars
  <2> QED BY <1>4, <2>1, <2>2, <2>3 DEF Release
<1>5. ASSUME NEW w \in Workers, Claim(w)
      PROVE  TypeOK'
  <2>1. ASSUME NEW i \in Claimable, ClaimStalePending(i), NEW l \in Handling, Hold(w, i, l)
        PROVE  TypeOK'
    <3>1. i \in Nat
      BY DEF Claimable, Scanned
    <3> QED BY <1>5, <2>1, <3>1 DEF Claim, ClaimStalePending, Hold, hashVars, scheduleVars
  <2>2. CASE UNCHANGED storeVars /\ Goto(w, "read")
    BY <1>5, <2>2 DEF Claim, Goto, Scouting, storeVars, groupVars, hashVars, scheduleVars
  <2> QED BY <1>5, <2>1, <2>2 DEF Claim, Handling
<1>6. ASSUME NEW w \in Workers, Read(w)
      PROVE  TypeOK'
  <2>1. ASSUME NEW i \in Unread, ReadNext(i), NEW l \in Handling, Hold(w, i, l)
        PROVE  TypeOK'
    <3>1. i \in Nat
      BY DEF Unread
    <3> QED BY <1>6, <2>1, <3>1 DEF Read, ReadNext, Hold, hashVars, scheduleVars
  <2>2. CASE UNCHANGED storeVars /\ StartOver(w)
    BY <1>6, <2>2 DEF Read, StartOver, Scouting, storeVars, groupVars, hashVars, scheduleVars
  <2> QED BY <1>6, <2>1, <2>2 DEF Read, Handling
<1>7. ASSUME NEW w \in Workers, Isolate(w)
      PROVE  TypeOK'
  <2>1. CASE CanQuarantine(held[w]) /\ QuarantineMessage(held[w])
    <3>1. [event |-> stream[held[w]].event, source |-> held[w]] \in Filed
      BY <1>7, EntryFacts DEF Isolate, Filed, WorkerInv, Placed, Handling
    <3>2. /\ quarantine' \in Seq(Filed)
          /\ status' \in [Events -> Open \cup Terminal \cup {"none"}]
          /\ pel' \subseteq Nat /\ idle' \subseteq pel' /\ cursor' \in Nat \cup {NoGroup}
      BY <2>1, <3>1, AppendFacts DEF QuarantineMessage, XAck, Terminal
    <3>3. pc' \in [Workers -> Scouting \cup Handling] /\ held' \in [Workers -> Nat] /\ tries' \in [Workers -> Nat]
      <4>1. Hold(w, 0, "read") \/ StartOver(w)
        BY <1>7 DEF Isolate, Refused
      <4>2. CASE Hold(w, 0, "read")
        BY <4>2 DEF Hold, Scouting
      <4>3. CASE StartOver(w)
        BY <4>3 DEF StartOver, Scouting
      <4> QED BY <4>1, <4>2, <4>3
    <3> QED BY <1>7, <2>1, <3>2, <3>3 DEF Isolate, QuarantineMessage, scheduleVars
  <2>2. CASE Refused(w)
    BY <1>7, <2>2 DEF Isolate, Refused, StartOver, Scouting, storeVars, groupVars, hashVars, scheduleVars
  <2> QED BY <1>7, <2>1, <2>2 DEF Isolate
<1>8. ASSUME NEW w \in Workers, Start(w)
      PROVE  TypeOK'
  <2>1. HeldEvent(w) \in Events
    BY <1>8 DEF Start, WorkerInv, Placed
  <2>2. CASE /\ StartDelivery(HeldEvent(w))
             /\ tries' = [tries EXCEPT ![w] = attempt[HeldEvent(w)] + 1]
             /\ pc' = [pc EXCEPT ![w] = "deliver"]
             /\ UNCHANGED held
    <3>1. pc' \in [Workers -> Scouting \cup Handling] /\ tries' \in [Workers -> Nat] /\ held' = held
      BY <2>1, <2>2 DEF Handling
    <3>2. /\ status' \in [Events -> Open \cup Terminal \cup {"none"}]
          /\ attempt' \in [Events -> Nat]
      BY <2>1, <2>2 DEF StartDelivery, Open
    <3> QED BY <1>8, <2>2, <3>1, <3>2 DEF Start, StartDelivery, groupVars, scheduleVars
  <2>3. CASE Refused(w)
    BY <1>8, <2>3 DEF Start, Refused, StartOver, Scouting, storeVars, groupVars, hashVars, scheduleVars
  <2> QED BY <1>8, <2>2, <2>3 DEF Start
<1>9. ASSUME NEW w \in Workers, Deliver(w)
      PROVE  TypeOK'
  <2>1. HeldEvent(w) \in Events
    BY <1>9 DEF Deliver, WorkerInv, Placed, Attempting
  <2> QED BY <1>9, <2>1 DEF Deliver, Goto, AfterFailure, Handling, storeVars, groupVars, hashVars, scheduleVars
<1>10. ASSUME NEW w \in Workers, MarkDelivered(w)
       PROVE  TypeOK'
  <2>1. HeldEvent(w) \in Events
    BY <1>10 DEF MarkDelivered, WorkerInv, Placed, Attempting
  <2>2. CASE CompleteDelivery(HeldEvent(w), held[w]) /\ StartOver(w)
    BY <1>10, <2>1, <2>2 DEF MarkDelivered, CompleteDelivery, XAck, Terminal, StartOver, Scouting, groupVars, scheduleVars
  <2>3. CASE Refused(w)
    BY <1>10, <2>3 DEF MarkDelivered, Refused, StartOver, Scouting, storeVars, groupVars, hashVars, scheduleVars
  <2> QED BY <1>10, <2>2, <2>3 DEF MarkDelivered
<1>11. ASSUME NEW w \in Workers, Retry(w)
       PROVE  TypeOK'
  <2>1. HeldEvent(w) \in Events
    BY <1>11 DEF Retry, WorkerInv, Placed, Attempting
  <2>2. CASE ScheduleRetry(HeldEvent(w)) /\ StartOver(w)
    BY <1>11, <2>1, <2>2 DEF Retry, ScheduleRetry, Open, StartOver, Scouting, groupVars, scheduleVars
  <2>3. CASE Refused(w)
    BY <1>11, <2>3 DEF Retry, Refused, StartOver, Scouting, storeVars, groupVars, hashVars, scheduleVars
  <2> QED BY <1>11, <2>2, <2>3 DEF Retry
<1>12. ASSUME NEW w \in Workers, Bury(w)
       PROVE  TypeOK'
  <2>1. HeldEvent(w) \in Events /\ [event |-> HeldEvent(w), source |-> held[w]] \in Filed
    BY <1>12 DEF Bury, WorkerInv, Placed, Attempting, Filed
  <2>2. CASE MoveToDeadLetter(HeldEvent(w), held[w]) /\ StartOver(w)
    BY <1>12, <2>1, <2>2, AppendFacts DEF Bury, MoveToDeadLetter, XAck, Terminal, StartOver, Scouting, groupVars, scheduleVars
  <2>3. CASE Refused(w)
    BY <1>12, <2>3 DEF Bury, Refused, StartOver, Scouting, storeVars, groupVars, hashVars, scheduleVars
  <2> QED BY <1>12, <2>2, <2>3 DEF Bury
<1>13. ASSUME NEW w \in Workers, Abandon(w)
       PROVE  TypeOK'
  BY <1>13, BoundsAssumption DEF Abandon, StartOver, Scouting, storeVars, groupVars, hashVars, scheduleVars
<1>14. ASSUME NEW w \in Workers, Retransmit(w)
       PROVE  TypeOK'
  <2>1. HeldEvent(w) \in Events
    BY <1>14 DEF Retransmit, WorkerInv, Placed, Attempting
  <2>2. faults' \in 0 .. MaxFaults /\ UNCHANGED <<pc, held, tries, receipts, strays>>
    BY <1>14, BoundsAssumption DEF Retransmit, workerVars
  <2>3. CASE StartDelivery(HeldEvent(w))
    <3>1. /\ status' \in [Events -> Open \cup Terminal \cup {"none"}]
          /\ attempt' \in [Events -> Nat]
      BY <2>1, <2>3 DEF StartDelivery, Open
    <3> QED BY <2>2, <2>3, <3>1 DEF StartDelivery, groupVars, scheduleVars
  <2>4. CASE ScheduleRetry(HeldEvent(w))
    BY <2>1, <2>2, <2>4 DEF ScheduleRetry, Open, groupVars
  <2> QED BY <1>14, <2>3, <2>4 DEF Retransmit
<1>15. ASSUME NEW i \in DOMAIN stream, Age(i)
       PROVE  TypeOK'
  BY <1>15 DEF Age, BecomeIdle, workerVars, hashVars, scheduleVars
<1>16. CASE Stray
  <2>1. ASSUME NEW entry \in Entry, StrayMessage(entry)
        PROVE  TypeOK'
    BY <1>16, <2>1, AppendFacts, BoundsAssumption
       DEF Stray, StrayMessage, workerVars, groupVars, hashVars, scheduleVars
  <2>2. ASSUME NEW e \in Events, StrayRetryMember(e)
        PROVE  TypeOK'
    BY <1>16, <2>2, BoundsAssumption DEF Stray, StrayRetryMember, workerVars, groupVars, hashVars
  <2>3. ASSUME NEW e \in Events, Enqueue(e, "malformed")
        PROVE  TypeOK'
    <3>1. [event |-> e, form |-> "malformed"] \in Entry
      BY DEF Entry
    <3>2. stream' \in Seq(Entry)
      BY <2>3, <3>1, AppendFacts DEF Enqueue
    <3>3. strays' \in 0 .. MaxStray /\ UNCHANGED <<pc, held, tries, receipts, faults>>
      BY <1>16, BoundsAssumption DEF Stray, workerVars
    <3> QED BY <2>3, <3>2, <3>3 DEF Enqueue, groupVars, scheduleVars, Open
  <2> QED BY <1>16, <2>1, <2>2, <2>3 DEF Stray
<1> QED BY <1>1, <1>2, <1>3, <1>4, <1>5, <1>6, <1>7, <1>8, <1>9, <1>10, <1>11, <1>12, <1>13,
           <1>15, <1>16, <1>14 DEF Next, Step

(***************************************************************************)
(* The store operations, with what the worker's position says about them:  *)
(* apart from WorkerInv every part of the invariant is about the store, so *)
(* its preservation is argued per store operation and not per worker step. *)
(***************************************************************************)
Transition(e, i) ==
    \/ CanStartDelivery(e, i) /\ StartDelivery(e)
    \/ CanCompleteDelivery(e, i) /\ e \in receipts /\ CompleteDelivery(e, i)
    \/ CanScheduleRetry(e, i) /\ attempt[e] >= 1 /\ ScheduleRetry(e)
    \/ CanMoveToDeadLetter(e, i) /\ MoveToDeadLetter(e, i)

StoreOp ==
    \/ UNCHANGED storeVars
    \/ \E e \in Events, f \in {"parsable", "malformed"} : CanEnqueue(e) /\ Enqueue(e, f)
    \/ EnsureConsumerGroup
    \/ \E e \in Events : BecomeDue(e) \/ StrayRetryMember(e)
    \/ \E e \in Events : ReleaseDueRetry(e)
    \/ \E e \in Events : RemoveInvalidRecord(e)
    \/ \E x \in Entry : StrayMessage(x)
    \/ \E i \in Nat : ClaimStalePending(i) \/ BecomeIdle(i)
    \/ \E i \in Nat : ReadNext(i)
    \/ \E i \in 1 .. Len(stream) : CanQuarantine(i) /\ QuarantineMessage(i)
    \/ \E e \in Events, i \in 1 .. Len(stream) : stream[i].event = e /\ Transition(e, i)

\* Every step does one store operation, and the sink forgets nothing.
LEMMA StoreSteps ==
    ASSUME TypeOK, WorkerInv, Next
    PROVE  StoreOp /\ receipts \subseteq receipts'
<1>1. receipts \subseteq receipts'
  BY DEF Next, Accept, ComeDue, Step, Ensure, Release, Claim, Read, Isolate, Start, Deliver,
         MarkDelivered, Retry, Bury, Abandon, Retransmit, Age, Stray
<1>2. ASSUME NEW e \in Events, Accept(e) \/ ComeDue(e)
      PROVE  StoreOp
  BY <1>2 DEF Accept, ComeDue, StoreOp
<1>3. ASSUME NEW w \in Workers, Ensure(w) \/ Deliver(w) \/ Abandon(w)
      PROVE  StoreOp
  BY <1>3 DEF Ensure, Deliver, Abandon, StoreOp
<1>4. ASSUME NEW w \in Workers, Release(w)
      PROVE  StoreOp
  BY <1>4 DEF Release, StoreOp, ReleaseDueRetry, RemoveInvalidRecord, TypeOK, StoreTypeOK
<1>5. ASSUME NEW w \in Workers, Claim(w) \/ Read(w)
      PROVE  StoreOp
  <2>1. Claimable \subseteq idle
    BY DEF Claimable, Scanned
  <2>2. Unread \subseteq Nat
    BY DEF Unread
  <2> QED BY <1>5, <2>1, <2>2 DEF TypeOK, StoreTypeOK, Claim, Read, StoreOp
<1>6. ASSUME NEW w \in Workers, Isolate(w)
      PROVE  StoreOp
  <2>1. held[w] \in 1 .. Len(stream)
    BY <1>6 DEF Isolate, WorkerInv, Placed, Handling
  <2> QED BY <1>6, <2>1 DEF Isolate, Refused, StoreOp
<1>7. ASSUME NEW w \in Workers, Start(w) \/ MarkDelivered(w) \/ Retry(w) \/ Bury(w) \/ Retransmit(w)
      PROVE  StoreOp
  <2>1. held[w] \in 1 .. Len(stream) /\ HeldEvent(w) \in Events
    BY <1>7 DEF Start, MarkDelivered, Retry, Bury, Retransmit, WorkerInv, Placed, Handling, Attempting
  <2>2. pc[w] = "complete" => HeldEvent(w) \in receipts
    BY DEF WorkerInv, Placed
  <2>3. pc[w] = "retry" => attempt[HeldEvent(w)] >= 1
    BY DEF WorkerInv, Placed, Attempting
  <2>4. UNCHANGED storeVars \/ Transition(HeldEvent(w), held[w])
    BY <1>7, <2>2, <2>3 DEF Start, MarkDelivered, Retry, Bury, Retransmit, Refused, Transition
  <2> QED BY <2>1, <2>4 DEF StoreOp, HeldEvent
<1>8. ASSUME NEW i \in DOMAIN stream, Age(i)
      PROVE  StoreOp
  BY <1>8 DEF Age, StoreOp, TypeOK, StoreTypeOK
<1>9. CASE Stray
  BY <1>9 DEF Stray, StoreOp
<1> QED BY <1>1, <1>2, <1>3, <1>4, <1>5, <1>6, <1>7, <1>8, <1>9 DEF Next, Step

\* The stream only grows; an accepted event stays accepted and never loses an
\* attempt; the group never gives back an entry it has handed out.
LEMMA Monotone ==
    ASSUME TypeOK, HashInv, StoreOp
    PROVE  /\ Len(stream') >= Len(stream)
           /\ \A i \in 1 .. Len(stream) : stream'[i] = stream[i]
           /\ \A e \in Events : Accepted(e) => Accepted(e)' /\ attempt'[e] >= attempt[e]
           /\ cursor' >= cursor
<1> USE DEF TypeOK, StoreTypeOK, NoGroup, Accepted
<1> DEFINE Goal == /\ Len(stream') >= Len(stream)
                   /\ \A i \in 1 .. Len(stream) : stream'[i] = stream[i]
                   /\ \A e \in Events : Accepted(e) => Accepted(e)' /\ attempt'[e] >= attempt[e]
                   /\ cursor' >= cursor
<1>1. CASE UNCHANGED storeVars
  BY <1>1 DEF storeVars, groupVars, hashVars
<1>2. ASSUME NEW e \in Events, NEW f \in {"parsable", "malformed"}, CanEnqueue(e), Enqueue(e, f)
      PROVE  Goal
  <2>1. [event |-> e, form |-> f] \in Entry
    BY DEF Entry
  <2>2. Len(stream') >= Len(stream) /\ \A i \in 1 .. Len(stream) : stream'[i] = stream[i]
    BY <1>2, <2>1, AppendFacts DEF Enqueue
  <2> QED BY <1>2, <2>2 DEF Enqueue, CanEnqueue, groupVars
<1>3. CASE EnsureConsumerGroup
  BY <1>3 DEF EnsureConsumerGroup, hashVars
<1>4. ASSUME NEW e \in Events, BecomeDue(e) \/ StrayRetryMember(e)
      PROVE  Goal
  BY <1>4 DEF BecomeDue, StrayRetryMember, groupVars, hashVars
<1>5. ASSUME NEW e \in Events, ReleaseDueRetry(e)
      PROVE  Goal
  <2>1. stream[streamId[e]] \in Entry
    <3>1. streamId[e] \in 1 .. Len(stream)
      BY <1>5 DEF ReleaseDueRetry, CanRelease, HashInv
    <3> QED BY <3>1, EntryFacts
  <2>2. Len(stream') >= Len(stream) /\ \A i \in 1 .. Len(stream) : stream'[i] = stream[i]
    BY <1>5, <2>1, AppendFacts DEF ReleaseDueRetry
  <2> QED BY <1>5, <2>2 DEF ReleaseDueRetry, XAck
<1>6. ASSUME NEW e \in Events, RemoveInvalidRecord(e)
      PROVE  Goal
  BY <1>6 DEF RemoveInvalidRecord, groupVars
<1>7. ASSUME NEW x \in Entry, StrayMessage(x)
      PROVE  Goal
  BY <1>7, AppendFacts DEF StrayMessage, groupVars, hashVars
<1>8. ASSUME NEW i \in Nat, ClaimStalePending(i) \/ BecomeIdle(i) \/ ReadNext(i)
      PROVE  Goal
  BY <1>8 DEF ClaimStalePending, BecomeIdle, ReadNext, hashVars
<1>9. ASSUME NEW i \in 1 .. Len(stream), QuarantineMessage(i)
      PROVE  Goal
  BY <1>9 DEF QuarantineMessage, XAck
<1>10. ASSUME NEW e \in Events, NEW i \in 1 .. Len(stream), Transition(e, i)
       PROVE  Goal
  <2>1. CASE StartDelivery(e)
    BY <2>1 DEF StartDelivery, groupVars
  <2>2. CASE CompleteDelivery(e, i)
    BY <2>2 DEF CompleteDelivery, XAck
  <2>3. CASE ScheduleRetry(e)
    BY <2>3 DEF ScheduleRetry, groupVars
  <2>4. CASE MoveToDeadLetter(e, i)
    BY <2>4 DEF MoveToDeadLetter, XAck
  <2> QED BY <1>10, <2>1, <2>2, <2>3, <2>4 DEF Transition
<1> QED BY <1>1, <1>2, <1>3, <1>4, <1>5, <1>6, <1>7, <1>8, <1>9, <1>10 DEF StoreOp

(***************************************************************************)
(* Preservation, one lemma per part of the invariant.                      *)
(***************************************************************************)
\* Entries become pending by being read, and in no other way.
LEMMA CursorSteps ==
    ASSUME StoreOp
    PROVE  \/ cursor' = cursor /\ pel' \subseteq pel
           \/ EnsureConsumerGroup
           \/ \E i \in Nat : ReadNext(i)
BY DEF StoreOp, Transition, storeVars, Enqueue, BecomeDue, StrayRetryMember, ReleaseDueRetry,
       RemoveInvalidRecord, StrayMessage, ClaimStalePending, BecomeIdle, QuarantineMessage,
       StartDelivery, CompleteDelivery, ScheduleRetry, MoveToDeadLetter, XAck, groupVars

\* Reading moves the group's cursor by one existing entry (read_next).
LEMMA GroupStep ==
    ASSUME TypeOK, GroupInv, HashInv, StoreOp
    PROVE  GroupInv'
<1> USE DEF TypeOK, StoreTypeOK, NoGroup, GroupInv
<1>1. Len(stream') >= Len(stream) /\ Len(stream) \in Nat /\ Len(stream') \in Int
  <2>1. Len(stream') \in Int
    <3>1. UNCHANGED stream \/ \E x \in Entry : stream' = Append(stream, x)
      <4>1. ASSUME NEW e \in Events, NEW f \in {"parsable", "malformed"}, Enqueue(e, f)
            PROVE  \E x \in Entry : stream' = Append(stream, x)
        BY <4>1 DEF Enqueue, Entry
      <4>2. ASSUME NEW e \in Events, ReleaseDueRetry(e)
            PROVE  \E x \in Entry : stream' = Append(stream, x)
        <5>1. streamId[e] \in 1 .. Len(stream)
          BY <4>2 DEF ReleaseDueRetry, CanRelease, HashInv
        <5> QED BY <4>2, <5>1, EntryFacts DEF ReleaseDueRetry
      <4> QED BY <4>1, <4>2 DEF StoreOp, Transition, storeVars, EnsureConsumerGroup, BecomeDue,
             StrayRetryMember, RemoveInvalidRecord, StrayMessage, ClaimStalePending, BecomeIdle, ReadNext,
             QuarantineMessage, StartDelivery, CompleteDelivery, ScheduleRetry, MoveToDeadLetter
    <3> QED BY <3>1, AppendFacts
  <2> QED BY <2>1, Monotone
<1>2. \/ cursor' = cursor /\ pel' \subseteq pel
      \/ EnsureConsumerGroup
      \/ \E i \in Nat : ReadNext(i)
  BY CursorSteps
<1>3. CASE cursor' = cursor /\ pel' \subseteq pel
  BY <1>1, <1>3
<1>4. CASE EnsureConsumerGroup
  BY <1>1, <1>4 DEF EnsureConsumerGroup
<1>5. ASSUME NEW i \in Nat, ReadNext(i)
      PROVE  GroupInv'
  BY <1>1, <1>5 DEF ReadNext, Unread
<1> QED BY <1>2, <1>3, <1>4, <1>5

\* A hash is written with the entry it points at, in the same script.
LEMMA HashStep ==
    ASSUME TypeOK, GroupInv, HashInv, StoreOp
    PROVE  HashInv'
<1> USE DEF TypeOK, StoreTypeOK
<1>1. Len(stream') >= Len(stream) /\ \A i \in 1 .. Len(stream) : stream'[i] = stream[i]
  BY Monotone
<1>2. ASSUME NEW e \in Events, NEW f \in {"parsable", "malformed"}, CanEnqueue(e), Enqueue(e, f)
      PROVE  HashInv'
  <2>1. [event |-> e, form |-> f] \in Entry /\ [event |-> e, form |-> f].event = e
    BY DEF Entry
  <2>2. Len(stream') = Len(stream) + 1 /\ stream'[Len(stream) + 1].event = e
    BY <1>2, <2>1, AppendFacts DEF Enqueue
  <2> QED BY <1>1, <1>2, <2>2 DEF Enqueue, HashInv
<1>3. ASSUME NEW e \in Events, ReleaseDueRetry(e)
      PROVE  HashInv'
  <2>1. streamId[e] \in 1 .. Len(stream) /\ stream[streamId[e]].event = e
    BY <1>3 DEF ReleaseDueRetry, CanRelease, HashInv
  <2>2. Len(stream') = Len(stream) + 1 /\ stream'[Len(stream) + 1] = stream[streamId[e]]
    BY <1>3, <2>1, EntryFacts, AppendFacts DEF ReleaseDueRetry
  <2> QED BY <1>1, <1>3, <2>1, <2>2 DEF ReleaseDueRetry, CanRelease, HashInv
<1>4. ASSUME Len(stream') \in Int, UNCHANGED <<attempt, streamId>>,
             \A e \in Events : Accepted(e) <=> Accepted(e)'
      PROVE  HashInv'
  BY <1>1, <1>4 DEF HashInv, Accepted
<1>5. CASE UNCHANGED <<hashVars, stream>>
  BY <1>4, <1>5 DEF hashVars, Accepted
<1>6. ASSUME NEW e \in Events, RemoveInvalidRecord(e)
      PROVE  HashInv'
  BY <1>4, <1>6 DEF RemoveInvalidRecord, Accepted
<1>7. ASSUME NEW x \in Entry, StrayMessage(x)
      PROVE  HashInv'
  BY <1>4, <1>7, AppendFacts DEF StrayMessage, hashVars, Accepted
<1>8. ASSUME NEW i \in 1 .. Len(stream), QuarantineMessage(i)
      PROVE  HashInv'
  BY <1>4, <1>8 DEF QuarantineMessage, Accepted
<1>9. ASSUME NEW e \in Events, NEW i \in 1 .. Len(stream), Transition(e, i)
      PROVE  HashInv'
  <2>1. Accepted(e)
    <3>1. streamId[e] = i
      BY <1>9 DEF Transition, CanStartDelivery, CanCompleteDelivery, CanScheduleRetry, CanMoveToDeadLetter
    <3> QED BY <3>1 DEF HashInv, Accepted
  <2>2. CASE StartDelivery(e)
    BY <1>1, <2>1, <2>2 DEF StartDelivery, HashInv, Accepted
  <2>3. CASE CompleteDelivery(e, i) \/ ScheduleRetry(e) \/ MoveToDeadLetter(e, i)
    BY <1>4, <2>1, <2>3 DEF CompleteDelivery, ScheduleRetry, MoveToDeadLetter, Accepted
  <2> QED BY <1>9, <2>2, <2>3 DEF Transition
<1> QED BY <1>2, <1>3, <1>5, <1>6, <1>7, <1>8, <1>9
        DEF StoreOp, storeVars, EnsureConsumerGroup, BecomeDue, StrayRetryMember, ClaimStalePending,
            BecomeIdle, ReadNext

\* Only StartDelivery raises an attempt count, only Enqueue resets one.
LEMMA RetryStep ==
    ASSUME TypeOK, HashInv, RetryInv, StoreOp
    PROVE  RetryInv'
<1> USE DEF TypeOK, StoreTypeOK, RetryInv
<1>1. ASSUME NEW e \in Events, NEW f \in {"parsable", "malformed"}, Enqueue(e, f)
      PROVE  RetryInv'
  BY <1>1 DEF Enqueue, scheduleVars
<1>2. ASSUME NEW e \in Events, BecomeDue(e) \/ StrayRetryMember(e)
      PROVE  RetryInv'
  BY <1>2 DEF BecomeDue, StrayRetryMember, hashVars
<1>3. ASSUME NEW e \in Events, ReleaseDueRetry(e)
      PROVE  RetryInv'
  BY <1>3 DEF ReleaseDueRetry
<1>4. ASSUME NEW e \in Events, RemoveInvalidRecord(e)
      PROVE  RetryInv'
  BY <1>4 DEF RemoveInvalidRecord
<1>5. CASE UNCHANGED <<hashVars, scheduleVars>>
  BY <1>5 DEF hashVars, scheduleVars
<1>6. ASSUME NEW i \in 1 .. Len(stream), QuarantineMessage(i)
      PROVE  RetryInv'
  BY <1>6 DEF QuarantineMessage, scheduleVars
<1>7. ASSUME NEW e \in Events, NEW i \in 1 .. Len(stream), Transition(e, i)
      PROVE  RetryInv'
  <2>1. CASE StartDelivery(e)
    BY <2>1 DEF StartDelivery, scheduleVars
  <2>2. CASE CompleteDelivery(e, i)
    BY <2>2 DEF CompleteDelivery, scheduleVars
  <2>3. CASE attempt[e] >= 1 /\ ScheduleRetry(e)
    BY <2>3 DEF ScheduleRetry
  <2>4. CASE MoveToDeadLetter(e, i)
    BY <2>4 DEF MoveToDeadLetter
  <2> QED BY <1>7, <2>1, <2>2, <2>3, <2>4 DEF Transition
<1> QED BY <1>1, <1>2, <1>3, <1>4, <1>5, <1>6, <1>7
        DEF StoreOp, storeVars, EnsureConsumerGroup, StrayMessage, ClaimStalePending, BecomeIdle, ReadNext

\* Only mark_delivered sets delivered, and only after the sink's success.
LEMMA ReceivedStep ==
    ASSUME TypeOK, DeliveredIsReceived, StoreOp, receipts \subseteq receipts'
    PROVE  DeliveredIsReceived'
<1> USE DEF TypeOK, StoreTypeOK, DeliveredIsReceived
<1>1. ASSUME NEW e \in Events, NEW f \in {"parsable", "malformed"}, Enqueue(e, f)
      PROVE  DeliveredIsReceived'
  BY <1>1 DEF Enqueue
<1>2. ASSUME NEW e \in Events, ReleaseDueRetry(e) \/ RemoveInvalidRecord(e)
      PROVE  DeliveredIsReceived'
  BY <1>2 DEF ReleaseDueRetry, RemoveInvalidRecord
<1>3. CASE UNCHANGED hashVars
  BY <1>3 DEF hashVars
<1>4. ASSUME NEW i \in 1 .. Len(stream), QuarantineMessage(i)
      PROVE  DeliveredIsReceived'
  BY <1>4 DEF QuarantineMessage
<1>5. ASSUME NEW e \in Events, NEW i \in 1 .. Len(stream), Transition(e, i)
      PROVE  DeliveredIsReceived'
  BY <1>5 DEF Transition, StartDelivery, CompleteDelivery, ScheduleRetry, MoveToDeadLetter
<1> QED BY <1>1, <1>2, <1>3, <1>4, <1>5
        DEF StoreOp, storeVars, EnsureConsumerGroup, BecomeDue, StrayRetryMember, StrayMessage,
            ClaimStalePending, BecomeIdle, ReadNext

\* A filed entry is no longer pending and was read, so its event's hash can
\* neither be moved to another entry nor be filed again.
LEMMA FilingStep ==
    ASSUME TypeOK, GroupInv, HashInv, FilingInv, DeadLetterOnce, StoreOp
    PROVE  FilingInv' /\ DeadLetterOnce'
<1> USE DEF TypeOK, StoreTypeOK, NoGroup
<1>1. /\ \A e \in Events : Accepted(e) => Accepted(e)'
      /\ cursor' >= cursor
      /\ cursor' \in Int
  <2>1. cursor' \in Int
    BY CursorSteps DEF EnsureConsumerGroup, ReadNext
  <2> QED BY <2>1, Monotone
<1>2. ASSUME UNCHANGED deadLetter,
             \A n \in 1 .. Len(deadLetter) :
                /\ streamId'[deadLetter[n].event] = streamId[deadLetter[n].event]
                /\ deadLetter[n].source \notin pel'
      PROVE  FilingInv' /\ DeadLetterOnce'
  BY <1>1, <1>2 DEF FilingInv, DeadLetterOnce, Accepted
<1>3. ASSUME NEW e \in Events, NEW f \in {"parsable", "malformed"}, CanEnqueue(e), Enqueue(e, f)
      PROVE  FilingInv' /\ DeadLetterOnce'
  BY <1>2, <1>3 DEF Enqueue, CanEnqueue, FilingInv, Accepted, groupVars
<1>4. ASSUME NEW e \in Events, ReleaseDueRetry(e)
      PROVE  FilingInv' /\ DeadLetterOnce'
  BY <1>2, <1>4 DEF ReleaseDueRetry, CanRelease, FilingInv, XAck
<1>5. CASE UNCHANGED <<streamId, deadLetter>> /\ pel' \subseteq pel
  BY <1>2, <1>5 DEF FilingInv
<1>6. ASSUME NEW i \in Nat, ReadNext(i)
      PROVE  FilingInv' /\ DeadLetterOnce'
  BY <1>2, <1>6 DEF ReadNext, Unread, FilingInv, hashVars
<1>7. ASSUME NEW e \in Events, NEW i \in 1 .. Len(stream), stream[i].event = e,
             CanMoveToDeadLetter(e, i), MoveToDeadLetter(e, i)
      PROVE  FilingInv' /\ DeadLetterOnce'
  <2> DEFINE r == [event |-> e, source |-> i]
  <2>1. r \in Filed /\ r.event = e /\ r.source = i
    BY DEF Filed
  <2> HIDE DEF r
  <2>2. /\ Len(deadLetter') = Len(deadLetter) + 1
        /\ \A n \in 1 .. Len(deadLetter) : deadLetter'[n] = deadLetter[n]
        /\ deadLetter'[Len(deadLetter) + 1] = r
    BY <1>7, <2>1, AppendFacts DEF MoveToDeadLetter, r
  <2>3. i \in pel /\ i \in 1 .. cursor /\ streamId[e] = i /\ Accepted(e)
    BY <1>7 DEF CanMoveToDeadLetter, GroupInv, Accepted
  <2>4. pel' = pel \ {i} /\ UNCHANGED <<streamId, cursor>>
    BY <1>7 DEF MoveToDeadLetter, XAck
  <2>5. \A n \in 1 .. Len(deadLetter) : deadLetter[n].event # e
    BY <2>3 DEF FilingInv
  <2>6. FilingInv'
    <3> SUFFICES ASSUME NEW n \in 1 .. (Len(deadLetter) + 1)
                 PROVE  /\ deadLetter'[n].event \in Events
                        /\ status'[deadLetter'[n].event] # "none"
                        /\ deadLetter'[n].source = streamId'[deadLetter'[n].event]
                        /\ deadLetter'[n].source \in 1 .. cursor'
                        /\ deadLetter'[n].source \notin pel'
      BY <2>2 DEF FilingInv, Accepted
    <3>1. CASE n \in 1 .. Len(deadLetter)
      BY <1>1, <2>2, <2>4, <3>1 DEF FilingInv, Accepted
    <3>2. CASE n = Len(deadLetter) + 1
      BY <1>1, <2>1, <2>2, <2>3, <2>4, <3>2 DEF Accepted
    <3>3. Len(deadLetter) \in Nat
      OBVIOUS
    <3>4. n \in 1 .. Len(deadLetter) \/ n = Len(deadLetter) + 1
      BY ONLY <3>3, n \in 1 .. (Len(deadLetter) + 1)
    <3> QED BY <3>1, <3>2, <3>4
  <2>7. DeadLetterOnce'
    <3>1. DOMAIN deadLetter' = 1 .. (Len(deadLetter) + 1) /\ DOMAIN deadLetter = 1 .. Len(deadLetter)
      BY <1>7, <2>1, AppendFacts DEF MoveToDeadLetter, r
    <3>2. \A n \in 1 .. Len(deadLetter) :
            deadLetter'[n].event = deadLetter[n].event /\ deadLetter'[n].event # e
      BY <2>2, <2>5
    <3>3. deadLetter'[Len(deadLetter) + 1].event = e
      BY <2>1, <2>2
    <3> SUFFICES ASSUME NEW m \in 1 .. (Len(deadLetter) + 1), NEW n \in 1 .. (Len(deadLetter) + 1),
                        deadLetter'[m].event = deadLetter'[n].event
                 PROVE  m = n
      BY <3>1 DEF DeadLetterOnce
    <3>4. CASE m \in 1 .. Len(deadLetter) /\ n \in 1 .. Len(deadLetter)
      BY <3>1, <3>2, <3>4 DEF DeadLetterOnce
    <3> QED BY <3>2, <3>3, <3>4
  <2> QED BY <2>6, <2>7
<1>8. ASSUME NEW e \in Events, NEW i \in 1 .. Len(stream), stream[i].event = e, Transition(e, i)
      PROVE  FilingInv' /\ DeadLetterOnce'
  BY <1>5, <1>7, <1>8 DEF Transition, StartDelivery, CompleteDelivery, ScheduleRetry, XAck, groupVars
<1> QED BY <1>3, <1>4, <1>5, <1>6, <1>8
        DEF StoreOp, storeVars, groupVars, hashVars, EnsureConsumerGroup, BecomeDue, StrayRetryMember,
            RemoveInvalidRecord, StrayMessage, ClaimStalePending, BecomeIdle, QuarantineMessage, XAck

\* What is filed stays filed.
LEMMA LogsGrow ==
    ASSUME TypeOK, StoreOp, NEW e \in Events, streamId'[e] = streamId[e]
    PROVE  /\ FiledIn(deadLetter, e) => FiledIn(deadLetter, e)'
           /\ FiledIn(quarantine, e) => FiledIn(quarantine, e)'
<1> USE DEF TypeOK, StoreTypeOK, FiledIn
<1>1. CASE UNCHANGED <<deadLetter, quarantine>>
  BY <1>1
<1>2. ASSUME NEW i \in 1 .. Len(stream), QuarantineMessage(i)
      PROVE  /\ FiledIn(deadLetter, e) => FiledIn(deadLetter, e)'
             /\ FiledIn(quarantine, e) => FiledIn(quarantine, e)'
  <2>1. [event |-> stream[i].event, source |-> i] \in Filed
    <3>1. stream[i].event \in Events \cup {NoEvent} /\ i \in Nat
      BY EntryFacts
    <3> QED BY <3>1 DEF Filed
  <2>2. /\ Len(quarantine') = Len(quarantine) + 1
        /\ \A n \in 1 .. Len(quarantine) : quarantine'[n] = quarantine[n]
        /\ DOMAIN quarantine' = 1 .. Len(quarantine') /\ DOMAIN quarantine = 1 .. Len(quarantine)
        /\ Len(quarantine) \in Nat
    BY <1>2, <2>1, AppendFacts DEF QuarantineMessage
  <2> QED BY <1>2, <2>2 DEF QuarantineMessage
<1>3. ASSUME NEW f \in Events, NEW i \in 1 .. Len(stream), MoveToDeadLetter(f, i)
      PROVE  /\ FiledIn(deadLetter, e) => FiledIn(deadLetter, e)'
             /\ FiledIn(quarantine, e) => FiledIn(quarantine, e)'
  <2>1. [event |-> f, source |-> i] \in Filed
    BY DEF Filed
  <2>2. /\ Len(deadLetter') = Len(deadLetter) + 1
        /\ \A n \in 1 .. Len(deadLetter) : deadLetter'[n] = deadLetter[n]
        /\ DOMAIN deadLetter' = 1 .. Len(deadLetter') /\ DOMAIN deadLetter = 1 .. Len(deadLetter)
        /\ Len(deadLetter) \in Nat
    BY <1>3, <2>1, AppendFacts DEF MoveToDeadLetter
  <2> QED BY <1>3, <2>2 DEF MoveToDeadLetter
<1> QED BY <1>1, <1>2, <1>3
        DEF StoreOp, Transition, storeVars, Enqueue, EnsureConsumerGroup, BecomeDue, StrayRetryMember,
            ReleaseDueRetry, RemoveInvalidRecord, StrayMessage, ClaimStalePending, BecomeIdle, ReadNext,
            StartDelivery, CompleteDelivery, ScheduleRetry

\* An operation keeps an event safe in one of four ways: it leaves the current
\* entry obtainable, appends the new current entry, follows the sink's answer,
\* or files the entry it acknowledges.
LEMMA NoLossStep ==
    ASSUME TypeOK, TypeOK', GroupInv, GroupInv', HashInv, NoLoss, StoreOp, receipts \subseteq receipts'
    PROVE  NoLoss'
<1> USE DEF TypeOK, StoreTypeOK, NoGroup
<1> DEFINE Safe(e) == \/ streamId[e] \in Live
                      \/ e \in receipts
                      \/ FiledIn(deadLetter, e)
                      \/ FiledIn(quarantine, e)
<1>0. Len(stream') >= Len(stream) /\ Len(stream) \in Nat /\ Len(stream') \in Nat
  BY Monotone
<1>1. ASSUME NEW e \in Events, Safe(e), streamId'[e] = streamId[e],
             streamId[e] \in Live => streamId[e] \in Live'
      PROVE  Safe(e)'
  BY <1>1, LogsGrow
<1>2. ASSUME pel \subseteq pel', cursor' = cursor
      PROVE  Live \subseteq Live'
  <2>1. Unread \subseteq Unread'
    BY <1>0, <1>2 DEF Unread
  <2> QED BY <1>2, <2>1 DEF Live
<1>3. ASSUME NEW i \in Nat, XAck(i)
      PROVE  Live \ {i} \subseteq Live'
  BY <1>0, <1>3 DEF Live, Unread, XAck
<1>4. ASSUME Live \subseteq Live', UNCHANGED streamId, \A e \in Events : Accepted(e)' => Accepted(e)
      PROVE  NoLoss'
  BY <1>1, <1>4 DEF NoLoss
<1>5. \A e, f \in Events : Accepted(e) /\ Accepted(f) /\ streamId[e] = streamId[f] => e = f
  <2> SUFFICES ASSUME NEW e \in Events, NEW f \in Events, Accepted(e), Accepted(f),
                      streamId[e] = streamId[f]
               PROVE  e = f
    OBVIOUS
  <2>1. stream[streamId[e]].event = e /\ stream[streamId[f]].event = f
    BY DEF HashInv, Accepted
  <2> QED BY <2>1
<1>6. ASSUME NEW e \in Events, NEW f \in {"parsable", "malformed"}, CanEnqueue(e), Enqueue(e, f)
      PROVE  NoLoss'
  <2>1. Len(stream) + 1 \in Live'
    <3>1. [event |-> e, form |-> f] \in Entry
      BY DEF Entry
    <3>2. Len(stream') = Len(stream) + 1
      BY <1>6, <3>1, AppendFacts DEF Enqueue
    <3> QED BY <1>0, <1>6, <3>2 DEF Live, Unread, GroupInv, Enqueue, groupVars
  <2>2. Live \subseteq Live'
    BY <1>2, <1>6 DEF Enqueue, groupVars
  <2> SUFFICES ASSUME NEW d \in Events, Accepted(d)'
               PROVE  Safe(d)'
    BY DEF NoLoss
  <2>3. CASE d = e
    BY <1>6, <2>1, <2>3 DEF Enqueue
  <2>4. CASE d # e
    <3>1. Accepted(d) /\ streamId'[d] = streamId[d]
      BY <1>6, <2>4 DEF Enqueue, Accepted
    <3> QED BY <1>1, <2>2, <3>1 DEF NoLoss
  <2> QED BY <2>3, <2>4
<1>7. ASSUME NEW e \in Events, ReleaseDueRetry(e)
      PROVE  NoLoss'
  <2>1. Accepted(e) /\ streamId[e] \in 1 .. Len(stream)
    BY <1>7 DEF ReleaseDueRetry, CanRelease, HashInv, Accepted
  <2>2. Len(stream) + 1 \in Live'
    <3>1. stream[streamId[e]] \in Entry
      BY <2>1, EntryFacts
    <3>2. Len(stream') = Len(stream) + 1
      BY <1>7, <3>1, AppendFacts DEF ReleaseDueRetry
    <3> QED BY <1>0, <1>7, <3>2 DEF Live, Unread, GroupInv, ReleaseDueRetry, XAck
  <2>3. Live \ {streamId[e]} \subseteq Live'
    BY <1>3, <1>7 DEF ReleaseDueRetry
  <2> SUFFICES ASSUME NEW d \in Events, Accepted(d)'
               PROVE  Safe(d)'
    BY DEF NoLoss
  <2>4. CASE d = e
    BY <1>7, <2>2, <2>4 DEF ReleaseDueRetry
  <2>5. CASE d # e
    <3>1. Accepted(d) /\ streamId'[d] = streamId[d]
      BY <1>7, <2>5 DEF ReleaseDueRetry, Accepted
    <3>2. streamId[d] # streamId[e]
      BY <1>5, <2>1, <2>5, <3>1
    <3> QED BY <1>1, <2>3, <3>1, <3>2 DEF NoLoss
  <2> QED BY <2>4, <2>5
<1>8. ASSUME NEW i \in Nat, ReadNext(i)
      PROVE  NoLoss'
  <2>1. Live \subseteq Live'
    BY <1>0, <1>8 DEF ReadNext, Live, Unread
  <2> QED BY <1>4, <1>8, <2>1 DEF ReadNext, hashVars, Accepted
<1>9. CASE EnsureConsumerGroup
  <2>1. Live \subseteq Live'
    BY <1>0, <1>9 DEF EnsureConsumerGroup, Live, Unread
  <2> QED BY <1>4, <1>9, <2>1 DEF EnsureConsumerGroup, hashVars, Accepted
<1>10. ASSUME NEW i \in 1 .. Len(stream), QuarantineMessage(i)
       PROVE  NoLoss'
  <2> SUFFICES ASSUME NEW d \in Events, Accepted(d)'
               PROVE  Safe(d)'
    BY DEF NoLoss
  <2>1. Accepted(d) /\ streamId'[d] = streamId[d]
    BY <1>10 DEF QuarantineMessage, Accepted
  <2>2. CASE streamId[d] = i
    <3> DEFINE r == [event |-> stream[i].event, source |-> i]
    <3>1. r \in Filed /\ r.event = d /\ r.source = streamId'[d]
      BY <2>1, <2>2 DEF HashInv, Accepted, Filed
    <3>2. quarantine' = Append(quarantine, r)
      BY <1>10 DEF QuarantineMessage
    <3> HIDE DEF r
    <3>3. quarantine \in Seq(Filed)
      OBVIOUS
    <3>4. Len(quarantine) + 1 \in DOMAIN quarantine' /\ quarantine'[Len(quarantine) + 1] = r
      BY ONLY <3>1, <3>2, <3>3, AppendFacts
    <3> QED BY <3>1, <3>4 DEF FiledIn
  <2>3. CASE streamId[d] # i
    BY <1>1, <1>3, <1>10, <2>1, <2>3 DEF QuarantineMessage, NoLoss
  <2> QED BY <2>2, <2>3
<1>11. ASSUME NEW e \in Events, NEW i \in 1 .. Len(stream), CanCompleteDelivery(e, i),
              e \in receipts, CompleteDelivery(e, i)
       PROVE  NoLoss'
  <2> SUFFICES ASSUME NEW d \in Events, Accepted(d)'
               PROVE  Safe(d)'
    BY DEF NoLoss
  <2>1. CASE d = e
    BY <1>11, <2>1
  <2>2. CASE d # e
    <3>1. Accepted(d) /\ streamId'[d] = streamId[d]
      BY <1>11, <2>2 DEF CompleteDelivery, Accepted
    <3>2. Accepted(e) /\ streamId[e] = i
      BY <1>11 DEF CanCompleteDelivery, HashInv, Accepted
    <3>3. streamId[d] # i
      BY <1>5, <2>2, <3>1, <3>2
    <3> QED BY <1>1, <1>3, <1>11, <3>1, <3>3 DEF CompleteDelivery, NoLoss
  <2> QED BY <2>1, <2>2
<1>12. ASSUME NEW e \in Events, NEW i \in 1 .. Len(stream), CanMoveToDeadLetter(e, i),
              MoveToDeadLetter(e, i)
       PROVE  NoLoss'
  <2> SUFFICES ASSUME NEW d \in Events, Accepted(d)'
               PROVE  Safe(d)'
    BY DEF NoLoss
  <2>1. CASE d = e
    <3> DEFINE r == [event |-> e, source |-> i]
    <3>1. r \in Filed /\ r.event = d /\ r.source = streamId'[d]
      BY <1>12, <2>1 DEF CanMoveToDeadLetter, MoveToDeadLetter, Filed
    <3>2. deadLetter' = Append(deadLetter, r)
      BY <1>12 DEF MoveToDeadLetter
    <3> HIDE DEF r
    <3>3. deadLetter \in Seq(Filed)
      OBVIOUS
    <3>4. Len(deadLetter) + 1 \in DOMAIN deadLetter' /\ deadLetter'[Len(deadLetter) + 1] = r
      BY ONLY <3>1, <3>2, <3>3, AppendFacts
    <3> QED BY <3>1, <3>4 DEF FiledIn
  <2>2. CASE d # e
    <3>1. Accepted(d) /\ streamId'[d] = streamId[d]
      BY <1>12, <2>2 DEF MoveToDeadLetter, Accepted
    <3>2. Accepted(e) /\ streamId[e] = i
      BY <1>12 DEF CanMoveToDeadLetter, Accepted
    <3>3. streamId[d] # i
      BY <1>5, <2>2, <3>1, <3>2
    <3> QED BY <1>1, <1>3, <1>12, <3>1, <3>3 DEF MoveToDeadLetter, NoLoss
  <2> QED BY <2>1, <2>2
<1>13. ASSUME NEW e \in Events, NEW i \in 1 .. Len(stream), streamId[e] = i,
              StartDelivery(e) \/ ScheduleRetry(e)
       PROVE  NoLoss'
  <2>1. Live \subseteq Live'
    BY <1>2, <1>13 DEF StartDelivery, ScheduleRetry, groupVars
  <2>2. Accepted(e)
    BY <1>13 DEF HashInv, Accepted
  <2> QED BY <1>4, <1>13, <2>1, <2>2 DEF StartDelivery, ScheduleRetry, Accepted
<1>14. ASSUME NEW e \in Events, RemoveInvalidRecord(e)
       PROVE  NoLoss'
  <2>1. Live \subseteq Live'
    BY <1>2, <1>14 DEF RemoveInvalidRecord, groupVars
  <2> QED BY <1>4, <1>14, <2>1 DEF RemoveInvalidRecord, Accepted
<1>15. CASE UNCHANGED <<hashVars, pel, cursor>>
  <2>1. Live \subseteq Live'
    BY <1>2, <1>15
  <2> QED BY <1>4, <1>15, <2>1 DEF hashVars, Accepted
<1>16. ASSUME NEW e \in Events, NEW i \in 1 .. Len(stream), Transition(e, i)
       PROVE  NoLoss'
  BY <1>11, <1>12, <1>13, <1>16 DEF Transition, CanStartDelivery, CanScheduleRetry
<1> QED BY <1>6, <1>7, <1>8, <1>9, <1>10, <1>14, <1>15, <1>16
        DEF StoreOp, storeVars, groupVars, BecomeDue, StrayRetryMember, StrayMessage,
            ClaimStalePending, BecomeIdle

\* A worker that does not move is still where it was; one that moves has just
\* obtained an entry, begun an attempt, been answered by the sink, or let go.
LEMMA WorkerStep ==
    ASSUME TypeOK, TypeOK', GroupInv, HashInv, WorkerInv, StoreOp, receipts \subseteq receipts', Next
    PROVE  WorkerInv'
<1>0. /\ Len(stream) \in Nat /\ Len(stream') \in Nat /\ Len(stream') >= Len(stream)
      /\ \A i \in 1 .. Len(stream) : stream'[i] = stream[i]
      /\ \A e \in Events : Accepted(e) => Accepted(e)' /\ attempt'[e] >= attempt[e]
      /\ \A e \in Events : attempt[e] \in Nat /\ attempt'[e] \in Nat
  <2>1. Len(stream) \in Nat /\ Len(stream') \in Nat
    BY DEF TypeOK, StoreTypeOK
  <2>2. \A e \in Events : attempt[e] \in Nat /\ attempt'[e] \in Nat
    BY DEF TypeOK, StoreTypeOK
  <2> QED BY <2>1, <2>2, Monotone
<1>t. pc \in [Workers -> Scouting \cup Handling] /\ held \in [Workers -> Nat]
  BY DEF TypeOK
<1>1. ASSUME NEW v \in Workers, pc'[v] = pc[v], held'[v] = held[v]
      PROVE  Placed(v)'
  <2>1. Placed(v)
    BY DEF WorkerInv
  <2>2. pc[v] \in Handling => held'[v] \in 1 .. Len(stream') /\ HeldEvent(v)' = HeldEvent(v)
    BY <1>0, <1>1, <2>1 DEF Placed, HeldEvent
  <2>3. Attempting \cup {"start"} \subseteq Handling /\ "complete" \in Attempting
    BY DEF Attempting, Handling
  <2> QED BY <1>0, <1>1, <2>1, <2>2, <2>3 DEF Placed, Accepted
<1>2. ASSUME NEW w \in Workers, pc'[w] \in Scouting
      PROVE  Placed(w)'
  BY <1>2 DEF Placed, Scouting, Handling, Attempting
<1>3. ASSUME NEW w \in Workers, NEW i \in 1 .. Len(stream), pc'[w] \in Handling \ Attempting, held'[w] = i,
             pc'[w] = "start" => stream[i].event \in Events
      PROVE  Placed(w)'
  <2>1. held'[w] \in 1 .. Len(stream') /\ HeldEvent(w)' = stream[i].event
    BY <1>0, <1>3 DEF HeldEvent
  <2>2. "complete" \in Attempting
    BY DEF Attempting
  <2> QED BY <1>3, <2>1, <2>2 DEF Placed
<1>4. ASSUME NEW w \in Workers, \A v \in Workers \ {w} : pc'[v] = pc[v] /\ held'[v] = held[v], Placed(w)'
      PROVE  WorkerInv'
  BY <1>1, <1>4 DEF WorkerInv
<1>5. ASSUME NEW w \in Workers, StartOver(w)
      PROVE  WorkerInv'
  BY <1>t, <1>2, <1>4, <1>5 DEF StartOver, Scouting
<1>6. ASSUME NEW w \in Workers, NEW l \in Scouting, Goto(w, l) \/ Hold(w, 0, l)
      PROVE  WorkerInv'
  <2>1. pc'[w] = l /\ \A v \in Workers \ {w} : pc'[v] = pc[v] /\ held'[v] = held[v]
    BY <1>t, <1>6 DEF Goto, Hold
  <2> QED BY <1>2, <1>4, <2>1
<1>7. ASSUME NEW w \in Workers, NEW i \in 1 .. Len(stream), NEW l \in Handling \ Attempting, Hold(w, i, l),
             l = "start" => stream[i].form = "parsable"
      PROVE  WorkerInv'
  <2>1. pc'[w] = l /\ held'[w] = i /\ \A v \in Workers \ {w} : pc'[v] = pc[v] /\ held'[v] = held[v]
    BY <1>t, <1>7 DEF Hold
  <2>2. l = "start" => stream[i].event \in Events
    BY <1>7, EntryFacts
  <2>3. Placed(w)'
    BY <1>3, <1>7, <2>1, <2>2
  <2> QED BY <1>4, <2>1, <2>3
<1>8. CASE UNCHANGED workerVars
  BY <1>1, <1>8 DEF WorkerInv, workerVars
<1>9. ASSUME NEW w \in Workers, Ensure(w) \/ Release(w)
      PROVE  WorkerInv'
  BY <1>6, <1>9 DEF Ensure, Release, Scouting
<1>10. ASSUME NEW w \in Workers, Claim(w)
       PROVE  WorkerInv'
  <2>1. Claimable \subseteq 1 .. Len(stream)
    <3>1. Claimable \subseteq idle
      BY DEF Claimable, Scanned
    <3> QED BY <1>0, <3>1 DEF GroupInv, TypeOK, StoreTypeOK, NoGroup
  <2>2. "read" \in Scouting /\ {"start", "isolate_claimed"} \subseteq Handling \ Attempting
    BY DEF Scouting, Handling, Attempting
  <2> QED BY <1>6, <1>7, <1>10, <2>1, <2>2 DEF Claim
<1>11. ASSUME NEW w \in Workers, Read(w)
       PROVE  WorkerInv'
  <2>1. {"start", "isolate_read"} \subseteq Handling \ Attempting
    BY DEF Handling, Attempting
  <2>2. Unread \subseteq 1 .. Len(stream)
    BY DEF Unread
  <2> QED BY <1>5, <1>7, <1>11, <2>1, <2>2 DEF Read
<1>12. ASSUME NEW w \in Workers, Isolate(w) \/ MarkDelivered(w) \/ Retry(w) \/ Bury(w) \/ Abandon(w)
       PROVE  WorkerInv'
  <2>1. StartOver(w) \/ Hold(w, 0, "read")
    BY <1>12 DEF Isolate, MarkDelivered, Retry, Bury, Abandon, Refused
  <2> QED BY <1>5, <1>6, <2>1 DEF Scouting
<1>13. ASSUME NEW w \in Workers, Start(w)
       PROVE  WorkerInv'
  <2>1. CASE Refused(w)
    BY <1>5, <2>1 DEF Refused
  <2>2. CASE /\ CanStartDelivery(HeldEvent(w), held[w])
             /\ StartDelivery(HeldEvent(w))
             /\ pc' = [pc EXCEPT ![w] = "deliver"]
             /\ UNCHANGED held
    <3>1. held[w] \in 1 .. Len(stream) /\ HeldEvent(w) \in Events
      BY <1>13 DEF Start, WorkerInv, Placed, Handling
    <3>2. HeldEvent(w)' = HeldEvent(w) /\ held'[w] \in 1 .. Len(stream')
      BY <2>2, <3>1 DEF HeldEvent, StartDelivery
    <3>3. status'[HeldEvent(w)] = "delivering" /\ attempt'[HeldEvent(w)] >= 1
      BY <2>2, <3>1 DEF StartDelivery, TypeOK, StoreTypeOK
    <3>4. Placed(w)'
      BY <1>t, <2>2, <3>1, <3>2, <3>3 DEF Placed, Accepted
    <3> QED BY <1>t, <1>4, <2>2, <3>4
  <2> QED BY <1>13, <2>1, <2>2 DEF Start
<1>14. ASSUME NEW w \in Workers, Deliver(w)
       PROVE  WorkerInv'
  <2>1. held[w] \in 1 .. Len(stream) /\ HeldEvent(w) \in Events /\ Accepted(HeldEvent(w))
        /\ attempt[HeldEvent(w)] >= 1
    BY <1>14 DEF Deliver, WorkerInv, Placed, Handling, Attempting
  <2>2. UNCHANGED <<stream, status, attempt, held>>
    BY <1>14 DEF Deliver, Goto, storeVars, hashVars
  <2>3. pc'[w] = "complete" => HeldEvent(w) \in receipts'
    BY <1>t, <1>14 DEF Deliver, Goto, AfterFailure
  <2>4. Placed(w)'
    BY <2>1, <2>2, <2>3 DEF Placed, HeldEvent, Accepted
  <2>5. \A v \in Workers \ {w} : pc'[v] = pc[v] /\ held'[v] = held[v]
    BY <1>t, <1>14 DEF Deliver, Goto
  <2> QED BY <1>4, <2>4, <2>5
<1> QED BY <1>8, <1>9, <1>10, <1>11, <1>12, <1>13, <1>14
        DEF Next, Step, Accept, ComeDue, Retransmit, Age, Stray

\* The invariant holds before the first event and the first worker step.
LEMMA InvInit == Init => IInv
<1> SUFFICES ASSUME Init PROVE IInv
  OBVIOUS
<1>1. TypeOK
  BY TypeInit
<1>2. GroupInv /\ HashInv /\ RetryInv /\ FilingInv /\ NoLoss /\ DeliveredIsReceived /\ DeadLetterOnce
  BY DEF Init, StoreInit, GroupInv, HashInv, RetryInv, FilingInv, NoLoss, DeliveredIsReceived,
         DeadLetterOnce, Accepted, NoGroup
<1>3. WorkerInv
  BY DEF Init, WorkerInv, Placed, Handling, Attempting
<1> QED BY <1>1, <1>2, <1>3 DEF IInv

\* Every step of an API, a worker or the environment keeps the invariant.
LEMMA InvStep == IInv /\ [Next]_vars => IInv'
<1> SUFFICES ASSUME IInv, [Next]_vars PROVE IInv'
  OBVIOUS
<1> USE DEF IInv
<1>1. CASE Next
  <2>1. StoreOp /\ receipts \subseteq receipts'
    BY <1>1, StoreSteps
  <2>2. TypeOK'
    BY <1>1, TypeStep
  <2>3. GroupInv' /\ HashInv'
    BY <2>1, GroupStep, HashStep
  <2>4. RetryInv' /\ DeliveredIsReceived'
    BY <2>1, RetryStep, ReceivedStep
  <2>5. FilingInv' /\ DeadLetterOnce'
    BY <2>1, FilingStep
  <2>6. NoLoss'
    BY <2>1, <2>2, <2>3, NoLossStep
  <2>7. WorkerInv'
    BY <1>1, <2>1, <2>2, WorkerStep
  <2> QED BY <2>2, <2>3, <2>4, <2>5, <2>6, <2>7
<1>2. CASE UNCHANGED vars
  <2>1. UNCHANGED <<storeVars, workerVars, receipts, faults, strays>>
    BY <1>2 DEF vars
  <2>2. UNCHANGED <<stream, cursor, pel, idle, status, attempt, streamId, retries, due, deadLetter,
                    quarantine, pc, held, tries, receipts, faults, strays>>
    BY <2>1 DEF storeVars, groupVars, hashVars, scheduleVars, workerVars
  <2> QED BY <2>2 DEF TypeOK, StoreTypeOK, GroupInv, HashInv, WorkerInv, Placed, RetryInv, FilingInv, NoLoss,
                      DeliveredIsReceived, DeadLetterOnce, Accepted, FiledIn, Live, Unread, HeldEvent
<1> QED BY <1>1, <1>2

(***************************************************************************)
(* The results.                                                            *)
(***************************************************************************)
\* The inductive invariant holds in every reachable state of the workers.
THEOREM Invariance == Spec => []IInv
BY InvInit, InvStep, PTL DEF Spec

\* The store and the workers keep their types.
THEOREM TypeCorrect == Spec => []TypeOK
<1>1. IInv => TypeOK
  BY DEF IInv
<1> QED BY <1>1, Invariance, PTL

\* No accepted event is lost, whatever workers crash, overlap or hear back
\* from Redis: an entry is acknowledged only after the sink's success, with
\* its copy appended, or filed in the dead-letter or quarantine stream.
THEOREM NoAcceptedEventIsLost == Spec => []NoLoss
<1>1. IInv => NoLoss
  BY DEF IInv
<1> QED BY <1>1, Invariance, PTL

\* status delivered is written only for an event the sink has processed.
THEOREM DeliveredWasReceived == Spec => []DeliveredIsReceived
<1>1. IInv => DeliveredIsReceived
  BY DEF IInv
<1> QED BY <1>1, Invariance, PTL

\* An event with status retry_scheduled is a member of the retry schedule, so
\* skipping it in the claim script strands nothing.
THEOREM RetriesAreScheduled == Spec => []NoStrandedRetry
<1>1. IInv => NoStrandedRetry
  BY DEF IInv, RetryInv, NoStrandedRetry
<1> QED BY <1>1, Invariance, PTL

\* The dead-letter stream holds an event once at most.
THEOREM DeadLetteredOnce == Spec => []DeadLetterOnce
<1>1. IInv => DeadLetterOnce
  BY DEF IInv
<1> QED BY <1>1, Invariance, PTL

-----------------------------------------------------------------------------
(***************************************************************************)
(* When pending_idle_ms exceeds the time an iteration takes (Overlap is    *)
(* FALSE): no entry becomes idle in the hands of a live worker.  Crashes,  *)
(* lost answers and repeated scripts remain.  Then an entry has one        *)
(* handler, and what the scripts do not check about the status hash        *)
(* follows from where that handler stands.                                 *)
(***************************************************************************)

(***************************************************************************)
(* The inductive invariant, on top of IInv.                                *)
(***************************************************************************)
\* The calls between the start of an attempt and its outcome, but for a
\* retry's: the client library may have scheduled that one already.
Sent == {"deliver", "complete", "bury"}

\* What a worker's position says of the event whose current entry it holds.
Stage(w, e) ==
    /\ pc[w] \in Attempting \cup {"start"} => held[w] \in pel
    /\ pc[w] = "start" => status[e] \in {"queued", "delivering"}
    /\ pc[w] \in Sent => status[e] = "delivering" /\ tries[w] = attempt[e]
    /\ pc[w] = "retry" => status[e] \in {"delivering", "retry_scheduled"} /\ attempt[e] < MaxAttempts
    /\ pc[w] \in {"isolate_claimed", "isolate_read"} => status[e] # "retry_scheduled"

\* A handled entry was read and is not idle; while its attempt is under way
\* it stays its event's current entry.
Own(w) ==
    /\ pc[w] \in Scouting => held[w] = 0
    /\ pc[w] \in Handling => held[w] \in 1 .. cursor /\ held[w] \notin idle
    /\ pc[w] \in Sent => \E e \in Events : streamId[e] = held[w]
    /\ \A e \in Events : streamId[e] = held[w] => Stage(w, e)

\* No two workers hold the same entry.
Alone == \A v, w \in Workers : held[v] = held[w] /\ held[w] # 0 => v = w

\* The event's attempt is under way: the worker at it owes its outcome.
UnderWay(e) == \E w \in Workers : pc[w] \in Sent /\ held[w] = streamId[e]

\* What holds of one event.  An open one is within reach and has an attempt
\* left, or is in the middle of its last.
Kept(e) ==
    /\ status[e] \in Open => streamId[e] \in Live
    /\ streamId[e] \in Unread => status[e] = "queued"
    /\ status[e] = "dead_letter" => FiledIn(deadLetter, e) \/ FiledIn(quarantine, e)
    /\ attempt[e] <= MaxAttempts + faults
    /\ status[e] \in Open => attempt[e] < MaxAttempts + faults \/ UnderWay(e)

OwnInv == \A w \in Workers : Own(w)
KeptInv == \A e \in Events : Kept(e)

TimelyInv == IInv /\ OwnInv /\ Alone /\ KeptInv

(***************************************************************************)
(* Frames.  A step is about one entry i: what it leaves alone about the    *)
(* others keeps their workers' and their events' part of the invariant.    *)
(***************************************************************************)
Frozen(v) == pc'[v] = pc[v] /\ held'[v] = held[v] /\ tries'[v] = tries[v]

Same(e) == status'[e] = status[e] /\ attempt'[e] = attempt[e] /\ streamId'[e] = streamId[e]

\* Entries other than i stay pending or unread; besides, none becomes idle.
Reach(i) ==
    /\ pel \ {i} \subseteq pel'
    /\ cursor' >= cursor
    /\ \A j \in 1 .. Len(stream) : j # i /\ j > cursor => j > cursor'

Touch(i) == Reach(i) /\ idle' \ {i} \subseteq idle

\* The status hashes of different accepted events point at different entries.
LEMMA Pointing ==
    ASSUME IInv
    PROVE  /\ \A e \in Events : streamId[e] \in 0 .. Len(stream)
           /\ \A e \in Events : streamId[e] = 0 <=> status[e] = "none"
           /\ \A e \in Events : streamId[e] # 0 => stream[streamId[e]].event = e
           /\ \A d, e \in Events : streamId[d] = streamId[e] /\ streamId[e] # 0 => d = e
<1>1. \A e \in Events : /\ status[e] = "none" => streamId[e] = 0
                        /\ status[e] # "none" => streamId[e] \in 1 .. Len(stream) /\ stream[streamId[e]].event = e
  BY DEF IInv, HashInv
<1>2. Len(stream) \in Nat
  BY DEF IInv, TypeOK, StoreTypeOK
<1>3. \A e \in Events : streamId[e] # 0 => stream[streamId[e]].event = e
  BY <1>1
<1>4. \A d, e \in Events : streamId[d] = streamId[e] /\ streamId[e] # 0 => d = e
  BY <1>3
<1> QED BY <1>1, <1>2, <1>3, <1>4

\* A worker that does not move, and whose entry and event a step leaves alone.
LEMMA OwnFrame ==
    ASSUME IInv, IInv', NEW v \in Workers, Own(v), Frozen(v), NEW i, Touch(i),
           pc[v] \in Handling => held[v] # i,
           pc[v] \in Handling => \A e \in Events : streamId[e] = held[v] \/ streamId'[e] = held[v] => Same(e)
    PROVE  Own(v)'
<1>0. pc[v] \in Scouting \cup Handling /\ cursor \in Int /\ cursor' \in Int /\ cursor' >= cursor /\ held[v] \in Nat
  BY DEF IInv, TypeOK, StoreTypeOK, NoGroup, Touch, Reach
<1>1. CASE pc[v] \in Scouting
  BY <1>1 DEF Own, Stage, Frozen, Scouting, Handling, Sent, Attempting
<1>2. CASE pc[v] \in Handling
  <2>1. pc'[v] = pc[v] /\ held'[v] = held[v] /\ tries'[v] = tries[v]
    BY DEF Frozen
  <2>2. held[v] \in 1 .. cursor' /\ held[v] \notin idle' /\ (held[v] \in pel => held[v] \in pel')
    BY <1>0, <1>2 DEF Own, Touch, Reach
  <2>3. pc[v] \in Sent => \E e \in Events : streamId'[e] = held[v]
    BY <1>2 DEF Own, Same
  <2>4. ASSUME NEW e \in Events, streamId'[e] = held[v]
        PROVE  Stage(v, e)'
    <3>1. Same(e) /\ streamId[e] = held[v]
      BY <1>2, <2>4 DEF Same
    <3> QED BY <2>1, <2>2, <3>1 DEF Own, Stage, Same
  <2>5. pc[v] \notin Scouting
    BY <1>2 DEF Handling, Scouting
  <2> QED BY <2>1, <2>2, <2>3, <2>4, <2>5 DEF Own
<1> QED BY <1>0, <1>1, <1>2

\* An event whose hash and whose current entry a step leaves alone.
LEMMA KeptFrame ==
    ASSUME IInv, IInv', StoreOp, NEW d \in Events, Kept(d), Same(d), NEW i, Reach(i),
           streamId[d] # i \/ streamId[d] = 0,
           faults' >= faults,
           UnderWay(d) => UnderWay(d)' \/ attempt[d] < MaxAttempts + faults'
    PROVE  Kept(d)'
<1>0. /\ Len(stream) \in Nat /\ Len(stream') \in Nat /\ Len(stream') >= Len(stream)
      /\ cursor \in Int /\ cursor' \in Int
      /\ faults \in Nat /\ faults' \in Nat /\ attempt[d] \in Nat /\ MaxAttempts \in Nat
  <2>1. TypeOK /\ HashInv /\ TypeOK'
    BY DEF IInv
  <2>2. Len(stream') >= Len(stream)
    BY <2>1, Monotone
  <2> QED BY <2>1, <2>2, MaxAttemptsAssumption, BoundsAssumption DEF TypeOK, StoreTypeOK, NoGroup
<1>1. streamId[d] \in 0 .. Len(stream) /\ (streamId[d] = 0 <=> status[d] = "none")
  BY Pointing
<1>2. status[d] \in Open => streamId[d] \in Live'
  <2> SUFFICES ASSUME status[d] \in Open PROVE streamId[d] \in Live'
    OBVIOUS
  <2>1. streamId[d] \in Live /\ streamId[d] # i /\ streamId[d] \in 1 .. Len(stream)
    BY <1>1 DEF Kept, Open
  <2> QED BY <1>0, <2>1 DEF Live, Unread, Reach
<1>3. streamId[d] \in Unread' => streamId[d] \in Unread
  BY <1>0, <1>1 DEF Unread, Reach
<1>4. /\ FiledIn(deadLetter, d) => FiledIn(deadLetter, d)'
      /\ FiledIn(quarantine, d) => FiledIn(quarantine, d)'
  BY LogsGrow DEF IInv, Same
<1>5. attempt[d] < MaxAttempts + faults => attempt[d] < MaxAttempts + faults'
  BY <1>0
<1>6. attempt[d] <= MaxAttempts + faults => attempt[d] <= MaxAttempts + faults'
  BY <1>0
<1> QED BY <1>2, <1>3, <1>4, <1>5, <1>6 DEF Kept, Same

\* A worker's step about entry i, which no other worker handles: what is left
\* to show is about the worker itself and the event at that entry.
LEMMA WorkersStep ==
    ASSUME TimelyInv, IInv', StoreOp, NEW w \in Workers, NEW i \in Int, Touch(i),
           \A v \in Workers \ {w} : Frozen(v),
           \A v \in Workers \ {w} : pc[v] \in Handling => held[v] # i,
           pc[w] \in Sent => held[w] = i,
           held'[w] \in {0, held[w]} \/ \A v \in Workers \ {w} : held[v] # held'[w],
           faults' >= faults,
           UNCHANGED streamId,
           \A e \in Events : streamId[e] # i => Same(e),
           \A e \in Events : streamId[e] = i => Kept(e)',
           Own(w)'
    PROVE  OwnInv' /\ Alone' /\ KeptInv'
<1>0. IInv /\ OwnInv /\ Alone /\ KeptInv
  BY DEF TimelyInv
<1>1. OwnInv'
  <2> SUFFICES ASSUME NEW v \in Workers \ {w} PROVE Own(v)'
    BY DEF OwnInv
  <2>1. pc[v] \in Handling => \A e \in Events : streamId[e] = held[v] \/ streamId'[e] = held[v] => Same(e)
    OBVIOUS
  <2>2. Own(v)
    BY <1>0 DEF OwnInv
  <2> QED BY <1>0, <2>1, <2>2, OwnFrame
<1>2. Alone'
  BY <1>0 DEF Alone, Frozen
<1>3. KeptInv'
  <2> SUFFICES ASSUME NEW d \in Events, streamId[d] # i PROVE Kept(d)'
    BY DEF KeptInv
  <2>1. UnderWay(d) => UnderWay(d)'
    <3> SUFFICES ASSUME NEW v \in Workers, pc[v] \in Sent, held[v] = streamId[d]
                 PROVE  UnderWay(d)'
      BY DEF UnderWay
    <3>1. v # w
      OBVIOUS
    <3> QED BY <3>1 DEF UnderWay, Frozen
  <2>2. Kept(d) /\ Same(d)
    BY <1>0 DEF KeptInv
  <2>3. Reach(i)
    BY DEF Touch
  <2> QED BY <1>0, <2>1, <2>2, <2>3, KeptFrame
<1> QED BY <1>1, <1>2, <1>3

\* A worker that lets go, or is between entries, owns nothing.
LEMMA OwnNothing ==
    ASSUME NEW w \in Workers, pc'[w] \in Scouting, held'[w] = 0
    PROVE  Own(w)'
BY DEF Own, Stage, Scouting, Handling, Sent, Attempting

\* What holds at every store or sink call: the handled entry was read, is not
\* idle and is nobody else's; an event that points at it is the entry's own.
LEMMA AtCall ==
    ASSUME TimelyInv, NEW w \in Workers, pc[w] \in Handling
    PROVE  /\ held[w] \in 1 .. Len(stream) /\ held[w] \in 1 .. cursor /\ held[w] \in Nat
           /\ held[w] \notin idle
           /\ \A v \in Workers \ {w} : held[v] # held[w]
           /\ \A e \in Events : streamId[e] = held[w] => e = HeldEvent(w) /\ Stage(w, e) /\ Kept(e)
           /\ pc[w] \in Sent => HeldEvent(w) \in Events /\ streamId[HeldEvent(w)] = held[w]
<1>0. IInv /\ OwnInv /\ Alone /\ KeptInv
  BY DEF TimelyInv
<1>1. Own(w) /\ held[w] \in 1 .. cursor /\ held[w] \notin idle
  BY <1>0 DEF OwnInv, Own
<1>2. cursor \in Int /\ cursor <= Len(stream) /\ Len(stream) \in Nat
  BY <1>0 DEF IInv, TypeOK, StoreTypeOK, NoGroup, GroupInv
<1>3. held[w] \in 1 .. Len(stream) /\ held[w] # 0 /\ held[w] \in Nat
  BY <1>1, <1>2
<1>4. \A v \in Workers \ {w} : held[v] # held[w]
  BY <1>0, <1>3 DEF Alone
<1>5. \A e \in Events : streamId[e] = held[w] => e = HeldEvent(w) /\ Stage(w, e) /\ Kept(e)
  BY <1>0, <1>1, <1>3, Pointing DEF Own, HeldEvent, KeptInv
<1>6. pc[w] \in Sent => HeldEvent(w) \in Events /\ streamId[HeldEvent(w)] = held[w]
  BY <1>1, <1>5 DEF Own
<1> QED BY <1>1, <1>3, <1>4, <1>5, <1>6

\* The types, in the form the steps below use them.
LEMMA Typed ==
    ASSUME IInv
    PROVE  /\ pc \in [Workers -> Scouting \cup Handling]
           /\ held \in [Workers -> Nat] /\ tries \in [Workers -> Nat]
           /\ status \in [Events -> Open \cup Terminal \cup {"none"}]
           /\ attempt \in [Events -> Nat] /\ streamId \in [Events -> Nat]
           /\ faults \in Nat /\ MaxAttempts \in Nat /\ MaxAttempts > 0
           /\ Len(stream) \in Nat /\ cursor \in Int /\ cursor >= -1 /\ cursor <= Len(stream)
           /\ pel \subseteq 1 .. cursor /\ idle \subseteq pel
BY MaxAttemptsAssumption, BoundsAssumption DEF IInv, TypeOK, StoreTypeOK, GroupInv, NoGroup

(***************************************************************************)
(* The steps of a worker.                                                  *)
(***************************************************************************)
\* A worker that changes no hash and no pending entry and ends with none.
LEMMA QuietStep ==
    ASSUME TimelyInv, IInv', StoreOp, NEW w \in Workers, pc[w] \notin Sent,
           \A v \in Workers \ {w} : Frozen(v), pc'[w] \in Scouting, held'[w] = 0,
           UNCHANGED status, UNCHANGED attempt, UNCHANGED streamId, UNCHANGED pel, UNCHANGED idle,
           cursor' = cursor \/ (cursor = NoGroup /\ cursor' = 0),
           faults' >= faults
    PROVE  OwnInv' /\ Alone' /\ KeptInv'
<1>1. IInv
  BY DEF TimelyInv
<1>2. Touch(-1)
  BY <1>1, Typed DEF Touch, Reach, NoGroup
<1>3. Own(w)'
  BY OwnNothing
<1>4. \A e \in Events : Same(e) /\ streamId[e] # -1
  BY <1>1, Typed DEF Same
<1>5. \A v \in Workers : held[v] # -1
  BY <1>1, Typed
<1> QED BY <1>2, <1>3, <1>4, <1>5, WorkersStep

\* A script that is refused before an attempt's outcome is due changes nothing.
LEMMA RefusedStep ==
    ASSUME TimelyInv, IInv', StoreOp, NEW w \in Workers, pc[w] \notin Sent, Refused(w), UNCHANGED faults
    PROVE  OwnInv' /\ Alone' /\ KeptInv'
<1>1. IInv
  BY DEF TimelyInv
<1>2. pc'[w] = "ensure" /\ held'[w] = 0 /\ \A v \in Workers \ {w} : Frozen(v)
  BY <1>1, Typed DEF Refused, StartOver, Frozen
<1>3. UNCHANGED <<status, attempt, streamId, pel, idle>> /\ cursor' = cursor
  BY DEF Refused, storeVars, hashVars, groupVars
<1>4. faults' >= faults /\ pc'[w] \in Scouting
  BY <1>1, <1>2, Typed DEF Scouting
<1> QED BY <1>2, <1>3, <1>4, QuietStep

\* claim_stale_pending hands out an idle entry, which nobody handles.
LEMMA ClaimStep ==
    ASSUME TimelyInv, IInv', StoreOp, NEW w \in Workers, Claim(w)
    PROVE  OwnInv' /\ Alone' /\ KeptInv'
<1>0. IInv /\ OwnInv
  BY DEF TimelyInv
<1>1. pc[w] = "claim" /\ pc[w] \notin Sent /\ faults' >= faults /\ held[w] = 0
  BY <1>0, Typed DEF Claim, Sent, OwnInv, Own, Scouting
<1>2. ASSUME NEW i \in Claimable, ClaimStalePending(i),
             Hold(w, i, IF PendingDisposition(i) = "delivery" /\ stream[i].form = "parsable"
                        THEN "start" ELSE "isolate_claimed")
      PROVE  OwnInv' /\ Alone' /\ KeptInv'
  <2>1. i \in idle /\ PendingDisposition(i) # "retry_scheduled"
    BY DEF Claimable, Scanned
  <2>2. i \in pel /\ i \in 1 .. cursor /\ i \in Int
    BY <1>0, <2>1, Typed
  <2>3. \A v \in Workers : held[v] # i
    BY <1>0, <2>1, <2>2, Typed DEF OwnInv, Own
  <2>4. UNCHANGED <<status, attempt, streamId, pel, cursor>> /\ idle' = idle \ {i}
    BY <1>2 DEF ClaimStalePending, hashVars
  <2>5. Touch(-1)
    BY <1>0, <2>4, Typed DEF Touch, Reach
  <2>6. held'[w] = i /\ \A v \in Workers \ {w} : Frozen(v)
    BY <1>0, <1>2, Typed DEF Hold, Frozen
  <2>7. pc'[w] = IF PendingDisposition(i) = "delivery" /\ stream[i].form = "parsable"
                 THEN "start" ELSE "isolate_claimed"
    BY <1>0, <1>2, Typed DEF Hold
  <2>8. \A e \in Events : Same(e) /\ streamId[e] # -1
    BY <1>0, <2>4, Typed DEF Same
  <2>9. ASSUME NEW e \in Events, streamId[e] = i
        PROVE  /\ status[e] # "retry_scheduled"
               /\ PendingDisposition(i) = "delivery" => status[e] \in {"queued", "delivering"}
    <3>1. stream[i].event = e
      BY <1>0, <2>2, <2>9, Pointing
    <3> QED BY <2>1, <2>9, <3>1 DEF PendingDisposition, Current
  <2>10. Own(w)'
    <3>1. pc'[w] \in {"start", "isolate_claimed"}
      BY <2>7
    <3>2. pc'[w] \notin Sent /\ pc'[w] \notin Scouting /\ pc'[w] # "retry"
      BY <3>1 DEF Sent, Scouting
    <3>3. i \in 1 .. cursor' /\ i \notin idle' /\ i \in pel'
      BY <2>2, <2>4
    <3>4. ASSUME NEW e \in Events, streamId'[e] = i
          PROVE  Stage(w, e)'
      <4>1. pc'[w] = "start" => status'[e] \in {"queued", "delivering"}
        BY <2>4, <2>7, <2>9, <3>4
      <4>2. status'[e] # "retry_scheduled"
        BY <2>4, <2>9, <3>4
      <4> QED BY <2>6, <3>2, <3>3, <4>1, <4>2 DEF Stage
    <3> QED BY <2>6, <3>2, <3>3, <3>4 DEF Own
  <2>11. \A v \in Workers \ {w} : held[v] # -1 /\ held[v] # held'[w]
    BY <1>0, <2>3, <2>6, Typed
  <2> QED BY <1>1, <2>4, <2>5, <2>6, <2>8, <2>10, <2>11, WorkersStep
<1>3. CASE UNCHANGED storeVars /\ Goto(w, "read")
  <2>1. pc'[w] = "read" /\ held'[w] = 0 /\ \A v \in Workers \ {w} : Frozen(v)
    BY <1>0, <1>1, <1>3, Typed DEF Goto, Frozen
  <2>2. UNCHANGED <<status, attempt, streamId, pel, idle>> /\ cursor' = cursor /\ pc'[w] \in Scouting
    BY <1>3, <2>1 DEF storeVars, hashVars, groupVars, Scouting
  <2> QED BY <1>1, <2>1, <2>2, QuietStep
<1> QED BY <1>2, <1>3 DEF Claim

\* read_next hands out an entry nobody has had; an event that points at it has
\* been queued by the script that wrote the entry, and by nothing since.
LEMMA ReadStep ==
    ASSUME TimelyInv, IInv', StoreOp, NEW w \in Workers, Read(w)
    PROVE  OwnInv' /\ Alone' /\ KeptInv'
<1>0. IInv /\ OwnInv /\ KeptInv
  BY DEF TimelyInv
<1>1. pc[w] = "read" /\ pc[w] \notin Sent /\ faults' = faults /\ held[w] = 0
  BY <1>0 DEF Read, Sent, OwnInv, Own, Scouting
<1>2. ASSUME NEW i \in Unread, ReadNext(i),
             Hold(w, i, IF stream[i].form = "parsable" THEN "start" ELSE "isolate_read")
      PROVE  OwnInv' /\ Alone' /\ KeptInv'
  <2>1. i = cursor + 1 /\ i \in 1 .. Len(stream) /\ i \in Int
    BY <1>0, <1>2, Typed DEF ReadNext, Unread
  <2>2. UNCHANGED <<status, attempt, streamId, idle, stream>> /\ pel' = pel \cup {i} /\ cursor' = i
    BY <1>2 DEF ReadNext, hashVars
  <2>3. Touch(i)
    BY <1>0, <2>1, <2>2, Typed DEF Touch, Reach
  <2>4. \A v \in Workers : held[v] # i
    <3> SUFFICES ASSUME NEW v \in Workers PROVE held[v] # i
      OBVIOUS
    <3>1. held[v] = 0 \/ held[v] \in 1 .. cursor
      BY <1>0, Typed DEF OwnInv, Own
    <3> QED BY <1>0, <2>1, <3>1, Typed
  <2>5. held'[w] = i /\ \A v \in Workers \ {w} : Frozen(v)
    BY <1>0, <1>2, Typed DEF Hold, Frozen
  <2>6. pc'[w] \in {"start", "isolate_read"}
    BY <1>0, <1>2, Typed DEF Hold
  <2>7. \A e \in Events : Same(e)
    BY <2>2 DEF Same
  <2>8. \A e \in Events : streamId[e] = i => status[e] = "queued"
    BY <1>0, <1>2 DEF KeptInv, Kept
  <2>9. ASSUME NEW e \in Events, streamId[e] = i
        PROVE  Kept(e)'
    <3>1. Kept(e) /\ ~UnderWay(e)
      BY <1>0, <2>4, <2>9 DEF KeptInv, UnderWay
    <3>2. streamId'[e] \in Live' /\ streamId'[e] \notin Unread'
      BY <2>1, <2>2, <2>9 DEF Live, Unread
    <3> QED BY <1>1, <2>2, <2>8, <2>9, <3>1, <3>2 DEF Kept, Open
  <2>10. Own(w)'
    <3>1. pc'[w] \notin Sent /\ pc'[w] \notin Scouting /\ pc'[w] # "retry"
      BY <2>6 DEF Sent, Scouting
    <3>2. i \in 1 .. cursor' /\ i \notin idle' /\ i \in pel'
      <4>1. i \notin idle
        BY <1>0, <2>1, Typed
      <4> QED BY <2>1, <2>2, <4>1
    <3>3. ASSUME NEW e \in Events, streamId'[e] = i
          PROVE  Stage(w, e)'
      BY <2>2, <2>5, <2>8, <3>1, <3>2, <3>3 DEF Stage
    <3> QED BY <2>5, <3>1, <3>2, <3>3 DEF Own
  <2>11. \A v \in Workers \ {w} : held[v] # held'[w]
    BY <2>4, <2>5
  <2>12. faults' >= faults
    BY <1>0, <1>1, Typed
  <2> QED BY <1>1, <2>1, <2>2, <2>3, <2>4, <2>5, <2>7, <2>9, <2>10, <2>11, <2>12, WorkersStep
<1>3. CASE UNCHANGED storeVars /\ StartOver(w)
  BY <1>1, <1>3, RefusedStep DEF Refused
<1> QED BY <1>2, <1>3 DEF Read

\* A call about the entry the worker handles.
LEMMA HandlerStep ==
    ASSUME TimelyInv, IInv', StoreOp, NEW w \in Workers, pc[w] \in Handling,
           \A v \in Workers \ {w} : Frozen(v),
           held'[w] \in {0, held[w]},
           UNCHANGED streamId, UNCHANGED cursor,
           pel \ {held[w]} \subseteq pel',
           idle' \subseteq idle,
           faults' >= faults,
           \A e \in Events : streamId[e] # held[w] => Same(e),
           \A e \in Events : streamId[e] = held[w] => Kept(e)',
           Own(w)'
    PROVE  OwnInv' /\ Alone' /\ KeptInv'
<1>1. IInv
  BY DEF TimelyInv
<1>2. Touch(held[w])
  BY <1>1, Typed DEF Touch, Reach
<1>3. held[w] \in Int /\ \A v \in Workers \ {w} : held[v] # held[w]
  BY AtCall
<1> QED BY <1>2, <1>3, WorkersStep

\* The event of a handled entry keeps its place when the entry stays pending,
\* its attempts within their bound, and an attempt left or under way.
LEMMA StillOpen ==
    ASSUME TimelyInv, IInv', NEW w \in Workers, pc[w] \in Handling, NEW e \in Events,
           streamId[e] = held[w], UNCHANGED streamId, UNCHANGED cursor,
           held[w] \in pel', status'[e] # "dead_letter",
           attempt'[e] <= MaxAttempts + faults',
           attempt'[e] < MaxAttempts + faults' \/ (pc'[w] \in Sent /\ held'[w] = held[w])
    PROVE  Kept(e)'
<1>1. streamId'[e] \in Live'
  BY DEF Live
<1>2. streamId'[e] \notin Unread'
  <2>1. held[w] \in 1 .. cursor /\ cursor \in Int
    BY AtCall, Typed DEF TimelyInv
  <2> QED BY <2>1 DEF Unread
<1>3. attempt'[e] < MaxAttempts + faults' \/ UnderWay(e)'
  BY DEF UnderWay
<1> QED BY <1>1, <1>2, <1>3 DEF Kept

\* An event that ends with a handled entry needs only its copy filed.
LEMMA Ended ==
    ASSUME TimelyInv, IInv', NEW w \in Workers, pc[w] \in Handling, NEW e \in Events,
           streamId[e] = held[w], UNCHANGED streamId, UNCHANGED cursor,
           UNCHANGED attempt, UNCHANGED faults,
           status'[e] \notin Open,
           status'[e] = "dead_letter" => FiledIn(deadLetter, e)' \/ FiledIn(quarantine, e)'
    PROVE  Kept(e)'
<1>1. streamId'[e] \notin Unread'
  <2>1. held[w] \in 1 .. cursor /\ cursor \in Int
    BY AtCall, Typed DEF TimelyInv
  <2> QED BY <2>1 DEF Unread
<1>2. attempt'[e] <= MaxAttempts + faults'
  BY DEF TimelyInv, KeptInv, Kept
<1> QED BY <1>1, <1>2 DEF Kept

\* quarantine_message acknowledges the entry it files; a scheduled retry is
\* never in the hands of a worker that quarantines.
LEMMA IsolateStep ==
    ASSUME TimelyInv, IInv', StoreOp, NEW w \in Workers, Isolate(w)
    PROVE  OwnInv' /\ Alone' /\ KeptInv'
<1>0. IInv /\ OwnInv
  BY DEF TimelyInv
<1>1. pc[w] \in {"isolate_claimed", "isolate_read"} /\ pc[w] \in Handling /\ pc[w] \notin Sent /\ faults' = faults
  BY DEF Isolate, Handling, Sent
<1>2. CASE CanQuarantine(held[w]) /\ QuarantineMessage(held[w]) /\ (Hold(w, 0, "read") \/ StartOver(w))
  <2>1. held'[w] = 0 /\ pc'[w] \in Scouting /\ \A v \in Workers \ {w} : Frozen(v)
    BY <1>0, <1>2, Typed DEF Hold, StartOver, Frozen, Scouting
  <2>2. Own(w)'
    BY <2>1, OwnNothing
  <2>3. /\ UNCHANGED streamId /\ UNCHANGED cursor /\ UNCHANGED attempt
        /\ pel' = pel \ {held[w]} /\ idle' = idle \ {held[w]}
    BY <1>2 DEF QuarantineMessage, XAck
  <2>4. \A e \in Events : streamId[e] # held[w] => Same(e)
    BY <1>2, <2>3 DEF QuarantineMessage, Same
  <2>5. ASSUME NEW e \in Events, streamId[e] = held[w]
        PROVE  Kept(e)'
    <3>1. e = HeldEvent(w) /\ Stage(w, e) /\ held[w] \in 1 .. Len(stream)
      BY <1>1, <2>5, AtCall
    <3>2. status[e] # "retry_scheduled"
      BY <1>1, <3>1 DEF Stage
    <3>3. status'[e] = IF status[e] \in {"queued", "delivering"} THEN "dead_letter" ELSE status[e]
      BY <1>2, <2>5, <3>1 DEF QuarantineMessage, HeldEvent
    <3>4. status'[e] \notin Open
      BY <3>2, <3>3 DEF Open
    <3>5. FiledIn(quarantine, e)'
      <4> DEFINE r == [event |-> stream[held[w]].event, source |-> held[w]]
      <4>1. r \in Filed /\ r.event = e /\ r.source = streamId'[e]
        BY <2>3, <2>5, <3>1 DEF HeldEvent, Filed
      <4>2. quarantine' = Append(quarantine, r) /\ quarantine \in Seq(Filed)
        BY <1>0, <1>2 DEF QuarantineMessage, IInv, TypeOK, StoreTypeOK
      <4> HIDE DEF r
      <4>3. Len(quarantine) + 1 \in DOMAIN quarantine' /\ quarantine'[Len(quarantine) + 1] = r
        BY ONLY <4>1, <4>2, AppendFacts
      <4> QED BY <4>1, <4>3 DEF FiledIn
    <3> QED BY <1>1, <2>3, <2>5, <3>4, <3>5, Ended
  <2>6. faults' >= faults
    BY <1>0, <1>1, Typed
  <2> QED BY <1>1, <2>1, <2>2, <2>3, <2>4, <2>5, <2>6, HandlerStep
<1>3. CASE Refused(w)
  BY <1>1, <1>3, RefusedStep
<1> QED BY <1>2, <1>3 DEF Isolate

\* mark_delivery_started, by the worker or sent again by the client library:
\* nobody else is at this event, so an attempt was left.
LEMMA StartStep ==
    ASSUME TimelyInv, IInv', StoreOp, NEW w \in Workers, Start(w)
    PROVE  OwnInv' /\ Alone' /\ KeptInv'
<1>0. IInv /\ OwnInv
  BY DEF TimelyInv
<1>1. pc[w] = "start" /\ pc[w] \in Handling /\ pc[w] \notin Sent /\ UNCHANGED faults
  BY DEF Start, Handling, Sent
<1>2. CASE /\ CanStartDelivery(HeldEvent(w), held[w])
           /\ StartDelivery(HeldEvent(w))
           /\ tries' = [tries EXCEPT ![w] = attempt[HeldEvent(w)] + 1]
           /\ pc' = [pc EXCEPT ![w] = "deliver"]
           /\ UNCHANGED held
  <2>1. PICK e \in Events : e = HeldEvent(w) /\ streamId[e] = held[w]
    BY <1>0, <1>1, <1>2 DEF CanStartDelivery, IInv, WorkerInv, Placed
  <2>2. /\ held[w] \in 1 .. cursor /\ held[w] \notin idle
        /\ Stage(w, e) /\ Kept(e)
        /\ \A d \in Events : streamId[d] = held[w] => d = e
        /\ \A v \in Workers \ {w} : held[v] # held[w]
    BY <1>1, <2>1, AtCall
  <2>a. status' = [status EXCEPT ![e] = "delivering"] /\ attempt' = [attempt EXCEPT ![e] = @ + 1]
    BY <1>2, <2>1 DEF StartDelivery
  <2>3. UNCHANGED streamId /\ UNCHANGED cursor /\ UNCHANGED pel /\ UNCHANGED idle
    BY <1>2 DEF StartDelivery, groupVars
  <2>4. pc'[w] = "deliver" /\ held'[w] = held[w] /\ tries'[w] = attempt[e] + 1
        /\ \A v \in Workers \ {w} : Frozen(v)
    BY <1>0, <1>2, <2>1, Typed DEF Frozen
  <2>5. status'[e] = "delivering" /\ attempt'[e] = attempt[e] + 1 /\ attempt[e] \in Nat
    BY <1>0, <2>1, <2>a, Typed
  <2>6. held[w] \in pel /\ status[e] \in {"queued", "delivering"}
    BY <1>1, <2>2 DEF Stage
  <2>7. attempt[e] < MaxAttempts + faults
    <3>1. ~UnderWay(e)
      BY <1>1, <2>1, <2>2 DEF UnderWay
    <3> QED BY <2>2, <2>6, <3>1 DEF Kept, Open
  <2>8. Kept(e)'
    <3>1. attempt'[e] <= MaxAttempts + faults'
      BY <1>0, <1>1, <2>5, <2>7, Typed
    <3>2. pc'[w] \in Sent /\ status'[e] # "dead_letter" /\ held[w] \in pel'
      BY <2>3, <2>4, <2>5, <2>6 DEF Sent
    <3> QED BY <1>1, <2>1, <2>3, <2>4, <3>1, <3>2, StillOpen
  <2>9. Own(w)'
    <3>1. pc'[w] = "deliver" /\ pc'[w] \notin Scouting
      BY <2>4 DEF Scouting
    <3>2. held'[w] \in 1 .. cursor' /\ held'[w] \notin idle' /\ held'[w] \in pel'
      BY <2>2, <2>3, <2>4, <2>6
    <3>3. ASSUME NEW d \in Events, streamId'[d] = held'[w]
          PROVE  Stage(w, d)'
      <4>1. d = e
        BY <2>2, <2>3, <2>4, <3>3
      <4> QED BY <2>4, <2>5, <3>1, <3>2, <4>1 DEF Stage
    <3>4. \E d \in Events : streamId'[d] = held'[w]
      BY <2>1, <2>3, <2>4
    <3> QED BY <3>1, <3>2, <3>3, <3>4 DEF Own
  <2>10. \A d \in Events : streamId[d] # held[w] => Same(d)
    BY <1>0, <2>1, <2>3, <2>a, Typed DEF Same
  <2>11. faults' >= faults
    BY <1>0, <1>1, Typed
  <2>12. pel \ {held[w]} \subseteq pel' /\ idle' \subseteq idle
    BY <2>3
  <2> QED BY <1>1, <2>2, <2>3, <2>4, <2>8, <2>9, <2>10, <2>11, <2>12, HandlerStep
<1>3. CASE Refused(w)
  BY <1>1, <1>3, RefusedStep
<1> QED BY <1>2, <1>3 DEF Start

\* The sink's answer.  Only an attempt below the maximum ends in a retry, so
\* the event has another one left.
LEMMA DeliverStep ==
    ASSUME TimelyInv, IInv', StoreOp, NEW w \in Workers, Deliver(w)
    PROVE  OwnInv' /\ Alone' /\ KeptInv'
<1>0. IInv /\ OwnInv
  BY DEF TimelyInv
<1>1. pc[w] = "deliver" /\ pc[w] \in Handling /\ pc[w] \in Sent /\ UNCHANGED faults
  BY DEF Deliver, Handling, Sent
<1>2. PICK e \in Events : e = HeldEvent(w) /\ streamId[e] = held[w]
  BY <1>1, AtCall
<1>3. /\ held[w] \in 1 .. cursor /\ held[w] \notin idle
      /\ Stage(w, e) /\ Kept(e)
      /\ \A d \in Events : streamId[d] = held[w] => d = e
  BY <1>1, <1>2, AtCall
<1>4. held[w] \in pel /\ status[e] = "delivering" /\ tries[w] = attempt[e]
  BY <1>1, <1>3 DEF Stage, Sent, Attempting
<1>5. /\ UNCHANGED streamId /\ UNCHANGED cursor /\ UNCHANGED pel /\ UNCHANGED idle
      /\ UNCHANGED status /\ UNCHANGED attempt
  BY DEF Deliver, storeVars, groupVars, hashVars
<1>6. held'[w] = held[w] /\ tries'[w] = tries[w] /\ \A v \in Workers \ {w} : Frozen(v)
  BY <1>0, Typed DEF Deliver, Goto, Frozen
<1>7. pc'[w] \in Sent \/ (pc'[w] = "retry" /\ attempt[e] < MaxAttempts)
  <2>1. \/ Goto(w, "complete")
        \/ \E class \in ErrorClass : Goto(w, AfterFailure(class, tries[w]))
    BY DEF Deliver
  <2>2. CASE Goto(w, "complete")
    BY <1>0, <2>2, Typed DEF Goto, Sent
  <2>3. ASSUME NEW class \in ErrorClass, Goto(w, AfterFailure(class, tries[w]))
        PROVE  pc'[w] \in Sent \/ (pc'[w] = "retry" /\ attempt[e] < MaxAttempts)
    <3>1. pc'[w] = AfterFailure(class, tries[w])
      BY <1>0, <2>3, Typed DEF Goto
    <3>2. attempt[e] \in Nat /\ MaxAttempts \in Nat
      BY <1>0, Typed
    <3> QED BY <1>4, <3>1, <3>2 DEF AfterFailure, ShouldDeadLetter, Sent
  <2> QED BY <2>1, <2>2, <2>3
<1>8. Kept(e)'
  <2>1. attempt'[e] <= MaxAttempts + faults'
    BY <1>1, <1>3, <1>5 DEF Kept
  <2>2. attempt'[e] < MaxAttempts + faults' \/ pc'[w] \in Sent
    BY <1>0, <1>1, <1>5, <1>7, Typed
  <2>3. held[w] \in pel' /\ status'[e] # "dead_letter"
    BY <1>4, <1>5
  <2> QED BY <1>1, <1>2, <1>5, <1>6, <2>1, <2>2, <2>3, StillOpen
<1>9. Own(w)'
  <2>1. pc'[w] \notin Scouting /\ pc'[w] # "start" /\ pc'[w] \notin {"isolate_claimed", "isolate_read"}
    BY <1>7 DEF Scouting, Sent
  <2>2. held'[w] \in 1 .. cursor' /\ held'[w] \notin idle' /\ held'[w] \in pel'
    BY <1>3, <1>4, <1>5, <1>6
  <2>3. \E d \in Events : streamId'[d] = held'[w]
    BY <1>2, <1>5, <1>6
  <2>4. ASSUME NEW d \in Events, streamId'[d] = held'[w]
        PROVE  Stage(w, d)'
    <3>1. d = e
      BY <1>3, <1>5, <1>6, <2>4
    <3>2. status'[d] = "delivering" /\ tries'[w] = attempt'[d]
      BY <1>4, <1>5, <1>6, <3>1
    <3>3. pc'[w] = "retry" => attempt'[d] < MaxAttempts
      BY <1>5, <1>7, <3>1 DEF Sent
    <3> QED BY <2>1, <2>2, <3>2, <3>3 DEF Stage
  <2> QED BY <2>1, <2>2, <2>3, <2>4 DEF Own
<1>10. \A d \in Events : Same(d)
  BY <1>5 DEF Same
<1>11. faults' >= faults /\ pel \ {held[w]} \subseteq pel' /\ idle' \subseteq idle
  BY <1>0, <1>1, <1>5, Typed
<1> QED BY <1>1, <1>3, <1>5, <1>6, <1>8, <1>9, <1>10, <1>11, HandlerStep

\* mark_delivered and move_to_dead_letter are not refused to the one worker
\* whose attempt they end, and the event ends with them.
LEMMA OutcomeStep ==
    ASSUME TimelyInv, IInv', StoreOp, NEW w \in Workers, MarkDelivered(w) \/ Bury(w)
    PROVE  OwnInv' /\ Alone' /\ KeptInv'
<1>0. IInv /\ OwnInv
  BY DEF TimelyInv
<1>1. pc[w] \in {"complete", "bury"} /\ pc[w] \in Handling /\ pc[w] \in Sent /\ UNCHANGED faults
  BY DEF MarkDelivered, Bury, Handling, Sent
<1>2. PICK e \in Events : e = HeldEvent(w) /\ streamId[e] = held[w]
  BY <1>1, AtCall
<1>3. /\ held[w] \in 1 .. Len(stream)
      /\ Stage(w, e)
      /\ \A d \in Events : streamId[d] = held[w] => d = e
  BY <1>1, <1>2, AtCall
<1>4. held[w] \in pel /\ status[e] = "delivering" /\ attempt[e] >= 1
  BY <1>0, <1>1, <1>2, <1>3 DEF Stage, Attempting, IInv, WorkerInv, Placed
<1>5. CanCompleteDelivery(e, held[w]) /\ CanMoveToDeadLetter(e, held[w])
  BY <1>2, <1>4 DEF CanCompleteDelivery, CanMoveToDeadLetter, HeldEvent
<1>6. StartOver(w) /\ (CompleteDelivery(e, held[w]) \/ MoveToDeadLetter(e, held[w]))
  BY <1>2, <1>5 DEF MarkDelivered, Bury
<1>7. /\ UNCHANGED streamId /\ UNCHANGED cursor /\ UNCHANGED attempt
      /\ pel' = pel \ {held[w]} /\ idle' = idle \ {held[w]}
  BY <1>6 DEF CompleteDelivery, MoveToDeadLetter, XAck
<1>8. pc'[w] \in Scouting /\ held'[w] = 0 /\ \A v \in Workers \ {w} : Frozen(v)
  BY <1>0, <1>6, Typed DEF StartOver, Frozen, Scouting
<1>9. Own(w)'
  BY <1>8, OwnNothing
<1>10. \A d \in Events : streamId[d] # held[w] => Same(d)
  BY <1>0, <1>2, <1>6, <1>7, Typed DEF Same, CompleteDelivery, MoveToDeadLetter
<1>11. status'[e] \notin Open
  BY <1>0, <1>6, Typed DEF CompleteDelivery, MoveToDeadLetter, Open
<1>12. status'[e] = "dead_letter" => FiledIn(deadLetter, e)'
  <2>1. CASE CompleteDelivery(e, held[w])
    BY <1>0, <2>1, Typed DEF CompleteDelivery
  <2>2. CASE MoveToDeadLetter(e, held[w])
    <3> DEFINE r == [event |-> e, source |-> held[w]]
    <3>1. r \in Filed /\ r.event = e /\ r.source = streamId'[e]
      BY <1>2, <1>3, <1>7 DEF Filed
    <3>2. deadLetter' = Append(deadLetter, r) /\ deadLetter \in Seq(Filed)
      BY <1>0, <2>2 DEF MoveToDeadLetter, IInv, TypeOK, StoreTypeOK
    <3> HIDE DEF r
    <3>3. Len(deadLetter) + 1 \in DOMAIN deadLetter' /\ deadLetter'[Len(deadLetter) + 1] = r
      BY ONLY <3>1, <3>2, AppendFacts
    <3> QED BY <3>1, <3>3 DEF FiledIn
  <2> QED BY <1>6, <2>1, <2>2
<1>13. Kept(e)'
  BY <1>1, <1>2, <1>7, <1>11, <1>12, Ended
<1>14. faults' >= faults /\ pel \ {held[w]} \subseteq pel' /\ idle' \subseteq idle
  BY <1>0, <1>1, <1>7, Typed
<1> QED BY <1>1, <1>3, <1>7, <1>8, <1>9, <1>10, <1>13, <1>14, HandlerStep

\* schedule_retry, once or sent again: the event keeps its entry and an
\* attempt.  The worker is done with it, or about to learn that it is.
LEMMA RetryScheduled ==
    ASSUME TimelyInv, IInv', StoreOp, NEW w \in Workers, pc[w] = "retry",
           CanScheduleRetry(HeldEvent(w), held[w]), ScheduleRetry(HeldEvent(w)),
           StartOver(w) \/ UNCHANGED workerVars,
           faults' >= faults
    PROVE  OwnInv' /\ Alone' /\ KeptInv'
<1>0. IInv /\ OwnInv
  BY DEF TimelyInv
<1>1. pc[w] \in Handling /\ pc[w] \in Attempting
  BY DEF Handling, Attempting
<1>2. PICK e \in Events : e = HeldEvent(w) /\ streamId[e] = held[w]
  BY <1>0, <1>1 DEF CanScheduleRetry, IInv, WorkerInv, Placed
<1>3. /\ held[w] \in 1 .. cursor /\ held[w] \notin idle
      /\ Stage(w, e) /\ Kept(e)
      /\ \A d \in Events : streamId[d] = held[w] => d = e
  BY <1>1, <1>2, AtCall
<1>4. held[w] \in pel /\ attempt[e] < MaxAttempts
  BY <1>1, <1>3 DEF Stage
<1>a. status' = [status EXCEPT ![e] = "retry_scheduled"]
  BY <1>2 DEF ScheduleRetry
<1>5. UNCHANGED streamId /\ UNCHANGED cursor /\ UNCHANGED pel /\ UNCHANGED idle /\ UNCHANGED attempt
  BY DEF ScheduleRetry, groupVars
<1>6. status'[e] = "retry_scheduled"
  BY <1>0, <1>a, Typed
<1>7. held'[w] \in {0, held[w]} /\ \A v \in Workers \ {w} : Frozen(v)
  BY <1>0, Typed DEF StartOver, workerVars, Frozen
<1>8. Own(w)'
  <2>1. CASE StartOver(w)
    <3>1. pc'[w] \in Scouting /\ held'[w] = 0
      BY <1>0, <2>1, Typed DEF StartOver, Scouting
    <3> QED BY <3>1, OwnNothing
  <2>2. CASE UNCHANGED workerVars
    <3>1. pc'[w] = "retry" /\ held'[w] = held[w]
      BY <2>2 DEF workerVars
    <3>2. held'[w] \in 1 .. cursor' /\ held'[w] \notin idle' /\ held'[w] \in pel'
      BY <1>3, <1>4, <1>5, <3>1
    <3>3. pc'[w] \notin Scouting /\ pc'[w] \notin Sent
      BY <3>1 DEF Scouting, Sent
    <3>4. ASSUME NEW d \in Events, streamId'[d] = held'[w]
          PROVE  Stage(w, d)'
      <4>1. d = e
        BY <1>3, <1>5, <3>1, <3>4
      <4>2. status'[d] = "retry_scheduled" /\ attempt'[d] < MaxAttempts
        BY <1>4, <1>5, <1>6, <4>1
      <4> QED BY <3>1, <3>2, <3>3, <4>2 DEF Stage
    <3> QED BY <3>2, <3>3, <3>4 DEF Own
  <2> QED BY <2>1, <2>2
<1>9. Kept(e)'
  <2>1. attempt'[e] < MaxAttempts + faults' /\ attempt'[e] <= MaxAttempts + faults'
    <3>1. faults \in Nat /\ faults' \in Nat /\ attempt[e] \in Nat /\ MaxAttempts \in Nat
      BY <1>0, Typed, BoundsAssumption DEF IInv, TypeOK
    <3> QED BY <1>4, <1>5, <3>1
  <2>2. held[w] \in pel' /\ status'[e] # "dead_letter"
    BY <1>4, <1>5, <1>6
  <2> QED BY <1>1, <1>2, <1>5, <2>1, <2>2, StillOpen
<1>10. \A d \in Events : streamId[d] # held[w] => Same(d)
  BY <1>0, <1>2, <1>5, <1>a, Typed DEF Same
<1>11. pel \ {held[w]} \subseteq pel' /\ idle' \subseteq idle
  BY <1>5
<1> QED BY <1>1, <1>3, <1>5, <1>7, <1>8, <1>9, <1>10, <1>11, HandlerStep

\* An iteration that ends early costs its event an attempt at most, and is
\* counted as a fault.
LEMMA AbandonStep ==
    ASSUME TimelyInv, IInv', StoreOp, NEW w \in Workers, Abandon(w)
    PROVE  OwnInv' /\ Alone' /\ KeptInv'
<1>0. IInv /\ OwnInv
  BY DEF TimelyInv
<1>1. pc'[w] = "ensure" /\ pc'[w] \in Scouting /\ held'[w] = 0 /\ \A v \in Workers \ {w} : Frozen(v)
  BY <1>0, Typed DEF Abandon, StartOver, Frozen, Scouting
<1>2. /\ UNCHANGED streamId /\ UNCHANGED cursor /\ UNCHANGED pel /\ UNCHANGED idle
      /\ UNCHANGED status /\ UNCHANGED attempt
  BY DEF Abandon, storeVars, groupVars, hashVars
<1>3. faults' = faults + 1 /\ faults \in Nat /\ faults' >= faults
  BY <1>0, Typed DEF Abandon
<1>4. CASE pc[w] \in Handling
  <2>1. ASSUME NEW e \in Events, streamId[e] = held[w]
        PROVE  Kept(e)'
    <3>1. Kept(e) /\ held[w] \in 1 .. cursor /\ cursor \in Int
      BY <1>0, <1>4, <2>1, AtCall, Typed
    <3>2. attempt'[e] < MaxAttempts + faults' /\ attempt'[e] <= MaxAttempts + faults'
      <4>1. attempt[e] <= MaxAttempts + faults /\ attempt[e] \in Nat /\ MaxAttempts \in Nat
        BY <1>0, <3>1, Typed DEF Kept
      <4> QED BY <1>2, <1>3, <4>1
    <3>3. streamId'[e] \in Live => streamId'[e] \in Live'
      <4>1. streamId[e] \notin Unread
        BY <2>1, <3>1 DEF Unread
      <4> QED BY <1>2, <4>1 DEF Live
    <3>4. streamId'[e] \notin Unread'
      BY <1>2, <2>1, <3>1 DEF Unread
    <3>5. status[e] = "dead_letter" => FiledIn(deadLetter, e)' \/ FiledIn(quarantine, e)'
      BY <1>0, <1>2, <3>1, LogsGrow DEF IInv, Kept
    <3> QED BY <1>2, <3>1, <3>2, <3>3, <3>4, <3>5 DEF Kept
  <2>2. Own(w)'
    BY <1>1, OwnNothing
  <2>3. \A e \in Events : Same(e)
    BY <1>2 DEF Same
  <2>4. pel \ {held[w]} \subseteq pel' /\ idle' \subseteq idle
    BY <1>2
  <2> QED BY <1>1, <1>2, <1>3, <1>4, <2>1, <2>2, <2>3, <2>4, HandlerStep
<1>5. CASE pc[w] \in Scouting
  <2>1. pc[w] \notin Sent
    BY <1>5 DEF Scouting, Sent
  <2> QED BY <1>1, <1>2, <1>3, <2>1, QuietStep
<1> QED BY <1>0, <1>4, <1>5, Typed

\* mark_delivery_started, sent twice by the client library: the extra attempt
\* is counted as a fault.
LEMMA StartAgain ==
    ASSUME TimelyInv, IInv', StoreOp, NEW w \in Workers, pc[w] = "start",
           CanStartDelivery(HeldEvent(w), held[w]), StartDelivery(HeldEvent(w)),
           UNCHANGED workerVars, faults' = faults + 1
    PROVE  OwnInv' /\ Alone' /\ KeptInv'
<1>0. IInv /\ OwnInv
  BY DEF TimelyInv
<1>1. pc[w] \in Handling /\ pc[w] \notin Sent
  BY DEF Handling, Sent
<1>2. PICK e \in Events : e = HeldEvent(w) /\ streamId[e] = held[w]
  BY <1>0 DEF CanStartDelivery, IInv, WorkerInv, Placed
<1>3. /\ held[w] \in 1 .. cursor /\ held[w] \notin idle
      /\ Stage(w, e) /\ Kept(e)
      /\ \A d \in Events : streamId[d] = held[w] => d = e
      /\ \A v \in Workers \ {w} : held[v] # held[w]
  BY <1>1, <1>2, AtCall
<1>4. held[w] \in pel /\ status[e] \in {"queued", "delivering"}
  BY <1>3 DEF Stage
<1>a. status' = [status EXCEPT ![e] = "delivering"] /\ attempt' = [attempt EXCEPT ![e] = @ + 1]
  BY <1>2 DEF StartDelivery
<1>5. UNCHANGED streamId /\ UNCHANGED cursor /\ UNCHANGED pel /\ UNCHANGED idle
  BY DEF StartDelivery, groupVars
<1>6. status'[e] = "delivering" /\ attempt'[e] = attempt[e] + 1 /\ attempt[e] \in Nat
  BY <1>0, <1>a, Typed
<1>7. pc'[w] = "start" /\ held'[w] = held[w] /\ \A v \in Workers \ {w} : Frozen(v)
  BY DEF workerVars, Frozen
<1>8. Kept(e)'
  <2>1. ~UnderWay(e)
    BY <1>1, <1>2, <1>3 DEF UnderWay
  <2>2. attempt[e] < MaxAttempts + faults
    BY <1>3, <1>4, <2>1 DEF Kept, Open
  <2>3. attempt'[e] < MaxAttempts + faults' /\ attempt'[e] <= MaxAttempts + faults'
    BY <1>0, <1>6, <2>2, Typed
  <2>4. held[w] \in pel' /\ status'[e] # "dead_letter"
    BY <1>4, <1>5, <1>6
  <2> QED BY <1>1, <1>2, <1>5, <2>3, <2>4, StillOpen
<1>9. Own(w)'
  <2>1. held'[w] \in 1 .. cursor' /\ held'[w] \notin idle' /\ held'[w] \in pel'
    BY <1>3, <1>4, <1>5, <1>7
  <2>2. pc'[w] \notin Scouting /\ pc'[w] \notin Sent
    BY <1>7 DEF Scouting, Sent
  <2>3. ASSUME NEW d \in Events, streamId'[d] = held'[w]
        PROVE  Stage(w, d)'
    <3>1. d = e
      BY <1>3, <1>5, <1>7, <2>3
    <3> QED BY <1>6, <1>7, <2>1, <2>2, <3>1 DEF Stage
  <2> QED BY <2>1, <2>2, <2>3 DEF Own
<1>10. \A d \in Events : streamId[d] # held[w] => Same(d)
  BY <1>0, <1>2, <1>5, <1>a, Typed DEF Same
<1>11. pel \ {held[w]} \subseteq pel' /\ idle' \subseteq idle /\ faults' >= faults
  BY <1>0, <1>5, Typed
<1> QED BY <1>1, <1>3, <1>5, <1>7, <1>8, <1>9, <1>10, <1>11, HandlerStep

(***************************************************************************)
(* Retries and the environment.                                            *)
(***************************************************************************)
\* A scheduled retry's records fit together, so release_due_retry never has
\* to give an event up.
LEMMA ScheduledIsSound ==
    ASSUME TimelyInv, NEW e \in Events, status[e] = "retry_scheduled"
    PROVE  CanRelease(e)
<1>1. IInv /\ Kept(e)
  BY DEF TimelyInv, KeptInv
<1>2. streamId[e] \in Live /\ streamId[e] \notin Unread
  BY <1>1 DEF Kept, Open
<1>3. stream[streamId[e]].event = e
  BY <1>1, Pointing
<1> QED BY <1>2, <1>3 DEF Live, CanRelease

\* Steps of the environment and of acceptance move no worker.
LEMMA EnvironmentStep ==
    ASSUME TimelyInv, IInv', StoreOp, UNCHANGED workerVars, UNCHANGED faults,
           NEW i, Touch(i), \A v \in Workers : pc[v] \in Handling => held[v] # i,
           Reach(-1),
           \A e \in Events : ~Same(e) => Kept(e)' /\ streamId[e] = 0 /\ streamId'[e] > Len(stream)
    PROVE  OwnInv' /\ Alone' /\ KeptInv'
<1>0. IInv /\ OwnInv /\ Alone /\ KeptInv
  BY DEF TimelyInv
<1>1. \A v \in Workers : Frozen(v)
  BY DEF workerVars, Frozen
<1>2. Alone'
  BY <1>0, <1>1 DEF Alone, Frozen
<1>3. ASSUME NEW v \in Workers PROVE Own(v)'
  <2>1. pc[v] \in Handling => \A e \in Events : streamId[e] = held[v] \/ streamId'[e] = held[v] => Same(e)
    <3> SUFFICES ASSUME pc[v] \in Handling, NEW e \in Events, ~Same(e)
                 PROVE  streamId[e] # held[v] /\ streamId'[e] # held[v]
      OBVIOUS
    <3>1. held[v] \in 1 .. Len(stream) /\ Len(stream) \in Nat
      BY <1>0, AtCall, Typed
    <3>2. streamId'[e] \in Nat
      BY DEF IInv, TypeOK, StoreTypeOK
    <3> QED BY <3>1, <3>2
  <2>2. Own(v)
    BY <1>0 DEF OwnInv
  <2> QED BY <1>0, <1>1, <2>1, <2>2, OwnFrame
<1>4. ASSUME NEW d \in Events, Same(d) PROVE Kept(d)'
  <2>1. UnderWay(d) => UnderWay(d)'
    BY <1>1, <1>4 DEF UnderWay, Frozen, Same
  <2>2. faults' >= faults /\ Kept(d) /\ streamId[d] # -1
    BY <1>0, Typed DEF KeptInv
  <2> QED BY <1>0, <1>4, <2>1, <2>2, KeptFrame
<1> QED BY <1>2, <1>3, <1>4 DEF OwnInv, KeptInv

\* An event enters with its entry unread, no attempt behind it and nobody at it.
LEMMA EnqueueStep ==
    ASSUME TimelyInv, IInv', StoreOp, UNCHANGED workerVars, UNCHANGED faults,
           NEW e \in Events, NEW f \in {"parsable", "malformed"}, CanEnqueue(e), Enqueue(e, f)
    PROVE  OwnInv' /\ Alone' /\ KeptInv'
<1>0. IInv
  BY DEF TimelyInv
<1>1. UNCHANGED cursor /\ UNCHANGED pel /\ UNCHANGED idle
  BY DEF Enqueue, groupVars
<1>2. /\ status' = [status EXCEPT ![e] = "queued"]
      /\ attempt' = [attempt EXCEPT ![e] = 0]
      /\ streamId' = [streamId EXCEPT ![e] = Len(stream) + 1]
  BY DEF Enqueue
<1>3. status'[e] = "queued" /\ attempt'[e] = 0 /\ streamId'[e] = Len(stream) + 1
  BY <1>0, <1>2, Typed
<1>4. streamId[e] = 0
  BY <1>0, Pointing DEF CanEnqueue
<1>5. Len(stream') = Len(stream) + 1
  <2>1. [event |-> e, form |-> f] \in Entry
    BY DEF Entry
  <2> QED BY <1>0, <2>1, AppendFacts DEF Enqueue, IInv, TypeOK, StoreTypeOK
<1>6. Kept(e)'
  <2>1. streamId'[e] \in Unread'
    BY <1>0, <1>1, <1>3, <1>5, Typed DEF Unread
  <2>2. attempt'[e] < MaxAttempts + faults' /\ attempt'[e] <= MaxAttempts + faults'
    BY <1>0, <1>3, Typed
  <2> QED BY <1>3, <2>1, <2>2 DEF Kept, Live
<1>7. \A d \in Events : d # e => Same(d)
  BY <1>0, <1>2, Typed DEF Same
<1>8. Touch(-1) /\ Reach(-1) /\ \A v \in Workers : held[v] # -1
  BY <1>0, <1>1, Typed DEF Touch, Reach
<1>9. \A d \in Events : ~Same(d) => Kept(d)' /\ streamId[d] = 0 /\ streamId'[d] > Len(stream)
  BY <1>0, <1>3, <1>4, <1>6, <1>7, Typed
<1> QED BY <1>8, <1>9, EnvironmentStep

\* Time and stray records change no hash.  An entry grows old only in the
\* hands of nobody.
LEMMA TimeStep ==
    ASSUME TimelyInv, IInv', StoreOp, UNCHANGED workerVars, UNCHANGED faults,
           UNCHANGED status, UNCHANGED attempt, UNCHANGED streamId, UNCHANGED pel, UNCHANGED cursor,
           NEW i, idle' \ {i} \subseteq idle, \A v \in Workers : held[v] # i
    PROVE  OwnInv' /\ Alone' /\ KeptInv'
<1>0. IInv
  BY DEF TimelyInv
<1>1. Touch(i) /\ Reach(-1)
  BY <1>0, Typed DEF Touch, Reach
<1>2. \A e \in Events : Same(e)
  BY DEF Same
<1> QED BY <1>1, <1>2, EnvironmentStep

\* release_due_retry moves the event to a new entry.  A worker that had its
\* retry scheduled twice may still hold the old one, no longer current.
LEMMA ReleaseStep ==
    ASSUME TimelyInv, IInv', StoreOp, NEW w \in Workers, pc[w] = "release", Goto(w, "claim"),
           UNCHANGED faults, NEW e \in Events, ReleaseDueRetry(e)
    PROVE  OwnInv' /\ Alone' /\ KeptInv'
<1>0. IInv /\ OwnInv /\ Alone /\ KeptInv
  BY DEF TimelyInv
<1>1. status[e] = "retry_scheduled" /\ streamId[e] \in pel /\ streamId[e] \in 1 .. Len(stream)
  BY <1>0, Typed, Pointing DEF ReleaseDueRetry, CanRelease
<1>2. /\ status' = [status EXCEPT ![e] = "queued"]
      /\ streamId' = [streamId EXCEPT ![e] = Len(stream) + 1]
      /\ UNCHANGED attempt
  BY DEF ReleaseDueRetry
<1>3. UNCHANGED cursor /\ pel' = pel \ {streamId[e]} /\ idle' = idle \ {streamId[e]}
  BY DEF ReleaseDueRetry, XAck
<1>4. status'[e] = "queued" /\ streamId'[e] = Len(stream) + 1 /\ attempt'[e] = attempt[e]
  BY <1>0, <1>2, Typed
<1>5. Len(stream') = Len(stream) + 1
  <2>1. stream[streamId[e]] \in Entry /\ stream \in Seq(Entry)
    BY <1>0, <1>1, EntryFacts DEF IInv, TypeOK, StoreTypeOK
  <2> QED BY <2>1, AppendFacts DEF ReleaseDueRetry
<1>6. \A d \in Events : d # e => Same(d) /\ streamId[d] # streamId[e]
  BY <1>0, <1>1, <1>2, Typed, Pointing DEF Same
<1>7. /\ pc[w] \in Scouting /\ pc'[w] \in Scouting /\ held[w] = 0 /\ held' = held
      /\ \A v \in Workers \ {w} : Frozen(v)
  BY <1>0, Typed DEF Goto, Frozen, Scouting, OwnInv, Own
<1>8. Alone'
  BY <1>0, <1>7 DEF Alone
<1>9. PICK i \in Int : i = streamId[e]
  BY <1>1
<1>10. Touch(i) /\ Reach(i)
  BY <1>0, <1>3, <1>9, Typed DEF Touch, Reach
<1>11. ASSUME NEW v \in Workers PROVE Own(v)'
  <2>0. Own(v)
    BY <1>0 DEF OwnInv
  <2>1. CASE v = w
    BY <1>7, <2>1, OwnNothing
  <2>2. CASE v # w /\ (pc[v] \in Handling => held[v] # i)
    <3>1. pc[v] \in Handling => \A d \in Events : streamId[d] = held[v] \/ streamId'[d] = held[v] => Same(d)
      <4> SUFFICES ASSUME pc[v] \in Handling
                   PROVE  streamId[e] # held[v] /\ streamId'[e] # held[v]
        BY <1>6
      <4>1. held[v] \in 1 .. Len(stream) /\ Len(stream) \in Nat
        BY <1>0, AtCall, Typed
      <4> QED BY <1>4, <1>9, <2>2, <4>1
    <3> QED BY <1>0, <1>7, <1>10, <2>0, <2>2, <3>1, OwnFrame
  <2>3. CASE v # w /\ pc[v] \in Handling /\ held[v] = i
    <3>1. pc'[v] = pc[v] /\ held'[v] = held[v]
      BY <1>7, <2>3 DEF Frozen
    <3>2. Stage(v, e) /\ held[v] \in 1 .. cursor /\ held[v] \notin idle /\ held[v] \in 1 .. Len(stream)
      BY <1>9, <2>3, AtCall
    <3>3. pc[v] \notin Sent
      BY <1>1, <3>2 DEF Stage
    <3>4. pc[v] \notin Scouting
      BY <2>3 DEF Scouting, Handling
    <3>5. \A d \in Events : streamId'[d] # held[v]
      <4>1. streamId'[e] # held[v]
        BY <1>0, <1>4, <3>2, Typed
      <4>2. \A d \in Events : d # e => streamId'[d] # held[v]
        BY <1>6, <1>9, <2>3 DEF Same
      <4> QED BY <4>1, <4>2
    <3>6. held[v] \in 1 .. cursor' /\ held[v] \notin idle'
      BY <1>3, <3>2
    <3> QED BY <3>1, <3>3, <3>4, <3>5, <3>6 DEF Own
  <2> QED BY <2>1, <2>2, <2>3
<1>12. ASSUME NEW d \in Events PROVE Kept(d)'
  <2>1. CASE d = e
    <3>1. streamId'[e] \in Unread'
      BY <1>0, <1>3, <1>4, <1>5, Typed DEF Unread
    <3>2. ~UnderWay(e)
      <4> SUFFICES ASSUME NEW v \in Workers, pc[v] \in Sent, held[v] = streamId[e] PROVE FALSE
        BY DEF UnderWay
      <4>1. pc[v] \in Handling
        BY DEF Sent, Handling
      <4>2. Stage(v, e)
        BY <4>1, AtCall
      <4> QED BY <1>1, <4>2 DEF Stage
    <3>3. attempt[e] < MaxAttempts + faults /\ attempt[e] <= MaxAttempts + faults
      BY <1>0, <1>1, <3>2 DEF KeptInv, Kept, Open
    <3>4. attempt'[e] < MaxAttempts + faults' /\ attempt'[e] <= MaxAttempts + faults'
      BY <1>4, <3>3
    <3> QED BY <1>4, <2>1, <3>1, <3>4 DEF Kept, Live
  <2>2. CASE d # e
    <3>1. UnderWay(d) => UnderWay(d)'
      <4> SUFFICES ASSUME NEW v \in Workers, pc[v] \in Sent, held[v] = streamId[d] PROVE UnderWay(d)'
        BY DEF UnderWay
      <4>1. v # w
        BY <1>7 DEF Scouting, Sent
      <4> QED BY <1>6, <1>7, <2>2, <4>1 DEF UnderWay, Frozen, Same
    <3>2. faults' >= faults /\ Kept(d)
      BY <1>0, Typed DEF KeptInv
    <3> QED BY <1>0, <1>6, <1>9, <1>10, <2>2, <3>1, <3>2, KeptFrame
  <2> QED BY <2>1, <2>2
<1> QED BY <1>8, <1>11, <1>12 DEF OwnInv, KeptInv

\* A member removed from the schedule changes no status: it was a stray one.
LEMMA RemovalIsSilent ==
    ASSUME TimelyInv, NEW e \in Events, RemoveInvalidRecord(e)
    PROVE  /\ UNCHANGED status /\ UNCHANGED attempt /\ UNCHANGED streamId
           /\ UNCHANGED pel /\ UNCHANGED idle /\ UNCHANGED cursor
<1>1. status[e] # "retry_scheduled"
  BY ScheduledIsSound DEF RemoveInvalidRecord
<1>2. status' = [status EXCEPT ![e] = status[e]]
  BY <1>1 DEF RemoveInvalidRecord
<1>3. status' = status
  BY <1>2, Typed DEF TimelyInv
<1> QED BY <1>3 DEF RemoveInvalidRecord, groupVars

\* Every step keeps what a timely worker may rely on.
LEMMA TimelyStep ==
    ASSUME Overlap = FALSE, TimelyInv, IInv', Next
    PROVE  OwnInv' /\ Alone' /\ KeptInv'
<1> DEFINE Goal == OwnInv' /\ Alone' /\ KeptInv'
<1>0. IInv /\ OwnInv
  BY DEF TimelyInv
<1>1. StoreOp
  BY <1>0, StoreSteps DEF IInv
<1>2. ASSUME NEW e \in Events, Accept(e) PROVE Goal
  <2>1. CanEnqueue(e) /\ Enqueue(e, "parsable") /\ UNCHANGED workerVars /\ UNCHANGED faults
    BY <1>2 DEF Accept
  <2> QED BY <1>1, <2>1, EnqueueStep
<1>3. ASSUME NEW e \in Events, ComeDue(e) PROVE Goal
  <2>1. /\ UNCHANGED workerVars /\ UNCHANGED faults /\ UNCHANGED status /\ UNCHANGED attempt
        /\ UNCHANGED streamId /\ UNCHANGED pel /\ UNCHANGED cursor /\ UNCHANGED idle
    BY <1>3 DEF ComeDue, BecomeDue, groupVars, hashVars
  <2>2. idle' \ {-1} \subseteq idle /\ \A v \in Workers : held[v] # -1
    BY <1>0, <2>1, Typed
  <2> QED BY <1>1, <2>1, <2>2, TimeStep
<1>4. ASSUME NEW w \in Workers, Ensure(w) \/ Release(w) PROVE Goal
  <2>1. /\ pc[w] \in Scouting /\ pc[w] \notin Sent /\ held[w] = 0
        /\ Goto(w, "release") \/ Goto(w, "claim")
        /\ UNCHANGED faults
    BY <1>0, <1>4 DEF Ensure, Release, Scouting, Sent, OwnInv, Own
  <2>2. pc'[w] \in Scouting /\ held'[w] = 0 /\ (\A v \in Workers \ {w} : Frozen(v)) /\ faults' >= faults
    BY <1>0, <2>1, Typed DEF Goto, Scouting, Frozen
  <2>3. CASE Ensure(w)
    <3>1. /\ UNCHANGED status /\ UNCHANGED attempt /\ UNCHANGED streamId /\ UNCHANGED pel /\ UNCHANGED idle
          /\ cursor' = cursor \/ (cursor = NoGroup /\ cursor' = 0)
      BY <2>3 DEF Ensure, EnsureConsumerGroup, hashVars
    <3> QED BY <1>1, <2>1, <2>2, <3>1, QuietStep
  <2>4. ASSUME NEW e \in Events, ReleaseDueRetry(e), Release(w) PROVE Goal
    BY <1>1, <2>4, ReleaseStep DEF Release
  <2>5. ASSUME NEW e \in Events, RemoveInvalidRecord(e) PROVE Goal
    BY <1>1, <2>1, <2>2, <2>5, RemovalIsSilent, QuietStep
  <2>6. CASE UNCHANGED storeVars
    <3>1. /\ UNCHANGED status /\ UNCHANGED attempt /\ UNCHANGED streamId /\ UNCHANGED pel /\ UNCHANGED idle
          /\ UNCHANGED cursor
      BY <2>6 DEF storeVars, groupVars, hashVars
    <3> QED BY <1>1, <2>1, <2>2, <3>1, QuietStep
  <2>7. due \subseteq Events
    BY <1>0 DEF IInv, TypeOK, StoreTypeOK
  <2> QED BY <1>4, <2>3, <2>4, <2>5, <2>6, <2>7 DEF Release
<1>5. ASSUME NEW w \in Workers, Claim(w) \/ Read(w) \/ Isolate(w) \/ Start(w) \/ Deliver(w) PROVE Goal
  BY <1>1, <1>5, ClaimStep, ReadStep, IsolateStep, StartStep, DeliverStep
<1>6. ASSUME NEW w \in Workers, MarkDelivered(w) \/ Bury(w) \/ Abandon(w) PROVE Goal
  BY <1>1, <1>6, OutcomeStep, AbandonStep
<1>7. ASSUME NEW w \in Workers, Retry(w) PROVE Goal
  <2>1. pc[w] = "retry" /\ pc[w] \notin Sent /\ UNCHANGED faults /\ faults' >= faults
    BY <1>0, <1>7, Typed DEF Retry, Sent
  <2> QED BY <1>1, <1>7, <2>1, RetryScheduled, RefusedStep DEF Retry
<1>8. ASSUME NEW w \in Workers, Retransmit(w) PROVE Goal
  <2>1. UNCHANGED workerVars /\ faults' = faults + 1 /\ faults' >= faults
    BY <1>0, <1>8, Typed DEF Retransmit
  <2> QED BY <1>1, <1>8, <2>1, StartAgain, RetryScheduled DEF Retransmit
<1>9. ASSUME NEW i \in DOMAIN stream, Age(i) PROVE Goal
  <2>1. /\ UNCHANGED workerVars /\ UNCHANGED faults /\ UNCHANGED status /\ UNCHANGED attempt
        /\ UNCHANGED streamId /\ UNCHANGED pel /\ UNCHANGED cursor /\ idle' = idle \cup {i}
        /\ \A v \in Workers : held[v] # i
    BY <1>9 DEF Age, BecomeIdle, hashVars
  <2>2. idle' \ {i} \subseteq idle
    BY <2>1
  <2> QED BY <1>1, <2>1, <2>2, TimeStep
<1>10. CASE Stray
  <2>1. UNCHANGED workerVars /\ UNCHANGED faults
    BY <1>10 DEF Stray
  <2>2. ASSUME NEW e \in Events, CanEnqueue(e), Enqueue(e, "malformed") PROVE Goal
    BY <1>1, <2>1, <2>2, EnqueueStep
  <2>3. ASSUME (\E x \in Entry : StrayMessage(x)) \/ (\E e \in Events : StrayRetryMember(e)) PROVE Goal
    <3>1. /\ UNCHANGED status /\ UNCHANGED attempt /\ UNCHANGED streamId
          /\ UNCHANGED pel /\ UNCHANGED cursor /\ UNCHANGED idle
      BY <2>3 DEF StrayMessage, StrayRetryMember, groupVars, hashVars
    <3>2. idle' \ {-1} \subseteq idle /\ \A v \in Workers : held[v] # -1
      BY <1>0, <3>1, Typed
    <3> QED BY <1>1, <2>1, <3>1, <3>2, TimeStep
  <2> QED BY <1>10, <2>2, <2>3 DEF Stray
<1> QED BY <1>2, <1>3, <1>4, <1>5, <1>6, <1>7, <1>8, <1>9, <1>10 DEF Next, Step

\* Freshly started workers hold nothing and no event is accepted.
LEMMA TimelyInit == Init => TimelyInv
<1> SUFFICES ASSUME Init PROVE TimelyInv
  OBVIOUS
<1>1. IInv
  BY InvInit
<1>2. OwnInv
  BY DEF Init, OwnInv, Own, Stage, Scouting, Handling, Sent, Attempting
<1>3. Alone
  BY DEF Init, Alone
<1>4. KeptInv
  <2> SUFFICES ASSUME NEW e \in Events PROVE Kept(e)
    BY DEF KeptInv
  <2>1. status[e] = "none" /\ attempt[e] = 0 /\ streamId[e] = 0 /\ faults = 0
    BY DEF Init, StoreInit
  <2>2. streamId[e] \notin Unread /\ status[e] \notin Open
    BY <2>1 DEF Unread, Open
  <2>3. attempt[e] <= MaxAttempts + faults
    BY <1>1, <2>1, Typed
  <2> QED BY <2>1, <2>2, <2>3 DEF Kept
<1> QED BY <1>1, <1>2, <1>3, <1>4 DEF TimelyInv

\* The timely invariant is inductive.
LEMMA TimelyInvStep ==
    ASSUME Overlap = FALSE
    PROVE  TimelyInv /\ [Next]_vars => TimelyInv'
<1> SUFFICES ASSUME TimelyInv, [Next]_vars PROVE TimelyInv'
  OBVIOUS
<1>1. IInv'
  BY InvStep DEF TimelyInv
<1>2. CASE Next
  BY <1>1, <1>2, TimelyStep DEF TimelyInv
<1>3. CASE UNCHANGED vars
  <2>1. UNCHANGED <<stream, cursor, pel, idle, status, attempt, streamId, deadLetter, quarantine, pc, held, tries, faults>>
    BY <1>3 DEF vars, storeVars, groupVars, hashVars, workerVars
  <2>2. OwnInv' /\ Alone'
    BY <2>1 DEF TimelyInv, OwnInv, Own, Stage, Alone
  <2>3. KeptInv'
    BY <2>1 DEF TimelyInv, KeptInv, Kept, UnderWay, FiledIn, Live, Unread
  <2> QED BY <1>1, <2>2, <2>3 DEF TimelyInv
<1> QED BY <1>2, <1>3

(***************************************************************************)
(* The results.                                                            *)
(***************************************************************************)
\* Where no entry becomes idle in a live worker's hands, the inductive
\* invariant holds in every reachable state.
THEOREM TimelyInvariance == Overlap = FALSE => (Spec => []TimelyInv)
<1> SUFFICES ASSUME Overlap = FALSE PROVE Spec => []TimelyInv
  OBVIOUS
<1>1. TimelyInv /\ [Next]_vars => TimelyInv'
  BY TimelyInvStep
<1> QED BY <1>1, TimelyInit, PTL DEF Spec

\* While an event is open its current entry can be read or claimed: no worker
\* acknowledges it but with the event's outcome or its copy.
THEOREM OpenEventsAreLive == Overlap = FALSE => (Spec => []OpenIsLive)
<1> SUFFICES ASSUME Overlap = FALSE PROVE Spec => []OpenIsLive
  OBVIOUS
<1>1. TimelyInv => OpenIsLive
  BY DEF TimelyInv, KeptInv, Kept, OpenIsLive
<1>2. Spec => []TimelyInv
  BY TimelyInvariance
<1> QED BY <1>1, <1>2, PTL

\* No event is attempted more often than the retry policy allows, but for one
\* attempt per abandoned iteration or repeated start (should_dead_letter).
THEOREM AttemptsAreBounded == Overlap = FALSE => (Spec => []AttemptsBounded)
<1> SUFFICES ASSUME Overlap = FALSE PROVE Spec => []AttemptsBounded
  OBVIOUS
<1>1. TimelyInv => AttemptsBounded
  BY DEF TimelyInv, KeptInv, Kept, AttemptsBounded
<1>2. Spec => []TimelyInv
  BY TimelyInvariance
<1> QED BY <1>1, <1>2, PTL

\* An event reported as dead_letter has its entry in the dead-letter or in the
\* quarantine stream: release_due_retry never gives one up unfiled.
THEOREM DeadLettersAreFiled == Overlap = FALSE => (Spec => []DeadLetterIsFiled)
<1> SUFFICES ASSUME Overlap = FALSE PROVE Spec => []DeadLetterIsFiled
  OBVIOUS
<1>1. TimelyInv => DeadLetterIsFiled
  BY DEF TimelyInv, KeptInv, Kept, DeadLetterIsFiled
<1>2. Spec => []TimelyInv
  BY TimelyInvariance
<1> QED BY <1>1, <1>2, PTL

(***************************************************************************)
(* The refinement of EventLifecycle.                                       *)
(***************************************************************************)
\* A fresh Redis shows no event.
LEMMA LifecycleInit == Init => Lifecycle!Init
BY DEF Init, StoreInit, Lifecycle!Init

\* A delivery script writes the status hash of the event it is sent for: a
\* transition of the public life, or a schedule_retry that was sent before.
LEMMA TransitionIsPublic ==
    ASSUME TimelyInv, NEW w \in Workers, Start(w) \/ MarkDelivered(w) \/ Retry(w) \/ Bury(w) \/ Retransmit(w)
    PROVE  [Lifecycle!Next]_(Lifecycle!vars)
<1>0. IInv
  BY DEF TimelyInv
<1>1. pc[w] \in {"start", "complete", "retry", "bury"} /\ pc[w] \in Handling
  BY DEF Start, MarkDelivered, Retry, Bury, Retransmit, Handling
<1>2. CASE UNCHANGED storeVars
  BY <1>2 DEF storeVars, hashVars, Lifecycle!vars
<1>3. CASE ~UNCHANGED storeVars
  <2>1. PICK e \in Events : e = HeldEvent(w)
    BY <1>0, <1>1 DEF IInv, WorkerInv, Placed, Attempting
  <2>2. streamId[e] = held[w]
    BY <1>3, <2>1 DEF Start, MarkDelivered, Retry, Bury, Retransmit, Refused, CanStartDelivery,
                      CanCompleteDelivery, CanScheduleRetry, CanMoveToDeadLetter
  <2>3. Stage(w, e)
    BY <1>1, <2>2, AtCall
  <2>4. CASE pc[w] = "start"
    <3>1. StartDelivery(e)
      BY <1>3, <2>1, <2>4 DEF Start, MarkDelivered, Retry, Bury, Retransmit, Refused
    <3>2. status[e] \in {"queued", "delivering"}
      BY <2>3, <2>4 DEF Stage
    <3>3. Lifecycle!Attempt(e)
      BY <3>1, <3>2 DEF StartDelivery, Lifecycle!Attempt, Lifecycle!Waiting
    <3> QED BY <3>3 DEF Lifecycle!Next
  <2>5. CASE pc[w] = "complete"
    <3>1. CompleteDelivery(e, held[w])
      BY <1>3, <2>1, <2>5 DEF Start, MarkDelivered, Retry, Bury, Retransmit, Refused
    <3>2. status[e] = "delivering"
      BY <2>3, <2>5 DEF Stage, Sent
    <3>3. Lifecycle!Succeed(e)
      BY <3>1, <3>2 DEF CompleteDelivery, Lifecycle!Succeed, Lifecycle!Move
    <3> QED BY <3>3 DEF Lifecycle!Next
  <2>6. CASE pc[w] = "bury"
    <3>1. MoveToDeadLetter(e, held[w])
      BY <1>3, <2>1, <2>6 DEF Start, MarkDelivered, Retry, Bury, Retransmit, Refused
    <3>2. status[e] = "delivering"
      BY <2>3, <2>6 DEF Stage, Sent
    <3>3. Lifecycle!GiveUp(e)
      BY <3>1, <3>2 DEF MoveToDeadLetter, Lifecycle!GiveUp, Lifecycle!Move
    <3> QED BY <3>3 DEF Lifecycle!Next
  <2>7. CASE pc[w] = "retry"
    <3>1. ScheduleRetry(e)
      BY <1>3, <2>1, <2>7 DEF Start, MarkDelivered, Retry, Bury, Retransmit, Refused
    <3>2. status[e] \in {"delivering", "retry_scheduled"}
      BY <2>3, <2>7 DEF Stage
    <3>3. CASE status[e] = "delivering"
      <4>1. Lifecycle!Postpone(e)
        BY <3>1, <3>3 DEF ScheduleRetry, Lifecycle!Postpone, Lifecycle!Move
      <4> QED BY <4>1 DEF Lifecycle!Next
    <3>4. CASE status[e] = "retry_scheduled"
      BY <1>0, <3>1, <3>4, Typed DEF ScheduleRetry, Lifecycle!vars
    <3> QED BY <3>2, <3>3, <3>4
  <2> QED BY <1>1, <2>4, <2>5, <2>6, <2>7
<1> QED BY <1>2, <1>3

\* A quarantine ends the event whose current entry it takes, if it is open.
LEMMA QuarantineIsPublic ==
    ASSUME TimelyInv, NEW w \in Workers, Isolate(w)
    PROVE  [Lifecycle!Next]_(Lifecycle!vars)
<1>0. IInv /\ held[w] \in 1 .. Len(stream)
  BY AtCall DEF TimelyInv, Isolate, Handling
<1>1. CASE UNCHANGED storeVars
  BY <1>1 DEF storeVars, hashVars, Lifecycle!vars
<1>2. CASE QuarantineMessage(held[w])
  <2>1. status' = [e \in Events |-> IF /\ HeldEvent(w) = e
                                       /\ streamId[e] = held[w]
                                       /\ status[e] \in {"queued", "delivering"}
                                    THEN "dead_letter"
                                    ELSE status[e]]
    BY <1>2 DEF QuarantineMessage, HeldEvent
  <2>2. UNCHANGED attempt
    BY <1>2 DEF QuarantineMessage
  <2>3. CASE \E e \in Events : HeldEvent(w) = e /\ streamId[e] = held[w] /\ status[e] \in {"queued", "delivering"}
    <3>1. PICK e \in Events : HeldEvent(w) = e /\ streamId[e] = held[w] /\ status[e] \in {"queued", "delivering"}
      BY <2>3
    <3>2. status' = [status EXCEPT ![e] = "dead_letter"]
      BY <1>0, <2>1, <3>1, Typed
    <3>3. Lifecycle!GiveUp(e)
      BY <2>2, <3>1, <3>2 DEF Lifecycle!GiveUp, Lifecycle!Move
    <3> QED BY <3>3 DEF Lifecycle!Next
  <2>4. CASE ~\E e \in Events : HeldEvent(w) = e /\ streamId[e] = held[w] /\ status[e] \in {"queued", "delivering"}
    <3>1. status' = status
      BY <1>0, <2>1, <2>4, Typed
    <3> QED BY <2>2, <3>1 DEF Lifecycle!vars
  <2> QED BY <2>3, <2>4
<1> QED BY <1>1, <1>2 DEF Isolate, Refused

\* Every step is a step of the public life or changes nothing that is public.
LEMMA LifecycleStep == TimelyInv /\ [Next]_vars => [Lifecycle!Next]_(Lifecycle!vars)
<1> SUFFICES ASSUME TimelyInv, [Next]_vars PROVE [Lifecycle!Next]_(Lifecycle!vars)
  OBVIOUS
<1>0. IInv
  BY DEF TimelyInv
<1>1. CASE UNCHANGED <<status, attempt>>
  BY <1>1 DEF Lifecycle!vars
<1>2. ASSUME NEW e \in Events, NEW f \in {"parsable", "malformed"}, CanEnqueue(e), Enqueue(e, f)
      PROVE  Lifecycle!Next
  <2>1. attempt[e] = 0 /\ status[e] = "none"
    BY <1>0, <1>2 DEF CanEnqueue, IInv, HashInv
  <2>2. UNCHANGED attempt
    BY <1>0, <1>2, <2>1, Typed DEF Enqueue
  <2>3. Lifecycle!Accept(e)
    BY <1>2, <2>1, <2>2 DEF Enqueue, Lifecycle!Accept, Lifecycle!Move
  <2> QED BY <2>3 DEF Lifecycle!Next
<1>3. ASSUME NEW e \in Events, ReleaseDueRetry(e)
      PROVE  Lifecycle!Next
  <2>1. Lifecycle!Requeue(e)
    BY <1>3 DEF ReleaseDueRetry, CanRelease, Lifecycle!Requeue, Lifecycle!Move
  <2> QED BY <2>1 DEF Lifecycle!Next
<1>4. ASSUME NEW w \in Workers, Release(w)
      PROVE  [Lifecycle!Next]_(Lifecycle!vars)
  <2>1. due \subseteq Events
    BY <1>0 DEF IInv, TypeOK, StoreTypeOK
  <2>2. ASSUME NEW e \in Events, RemoveInvalidRecord(e) PROVE UNCHANGED <<status, attempt>>
    BY <2>2, RemovalIsSilent
  <2>3. CASE UNCHANGED storeVars
    BY <1>1, <2>3 DEF storeVars, hashVars
  <2> QED BY <1>1, <1>3, <1>4, <2>1, <2>2, <2>3 DEF Release
<1>5. ASSUME NEW w \in Workers, Step(w) \/ Abandon(w) \/ Retransmit(w)
      PROVE  [Lifecycle!Next]_(Lifecycle!vars)
  <2>1. CASE Ensure(w) \/ Claim(w) \/ Read(w) \/ Deliver(w) \/ Abandon(w)
    <3>1. UNCHANGED <<status, attempt>>
      BY <2>1 DEF Ensure, EnsureConsumerGroup, Claim, ClaimStalePending, Read, ReadNext, Deliver, Abandon,
                  storeVars, hashVars
    <3> QED BY <1>1, <3>1
  <2> QED BY <1>4, <1>5, <2>1, TransitionIsPublic, QuarantineIsPublic DEF Step
<1>6. ASSUME (\E e \in Events : Accept(e) \/ ComeDue(e)) \/ (\E i \in DOMAIN stream : Age(i)) \/ Stray
      PROVE  [Lifecycle!Next]_(Lifecycle!vars)
  <2>1. ASSUME NEW e \in Events, Accept(e) PROVE Lifecycle!Next
    BY <1>2, <2>1 DEF Accept
  <2>2. ASSUME NEW e \in Events, CanEnqueue(e), Enqueue(e, "malformed") PROVE Lifecycle!Next
    BY <1>2, <2>2
  <2>3. ASSUME NEW e \in Events, ComeDue(e) \/ StrayRetryMember(e) PROVE UNCHANGED <<status, attempt>>
    BY <2>3 DEF ComeDue, BecomeDue, StrayRetryMember, hashVars
  <2>4. ASSUME NEW i \in DOMAIN stream, Age(i) PROVE UNCHANGED <<status, attempt>>
    BY <2>4 DEF Age, BecomeIdle, hashVars
  <2>5. ASSUME NEW x \in Entry, StrayMessage(x) PROVE UNCHANGED <<status, attempt>>
    BY <2>5 DEF StrayMessage, hashVars
  <2> QED BY <1>1, <1>6, <2>1, <2>2, <2>3, <2>4, <2>5 DEF Stray
<1>7. CASE UNCHANGED vars
  BY <1>1, <1>7 DEF vars, storeVars, hashVars
<1> QED BY <1>5, <1>6, <1>7 DEF Next

\* What a client reads of an event in Redis is a public life of an event,
\* although mark_delivery_started, mark_delivered and schedule_retry do not
\* ask which status they replace.
THEOREM HashesLiveTheLifecycle == Overlap = FALSE => (Spec => ImplementsLifecycle)
<1> SUFFICES ASSUME Overlap = FALSE PROVE Spec => ImplementsLifecycle
  OBVIOUS
<1>1. Spec => []TimelyInv
  BY TimelyInvariance
<1> QED BY <1>1, LifecycleInit, LifecycleStep, PTL DEF Spec, ImplementsLifecycle, Lifecycle!Spec
=============================================================================
