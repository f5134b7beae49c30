-------------------------- MODULE CloudflareProofs --------------------------
(***************************************************************************)
(* Proofs about CloudflareDelivery, for every set of events, messages,     *)
(* repair runs and consumers, every maximum of attempts and retries and    *)
(* any number of faults, with leases that may run out at any time.         *)
(***************************************************************************)
EXTENDS CloudflareDelivery, TLAPS

(***************************************************************************)
(* The inductive invariant.                                                *)
(***************************************************************************)
\* A message in the hands of a consumer is in no other's.
JobInv ==
    /\ \A m \in Messages : place[m] # "unsent" => ref[m] \in Events
    /\ \A c \in Consumers : cpc[c] # "idle" => job[c] \in Messages /\ place[job[c]] = "taken"
    /\ \A c, d \in Consumers :
         cpc[c] # "idle" /\ cpc[d] # "idle" /\ job[c] = job[d] => c = d

\* An event, its outbox row and the request that creates it begin together.
RowInv ==
    \A e \in Events :
        /\ apc[e] = "new" => status[e] = "none" /\ outbox[e] = "none" /\ attempt[e] = 0
        /\ outbox[e] = "none" => status[e] = "none"

\* An event that needs no outbox row any more.
Covered(e) ==
    \/ status[e] \in Terminal
    \/ \E m \in Messages : RefersTo(m, e, {"queue", "taken", "dlq"})

\* Nobody marks an outbox row as sent before there is a message for it.
CoverInv ==
    /\ \A e \in Events : outbox[e] = "sent" \/ apc[e] = "mark" => Covered(e)
    /\ \A r \in Repairers : rpc[r] # "idle" => todo[r] # {}
    /\ \A r \in Repairers : rpc[r] = "mark" => Covered(AtHand(r))

\* A consumer about to acknowledge has seen its event finished.
AckInv ==
    /\ AckedIsTerminal
    /\ \A c \in Consumers : cpc[c] = "ack" => status[JobEvent(c)] \in Terminal

\* A consumer whose token is on the row counts the attempt the row counts.
BudgetInv ==
    /\ AttemptsBounded
    /\ WaitingHasBudget
    /\ \A c \in Consumers :
         /\ cpc[c] \in Owning /\ Owns(c, JobEvent(c)) => attempt[JobEvent(c)] = mine[c]
         /\ cpc[c] = "retry" => mine[c] < MaxAttempts

\* Nobody claims a row that was left over.
LeftInv ==
    /\ ExhaustedIsNotDelivered
    /\ \A e \in LeftOver : attempt[e] = MaxAttempts
    /\ \A c \in Consumers : cpc[c] \in Owning => JobEvent(c) \notin LeftOver

IInv == TypeOK /\ JobInv /\ RowInv /\ CoverInv /\ AckInv /\ BudgetInv /\ LeftInv

(***************************************************************************)
(* What a step does to the rows: nothing a reader sees, the acceptance, a  *)
(* claim, the end of an exhausted event, or the report of an outcome.      *)
(***************************************************************************)
ledger == <<status, attempt, token>>

AcceptsRow(e) ==
    /\ apc[e] = "new"
    /\ apc' = [apc EXCEPT ![e] = "send"]
    /\ status' = [status EXCEPT ![e] = "queued"]
    /\ outbox' = [outbox EXCEPT ![e] = "pending"]
    /\ UNCHANGED <<attempt, token, ref, place, repairVars, consumerVars, sinkVars>>

ClaimsRow(c) ==
    LET e == JobEvent(c) IN
    /\ cpc[c] = "start"
    /\ CanClaim(e)
    /\ status' = [status EXCEPT ![e] = "delivering"]
    /\ attempt' = [attempt EXCEPT ![e] = NextAttempt(e)]
    /\ token' = [token EXCEPT ![e] = c]
    /\ mine' = [mine EXCEPT ![c] = NextAttempt(e)]
    /\ cpc' = [cpc EXCEPT ![c] = "deliver"]
    /\ UNCHANGED <<job, ref, place, apc, outbox, repairVars, sinkVars>>

ExhaustsRow(c) ==
    LET e == JobEvent(c) IN
    /\ cpc[c] = "exhaust"
    /\ status[e] \in Waiting /\ attempt[e] >= MaxAttempts
    /\ status' = [status EXCEPT ![e] = "dead_letter"]
    /\ Goto(c, "ack")
    /\ UNCHANGED <<attempt, token, ref, place, apc, outbox, repairVars, sinkVars>>

\* The calls that report an outcome, the status they write and what follows.
Reports == { <<"complete", "delivered", "ack">>, <<"retry", "retry_scheduled", "again">>,
             <<"bury", "dead_letter", "ack">> }

EndsRow(c, p) ==
    LET e == JobEvent(c) IN
    /\ cpc[c] = p[1]
    /\ Owns(c, e)
    /\ status' = [status EXCEPT ![e] = p[2]]
    /\ token' = [token EXCEPT ![e] = NoToken]
    /\ Goto(c, p[3])
    /\ UNCHANGED <<attempt, ref, place, apc, outbox, repairVars, sinkVars>>

RowOp ==
    \/ UNCHANGED ledger
    \/ \E e \in Events : AcceptsRow(e)
    \/ \E c \in Consumers : ClaimsRow(c) \/ ExhaustsRow(c) \/ \E p \in Reports : EndsRow(c, p)

RequestStepAny(e) == RequestStep(e) \/ AcceptSendFails(e)
RepairStepAny(r) == RepairStep(r) \/ RepairSendFails(r) \/ RepairSkip(r) \/ RepairDies(r)
ConsumerStepAny(c) == ConsumerStep(c) \/ Fail(c)

\* The cases of a step.
LEMMA Cases ==
    ASSUME NEW G,
           ASSUME NEW e \in Events, RequestStepAny(e) PROVE G,
           ASSUME NEW e \in Events, ExpireClaim(e) \/ ExpireDelivery(e) PROVE G,
           ASSUME NEW r \in Repairers, RepairStepAny(r) PROVE G,
           ASSUME NEW c \in Consumers, ConsumerStepAny(c) PROVE G,
           UNCHANGED vars => G,
           [Next]_vars
    PROVE  G
BY DEF Next, RequestStepAny, RepairStepAny, ConsumerStepAny

\* Every step is one of the RowOp.
LEMMA RowSteps ==
    ASSUME [Next]_vars
    PROVE  RowOp
<1>1. ASSUME NEW e \in Events, RequestStepAny(e) PROVE RowOp
  <2>1. CASE Accept(e)
    <3>1. AcceptsRow(e)
      BY <2>1 DEF Accept, AcceptsRow, queueVars
    <3> QED BY <3>1 DEF RowOp
  <2>2. CASE AcceptSend(e) \/ AcceptMark(e) \/ AcceptSendFails(e)
    BY <2>2 DEF AcceptSend, AcceptMark, AcceptSendFails, rowVars, ledger, RowOp
  <2> QED BY <1>1, <2>1, <2>2 DEF RequestStepAny, RequestStep
<1>2. ASSUME NEW e \in Events, ExpireClaim(e) \/ ExpireDelivery(e) PROVE RowOp
  BY <1>2 DEF ExpireClaim, ExpireDelivery, rowVars, ledger, RowOp
<1>3. ASSUME NEW r \in Repairers, RepairStepAny(r) PROVE RowOp
  BY <1>3 DEF RepairStepAny, RepairStep, RepairClaim, RepairSend, RepairMark, RepairRelease,
              RepairSendFails, RepairSkip, RepairDies, rowVars, ledger, RowOp
<1>4. ASSUME NEW c \in Consumers, ConsumerStepAny(c) PROVE RowOp
  <2>1. CASE Start(c)
    <3>1. ClaimsRow(c) \/ UNCHANGED ledger
      BY <2>1 DEF Start, ClaimsRow, rowVars, ledger, queueVars, outboxVars
    <3> QED BY <3>1 DEF RowOp
  <2>2. CASE Exhaust(c)
    <3>1. ExhaustsRow(c) \/ UNCHANGED ledger
      BY <2>2 DEF Exhaust, ExhaustsRow, ledger, queueVars, outboxVars
    <3> QED BY <3>1 DEF RowOp
  <2>3. ASSUME NEW from, NEW new, NEW label, <<from, new, label>> \in Reports,
               UpdateTerminal(c, from, new, label)
        PROVE  RowOp
    <3>1. EndsRow(c, <<from, new, label>>) \/ UNCHANGED ledger
      BY <2>3 DEF UpdateTerminal, EndsRow, ledger, queueVars, outboxVars
    <3> QED BY <2>3, <3>1 DEF RowOp
  <2>4. CASE MarkDelivered(c) \/ MarkRetry(c) \/ MarkDeadLetter(c)
    BY <2>3, <2>4 DEF MarkDelivered, MarkRetry, MarkDeadLetter, Reports
  <2>5. CASE \/ \E m \in Messages : Take(c, m)
             \/ Look(c) \/ Reread(c) \/ Deliver(c) \/ Ack(c) \/ Again(c) \/ Fail(c)
    BY <2>5 DEF Take, Look, Reread, Deliver, Ack, Again, Fail, rowVars, ledger, RowOp
  <2> QED BY <1>4, <2>1, <2>2, <2>4, <2>5 DEF ConsumerStepAny, ConsumerStep
<1>5. UNCHANGED vars => RowOp
  BY DEF vars, rowVars, ledger, RowOp
<1> QED BY <1>1, <1>2, <1>3, <1>4, <1>5, Cases

(***************************************************************************)
(* What a step does to the messages and who holds them.                    *)
(***************************************************************************)
SendsOne ==
    /\ \E e \in Events : Send(e)
    /\ UNCHANGED consumerVars

TakesOne(c, m) ==
    /\ cpc[c] = "idle" /\ place[m] = "queue"
    /\ place' = [place EXCEPT ![m] = "taken"]
    /\ cpc' = [cpc EXCEPT ![c] = "start"]
    /\ job' = [job EXCEPT ![c] = m]
    /\ UNCHANGED <<ref, mine>>

KeepsIt(c) ==
    /\ cpc[c] # "idle"
    /\ \E label : label # "idle" /\ cpc' = [cpc EXCEPT ![c] = label]
    /\ UNCHANGED <<ref, place, job>>

DropsIt(c) ==
    /\ cpc[c] # "idle"
    /\ Leave(c)
    /\ \/ place' = [place EXCEPT ![job[c]] = "queue"]
       \/ place' = [place EXCEPT ![job[c]] = "dlq"]
       \/ cpc[c] = "ack" /\ place' = [place EXCEPT ![job[c]] = "acked"]
    /\ UNCHANGED ref

QueueOp ==
    \/ UNCHANGED <<ref, place, consumerVars>>
    \/ SendsOne
    \/ \E c \in Consumers, m \in Messages : TakesOne(c, m)
    \/ \E c \in Consumers : KeepsIt(c) \/ DropsIt(c)

\* The row a repair run has at hand is one it claimed.
LEMMA AtHandFact ==
    ASSUME TypeOK, CoverInv, NEW r \in Repairers, rpc[r] # "idle"
    PROVE  AtHand(r) \in todo[r] /\ AtHand(r) \in Events
BY DEF TypeOK, CoverInv, AtHand

\* Every step is one of the QueueOp.
LEMMA QueueSteps ==
    ASSUME TypeOK, CoverInv, [Next]_vars
    PROVE  QueueOp
<1> USE DEF consumerVars
<1>1. ASSUME NEW e \in Events, RequestStepAny(e) PROVE QueueOp
  <2>1. UNCHANGED consumerVars /\ (Send(e) \/ UNCHANGED <<ref, place>>)
    BY <1>1 DEF RequestStepAny, RequestStep, Accept, AcceptSend, AcceptMark, AcceptSendFails, queueVars
  <2> QED BY <2>1 DEF QueueOp, SendsOne
<1>2. ASSUME NEW e \in Events, ExpireClaim(e) \/ ExpireDelivery(e) PROVE QueueOp
  BY <1>2 DEF ExpireClaim, ExpireDelivery, queueVars, QueueOp
<1>3. ASSUME NEW r \in Repairers, RepairStepAny(r) PROVE QueueOp
  <2>1. CASE RepairSend(r) \/ RepairSendFails(r)
    <3>1. UNCHANGED consumerVars /\ rpc[r] = "send" /\ (Send(AtHand(r)) \/ UNCHANGED <<ref, place>>)
      BY <2>1 DEF RepairSend, RepairSendFails, queueVars
    <3>2. AtHand(r) \in Events
      BY <3>1, AtHandFact
    <3> QED BY <3>1, <3>2 DEF QueueOp, SendsOne
  <2>2. CASE RepairClaim(r) \/ RepairMark(r) \/ RepairRelease(r) \/ RepairSkip(r) \/ RepairDies(r)
    BY <2>2 DEF RepairClaim, RepairMark, RepairRelease, RepairSkip, RepairDies, queueVars, QueueOp
  <2> QED BY <1>3, <2>1, <2>2 DEF RepairStepAny, RepairStep
<1>4. ASSUME NEW c \in Consumers, ConsumerStepAny(c) PROVE QueueOp
  <2>1. ASSUME NEW m \in Messages, Take(c, m) PROVE QueueOp
    BY <2>1 DEF Take, QueueOp, TakesOne
  <2>2. CASE Start(c) \/ Look(c) \/ Exhaust(c) \/ Reread(c)
    <3>1. KeepsIt(c)
      BY <2>2 DEF Start, Look, Exhaust, Reread, KeepsIt, Goto, queueVars
    <3> QED BY <3>1 DEF QueueOp
  <2>3. CASE Deliver(c)
    <3>1. KeepsIt(c)
      BY <2>3 DEF Deliver, AfterFailure, KeepsIt, Goto, queueVars
    <3> QED BY <3>1 DEF QueueOp
  <2>4. CASE MarkDelivered(c) \/ MarkRetry(c) \/ MarkDeadLetter(c)
    <3>1. KeepsIt(c)
      BY <2>4 DEF MarkDelivered, MarkRetry, MarkDeadLetter, UpdateTerminal, KeepsIt, Goto, queueVars
    <3> QED BY <3>1 DEF QueueOp
  <2>5. CASE Ack(c) \/ Again(c) \/ Fail(c)
    <3>1. DropsIt(c)
      BY <2>5 DEF Ack, Again, Fail, DropsIt, HandBack
    <3> QED BY <3>1 DEF QueueOp
  <2> QED BY <1>4, <2>1, <2>2, <2>3, <2>4, <2>5 DEF ConsumerStepAny, ConsumerStep
<1>5. UNCHANGED vars => QueueOp
  BY DEF vars, queueVars, QueueOp
<1> QED BY <1>1, <1>2, <1>3, <1>4, <1>5, Cases

(***************************************************************************)
(* Types.                                                                  *)
(***************************************************************************)
LEMMA TypeStep ==
    ASSUME TypeOK, JobInv, CoverInv, [Next]_vars
    PROVE  TypeOK'
<1> USE DEF TypeOK, Open, Terminal, Waiting
<1>0. \A c \in Consumers : cpc[c] # "idle" => job[c] \in Messages /\ JobEvent(c) \in Events
  BY DEF JobInv, JobEvent
<1>1. ASSUME NEW e \in Events, RequestStepAny(e) PROVE TypeOK'
  <2> USE DEF queueVars, rowVars, outboxVars, repairVars, consumerVars, sinkVars
  <2>1. CASE Accept(e)
    BY <2>1 DEF Accept
  <2>2. CASE AcceptSend(e)
    BY <2>2 DEF AcceptSend, Send, Unsent
  <2>3. CASE AcceptSendFails(e)
    BY <2>3, LimitAssumption DEF AcceptSendFails, Send, Unsent, Fault
  <2>4. CASE AcceptMark(e)
    BY <2>4 DEF AcceptMark, MarkDispatched
  <2> QED BY <1>1, <2>1, <2>2, <2>3, <2>4 DEF RequestStepAny, RequestStep
<1>2. ASSUME NEW e \in Events, ExpireClaim(e) \/ ExpireDelivery(e) PROVE TypeOK'
  BY <1>2 DEF ExpireClaim, ExpireDelivery, queueVars, rowVars, outboxVars, repairVars, consumerVars,
              sinkVars
<1>3. ASSUME NEW r \in Repairers, RepairStepAny(r) PROVE TypeOK'
  <2> USE DEF queueVars, rowVars, outboxVars, repairVars, consumerVars, sinkVars
  <2>0. rpc[r] # "idle" => AtHand(r) \in Events
    BY AtHandFact
  <2>1. CASE RepairClaim(r)
    BY <2>1 DEF RepairClaim, ClaimableOutbox
  <2>2. CASE RepairSend(r)
    BY <2>0, <2>2 DEF RepairSend, Send, Unsent
  <2>3. CASE RepairSendFails(r)
    BY <2>0, <2>3, LimitAssumption DEF RepairSendFails, Send, Unsent, Fault
  <2>4. CASE RepairMark(r)
    BY <2>4 DEF RepairMark, MarkDispatched, NextRow
  <2>5. CASE RepairRelease(r)
    BY <2>5 DEF RepairRelease, NextRow
  <2>6. CASE RepairSkip(r) \/ RepairDies(r)
    BY <2>6, LimitAssumption DEF RepairSkip, RepairDies, NextRow, Fault
  <2> QED BY <1>3, <2>1, <2>2, <2>3, <2>4, <2>5, <2>6 DEF RepairStepAny, RepairStep
<1>4. ASSUME NEW c \in Consumers, ConsumerStepAny(c) PROVE TypeOK'
  <2> USE DEF queueVars, rowVars, outboxVars, repairVars, consumerVars, sinkVars
  <2>1. ASSUME NEW m \in Messages, Take(c, m) PROVE TypeOK'
    BY <2>1 DEF Take
  <2>2. CASE Start(c)
    <3>1. JobEvent(c) \in Events
      BY <1>0, <2>2 DEF Start
    <3>2. NextAttempt(JobEvent(c)) \in Nat
      BY <3>1 DEF NextAttempt
    <3> QED BY <2>2, <3>1, <3>2 DEF Start, Goto
  <2>3. CASE Look(c) \/ Reread(c)
    BY <2>3 DEF Look, Reread, Goto
  <2>4. CASE Exhaust(c)
    BY <1>0, <2>4 DEF Exhaust, Goto
  <2>5. CASE Deliver(c)
    BY <1>0, <2>5 DEF Deliver, Goto, AfterFailure
  <2>6. CASE MarkDelivered(c) \/ MarkRetry(c) \/ MarkDeadLetter(c)
    BY <1>0, <2>6 DEF MarkDelivered, MarkRetry, MarkDeadLetter, UpdateTerminal, Goto
  <2>7. CASE Ack(c)
    BY <2>7 DEF Ack, Leave
  <2>8. CASE Again(c)
    BY <1>0, <2>8, LimitAssumption DEF Again, HandBack, Leave
  <2>9. CASE Fail(c)
    BY <1>0, <2>9, LimitAssumption DEF Fail, HandBack, Leave, Fault
  <2> QED
    BY <1>4, <2>1, <2>2, <2>3, <2>4, <2>5, <2>6, <2>7, <2>8, <2>9 DEF ConsumerStepAny, ConsumerStep
<1>5. UNCHANGED vars => TypeOK'
  BY DEF vars, queueVars, rowVars, outboxVars, repairVars, consumerVars, sinkVars
<1> QED BY <1>1, <1>2, <1>3, <1>4, <1>5, Cases

(***************************************************************************)
(* Messages: each has one event for ever, and one holder at most.          *)
(***************************************************************************)
LEMMA JobStep ==
    ASSUME TypeOK, JobInv, QueueOp
    PROVE  JobInv'
<1> USE DEF TypeOK, JobInv
<1>1. CASE UNCHANGED <<ref, place, consumerVars>>
  BY <1>1 DEF consumerVars
<1>2. CASE SendsOne
  BY <1>2 DEF SendsOne, Send, Unsent, consumerVars
<1>3. ASSUME NEW c \in Consumers, NEW m \in Messages, TakesOne(c, m) PROVE JobInv'
  BY <1>3 DEF TakesOne
<1>4. ASSUME NEW c \in Consumers, KeepsIt(c) PROVE JobInv'
  BY <1>4 DEF KeepsIt
<1>5. ASSUME NEW c \in Consumers, DropsIt(c) PROVE JobInv'
  BY <1>5 DEF DropsIt, Leave
<1> QED BY <1>1, <1>2, <1>3, <1>4, <1>5 DEF QueueOp

\* The event of a message that was sent, and so of a job, never changes.
LEMMA RefStable ==
    ASSUME TypeOK, JobInv, QueueOp
    PROVE  /\ \A m \in Messages : place[m] # "unsent" => ref'[m] = ref[m] /\ place'[m] # "unsent"
           /\ \A c \in Consumers : cpc[c] # "idle" /\ cpc'[c] # "idle" => ref'[job'[c]] = ref[job[c]]
<1> USE DEF TypeOK, JobInv
<1>1. CASE UNCHANGED <<ref, place, consumerVars>>
  BY <1>1 DEF consumerVars
<1>2. CASE SendsOne
  BY <1>2 DEF SendsOne, Send, Unsent, consumerVars
<1>3. ASSUME NEW c \in Consumers, NEW m \in Messages, TakesOne(c, m)
      PROVE  /\ \A n \in Messages : place[n] # "unsent" => ref'[n] = ref[n] /\ place'[n] # "unsent"
             /\ \A d \in Consumers : cpc[d] # "idle" /\ cpc'[d] # "idle" => ref'[job'[d]] = ref[job[d]]
  BY <1>3 DEF TakesOne
<1>4. ASSUME NEW c \in Consumers, KeepsIt(c) \/ DropsIt(c)
      PROVE  /\ \A n \in Messages : place[n] # "unsent" => ref'[n] = ref[n] /\ place'[n] # "unsent"
             /\ \A d \in Consumers : cpc[d] # "idle" /\ cpc'[d] # "idle" => ref'[job'[d]] = ref[job[d]]
  BY <1>4 DEF KeepsIt, DropsIt, Leave
<1> QED BY <1>1, <1>2, <1>3, <1>4 DEF QueueOp

(***************************************************************************)
(* Rows: a finished event stays finished, and a message for an open event  *)
(* is not acknowledged.                                                    *)
(***************************************************************************)
LEMMA TerminalStable ==
    ASSUME TypeOK, JobInv, RowInv, RowOp
    PROVE  \A e \in Events : status[e] \in Terminal => status'[e] \in Terminal
<1> USE DEF TypeOK, Terminal, Waiting
<1>1. CASE UNCHANGED ledger
  BY <1>1 DEF ledger
<1>2. ASSUME NEW e \in Events, AcceptsRow(e)
      PROVE  \A f \in Events : status[f] \in Terminal => status'[f] \in Terminal
  BY <1>2 DEF AcceptsRow, RowInv
<1>3. ASSUME NEW c \in Consumers, ClaimsRow(c) \/ ExhaustsRow(c)
      PROVE  \A f \in Events : status[f] \in Terminal => status'[f] \in Terminal
  BY <1>3 DEF ClaimsRow, ExhaustsRow, CanClaim
<1>4. ASSUME NEW c \in Consumers, NEW p \in Reports, EndsRow(c, p)
      PROVE  \A f \in Events : status[f] \in Terminal => status'[f] \in Terminal
  BY <1>4 DEF EndsRow, Owns
<1> QED BY <1>1, <1>2, <1>3, <1>4 DEF RowOp

\* Once there is a message for an event, or its end, there always is.
LEMMA CoveredStable ==
    ASSUME TypeOK, JobInv, RowInv, AckInv, RowOp, QueueOp
    PROVE  \A e \in Events : Covered(e) => Covered(e)'
<1> USE DEF TypeOK
<1> SUFFICES ASSUME NEW e \in Events, Covered(e) PROVE Covered(e)'
  OBVIOUS
<1>0. status[e] \in Terminal => status'[e] \in Terminal
  BY TerminalStable
<1>1. ASSUME NEW m \in Messages, ref[m] = e, place[m] \in {"queue", "taken", "dlq"}
      PROVE  Covered(e)'
  <2>1. ref'[m] = e
    BY <1>1, RefStable
  <2>2. CASE place'[m] \in {"queue", "taken", "dlq"}
    BY <2>1, <2>2 DEF Covered, RefersTo
  <2>3. CASE place'[m] \notin {"queue", "taken", "dlq"}
    <3>1. PICK c \in Consumers : cpc[c] = "ack" /\ job[c] = m
      <4>1. ~(UNCHANGED <<ref, place, consumerVars>>)
        BY <1>1, <2>3
      <4>2. ~SendsOne
        BY <1>1, <2>3 DEF SendsOne, Send, Unsent
      <4>3. \A c \in Consumers, n \in Messages : ~TakesOne(c, n)
        BY <1>1, <2>3 DEF TakesOne
      <4>4. \A c \in Consumers : ~KeepsIt(c)
        BY <1>1, <2>3 DEF KeepsIt
      <4>5. PICK c \in Consumers : DropsIt(c)
        BY <4>1, <4>2, <4>3, <4>4 DEF QueueOp
      <4>6. cpc[c] = "ack" /\ job[c] = m
        BY <1>1, <2>3, <4>5 DEF DropsIt
      <4> QED BY <4>6
    <3>2. status[e] \in Terminal
      BY <1>1, <3>1 DEF AckInv, JobEvent
    <3> QED BY <1>0, <3>2 DEF Covered
  <2> QED BY <2>2, <2>3
<1> QED BY <1>0, <1>1 DEF Covered, RefersTo

(***************************************************************************)
(* What a step does to the outbox, the requests and the repair runs.       *)
(***************************************************************************)
\* A message that is sent covers its event.
LEMMA SendCovers ==
    ASSUME TypeOK, NEW e \in Events, Send(e)
    PROVE  Covered(e)'
<1>1. PICK m \in Messages : ref' = [ref EXCEPT ![m] = e] /\ place' = [place EXCEPT ![m] = "queue"]
  BY DEF Send, Unsent
<1>2. ref'[m] = e /\ place'[m] = "queue"
  BY <1>1 DEF TypeOK
<1> QED BY <1>2 DEF Covered, RefersTo

OutboxFacts ==
    \A e \in Events :
        /\ outbox'[e] = "none" => outbox[e] = "none"
        /\ outbox'[e] = "sent" => outbox[e] = "sent" \/ Covered(e)

RequestFacts ==
    \A e \in Events :
        /\ apc'[e] = "new" => apc[e] = "new" /\ outbox'[e] = outbox[e]
        /\ apc'[e] = "mark" => apc[e] = "mark" \/ Covered(e)'
        /\ apc'[e] = "past" <=> apc[e] = "past"

RepairFacts ==
    \A r \in Repairers :
        /\ rpc'[r] # "idle" => todo'[r] # {}
        /\ rpc'[r] = "mark" => (rpc[r] = "mark" /\ todo'[r] = todo[r]) \/ Covered(AtHand(r))'

Bookkeeping == OutboxFacts /\ RequestFacts /\ RepairFacts

\* Outbox rows are marked only by the request or the run that has sent.
LEMMA BookkeepingSteps ==
    ASSUME TypeOK, JobInv, RowInv, CoverInv, [Next]_vars
    PROVE  Bookkeeping
<1> USE DEF Bookkeeping, OutboxFacts, RequestFacts, RepairFacts
<1>0. \A r \in Repairers : rpc[r] # "idle" => todo[r] # {}
  BY DEF CoverInv
<1>1. ASSUME UNCHANGED <<outbox, apc, repairVars>> PROVE Bookkeeping
  BY <1>0, <1>1 DEF repairVars
<1>2. ASSUME NEW e \in Events, RequestStepAny(e) PROVE Bookkeeping
  <2>0. UNCHANGED <<rpc, todo>>
    BY <1>2 DEF RequestStepAny, RequestStep, Accept, AcceptSend, AcceptMark, AcceptSendFails, repairVars
  <2>1. RepairFacts
    BY <1>0, <2>0
  <2>2. CASE Accept(e)
    <3>1. OutboxFacts /\ RequestFacts
      BY <2>2 DEF Accept, TypeOK
    <3> QED BY <2>1, <3>1
  <2>3. CASE AcceptSend(e)
    <3>1. Covered(e)' /\ apc[e] = "send" /\ apc' = [apc EXCEPT ![e] = "mark"] /\ UNCHANGED outbox
      BY <2>3, SendCovers DEF AcceptSend, outboxVars
    <3>2. OutboxFacts /\ RequestFacts
      BY <3>1 DEF TypeOK
    <3> QED BY <2>1, <3>2
  <2>4. CASE AcceptSendFails(e)
    <3>1. OutboxFacts /\ RequestFacts
      BY <2>4 DEF AcceptSendFails, TypeOK, outboxVars
    <3> QED BY <2>1, <3>1
  <2>5. CASE AcceptMark(e)
    <3>1. apc[e] = "mark" /\ apc' = [apc EXCEPT ![e] = "done"] /\ Covered(e)
          /\ (outbox' = outbox \/ (outbox[e] = "pending" /\ outbox' = [outbox EXCEPT ![e] = "sent"]))
      BY <2>5 DEF AcceptMark, MarkDispatched, CoverInv, outboxVars
    <3>2. OutboxFacts
      BY <3>1 DEF TypeOK
    <3>3. RequestFacts
      BY <3>1 DEF TypeOK
    <3> QED BY <2>1, <3>2, <3>3
  <2> QED BY <1>2, <2>2, <2>3, <2>4, <2>5 DEF RequestStepAny, RequestStep
<1>3. ASSUME NEW r \in Repairers, RepairStepAny(r) PROVE Bookkeeping
  <2>0. UNCHANGED apc
    BY <1>3 DEF RepairStepAny, RepairStep, RepairClaim, RepairSend, RepairMark, RepairRelease,
                RepairSendFails, RepairSkip, RepairDies
  <2>1. CASE RepairClaim(r)
    <3>1. PICK batch : batch # {} /\ todo' = [todo EXCEPT ![r] = batch]
      BY <2>1 DEF RepairClaim
    <3>2. UNCHANGED outbox /\ rpc' = [rpc EXCEPT ![r] = "send"]
      BY <2>1 DEF RepairClaim
    <3>3. RepairFacts
      BY <1>0, <3>1, <3>2 DEF TypeOK
    <3> QED BY <2>0, <3>2, <3>3
  <2>2. CASE RepairSend(r)
    <3>1. /\ rpc[r] = "send" /\ rpc' = [rpc EXCEPT ![r] = "mark"]
          /\ UNCHANGED <<outbox, todo>> /\ Send(AtHand(r))
      BY <2>2 DEF RepairSend, outboxVars
    <3>4. AtHand(r)' = AtHand(r)
      BY <3>1 DEF AtHand
    <3>5. Covered(AtHand(r))'
      <4>1. PICK m \in Messages : /\ ref' = [ref EXCEPT ![m] = AtHand(r)]
                                  /\ place' = [place EXCEPT ![m] = "queue"]
        BY <3>1 DEF Send, Unsent
      <4>2. ref'[m] = AtHand(r) /\ place'[m] = "queue"
        BY <4>1 DEF TypeOK
      <4> QED BY <3>4, <4>2 DEF Covered, RefersTo
    <3>6. RepairFacts
      BY <1>0, <3>1, <3>5 DEF TypeOK
    <3> QED BY <2>0, <3>1, <3>6
  <2>3. CASE RepairSendFails(r)
    <3>1. rpc' = [rpc EXCEPT ![r] = "release"] /\ UNCHANGED <<outbox, todo>> /\ rpc[r] = "send"
      BY <2>3 DEF RepairSendFails, outboxVars
    <3>2. RepairFacts
      BY <1>0, <3>1 DEF TypeOK
    <3> QED BY <2>0, <3>1, <3>2
  <2>4. ASSUME NextRow(r), rpc[r] # "idle" PROVE RepairFacts
    <3>1. /\ todo' = [todo EXCEPT ![r] = @ \ {AtHand(r)}]
          /\ rpc' = [rpc EXCEPT ![r] = IF todo[r] = {AtHand(r)} THEN "idle" ELSE "send"]
      BY <2>4 DEF NextRow
    <3>2. AtHand(r) \in todo[r]
      BY <2>4, AtHandFact
    <3>3. rpc'[r] # "idle" => todo'[r] # {}
      BY <3>1, <3>2 DEF TypeOK
    <3>4. rpc'[r] # "mark"
      BY <3>1 DEF TypeOK
    <3>5. \A q \in Repairers : q # r => rpc'[q] = rpc[q] /\ todo'[q] = todo[q]
      BY <3>1 DEF TypeOK
    <3> QED BY <1>0, <3>3, <3>4, <3>5
  <2>5. CASE RepairMark(r)
    <3>1. RepairFacts
      BY <2>4, <2>5 DEF RepairMark
    <3>2. AtHand(r) \in Events /\ Covered(AtHand(r))
      BY <2>5, AtHandFact DEF RepairMark, CoverInv
    <3>3. outbox' = outbox \/ (/\ outbox[AtHand(r)] = "pending"
                               /\ outbox' = [outbox EXCEPT ![AtHand(r)] = "sent"])
      BY <2>5 DEF RepairMark, MarkDispatched, outboxVars
    <3>4. OutboxFacts
      BY <3>2, <3>3 DEF TypeOK
    <3>5. RequestFacts
      BY <2>0, <3>2, <3>3 DEF RowInv, TypeOK
    <3> QED BY <3>1, <3>4, <3>5
  <2>6. CASE RepairRelease(r) \/ RepairSkip(r)
    <3>1. UNCHANGED outbox /\ NextRow(r) /\ rpc[r] # "idle"
      BY <2>6 DEF RepairRelease, RepairSkip, outboxVars
    <3> QED BY <2>0, <2>4, <3>1
  <2>7. CASE RepairDies(r)
    <3>1. /\ rpc' = [rpc EXCEPT ![r] = "idle"] /\ todo' = [todo EXCEPT ![r] = {}]
          /\ UNCHANGED outbox
      BY <2>7 DEF RepairDies, outboxVars
    <3>2. RepairFacts
      BY <1>0, <3>1 DEF TypeOK
    <3> QED BY <2>0, <3>1, <3>2
  <2> QED BY <1>3, <2>1, <2>2, <2>3, <2>5, <2>6, <2>7 DEF RepairStepAny, RepairStep
<1>4. ASSUME NEW e \in Events, ExpireClaim(e) \/ ExpireDelivery(e) PROVE Bookkeeping
  BY <1>1, <1>4 DEF ExpireClaim, ExpireDelivery, outboxVars
<1>5. ASSUME NEW c \in Consumers, ConsumerStepAny(c) PROVE Bookkeeping
  BY <1>1, <1>5
  DEF ConsumerStepAny, ConsumerStep, Take, Start, Look, Exhaust, Reread, Deliver, MarkDelivered,
      MarkRetry, MarkDeadLetter, UpdateTerminal, Ack, Again, Fail, outboxVars
<1>6. UNCHANGED vars => Bookkeeping
  BY <1>1 DEF vars, outboxVars
<1> HIDE DEF Bookkeeping
<1> QED BY <1>2, <1>3, <1>4, <1>5, <1>6, Cases

\* Rows come into being with their outbox row (the batch of acceptance).
LEMMA RowStep ==
    ASSUME TypeOK, JobInv, RowInv, RowOp, Bookkeeping
    PROVE  RowInv'
<1> USE DEF TypeOK, Bookkeeping, OutboxFacts, RequestFacts
<1>0. \A c \in Consumers : cpc[c] # "idle" => JobEvent(c) \in Events
  BY DEF JobInv, JobEvent
\* A row that a step changes is there, and its request has begun.
<1>1. ASSUME NEW e \in Events, status[e] # "none", \A f \in Events : f # e =>
               status'[f] = status[f] /\ attempt'[f] = attempt[f]
      PROVE  RowInv'
  <2> SUFFICES ASSUME NEW f \in Events
               PROVE  /\ apc'[f] = "new" => status'[f] = "none" /\ outbox'[f] = "none" /\ attempt'[f] = 0
                      /\ outbox'[f] = "none" => status'[f] = "none"
    BY DEF RowInv
  <2>1. CASE f # e
    BY <1>1, <2>1 DEF RowInv
  <2>2. CASE f = e
    <3>1. apc[f] # "new" /\ outbox[f] # "none"
      BY <1>1, <2>2 DEF RowInv
    <3> QED BY <3>1
  <2> QED BY <2>1, <2>2
<1>2. CASE UNCHANGED ledger
  BY <1>2 DEF ledger, RowInv
<1>3. ASSUME NEW e \in Events, AcceptsRow(e) PROVE RowInv'
  BY <1>3 DEF AcceptsRow, RowInv
<1>4. ASSUME NEW c \in Consumers, ClaimsRow(c) \/ ExhaustsRow(c) PROVE RowInv'
  <2>1. cpc[c] # "idle" /\ status[JobEvent(c)] # "none"
    BY <1>4 DEF ClaimsRow, ExhaustsRow, CanClaim, Waiting
  <2>2. \A f \in Events : f # JobEvent(c) => status'[f] = status[f] /\ attempt'[f] = attempt[f]
    BY <1>4 DEF ClaimsRow, ExhaustsRow
  <2> QED BY <1>0, <1>1, <2>1, <2>2
<1>5. ASSUME NEW c \in Consumers, NEW p \in Reports, EndsRow(c, p) PROVE RowInv'
  <2>1. cpc[c] # "idle" /\ status[JobEvent(c)] # "none"
    BY <1>5 DEF EndsRow, Owns, Reports
  <2>2. \A f \in Events : f # JobEvent(c) => status'[f] = status[f] /\ attempt'[f] = attempt[f]
    BY <1>5 DEF EndsRow
  <2> QED BY <1>0, <1>1, <2>1, <2>2
<1> QED BY <1>2, <1>3, <1>4, <1>5 DEF RowOp

\* An outbox row marked as sent has a message, or its event has ended.
LEMMA CoverStep ==
    ASSUME TypeOK, JobInv, RowInv, CoverInv, AckInv, RowOp, QueueOp, Bookkeeping
    PROVE  CoverInv'
<1> USE DEF Bookkeeping, OutboxFacts, RequestFacts, RepairFacts
<1>1. \A e \in Events : Covered(e) => Covered(e)'
  BY CoveredStable
<1>2. ASSUME NEW e \in Events, outbox'[e] = "sent" \/ apc'[e] = "mark" PROVE Covered(e)'
  BY <1>1, <1>2 DEF CoverInv
<1>3. ASSUME NEW r \in Repairers, rpc'[r] = "mark" PROVE Covered(AtHand(r))'
  <2>1. CASE rpc[r] = "mark" /\ todo'[r] = todo[r]
    <3>1. AtHand(r) \in Events /\ Covered(AtHand(r))
      BY <2>1, AtHandFact DEF CoverInv
    <3>2. AtHand(r)' = AtHand(r)
      BY <2>1 DEF AtHand
    <3>3. PICK e \in Events : e = AtHand(r)
      BY <3>1
    <3>4. Covered(e)'
      BY <1>1, <3>1, <3>3
    <3> QED BY <3>2, <3>3, <3>4 DEF Covered, RefersTo
  <2> QED BY <1>3, <2>1
<1> QED BY <1>2, <1>3 DEF CoverInv

(***************************************************************************)
(* Acknowledgements.                                                       *)
(***************************************************************************)
\* A consumer comes to acknowledge by finishing its event or seeing it finished.
LEMMA AckLabel ==
    ASSUME TypeOK, JobInv, NEW c \in Consumers, [Next]_vars, cpc'[c] = "ack", cpc[c] # "ack"
    PROVE  cpc[c] # "idle" /\ status'[JobEvent(c)] \in Terminal
<1> DEFINE G == cpc[c] # "idle" /\ status'[JobEvent(c)] \in Terminal
<1> USE DEF TypeOK, Terminal
<1>0. \A d \in Consumers : cpc[d] # "idle" => JobEvent(d) \in Events
  BY DEF JobInv, JobEvent
<1>1. ASSUME UNCHANGED cpc PROVE G
  BY <1>1
<1>2. ASSUME NEW d \in Consumers, ConsumerStepAny(d) PROVE G
  <2>0. ASSUME NEW l, cpc' = [cpc EXCEPT ![d] = l], l # "ack" PROVE G
    BY <2>0
  <2>1. ASSUME NEW m \in Messages, Take(d, m) PROVE G
    BY <2>0, <2>1 DEF Take
  <2>2. CASE Start(d)
    BY <2>0, <2>2 DEF Start, Goto
  <2>3. CASE Look(d) \/ Reread(d)
    <3>1. CASE status[JobEvent(d)] \in Terminal
      BY <1>0, <2>3, <3>1 DEF Look, Reread, Goto, rowVars
    <3>2. CASE status[JobEvent(d)] \notin Terminal
      BY <2>0, <2>3, <3>2 DEF Look, Reread, Goto
    <3> QED BY <3>1, <3>2
  <2>4. CASE Exhaust(d)
    BY <1>0, <2>4 DEF Exhaust, Goto
  <2>5. CASE Deliver(d)
    BY <2>0, <2>5 DEF Deliver, Goto, AfterFailure
  <2>6. CASE MarkDelivered(d) \/ MarkDeadLetter(d)
    BY <1>0, <2>6 DEF MarkDelivered, MarkDeadLetter, UpdateTerminal, Goto
  <2>7. CASE MarkRetry(d)
    BY <2>7 DEF MarkRetry, UpdateTerminal, Goto
  <2>8. CASE Ack(d) \/ Again(d) \/ Fail(d)
    BY <2>0, <2>8 DEF Ack, Again, Fail, Leave
  <2> QED
    BY <1>2, <2>1, <2>2, <2>3, <2>4, <2>5, <2>6, <2>7, <2>8 DEF ConsumerStepAny, ConsumerStep
<1>3. ASSUME NEW e \in Events, RequestStepAny(e) PROVE G
  BY <1>1, <1>3 DEF RequestStepAny, RequestStep, Accept, AcceptSend, AcceptMark, AcceptSendFails,
                    consumerVars
<1>4. ASSUME NEW e \in Events, ExpireClaim(e) \/ ExpireDelivery(e) PROVE G
  BY <1>1, <1>4 DEF ExpireClaim, ExpireDelivery, consumerVars
<1>5. ASSUME NEW r \in Repairers, RepairStepAny(r) PROVE G
  BY <1>1, <1>5 DEF RepairStepAny, RepairStep, RepairClaim, RepairSend, RepairMark, RepairRelease,
                    RepairSendFails, RepairSkip, RepairDies, consumerVars
<1>6. UNCHANGED vars => G
  BY <1>1 DEF vars, consumerVars
<1> HIDE DEF G
<1>7. G
  BY <1>2, <1>3, <1>4, <1>5, <1>6, Cases
<1> QED BY <1>7 DEF G

\* Only a consumer that saw the end of its event acknowledges.
LEMMA AckStep ==
    ASSUME TypeOK, JobInv, RowInv, AckInv, RowOp, QueueOp, [Next]_vars
    PROVE  AckInv'
<1> USE DEF TypeOK
<1>0. \A e \in Events : status[e] \in Terminal => status'[e] \in Terminal
  BY TerminalStable
<1>1. \A m \in Messages : place[m] # "unsent" => ref'[m] = ref[m] /\ ref[m] \in Events
  BY RefStable DEF JobInv
<1>2. \A c \in Consumers : cpc[c] # "idle" => job[c] \in Messages /\ ref[job[c]] \in Events
                                             /\ place[job[c]] = "taken"
  BY DEF JobInv
<1>3. ASSUME NEW m \in Messages, place'[m] = "acked" PROVE status'[ref'[m]] \in Terminal
  <2>1. place[m] # "unsent" /\ status[ref[m]] \in Terminal
    <3>1. CASE place[m] = "acked"
      BY <3>1 DEF AckInv, AckedIsTerminal
    <3>2. CASE place[m] # "acked"
      <4>1. ~(UNCHANGED <<ref, place, consumerVars>>)
        BY <1>3, <3>2
      <4>2. ~SendsOne
        BY <1>3, <3>2 DEF SendsOne, Send, Unsent
      <4>3. \A c \in Consumers, n \in Messages : ~TakesOne(c, n)
        BY <1>3, <3>2 DEF TakesOne
      <4>4. \A c \in Consumers : ~KeepsIt(c)
        BY <1>3, <3>2 DEF KeepsIt
      <4>5. PICK c \in Consumers : DropsIt(c)
        BY <4>1, <4>2, <4>3, <4>4 DEF QueueOp
      <4>6. cpc[c] = "ack" /\ job[c] = m
        BY <1>3, <3>2, <4>5 DEF DropsIt
      <4> QED BY <1>2, <4>6 DEF AckInv, JobEvent
    <3> QED BY <3>1, <3>2
  <2> QED BY <1>0, <1>1, <2>1
<1>4. ASSUME NEW c \in Consumers, cpc'[c] = "ack" PROVE status'[ref'[job'[c]]] \in Terminal
  <2>1. cpc[c] # "idle" /\ status'[JobEvent(c)] \in Terminal
    <3>1. CASE cpc[c] = "ack"
      BY <1>0, <1>2, <3>1 DEF AckInv, JobEvent
    <3>2. CASE cpc[c] # "ack"
      BY <1>4, <3>2, AckLabel
    <3> QED BY <3>1, <3>2
  <2>2. ref'[job'[c]] = ref[job[c]]
    BY <1>4, <2>1, RefStable
  <2> QED BY <2>1, <2>2 DEF JobEvent
<1> QED BY <1>3, <1>4 DEF AckInv, AckedIsTerminal, JobEvent

(***************************************************************************)
(* Attempts.                                                               *)
(***************************************************************************)
\* A consumer comes to own an attempt by claiming it, goes on to a retry only
\* with an attempt to spare, and nobody else calls the sink.
AttemptFacts(c) ==
    /\ cpc'[c] \in Owning => ClaimsRow(c) \/ (cpc[c] \in Owning /\ mine'[c] = mine[c])
    /\ cpc'[c] = "retry" => mine'[c] = mine[c] /\ (cpc[c] = "retry" \/ mine[c] < MaxAttempts)

CallFacts ==
    \A e \in Events : calls'[e] = calls[e] \/ \E c \in Consumers : cpc[c] = "deliver" /\ JobEvent(c) = e

\* Where the attempt count a consumer holds comes from (mark_delivery_started).
LEMMA AttemptLabels ==
    ASSUME TypeOK, JobInv, [Next]_vars
    PROVE  CallFacts /\ \A c \in Consumers : AttemptFacts(c)
<1> DEFINE G == CallFacts /\ \A c \in Consumers : AttemptFacts(c)
<1> USE DEF TypeOK, Owning, AttemptFacts
<1>0. \A d \in Consumers : cpc[d] # "idle" => JobEvent(d) \in Events
  BY DEF JobInv, JobEvent
<1>1. ASSUME UNCHANGED <<cpc, mine, calls>> PROVE G
  BY <1>1 DEF CallFacts
<1>2. ASSUME NEW d \in Consumers, ConsumerStepAny(d) PROVE G
  \* A step to a label that owns nothing.
  <2>0. ASSUME NEW l, l \notin Owning, cpc' = [cpc EXCEPT ![d] = l], UNCHANGED calls,
               \A c \in Consumers : c # d => mine'[c] = mine[c]
        PROVE  G
    BY <2>0 DEF CallFacts
  <2>1. ASSUME NEW m \in Messages, Take(d, m) PROVE G
    BY <2>0, <2>1 DEF Take, sinkVars
  <2>2. CASE Start(d)
    <3>1. CASE CanClaim(JobEvent(d)) /\ ClaimsRow(d)
      BY <3>1 DEF ClaimsRow, CallFacts, sinkVars
    <3>2. CASE Goto(d, "look") /\ UNCHANGED calls
      BY <2>0, <3>2 DEF Goto
    <3>3. ClaimsRow(d) \/ (Goto(d, "look") /\ UNCHANGED calls)
      BY <2>2 DEF Start, ClaimsRow, queueVars, outboxVars, sinkVars
    <3> QED BY <3>1, <3>2, <3>3 DEF ClaimsRow
  <2>3. CASE Look(d) \/ Reread(d)
    BY <2>0, <2>3 DEF Look, Reread, Goto, sinkVars
  <2>4. CASE Exhaust(d)
    BY <2>0, <2>4 DEF Exhaust, Goto, sinkVars
  <2>5. CASE Deliver(d)
    <3>1. /\ cpc[d] = "deliver" /\ calls' = [calls EXCEPT ![JobEvent(d)] = @ + 1]
          /\ \/ Goto(d, "complete")
             \/ \E class \in ErrorClass : Goto(d, AfterFailure(class, mine[d]))
      BY <2>5 DEF Deliver
    <3>2. CallFacts
      BY <1>0, <3>1 DEF CallFacts
    <3>3. ASSUME NEW class \in ErrorClass
          PROVE  /\ AfterFailure(class, mine[d]) \in {"retry", "bury"}
                 /\ AfterFailure(class, mine[d]) = "retry" => mine[d] < MaxAttempts
      BY MaxAttemptsAssumption DEF AfterFailure, ShouldDeadLetter
    <3>4. \E l \in {"complete", "retry", "bury"} : Goto(d, l) /\ (l = "retry" => mine[d] < MaxAttempts)
      BY <3>1, <3>3
    <3>5. \A c \in Consumers : AttemptFacts(c)
      BY <3>1, <3>4 DEF Goto
    <3> QED BY <3>2, <3>5
  <2>6. CASE MarkDelivered(d) \/ MarkRetry(d) \/ MarkDeadLetter(d)
    <3>1. \E l \in {"ack", "again", "reread"} : Goto(d, l)
      BY <2>6 DEF MarkDelivered, MarkRetry, MarkDeadLetter, UpdateTerminal
    <3>2. UNCHANGED calls
      BY <2>6 DEF MarkDelivered, MarkRetry, MarkDeadLetter, UpdateTerminal, sinkVars
    <3> QED BY <2>0, <3>1, <3>2 DEF Goto
  <2>7. CASE Ack(d) \/ Again(d) \/ Fail(d)
    BY <2>0, <2>7 DEF Ack, Again, Fail, Leave, sinkVars
  <2> QED
    BY <1>2, <2>1, <2>2, <2>3, <2>4, <2>5, <2>6, <2>7 DEF ConsumerStepAny, ConsumerStep
<1>3. ASSUME NEW e \in Events, RequestStepAny(e) PROVE G
  BY <1>1, <1>3 DEF RequestStepAny, RequestStep, Accept, AcceptSend, AcceptMark, AcceptSendFails,
                    consumerVars, sinkVars
<1>4. ASSUME NEW e \in Events, ExpireClaim(e) \/ ExpireDelivery(e) PROVE G
  BY <1>1, <1>4 DEF ExpireClaim, ExpireDelivery, consumerVars, sinkVars
<1>5. ASSUME NEW r \in Repairers, RepairStepAny(r) PROVE G
  BY <1>1, <1>5 DEF RepairStepAny, RepairStep, RepairClaim, RepairSend, RepairMark, RepairRelease,
                    RepairSendFails, RepairSkip, RepairDies, consumerVars, sinkVars
<1>6. UNCHANGED vars => G
  BY <1>1 DEF vars, consumerVars, sinkVars
<1> HIDE DEF G
<1>7. G
  BY <1>2, <1>3, <1>4, <1>5, <1>6, Cases
<1> QED BY <1>7 DEF G

\* What was left over is left over for ever.
LEMMA LeftOverStable ==
    ASSUME Bookkeeping
    PROVE  LeftOver' = LeftOver
BY DEF Bookkeeping, RequestFacts, LeftOver

\* The attempt counts stay within the maximum, and with the token's holder.
LEMMA BudgetStep ==
    ASSUME TypeOK, JobInv, RowInv, BudgetInv, LeftInv, RowOp, QueueOp, Bookkeeping,
           \A c \in Consumers : AttemptFacts(c)
    PROVE  BudgetInv'
<1> USE MaxAttemptsAssumption DEF TypeOK
<1>0. \A c \in Consumers : cpc[c] # "idle" => JobEvent(c) \in Events
  BY DEF JobInv, JobEvent
<1>1. AttemptsBounded /\ WaitingHasBudget /\ LeftOver' = LeftOver
  BY LeftOverStable DEF BudgetInv
<1>2. AttemptsBounded' /\ WaitingHasBudget'
  <2>1. CASE UNCHANGED ledger
    BY <1>1, <2>1 DEF ledger, AttemptsBounded, WaitingHasBudget
  <2>2. ASSUME NEW e \in Events, AcceptsRow(e) PROVE AttemptsBounded' /\ WaitingHasBudget'
    <3>1. attempt[e] = 0
      BY <2>2 DEF AcceptsRow, RowInv
    <3> QED BY <1>1, <2>2, <3>1 DEF AcceptsRow, AttemptsBounded, WaitingHasBudget
  <2>3. ASSUME NEW c \in Consumers, ClaimsRow(c) PROVE AttemptsBounded' /\ WaitingHasBudget'
    <3>1. JobEvent(c) \in Events
      BY <1>0, <2>3 DEF ClaimsRow
    <3>2. NextAttempt(JobEvent(c)) <= MaxAttempts
      BY <2>3, <3>1 DEF ClaimsRow, CanClaim, NextAttempt, Waiting
    <3> QED BY <1>1, <2>3, <3>1, <3>2 DEF ClaimsRow, AttemptsBounded, WaitingHasBudget, Waiting
  <2>4. ASSUME NEW c \in Consumers, ExhaustsRow(c) PROVE AttemptsBounded' /\ WaitingHasBudget'
    BY <1>1, <2>4 DEF ExhaustsRow, AttemptsBounded, WaitingHasBudget, Waiting
  <2>5. ASSUME NEW c \in Consumers, NEW p \in Reports, EndsRow(c, p)
        PROVE  AttemptsBounded' /\ WaitingHasBudget'
    <3>1. /\ p[1] \in Owning \ {"deliver"} /\ p[2] \in {"delivered", "retry_scheduled", "dead_letter"}
          /\ p[2] = "retry_scheduled" => p[1] = "retry"
      BY DEF Reports, Owning
    <3>2. JobEvent(c) \in Events /\ cpc[c] \in Owning /\ Owns(c, JobEvent(c))
      BY <1>0, <2>5, <3>1 DEF EndsRow, Owning
    <3>3. p[2] = "retry_scheduled" => attempt[JobEvent(c)] < MaxAttempts
      BY <2>5, <3>1, <3>2 DEF EndsRow, BudgetInv
    <3>4. /\ UNCHANGED attempt /\ status' = [status EXCEPT ![JobEvent(c)] = p[2]]
      BY <2>5 DEF EndsRow
    <3> QED BY <1>1, <3>1, <3>2, <3>3, <3>4 DEF AttemptsBounded, WaitingHasBudget, Waiting
  <2> QED BY <2>1, <2>2, <2>3, <2>4, <2>5 DEF RowOp
<1>3. ASSUME NEW c \in Consumers, cpc'[c] \in Owning, Owns(c, JobEvent(c))'
      PROVE  (attempt[JobEvent(c)] = mine[c])'
  <2>1. CASE ClaimsRow(c)
    BY <1>0, <2>1 DEF ClaimsRow, JobEvent
  <2>2. CASE cpc[c] \in Owning /\ mine'[c] = mine[c]
    <3>1. PICK e \in Events : e = JobEvent(c)
      BY <1>0, <2>2 DEF Owning
    <3>2. JobEvent(c)' = e
      BY <1>3, <2>2, <3>1, RefStable DEF JobEvent, Owning
    <3>3. status'[e] = "delivering" /\ token'[e] = c
      BY <1>3, <3>2 DEF Owns
    <3>4. status[e] = "delivering" /\ token[e] = c /\ attempt'[e] = attempt[e]
      <4>1. CASE UNCHANGED ledger
        BY <3>3, <4>1 DEF ledger
      <4>2. ASSUME NEW f \in Events, AcceptsRow(f)
            PROVE  status[e] = "delivering" /\ token[e] = c /\ attempt'[e] = attempt[e]
        BY <3>3, <4>2 DEF AcceptsRow
      <4>3. ASSUME NEW d \in Consumers, ClaimsRow(d)
            PROVE  status[e] = "delivering" /\ token[e] = c /\ attempt'[e] = attempt[e]
        <5>1. d # c
          BY <2>2, <4>3 DEF ClaimsRow, Owning
        <5>2. JobEvent(d) # e
          BY <3>3, <4>3, <5>1 DEF ClaimsRow
        <5> QED BY <3>3, <4>3, <5>2 DEF ClaimsRow
      <4>4. ASSUME NEW d \in Consumers, ExhaustsRow(d)
            PROVE  status[e] = "delivering" /\ token[e] = c /\ attempt'[e] = attempt[e]
        BY <3>3, <4>4 DEF ExhaustsRow
      <4>5. ASSUME NEW d \in Consumers, NEW p \in Reports, EndsRow(d, p)
            PROVE  status[e] = "delivering" /\ token[e] = c /\ attempt'[e] = attempt[e]
        <5>1. JobEvent(d) # e
          BY <3>3, <4>5, NullAssumption DEF EndsRow
        <5> QED BY <3>3, <4>5, <5>1 DEF EndsRow
      <4> QED BY <4>1, <4>2, <4>3, <4>4, <4>5 DEF RowOp
    <3>5. attempt[e] = mine[c]
      BY <2>2, <3>1, <3>4 DEF BudgetInv, Owns
    <3> QED BY <2>2, <3>2, <3>4, <3>5
  <2> QED BY <1>3, <2>1, <2>2 DEF AttemptFacts
<1>4. ASSUME NEW c \in Consumers, cpc'[c] = "retry" PROVE mine'[c] < MaxAttempts
  BY <1>4 DEF AttemptFacts, BudgetInv
<1> QED BY <1>2, <1>3, <1>4 DEF BudgetInv

\* A row left over by an earlier release is ended, not delivered.
LEMMA LeftStep ==
    ASSUME TypeOK, JobInv, LeftInv, RowOp, QueueOp, Bookkeeping, CallFacts,
           \A c \in Consumers : AttemptFacts(c)
    PROVE  LeftInv'
<1> USE MaxAttemptsAssumption DEF TypeOK
<1>0. \A c \in Consumers : cpc[c] # "idle" => JobEvent(c) \in Events
  BY DEF JobInv, JobEvent
<1>1. LeftOver' = LeftOver /\ LeftOver \subseteq Events
  BY LeftOverStable DEF LeftOver
<1>2. \A e \in LeftOver : /\ calls[e] = MaxAttempts /\ attempt[e] = MaxAttempts
                          /\ status[e] \in {"retry_scheduled", "dead_letter"}
  BY DEF LeftInv, ExhaustedIsNotDelivered
<1>3. \A e \in LeftOver : ~CanClaim(e) /\ status[e] # "delivering"
  BY <1>1, <1>2 DEF CanClaim
<1>4. ASSUME NEW e \in LeftOver
      PROVE  attempt'[e] = MaxAttempts /\ status'[e] \in {"retry_scheduled", "dead_letter"}
  <2> DEFINE Kept == attempt'[e] = MaxAttempts /\ status'[e] \in {"retry_scheduled", "dead_letter"}
  <2>0. e \in Events
    BY <1>1
  <2>1. CASE UNCHANGED ledger
    BY <1>2, <2>1 DEF ledger
  <2>2. ASSUME NEW f \in Events, AcceptsRow(f) PROVE Kept
    BY <1>2, <2>0, <2>2 DEF AcceptsRow, LeftOver
  <2>3. ASSUME NEW c \in Consumers, ClaimsRow(c) PROVE Kept
    <3>1. JobEvent(c) # e
      BY <1>3, <2>3 DEF ClaimsRow
    <3> QED BY <1>2, <2>0, <2>3, <3>1 DEF ClaimsRow
  <2>4. ASSUME NEW c \in Consumers, ExhaustsRow(c) PROVE Kept
    BY <1>2, <2>0, <2>4 DEF ExhaustsRow
  <2>5. ASSUME NEW c \in Consumers, NEW p \in Reports, EndsRow(c, p) PROVE Kept
    <3>1. JobEvent(c) # e
      BY <1>3, <2>5 DEF EndsRow, Owns
    <3> QED BY <1>2, <2>0, <2>5, <3>1 DEF EndsRow
  <2> QED BY <2>1, <2>2, <2>3, <2>4, <2>5 DEF RowOp
<1>5. \A e \in LeftOver : calls'[e] = MaxAttempts
  BY <1>1, <1>2 DEF CallFacts, LeftInv, Owning
<1>6. ASSUME NEW c \in Consumers, cpc'[c] \in Owning PROVE JobEvent(c)' \notin LeftOver
  <2>1. CASE ClaimsRow(c)
    <3>1. JobEvent(c)' = JobEvent(c)
      BY <2>1 DEF ClaimsRow, JobEvent
    <3> QED BY <1>3, <2>1, <3>1 DEF ClaimsRow
  <2>2. CASE cpc[c] \in Owning
    <3>1. JobEvent(c)' = JobEvent(c)
      BY <1>6, <2>2, RefStable DEF JobEvent, Owning
    <3> QED BY <2>2, <3>1 DEF LeftInv
  <2> QED BY <1>6, <2>1, <2>2 DEF AttemptFacts
<1> QED BY <1>1, <1>4, <1>5, <1>6 DEF LeftInv, ExhaustedIsNotDelivered

(***************************************************************************)
(* The theorems.                                                           *)
(***************************************************************************)
\* IInv holds of an empty store and of one with rows that were left over.
LEMMA InitInv == Init => IInv
<1> SUFFICES ASSUME Init PROVE IInv
  OBVIOUS
<1> USE MaxAttemptsAssumption, NullAssumption DEF Init
<1>1. LeftOver \subseteq Events /\ LeftOver = {e \in Events : apc[e] = "past"}
  BY DEF LeftOver
<1>2. TypeOK
  BY <1>1, LimitAssumption DEF TypeOK, Open, Waiting, Terminal
<1>3. JobInv
  BY <1>1 DEF JobInv
<1>4. RowInv
  BY <1>1 DEF RowInv
<1>5. \A e \in LeftOver : \E m \in Messages : ref[m] = e /\ place[m] = "queue"
  BY <1>1
<1>6. CoverInv
  BY <1>1, <1>5 DEF CoverInv, Covered, RefersTo
<1>7. AckInv
  BY DEF AckInv, AckedIsTerminal
<1>8. BudgetInv
  BY <1>1 DEF BudgetInv, AttemptsBounded, WaitingHasBudget, Owning, Waiting
<1>9. LeftInv
  BY <1>1 DEF LeftInv, ExhaustedIsNotDelivered, Owning
<1> QED BY <1>2, <1>3, <1>4, <1>6, <1>7, <1>8, <1>9 DEF IInv

\* IInv is inductive.
LEMMA NextInv == IInv /\ [Next]_vars => IInv'
<1> SUFFICES ASSUME IInv, [Next]_vars PROVE IInv'
  OBVIOUS
<1>1. TypeOK /\ JobInv /\ RowInv /\ CoverInv /\ AckInv /\ BudgetInv /\ LeftInv
  BY DEF IInv
<1>2. RowOp /\ QueueOp /\ Bookkeeping /\ CallFacts /\ \A c \in Consumers : AttemptFacts(c)
  BY <1>1, RowSteps, QueueSteps, BookkeepingSteps, AttemptLabels
<1>3. TypeOK' /\ JobInv' /\ RowInv' /\ CoverInv' /\ AckInv'
  BY <1>1, <1>2, TypeStep, JobStep, RowStep, CoverStep, AckStep
<1>4. BudgetInv' /\ LeftInv'
  BY <1>1, <1>2, BudgetStep, LeftStep
<1> QED BY <1>3, <1>4 DEF IInv

\* Every reachable state satisfies the inductive invariant, and so is typed.
THEOREM Invariance == Spec => []IInv
<1> QED BY InitInv, NextInv, PTL DEF Spec

\* An unfinished event has a pending outbox row or a message, whatever sends,
\* marks and runs fail: commit, then send, then mark dispatched.
THEOREM OpenEventsAreReferenced == Spec => []OpenIsReferenced
<1>1. IInv => OpenIsReferenced
  <2> SUFFICES ASSUME IInv, NEW e \in Events, status[e] \in Open, outbox[e] # "pending"
               PROVE  \E m \in Messages : RefersTo(m, e, {"queue", "taken", "dlq"})
    BY DEF OpenIsReferenced
  <2>1. outbox[e] = "sent"
    BY DEF IInv, TypeOK, RowInv, Open, Waiting
  <2>2. Covered(e) /\ status[e] \notin Terminal
    BY <2>1 DEF IInv, CoverInv, Open, Waiting, Terminal
  <2> QED BY <2>2 DEF Covered
<1> QED BY <1>1, Invariance, PTL

\* The consumer acknowledges messages of finished events only.
THEOREM AckedEventsAreFinished == Spec => []AckedIsTerminal
<1>1. IInv => AckedIsTerminal
  BY DEF IInv, AckInv
<1> QED BY <1>1, Invariance, PTL

\* attempt_count never exceeds the maximum, although the last attempt may be
\* claimed again and again (mark_delivery_started).
THEOREM AttemptsAreBounded == Spec => []AttemptsBounded
<1>1. IInv => AttemptsBounded
  BY DEF IInv, BudgetInv
<1> QED BY <1>1, Invariance, PTL

\* The delivery token fences stale attempts: no row is put back to wait with
\* its attempts used up.
THEOREM WaitingEventsHaveBudget == Spec => []WaitingHasBudget
<1>1. IInv => WaitingHasBudget
  BY DEF IInv, BudgetInv
<1> QED BY <1>1, Invariance, PTL

\* A row that was left over with its attempts used up is not delivered again.
THEOREM ExhaustedRowsAreNotDelivered == Spec => []ExhaustedIsNotDelivered
<1>1. IInv => ExhaustedIsNotDelivered
  BY DEF IInv, LeftInv
<1> QED BY <1>1, Invariance, PTL

(***************************************************************************)
(* The D1 backend implements the public life of an event.                  *)
(***************************************************************************)
rowStatus == [e \in Events |-> IF e \in LeftOver THEN "none" ELSE status[e]]
rowAttempt == [e \in Events |-> IF e \in LeftOver THEN 0 ELSE attempt[e]]

\* No row at first: the first state of the public life.
LEMMA LifecycleInit == Init => Lifecycle!Init
<1> SUFFICES ASSUME Init PROVE Lifecycle!Init
  OBVIOUS
<1>1. /\ rowStatus = [e \in Events |-> "none"] /\ rowAttempt = [e \in Events |-> 0]
  BY DEF Init, rowStatus, rowAttempt
<1> QED BY <1>1 DEF Lifecycle!Init, rowStatus, rowAttempt

\* A step is a step of the public life or changes nothing that is public.
LEMMA LifecycleStep == IInv /\ [Next]_vars => [Lifecycle!Next]_(Lifecycle!vars)
<1> SUFFICES ASSUME IInv, [Next]_vars PROVE [Lifecycle!Next]_(Lifecycle!vars)
  OBVIOUS
<1> USE MaxAttemptsAssumption DEF TypeOK
<1>0. TypeOK /\ JobInv /\ RowInv /\ CoverInv /\ BudgetInv /\ LeftInv
  BY DEF IInv
<1>1. RowOp /\ LeftOver' = LeftOver
  BY <1>0, RowSteps, BookkeepingSteps, LeftOverStable
<1>2. \A c \in Consumers : cpc[c] # "idle" => JobEvent(c) \in Events
  BY <1>0 DEF JobInv, JobEvent
<1>3. CASE UNCHANGED <<status, attempt>>
  BY <1>1, <1>3 DEF Lifecycle!vars
<1>4. ASSUME NEW e \in Events, AcceptsRow(e) PROVE Lifecycle!Next
  <2>1. e \notin LeftOver /\ status[e] = "none"
    BY <1>0, <1>4 DEF AcceptsRow, LeftOver, RowInv
  <2>2. rowStatus' = [rowStatus EXCEPT ![e] = "queued"] /\ rowAttempt' = rowAttempt
    BY <1>0, <1>1, <1>4, <2>1 DEF AcceptsRow, rowStatus, rowAttempt
  <2>3. Lifecycle!Accept(e)
    BY <2>1, <2>2 DEF Lifecycle!Accept, Lifecycle!Move, rowStatus, rowAttempt
  <2> QED BY <2>3 DEF Lifecycle!Next
<1>5. ASSUME NEW c \in Consumers, ClaimsRow(c) PROVE [Lifecycle!Next]_(Lifecycle!vars)
  <2>1. PICK e \in Events : e = JobEvent(c)
    BY <1>2, <1>5 DEF ClaimsRow
  <2>2. e \notin LeftOver /\ status[e] \in Open
    BY <1>0, <1>5, <2>1 DEF ClaimsRow, CanClaim, LeftInv, ExhaustedIsNotDelivered, Waiting, Open
  <2>3. /\ status' = [status EXCEPT ![e] = "delivering"]
        /\ attempt' = [attempt EXCEPT ![e] = NextAttempt(e)]
    BY <1>5, <2>1 DEF ClaimsRow
  <2>4. CASE status[e] = "delivering" /\ attempt[e] >= MaxAttempts
    <3>1. UNCHANGED <<status, attempt>>
      BY <1>0, <2>3, <2>4 DEF NextAttempt
    <3> QED BY <1>3, <3>1
  <2>5. CASE ~(status[e] = "delivering" /\ attempt[e] >= MaxAttempts)
    <3>1. attempt' = [attempt EXCEPT ![e] = attempt[e] + 1]
      BY <2>3, <2>5 DEF NextAttempt
    <3>2. /\ rowStatus' = [rowStatus EXCEPT ![e] = "delivering"]
          /\ rowAttempt' = [rowAttempt EXCEPT ![e] = @ + 1]
      <4>1. rowStatus' = [rowStatus EXCEPT ![e] = "delivering"]
        BY <1>0, <1>1, <2>2, <2>3 DEF rowStatus
      <4>2. rowAttempt[e] = attempt[e] /\ rowAttempt' = [rowAttempt EXCEPT ![e] = attempt[e] + 1]
        BY <1>0, <1>1, <2>2, <3>1 DEF rowAttempt
      <4> QED BY <4>1, <4>2
    <3>3. Lifecycle!Attempt(e)
      BY <2>2, <3>2 DEF Lifecycle!Attempt, Lifecycle!Waiting, Open, Waiting, rowStatus, rowAttempt
    <3> QED BY <3>3 DEF Lifecycle!Next
  <2> QED BY <2>4, <2>5
<1>6. ASSUME NEW c \in Consumers, ExhaustsRow(c) PROVE UNCHANGED <<rowStatus, rowAttempt>>
  <2>1. JobEvent(c) \in LeftOver
    BY <1>0, <1>2, <1>6 DEF ExhaustsRow, BudgetInv, WaitingHasBudget
  <2> QED BY <1>0, <1>1, <1>6, <2>1 DEF ExhaustsRow, rowStatus, rowAttempt
<1>7. ASSUME NEW c \in Consumers, NEW p \in Reports, EndsRow(c, p) PROVE Lifecycle!Next
  <2>1. PICK e \in Events : e = JobEvent(c)
    BY <1>2, <1>7 DEF EndsRow, Reports
  <2>2. e \notin LeftOver /\ status[e] = "delivering"
    BY <1>0, <1>7, <2>1 DEF EndsRow, Owns, LeftInv, ExhaustedIsNotDelivered
  <2>3. status' = [status EXCEPT ![e] = p[2]] /\ UNCHANGED attempt
    BY <1>7, <2>1 DEF EndsRow
  <2>4. rowStatus' = [rowStatus EXCEPT ![e] = p[2]] /\ rowAttempt' = rowAttempt
    BY <1>0, <1>1, <2>2, <2>3 DEF rowStatus, rowAttempt
  <2>5. p[2] \in {"delivered", "retry_scheduled", "dead_letter"}
    BY DEF Reports
  <2>6. Lifecycle!Succeed(e) \/ Lifecycle!Postpone(e) \/ Lifecycle!GiveUp(e)
    BY <2>2, <2>4, <2>5
    DEF Lifecycle!Succeed, Lifecycle!Postpone, Lifecycle!GiveUp, Lifecycle!Move, rowStatus, rowAttempt
  <2> QED BY <2>6 DEF Lifecycle!Next
<1>8. UNCHANGED <<rowStatus, rowAttempt>> => UNCHANGED Lifecycle!vars
  BY DEF Lifecycle!vars, rowStatus, rowAttempt
<1> QED BY <1>1, <1>3, <1>4, <1>5, <1>6, <1>7, <1>8 DEF RowOp, ledger

\* What a client reads of a D1 row is a public life of an event, whatever
\* leases run out and stale attempts report.
THEOREM RowsLiveTheLifecycle == Spec => ImplementsLifecycle
<1> QED BY LifecycleInit, LifecycleStep, Invariance, PTL
        DEF Spec, ImplementsLifecycle, Lifecycle!Spec
=============================================================================
