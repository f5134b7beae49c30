--------------------------- MODULE GoalLoopProofs ---------------------------
(***************************************************************************)
(* Proofs about GoalLoop, for every number of features, iterations and     *)
(* attempts and however many signals, regressions and faults there are.    *)
(***************************************************************************)
EXTENDS GoalLoop, WellFoundedInduction, TLAPS

(***************************************************************************)
(* The inductive invariant.                                                *)
(***************************************************************************)
Decided == {"write", "confirm", "announce"}
Finalizing == {"decide"} \cup Decided
Supervising == {"resend", "wait", "interrupt", "terminate", "kill"}

\* A signal that arrives while the runner supervises is passed on at once.
ActiveInv == pc \in Supervising => active

\* An agent outlives its supervision only after a timeout, and one whose exit
\* code is known has ended.
AgentInv ==
    /\ pc \in {"main", "select", "spawn"} => agent = "none"
    /\ pc \in {"main", "spawn"} => result = NoResult
    /\ pc \in {"collect"} \cup Finalizing /\ agent = "running" => result.timedOut
    /\ result.code # NoCode => agent = "none"

\* There is an iteration left to select, and a selected one has a feature.
BudgetInv ==
    /\ pc \in {"main", "select"} => iteration < MaxIterations
    /\ \A f \in Features : attempts[f] <= iteration
    /\ pc \notin {"main", "select", "exited"} => task.feature \in Features

\* The outcome of a pass is that of the signal the pass saw, and ends the run
\* after a timeout and after the last iteration.
OutcomeInv ==
    /\ sigBefore # 0 => sigBefore = sig
    /\ pc \in Decided =>
         /\ sigBefore # 0 => outcome = Outcome("interrupted", 128 + sigBefore)
         /\ outcome.state = "timed_out" => result.timedOut
         /\ result.timedOut \/ Final => outcome.code # NoCode
    /\ pc = "announce" => outcome.code # NoCode

\* A record that a later pass writes over is written over by a signal's.
RecordInv ==
    /\ pc \notin Finalizing \cup {"exited"} => runRecord = NoRecord
    /\ pc = "decide" /\ runRecord # NoRecord => sig # 0
    /\ pc = "write" /\ runRecord # NoRecord => sigBefore # 0
    /\ pc \in {"confirm", "announce"} =>
         runRecord = IF outcome.code = NoCode THEN NoRecord ELSE RunRecord(outcome)
    /\ runRecord.state = "timed_out" => result.timedOut

\* Once the document is put right, nobody is left to write it.
DocInv ==
    /\ pc \in Finalizing \/ (pc = "exited" /\ runRecord.state = "timed_out")
    /\ result.timedOut /\ result.code # NoCode /\ ~result.artifactError
    => "passes" \notin doc[task.feature]

IInv ==
    /\ TypeOK /\ ActiveInv /\ SignalReachesAgent /\ AgentInv /\ BudgetInv /\ OutcomeInv
    /\ RecordInv /\ InterruptIsReported /\ DocInv

(***************************************************************************)
(* The operators.                                                          *)
(***************************************************************************)
USE GoalLoopAssumption DEF SIGINT, SIGTERM, SIGKILL, NoCode, Decided, Finalizing, Supervising, Exit

\* A document with a pending feature has a first one, which pending_feature is.
LEMMA PendingFeature ==
    ASSUME ~NonePending
    PROVE  pending_feature \in Features
<1> DEFINE S == {f \in Features : Pending(f)}
<1>1. S \in SUBSET Nat /\ S # {}
  BY DEF Features, NonePending
<1>2. PICK f \in S : \A g \in S : ~(<<g, f>> \in OpToRel(<, Nat))
  BY <1>1, WFMin, NatLessThanWellFounded
<1>3. f \in Features /\ Pending(f) /\ \A g \in 1 .. f - 1 : ~Pending(g)
  <2>1. f \in Nat /\ f >= 1 /\ f <= FeatureCount /\ Pending(f)
    BY DEF Features
  <2>2. ASSUME NEW g \in 1 .. f - 1, Pending(g) PROVE FALSE
    <3>1. g \in S /\ g \in Nat /\ g < f
      BY <2>1, <2>2 DEF Features
    <3>2. <<g, f>> \in OpToRel(<, Nat)
      BY <2>1, <3>1 DEF OpToRel
    <3> QED BY <1>2, <3>1, <3>2
  <2> QED BY <2>1, <2>2
<1> QED BY <1>3 DEF pending_feature

Codes == ExitCodes \cup {NoCode}

\* What determine_outcome gives a signal, a timeout and the last iteration.
LEMMA OutcomeFacts ==
    ASSUME TypeOK, NEW k \in Nat
    PROVE  LET o == determine_outcome(result, k) IN
           /\ o \in [state : Outcomes, code : Codes]
           /\ sig # 0 => o = Outcome("interrupted", 128 + sig)
           /\ o.state = "timed_out" => result.timedOut
           /\ result.timedOut \/ Final => o.code # NoCode
<1> DEFINE Good(o) == /\ o \in [state : Outcomes, code : Codes]
                      /\ sig # 0 => o = Outcome("interrupted", 128 + sig)
                      /\ o.state = "timed_out" => result.timedOut
                      /\ result.timedOut \/ Final => o.code # NoCode
<1> SUFFICES Good(determine_outcome(result, k))
  OBVIOUS
<1> USE DEF Outcome, Outcomes, Codes, ExitCodes
<1>1. CASE sig # 0
  <2>1. determine_outcome(result, k) = Outcome("interrupted", 128 + sig)
    BY <1>1 DEF determine_outcome
  <2>2. sig \in {SIGINT, SIGTERM}
    BY <1>1 DEF TypeOK
  <2>3. Good(Outcome("interrupted", 128 + sig))
    BY <1>1, <2>2
  <2> QED BY <2>1, <2>3
<1>2. CASE sig = 0 /\ result.timedOut
  <2>1. determine_outcome(result, k) = TimedOut
    BY <1>2 DEF determine_outcome
  <2>2. Good(TimedOut)
    BY <1>2 DEF TimedOut
  <2> QED BY <2>1, <2>2
<1>3. CASE sig = 0 /\ ~result.timedOut /\ (result.artifactError \/ result.code # 0)
  <2>1. determine_outcome(result, k) = Outcome("failed", 3)
    BY <1>3 DEF determine_outcome
  <2>2. Good(Outcome("failed", 3))
    BY <1>3
  <2> QED BY <2>1, <2>2
<1>4. CASE sig = 0 /\ ~result.timedOut /\ ~(result.artifactError \/ result.code # 0)
  <2> DEFINE Chosen == { Outcome("complete", 0),
                Outcome("feature_complete", IF Final THEN 0 ELSE NoCode),
                Outcome("blocked", 2), Outcome("manual_review", 2),
                Outcome("incomplete", IF ~Final THEN NoCode ELSE IF Strict THEN 1 ELSE 0) }
  <2>1. determine_outcome(result, k) \in Chosen
    BY <1>4 DEF determine_outcome
  <2>2. ASSUME NEW o \in Chosen PROVE Good(o)
    BY <1>4
  <2> QED BY <2>1, <2>2
<1> QED BY <1>1, <1>2, <1>3, <1>4

(***************************************************************************)
(* The invariant, step by step.                                            *)
(***************************************************************************)
\* A signal between any two steps of the runner.
LEMMA SignalStep ==
    ASSUME IInv, NEW s \in {SIGINT, SIGTERM}, handle_signal(s)
    PROVE  IInv'
<1> USE DEF handle_signal, docVars
<1>1. TypeOK'
  <2>1. TypeOK
    BY DEF IInv
  <2>2. sig' \in {0, SIGINT, SIGTERM} /\ signals' \in 0 .. MaxSignals
    BY <2>1 DEF TypeOK
  <2>3. heard' \in {heard, heard \cup {s}}
    BY DEF send_process_group_signal
  <2>4. heard' \subseteq {SIGINT, SIGTERM, SIGKILL}
    BY <2>1, <2>3 DEF TypeOK
  <2> QED BY <2>1, <2>2, <2>4 DEF TypeOK
<1>2. ActiveInv' /\ AgentInv' /\ BudgetInv'
  BY DEF IInv, ActiveInv, AgentInv, BudgetInv
<1>3. SignalReachesAgent'
  BY DEF IInv, ActiveInv, SignalReachesAgent, send_process_group_signal
<1>4. OutcomeInv' /\ RecordInv' /\ InterruptIsReported' /\ DocInv'
  BY DEF IInv, OutcomeInv, RecordInv, InterruptIsReported, DocInv, Final
<1> QED BY <1>1, <1>2, <1>3, <1>4 DEF IInv

\* The agent writes the document or ends.
LEMMA AgentStep ==
    ASSUME IInv, AgentWrites \/ AgentEnds
    PROVE  IInv'
<1>1. CASE AgentWrites
  <2> USE <1>1 DEF AgentWrites, agentVars
  <2>1. TypeOK'
    <3>1. TypeOK
      BY DEF IInv
    <3>2. regressions' \in 0 .. MaxRegressions
      BY <3>1 DEF TypeOK
    <3>4. \/ UNCHANGED doc
          \/ \E f \in Features \cup {0}, flags \in Flags : doc' = [doc EXCEPT ![f] = flags]
      BY <3>1 DEF TypeOK, Flags
    <3>5. doc' \in [Features -> Flags]
      BY <3>1, <3>4 DEF TypeOK
    <3>3. docOk' \in BOOLEAN
      BY Zenon
    <3> QED BY <3>1, <3>2, <3>3, <3>5 DEF TypeOK
  <2>2. ActiveInv' /\ SignalReachesAgent' /\ AgentInv' /\ BudgetInv'
    BY DEF IInv, ActiveInv, SignalReachesAgent, AgentInv, BudgetInv
  <2>3. OutcomeInv' /\ RecordInv' /\ InterruptIsReported'
    BY DEF IInv, OutcomeInv, RecordInv, InterruptIsReported, Final
  <2>4. DocInv'
    BY DEF IInv, AgentInv, DocInv
  <2> QED BY <2>1, <2>2, <2>3, <2>4 DEF IInv
<1>2. CASE AgentEnds
  <2> USE <1>2 DEF AgentEnds, docVars, Watching
  <2>1. result' \in Results /\ result'.timedOut = result.timedOut
    BY DEF IInv, TypeOK, Results
  <2>2. TypeOK'
    BY <2>1 DEF IInv, TypeOK
  <2>3. ActiveInv' /\ SignalReachesAgent' /\ AgentInv' /\ BudgetInv'
    BY <2>1 DEF IInv, ActiveInv, SignalReachesAgent, AgentInv, BudgetInv
  <2>4. OutcomeInv' /\ RecordInv' /\ InterruptIsReported' /\ DocInv'
    BY <2>1 DEF IInv, OutcomeInv, RecordInv, InterruptIsReported, DocInv, Final
  <2> QED BY <2>2, <2>3, <2>4 DEF IInv
<1> QED BY <1>1, <1>2

\* Steps before the first iteration, and at the top of the loop.
LEMMA StartStep ==
    ASSUME IInv, InputsMissing \/ Inspect \/ Main \/ Select
    PROVE  IInv'
<1>0. TypeOK
  BY DEF IInv
<1>1. NothingLeft \in ExitCodes
  BY DEF NothingLeft, ExitCodes
<1>2. CASE InputsMissing \/ Inspect \/ Main
  <2> USE <1>2 DEF InputsMissing, Inspect, Main, docVars, agentVars, runnerLocal
  <2>1. pc' \in {"exited", "select"} /\ exit' \in ExitCodes \cup {NoCode} /\ pc = "main"
    BY <1>0, <1>1 DEF TypeOK, ExitCodes
  <2>2. UNCHANGED <<docVars, agentVars, runnerLocal, sig, signals, faults>>
    OBVIOUS
  <2>3. TypeOK'
    BY <1>0, <2>1, <2>2 DEF TypeOK
  <2>4. ActiveInv' /\ SignalReachesAgent' /\ AgentInv' /\ BudgetInv'
    BY <2>1, <2>2 DEF IInv, ActiveInv, SignalReachesAgent, AgentInv, BudgetInv
  <2>5. OutcomeInv' /\ RecordInv' /\ InterruptIsReported' /\ DocInv'
    BY <2>1, <2>2 DEF IInv, OutcomeInv, RecordInv, InterruptIsReported, DocInv, Final, NoRecord
  <2> QED BY <2>3, <2>4, <2>5 DEF IInv
<1>3. CASE Select
  <2>1. /\ pc = "select" /\ result' = NoResult /\ outcome' = NoOutcome
        /\ UNCHANGED <<docVars, agentVars, sigBefore, runRecord, sig, signals, faults>>
    BY <1>3 DEF Select
  <2>2. /\ pc' \in {"exited", "spawn"} /\ exit' \in ExitCodes \cup {NoCode}
        /\ pc' = "spawn" => task'.feature \in Features
        /\ iteration' \in 0 .. MaxIterations
        /\ attempts' \in [Features -> 0 .. MaxIterations]
        /\ task' \in [feature : Features \cup {0}, attempt : 0 .. MaxIterations]
        /\ \A f \in Features : attempts'[f] <= iteration'
    <3>1. CASE ~docOk \/ NonePending
      <4>1. pc' = "exited" /\ exit' \in ExitCodes /\ UNCHANGED <<iteration, attempts, task>>
        BY <1>1, <1>3, <3>1 DEF Select, ExitCodes
      <4> QED BY <1>0, <4>1 DEF TypeOK, IInv, BudgetInv
    <3>2. CASE docOk /\ ~NonePending
      <4> DEFINE f == pending_feature
      <4>1. f \in Features
        BY <3>2, PendingFeature
      <4>2. /\ iteration' = iteration + 1
            /\ attempts' = [attempts EXCEPT ![f] = @ + 1]
            /\ task' = build_iteration_prompt(f, attempts[f] + 1)
            /\ pc' = "spawn" /\ UNCHANGED exit
        BY <1>3, <3>2 DEF Select
      <4> HIDE DEF f
      <4>3. iteration \in Nat /\ iteration < MaxIterations
            /\ \A g \in Features : attempts[g] \in Nat /\ attempts[g] <= iteration
        BY <1>0, <2>1 DEF IInv, BudgetInv, TypeOK
      <4> QED BY <1>0, <4>1, <4>2, <4>3 DEF TypeOK, build_iteration_prompt
    <3> QED BY <3>1, <3>2
  <2>3. TypeOK'
    <3>1. result' \in Results
      BY <2>1 DEF NoResult, Result, Results, Flags
    <3>2. outcome' \in [state : Outcomes, code : ExitCodes \cup {NoCode}]
      BY <2>1 DEF NoOutcome, Outcome, Outcomes
    <3> QED BY <1>0, <2>1, <2>2, <3>1, <3>2 DEF TypeOK, docVars, agentVars
  <2>4. result'.code = NoCode /\ ~result'.timedOut
    BY <2>1 DEF NoResult, Result
  <2>5. ActiveInv' /\ SignalReachesAgent' /\ AgentInv' /\ BudgetInv'
    BY <2>1, <2>2, <2>4
    DEF IInv, ActiveInv, SignalReachesAgent, AgentInv, BudgetInv, docVars, agentVars
  <2>6. OutcomeInv' /\ RecordInv' /\ InterruptIsReported' /\ DocInv'
    BY <2>1, <2>2, <2>4
    DEF IInv, OutcomeInv, RecordInv, InterruptIsReported, DocInv, Final, NoRecord
  <2> QED BY <2>3, <2>5, <2>6 DEF IInv
<1> QED BY <1>2, <1>3

\* Steps that start, register and supervise the agent.
LEMMA SuperviseStep ==
    ASSUME IInv, Spawn \/ Register \/ Resend \/ Wait
    PROVE  IInv'
<1>0. TypeOK
  BY DEF IInv
<1>1. CASE Spawn
  <2>1. /\ pc = "spawn" /\ pc' \in {"register", "collect"}
        /\ UNCHANGED <<docVars, active, iteration, attempts, task, sigBefore, outcome, runRecord,
                       sig, exit, signals, faults>>
        /\ heard' \in {{}, heard}
        /\ \/ agent' = "running" /\ pc' = "register" /\ result' = result
           \/ pc' = "collect" /\ agent' = agent /\ result' = missing_executable_result
    BY <1>1 DEF Spawn
  <2>2. agent = "none" /\ result = NoResult /\ runRecord = NoRecord /\ result.code = NoCode
    BY <2>1 DEF IInv, AgentInv, RecordInv, NoResult, Result
  <2>3. missing_executable_result \in Results
    BY DEF missing_executable_result, Result, Results, Flags
  <2>4. TypeOK'
    <3>1. result' \in Results /\ agent' \in {"none", "running"}
      BY <1>0, <2>1, <2>3 DEF TypeOK
    <3>2. heard' \subseteq {SIGINT, SIGTERM, SIGKILL}
      BY <1>0, <2>1 DEF TypeOK
    <3> QED BY <1>0, <2>1, <3>1, <3>2 DEF TypeOK, docVars
  <2>5. ActiveInv' /\ SignalReachesAgent' /\ AgentInv' /\ BudgetInv'
    BY <2>1, <2>2 DEF IInv, ActiveInv, SignalReachesAgent, AgentInv, BudgetInv
  <2>6. OutcomeInv' /\ RecordInv' /\ InterruptIsReported' /\ DocInv'
    BY <2>1, <2>2 DEF IInv, OutcomeInv, RecordInv, InterruptIsReported, DocInv, Final, NoRecord
  <2> QED BY <2>4, <2>5, <2>6 DEF IInv
<1>2. CASE Register \/ Resend
  <2>1. /\ pc \in {"register", "resend"} /\ pc' = IF pc = "register" THEN "resend" ELSE "wait"
        /\ UNCHANGED <<docVars, agent, runnerLocal, sig, exit, signals, faults>>
    BY <1>2 DEF Register, Resend
  <2>2. active' \in BOOLEAN /\ active'
    BY <1>2, Zenon DEF Register, Resend, IInv, ActiveInv, TypeOK, Supervising
  <2>3. heard' \subseteq {SIGINT, SIGTERM, SIGKILL}
    <3>1. heard' \in {heard, heard \cup {sig}} /\ (sig = 0 => heard' = heard)
      BY <1>2 DEF Register, Resend, send_process_group_signal
    <3> QED BY <1>0, <3>1 DEF TypeOK
  <2>4. SignalReachesAgent'
    BY <1>2, <2>1 DEF Register, Resend, SignalReachesAgent, send_process_group_signal
  <2>5. TypeOK'
    BY <1>0, <2>1, <2>2, <2>3 DEF TypeOK, docVars, runnerLocal
  <2>6. ActiveInv' /\ AgentInv' /\ BudgetInv'
    BY <2>1, <2>2 DEF IInv, ActiveInv, AgentInv, BudgetInv, runnerLocal
  <2>7. OutcomeInv' /\ RecordInv' /\ InterruptIsReported' /\ DocInv'
    BY <2>1
    DEF IInv, OutcomeInv, RecordInv, InterruptIsReported, DocInv, Final, NoRecord, runnerLocal
  <2> QED BY <2>4, <2>5, <2>6, <2>7 DEF IInv
<1>3. CASE Wait
  <2>1. /\ pc = "wait" /\ pc' \in {"collect", "interrupt"}
        /\ pc' = "collect" => agent = "none"
        /\ UNCHANGED <<docVars, agent, heard, runnerLocal, sig, exit, signals, faults>>
    BY <1>3 DEF Wait
  <2>2. active' \in BOOLEAN /\ ActiveInv'
    BY <1>0, <1>3, Zenon DEF Wait, IInv, ActiveInv, TypeOK, Supervising
  <2>3. TypeOK'
    BY <1>0, <2>1, <2>2 DEF TypeOK, docVars, runnerLocal
  <2>4. SignalReachesAgent' /\ AgentInv' /\ BudgetInv'
    BY <2>1 DEF IInv, SignalReachesAgent, AgentInv, BudgetInv, runnerLocal
  <2>5. OutcomeInv' /\ RecordInv' /\ InterruptIsReported' /\ DocInv'
    BY <2>1
    DEF IInv, OutcomeInv, RecordInv, InterruptIsReported, DocInv, Final, NoRecord, runnerLocal
  <2> QED BY <2>2, <2>3, <2>4, <2>5 DEF IInv
<1> QED BY <1>1, <1>2, <1>3

\* A rung of the escalation.
LEMMA EscalateStep ==
    ASSUME IInv, terminate_timed_out_process
    PROVE  IInv'
<1> DEFINE Methods == {"interrupt", "terminate", "kill"}
<1>0. TypeOK
  BY DEF IInv
<1>1. PICK at \in Methods, s \in {SIGINT, SIGTERM, SIGKILL}, m \in Methods,
           next \in {"terminate", "kill", "collect"} : Escalate(at, s, m, next)
  BY DEF terminate_timed_out_process
<1>2. /\ pc \in Methods
      /\ UNCHANGED <<docVars, agent, iteration, attempts, task, sigBefore, outcome, runRecord,
                     sig, exit, signals, faults>>
  BY <1>1 DEF Escalate
<1>3. \/ /\ heard' \in {heard, heard \cup {s}} /\ pc' \in Methods /\ UNCHANGED <<active, result>>
      \/ /\ pc' = "collect" /\ active' = FALSE /\ heard' = heard
         /\ result' = [result EXCEPT !.timedOut = TRUE, !.method = m]
  BY <1>1 DEF Escalate, send_process_group_signal
<1>4. heard' \subseteq {SIGINT, SIGTERM, SIGKILL}
  BY <1>0, <1>3 DEF TypeOK
<1>5. active' \in BOOLEAN /\ ActiveInv'
  BY <1>0, <1>2, <1>3, Zenon DEF TypeOK, IInv, ActiveInv, Supervising
<1>6. [result EXCEPT !.timedOut = TRUE, !.method = m] \in Results
  BY <1>0 DEF TypeOK, Results
<1>7. /\ result' \in Results /\ result'.code = result.code
      /\ pc' = "collect" => result'.timedOut
  <2>1. CASE result' = result /\ pc' \in Methods
    BY <1>0, <2>1 DEF TypeOK
  <2>2. CASE result' = [result EXCEPT !.timedOut = TRUE, !.method = m]
    <3>1. result'.timedOut = TRUE /\ result'.code = result.code
      BY <1>0, <2>2 DEF TypeOK, Results
    <3>2. result'.timedOut
      BY <3>1, Zenon
    <3> QED BY <1>6, <2>2, <3>1, <3>2
  <2> QED BY <1>3, <2>1, <2>2
<1>8. pc' \in Methods \cup {"collect"}
  BY <1>3
<1>9. TypeOK'
  BY <1>0, <1>2, <1>4, <1>5, <1>7, <1>8 DEF TypeOK, docVars
<1>10. SignalReachesAgent' /\ AgentInv' /\ BudgetInv'
  BY <1>2, <1>7, <1>8 DEF IInv, SignalReachesAgent, AgentInv, BudgetInv
<1>11. OutcomeInv' /\ RecordInv' /\ InterruptIsReported' /\ DocInv'
  BY <1>2, <1>8 DEF IInv, OutcomeInv, RecordInv, InterruptIsReported, DocInv, NoRecord
<1> QED BY <1>5, <1>9, <1>10, <1>11 DEF IInv

\* The artifacts are read and, after a timeout, the document is put right.
LEMMA CollectStep ==
    ASSUME IInv, Collect
    PROVE  IInv'
<1>0. TypeOK /\ pc = "collect" /\ pc' = "decide" /\ task.feature \in Features
  BY DEF IInv, Collect, BudgetInv
<1>1. UNCHANGED <<docOk, regressions, agentVars, iteration, attempts, task, sigBefore, outcome,
                  runRecord, sig, exit, signals>>
  BY DEF Collect
<1>2. PICK unreadable \in BOOLEAN, promise \in BOOLEAN :
        LET artifactError == unreadable \/ ~docOk
            read == IF docOk THEN doc ELSE [doc EXCEPT ![task.feature] = {}]
        IN
        /\ unreadable => faults < MaxFaults
        /\ faults' = IF unreadable THEN faults + 1 ELSE faults
        /\ IF result.timedOut /\ ~artifactError
           THEN keep_timed_out_feature_pending(task.feature)
           ELSE UNCHANGED doc
        /\ result' = [result EXCEPT
             !.artifactError = artifactError,
             !.state = IF result.timedOut /\ ~artifactError
                       THEN read[task.feature] \ {"passes"} ELSE read[task.feature],
             !.blockedPromise = promise,
             !.complete = all_features_pass(read)]
  BY DEF Collect
<1> DEFINE artifactError == unreadable \/ ~docOk
           read == IF docOk THEN doc ELSE [doc EXCEPT ![task.feature] = {}]
           state == IF result.timedOut /\ ~artifactError
                    THEN read[task.feature] \ {"passes"} ELSE read[task.feature]
<1>3. artifactError \in BOOLEAN /\ all_features_pass(read) \in BOOLEAN
  BY Zenon DEF all_features_pass
<1>4. read \in [Features -> Flags]
  BY <1>0 DEF TypeOK, Flags
<1>5. state \in Flags
  BY <1>0, <1>4 DEF Flags
<1>6. faults' \in 0 .. MaxFaults
  BY <1>0, <1>2 DEF TypeOK
<1>7. /\ result.timedOut /\ ~artifactError => doc' = [doc EXCEPT ![task.feature] = @ \ {"passes"}]
      /\ ~(result.timedOut /\ ~artifactError) => doc' = doc
  BY <1>2 DEF keep_timed_out_feature_pending
<1>8. doc' \in [Features -> Flags]
  BY <1>0, <1>7 DEF TypeOK, Flags
<1>9. result' = [result EXCEPT !.artifactError = artifactError, !.state = state,
                               !.blockedPromise = promise, !.complete = all_features_pass(read)]
  BY <1>2
<1> HIDE DEF artifactError, read, state
<1>10. /\ result' \in Results /\ result'.timedOut = result.timedOut /\ result'.code = result.code
       /\ result'.artifactError = artifactError
  BY <1>0, <1>3, <1>5, <1>9 DEF TypeOK, Results
<1>11. TypeOK'
  BY <1>0, <1>1, <1>6, <1>8, <1>10 DEF TypeOK, agentVars
<1>12. ActiveInv' /\ SignalReachesAgent' /\ AgentInv' /\ BudgetInv'
  BY <1>0, <1>1, <1>10 DEF IInv, ActiveInv, SignalReachesAgent, AgentInv, BudgetInv, agentVars
<1>13. OutcomeInv' /\ RecordInv' /\ InterruptIsReported'
  BY <1>0, <1>1, <1>10 DEF IInv, OutcomeInv, RecordInv, InterruptIsReported, NoRecord
<1>14. DocInv'
  <2>1. result'.timedOut /\ ~result'.artifactError => "passes" \notin doc'[task.feature]
    BY <1>0, <1>7, <1>10 DEF TypeOK
  <2> QED BY <1>1, <2>1 DEF DocInv
<1> QED BY <1>11, <1>12, <1>13, <1>14 DEF IInv

\* A pass of finalize_iteration.
LEMMA FinalizeStep ==
    ASSUME IInv, Decide \/ Write \/ Confirm \/ Announce
    PROVE  IInv'
<1>0. TypeOK
  BY DEF IInv
<1>1. CASE Decide
  <2>1. /\ pc = "decide" /\ pc' = "write" /\ sigBefore' = sig
        /\ outcome' = determine_outcome(result, task.attempt)
        /\ UNCHANGED <<docVars, agentVars, iteration, attempts, task, result, runRecord, sig, exit,
                       signals, faults>>
    BY <1>1 DEF Decide
  <2>2. task.attempt \in Nat
    BY <1>0 DEF TypeOK
  <2>3. /\ outcome' \in [state : Outcomes, code : Codes]
        /\ sig # 0 => outcome' = Outcome("interrupted", 128 + sig)
        /\ outcome'.state = "timed_out" => result.timedOut
        /\ result.timedOut \/ Final => outcome'.code # NoCode
    BY <1>0, <2>1, <2>2, OutcomeFacts
  <2>4. TypeOK'
    BY <1>0, <2>1, <2>3 DEF TypeOK, docVars, agentVars, Codes
  <2>5. ActiveInv' /\ SignalReachesAgent' /\ AgentInv' /\ BudgetInv'
    BY <2>1 DEF IInv, ActiveInv, SignalReachesAgent, AgentInv, BudgetInv, agentVars
  <2>6. OutcomeInv'
    BY <2>1, <2>3 DEF IInv, OutcomeInv, Final
  <2>7. RecordInv' /\ InterruptIsReported' /\ DocInv'
    BY <2>1 DEF IInv, RecordInv, InterruptIsReported, DocInv, docVars
  <2> QED BY <2>4, <2>5, <2>6, <2>7 DEF IInv
<1>2. CASE Write
  <2>1. /\ pc = "write" /\ pc' = "confirm"
        /\ runRecord' = IF outcome.code = NoCode THEN runRecord ELSE RunRecord(outcome)
        /\ UNCHANGED <<docVars, agentVars, iteration, attempts, task, result, sigBefore, outcome,
                       sig, exit, signals, faults>>
    BY <1>2 DEF Write
  <2>2. sigBefore \in Nat /\ 128 + sigBefore # NoCode
    BY <1>0 DEF TypeOK
  \* An open outcome has seen no signal, so no record was written before it.
  <2>3. outcome.code = NoCode => runRecord = NoRecord
    <3>1. sigBefore # 0 => outcome = Outcome("interrupted", 128 + sigBefore)
      BY <2>1 DEF IInv, OutcomeInv
    <3>2. sigBefore # 0 => outcome.code # NoCode
      BY <2>2, <3>1 DEF Outcome
    <3> QED BY <2>1, <3>2 DEF IInv, RecordInv
  <2>4. runRecord' = IF outcome.code = NoCode THEN NoRecord ELSE RunRecord(outcome)
    BY <2>1, <2>3
  <2>5. RunRecord(outcome) \in [state : Outcomes, code : ExitCodes \cup {NoCode},
                      summary : {"none", "timeout", "interrupted", "failure", "success"}]
    <3>1. terminal_summary(outcome) \in {"none", "timeout", "interrupted", "failure", "success"}
      BY DEF terminal_summary
    <3>2. outcome.state \in Outcomes /\ outcome.code \in ExitCodes \cup {NoCode}
      BY <1>0 DEF TypeOK
    <3> QED BY <3>1, <3>2 DEF RunRecord
  <2>6. runRecord' \in [state : Outcomes, code : ExitCodes \cup {NoCode},
                      summary : {"none", "timeout", "interrupted", "failure", "success"}]
    BY <1>0, <2>1, <2>5 DEF TypeOK
  <2>7. TypeOK'
    BY <1>0, <2>1, <2>6 DEF TypeOK, docVars, agentVars
  <2>8. ActiveInv' /\ SignalReachesAgent' /\ AgentInv' /\ BudgetInv' /\ OutcomeInv'
    BY <2>1 DEF IInv, ActiveInv, SignalReachesAgent, AgentInv, BudgetInv, OutcomeInv, Final, agentVars
  <2>9. runRecord'.state = "timed_out" => result.timedOut
    BY <2>1, <2>4 DEF IInv, OutcomeInv, NoRecord, RunRecord
  <2>10. RecordInv'
    BY <2>1, <2>4, <2>9 DEF RecordInv
  <2>11. InterruptIsReported' /\ DocInv'
    BY <2>1 DEF IInv, InterruptIsReported, DocInv, docVars
  <2> QED BY <2>7, <2>8, <2>10, <2>11 DEF IInv
<1>3. CASE Confirm
  <2>1. /\ pc = "confirm"
        /\ pc' = IF sig # sigBefore THEN "decide"
                 ELSE IF outcome.code = NoCode THEN "select" ELSE "announce"
        /\ UNCHANGED <<docVars, agentVars, runnerLocal, sig, exit, signals, faults>>
    BY <1>3 DEF Confirm
  <2>2. TypeOK'
    BY <1>0, <2>1 DEF TypeOK, docVars, agentVars, runnerLocal
  <2>3. ActiveInv' /\ SignalReachesAgent' /\ InterruptIsReported' /\ DocInv'
    BY <2>1 DEF IInv, ActiveInv, SignalReachesAgent, InterruptIsReported, DocInv, docVars, agentVars,
                runnerLocal
  \* A signal that came since is the first, and then there is one.
  <2>4. sig # sigBefore => sig # 0
    BY DEF IInv, OutcomeInv
  <2>5. OutcomeInv' /\ RecordInv'
    BY <2>1, <2>4 DEF IInv, OutcomeInv, RecordInv, Final, runnerLocal
  \* The loop goes on only without a timeout and with an iteration left.
  <2>6. pc' = "select" => agent = "none" /\ iteration < MaxIterations
    <3>1. pc' = "select" => ~result.timedOut /\ iteration # MaxIterations
      BY <2>1 DEF IInv, OutcomeInv, Final
    <3> QED BY <1>0, <2>1, <3>1 DEF IInv, AgentInv, TypeOK
  <2>7. AgentInv' /\ BudgetInv'
    BY <2>1, <2>6 DEF IInv, AgentInv, BudgetInv, agentVars, runnerLocal
  <2> QED BY <2>2, <2>3, <2>5, <2>7 DEF IInv
<1>4. CASE Announce
  <2>1. /\ pc = "announce"
        /\ UNCHANGED <<docVars, agentVars, runnerLocal, sig, signals, faults>>
        /\ \/ sig # sigBefore /\ pc' = "decide" /\ exit' = exit
           \/ sig = sigBefore /\ pc' = "exited" /\ exit' = outcome.code
    BY <1>4 DEF Announce
  <2>2. TypeOK'
    BY <1>0, <2>1 DEF TypeOK, docVars, agentVars, runnerLocal
  <2>3. ActiveInv' /\ SignalReachesAgent' /\ AgentInv' /\ BudgetInv' /\ DocInv'
    BY <2>1 DEF IInv, ActiveInv, SignalReachesAgent, AgentInv, BudgetInv, DocInv, docVars, agentVars,
                runnerLocal
  <2>4. sig # sigBefore => sig # 0
    BY DEF IInv, OutcomeInv
  <2>5. OutcomeInv' /\ RecordInv'
    BY <2>1, <2>4 DEF IInv, OutcomeInv, RecordInv, Final, runnerLocal
  <2>6. InterruptIsReported'
    <3>1. runRecord = RunRecord(outcome)
      BY <2>1 DEF IInv, OutcomeInv, RecordInv
    <3>2. runRecord.code = outcome.code
      BY <3>1 DEF RunRecord
    <3>3. ASSUME sig # 0, sig = sigBefore
          PROVE  outcome.code = 128 + sig /\ runRecord.summary = "interrupted"
      <4>1. outcome = Outcome("interrupted", 128 + sig)
        BY <2>1, <3>3 DEF IInv, OutcomeInv
      <4>2. outcome.code = 128 + sig /\ outcome.state = "interrupted"
        BY <4>1 DEF Outcome
      <4> QED BY <3>1, <4>2 DEF RunRecord, terminal_summary
    <3> QED BY <2>1, <3>2, <3>3 DEF InterruptIsReported, runnerLocal
  <2> QED BY <2>2, <2>3, <2>5, <2>6 DEF IInv
<1> QED BY <1>1, <1>2, <1>3, <1>4

\* An artifact that cannot be written ends the run with 3.
LEMMA StorageStep ==
    ASSUME IInv, StorageFails
    PROVE  IInv'
<1>0. TypeOK
  BY DEF IInv
<1>1. /\ pc \in {"select", "collect", "write"} /\ pc' = "exited" /\ exit' = 3
      /\ faults' = faults + 1 /\ faults < MaxFaults
      /\ UNCHANGED <<docVars, agentVars, runnerLocal, sig, signals>>
  BY DEF StorageFails
<1>2. faults' \in 0 .. MaxFaults /\ exit' \in ExitCodes
  BY <1>0, <1>1 DEF TypeOK, ExitCodes
<1>3. TypeOK'
  BY <1>0, <1>1, <1>2 DEF TypeOK, docVars, agentVars, runnerLocal
<1>4. ActiveInv' /\ SignalReachesAgent' /\ AgentInv' /\ BudgetInv'
  BY <1>1 DEF IInv, ActiveInv, SignalReachesAgent, AgentInv, BudgetInv, agentVars, runnerLocal
<1>5. OutcomeInv' /\ RecordInv' /\ InterruptIsReported'
  BY <1>1 DEF IInv, OutcomeInv, RecordInv, InterruptIsReported, runnerLocal
<1>6. DocInv'
  BY <1>1 DEF IInv, DocInv, RecordInv, NoRecord, docVars, runnerLocal
<1> QED BY <1>3, <1>4, <1>5, <1>6 DEF IInv

(***************************************************************************)
(* The theorems.                                                           *)
(***************************************************************************)
\* IInv holds before the run.
LEMMA InitInv == Init => IInv
<1> SUFFICES ASSUME Init PROVE IInv
  OBVIOUS
<1>1. result \in Results /\ result.code = NoCode
  BY DEF Init, NoResult, Result, Results, Flags
<1>2. outcome \in [state : Outcomes, code : ExitCodes \cup {NoCode}]
  BY DEF Init, NoOutcome, Outcome, Outcomes
<1>3. runRecord \in [state : Outcomes, code : ExitCodes \cup {NoCode},
                     summary : {"none", "timeout", "interrupted", "failure", "success"}]
      /\ runRecord.state = "none"
  BY DEF Init, NoRecord, Outcomes
<1>4. docOk \in BOOLEAN /\ active \in BOOLEAN
  BY Zenon DEF Init
<1>5. task \in [feature : Features \cup {0}, attempt : 0 .. MaxIterations]
  BY DEF Init, NoTask, build_iteration_prompt
<1>6. TypeOK
  BY <1>1, <1>2, <1>3, <1>4, <1>5 DEF Init, TypeOK
<1>7. ActiveInv /\ SignalReachesAgent /\ AgentInv /\ BudgetInv
  BY <1>1 DEF Init, ActiveInv, SignalReachesAgent, AgentInv, BudgetInv
<1>8. OutcomeInv /\ RecordInv /\ InterruptIsReported /\ DocInv
  BY <1>3 DEF Init, OutcomeInv, RecordInv, InterruptIsReported, DocInv
<1> QED BY <1>6, <1>7, <1>8 DEF IInv

\* IInv is inductive.
LEMMA NextInv == IInv /\ [Next]_vars => IInv'
<1> SUFFICES ASSUME IInv, [Next]_vars PROVE IInv'
  OBVIOUS
<1>1. CASE Runner
  BY <1>1, StartStep, SuperviseStep, EscalateStep, CollectStep, FinalizeStep, StorageStep DEF Runner
<1>2. CASE AgentWrites \/ AgentEnds
  BY <1>2, AgentStep
<1>3. CASE \E s \in {SIGINT, SIGTERM} : handle_signal(s)
  BY <1>3, SignalStep
<1>4. CASE UNCHANGED vars
  <2> USE <1>4 DEF vars, docVars, agentVars
  <2>1. TypeOK'
    BY DEF IInv, TypeOK
  <2>2. ActiveInv' /\ SignalReachesAgent' /\ AgentInv' /\ BudgetInv'
    BY DEF IInv, ActiveInv, SignalReachesAgent, AgentInv, BudgetInv
  <2>3. OutcomeInv' /\ RecordInv' /\ InterruptIsReported' /\ DocInv'
    BY DEF IInv, OutcomeInv, RecordInv, InterruptIsReported, DocInv, Final
  <2> QED BY <2>1, <2>2, <2>3 DEF IInv
<1> QED BY <1>1, <1>2, <1>3, <1>4 DEF Next

\* Every reachable state satisfies the inductive invariant; in particular a
\* run has at most max_iterations iterations.
THEOREM Invariance == Spec => []IInv
<1> QED BY InitInv, NextInv, PTL DEF Spec

\* The agent the runner waits for has been sent the signal the runner was
\* sent, whenever that came (run_agent_process and the signal handler).
THEOREM SignalsReachTheAgent == Spec => []SignalReachesAgent
<1>1. IInv => SignalReachesAgent
  BY DEF IInv
<1> QED BY <1>1, Invariance, PTL

\* A signal that comes before finalize_iteration returns decides the exit code
\* and the records of the run.
THEOREM InterruptsAreReported == Spec => []InterruptIsReported
<1>1. IInv => InterruptIsReported
  BY DEF IInv
<1> QED BY <1>1, Invariance, PTL

\* A feature whose iteration timed out is not left passing
\* (keep_timed_out_feature_pending).
THEOREM TimeoutsLeaveFeaturesPending == Spec => []TimedOutIsNotPassing
<1>1. IInv => TimedOutIsNotPassing
  BY DEF IInv, DocInv, RecordInv, TimedOutIsNotPassing
<1> QED BY <1>1, Invariance, PTL

\* No agent is started while another one is alive, even one that outlived its
\* SIGKILL: a run that timed out starts no other iteration.
THEOREM AgentsRunOneAtATime == Spec => OneWriter
<1>1. IInv /\ [Next]_vars => [pc = "spawn" /\ pc' = "register" => agent = "none"]_vars
  BY DEF IInv, AgentInv
<1> QED BY <1>1, Invariance, PTL DEF Spec, OneWriter
=============================================================================
