------------------------------ MODULE GoalLoop ------------------------------
(***************************************************************************)
(* scripts/goal_loop_runner.py: one run of the loop runner.                *)
(*                                                                         *)
(* The runner starts one agent process at a time, gives it one feature of  *)
(* docs/features.json, waits for it with a wall-clock limit, and records   *)
(* what came of it.  The agent is another process: it writes the document  *)
(* whenever it likes, ends whenever it likes, and need not obey a signal.  *)
(* A signal to the runner is handled between any two of its steps.         *)
(***************************************************************************)
EXTENDS Integers, FiniteSets

CONSTANTS
    FeatureCount,    \* features 1 .. FeatureCount, in the order of the document
    MaxIterations,   \* the argument max_iterations
    MaxAttempts,     \* --max-attempts-per-feature
    Strict,          \* GOAL_LOOP_STRICT_INCOMPLETE
    MaxSignals,      \* bound: signals sent to the runner
    MaxRegressions,  \* bound: features an agent sets back to pending
    MaxFaults        \* bound: artifacts that cannot be read or written

ASSUME GoalLoopAssumption ==
    /\ {FeatureCount, MaxSignals, MaxRegressions, MaxFaults} \subseteq Nat
    /\ {MaxIterations, MaxAttempts} \subseteq Nat \ {0}
    /\ Strict \in BOOLEAN

VARIABLES
    doc,        \* features.json: per feature, which of passes and blocked are true
    docOk,      \* whether it can be loaded
    pc,         \* the runner's next step
    iteration,
    attempts,   \* attempts per feature in this run
    task,       \* the prompt of this iteration: feature and attempt
    agent,      \* "none", "running": the process group
    active,     \* ACTIVE_AGENT is set
    heard,      \* signals sent to this agent
    result,     \* ProcessResult, final.md and the selected feature's state
    sig,        \* RECEIVED_SIGNAL, 0 for None
    sigBefore,  \* signal_before of finalize_iteration
    outcome,    \* IterationOutcome of this pass of finalize_iteration
    runRecord,  \* run-level metadata.json and summary.txt
    exit,       \* the runner's exit code
    signals, regressions, faults

docVars == <<doc, docOk, regressions>>
agentVars == <<agent, active, heard>>
vars == <<docVars, agentVars, pc, iteration, attempts, task, result, sig, sigBefore,
          outcome, runRecord, exit, signals, faults>>

Features == 1 .. FeatureCount
Flags == SUBSET {"passes", "blocked"}
SIGINT == 2
SIGTERM == 15
SIGKILL == 9
NoCode == -1

-----------------------------------------------------------------------------
(* The feature document.                                                   *)

Pending(f) == doc[f] = {}
pending_feature == CHOOSE f \in Features : Pending(f) /\ \A g \in 1 .. f - 1 : ~Pending(g)
NonePending == \A f \in Features : ~Pending(f)

all_features_pass(d) == Features # {} /\ \A f \in Features : "passes" \in d[f]
all_remaining_features_blocked ==
    LET incomplete == {f \in Features : "passes" \notin doc[f]}
    IN incomplete # {} /\ \A f \in incomplete : "blocked" \in doc[f]

\* What a run answers when nothing is left to select.
NothingLeft == IF all_features_pass(doc) THEN 0
               ELSE IF all_remaining_features_blocked THEN 2 ELSE 0

build_iteration_prompt(f, k) == [feature |-> f, attempt |-> k]
NoTask == build_iteration_prompt(0, 0)

\* Mutant: the document keeps what the agent wrote.
KeepWhatTheAgentWrote(f) == UNCHANGED doc

\* passes and verified_at go; blocked stays.
keep_timed_out_feature_pending(f) == doc' = [doc EXCEPT ![f] = @ \ {"passes"}]

-----------------------------------------------------------------------------
(* Results, outcomes and records.                                          *)

Result(code, method) ==
    [code |-> code, timedOut |-> method # "none", method |-> method, artifactError |-> FALSE,
     state |-> {}, blockedPromise |-> FALSE, complete |-> FALSE]
NoResult == Result(NoCode, "none")
missing_executable_result == Result(127, "none")

Outcome(state, code) == [state |-> state, code |-> code]
NoOutcome == Outcome("none", NoCode)

Final == iteration = MaxIterations

AttemptsUsed(k) == k >= MaxAttempts

\* Mutant: a timed-out iteration is tried again in the same run.
TimeoutIsRetried == Outcome("timed_out", IF Final THEN 4 ELSE NoCode)

TimedOut == Outcome("timed_out", 4)

\* A signal outranks a timeout, a timeout an artifact error, that the exit code
\* of the agent, and only then does the document count.
determine_outcome(r, k) ==
    CASE sig # 0 -> Outcome("interrupted", 128 + sig)
      [] sig = 0 /\ r.timedOut -> TimedOut
      [] sig = 0 /\ ~r.timedOut /\ (r.artifactError \/ r.code # 0) -> Outcome("failed", 3)
      [] OTHER ->
           IF "passes" \in r.state
           THEN IF r.complete THEN Outcome("complete", 0)
                ELSE Outcome("feature_complete", IF Final THEN 0 ELSE NoCode)
           ELSE IF "blocked" \in r.state \/ r.blockedPromise THEN Outcome("blocked", 2)
           ELSE IF AttemptsUsed(k) THEN Outcome("manual_review", 2)
           ELSE Outcome("incomplete", IF ~Final THEN NoCode ELSE IF Strict THEN 1 ELSE 0)

\* The word the summary starts with.
terminal_summary(o) ==
    CASE o.state = "timed_out" -> "timeout"
      [] o.state = "interrupted" -> "interrupted"
      [] o.state \in {"failed", "manual_review", "blocked"} -> "failure"
      [] OTHER -> "success"

RunRecord(o) == [state |-> o.state, code |-> o.code, summary |-> terminal_summary(o)]
NoRecord == [state |-> "none", code |-> NoCode, summary |-> "none"]

Results ==
    [code : {NoCode, 0, 1, 127}, timedOut : BOOLEAN,
     method : {"none", "interrupt", "terminate", "kill"}, artifactError : BOOLEAN,
     state : Flags, blockedPromise : BOOLEAN, complete : BOOLEAN]
Outcomes == {"none", "interrupted", "timed_out", "failed", "complete", "feature_complete",
             "blocked", "manual_review", "incomplete"}
ExitCodes == {0, 1, 2, 3, 4, 66, 128 + SIGINT, 128 + SIGTERM}

TypeOK ==
    /\ doc \in [Features -> Flags] /\ docOk \in BOOLEAN
    /\ pc \in {"main", "select", "spawn", "register", "resend", "wait", "interrupt", "terminate",
               "kill", "collect", "decide", "write", "confirm", "announce", "exited"}
    /\ iteration \in 0 .. MaxIterations
    /\ attempts \in [Features -> 0 .. MaxIterations]
    /\ task \in [feature : Features \cup {0}, attempt : 0 .. MaxIterations]
    /\ agent \in {"none", "running"} /\ active \in BOOLEAN
    /\ heard \subseteq {SIGINT, SIGTERM, SIGKILL}
    /\ result \in Results
    /\ {sig, sigBefore} \subseteq {0, SIGINT, SIGTERM}
    /\ outcome \in [state : Outcomes, code : ExitCodes \cup {NoCode}]
    /\ runRecord \in [state : Outcomes, code : ExitCodes \cup {NoCode},
                      summary : {"none", "timeout", "interrupted", "failure", "success"}]
    /\ exit \in ExitCodes \cup {NoCode}
    /\ signals \in 0 .. MaxSignals /\ regressions \in 0 .. MaxRegressions
    /\ faults \in 0 .. MaxFaults

Init ==
    /\ doc \in [Features -> Flags] /\ docOk = TRUE
    /\ pc = "main" /\ iteration = 0 /\ attempts = [f \in Features |-> 0] /\ task = NoTask
    /\ agent = "none" /\ active = FALSE /\ heard = {}
    /\ result = NoResult /\ sig = 0 /\ sigBefore = 0
    /\ outcome = NoOutcome /\ runRecord = NoRecord /\ exit = NoCode
    /\ signals = 0 /\ regressions = 0 /\ faults = 0

-----------------------------------------------------------------------------
(* Signals.                                                                *)

\* A process that has ended gets nothing.
send_process_group_signal(s) == heard' = IF agent = "running" THEN heard \cup {s} ELSE heard

\* The handler: the first signal is kept, every one is passed on to the agent
\* the runner knows of.
handle_signal(s) ==
    /\ pc \notin {"main", "exited"}
    /\ signals < MaxSignals
    /\ signals' = signals + 1
    /\ sig' = IF sig = 0 THEN s ELSE sig
    /\ IF active THEN send_process_group_signal(s) ELSE UNCHANGED heard
    /\ UNCHANGED <<docVars, agent, active, pc, iteration, attempts, task, result, sigBefore,
                   outcome, runRecord, exit, faults>>

-----------------------------------------------------------------------------
(* The agent.                                                              *)

\* It writes the document: the feature it was given, another one, or nonsense.
AgentWrites ==
    /\ agent = "running"
    /\ \/ \E flags \in Flags :
            /\ doc' = [doc EXCEPT ![task.feature] = flags]
            /\ docOk' = TRUE /\ UNCHANGED regressions
       \/ \E f \in Features :
            /\ regressions < MaxRegressions
            /\ regressions' = regressions + 1
            /\ doc' = [doc EXCEPT ![f] = {}]
            /\ docOk' = TRUE
       \/ docOk' = FALSE /\ UNCHANGED <<doc, regressions>>
    /\ UNCHANGED <<agentVars, pc, iteration, attempts, task, result, sig, sigBefore, outcome,
                   runRecord, exit, signals, faults>>

\* Where the runner still asks for the exit code of the agent.
Watching == {"register", "resend", "wait", "interrupt", "terminate", "kill"}

\* It ends by itself, or because of a signal it heard.
AgentEnds ==
    /\ agent = "running"
    /\ agent' = "none"
    /\ IF pc \in Watching
       THEN \E code \in {0, 1} : result' = [result EXCEPT !.code = code]
       ELSE UNCHANGED result
    /\ UNCHANGED <<docVars, active, heard, pc, iteration, attempts, task, sig, sigBefore,
                   outcome, runRecord, exit, signals, faults>>

-----------------------------------------------------------------------------
(* The runner.                                                             *)

runnerLocal == <<iteration, attempts, task, result, sigBefore, outcome, runRecord>>

Exit(code) == pc' = "exited" /\ exit' = code

\* PROMPT.md or docs/features.json is not there.
InputsMissing ==
    /\ pc = "main"
    /\ Exit(66)
    /\ UNCHANGED <<docVars, agentVars, runnerLocal, sig, signals, faults>>

\* --status and --dry-run only look.
Inspect ==
    /\ pc = "main"
    /\ Exit(IF docOk THEN 0 ELSE 3)
    /\ UNCHANGED <<docVars, agentVars, runnerLocal, sig, signals, faults>>

\* The handlers are installed, then the document decides whether a run is made.
Main ==
    /\ pc = "main"
    /\ IF ~docOk THEN Exit(3)
       ELSE IF NonePending THEN Exit(NothingLeft)
       ELSE pc' = "select" /\ UNCHANGED exit
    /\ UNCHANGED <<docVars, agentVars, runnerLocal, sig, signals, faults>>

\* The top of run_loop's loop: the first pending feature gets an attempt.
Select ==
    /\ pc = "select"
    /\ IF ~docOk THEN Exit(3) /\ UNCHANGED <<iteration, attempts, task>>
       ELSE IF NonePending THEN Exit(NothingLeft) /\ UNCHANGED <<iteration, attempts, task>>
       ELSE LET f == pending_feature IN
            /\ iteration' = iteration + 1
            /\ attempts' = [attempts EXCEPT ![f] = @ + 1]
            /\ task' = build_iteration_prompt(f, attempts[f] + 1)
            /\ pc' = "spawn" /\ UNCHANGED exit
    /\ result' = NoResult /\ outcome' = NoOutcome
    /\ UNCHANGED <<docVars, agentVars, sigBefore, runRecord, sig, signals, faults>>

\* Popen.  The process runs before ACTIVE_AGENT names it.
Spawn ==
    /\ pc = "spawn"
    /\ \/ agent' = "running" /\ heard' = {} /\ pc' = "register" /\ UNCHANGED result
       \/ result' = missing_executable_result /\ pc' = "collect" /\ UNCHANGED <<agent, heard>>
    /\ UNCHANGED <<docVars, active, iteration, attempts, task, sigBefore, outcome, runRecord,
                   sig, exit, signals, faults>>

Register ==
    /\ pc = "register"
    /\ active' = TRUE
    /\ pc' = "resend"
    /\ UNCHANGED <<docVars, agent, heard, runnerLocal, sig, exit, signals, faults>>

\* Mutant: nobody looks whether a signal came before ACTIVE_AGENT was set.
ResendNothing ==
    /\ pc = "resend"
    /\ pc' = "wait"
    /\ UNCHANGED <<docVars, agentVars, runnerLocal, sig, exit, signals, faults>>

Resend ==
    /\ pc = "resend"
    /\ IF sig # 0 THEN send_process_group_signal(sig) ELSE UNCHANGED heard
    /\ pc' = "wait"
    /\ UNCHANGED <<docVars, agent, active, runnerLocal, sig, exit, signals, faults>>

\* process.wait(timeout): the agent has ended, or the limit has passed.
Wait ==
    /\ pc = "wait"
    /\ \/ agent = "none" /\ active' = FALSE /\ pc' = "collect"
       \/ agent = "running" /\ pc' = "interrupt" /\ UNCHANGED active
    /\ UNCHANGED <<docVars, agent, heard, runnerLocal, sig, exit, signals, faults>>

\* One rung of the escalation: send, wait for the grace time, go on.
Escalate(at, s, method, next) ==
    /\ pc = at
    /\ \/ /\ s \notin heard /\ agent = "running"
          /\ send_process_group_signal(s)
          /\ UNCHANGED <<pc, active, result>>
       \/ /\ agent = "none"
          /\ result' = [result EXCEPT !.timedOut = TRUE, !.method = method]
          /\ active' = FALSE /\ pc' = "collect" /\ UNCHANGED heard
       \/ /\ s \in heard /\ agent = "running"
          /\ pc' = next
          /\ IF next = "collect"
             THEN active' = FALSE /\ result' = [result EXCEPT !.timedOut = TRUE, !.method = method]
             ELSE UNCHANGED <<active, result>>
          /\ UNCHANGED heard
    /\ UNCHANGED <<docVars, agent, iteration, attempts, task, sigBefore, outcome, runRecord,
                   sig, exit, signals, faults>>

\* Mutant: after SIGKILL the runner waits without a limit.
TerminateWaitsForKilled ==
    \/ Escalate("interrupt", SIGINT, "interrupt", "terminate")
    \/ Escalate("terminate", SIGTERM, "terminate", "kill")
    \/ Escalate("kill", SIGKILL, "kill", "kill")

terminate_timed_out_process ==
    \/ Escalate("interrupt", SIGINT, "interrupt", "terminate")
    \/ Escalate("terminate", SIGTERM, "terminate", "kill")
    \/ Escalate("kill", SIGKILL, "kill", "collect")

\* final.md and the document are read; after a timeout the document is put
\* right and a receipt written.  final.md may be unreadable.  In place of a
\* document that cannot be loaded stands the one in which the feature was pending.
Collect ==
    /\ pc = "collect"
    /\ \E unreadable, promise \in BOOLEAN :
        LET artifactError == unreadable \/ ~docOk
            read == IF docOk THEN doc ELSE [doc EXCEPT ![task.feature] = {}]
        IN
        /\ unreadable => faults < MaxFaults
        /\ faults' = IF unreadable THEN faults + 1 ELSE faults
        /\ IF result.timedOut /\ ~artifactError
           THEN keep_timed_out_feature_pending(task.feature)
           ELSE UNCHANGED doc
        /\ result' = [result EXCEPT
             !.artifactError = artifactError,
             !.state = IF result.timedOut /\ ~artifactError
                       THEN read[task.feature] \ {"passes"} ELSE read[task.feature],
             !.blockedPromise = promise,
             !.complete = all_features_pass(read)]
    /\ pc' = "decide"
    /\ UNCHANGED <<docOk, regressions, agentVars, iteration, attempts, task, sigBefore, outcome,
                   runRecord, sig, exit, signals>>

\* A pass of finalize_iteration: look for a signal, then decide.
Decide ==
    /\ pc = "decide"
    /\ sigBefore' = sig
    /\ outcome' = determine_outcome(result, task.attempt)
    /\ pc' = "write"
    /\ UNCHANGED <<docVars, agentVars, iteration, attempts, task, result, runRecord, sig, exit,
                   signals, faults>>

Write ==
    /\ pc = "write"
    /\ runRecord' = IF outcome.code = NoCode THEN runRecord ELSE RunRecord(outcome)
    /\ pc' = "confirm"
    /\ UNCHANGED <<docVars, agentVars, iteration, attempts, task, result, sigBefore, outcome, sig,
                   exit, signals, faults>>

\* Mutant: what was written stands, whatever arrived meanwhile.
ConfirmBlindly ==
    /\ pc = "confirm"
    /\ IF outcome.code = NoCode THEN pc' = "select" /\ UNCHANGED exit ELSE Exit(outcome.code)
    /\ UNCHANGED <<docVars, agentVars, runnerLocal, sig, signals, faults>>

\* A signal since the pass began starts another pass.
Confirm ==
    /\ pc = "confirm"
    /\ pc' = IF sig # sigBefore THEN "decide"
             ELSE IF outcome.code = NoCode THEN "select" ELSE "announce"
    /\ UNCHANGED <<docVars, agentVars, runnerLocal, sig, exit, signals, faults>>

\* The summary is printed and the same question asked once more.
Announce ==
    /\ pc = "announce"
    /\ IF sig # sigBefore THEN pc' = "decide" /\ UNCHANGED exit ELSE Exit(outcome.code)
    /\ UNCHANGED <<docVars, agentVars, runnerLocal, sig, signals, faults>>

\* An artifact cannot be written: main reports an artifact error.
StorageFails ==
    /\ pc \in {"select", "collect", "write"}
    /\ faults < MaxFaults
    /\ faults' = faults + 1
    /\ Exit(3)
    /\ UNCHANGED <<docVars, agentVars, runnerLocal, sig, signals>>

Runner ==
    \/ InputsMissing \/ Inspect \/ Main \/ Select \/ Spawn \/ Register \/ Resend \/ Wait
    \/ terminate_timed_out_process \/ Collect \/ Decide \/ Write \/ Confirm \/ Announce
    \/ StorageFails

Next ==
    \/ Runner
    \/ AgentWrites
    \/ AgentEnds
    \/ \E s \in {SIGINT, SIGTERM} : handle_signal(s)

\* The runner's waits are limited by timeouts; the agent owes nothing.
Spec == Init /\ [][Next]_vars /\ WF_vars(Runner)

-----------------------------------------------------------------------------
(* Properties.                                                             *)

\* While the runner waits for a running agent, the agent has been sent the
\* signal the runner was sent, even if that came between Popen and the
\* assignment of ACTIVE_AGENT, or between two iterations (run_agent_process).
SignalReachesAgent == pc = "wait" /\ agent = "running" /\ sig # 0 => sig \in heard

\* A run that records a result and was sent a signal before it returned says
\* so: its exit code and its records are those of the first signal
\* (finalize_iteration), unless the records could not be written.
InterruptIsReported ==
    pc = "exited" /\ runRecord # NoRecord /\ exit # 3 =>
        /\ sig # 0 => exit = 128 + sig /\ runRecord.summary = "interrupted"
        /\ runRecord.code = exit

\* Two agents never write the worktree at once: none is started while an
\* earlier one is alive, even if that one outlived SIGKILL.
OneWriter == [][pc = "spawn" /\ pc' = "register" => agent = "none"]_vars

\* The feature of an iteration that timed out is not left passing, whatever the
\* agent wrote before it was stopped, if it was stopped and the artifacts could
\* be read (keep_timed_out_feature_pending).
TimedOutIsNotPassing ==
    /\ pc = "exited" /\ runRecord.state = "timed_out"
    /\ result.code # NoCode /\ ~result.artifactError
    => "passes" \notin doc[task.feature]

\* A run ends, although the agent may never end and may ignore every signal.
RunEnds == <>(pc = "exited")
=============================================================================
