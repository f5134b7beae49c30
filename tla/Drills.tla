------------------------------- MODULE Drills -------------------------------
(***************************************************************************)
(* The scripts that put the kind cluster through failures: kind_e2e.py,    *)
(* incident_downstream_5xx.py, incident_redis_outage.py, incident_worker   *)
(* _stop.py, incident_smoke.py and the smoke command of observability      *)
(* _runtime.py.  All but the last have one frame: decide whether the       *)
(* cluster is owned, bring it up, run a body of steps under try, collect   *)
(* diagnostics after an exception, and restore in finally.  The last only  *)
(* has a body.                                                             *)
(*                                                                         *)
(* A step is a command or a check.  A check passes when the state of the   *)
(* cluster lets it and raises otherwise.  Any command may also fail, before*)
(* or after it took effect, with an exception of a kind the scripts catch  *)
(* or of another (an interrupt, an unforeseen type).                       *)
(***************************************************************************)
EXTENDS KindCluster, Sequences

CONSTANTS
    Scripts,     \* the scripts considered
    MaxFaults    \* bound: commands that fail

ASSUME DrillsAssumption ==
    /\ Scripts \subseteq {"kind_e2e", "downstream", "redis", "worker", "smoke", "observability"}
    /\ MaxFaults \in Nat

VARIABLES
    script,    \* which script runs
    k,         \* the cluster
    phase,     \* where main is
    at,        \* the step of the body that is next
    raised,    \* the pending exception: "none", "caught", "uncaught"
    armed,     \* redis_stopped or worker_scaled_down
    owned,     \* owned_cluster
    restored,  \* normal_restored of incident_smoke
    forward,   \* the port-forward process lives
    passed,
    exit,      \* exit code
    faults,
    cleanFaults  \* those of them in the restoration

vars == <<script, k, phase, at, raised, armed, owned, restored, forward, passed, exit, faults,
          cleanFaults>>

Running == 2

\* The scripts with the frame of ownership and restoration.
Framed == script # "observability"

-----------------------------------------------------------------------------
(* The bodies.                                                             *)

Prelude == <<"deploy", "deploy_e2e_release", "helm_test", "wait_api_ready">>

E2E == Prelude \o
    <<"port_forward", "wait_for_targets", "verify_normal",
      "fail_sink", "post_event", "await_retry", "accept_sink", "await_delivered",
      "slow_sink", "post_event", "await_delivering", "kill_worker", "accept_by_env",
      "replace_worker", "await_delivered", "verify_final_state", "close_forward">>

Downstream == Prelude \o
    <<"verify_links", "port_forward", "wait_for_targets", "verify_normal",
      "inject_5xx", "post_failing", "observe_5xx", "heal_5xx",
      "await_delivered", "verify_normal", "close_forward">>

Redis == Prelude \o
    <<"verify_links", "verify_normal", "port_forward", "wait_for_targets",
      "stop_redis", "observe_outage", "start_redis",
      "verify_kept", "verify_normal", "close_forward">>

WorkerBusy == Prelude \o
    <<"verify_links", "verify_normal", "delay_receipts", "port_forward", "wait_for_targets",
      "post_event", "await_delivering">>
WorkerLost == <<"scale_down", "remove_worker", "observe_loss", "heal_sink", "start_worker">>
WorkerReplaced == <<"await_delivered", "verify_normal", "close_forward">>
Worker == WorkerBusy \o WorkerLost \o WorkerReplaced

Smoke == Downstream \o Redis \o Worker \o <<"restore_normal", "verify_final_runtime">>

smoke_base == <<"require_cluster", "port_forward", "wait_for_targets", "verify_normal",
                "close_forward">>
smoke_alerts == <<"port_forward", "inject_alerts", "post_failing_alerts", "observe_alerts",
                  "heal_alerts", "await_terminal", "verify_normal", "close_forward">>

Body(s) == CASE s = "kind_e2e" -> E2E [] s = "downstream" -> Downstream [] s = "redis" -> Redis
             [] s = "worker" -> Worker [] s = "smoke" -> Smoke
             [] s = "observability" -> smoke_base \o smoke_alerts

\* The finally block around a step, by the first step of the block.
UndoOf(step) ==
    CASE step \in {"inject_5xx", "post_failing", "observe_5xx"} -> "heal_5xx"
      [] step \in {"stop_redis", "observe_outage"} -> "start_redis"
      [] step \in {"scale_down", "remove_worker", "observe_loss"} -> "heal_sink"
      [] step \in {"inject_alerts", "post_failing_alerts", "observe_alerts"} -> "heal_alerts"
      [] step = "heal_sink" -> "start_worker"
      [] OTHER -> "none"

\* The blocks for Redis and the worker undo only what their flag says was done.
\* A nested finally does not ask.
Undoes(step) ==
    UndoOf(step) \in {"heal_5xx", "heal_alerts", "start_worker"} \/ (UndoOf(step) # "none" /\ armed)

-----------------------------------------------------------------------------
(* What a step does to the cluster, and what a check asks of it.           *)

verify_retry_recovery(step) ==
    CASE step = "fail_sink" -> configure_sink_helm(k, "server_error", k.release.workers)
      [] step = "await_retry" -> [k EXCEPT !.event = "retrying"]
      [] step = "accept_sink" -> configure_sink_helm(k, "accept", k.release.workers)

\* Mutant: the sink is left slow.
PendingRecoveryLeavesSinkSlow(step) ==
    CASE step = "slow_sink" -> configure_sink_helm(k, "delay", k.release.workers)
      [] step = "kill_worker" -> [scale_worker(k, 0) EXCEPT !.event = "orphaned"]
      [] step = "accept_by_env" -> k
      [] step = "replace_worker" -> scale_worker(k, 1)

verify_pending_recovery(step) ==
    CASE step = "slow_sink" -> configure_sink_helm(k, "delay", k.release.workers)
      [] step = "kill_worker" -> [scale_worker(k, 0) EXCEPT !.event = "orphaned"]
      [] step = "accept_by_env" -> set_sink_env(k)
      [] step = "replace_worker" -> scale_worker(k, 1)

downstream_drill(step) ==
    CASE step = "inject_5xx" -> configure_sink_helm(k, "server_error", k.release.workers)
      [] step = "post_failing" -> [k EXCEPT !.event = "retrying"]
      [] step = "heal_5xx" -> configure_sink_helm(k, "accept", k.release.workers)

redis_drill(step) ==
    CASE step = "stop_redis" -> scale_redis(k, 0)
      [] step = "start_redis" -> scale_redis(k, 1)

\* The sink is healed with the worker held at zero replicas.
worker_drill(step) ==
    CASE step = "delay_receipts" -> configure_sink_helm(k, "post_receipt_delay", k.release.workers)
      [] step = "scale_down" -> scale_worker(k, 0)
      [] step = "remove_worker" -> [k EXCEPT !.event = "orphaned"]
      [] step = "heal_sink" -> configure_sink_helm(k, "accept", 0)
      [] step = "start_worker" -> scale_worker(k, 1)

\* set_mock_sink_mode renders the chart's defaults and the mode.
alerts_drill(step) ==
    CASE step = "inject_alerts" -> Helm(k, Values("normal", "server_error", 1))
      [] step = "post_failing_alerts" -> [k EXCEPT !.event = "retrying"]
      [] step = "heal_alerts" -> Helm(k, Values("normal", "accept", 1))

\* Whatever the event ended as.
wait_for_terminal_status ==
    [k EXCEPT !.event = IF @ = "dead_letter" THEN "dead_letter" ELSE "delivered"]

Effect(step) ==
    CASE step = "deploy" -> deploy(k)
      [] step = "deploy_e2e_release" -> deploy_e2e_release(k)
      [] step = "post_event" -> [k EXCEPT !.event = "accepted"]
      [] step = "await_delivering" -> [k EXCEPT !.event = "inflight"]
      [] step = "await_delivered" -> [k EXCEPT !.event = "delivered"]
      [] step = "await_terminal" -> wait_for_terminal_status
      [] step \in {"fail_sink", "await_retry", "accept_sink"} -> verify_retry_recovery(step)
      [] step \in {"slow_sink", "kill_worker", "accept_by_env", "replace_worker"} ->
           verify_pending_recovery(step)
      [] step \in {"inject_5xx", "post_failing", "heal_5xx"} -> downstream_drill(step)
      [] step \in {"stop_redis", "start_redis"} -> redis_drill(step)
      [] step \in {"delay_receipts", "scale_down", "remove_worker", "heal_sink", "start_worker"} ->
           worker_drill(step)
      [] step \in {"inject_alerts", "post_failing_alerts", "heal_alerts"} -> alerts_drill(step)
      [] step = "restore_normal" -> restore_normal_release(k)
      [] OTHER -> k

verify_normal_and_idempotent_delivery == Delivers(k)
wait_for_targets == k.live.workers = 1 /\ Accepts(k)
verify_final_runtime == k.live = NormalLive
verify_final_state == Delivers(k) /\ k.event = "delivered"

\* A check of the drills can pass only in a state of this kind.
Permits(step) ==
    CASE step \in {"wait_api_ready", "post_event"} -> Accepts(k)
      [] step \in {"helm_test", "wait_for_targets"} -> wait_for_targets
      [] step = "verify_normal" -> verify_normal_and_idempotent_delivery
      [] step \in {"await_retry", "post_failing", "post_failing_alerts"} -> Attempts(k, {"server_error"})
      [] step = "observe_5xx" -> k.event = "retrying" /\ k.live.sink = "server_error"
      [] step = "observe_alerts" -> k.event \in {"retrying", "dead_letter"} /\ k.live.sink = "server_error"
      [] step = "await_delivering" -> Attempts(k, {"delay", "post_receipt_delay"})
      [] step = "await_delivered" -> Delivers(k) /\ k.event \in {"retrying", "orphaned"}
      [] step = "observe_outage" -> k.live.redis = 0
      [] step = "verify_kept" -> k.live.redis = 1
      [] step = "observe_loss" -> k.live.workers = 0 /\ k.event = "orphaned"
      [] step = "heal_sink" -> worker_drill(step).live.workers = 0
      [] step = "await_terminal" -> (Delivers(k) /\ k.event = "retrying") \/ (Accepts(k) /\ k.event = "dead_letter")
      [] step = "require_cluster" -> k.present
      [] step = "verify_final_state" -> verify_final_state
      [] step = "verify_final_runtime" -> verify_final_runtime
      [] OTHER -> TRUE

-----------------------------------------------------------------------------

TypeOK ==
    /\ script \in Scripts /\ ClusterTypeOK(k)
    /\ phase \in {"main", "up", "body", "unwind", "except", "replicas", "restore", "down", "done"}
    /\ at \in 1 .. Len(Body(script)) + 1
    /\ raised \in {"none", "caught", "uncaught"}
    /\ {armed, owned, restored, forward, passed} \subseteq BOOLEAN
    /\ exit \in {0, 1, Running} /\ faults \in 0 .. MaxFaults /\ cleanFaults \in 0 .. faults

\* No cluster, or one of the operator's, empty or with a release.
Init ==
    /\ script \in Scripts
    /\ k \in {NoCluster, [NoCluster EXCEPT !.present = TRUE],
              Helm([NoCluster EXCEPT !.present = TRUE], Normal)}
    /\ phase = "main" /\ at = 1 /\ raised = "none"
    /\ armed = FALSE /\ owned = FALSE /\ restored = FALSE /\ forward = FALSE
    /\ passed = TRUE /\ exit = Running /\ faults = 0 /\ cleanFaults = 0

Fault == faults < MaxFaults /\ faults' = faults + 1

\* owned_cluster, before the try.
Main ==
    /\ phase = "main"
    /\ owned' = (Framed /\ ~k.present)
    /\ phase' = IF Framed /\ ~k.present THEN "up" ELSE "body"
    /\ UNCHANGED <<script, k, at, raised, armed, restored, forward, passed, exit, faults, cleanFaults>>

\* cluster_up under the try; it may fail with the cluster half made.
Up ==
    /\ phase = "up"
    /\ \/ k' = cluster_up(k) /\ phase' = "body" /\ UNCHANGED <<raised, faults>>
       \/ /\ Fault /\ k' \in {k, cluster_up(k)}
          /\ raised' \in {"caught", "uncaught"} /\ phase' = "unwind"
    /\ UNCHANGED <<script, at, armed, owned, restored, forward, passed, exit, cleanFaults>>

Step == Body(script)[at]

\* Where an exception at the present step leads: into the finally block around
\* it, or out of the body.
Raise(kind) ==
    /\ raised' = IF raised = "none" THEN kind ELSE raised
    /\ IF Undoes(Step)
       THEN /\ at' = CHOOSE i \in at + 1 .. Len(Body(script)) : Body(script)[i] = UndoOf(Step)
            /\ phase' = "body"
       ELSE at' = at /\ phase' = "unwind"

\* The end of a finally block goes on with the body or with the exception.
Continue ==
    /\ raised' = raised
    /\ IF raised # "none" /\ Step # "heal_sink"
       THEN at' = at /\ phase' = "unwind"
       ELSE /\ at' = at + 1
            /\ phase' = IF at = Len(Body(script)) THEN "unwind" ELSE "body"

Succeed ==
    /\ phase = "body"
    /\ Permits(Step)
    /\ k' = Effect(Step)
    /\ forward' = IF Step = "port_forward" THEN TRUE
                  ELSE IF Step = "close_forward" THEN FALSE ELSE forward
    /\ armed' = (Step \in {"stop_redis", "scale_down"} \/ (armed /\ Step \notin {"start_redis", "start_worker"}))
    /\ restored' = (restored \/ Step = "restore_normal")
    /\ Continue
    /\ UNCHANGED <<script, owned, passed, exit, faults, cleanFaults>>

\* A check that cannot pass runs into its deadline.
CheckFails ==
    /\ phase = "body"
    /\ ~Permits(Step)
    /\ Raise("caught")
    /\ UNCHANGED <<script, k, armed, owned, restored, forward, passed, exit, faults, cleanFaults>>

\* A command fails: without effect, or after its effect, which sets no flag.
\* A port-forward that failed to start left no process.
CommandFails ==
    /\ phase = "body"
    /\ Fault
    /\ k' \in {k, Effect(Step)}
    /\ \E kind \in {"caught", "uncaught"} : Raise(kind)
    /\ forward' = (forward /\ Step # "close_forward")
    /\ cleanFaults' = IF Step = "heal_alerts" THEN cleanFaults + 1 ELSE cleanFaults
    /\ UNCHANGED <<script, armed, owned, restored, passed, exit>>

\* Leaving the with statement terminates the port-forward; the exception goes
\* to the handler of main if that lists it.
Unwind ==
    /\ phase = "unwind"
    /\ forward' = FALSE
    /\ phase' = IF raised = "caught" THEN "except" ELSE "replicas"
    /\ UNCHANGED <<script, k, at, raised, armed, owned, restored, passed, exit, faults, cleanFaults>>

\* Diagnostics are read-only.  If they raise in turn, finally still runs.
Except ==
    /\ phase = "except"
    /\ passed' = FALSE
    /\ phase' = "replicas"
    /\ \/ UNCHANGED <<raised, faults>>
       \/ Fault /\ raised' = "uncaught"
    /\ UNCHANGED <<script, k, at, armed, owned, restored, forward, exit, cleanFaults>>

\* One step of main's finally: skipped, done, failed in a way that is caught
\* there, or left with the rest of the block.
Restoring(here, next, wanted, after) ==
    /\ phase = here
    /\ \/ ~wanted /\ phase' = next /\ UNCHANGED <<k, passed, exit, faults, cleanFaults>>
       \/ wanted /\ k' = after /\ phase' = next /\ UNCHANGED <<passed, exit, faults, cleanFaults>>
       \/ /\ wanted /\ Fault /\ cleanFaults' = cleanFaults + 1
          /\ k' \in {k, after} /\ passed' = FALSE /\ phase' = next /\ UNCHANGED exit
       \/ /\ Fault /\ cleanFaults' = cleanFaults + 1
          /\ k' \in {k} \cup (IF wanted THEN {after} ELSE {})
          /\ exit' = 1 /\ phase' = "done" /\ UNCHANGED passed
    /\ UNCHANGED <<script, at, raised, armed, owned, restored, forward>>

\* incident_redis_outage and incident_worker_stop put the replicas back first.
RestoreReplicas ==
    Restoring("replicas", "restore", k.present /\ script \in {"redis", "worker"} /\ release_exists(k),
              IF script = "redis" THEN scale_redis(k, 1) ELSE scale_worker(k, 1))

\* The same without a release: kubectl finds nothing to scale.
NoReplicas ==
    /\ phase = "replicas"
    /\ k.present /\ script \in {"redis", "worker"} /\ ~release_exists(k)
    /\ passed' = FALSE /\ phase' = "restore"
    /\ UNCHANGED <<script, k, at, raised, armed, owned, restored, forward, exit, faults, cleanFaults>>

\* Mutant: the release is restored only after an exception.
RestoreOnlyAfterFailure ==
    Restoring("restore", "down", Framed /\ k.present /\ release_exists(k) /\ raised # "none",
              restore_normal_release(k))

RestoreRelease ==
    Restoring("restore", "down", Framed /\ k.present /\ release_exists(k) /\ ~restored,
              restore_normal_release(k))

Down == Restoring("down", "done", owned, cluster_down(k))

\* The exit code, once finally is over; a pending exception is a failure.
Finish ==
    /\ phase = "done" /\ exit = Running
    /\ exit' = IF passed /\ raised # "uncaught" THEN 0 ELSE 1
    /\ UNCHANGED <<script, k, phase, at, raised, armed, owned, restored, forward, passed, faults, cleanFaults>>

\* The worker spends the attempts of the watched event while the sink fails.
GiveUp ==
    /\ Exhausts(k)
    /\ k' = [k EXCEPT !.event = "dead_letter"]
    /\ UNCHANGED <<script, phase, at, raised, armed, owned, restored, forward, passed, exit, faults,
                   cleanFaults>>

Next ==
    \/ Main \/ Up \/ Succeed \/ CheckFails \/ CommandFails \/ Unwind \/ Except
    \/ RestoreReplicas \/ NoReplicas \/ RestoreRelease \/ Down \/ Finish \/ GiveUp

Spec == Init /\ [][Next]_vars

-----------------------------------------------------------------------------
(* Properties.                                                             *)

Over == phase = "done" /\ exit # Running

\* A script that reports success leaves nothing behind: the cluster it made is
\* gone, another's is back to the normal configuration, and no event is left on
\* its way.  A drill's event was delivered; the event of the observability smoke,
\* which runs with the chart's few attempts, may have ended as a dead letter.
PassMeansRestored ==
    Over /\ exit = 0 =>
        IF owned THEN ~k.present
        ELSE /\ k.release = Normal /\ k.live = NormalLive
             /\ k.event \in {"none", "delivered"} \cup (IF Framed THEN {} ELSE {"dead_letter"})

\* Whatever fails in the body, and wherever, no injected failure and no
\* port-forward survives the script if its own restoration works.
InjectionIsUndone ==
    Over /\ cleanFaults = 0 =>
        /\ ~forward
        /\ owned => ~k.present
        /\ k.present /\ release_exists(k) => k.live = NormalLive /\ k.release = Normal

\* A script in which no command failed passes: every check finds the cluster
\* in a state that lets it pass, and no undo takes away what a later step needs.
HealthyRunPasses == Over /\ faults = 0 /\ (Framed \/ release_exists(k)) => exit = 0

=============================================================================
