------------------------------- MODULE Rollout ------------------------------
(***************************************************************************)
(* Rolling updates and the scripts that judge them: the rollout gate of    *)
(* the mock sink (configure_sink_helm in kind_e2e.py), rollout_smoke.py    *)
(* and kubernetes_resiliency.py.                                           *)
(*                                                                         *)
(* One Deployment is followed: the mock sink's for the gate, the API's for *)
(* the other two.  Kubernetes is external: the Deployment controller, the  *)
(* ReplicaSets and the EndpointSlice controller each act on what they last *)
(* saw.  A script reads one object at a time.                              *)
(***************************************************************************)
EXTENDS Integers, FiniteSets, Sequences

CONSTANTS
    Scripts,         \* the scripts considered
    RequestSamples,  \* requests a rolling update is judged by, 20 in the script
    BadSamples,      \* and the bad release, 10 in the script
    MaxFaults,       \* bound: commands of a script that fail
    MaxCrashes       \* bound: pods that lose readiness

ASSUME RolloutAssumption ==
    /\ Scripts \subseteq {"gate", "rollout_smoke", "resiliency"}
    /\ {RequestSamples, BadSamples, MaxFaults, MaxCrashes} \subseteq Nat

VARIABLES
    script, pc, exit,
    dep,      \* the Deployment: its template and generation, and its status
    rs,       \* per template, the ReplicaSet: replicas wanted, and its status
    pods,     \* the pods
    slices,   \* the Service's EndpointSlice
    nextPod,
    seen,     \* what the gate has read so far: Deployment, ReplicaSets, pods, endpoints
    sample,   \* what a sampling loop has seen
    helm,     \* the release history
    prev,     \* previous_revision
    upgrade,  \* the helm upgrade that verify_bad_release runs beside its loop
    sink,     \* the mode of the mock sink
    faults, crashes, cleanFaults

cluster == <<dep, rs, pods, slices, nextPod>>
local == <<seen, sample, prev>>
release == <<helm, upgrade, sink>>
vars == <<script, pc, exit, cluster, local, release, faults, crashes, cleanFaults>>

-----------------------------------------------------------------------------
(* The chart's Deployments.                                                *)

\* 0: as installed; 1: annotated by kubectl patch, or the gate's new mode;
\* 2: with a readiness path that never answers.  A bare pod belongs to none.
Templates == 0 .. 2
Bad == 2
Bare == 3

Desired == IF script = "gate" THEN 1 ELSE 2
MaxSurge == 1

MaxUnavailable == 0

Active(t) == {p \in pods : p.tmpl = t /\ ~p.deleting}
ReadyPods == {p \in pods : p.ready /\ ~p.deleting}
NotReadyPods == {p \in pods : ~p.ready /\ ~p.deleting}
Sum(field) == rs[0][field] + rs[1][field] + rs[2][field]

\* kubectl rollout status, and what helm --wait waits for.
RolloutDone ==
    /\ dep.observed = dep.gen /\ dep.updated = Desired
    /\ dep.total = dep.updated /\ dep.available = dep.updated
HelmReady == dep.observed = dep.gen /\ rs[dep.template].available >= Desired

\* A new template is a new generation; the same one changes nothing.
SetTemplate(t) ==
    dep' = IF dep.template = t THEN dep ELSE [dep EXCEPT !.template = t, !.gen = @ + 1]

Endpoints == {[pod |-> p.id, ready |-> p.ready /\ ~p.deleting] : p \in pods}

\* The pods a request may be sent to though they do not answer.
StaleEndpoints == {e.pod : e \in {s \in slices : s.ready /\ ~\E p \in ReadyPods : p.id = s.pod}}

-----------------------------------------------------------------------------
(* Kubernetes.                                                             *)

scriptVars == <<script, pc, exit, local, release, faults, cleanFaults>>

\* Bound: the cluster is followed until the script is over, after the gate for
\* ever, whose verdict has to last.
Followed == pc # "over" \/ script = "gate"

\* Scale the current ReplicaSet up within the surge, or an old one down as far
\* as availability allows, and publish the status of the ReplicaSets.
DeploymentSync ==
    LET t == dep.template
        old == {o \in Templates \ {t} : rs[o].want > 0}
        mayUp == rs[t].want < Desired /\ Sum("want") < Desired + MaxSurge
        spare == Sum("want") - (Desired - MaxUnavailable) - (rs[t].want - rs[t].available)
    IN
    /\ Followed
    /\ dep' = [dep EXCEPT !.observed = dep.gen, !.rev = t, !.updated = rs[t].active,
                          !.available = Sum("available"), !.total = Sum("active")]
    /\ IF mayUp THEN rs' = [rs EXCEPT ![t].want = @ + 1]
       ELSE IF old # {} /\ spare > 0
            THEN \E o \in old : rs' = [rs EXCEPT ![o].want = @ - 1]
            ELSE UNCHANGED rs
    /\ <<dep', rs'>> # <<dep, rs>>
    /\ UNCHANGED <<scriptVars, pods, slices, nextPod, crashes>>

\* Pods that are not ready are deleted first.
ReplicaSetScale(t) ==
    /\ Followed
    /\ \/ /\ Cardinality(Active(t)) < rs[t].want
          /\ pods' = pods \cup {[id |-> nextPod, tmpl |-> t, ready |-> FALSE, deleting |-> FALSE]}
          /\ nextPod' = nextPod + 1
       \/ /\ Cardinality(Active(t)) > rs[t].want
          /\ \E p \in Active(t) :
               /\ p.ready => Active(t) \subseteq ReadyPods
               /\ pods' = (pods \ {p}) \cup {[p EXCEPT !.deleting = TRUE]}
          /\ UNCHANGED nextPod
    /\ UNCHANGED <<scriptVars, dep, rs, slices, crashes>>

ReplicaSetStatus(t) ==
    /\ Followed
    /\ rs' = [rs EXCEPT ![t].active = Cardinality(Active(t)),
                        ![t].available = Cardinality(Active(t) \cap ReadyPods)]
    /\ rs' # rs
    /\ UNCHANGED <<scriptVars, dep, pods, slices, nextPod, crashes>>

\* The readiness probe answers, unless the template asks the wrong path.
PodReady ==
    /\ Followed
    /\ \E p \in NotReadyPods :
         p.tmpl \notin {Bad, Bare} /\ pods' = (pods \ {p}) \cup {[p EXCEPT !.ready = TRUE]}
    /\ UNCHANGED <<scriptVars, dep, rs, slices, nextPod, crashes>>

PodGone ==
    /\ Followed
    /\ \E p \in pods : p.deleting /\ pods' = pods \ {p}
    /\ UNCHANGED <<scriptVars, dep, rs, slices, nextPod, crashes>>

PodFails ==
    /\ pc # "over" /\ crashes < MaxCrashes /\ crashes' = crashes + 1
    /\ \E p \in ReadyPods : pods' = (pods \ {p}) \cup {[p EXCEPT !.ready = FALSE]}
    /\ UNCHANGED <<scriptVars, dep, rs, slices, nextPod>>

EndpointSync ==
    /\ Followed
    /\ slices # Endpoints
    /\ slices' = Endpoints
    /\ UNCHANGED <<scriptVars, dep, rs, pods, nextPod, crashes>>

Kubernetes ==
    \/ DeploymentSync \/ PodReady \/ PodGone \/ EndpointSync
    \/ \E t \in Templates : ReplicaSetScale(t) \/ ReplicaSetStatus(t)

\* Nothing is left to do but for pods that never become ready.
Settled ==
    /\ dep.observed = dep.gen /\ slices = Endpoints
    /\ \A p \in pods : ~p.deleting /\ (p.tmpl \notin {Bad, Bare} => p.ready)
    /\ \A t \in Templates : /\ rs[t].want = Cardinality(Active(t)) /\ rs[t].active = rs[t].want
                            /\ rs[t].available = Cardinality(Active(t) \cap ReadyPods)
    /\ Sum("want") = Desired \/ (dep.template = Bad /\ rs[Bad].want = MaxSurge)
    /\ dep.available = Sum("available") /\ dep.total = Sum("active")

-----------------------------------------------------------------------------

Gate == {"gate_deployment", "gate_replicasets", "gate_pods", "gate_endpoints", "gate_judge"}

\* Inside main's try of rollout_smoke.
Guarded == {"start_bad", "watch", "verify_bad", "rollback", "rollback_wait", "settle",
            "verify_rollback"}

NoSample == [done |-> FALSE, low |-> FALSE, sent |-> 0, misses |-> 0, hashes |-> {}]
Revision(mode, status) == [sink |-> mode, status |-> status]

TypeOK ==
    /\ script \in Scripts /\ exit \in {0, 1, 2}
    /\ pc \in Gate \cup Guarded \cup {"start", "patch", "sample", "sample_pods", "checks",
         "create_probe", "await_probe", "exclude", "delete_probe", "undo_probe", "delay_sink", "drain", "heal_sink",
         "previous", "persistence", "upgrade", "helm_wait", "rollout_wait", "emergency", "over"}
    /\ dep.template \in Templates /\ dep.rev \in Templates /\ dep.observed \in 0 .. dep.gen
    /\ {dep.updated, dep.available, dep.total} \subseteq 0 .. 2 * Desired + MaxSurge
    /\ \A t \in Templates : /\ rs[t].want \in 0 .. Desired
                            /\ rs[t].available \in 0 .. rs[t].active
                            /\ rs[t].active \in 0 .. Desired
    /\ \A p \in pods : p.id < nextPod /\ p.tmpl \in Templates \cup {Bare}
    /\ \A e \in slices : e.pod < nextPod
    /\ sample.misses \in 0 .. 2 /\ sample.hashes \subseteq Templates \cup {Bare}
    /\ sample.sent \in Nat /\ (sample.sent <= RequestSamples \/ sample.sent <= BadSamples)
    /\ prev \in 0 .. Len(helm) /\ upgrade \in {"none", "started", "applied", "ended"}
    /\ sink \in {"accept", "delay"}
    /\ faults \in 0 .. MaxFaults /\ crashes \in 0 .. MaxCrashes /\ cleanFaults \in 0 .. faults

\* require_cluster, a release that was deployed and has settled.
Init ==
    /\ script \in Scripts /\ pc = "start" /\ exit = 2
    /\ dep = [template |-> 0, gen |-> 1, observed |-> 1, rev |-> 0, updated |-> Desired,
              available |-> Desired, total |-> Desired]
    /\ rs = [t \in Templates |-> LET n == IF t = 0 THEN Desired ELSE 0 IN
                                  [want |-> n, active |-> n, available |-> n]]
    /\ pods = {[id |-> i, tmpl |-> 0, ready |-> TRUE, deleting |-> FALSE] : i \in 1 .. Desired}
    /\ slices = Endpoints /\ nextPod = Desired + 1
    /\ seen = <<>> /\ sample = NoSample
    /\ helm = <<Revision("accept", "deployed")>> /\ prev = 0
    /\ upgrade = "none" /\ sink = "accept"
    /\ faults = 0 /\ crashes = 0 /\ cleanFaults = 0

Over(code) == pc' = "over" /\ exit' = code
Goto(next) == pc' = next /\ UNCHANGED exit

\* Where an exception goes: to the finally of main, to the finally around the
\* unready pod, or out.
Raise ==
    IF script = "rollout_smoke" /\ pc \in Guarded THEN Goto("emergency")
    ELSE IF pc = "exclude" THEN Goto("undo_probe")
    ELSE Over(1)

still == <<script, faults, crashes, cleanFaults>>

\* A check that finds the state wrong raises.
Check(ok, next) ==
    /\ IF ok THEN Goto(next) ELSE Raise
    /\ UNCHANGED <<still, cluster, local, release>>

-----------------------------------------------------------------------------
(* The gate of configure_sink_helm.                                        *)

configure_sink_helm ==
    \/ /\ pc = "start" /\ script = "gate"
       /\ SetTemplate(1) /\ Goto("helm_wait")
       /\ UNCHANGED <<still, rs, pods, slices, nextPod, local, release>>
    \/ pc = "helm_wait" /\ HelmReady /\ Check(TRUE, "rollout_wait")
    \/ pc = "rollout_wait" /\ RolloutDone /\ Check(TRUE, "gate_deployment")

Read(here, next, object) ==
    /\ pc = here
    /\ seen' = Append(seen, object)
    /\ Goto(next)
    /\ UNCHANGED <<still, cluster, sample, prev, release>>

read_mock_sink_rollout_objects ==
    \/ Read("gate_deployment", "gate_replicasets", dep)
    \/ Read("gate_replicasets", "gate_pods", rs)
    \/ Read("gate_pods", "gate_endpoints", pods)
    \/ Read("gate_endpoints", "gate_judge", slices)

\* Mutant: the surge pod is counted as well.
DeploymentCompleteWithSurge(d) == d.observed = d.gen /\ d.updated = Desired + MaxSurge

\* The questions put to what was read: is the Deployment's status current and
\* complete, are the old ReplicaSets empty, are the pods of the current one
\* ready, and does the Service point at them and at nothing else?
DeploymentComplete(d) ==
    d.observed = d.gen /\ d.updated = Desired /\ d.available = Desired /\ d.total = d.available
OldReplicaSetsEmpty(d) ==
    \A t \in Templates \ {d.rev} :
        seen[2][t].want = 0 /\ seen[2][t].active = 0 /\ seen[2][t].available = 0
CurrentReady(d) == {p \in seen[3] : p.tmpl = d.rev /\ p.ready /\ ~p.deleting}
EndpointsCurrent(d) ==
    /\ \A e \in seen[4] : e.ready
    /\ {e.pod : e \in seen[4]} = {p.id : p \in CurrentReady(d)}

\* Mutant: ready pods are enough, whatever the Service still points at.
EvaluateWithoutEndpoints ==
    DeploymentComplete(seen[1]) /\ Cardinality(CurrentReady(seen[1])) = Desired

evaluate_mock_sink_rollout ==
    LET d == seen[1] IN
    /\ DeploymentComplete(d) /\ OldReplicaSetsEmpty(d)
    /\ Cardinality(CurrentReady(d)) = Desired /\ EndpointsCurrent(d)

\* Poll until the verdict is positive; the deadline is a failing command.
wait_for_mock_sink_rollout ==
    /\ pc = "gate_judge"
    /\ IF evaluate_mock_sink_rollout THEN Over(0) ELSE Goto("gate_deployment")
    /\ seen' = <<>>
    /\ UNCHANGED <<still, cluster, sample, prev, release>>

-----------------------------------------------------------------------------
(* The rolling update of the API, and what is asked of it.                 *)

\* kubernetes_resiliency asks only for the available replicas.
verify_rollout_contract ==
    /\ pc = "start" /\ script # "gate"
    /\ Check(/\ dep.available = Desired
             /\ script = "rollout_smoke" =>
                  MaxUnavailable = 0 /\ MaxSurge = 1 /\ dep.template # Bad,
             "patch")

\* rollout_smoke wants to start from one template.
Patch ==
    /\ pc = "patch"
    /\ IF script = "rollout_smoke" /\ Cardinality({p.tmpl : p \in pods}) # 1
       THEN Raise /\ UNCHANGED <<dep, sample>>
       ELSE /\ SetTemplate(1)
            /\ sample' = [NoSample EXCEPT !.hashes = {p.tmpl : p \in pods}]
            /\ Goto("sample")
    /\ UNCHANGED <<still, rs, pods, slices, nextPod, seen, prev, release>>

rollout_complete ==
    /\ dep.observed = dep.gen /\ dep.updated = Desired
    /\ dep.available = Desired /\ dep.total = dep.available

\* What a loop asks for: so many requests, and of them so many lost at most.
\* NORMAL_ROLLOUT_MAX_TRANSIENT_FAILURES is 1; beside the bad release none may
\* be lost.  Bound: both are counted as far as the checks tell them apart.
Wanted == IF upgrade = "none" THEN RequestSamples ELSE BadSamples
Tolerated == IF upgrade = "none" THEN 1 ELSE 0

\* A request is answered, or lost to one of the stale endpoints.
Asked == [sample EXCEPT !.sent = IF @ < Wanted THEN @ + 1 ELSE @]
Requested ==
    {Asked} \cup {[Asked EXCEPT !.misses = IF @ > Tolerated THEN @ ELSE @ + 1] : i \in StaleEndpoints}

\* One turn of a sampling loop: a request, the Deployment, then the pods.
\* kubernetes_resiliency sends no requests.
Sample ==
    /\ pc = "sample"
    /\ \E s \in (IF script = "rollout_smoke" THEN Requested ELSE {sample}) :
        sample' = [s EXCEPT !.done = rollout_complete, !.low = @ \/ dep.available < Desired]
    /\ Goto("sample_pods")
    /\ UNCHANGED <<still, cluster, seen, prev, release>>

SamplePods ==
    /\ pc = "sample_pods"
    /\ sample' = [sample EXCEPT !.hashes = @ \cup {p.tmpl : p \in pods}]
    /\ Goto(IF sample.done /\ (script = "rollout_smoke" => sample.sent >= RequestSamples)
            THEN "checks" ELSE "sample")
    /\ UNCHANGED <<still, cluster, seen, prev, release>>

\* What the loop saw is judged and, if all is well, forgotten.
verify_normal_rollout ==
    /\ pc = "checks"
    /\ IF ~sample.low /\ (script = "rollout_smoke" => sample.misses <= Tolerated /\ 1 \in sample.hashes)
       THEN sample' = NoSample /\ Goto(IF script = "resiliency" THEN "create_probe" ELSE "delay_sink")
       ELSE UNCHANGED sample /\ Raise
    /\ UNCHANGED <<still, cluster, seen, prev, release>>

-----------------------------------------------------------------------------
(* A pod that is never ready must not be a ready endpoint.                 *)

create_unready_api_pod ==
    \/ /\ pc = "create_probe"
       /\ pods' = pods \cup {[id |-> nextPod, tmpl |-> Bare, ready |-> FALSE, deleting |-> FALSE]}
       /\ nextPod' = nextPod + 1
       /\ Goto("await_probe")
       /\ UNCHANGED <<still, dep, rs, slices, local, release>>
    \/ pc = "await_probe" /\ Check(TRUE, "exclude")

verify_not_ready_endpoint_exclusion ==
    \/ /\ pc = "exclude"
       /\ LET ready == {e.pod : e \in {s \in slices : s.ready}} IN
          Check((\A p \in pods : p.tmpl = Bare => p.id \notin ready) /\ Cardinality(ready) >= Desired,
                "delete_probe")
    \/ /\ pc \in {"delete_probe", "undo_probe"}
       /\ pods' = {p \in pods : p.tmpl # Bare}
       /\ IF pc = "delete_probe" THEN Goto("delay_sink") ELSE Over(1)
       /\ UNCHANGED <<still, dep, rs, slices, nextPod, local, release>>

-----------------------------------------------------------------------------
(* The worker drill in both scripts, with a slow sink.                     *)

configure_mock_sink(here, next, mode) ==
    /\ pc = here
    /\ sink' = mode
    /\ helm' = Append(helm, Revision(mode, "deployed"))
    /\ Goto(next)
    /\ UNCHANGED <<still, cluster, local, upgrade>>

verify_worker_shutdown_and_recovery ==
    \/ configure_mock_sink("delay_sink", "drain", "delay")
    \/ pc = "drain" /\ Check(TRUE, "heal_sink")
    \/ configure_mock_sink("heal_sink", IF script = "resiliency" THEN "persistence" ELSE "previous",
                           "accept")

verify_redis_persistence ==
    pc = "persistence" /\ Over(0) /\ UNCHANGED <<still, cluster, local, release>>

-----------------------------------------------------------------------------
(* The bad release and the way back.                                       *)

deployed_revision ==
    /\ pc = "previous"
    /\ IF helm[Len(helm)].status = "deployed" THEN prev' = Len(helm) /\ Goto("start_bad")
       ELSE UNCHANGED prev /\ Raise
    /\ UNCHANGED <<still, cluster, seen, sample, release>>

HelmUpgradeApplies ==
    /\ upgrade = "started" /\ upgrade' = "applied"
    /\ helm' = Append(helm, Revision(sink, "pending"))
    /\ SetTemplate(Bad)
    /\ UNCHANGED <<script, pc, exit, rs, pods, slices, nextPod, local, sink, faults, crashes, cleanFaults>>

\* --wait gives up after 20 s, which is long for the controllers.
HelmUpgradeTimesOut ==
    /\ upgrade = "applied" /\ Settled
    /\ upgrade' = "ended"
    /\ helm' = [helm EXCEPT ![Len(helm)].status = "failed"]
    /\ UNCHANGED <<script, pc, exit, cluster, local, sink, faults, crashes, cleanFaults>>

verify_bad_release ==
    \/ /\ pc = "start_bad"
       /\ upgrade' = "started" /\ sample' = NoSample /\ Goto("watch")
       /\ UNCHANGED <<still, cluster, seen, prev, helm, sink>>
    \/ /\ pc = "watch" /\ upgrade # "ended"
       /\ \E s \in Requested : sample' = [s EXCEPT !.low = @ \/ dep.available < Desired]
       /\ Goto("watch")
       /\ UNCHANGED <<still, cluster, seen, prev, release>>
    \/ pc = "watch" /\ upgrade = "ended" /\ Check(TRUE, "verify_bad")
    \/ /\ pc = "verify_bad"
       /\ Check(/\ helm[Len(helm)].status = "failed" /\ Len(helm) > prev /\ dep.template = Bad
                /\ Cardinality(ReadyPods) >= Desired /\ NotReadyPods # {}
                /\ Cardinality({p.tmpl : p \in pods}) >= 2
                /\ ~RolloutDone /\ ~sample.low /\ sample.sent >= BadSamples /\ sample.misses = 0,
                "rollback")

\* helm rollback: the values of the old revision as a new one.
Rollback ==
    /\ helm' = Append(helm, [helm[prev] EXCEPT !.status = "deployed"])
    /\ sink' = helm[prev].sink
    /\ SetTemplate(1)

\* Mutant: the application is not awaited before the pods are counted.
RollbackWithoutSettling ==
    \/ /\ pc = "rollback" /\ Rollback /\ Goto("rollback_wait")
       /\ UNCHANGED <<still, rs, pods, slices, nextPod, local, upgrade>>
    \/ pc = "rollback_wait" /\ HelmReady /\ Check(TRUE, "verify_rollback")
    \/ /\ pc = "verify_rollback"
       /\ IF Cardinality(ReadyPods) = Desired /\ NotReadyPods = {} THEN Over(0) ELSE Raise
       /\ UNCHANGED <<still, cluster, local, release>>

rollback_release ==
    \/ /\ pc = "rollback" /\ Rollback /\ Goto("rollback_wait")
       /\ UNCHANGED <<still, rs, pods, slices, nextPod, local, upgrade>>
    \/ pc = "rollback_wait" /\ HelmReady /\ Check(TRUE, "settle")
    \/ pc = "settle" /\ RolloutDone /\ Check(TRUE, "verify_rollback")
    \/ /\ pc = "verify_rollback"
       /\ IF helm[Len(helm)].status = "deployed" /\ dep.template # Bad
             /\ Cardinality(ReadyPods) = Desired /\ NotReadyPods = {}
          THEN Over(0) ELSE Raise
       /\ UNCHANGED <<still, cluster, local, release>>

\* Mutant: only a rollback that was begun is repeated.
EmergencyAfterRollbackOnly ==
    /\ pc = "emergency" /\ Over(1)
    /\ IF Len(helm) > prev + 1
       THEN Rollback /\ UNCHANGED <<rs, pods, slices, nextPod>>
       ELSE UNCHANGED <<cluster, helm, sink>>
    /\ UNCHANGED <<script, crashes, local, upgrade, faults, cleanFaults>>

\* main's finally: without recovered, roll back whatever was reached.
Emergency ==
    /\ pc = "emergency" /\ Over(1)
    /\ \/ Rollback /\ UNCHANGED <<rs, pods, slices, nextPod, faults, cleanFaults>>
       \/ /\ faults < MaxFaults /\ faults' = faults + 1 /\ cleanFaults' = cleanFaults + 1
          /\ UNCHANGED <<cluster, helm, sink>>
    /\ UNCHANGED <<script, crashes, local, upgrade>>

\* A command raises.  Leaving verify_bad_release terminates the upgrade.
CommandFails ==
    /\ pc \notin {"over", "emergency"}
    /\ faults < MaxFaults /\ faults' = faults + 1
    /\ Raise
    /\ upgrade' = IF pc = "watch" THEN "none" ELSE upgrade
    /\ UNCHANGED <<script, crashes, cleanFaults, cluster, local, helm, sink>>

Script ==
    \/ configure_sink_helm \/ read_mock_sink_rollout_objects \/ wait_for_mock_sink_rollout
    \/ verify_rollout_contract \/ Patch \/ Sample \/ SamplePods \/ verify_normal_rollout
    \/ create_unready_api_pod \/ verify_not_ready_endpoint_exclusion
    \/ verify_worker_shutdown_and_recovery \/ verify_redis_persistence
    \/ deployed_revision \/ verify_bad_release \/ rollback_release \/ Emergency

Helm == HelmUpgradeApplies \/ HelmUpgradeTimesOut

Next == Kubernetes \/ PodFails \/ Script \/ Helm \/ CommandFails

\* Kubernetes and helm go on; a script polls again and again.
Spec == Init /\ [][Next]_vars /\ WF_vars(Script) /\ WF_vars(Helm) /\ WF_vars(Kubernetes)

-----------------------------------------------------------------------------
(* Properties.                                                             *)

\* Once the gate has passed, the Service reaches only pods of the new template,
\* although the gate read four objects at four moments and each of them may
\* have been behind (evaluate_mock_sink_rollout).
ConvergedMeansCurrent ==
    script = "gate" /\ pc = "over" /\ exit = 0 =>
        \A e \in slices : e.ready => \E p \in pods : p.id = e.pod /\ p.tmpl = dep.template

\* Whatever fails after it was started, the bad release is not what the
\* cluster is left with, unless the emergency rollback fails (main's finally).
BadReleaseIsGone == pc = "over" /\ cleanFaults = 0 => dep.template # Bad

\* The requests decided: more were lost than the loop tolerates, or the upgrade
\* was over before enough were sent.
Interrupted == sample.misses > Tolerated \/ (upgrade # "none" /\ sample.sent < BadSamples)

\* With no failing command and no failing pod a script raises, if at all, over
\* its requests, and the only pods that can ever lose one are those the rolling
\* update replaces, as long as the endpoints list them: no pod of the new
\* template and no step of the bad release interrupts the traffic.  Every other
\* check passes however the reads fall between the steps of the controllers.
HealthyRolloutPasses ==
    faults = 0 /\ crashes = 0 =>
        /\ StaleEndpoints \subseteq 1 .. Desired
        /\ pc = "over" => exit = 0 \/ (script = "rollout_smoke" /\ Interrupted)

\* No script waits for what the controllers never bring about.
RolloutEnds == <>(pc = "over")
=============================================================================
