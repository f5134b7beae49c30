--------------------------- MODULE RolloutProofs ----------------------------
(***************************************************************************)
(* Proofs about Rollout, for every bound on failing commands and pods.     *)
(***************************************************************************)
EXTENDS Rollout, FiniteSetTheorems, SequenceTheorems, TLAPS

(***************************************************************************)
(* The bad release: where a script may be while it is what the cluster     *)
(* runs, and that no upgrade is under way outside the loop that watches it.*)
(***************************************************************************)
ControlInv ==
    /\ script \in Scripts /\ cleanFaults \in Nat /\ "template" \in DOMAIN dep
    /\ script = "gate" => pc \in Gate \cup {"start", "helm_wait", "rollout_wait", "over"}
    /\ script = "resiliency" => pc \notin Guarded \cup {"previous", "emergency"}
    /\ upgrade \in {"started", "applied"} => pc = "watch"

BadInv ==
    dep.template = Bad =>
        pc \in {"watch", "verify_bad", "rollback", "emergency"} \/ (pc = "over" /\ cleanFaults # 0)

ReleaseInv == ControlInv /\ BadInv

(***************************************************************************)
(* The gate.  The old pod has the first id and the new one is never taken  *)
(* away; once the old ReplicaSet is without pods it stays so, and what the *)
(* gate read says no more than what holds when it judges.                  *)
(***************************************************************************)
PodRecords == [id : Nat, tmpl : {0, 1}, ready : BOOLEAN, deleting : BOOLEAN]

\* One pod per template.
PodsInv ==
    /\ pods \in SUBSET PodRecords /\ IsFiniteSet(pods) /\ nextPod \in Nat /\ nextPod >= 2
    /\ \A p \in pods : p.id < nextPod /\ (p.tmpl = 0 <=> p.id = 1)
    /\ \A p, q \in pods : p.tmpl = q.tmpl => p = q
    /\ \A p \in pods : p.tmpl = 1 => ~p.deleting /\ rs[1].want = 1

\* The ReplicaSets: the old one has its pod until it is scaled to nothing.
ReplicaSetInv ==
    /\ rs \in [Templates -> [want : 0 .. 1, active : Nat, available : Nat]]
    /\ rs[2].want = 0
    /\ rs[0].want = 1 => Active(0) # {}
    /\ rs[0].active = 0 => Active(0) = {}

\* The Deployment: a status that is current names the template.
DeploymentInv ==
    /\ dep \in [template : {0, 1}, gen : Nat, observed : Nat, rev : {0, 1},
                updated : Nat, available : Nat, total : Nat]
    /\ dep.observed <= dep.gen
    /\ dep.observed = dep.gen => dep.rev = dep.template
    /\ dep.template = 0 => rs[0].want = 1 /\ rs[1].want = 0
    /\ pc \notin {"start", "over"} => dep.template = 1
    /\ pc = "over" /\ exit = 0 => dep.template = 1

\* What the Service points at.
OldIsOut == \A e \in slices : e.ready => e.pod # 1
SlicesInv == \A e \in slices : e.pod = 1 \/ \E p \in pods : p.id = e.pod /\ p.tmpl = 1

\* What the gate has read.
SeenDeployment == seen[1].observed = seen[1].gen => seen[1].rev = 1
SeenReplicaSets == seen[2][0].active = 0 => Active(0) = {}
SeenPods == \A p \in seen[3] : p.tmpl = 1 => p.id # 1
SeenSlices == seen[2][0].active = 0 /\ (\A e \in seen[4] : e.pod # 1) => OldIsOut
SeenInv ==
    /\ pc \in {"start", "helm_wait", "rollout_wait", "gate_deployment"} => seen = <<>>
    /\ pc = "gate_replicasets" => seen = <<seen[1]>> /\ SeenDeployment
    /\ pc = "gate_pods" => seen = <<seen[1], seen[2]>> /\ SeenDeployment /\ SeenReplicaSets
    /\ pc = "gate_endpoints" =>
         seen = <<seen[1], seen[2], seen[3]>> /\ SeenDeployment /\ SeenReplicaSets /\ SeenPods
    /\ pc = "gate_judge" => SeenDeployment /\ SeenReplicaSets /\ SeenPods /\ SeenSlices
    /\ pc = "over" /\ exit = 0 => Active(0) = {} /\ OldIsOut

GateInv ==
    script = "gate" => PodsInv /\ ReplicaSetInv /\ DeploymentInv /\ SlicesInv /\ SeenInv

(***************************************************************************)
(* The way of a healthy script: no command and no pod has failed.  What a  *)
(* ReplicaSet reports may be behind, but of the old one it is never less   *)
(* and of the new one never more than there is, so that the pods wanted of *)
(* the old and the pods reported of the new are always enough.             *)
(***************************************************************************)
ApiPods == [id : Nat, tmpl : 0 .. 3, ready : BOOLEAN, deleting : BOOLEAN]
Live(t) == Cardinality(Active(t))
Up(t) == Cardinality(Active(t) \cap ReadyPods)

Complete == {"checks", "create_probe", "await_probe", "exclude", "delete_probe", "delay_sink",
             "drain", "heal_sink", "persistence", "previous"}
Released == {"start_bad", "watch", "verify_bad", "rollback", "emergency"}
RolledBack == {"rollback_wait", "settle", "verify_rollback"}
Way == {"start", "patch", "sample", "sample_pods", "checks", "delay_sink", "drain", "heal_sink"} \cup
       IF script = "resiliency"
       THEN {"create_probe", "await_probe", "exclude", "delete_probe", "persistence"}
       ELSE {"previous"} \cup Released \cup RolledBack

\* Old pods are ready, new ones stay, and only the probe and the bad release
\* have pods that are never ready.
ApiPodsInv ==
    /\ pods \in SUBSET ApiPods /\ IsFiniteSet(pods) /\ nextPod \in Nat
    /\ \A p \in pods : p.id < nextPod
    /\ \A p, q \in pods : p.id = q.id => p = q
    /\ \A p \in pods : /\ p.tmpl = 0 => p.ready
                       /\ p.tmpl = 1 => ~p.deleting
                       /\ p.tmpl \in {Bad, Bare} => ~p.ready
                       /\ p.tmpl = Bare => script = "resiliency"

\* The ReplicaSets and their pods.
CountInv ==
    /\ rs \in [Templates -> [want : 0 .. 2, active : 0 .. 2, available : 0 .. 2]]
    /\ rs[0].want <= Live(0) /\ Live(0) <= rs[0].available /\ rs[0].available <= rs[0].active
    /\ rs[1].active <= Live(1) /\ Live(1) <= rs[1].want /\ rs[1].available <= Up(1)
    /\ rs[0].want + rs[1].available >= 2
    /\ rs[2].available = 0 /\ rs[2].want <= 1 /\ Live(2) <= 1 /\ rs[2].active <= 1

\* The rolling update is over.
Updated ==
    /\ rs[0].want = 0 /\ Live(0) = 0 /\ rs[1].want = 2 /\ Live(1) = 2 /\ Up(1) = 2
    /\ rs[1].active = 2 /\ rs[1].available = 2

\* The status of the Deployment.
StatusInv ==
    /\ dep \in [template : Templates, gen : Nat, observed : Nat, rev : Templates,
                updated : Nat, available : Nat, total : Nat]
    /\ dep.observed <= dep.gen /\ dep.available >= 2
    /\ dep.template = 0 <=> pc \in {"start", "patch"}
    /\ dep.template = 0 => rs[0].want = 2 /\ rs[1].want = 0 /\ dep.available = 2
    /\ dep.template = 1 /\ dep.observed = dep.gen => dep.updated <= rs[1].active
    /\ dep.template = 1 /\ rollout_complete => Updated

\* After the rolling update the new pods are there and the old ones are gone,
\* though the endpoints may not have followed.
PhaseInv ==
    (pc = "sample_pods" /\ sample.done) \/ pc \in Complete \cup Released \cup RolledBack => Updated

\* The bad release gets one pod, which the rollback takes away again.
SurgeInv ==
    /\ dep.template = Bad <=> pc \in Released /\ upgrade \in {"applied", "ended"}
    /\ dep.template # Bad /\ pc \notin RolledBack => rs[2].want = 0 /\ Live(2) = 0 /\ rs[2].active = 0
    /\ dep.template = Bad =>
         /\ rs[2].active <= Live(2) /\ Live(2) <= rs[2].want
         /\ dep.observed = dep.gen => rs[2].want = 1 /\ dep.updated <= 1
    /\ upgrade = "ended" => /\ rs[2].want <= Live(2) /\ Live(2) <= rs[2].active
                            /\ pc \in Released => rs[2].want = 1
    /\ pc \in RolledBack /\ dep.observed = dep.gen /\ dep.total = 2 => rs[2].want = 0 /\ Live(2) = 0
    /\ pc = "verify_rollback" => rs[2].want = 0 /\ Live(2) = 0

\* The release history.
HistoryInv ==
    /\ helm \in Seq([sink : {"accept", "delay"}, status : {"deployed", "pending", "failed"}])
    /\ Len(helm) > 0 /\ sink \in {"accept", "delay"}
    /\ pc \notin Released \cup RolledBack => upgrade = "none"
    /\ pc = "start_bad" => upgrade = "none"
    /\ pc = "watch" => upgrade \in {"started", "applied", "ended"}
    /\ pc \in {"verify_bad", "rollback", "emergency"} \cup RolledBack => upgrade = "ended"
    /\ pc \in Released \cup RolledBack => prev \in 1 .. Len(helm)
    /\ pc \in Released /\ upgrade \in {"applied", "ended"} => Len(helm) > prev
    /\ pc \in Released /\ upgrade = "ended" => helm[Len(helm)].status = "failed"
    /\ pc \in {"previous"} \cup RolledBack => helm[Len(helm)].status = "deployed"

\* What the sampling loops have seen.
SampleRecords == [done : BOOLEAN, low : BOOLEAN, sent : Nat, misses : Nat, hashes : SUBSET (0 .. 3)]
SampleInv ==
    /\ sample \in SampleRecords /\ ~sample.low
    /\ pc = "checks" => 1 \in sample.hashes
    /\ pc = "emergency" => Interrupted

\* The Service has two pods to send requests to, and not the probe.
EndpointInv ==
    /\ slices \in SUBSET [pod : Nat, ready : BOOLEAN]
    /\ \E e, f \in slices : e.ready /\ f.ready /\ e.pod # f.pod
    /\ \A e \in slices : e.pod < nextPod
    /\ \A p \in pods, e \in slices : p.tmpl = Bare /\ e.pod = p.id => ~e.ready

ApiInv ==
    /\ script \in {"rollout_smoke", "resiliency"} /\ pc \in Way
    /\ ApiPodsInv /\ CountInv /\ StatusInv /\ PhaseInv /\ SurgeInv
    /\ HistoryInv /\ SampleInv /\ EndpointInv

HealthyInv ==
    /\ faults \in Nat /\ crashes \in Nat
    /\ faults = 0 /\ crashes = 0 =>
         /\ pc = "over" => exit = 0 \/ (script = "rollout_smoke" /\ Interrupted)
         /\ pc # "over" /\ script # "gate" => ApiInv

(***************************************************************************)
(* Types and bounds, whatever fails.  No ReplicaSet has more pods than are *)
(* desired, and that of the bad release, of which none is ever available,  *)
(* not more than the surge: the old pods are kept for it.                  *)
(***************************************************************************)
\* The pods of the old template were there from the start.
PodKept(p) ==
    /\ p.tmpl = 0 => p.id \in 1 .. Desired
    /\ p.tmpl = 1 => ~p.deleting
    /\ p.tmpl \in {Bad, Bare} => ~p.ready
RecordsInv ==
    /\ pods \in SUBSET ApiPods /\ IsFiniteSet(pods) /\ nextPod \in Nat
    /\ \A p \in pods : p.id < nextPod /\ PodKept(p)
    /\ \A p, q \in pods : p.id = q.id => p = q
    /\ slices \in SUBSET [pod : Nat, ready : BOOLEAN]
    /\ \A e \in slices : e.pod < nextPod

\* A ReplicaSet reports what there was; the new one never loses a pod.
BoundsInv ==
    /\ rs \in [Templates -> [want : 0 .. Desired, active : 0 .. Desired, available : 0 .. Desired]]
    /\ \A t \in Templates : rs[t].available <= rs[t].active /\ Live(t) <= Desired
    /\ rs[0].want <= Live(0) /\ Live(0) <= rs[0].active
    /\ rs[1].active <= Live(1) /\ Live(1) <= rs[1].want
    /\ rs[2].available = 0 /\ rs[2].want <= MaxSurge /\ Live(2) <= MaxSurge /\ rs[2].active <= MaxSurge

\* The Deployment, and what the bad release finds: the new pods only.
Late == Complete \cup Released \cup RolledBack
DeployedInv ==
    /\ dep \in [template : Templates, gen : Nat, observed : Nat, rev : Templates, updated : 0 .. Desired,
                available : 0 .. 2 * Desired + MaxSurge, total : 0 .. 2 * Desired + MaxSurge]
    /\ dep.observed <= dep.gen
    /\ dep.template = 0 => rs[0].want = Desired /\ rs[1].want = 0 /\ rs[2].want = 0
    /\ dep.template = 1 /\ dep.observed = dep.gen => dep.updated <= rs[1].active
    /\ dep.template = 1 /\ dep.observed = dep.gen /\ dep.updated = Desired /\ dep.total = Desired
         => rs[0].want = 0
    /\ pc \in {"sample", "sample_pods"} => dep.template = 1
    /\ (pc = "sample_pods" /\ sample.done) \/ pc \in Late \/ dep.template = Bad
         => dep.template # 0 /\ rs[1].want = Desired /\ rs[0].want = 0

Places == Gate \cup Guarded \cup
    {"start", "patch", "sample", "sample_pods", "checks", "create_probe", "await_probe", "exclude",
     "delete_probe", "undo_probe", "delay_sink", "drain", "heal_sink", "previous", "persistence",
     "upgrade", "helm_wait", "rollout_wait", "emergency", "over"}
Samples == [done : BOOLEAN, low : BOOLEAN, sent : Nat, misses : 0 .. 2, hashes : SUBSET (0 .. 3)]
Sent(x) == x.sent <= RequestSamples \/ x.sent <= BadSamples
Revisions == [sink : {"accept", "delay"}, status : {"deployed", "pending", "failed"}]

\* The script itself and the release history.
ScriptInv ==
    /\ exit \in {0, 1, 2} /\ pc \in Places
    /\ sample \in Samples /\ Sent(sample)
    /\ helm \in Seq(Revisions) /\ Len(helm) > 0 /\ prev \in 0 .. Len(helm)
    /\ upgrade \in {"none", "started", "applied", "ended"} /\ sink \in {"accept", "delay"}
    /\ faults \in 0 .. MaxFaults /\ crashes \in 0 .. MaxCrashes /\ cleanFaults \in 0 .. faults
    /\ pc \in Guarded \cup {"emergency"} => prev > 0

TypeInv == RecordsInv /\ BoundsInv /\ DeployedInv /\ ScriptInv

\* While no pod fails, a ready endpoint is an old pod or a new one that answers.
ServingInv ==
    crashes = 0 => \A e \in slices :
        e.ready => e.pod \in 1 .. Desired \/ \E p \in pods : p.id = e.pod /\ p.tmpl = 1 /\ p.ready

\* Until a template is changed there are pods of one template only.
StartInv == dep.template = 0 => \A p \in pods : p.tmpl = 0

IInv == ReleaseInv /\ GateInv /\ HealthyInv /\ TypeInv /\ ServingInv /\ StartInv

(***************************************************************************)
(* The bad release.                                                        *)
(***************************************************************************)
\* What a change of the template does to the Deployment (kubectl patch, helm).
LEMMA Templated ==
    ASSUME "template" \in DOMAIN dep, NEW t, SetTemplate(t)
    PROVE  dep'.template = t /\ "template" \in DOMAIN dep'
BY DEF SetTemplate

\* Kubernetes and failing pods change neither the template nor the script.
LEMMA ClusterReleaseStep ==
    ASSUME ReleaseInv, Kubernetes \/ PodFails
    PROVE  ReleaseInv'
<1>1. /\ dep'.template = dep.template /\ "template" \in DOMAIN dep'
      /\ UNCHANGED script /\ UNCHANGED pc /\ UNCHANGED upgrade /\ UNCHANGED cleanFaults
  <2>0. "template" \in DOMAIN dep
    BY DEF ReleaseInv, ControlInv
  <2>1. CASE DeploymentSync
    <3>1. PICK a, b, c, d, e : dep' = [dep EXCEPT !.observed = a, !.rev = b, !.updated = c,
                                                  !.available = d, !.total = e]
      BY <2>1 DEF DeploymentSync
    <3> QED BY <2>0, <2>1, <3>1 DEF DeploymentSync, scriptVars, release
  <2>2. CASE PodReady \/ PodGone \/ EndpointSync \/ PodFails
    BY <2>0, <2>2 DEF PodReady, PodGone, EndpointSync, PodFails, scriptVars, release
  <2>3. ASSUME NEW t \in Templates, ReplicaSetScale(t) \/ ReplicaSetStatus(t)
        PROVE  UNCHANGED dep /\ UNCHANGED scriptVars
    BY <2>3 DEF ReplicaSetScale, ReplicaSetStatus
  <2> QED BY <2>0, <2>1, <2>2, <2>3 DEF Kubernetes, scriptVars, release
<1> QED BY <1>1 DEF ReleaseInv, ControlInv, BadInv

\* Steps of a script before the bad release, with no upgrade under way.
LEMMA EarlyStep ==
    ASSUME ReleaseInv, UNCHANGED script, UNCHANGED upgrade, UNCHANGED cleanFaults,
           pc \notin {"watch", "verify_bad", "rollback", "emergency", "over"},
           dep'.template = dep.template \/ dep'.template = 1, "template" \in DOMAIN dep',
           script = "gate" => pc' \in Gate \cup {"start", "helm_wait", "rollout_wait", "over"},
           script = "resiliency" => pc' \notin Guarded \cup {"previous", "emergency"}
    PROVE  ReleaseInv'
<1>1. dep.template # Bad
  BY DEF ReleaseInv, BadInv
<1>2. dep'.template # Bad
  BY <1>1 DEF Bad
<1> QED BY <1>2 DEF ReleaseInv, ControlInv, BadInv

\* A failed check or command leads to main's finally while a bad release may
\* be there (main of rollout_smoke.py).
LEMMA RaiseStep ==
    ASSUME ReleaseInv, UNCHANGED script, UNCHANGED cleanFaults, UNCHANGED dep,
           pc # "over", pc # "emergency", Raise,
           upgrade' \notin {"started", "applied"} \/ (upgrade' = upgrade /\ pc # "watch")
    PROVE  ReleaseInv'
<1>1. script \in {"gate", "rollout_smoke", "resiliency"}
  BY RolloutAssumption DEF ReleaseInv, ControlInv
<1>2. upgrade' \notin {"started", "applied"}
  BY DEF ReleaseInv, ControlInv
<1>3. CASE script = "rollout_smoke" /\ pc \in Guarded
  BY <1>2, <1>3 DEF Raise, Goto, ReleaseInv, ControlInv, BadInv
<1>4. CASE ~(script = "rollout_smoke" /\ pc \in Guarded)
  <2>1. pc \notin Guarded
    BY <1>1, <1>4 DEF ReleaseInv, ControlInv, Guarded, Gate
  <2>2. dep.template # Bad
    BY <2>1 DEF ReleaseInv, BadInv, Guarded
  <2>3. pc' \in {"undo_probe", "over"} /\ (pc' = "undo_probe" => script # "gate")
    BY <1>4 DEF Raise, Goto, Over, ReleaseInv, ControlInv, Gate
  <2> QED BY <1>2, <2>2, <2>3 DEF ReleaseInv, ControlInv, BadInv, Guarded
<1> QED BY <1>3, <1>4

\* A check that passes or raises, before the bad release.
LEMMA CheckStep ==
    ASSUME ReleaseInv, UNCHANGED script, UNCHANGED cleanFaults, UNCHANGED dep, UNCHANGED upgrade,
           pc \notin {"watch", "verify_bad", "rollback", "emergency", "over"},
           \/ Raise
           \/ /\ script = "gate" => pc' \in Gate \cup {"start", "helm_wait", "rollout_wait", "over"}
              /\ script = "resiliency" => pc' \notin Guarded \cup {"previous", "emergency"}
    PROVE  ReleaseInv'
<1>1. CASE Raise
  BY <1>1, RaiseStep
<1>2. CASE /\ script = "gate" => pc' \in Gate \cup {"start", "helm_wait", "rollout_wait", "over"}
           /\ script = "resiliency" => pc' \notin Guarded \cup {"previous", "emergency"}
  <2>1. "template" \in DOMAIN dep' /\ dep'.template = dep.template
    BY DEF ReleaseInv, ControlInv
  <2> QED BY <1>2, <2>1, EarlyStep
<1> QED BY <1>1, <1>2

\* The gate.
LEMMA GateReleaseStep ==
    ASSUME ReleaseInv,
           configure_sink_helm \/ read_mock_sink_rollout_objects \/ wait_for_mock_sink_rollout
    PROVE  ReleaseInv'
<1> USE DEF Goto, Over, still, cluster, release
<1>0. "template" \in DOMAIN dep
  BY DEF ReleaseInv, ControlInv
<1>1. CASE configure_sink_helm
  <2>1. CASE pc = "start" /\ script = "gate" /\ SetTemplate(1) /\ Goto("helm_wait")
             /\ UNCHANGED <<still, rs, pods, slices, nextPod, local, release>>
    <3>1. dep'.template = 1 /\ "template" \in DOMAIN dep'
      BY <1>0, <2>1, Templated
    <3>2. UNCHANGED script /\ UNCHANGED upgrade /\ UNCHANGED cleanFaults /\ pc' = "helm_wait"
          /\ pc = "start" /\ script = "gate"
      BY <2>1
    <3> QED BY <3>1, <3>2, EarlyStep DEF Guarded
  <2>2. CASE pc \in {"helm_wait", "rollout_wait"} /\ pc' \in {"rollout_wait", "gate_deployment"}
             /\ UNCHANGED <<still, cluster, local, release>>
    <3>1. UNCHANGED script /\ UNCHANGED upgrade /\ UNCHANGED cleanFaults /\ UNCHANGED dep
      BY <2>2
    <3> QED BY <2>2, <3>1, CheckStep DEF Guarded, Gate
  <2> QED BY <1>1, <2>1, <2>2 DEF configure_sink_helm, Check
<1>2. CASE read_mock_sink_rollout_objects
  <2>1. pc \in Gate /\ pc' \in Gate /\ UNCHANGED script /\ UNCHANGED upgrade /\ UNCHANGED cleanFaults /\ UNCHANGED dep
    BY <1>2 DEF read_mock_sink_rollout_objects, Read, Gate
  <2> QED BY <2>1, CheckStep DEF Guarded, Gate
<1>3. CASE wait_for_mock_sink_rollout
  <2>1. pc \in Gate /\ pc' \in Gate \cup {"over"} /\ UNCHANGED script /\ UNCHANGED upgrade
        /\ UNCHANGED cleanFaults /\ UNCHANGED dep
    BY <1>3 DEF wait_for_mock_sink_rollout, Gate
  <2> QED BY <2>1, CheckStep DEF Guarded, Gate
<1> QED BY <1>1, <1>2, <1>3

\* The rolling update, the probe pod, the worker drill and the persistence
\* check: the scripts but the gate, before the bad release.
LEMMA DrillReleaseStep ==
    ASSUME ReleaseInv,
           \/ verify_rollout_contract \/ Patch \/ Sample \/ SamplePods \/ verify_normal_rollout
           \/ create_unready_api_pod \/ verify_not_ready_endpoint_exclusion
           \/ verify_worker_shutdown_and_recovery \/ verify_redis_persistence \/ deployed_revision
    PROVE  ReleaseInv'
<1> DEFINE Before == {"start", "patch", "sample", "sample_pods", "checks", "create_probe", "await_probe",
                      "exclude", "delete_probe", "undo_probe", "delay_sink", "drain", "heal_sink",
                      "persistence", "previous"}
           Out == {"patch", "sample", "sample_pods", "checks", "create_probe", "await_probe",
                   "exclude", "delete_probe", "undo_probe", "delay_sink", "drain", "heal_sink",
                   "persistence", "over"}
<1> USE DEF Goto, Over, still, cluster, release
<1>0. "template" \in DOMAIN dep
  BY DEF ReleaseInv, ControlInv
<1>1. ASSUME UNCHANGED script, UNCHANGED upgrade, UNCHANGED cleanFaults, UNCHANGED dep,
             pc \in Before, script # "gate",
             Raise \/ pc' \in Out \/ (script # "resiliency" /\ pc' \in {"previous", "start_bad"})
      PROVE  ReleaseInv'
  BY <1>1, CheckStep DEF Guarded
<1>2. pc \in Before \ {"start"} => script # "gate"
  BY DEF ReleaseInv, ControlInv, Gate
<1>3. CASE Patch
  <2>1. UNCHANGED script /\ UNCHANGED upgrade /\ UNCHANGED cleanFaults /\ pc = "patch"
        /\ ((SetTemplate(1) /\ pc' = "sample") \/ (Raise /\ UNCHANGED dep))
    BY <1>3 DEF Patch
  <2>2. CASE SetTemplate(1) /\ pc' = "sample"
    <3>1. dep'.template = 1 /\ "template" \in DOMAIN dep'
      BY <1>0, <2>2, Templated
    <3> QED BY <1>2, <2>1, <2>2, <3>1, EarlyStep DEF Guarded
  <2>3. CASE Raise /\ UNCHANGED dep
    BY <1>1, <1>2, <2>1, <2>3
  <2> QED BY <2>1, <2>2, <2>3
<1>4. CASE verify_rollout_contract \/ verify_normal_rollout
  <2>1. UNCHANGED script /\ UNCHANGED upgrade /\ UNCHANGED cleanFaults /\ UNCHANGED dep /\ pc \in Before
        /\ script # "gate" /\ (Raise \/ pc' \in Out)
    BY <1>2, <1>4 DEF verify_rollout_contract, verify_normal_rollout, Check
  <2> QED BY <1>1, <2>1
<1>5. CASE Sample \/ SamplePods
  <2>1. UNCHANGED script /\ UNCHANGED upgrade /\ UNCHANGED cleanFaults /\ UNCHANGED dep /\ pc \in Before
        /\ script # "gate" /\ pc' \in Out
    BY <1>2, <1>5 DEF Sample, SamplePods
  <2> QED BY <1>1, <2>1
<1>6. CASE create_unready_api_pod \/ verify_not_ready_endpoint_exclusion
  <2>1. UNCHANGED script /\ UNCHANGED upgrade /\ UNCHANGED cleanFaults /\ UNCHANGED dep /\ pc \in Before
        /\ script # "gate" /\ (Raise \/ pc' \in Out)
    BY <1>2, <1>6 DEF create_unready_api_pod, verify_not_ready_endpoint_exclusion, Check
  <2> QED BY <1>1, <2>1
<1>7. CASE verify_worker_shutdown_and_recovery \/ verify_redis_persistence
  <2>1. UNCHANGED script /\ UNCHANGED upgrade /\ UNCHANGED cleanFaults /\ UNCHANGED dep /\ pc \in Before
        /\ script # "gate" /\ (Raise \/ pc' \in Out \/ (script # "resiliency" /\ pc' = "previous"))
    BY <1>2, <1>7 DEF verify_worker_shutdown_and_recovery, configure_mock_sink, verify_redis_persistence, Check
  <2> QED BY <1>1, <2>1
<1>8. CASE deployed_revision
  <2>1. pc = "previous" /\ script # "resiliency"
    BY <1>8 DEF deployed_revision, ReleaseInv, ControlInv
  <2>2. UNCHANGED script /\ UNCHANGED upgrade /\ UNCHANGED cleanFaults /\ UNCHANGED dep
        /\ (Raise \/ pc' = "start_bad")
    BY <1>8 DEF deployed_revision
  <2> QED BY <1>1, <1>2, <2>1, <2>2
<1> QED BY <1>3, <1>4, <1>5, <1>6, <1>7, <1>8

\* The bad release is applied only while it is watched, and every way out
\* leads through a rollback.
LEMMA BadReleaseStep ==
    ASSUME ReleaseInv, verify_bad_release \/ rollback_release \/ Helm
    PROVE  ReleaseInv'
<1> USE DEF Goto, Over, still, cluster, release
<1>0. script \in {"gate", "rollout_smoke", "resiliency"} /\ "template" \in DOMAIN dep /\ cleanFaults \in Nat
  BY RolloutAssumption DEF ReleaseInv, ControlInv
<1>1. pc \in Guarded => script = "rollout_smoke"
  BY <1>0 DEF ReleaseInv, ControlInv, Guarded, Gate
<1>2. CASE verify_bad_release
  <2>1. CASE pc = "start_bad"
    BY <1>0, <1>1, <1>2, <2>1 DEF verify_bad_release, ReleaseInv, ControlInv, BadInv, Guarded, Check
  <2>2. CASE pc = "watch"
    <3>1. pc' = (IF upgrade = "ended" THEN "verify_bad" ELSE "watch") /\ UNCHANGED dep
          /\ UNCHANGED script /\ UNCHANGED upgrade /\ UNCHANGED cleanFaults
      BY <1>2, <2>2 DEF verify_bad_release, Check
    <3> QED BY <1>0, <1>1, <2>2, <3>1 DEF ReleaseInv, ControlInv, BadInv, Guarded
  <2>3. CASE pc = "verify_bad"
    <3>1. UNCHANGED dep /\ UNCHANGED script /\ UNCHANGED upgrade /\ UNCHANGED cleanFaults
          /\ (Raise \/ pc' = "rollback")
      BY <1>2, <2>3 DEF verify_bad_release, Check
    <3>2. CASE Raise
      BY <2>3, <3>1, <3>2, RaiseStep
    <3>3. CASE pc' = "rollback"
      BY <1>0, <1>1, <2>3, <3>1, <3>3 DEF ReleaseInv, ControlInv, BadInv, Guarded
    <3> QED BY <3>1, <3>2, <3>3
  <2> QED BY <1>2, <2>1, <2>2, <2>3 DEF verify_bad_release
<1>3. CASE rollback_release
  <2>1. CASE pc = "rollback"
    <3>1. SetTemplate(1) /\ pc' = "rollback_wait" /\ UNCHANGED script /\ UNCHANGED upgrade
          /\ UNCHANGED cleanFaults
      BY <1>3, <2>1 DEF rollback_release, Rollback
    <3>2. dep'.template # Bad /\ "template" \in DOMAIN dep'
      BY <1>0, <3>1, Templated DEF Bad
    <3> QED BY <1>0, <1>1, <2>1, <3>1, <3>2 DEF ReleaseInv, ControlInv, BadInv, Guarded
  <2>2. CASE pc \in {"rollback_wait", "settle", "verify_rollback"}
    <3>1. UNCHANGED dep /\ UNCHANGED script /\ UNCHANGED upgrade /\ UNCHANGED cleanFaults
          /\ (Raise \/ pc' \in {"settle", "verify_rollback", "over"})
      BY <1>3, <2>2 DEF rollback_release, Check
    <3>2. script = "rollout_smoke"
      BY <1>1, <2>2 DEF Guarded
    <3> QED BY <2>2, <3>1, <3>2, CheckStep
  <2> QED BY <1>3, <2>1, <2>2 DEF rollback_release
<1>4. CASE HelmUpgradeApplies
  <2>1. pc = "watch" /\ SetTemplate(Bad) /\ UNCHANGED pc /\ UNCHANGED script /\ UNCHANGED cleanFaults
    BY <1>4 DEF HelmUpgradeApplies, ReleaseInv, ControlInv
  <2>2. "template" \in DOMAIN dep'
    BY <1>0, <2>1, Templated
  <2> QED BY <2>1, <2>2 DEF ReleaseInv, ControlInv, BadInv
<1>5. CASE HelmUpgradeTimesOut
  <2>1. UNCHANGED dep /\ UNCHANGED pc /\ UNCHANGED script /\ UNCHANGED cleanFaults /\ upgrade' = "ended"
    BY <1>5 DEF HelmUpgradeTimesOut
  <2> QED BY <2>1 DEF ReleaseInv, ControlInv, BadInv
<1> QED BY <1>2, <1>3, <1>4, <1>5 DEF Helm

\* main's finally and a command that raises.
LEMMA FailureReleaseStep ==
    ASSUME ReleaseInv, Emergency \/ CommandFails
    PROVE  ReleaseInv'
<1> USE DEF Over, still, cluster, release
<1>0. "template" \in DOMAIN dep /\ cleanFaults \in Nat
  BY DEF ReleaseInv, ControlInv
<1>1. CASE Emergency
  <2>1. pc = "emergency" /\ pc' = "over" /\ UNCHANGED script /\ UNCHANGED upgrade
    BY <1>1 DEF Emergency
  <2>2. CASE SetTemplate(1) /\ UNCHANGED cleanFaults
    <3>1. dep'.template # Bad /\ "template" \in DOMAIN dep'
      BY <1>0, <2>2, Templated DEF Bad
    <3> QED BY <2>1, <2>2, <3>1 DEF ReleaseInv, ControlInv, BadInv, Gate, Guarded
  <2>3. CASE cleanFaults' = cleanFaults + 1 /\ UNCHANGED dep
    <3>1. cleanFaults' \in Nat /\ cleanFaults' # 0
      BY <1>0, <2>3
    <3> QED BY <2>1, <2>3, <3>1 DEF ReleaseInv, ControlInv, BadInv, Gate, Guarded
  <2> QED BY <1>1, <2>2, <2>3 DEF Emergency, Rollback
<1>2. CASE CommandFails
  <2>1. UNCHANGED script /\ UNCHANGED cleanFaults /\ UNCHANGED dep /\ pc # "over" /\ pc # "emergency" /\ Raise
        /\ upgrade' = IF pc = "watch" THEN "none" ELSE upgrade
    BY <1>2 DEF CommandFails
  <2> QED BY <2>1, RaiseStep
<1> QED BY <1>1, <1>2

\* The invariant of the bad release.
LEMMA ReleaseInvariance ==
    /\ Init => ReleaseInv
    /\ ReleaseInv /\ [Next]_vars => ReleaseInv'
<1>1. Init => ReleaseInv
  BY DEF Init, ReleaseInv, ControlInv, BadInv, Bad, Gate, Guarded
<1>2. ReleaseInv /\ [Next]_vars => ReleaseInv'
  <2> SUFFICES ASSUME ReleaseInv, [Next]_vars PROVE ReleaseInv'
    OBVIOUS
  <2>1. CASE Kubernetes \/ PodFails
    BY <2>1, ClusterReleaseStep
  <2>2. CASE Script
    BY <2>2, GateReleaseStep, DrillReleaseStep, BadReleaseStep, FailureReleaseStep DEF Script
  <2>3. CASE Helm \/ CommandFails
    BY <2>3, BadReleaseStep, FailureReleaseStep
  <2>4. CASE UNCHANGED vars
    BY <2>4 DEF vars, cluster, release, ReleaseInv, ControlInv, BadInv
  <2> QED BY <2>1, <2>2, <2>3, <2>4 DEF Next
<1> QED BY <1>1, <1>2

(***************************************************************************)
(* The gate.                                                               *)
(***************************************************************************)
\* At most one pod of a template is counted (the status of a ReplicaSet).
LEMMA Counted ==
    ASSUME script = "gate", PodsInv, NEW t \in Templates
    PROVE  /\ Cardinality(Active(t)) \in 0 .. 1 /\ Cardinality(Active(t) \cap ReadyPods) \in Nat
           /\ Cardinality(Active(t)) = 0 <=> Active(t) = {}
           /\ t = 2 => Active(t) = {}
<1>1. IsFiniteSet(Active(t)) /\ IsFiniteSet(Active(t) \cap ReadyPods)
  <2>1. Active(t) \subseteq pods /\ (Active(t) \cap ReadyPods) \subseteq pods /\ IsFiniteSet(pods)
    BY DEF Active, PodsInv
  <2> QED BY <2>1, FS_Subset
<1>2. Cardinality(Active(t)) \in Nat /\ Cardinality(Active(t) \cap ReadyPods) \in Nat
  BY <1>1, FS_CardinalityType
<1>3. CASE Active(t) = {}
  <2>1. Cardinality(Active(t)) = 0
    BY <1>3, FS_EmptySet
  <2> QED BY <1>2, <1>3, <2>1
<1>4. CASE Active(t) # {}
  <2>1. PICK p : p \in Active(t)
    BY <1>4
  <2>2. Active(t) = {p}
    BY <2>1 DEF Active, PodsInv
  <2>3. Cardinality(Active(t)) = 1
    BY <2>2, FS_Singleton
  <2>4. t # 2
    BY <2>1 DEF Active, PodsInv, PodRecords
  <2> QED BY <1>2, <1>4, <2>3, <2>4
<1> QED BY <1>3, <1>4

\* The Deployment controller takes away the old pod and never the new one.
LEMMA DeploymentGateStep ==
    ASSUME ReleaseInv, GateInv, script = "gate", DeploymentSync
    PROVE  GateInv'
<1> DEFINE t == dep.template
           old == {o \in Templates \ {t} : rs[o].want > 0}
<1>0. PodsInv /\ ReplicaSetInv /\ DeploymentInv /\ SlicesInv /\ SeenInv
  BY DEF GateInv
<1>1. t \in {0, 1} /\ dep.gen \in Nat
  BY <1>0 DEF DeploymentInv
<1>2. /\ dep' = [dep EXCEPT !.observed = dep.gen, !.rev = t, !.updated = rs[t].active,
                            !.available = Sum("available"), !.total = Sum("active")]
      /\ \/ rs[t].want < 1 /\ rs' = [rs EXCEPT ![t].want = @ + 1]
         \/ \E o \in old : rs' = [rs EXCEPT ![o].want = @ - 1]
         \/ rs' = rs
      /\ UNCHANGED script /\ UNCHANGED pc /\ UNCHANGED exit /\ UNCHANGED seen
      /\ UNCHANGED pods /\ UNCHANGED slices /\ UNCHANGED nextPod
  BY DEF DeploymentSync, scriptVars, local, Desired
<1>3. rs \in [Templates -> [want : 0 .. 1, active : Nat, available : Nat]] /\ rs[2].want = 0
  BY <1>0 DEF ReplicaSetInv
<1>4. 0 \in Templates /\ 1 \in Templates /\ 2 \in Templates /\ t \in Templates
  BY <1>1 DEF Templates
<1>5. rs[t].active \in Nat /\ Sum("available") \in Nat /\ Sum("active") \in Nat
  BY <1>3, <1>4 DEF Sum
<1>6. /\ rs' \in [Templates -> [want : 0 .. 1, active : Nat, available : Nat]]
      /\ rs'[0].active = rs[0].active
      /\ rs'[2].want = 0
      /\ rs'[t].want >= rs[t].want
      /\ t = 1 => rs'[0].want <= rs[0].want
      /\ t = 0 => rs'[0].want = 1 /\ rs'[1].want = 0
  <2>1. CASE rs[t].want < 1 /\ rs' = [rs EXCEPT ![t].want = @ + 1]
    <3>1. t = 1 /\ rs[t].want = 0
      BY <1>0, <1>1, <1>3, <1>4, <2>1 DEF DeploymentInv
    <3> QED BY <1>3, <1>4, <2>1, <3>1
  <2>2. CASE \E o \in old : rs' = [rs EXCEPT ![o].want = @ - 1]
    <3>1. PICK o \in old : rs' = [rs EXCEPT ![o].want = @ - 1]
      BY <2>2
    <3>2. o \in Templates /\ o # t /\ rs[o].want = 1
      BY <1>3, <3>1
    <3>3. t = 1 /\ o = 0
      BY <1>0, <1>1, <1>3, <3>2 DEF DeploymentInv, Templates
    <3> QED BY <1>3, <1>4, <3>1, <3>2, <3>3
  <2>3. CASE rs' = rs
    BY <1>0, <1>3, <1>4, <2>3 DEF DeploymentInv
  <2> QED BY <1>2, <2>1, <2>2, <2>3
<1>7. PodsInv'
  <2>1. \A p \in pods : p.tmpl = 1 => ~p.deleting /\ rs'[1].want = 1
    <3> SUFFICES ASSUME NEW p \in pods, p.tmpl = 1 PROVE ~p.deleting /\ rs'[1].want = 1
      OBVIOUS
    <3>1. ~p.deleting /\ rs[1].want = 1
      BY <1>0 DEF PodsInv
    <3>2. t = 1
      BY <1>0, <1>1, <3>1 DEF DeploymentInv
    <3>3. rs'[1].want \in 0 .. 1 /\ rs'[1].want >= rs[1].want
      BY <1>4, <1>6, <3>2
    <3> QED BY <3>1, <3>3
  <2> QED BY <1>0, <1>2, <2>1 DEF PodsInv
<1>8. Active(0)' = Active(0)
  BY <1>2 DEF Active
<1>9. ReplicaSetInv'
  <2>1. rs'[0].want = 1 => rs[0].want = 1
    BY <1>0, <1>1, <1>3, <1>4, <1>6 DEF DeploymentInv
  <2> QED BY <1>0, <1>6, <1>8, <2>1 DEF ReplicaSetInv
<1>10. DeploymentInv'
  <2>1. /\ dep' \in [template : {0, 1}, gen : Nat, observed : Nat, rev : {0, 1},
                     updated : Nat, available : Nat, total : Nat]
        /\ dep'.template = t /\ dep'.gen = dep.gen /\ dep'.observed = dep.gen /\ dep'.rev = t
    BY <1>0, <1>1, <1>2, <1>5 DEF DeploymentInv
  <2> HIDE DEF t
  <2>2. t = dep.template
    BY DEF t
  <2> QED BY <1>0, <1>1, <1>2, <1>6, <2>1, <2>2 DEF DeploymentInv
<1>11. SlicesInv' /\ SeenInv'
  BY <1>0, <1>2, <1>8 DEF SlicesInv, SeenInv, OldIsOut, SeenDeployment, SeenReplicaSets, SeenPods, SeenSlices
<1> QED BY <1>7, <1>9, <1>10, <1>11 DEF GateInv

\* What the gate read, as long as the old pod does not come back.
LEMMA SeenFrame ==
    ASSUME SeenInv, UNCHANGED pc, UNCHANGED exit, UNCHANGED seen, UNCHANGED slices,
           Active(0) = {} => Active(0)' = {}
    PROVE  SeenInv'
BY DEF SeenInv, OldIsOut, SeenDeployment, SeenReplicaSets, SeenPods, SeenSlices

\* A pod changes its readiness (PodReady, PodFails), or the old pod is marked
\* for deletion.
LEMMA PodChanges ==
    ASSUME GateInv, script = "gate", NEW p \in pods, NEW q \in PodRecords, q.id = p.id, q.tmpl = p.tmpl,
           pods' = (pods \ {p}) \cup {q},
           p.deleting => q.deleting, q.deleting => p.deleting \/ (p.tmpl = 0 /\ rs[0].want = 0),
           UNCHANGED script, UNCHANGED pc, UNCHANGED exit, UNCHANGED seen, UNCHANGED dep, UNCHANGED rs,
           UNCHANGED slices, UNCHANGED nextPod
    PROVE  GateInv'
<1>0. PodsInv /\ ReplicaSetInv /\ DeploymentInv /\ SlicesInv /\ SeenInv
  BY DEF GateInv
<1>1. PodsInv'
  <2>1. IsFiniteSet(pods')
    <3>1. IsFiniteSet(pods \ {p})
      BY <1>0, FS_RemoveElement DEF PodsInv
    <3> QED BY <3>1, FS_AddElement
  <2>2. pods' \in SUBSET PodRecords
    BY <1>0 DEF PodsInv
  <2>3. \A x \in pods' : x.id < nextPod /\ (x.tmpl = 0 <=> x.id = 1)
    BY <1>0 DEF PodsInv
  <2>4. \A x, y \in pods' : x.tmpl = y.tmpl => x = y
    BY <1>0 DEF PodsInv
  <2>5. \A x \in pods' : x.tmpl = 1 => ~x.deleting /\ rs[1].want = 1
    BY <1>0 DEF PodsInv
  <2> QED BY <1>0, <2>1, <2>2, <2>3, <2>4, <2>5 DEF PodsInv
<1>2. Active(0) = {} => Active(0)' = {}
  <2>1. Active(0)' = {x \in pods' : x.tmpl = 0 /\ ~x.deleting}
    BY DEF Active
  <2> QED BY <2>1 DEF Active
<1>3. rs[0].want = 1 => (Active(0) # {} => Active(0)' # {})
  <2>1. Active(0)' = {x \in pods' : x.tmpl = 0 /\ ~x.deleting}
    BY DEF Active
  <2>2. rs[0].want = 1 => (q.deleting => p.deleting)
    OBVIOUS
  <2> QED BY <2>1, <2>2 DEF Active
<1>4. ReplicaSetInv'
  BY <1>0, <1>2, <1>3 DEF ReplicaSetInv
<1>5. DeploymentInv'
  BY <1>0 DEF DeploymentInv
<1>6. SlicesInv'
  BY <1>0 DEF SlicesInv
<1>7. SeenInv'
  BY <1>0, <1>2, SeenFrame
<1> QED BY <1>1, <1>4, <1>5, <1>6, <1>7 DEF GateInv

\* A pod becomes ready or fails; a pod that was marked is gone.
LEMMA PodGateStep ==
    ASSUME ReleaseInv, GateInv, script = "gate", PodReady \/ PodFails \/ PodGone
    PROVE  GateInv'
<1>0. PodsInv /\ ReplicaSetInv /\ DeploymentInv /\ SlicesInv /\ SeenInv
  BY DEF GateInv
<1>1. /\ UNCHANGED script /\ UNCHANGED pc /\ UNCHANGED exit /\ UNCHANGED seen /\ UNCHANGED dep
      /\ UNCHANGED rs /\ UNCHANGED slices /\ UNCHANGED nextPod
  BY DEF PodReady, PodFails, PodGone, scriptVars, local
<1>2. CASE PodReady \/ PodFails
  <2>1. PICK p \in pods, r \in BOOLEAN : pods' = (pods \ {p}) \cup {[p EXCEPT !.ready = r]}
    BY <1>2 DEF PodReady, PodFails, ReadyPods, NotReadyPods
  <2>2. PICK q : q = [p EXCEPT !.ready = r]
    OBVIOUS
  <2>3. p \in PodRecords
    BY <1>0 DEF PodsInv
  <2>4. q \in PodRecords /\ q.id = p.id /\ q.tmpl = p.tmpl /\ q.deleting = p.deleting
    BY <2>2, <2>3 DEF PodRecords
  <2>5. pods' = (pods \ {p}) \cup {q}
    BY <2>1, <2>2
  <2> QED BY <1>1, <2>4, <2>5, PodChanges
<1>3. CASE PodGone
  <2>1. PICK p \in pods : p.deleting /\ pods' = pods \ {p}
    BY <1>3 DEF PodGone
  <2>2. p.tmpl # 1
    BY <1>0, <2>1 DEF PodsInv
  <2>3. Active(0)' = Active(0)
    BY <2>1 DEF Active
  <2>4. PodsInv'
    <3>1. IsFiniteSet(pods')
      BY <1>0, <2>1, FS_RemoveElement DEF PodsInv
    <3> QED BY <1>0, <1>1, <2>1, <3>1 DEF PodsInv
  <2>5. ReplicaSetInv' /\ DeploymentInv'
    BY <1>0, <1>1, <2>3 DEF ReplicaSetInv, DeploymentInv
  <2>6. SlicesInv'
    BY <1>0, <1>1, <2>1, <2>2 DEF SlicesInv
  <2>7. SeenInv'
    BY <1>0, <1>1, <2>3, SeenFrame
  <2> QED BY <2>4, <2>5, <2>6, <2>7 DEF GateInv
<1> QED BY <1>2, <1>3

\* The endpoints follow the pods: without an active old pod, not to it.
LEMMA EndpointGateStep ==
    ASSUME ReleaseInv, GateInv, script = "gate", EndpointSync
    PROVE  GateInv'
<1>0. PodsInv /\ ReplicaSetInv /\ DeploymentInv /\ SlicesInv /\ SeenInv
  BY DEF GateInv
<1>1. /\ UNCHANGED script /\ UNCHANGED pc /\ UNCHANGED exit /\ UNCHANGED seen /\ UNCHANGED dep
      /\ UNCHANGED rs /\ UNCHANGED pods /\ UNCHANGED nextPod
      /\ slices' = {[pod |-> p.id, ready |-> p.ready /\ ~p.deleting] : p \in pods}
  BY DEF EndpointSync, scriptVars, local, Endpoints
<1>2. Active(0)' = Active(0)
  BY <1>1 DEF Active
<1>3. \A e \in slices' : \E p \in pods : e.pod = p.id /\ (e.ready => p.ready /\ ~p.deleting)
  <2> SUFFICES ASSUME NEW e \in slices'
               PROVE  \E p \in pods : e.pod = p.id /\ (e.ready => p.ready /\ ~p.deleting)
    OBVIOUS
  <2>1. PICK p \in pods : e = [pod |-> p.id, ready |-> p.ready /\ ~p.deleting]
    BY <1>1
  <2>2. e.pod = p.id /\ e.ready = (p.ready /\ ~p.deleting)
    BY <2>1
  <2>3. e.ready => p.ready /\ ~p.deleting
    BY <2>2, Zenon
  <2> QED BY <2>2, <2>3
<1>4. SlicesInv'
  <2>1. \A e \in slices' : e.pod = 1 \/ \E p \in pods : p.id = e.pod /\ p.tmpl = 1
    BY <1>0, <1>3 DEF PodsInv, PodRecords
  <2> QED BY <1>1, <2>1 DEF SlicesInv
<1>5. Active(0) = {} => OldIsOut'
  <2>1. Active(0) = {} => \A e \in slices' : e.ready => e.pod # 1
    BY <1>0, <1>3 DEF PodsInv, Active
  <2> QED BY <2>1 DEF OldIsOut
<1>6. SeenInv'
  BY <1>0, <1>1, <1>2, <1>5 DEF SeenInv, SeenDeployment, SeenReplicaSets, SeenPods, SeenSlices
<1>7. PodsInv' /\ ReplicaSetInv' /\ DeploymentInv'
  BY <1>0, <1>1, <1>2 DEF PodsInv, ReplicaSetInv, DeploymentInv
<1> QED BY <1>4, <1>6, <1>7 DEF GateInv

\* The ReplicaSets: the old one makes no pod, the new one deletes none.
LEMMA ScaleGateStep ==
    ASSUME ReleaseInv, GateInv, script = "gate", NEW t \in Templates, ReplicaSetScale(t)
    PROVE  GateInv'
<1>0. PodsInv /\ ReplicaSetInv /\ DeploymentInv /\ SlicesInv /\ SeenInv
  BY DEF GateInv
<1>1. /\ UNCHANGED script /\ UNCHANGED pc /\ UNCHANGED exit /\ UNCHANGED seen /\ UNCHANGED dep
      /\ UNCHANGED rs /\ UNCHANGED slices
  BY DEF ReplicaSetScale, scriptVars, local
<1>2. /\ Cardinality(Active(t)) \in 0 .. 1 /\ (Cardinality(Active(t)) = 0 <=> Active(t) = {})
      /\ (t = 2 => Active(t) = {}) /\ rs[t].want \in 0 .. 1 /\ rs[2].want = 0
  BY <1>0, Counted DEF ReplicaSetInv
<1>3. CASE /\ Cardinality(Active(t)) < rs[t].want
           /\ pods' = pods \cup {[id |-> nextPod, tmpl |-> t, ready |-> FALSE, deleting |-> FALSE]}
           /\ nextPod' = nextPod + 1
  <2>1. Active(t) = {} /\ rs[t].want = 1
    BY <1>2, <1>3
  <2>2. t = 1
    BY <1>0, <1>2, <2>1 DEF ReplicaSetInv, Templates
  <2> DEFINE q == [id |-> nextPod, tmpl |-> t, ready |-> FALSE, deleting |-> FALSE]
  <2>3. q \in PodRecords /\ q.id = nextPod /\ q.tmpl = 1 /\ q.deleting = FALSE
    BY <1>0, <2>2 DEF PodsInv, PodRecords
  <2>4. pods' = pods \cup {q}
    BY <1>3
  <2> HIDE DEF q
  <2>5. \A p \in pods : p.tmpl # 1
    BY <1>0, <2>1, <2>2 DEF Active, PodsInv
  <2>6. PodsInv'
    <3>1. IsFiniteSet(pods')
      BY <1>0, <2>4, FS_AddElement DEF PodsInv
    <3>2. nextPod' \in Nat /\ nextPod' >= 2 /\ nextPod < nextPod' /\ nextPod # 1
      BY <1>0, <1>3 DEF PodsInv
    <3>3. \A p \in pods' : p.id < nextPod' /\ (p.tmpl = 0 <=> p.id = 1)
      BY <1>0, <1>3, <2>3, <2>4, <3>2 DEF PodsInv, PodRecords
    <3>4. \A x, y \in pods' : x.tmpl = y.tmpl => x = y
      BY <1>0, <2>3, <2>4, <2>5 DEF PodsInv
    <3> QED BY <1>0, <1>1, <2>1, <2>2, <2>3, <2>4, <3>1, <3>2, <3>3, <3>4 DEF PodsInv
  <2>7. Active(0)' = Active(0)
    BY <2>3, <2>4 DEF Active
  <2>8. ReplicaSetInv' /\ DeploymentInv'
    BY <1>0, <1>1, <2>7 DEF ReplicaSetInv, DeploymentInv
  <2>9. SlicesInv'
    BY <1>0, <1>1, <2>4 DEF SlicesInv
  <2>10. SeenInv'
    BY <1>0, <1>1, <2>7, SeenFrame
  <2> QED BY <2>6, <2>8, <2>9, <2>10 DEF GateInv
<1>4. CASE /\ Cardinality(Active(t)) > rs[t].want
           /\ \E p \in Active(t) : /\ p.ready => Active(t) \subseteq ReadyPods
                                   /\ pods' = (pods \ {p}) \cup {[p EXCEPT !.deleting = TRUE]}
           /\ UNCHANGED nextPod
  <2>1. PICK p \in Active(t) : pods' = (pods \ {p}) \cup {[p EXCEPT !.deleting = TRUE]}
    BY <1>4
  <2>2. rs[t].want = 0 /\ p \in pods /\ p.tmpl = t
    BY <1>2, <1>4 DEF Active
  <2>3. t = 0
    BY <1>0, <2>2 DEF PodsInv, PodRecords
  <2>4. PICK q : q = [p EXCEPT !.deleting = TRUE]
    OBVIOUS
  <2>5. q \in PodRecords /\ q.id = p.id /\ q.tmpl = p.tmpl /\ q.deleting
    <3>1. p \in PodRecords
      BY <1>0, <2>2 DEF PodsInv
    <3> QED BY <2>4, <3>1 DEF PodRecords
  <2>6. pods' = (pods \ {p}) \cup {q}
    BY <2>1, <2>4
  <2> QED BY <1>1, <1>4, <2>2, <2>3, <2>5, <2>6, PodChanges
<1> QED BY <1>3, <1>4 DEF ReplicaSetScale

\* A ReplicaSet that reports no pod has none.
LEMMA StatusGateStep ==
    ASSUME ReleaseInv, GateInv, script = "gate", NEW t \in Templates, ReplicaSetStatus(t)
    PROVE  GateInv'
<1>0. PodsInv /\ ReplicaSetInv /\ DeploymentInv /\ SlicesInv /\ SeenInv
  BY DEF GateInv
<1>1. /\ UNCHANGED script /\ UNCHANGED pc /\ UNCHANGED exit /\ UNCHANGED seen /\ UNCHANGED dep
      /\ UNCHANGED pods /\ UNCHANGED slices /\ UNCHANGED nextPod
      /\ rs' = [rs EXCEPT ![t].active = Cardinality(Active(t)),
                          ![t].available = Cardinality(Active(t) \cap ReadyPods)]
  BY DEF ReplicaSetStatus, scriptVars, local
<1>2. PICK a \in Nat, b \in Nat : /\ a = Cardinality(Active(t)) /\ b = Cardinality(Active(t) \cap ReadyPods)
                                  /\ a = 0 => Active(t) = {}
  BY <1>0, Counted
<1>3. rs' = [rs EXCEPT ![t].active = a, ![t].available = b]
  BY <1>1, <1>2
<1>4. /\ rs' \in [Templates -> [want : 0 .. 1, active : Nat, available : Nat]]
      /\ \A o \in Templates : rs'[o].want = rs[o].want
      /\ rs'[0].active = IF t = 0 THEN a ELSE rs[0].active
  BY <1>0, <1>3 DEF ReplicaSetInv, Templates
<1>5. Active(0)' = Active(0)
  BY <1>1 DEF Active
<1>6. rs'[0].want = rs[0].want /\ rs'[1].want = rs[1].want /\ rs'[2].want = rs[2].want
  BY <1>4 DEF Templates
<1>7. PodsInv' /\ DeploymentInv'
  BY <1>0, <1>1, <1>6 DEF PodsInv, DeploymentInv
<1>8. ReplicaSetInv'
  BY <1>0, <1>2, <1>4, <1>5, <1>6 DEF ReplicaSetInv
<1>9. SlicesInv' /\ SeenInv'
  BY <1>0, <1>1, <1>5, SeenFrame DEF SlicesInv
<1> QED BY <1>7, <1>8, <1>9 DEF GateInv

\* The new mode is installed, and the waits of helm and kubectl.
LEMMA ConfigureGateStep ==
    ASSUME ReleaseInv, GateInv, script = "gate", configure_sink_helm
    PROVE  GateInv'
<1>0. PodsInv /\ ReplicaSetInv /\ DeploymentInv /\ SlicesInv /\ SeenInv
  BY DEF GateInv
<1>1. /\ UNCHANGED script /\ UNCHANGED exit /\ UNCHANGED seen /\ UNCHANGED rs
      /\ UNCHANGED pods /\ UNCHANGED slices /\ UNCHANGED nextPod
  BY DEF configure_sink_helm, Check, Goto, still, local, cluster
<1>2. pc \in {"start", "helm_wait", "rollout_wait"} /\ pc' \in {"helm_wait", "rollout_wait", "gate_deployment"}
  BY DEF configure_sink_helm, Check, Goto
<1>3. (dep' = dep /\ pc # "start") \/ SetTemplate(1)
  BY DEF configure_sink_helm, Check, cluster
<1>4. Active(0)' = Active(0)
  BY <1>1 DEF Active
<1>5. DeploymentInv'
  <2>1. CASE pc # "start" /\ dep' = dep
    BY <1>0, <1>1, <1>2, <2>1 DEF DeploymentInv
  <2>2. CASE SetTemplate(1)
    <3>1. CASE dep.template = 1
      BY <1>0, <1>1, <1>2, <2>2, <3>1 DEF DeploymentInv, SetTemplate
    <3>2. CASE dep.template # 1
      <4>0. PICK g \in Nat : g = dep.gen + 1
        BY <1>0 DEF DeploymentInv
      <4>1. dep' = [dep EXCEPT !.template = 1, !.gen = g]
        BY <2>2, <3>2, <4>0 DEF SetTemplate
      <4>2. /\ dep' \in [template : {0, 1}, gen : Nat, observed : Nat, rev : {0, 1},
                         updated : Nat, available : Nat, total : Nat]
            /\ dep'.template = 1 /\ dep'.gen = g /\ dep'.observed = dep.observed
        BY <1>0, <4>1 DEF DeploymentInv
      <4>3. dep'.observed < dep'.gen
        BY <1>0, <4>0, <4>2 DEF DeploymentInv
      <4> QED BY <1>1, <1>2, <4>2, <4>3 DEF DeploymentInv
    <3> QED BY <3>1, <3>2
  <2> QED BY <1>3, <2>1, <2>2
<1>6. SeenInv'
  BY <1>0, <1>1, <1>2 DEF SeenInv
<1>7. PodsInv' /\ ReplicaSetInv' /\ SlicesInv'
  BY <1>0, <1>1, <1>4 DEF PodsInv, ReplicaSetInv, SlicesInv
<1> QED BY <1>5, <1>6, <1>7 DEF GateInv

\* Reading one object after another: the reads so far, and one more.
LEMMA ShortAppends ==
    ASSUME NEW S, NEW a \in S, NEW b \in S, NEW c \in S, NEW d \in S
    PROVE  /\ Append(<<a>>, b) = <<a, b>> /\ Append(<<a, b>>, c) = <<a, b, c>>
           /\ Append(<<a, b, c>>, d) = <<a, b, c, d>>
<1>1. ASSUME NEW u \in Seq(S), NEW v \in Seq(S), NEW n \in 2 .. 4, Len(u) = n, Len(v) = n,
             u[1] = v[1], u[2] = v[2], n >= 3 => u[3] = v[3], n >= 4 => u[4] = v[4]
      PROVE  u = v
  <2>1. ASSUME NEW i \in 1 .. n PROVE u[i] = v[i]
    <3>1. i = 1 \/ i = 2 \/ (i = 3 /\ n >= 3) \/ (i = 4 /\ n >= 4)
      OBVIOUS
    <3> QED BY <1>1, <3>1
  <2> QED BY <1>1, <2>1, SeqEqual
<1>2. <<a>> \in Seq(S) /\ <<a, b>> \in Seq(S) /\ <<a, b, c>> \in Seq(S) /\ <<a, b, c, d>> \in Seq(S)
  OBVIOUS
<1>3. Append(<<a>>, b) = <<a, b>>
  <2>1. PICK s \in Seq(S) : s = <<a>>
    BY <1>2
  <2>2. PICK u : u = Append(s, b)
    OBVIOUS
  <2>3. u \in Seq(S) /\ Len(u) = 2 /\ u[1] = a /\ u[2] = b
    BY <2>1, <2>2
  <2>4. PICK v \in Seq(S) : v = <<a, b>>
    BY <1>2
  <2>5. Len(v) = 2 /\ v[1] = a /\ v[2] = b
    BY <2>4
  <2>6. u = v
    BY <1>1, <2>3, <2>5
  <2> QED BY <2>1, <2>2, <2>4, <2>6
<1>4. Append(<<a, b>>, c) = <<a, b, c>>
  <2>1. PICK s \in Seq(S) : s = <<a, b>>
    BY <1>2
  <2>2. PICK u : u = Append(s, c)
    OBVIOUS
  <2>3. u \in Seq(S) /\ Len(u) = 3 /\ u[1] = a /\ u[2] = b /\ u[3] = c
    BY <2>1, <2>2
  <2>4. PICK v \in Seq(S) : v = <<a, b, c>>
    BY <1>2
  <2>5. Len(v) = 3 /\ v[1] = a /\ v[2] = b /\ v[3] = c
    BY <2>4
  <2>6. u = v
    BY <1>1, <2>3, <2>5
  <2> QED BY <2>1, <2>2, <2>4, <2>6
<1>5. Append(<<a, b, c>>, d) = <<a, b, c, d>>
  <2>1. PICK s \in Seq(S) : s = <<a, b, c>>
    BY <1>2
  <2>2. PICK u : u = Append(s, d)
    OBVIOUS
  <2>3. u \in Seq(S) /\ Len(u) = 4 /\ u[1] = a /\ u[2] = b /\ u[3] = c /\ u[4] = d
    BY <2>1, <2>2
  <2>4. PICK v \in Seq(S) : v = <<a, b, c, d>>
    BY <1>2
  <2>5. Len(v) = 4 /\ v[1] = a /\ v[2] = b /\ v[3] = c /\ v[4] = d
    BY <2>4
  <2>6. u = v
    BY <1>1, <2>3, <2>5
  <2> QED BY <2>1, <2>2, <2>4, <2>6
<1> QED BY <1>3, <1>4, <1>5

\* The same for objects of any kind.
LEMMA Appended ==
    \A a, b, c, d : /\ Append(<<a>>, b) = <<a, b>> /\ Append(<<a, b>>, c) = <<a, b, c>>
                    /\ Append(<<a, b, c>>, d) = <<a, b, c, d>>
<1> TAKE a, b, c, d
<1>1. PICK S : a \in S /\ b \in S /\ c \in S /\ d \in S
  <2> WITNESS {a, b, c, d}
  <2> QED OBVIOUS
<1> QED BY <1>1, ShortAppends

\* Each read adds an object as it is now.
LEMMA ReadGateStep ==
    ASSUME ReleaseInv, GateInv, script = "gate", read_mock_sink_rollout_objects
    PROVE  GateInv'
<1>0. PodsInv /\ ReplicaSetInv /\ DeploymentInv /\ SlicesInv /\ SeenInv
  BY DEF GateInv
<1>1. /\ UNCHANGED script /\ UNCHANGED exit /\ UNCHANGED dep /\ UNCHANGED rs
      /\ UNCHANGED pods /\ UNCHANGED slices /\ UNCHANGED nextPod
  BY DEF read_mock_sink_rollout_objects, Read, Goto, still, cluster
<1>2. Active(0)' = Active(0)
  BY <1>1 DEF Active
<1>3. pc \notin {"start", "over"} /\ pc' \in {"gate_replicasets", "gate_pods", "gate_endpoints", "gate_judge"}
  BY DEF read_mock_sink_rollout_objects, Read, Goto
<1>4. SeenInv'
  <2>1. CASE Read("gate_deployment", "gate_replicasets", dep)
    <3>1. pc = "gate_deployment" /\ pc' = "gate_replicasets" /\ seen' = Append(seen, dep)
      BY <2>1 DEF Read, Goto
    <3>2. seen = <<>>
      BY <1>0, <3>1 DEF SeenInv
    <3>3. seen' = <<dep>>
      BY <3>1, <3>2
    <3>4. seen' = <<seen'[1]>> /\ seen'[1] = dep
      BY <3>3
    <3>5. dep.observed = dep.gen => dep.rev = 1
      BY <1>0, <3>1 DEF DeploymentInv
    <3> QED BY <3>1, <3>4, <3>5 DEF SeenInv, SeenDeployment
  <2>2. CASE Read("gate_replicasets", "gate_pods", rs)
    <3>1. pc = "gate_replicasets" /\ pc' = "gate_pods" /\ seen' = Append(seen, rs)
      BY <2>2 DEF Read, Goto
    <3>2. seen = <<seen[1]>> /\ SeenDeployment
      BY <1>0, <3>1 DEF SeenInv
    <3>3. PICK a : seen = <<a>> /\ a = seen[1]
      BY <3>2
    <3>4. seen' = <<a, rs>>
      BY <3>1, <3>3, Appended
    <3>5. seen' = <<seen'[1], seen'[2]>> /\ seen'[1] = seen[1] /\ seen'[2] = rs
      BY <3>3, <3>4
    <3>6. rs[0].active = 0 => Active(0)' = {}
      BY <1>0, <1>2 DEF ReplicaSetInv
    <3> QED BY <3>1, <3>2, <3>5, <3>6 DEF SeenInv, SeenDeployment, SeenReplicaSets
  <2>3. CASE Read("gate_pods", "gate_endpoints", pods)
    <3>1. pc = "gate_pods" /\ pc' = "gate_endpoints" /\ seen' = Append(seen, pods)
      BY <2>3 DEF Read, Goto
    <3>2. seen = <<seen[1], seen[2]>> /\ SeenDeployment /\ SeenReplicaSets
      BY <1>0, <3>1 DEF SeenInv
    <3>3. PICK a, b : seen = <<a, b>> /\ a = seen[1] /\ b = seen[2]
      BY <3>2
    <3>4. seen' = <<a, b, pods>>
      BY <3>1, <3>3, Appended
    <3>5. /\ seen' = <<seen'[1], seen'[2], seen'[3]>>
          /\ seen'[1] = seen[1] /\ seen'[2] = seen[2] /\ seen'[3] = pods
      BY <3>3, <3>4
    <3>6. \A p \in pods : p.tmpl = 1 => p.id # 1
      BY <1>0 DEF PodsInv
    <3> QED BY <1>2, <3>1, <3>2, <3>5, <3>6 DEF SeenInv, SeenDeployment, SeenReplicaSets, SeenPods
  <2>4. CASE Read("gate_endpoints", "gate_judge", slices)
    <3>1. pc = "gate_endpoints" /\ pc' = "gate_judge" /\ seen' = Append(seen, slices)
      BY <2>4 DEF Read, Goto
    <3>2. seen = <<seen[1], seen[2], seen[3]>> /\ SeenDeployment /\ SeenReplicaSets /\ SeenPods
      BY <1>0, <3>1 DEF SeenInv
    <3>3. PICK a, b, c : seen = <<a, b, c>> /\ a = seen[1] /\ b = seen[2] /\ c = seen[3]
      BY <3>2
    <3>4. seen' = <<a, b, c, slices>>
      BY <3>1, <3>3, Appended
    <3>5. seen'[1] = seen[1] /\ seen'[2] = seen[2] /\ seen'[3] = seen[3] /\ seen'[4] = slices
      BY <3>3, <3>4
    <3> QED BY <1>1, <1>2, <3>1, <3>2, <3>5
        DEF SeenInv, SeenDeployment, SeenReplicaSets, SeenPods, SeenSlices, OldIsOut
  <2> QED BY <2>1, <2>2, <2>3, <2>4 DEF read_mock_sink_rollout_objects
<1>5. DeploymentInv'
  BY <1>0, <1>1, <1>3 DEF DeploymentInv
<1>6. PodsInv' /\ ReplicaSetInv' /\ SlicesInv'
  BY <1>0, <1>1, <1>2 DEF PodsInv, ReplicaSetInv, SlicesInv
<1> QED BY <1>4, <1>5, <1>6 DEF GateInv

\* The judgement (evaluate_mock_sink_rollout): four objects, read at four
\* moments, that agree.
LEMMA JudgeGateStep ==
    ASSUME ReleaseInv, GateInv, script = "gate", wait_for_mock_sink_rollout
    PROVE  GateInv'
<1>0. PodsInv /\ ReplicaSetInv /\ DeploymentInv /\ SlicesInv /\ SeenInv
  BY DEF GateInv
<1>1. /\ pc = "gate_judge" /\ seen' = <<>>
      /\ UNCHANGED script /\ UNCHANGED dep /\ UNCHANGED rs
      /\ UNCHANGED pods /\ UNCHANGED slices /\ UNCHANGED nextPod
  BY DEF wait_for_mock_sink_rollout, still, cluster
<1>2. Active(0)' = Active(0) /\ OldIsOut' = OldIsOut
  BY <1>1 DEF Active, OldIsOut
<1>3. \/ evaluate_mock_sink_rollout /\ pc' = "over" /\ exit' = 0
      \/ pc' = "gate_deployment"
  BY DEF wait_for_mock_sink_rollout, Over, Goto
<1>4. ASSUME evaluate_mock_sink_rollout
      PROVE  Active(0) = {} /\ OldIsOut
  <2>1. SeenDeployment /\ SeenReplicaSets /\ SeenPods /\ SeenSlices
    BY <1>0, <1>1 DEF SeenInv
  <2>2. seen[1].rev = 1
    BY <1>4, <2>1 DEF evaluate_mock_sink_rollout, DeploymentComplete, SeenDeployment
  <2>3. seen[2][0].active = 0
    BY <1>4, <2>2 DEF evaluate_mock_sink_rollout, OldReplicaSetsEmpty, Templates
  <2>4. \A e \in seen[4] : e.pod # 1
    <3>1. {e.pod : e \in seen[4]} = {p.id : p \in CurrentReady(seen[1])}
      BY <1>4 DEF evaluate_mock_sink_rollout, EndpointsCurrent
    <3>2. \A p \in CurrentReady(seen[1]) : p.id # 1
      BY <2>1, <2>2 DEF CurrentReady, SeenPods
    <3> QED BY <3>1, <3>2
  <2> QED BY <2>1, <2>3, <2>4 DEF SeenReplicaSets, SeenSlices
<1>5. SeenInv'
  BY <1>1, <1>2, <1>3, <1>4 DEF SeenInv
<1>6. DeploymentInv'
  BY <1>0, <1>1, <1>3 DEF DeploymentInv
<1>7. PodsInv' /\ ReplicaSetInv' /\ SlicesInv'
  BY <1>0, <1>1, <1>2 DEF PodsInv, ReplicaSetInv, SlicesInv
<1> QED BY <1>5, <1>6, <1>7 DEF GateInv

\* The deadline and every other failing command end the gate with an error.
LEMMA FailGateStep ==
    ASSUME ReleaseInv, GateInv, script = "gate", CommandFails
    PROVE  GateInv'
<1>0. PodsInv /\ ReplicaSetInv /\ DeploymentInv /\ SlicesInv /\ SeenInv
  BY DEF GateInv
<1>1. /\ UNCHANGED script /\ UNCHANGED dep /\ UNCHANGED rs /\ UNCHANGED pods /\ UNCHANGED slices
      /\ UNCHANGED nextPod /\ Raise
  BY DEF CommandFails, cluster
<1>2. pc' = "over" /\ exit' = 1
  BY <1>1 DEF Raise, Over, Goto, ReleaseInv, ControlInv, Gate
<1>3. Active(0)' = Active(0)
  BY <1>1 DEF Active
<1>4. PodsInv' /\ ReplicaSetInv' /\ SlicesInv'
  BY <1>0, <1>1, <1>3 DEF PodsInv, ReplicaSetInv, SlicesInv
<1>5. DeploymentInv' /\ SeenInv'
  BY <1>0, <1>1, <1>2 DEF DeploymentInv, SeenInv
<1> QED BY <1>4, <1>5 DEF GateInv

\* The other steps are not those of the gate.
LEMMA OtherSteps ==
    ASSUME ReleaseInv, Script \/ Helm, script = "gate"
    PROVE  configure_sink_helm \/ read_mock_sink_rollout_objects \/ wait_for_mock_sink_rollout
<1>1. pc \in Gate \cup {"start", "helm_wait", "rollout_wait", "over"} /\ upgrade \notin {"started", "applied"}
  BY DEF ReleaseInv, ControlInv, Gate
<1>2. ~Helm
  BY <1>1 DEF Helm, HelmUpgradeApplies, HelmUpgradeTimesOut
<1>3. ~(\/ verify_rollout_contract \/ Patch \/ Sample \/ SamplePods \/ verify_normal_rollout
        \/ create_unready_api_pod \/ verify_not_ready_endpoint_exclusion)
  BY <1>1 DEF verify_rollout_contract, Patch, Sample, SamplePods, verify_normal_rollout,
              create_unready_api_pod, verify_not_ready_endpoint_exclusion, Gate
<1>4. ~(\/ verify_worker_shutdown_and_recovery \/ verify_redis_persistence
        \/ deployed_revision \/ verify_bad_release \/ rollback_release \/ Emergency)
  BY <1>1 DEF verify_worker_shutdown_and_recovery, configure_mock_sink, verify_redis_persistence,
              deployed_revision, verify_bad_release, rollback_release, Emergency, Gate
<1> QED BY <1>2, <1>3, <1>4 DEF Script

\* The script never changes.
LEMMA ScriptStable ==
    ASSUME [Next]_vars
    PROVE  script' = script
<1>1. CASE Kubernetes \/ PodFails
  BY <1>1 DEF Kubernetes, PodFails, DeploymentSync, PodReady, PodGone, EndpointSync, ReplicaSetScale,
              ReplicaSetStatus, scriptVars
<1>2. CASE \/ configure_sink_helm \/ read_mock_sink_rollout_objects \/ wait_for_mock_sink_rollout
           \/ verify_rollout_contract \/ Patch \/ Sample \/ SamplePods \/ verify_normal_rollout
  BY <1>2 DEF configure_sink_helm, read_mock_sink_rollout_objects, Read, wait_for_mock_sink_rollout,
              verify_rollout_contract, Patch, Sample, SamplePods, verify_normal_rollout, Check, still
<1>3. CASE \/ create_unready_api_pod \/ verify_not_ready_endpoint_exclusion
           \/ verify_worker_shutdown_and_recovery \/ verify_redis_persistence
  BY <1>3 DEF create_unready_api_pod, verify_not_ready_endpoint_exclusion,
              verify_worker_shutdown_and_recovery, configure_mock_sink, verify_redis_persistence, Check, still
<1>4. CASE deployed_revision \/ verify_bad_release \/ rollback_release \/ Emergency
  BY <1>4 DEF deployed_revision, verify_bad_release, rollback_release, Emergency, Check, still
<1>5. CASE Helm \/ CommandFails
  BY <1>5 DEF Helm, HelmUpgradeApplies, HelmUpgradeTimesOut, CommandFails
<1>6. CASE UNCHANGED vars
  BY <1>6 DEF vars
<1> QED BY <1>1, <1>2, <1>3, <1>4, <1>5, <1>6 DEF Next, Script

(***************************************************************************)
(* Healthy scripts: counting pods.                                         *)
(***************************************************************************)
\* The counts of a ReplicaSet are natural numbers.
LEMMA LiveCounts ==
    ASSUME ApiPodsInv, NEW t \in Templates
    PROVE  /\ IsFiniteSet(Active(t)) /\ IsFiniteSet(Active(t) \cap ReadyPods) /\ IsFiniteSet(ReadyPods)
           /\ Live(t) \in Nat /\ Up(t) \in Nat /\ Up(t) <= Live(t)
           /\ Live(t) = 0 <=> Active(t) = {}
<1>1. IsFiniteSet(Active(t)) /\ IsFiniteSet(Active(t) \cap ReadyPods) /\ IsFiniteSet(ReadyPods)
  <2>1. Active(t) \subseteq pods /\ (Active(t) \cap ReadyPods) \subseteq pods /\ ReadyPods \subseteq pods
        /\ IsFiniteSet(pods)
    BY DEF Active, ApiPodsInv, ReadyPods
  <2> QED BY <2>1, FS_Subset
<1>2. Live(t) \in Nat /\ Up(t) \in Nat
  BY <1>1, FS_CardinalityType DEF Live, Up
<1>3. Up(t) <= Live(t)
  <2>1. (Active(t) \cap ReadyPods) \subseteq Active(t)
    OBVIOUS
  <2> QED BY <1>1, <2>1, FS_Subset DEF Live, Up
<1>4. Live(t) = 0 <=> Active(t) = {}
  BY <1>1, FS_EmptySet DEF Live
<1> QED BY <1>1, <1>2, <1>3, <1>4

LiveTypes == Live(0) \in Nat /\ Live(1) \in Nat /\ Live(2) \in Nat /\ Up(1) \in Nat /\ Up(1) <= Live(1)

\* The same of the next state.
LEMMA LiveTyped == ApiPodsInv' => LiveTypes'
<1>1. ApiPodsInv => LiveTypes
  BY LiveCounts DEF Templates, LiveTypes
<1> QED BY <1>1, PTL

\* A set of at least two has two members.
LEMMA TwoMembers ==
    ASSUME NEW S, IsFiniteSet(S), Cardinality(S) >= 2
    PROVE  \E x, y \in S : x # y
<1> SUFFICES ASSUME \A x, y \in S : x = y PROVE FALSE
  OBVIOUS
<1>1. CASE S = {}
  <2>1. Cardinality(S) = 0
    BY <1>1, FS_EmptySet
  <2> QED BY <2>1
<1>2. CASE S # {}
  <2>1. PICK x : x \in S
    BY <1>2
  <2>2. S = {x}
    BY <2>1
  <2>3. Cardinality(S) = 1
    BY <2>2, FS_Singleton
  <2> QED BY <2>3
<1> QED BY <1>1, <1>2

\* Two different pods are ready.
LEMMA TwoReady ==
    ASSUME ApiPodsInv, CountInv
    PROVE  \E p, q \in ReadyPods : p.id # q.id
<1> DEFINE S == Active(0) \cup (Active(1) \cap ReadyPods)
<1>0. 0 \in Templates /\ 1 \in Templates
  BY DEF Templates
<1>1. /\ IsFiniteSet(Active(0)) /\ IsFiniteSet(Active(1) \cap ReadyPods)
      /\ Live(0) \in Nat /\ Up(1) \in Nat
  BY <1>0, LiveCounts
<1>2. Active(0) \cap (Active(1) \cap ReadyPods) = {}
  BY DEF Active
<1>3. /\ IsFiniteSet(S)
      /\ Cardinality(S) = Cardinality(Active(0)) + Cardinality(Active(1) \cap ReadyPods) - Cardinality({})
  BY <1>1, <1>2, FS_Union
<1>4. Cardinality({}) = 0
  BY FS_EmptySet
<1>5. Cardinality(S) = Live(0) + Up(1)
  BY <1>1, <1>3, <1>4 DEF Live, Up
<1>6. Live(0) >= rs[0].want /\ Up(1) >= rs[1].available /\ rs[0].want \in Nat /\ rs[1].available \in Nat
      /\ rs[0].want + rs[1].available >= 2
  BY <1>0 DEF CountInv
<1>7. Cardinality(S) >= 2
  BY <1>1, <1>5, <1>6
<1>8. PICK p, q \in S : p # q
  BY <1>3, <1>7, TwoMembers
<1>9. p \in ReadyPods /\ q \in ReadyPods
  BY DEF Active, ReadyPods, ApiPodsInv
<1>10. p.id # q.id
  BY <1>8, <1>9 DEF ApiPodsInv, ReadyPods
<1> QED BY <1>9, <1>10

\* The pods decide the counts.
LEMMA SamePods ==
    ASSUME UNCHANGED pods
    PROVE  /\ ReadyPods' = ReadyPods /\ NotReadyPods' = NotReadyPods
           /\ \A t : Active(t)' = Active(t) /\ Live(t)' = Live(t) /\ Up(t)' = Up(t)
<1>1. ReadyPods' = ReadyPods /\ NotReadyPods' = NotReadyPods
  BY DEF ReadyPods, NotReadyPods
<1>2. ASSUME NEW t PROVE Active(t)' = Active(t) /\ Live(t)' = Live(t) /\ Up(t)' = Up(t)
  <2>1. Active(t)' = Active(t)
    BY DEF Active
  <2> QED BY <1>1, <2>1 DEF Live, Up
<1> QED BY <1>1, <1>2

\* A pod is made (ReplicaSetScale, create_unready_api_pod).
LEMMA PodMade ==
    ASSUME ApiPodsInv, NEW q \in ApiPods, q.id = nextPod, ~q.ready, ~q.deleting,
           q.tmpl # 0, q.tmpl = Bare => script = "resiliency", UNCHANGED script,
           pods' = pods \cup {q}, nextPod' = nextPod + 1
    PROVE  /\ ApiPodsInv' /\ ReadyPods' = ReadyPods
           /\ \A t \in Templates : /\ Live(t)' = IF t = q.tmpl THEN Live(t) + 1 ELSE Live(t)
                                   /\ Up(t)' = Up(t)
<1>1. ReadyPods' = ReadyPods
  BY DEF ReadyPods
<1>2. q \notin pods
  BY DEF ApiPodsInv
<1>3. ASSUME NEW t \in Templates
      PROVE  /\ Live(t)' = IF t = q.tmpl THEN Live(t) + 1 ELSE Live(t)
             /\ Up(t)' = Up(t)
  <2>1. CASE t = q.tmpl
    <3>1. Active(t)' = Active(t) \cup {q} /\ q \notin Active(t)
      BY <1>2, <2>1 DEF Active
    <3>2. (Active(t) \cap ReadyPods)' = Active(t) \cap ReadyPods
      BY <1>1, <3>1 DEF ReadyPods
    <3>3. Cardinality(Active(t) \cup {q}) = Cardinality(Active(t)) + 1
      BY <3>1, LiveCounts, FS_AddElement
    <3> QED BY <2>1, <3>1, <3>2, <3>3 DEF Live, Up
  <2>2. CASE t # q.tmpl
    <3>1. Active(t)' = Active(t)
      BY <2>2 DEF Active
    <3> QED BY <1>1, <2>2, <3>1 DEF Live, Up
  <2> QED BY <2>1, <2>2
<1>4. ApiPodsInv'
  <2>1. IsFiniteSet(pods')
    BY FS_AddElement DEF ApiPodsInv
  <2>2. pods' \in SUBSET ApiPods /\ nextPod' \in Nat /\ nextPod < nextPod'
    BY DEF ApiPodsInv
  <2>3. \A p \in pods' : p.id < nextPod'
    BY <2>2 DEF ApiPodsInv, ApiPods
  <2>4. \A x, y \in pods' : x.id = y.id => x = y
    BY DEF ApiPodsInv, ApiPods
  <2>5. \A p \in pods' : /\ p.tmpl = 0 => p.ready
                         /\ p.tmpl = 1 => ~p.deleting
                         /\ p.tmpl \in {Bad, Bare} => ~p.ready
                         /\ p.tmpl = Bare => script' = "resiliency"
    BY DEF ApiPodsInv
  <2> QED BY <2>1, <2>2, <2>3, <2>4, <2>5 DEF ApiPodsInv
<1> QED BY <1>1, <1>3, <1>4

\* A pod is marked or becomes ready: another record for the same pod.
LEMMA PodRewritten ==
    ASSUME ApiPodsInv, NEW p \in pods, NEW q \in ApiPods, q.id = p.id, q.tmpl = p.tmpl,
           p.ready => q.ready, q.tmpl \in {Bad, Bare} => ~q.ready, q.tmpl = 1 => ~q.deleting,
           UNCHANGED script, UNCHANGED nextPod, pods' = (pods \ {p}) \cup {q}
    PROVE  /\ ApiPodsInv'
           /\ \A t \in Templates \ {p.tmpl} : Live(t)' = Live(t) /\ Up(t)' = Up(t)
<1>1. ApiPodsInv'
  <2>1. IsFiniteSet(pods')
    <3>1. IsFiniteSet(pods \ {p})
      BY FS_RemoveElement DEF ApiPodsInv
    <3> QED BY <3>1, FS_AddElement
  <2>2. pods' \in SUBSET ApiPods /\ nextPod' \in Nat
    BY DEF ApiPodsInv
  <2>3. \A x \in pods' : x.id < nextPod'
    BY DEF ApiPodsInv
  <2>4. \A x, y \in pods' : x.id = y.id => x = y
    BY DEF ApiPodsInv
  <2>5. \A x \in pods' : /\ x.tmpl = 0 => x.ready
                         /\ x.tmpl = 1 => ~x.deleting
                         /\ x.tmpl \in {Bad, Bare} => ~x.ready
                         /\ x.tmpl = Bare => script' = "resiliency"
    BY DEF ApiPodsInv
  <2> QED BY <2>1, <2>2, <2>3, <2>4, <2>5 DEF ApiPodsInv
<1>2. ASSUME NEW t \in Templates \ {p.tmpl} PROVE Live(t)' = Live(t) /\ Up(t)' = Up(t)
  <2>1. Active(t)' = Active(t)
    BY DEF Active
  <2>2. (Active(t) \cap ReadyPods)' = Active(t) \cap ReadyPods
    BY <2>1 DEF Active, ReadyPods
  <2> QED BY <2>1, <2>2 DEF Live, Up
<1> QED BY <1>1, <1>2

\* A pod is marked for deletion (ReplicaSetScale).
LEMMA PodMarked ==
    ASSUME ApiPodsInv, NEW t \in Templates, t # 1, NEW p \in Active(t), NEW q, q = [p EXCEPT !.deleting = TRUE],
           UNCHANGED script, UNCHANGED nextPod, pods' = (pods \ {p}) \cup {q}
    PROVE  /\ ApiPodsInv'
           /\ \A o \in Templates : Live(o)' = IF o = t THEN Live(o) - 1 ELSE Live(o)
           /\ Up(1)' = Up(1)
           /\ ReadyPods' = ReadyPods \ {p}
<1>1. p \in pods /\ p \in ApiPods /\ p.tmpl = t /\ ~p.deleting
  BY DEF Active, ApiPodsInv
<1>2. q \in ApiPods /\ q.id = p.id /\ q.tmpl = p.tmpl /\ q.ready = p.ready /\ q.deleting
  BY <1>1 DEF ApiPods
<1>3. /\ p.ready => q.ready
      /\ q.tmpl \in {Bad, Bare} => ~q.ready
  <2>1. q.tmpl \in {Bad, Bare} => ~p.ready
    BY <1>1, <1>2 DEF ApiPodsInv
  <2> QED BY <1>2, <2>1, Zenon
<1>4. ApiPodsInv' /\ \A o \in Templates \ {t} : Live(o)' = Live(o) /\ Up(o)' = Up(o)
  BY <1>1, <1>2, <1>3, PodRewritten
<1>5. Live(t)' = Live(t) - 1
  <2>1. Active(t)' = Active(t) \ {p}
    BY <1>1, <1>2 DEF Active
  <2>2. Cardinality(Active(t) \ {p}) = Cardinality(Active(t)) - 1
    BY LiveCounts, FS_RemoveElement
  <2> QED BY <2>1, <2>2 DEF Live
<1>6. ReadyPods' = ReadyPods \ {p}
  BY <1>1, <1>2 DEF ReadyPods
<1>7. 1 \in Templates
  BY DEF Templates
<1> QED BY <1>4, <1>5, <1>6, <1>7

\* A pod becomes ready (PodReady); it is one of the new ones.
LEMMA PodTurns ==
    ASSUME ApiPodsInv, NEW p \in NotReadyPods, p.tmpl \notin {Bad, Bare}, NEW q, q = [p EXCEPT !.ready = TRUE],
           UNCHANGED script, UNCHANGED nextPod, pods' = (pods \ {p}) \cup {q}
    PROVE  /\ ApiPodsInv' /\ p.tmpl = 1
           /\ \A o \in Templates : Live(o)' = Live(o)
           /\ Up(1)' = Up(1) + 1
           /\ ReadyPods' = ReadyPods \cup {q}
<1>1. p \in pods /\ p \in ApiPods /\ p.tmpl = 1 /\ ~p.deleting /\ ~p.ready
  BY DEF NotReadyPods, ApiPodsInv, ApiPods, Bad, Bare
<1>2. q \in ApiPods /\ q.id = p.id /\ q.tmpl = p.tmpl /\ q.ready /\ q.deleting = p.deleting
  BY <1>1 DEF ApiPods
<1>3. ~q.deleting
  BY <1>1, <1>2, Zenon
<1>4. 1 \in Templates /\ 1 \notin {Bad, Bare}
  BY DEF Templates, Bad, Bare
<1>5. ApiPodsInv' /\ \A o \in Templates \ {1} : Live(o)' = Live(o)
  BY <1>1, <1>2, <1>3, <1>4, PodRewritten
<1>6. q \notin pods
  BY <1>1, <1>2 DEF ApiPodsInv
<1>7. Live(1)' = Live(1)
  <2>1. Active(1)' = (Active(1) \ {p}) \cup {q} /\ p \in Active(1) /\ q \notin Active(1) \ {p}
    BY <1>1, <1>2, <1>3, <1>6 DEF Active
  <2>2. IsFiniteSet(Active(1)) /\ Cardinality(Active(1)) \in Nat
    BY <1>4, LiveCounts DEF Live
  <2>3. IsFiniteSet(Active(1) \ {p}) /\ Cardinality(Active(1) \ {p}) = Cardinality(Active(1)) - 1
    BY <2>1, <2>2, FS_RemoveElement
  <2>4. Cardinality((Active(1) \ {p}) \cup {q}) = Cardinality(Active(1) \ {p}) + 1
    BY <2>1, <2>3, FS_AddElement
  <2>5. Cardinality((Active(1) \ {p}) \cup {q}) = Cardinality(Active(1))
    BY <2>2, <2>3, <2>4
  <2>6. Cardinality(Active(1)') = Cardinality(Active(1))
    BY <2>1, <2>5
  <2> QED BY <2>6 DEF Live
<1>8. ReadyPods' = ReadyPods \cup {q}
  BY <1>1, <1>2, <1>3 DEF ReadyPods
<1>9. Up(1)' = Up(1) + 1
  <2>1. (Active(1) \cap ReadyPods)' = (Active(1) \cap ReadyPods) \cup {q} /\ q \notin Active(1) \cap ReadyPods
    BY <1>1, <1>2, <1>3, <1>6 DEF Active, ReadyPods
  <2>2. IsFiniteSet(Active(1) \cap ReadyPods)
    BY <1>4, LiveCounts
  <2> QED BY <2>1, <2>2, FS_AddElement DEF Up
<1> QED BY <1>1, <1>5, <1>7, <1>8, <1>9

\* A pod that does not count goes: one that was marked, or the probe.
LEMMA PodsGo ==
    ASSUME ApiPodsInv, NEW S, S \subseteq pods, \A p \in pods \ S : p.deleting \/ p.tmpl = Bare,
           pods' = S, UNCHANGED script, UNCHANGED nextPod
    PROVE  /\ ApiPodsInv' /\ ReadyPods' = ReadyPods
           /\ \A t \in Templates : Live(t)' = Live(t) /\ Up(t)' = Up(t)
<1>1. ReadyPods' = ReadyPods
  BY DEF ReadyPods, ApiPodsInv
<1>2. ASSUME NEW t \in Templates PROVE Live(t)' = Live(t) /\ Up(t)' = Up(t)
  <2>1. Active(t)' = Active(t)
    BY DEF Active, Templates, Bare
  <2> QED BY <1>1, <2>1 DEF Live, Up
<1>3. IsFiniteSet(pods')
  BY FS_Subset DEF ApiPodsInv
<1>4. ApiPodsInv'
  BY <1>3 DEF ApiPodsInv
<1> QED BY <1>1, <1>2, <1>4

(***************************************************************************)
(* Healthy scripts: steps of the controllers.                              *)
(***************************************************************************)
\* They leave the script, the release and what was sampled alone.
LEMMA ClusterKeeps ==
    ASSUME ApiInv, UNCHANGED script, UNCHANGED pc, UNCHANGED sample, UNCHANGED prev,
           UNCHANGED helm, UNCHANGED upgrade, UNCHANGED sink,
           ApiPodsInv', CountInv', StatusInv', PhaseInv', SurgeInv', EndpointInv'
    PROVE  ApiInv'
<1>1. HistoryInv' /\ SampleInv'
  BY DEF ApiInv, HistoryInv, SampleInv, Interrupted, Tolerated
<1>2. script' \in {"rollout_smoke", "resiliency"} /\ pc' \in Way'
  BY DEF ApiInv, Way
<1> QED BY <1>1, <1>2 DEF ApiInv

\* What holds of the endpoints while neither they nor the pods change.
LEMMA EndpointsKept ==
    ASSUME EndpointInv, UNCHANGED slices, UNCHANGED pods, UNCHANGED nextPod
    PROVE  EndpointInv'
BY DEF EndpointInv

\* The types the arithmetic needs.
LEMMA Numbers ==
    ASSUME ApiInv
    PROVE  /\ 0 \in Templates /\ 1 \in Templates /\ 2 \in Templates /\ Bad = 2
           /\ \A t \in Templates : /\ rs[t].want \in 0 .. 2 /\ rs[t].active \in 0 .. 2 /\ rs[t].available \in 0 .. 2
                                   /\ Live(t) \in Nat /\ Up(t) \in Nat /\ Up(t) <= Live(t)
           /\ Desired = 2 /\ MaxSurge = 1 /\ MaxUnavailable = 0
<1>1. \A t \in Templates : Live(t) \in Nat /\ Up(t) \in Nat /\ Up(t) <= Live(t)
  BY LiveCounts DEF ApiInv
<1>2. \A t \in Templates : rs[t].want \in 0 .. 2 /\ rs[t].active \in 0 .. 2 /\ rs[t].available \in 0 .. 2
  BY DEF ApiInv, CountInv
<1>3. Desired = 2 /\ MaxSurge = 1 /\ MaxUnavailable = 0 /\ Bad = 2
      /\ 0 \in Templates /\ 1 \in Templates /\ 2 \in Templates
  BY DEF ApiInv, Desired, MaxSurge, MaxUnavailable, Bad, Templates
<1> QED BY <1>1, <1>2, <1>3

\* How the Deployment controller scales (DeploymentSync): up by one within the
\* surge, or down by one as far as what is reported available allows.
LEMMA Scaling ==
    ASSUME ApiInv, DeploymentSync
    PROVE  /\ rs' \in [Templates -> [want : 0 .. 2, active : 0 .. 2, available : 0 .. 2]]
           /\ \A o \in Templates : rs'[o].active = rs[o].active /\ rs'[o].available = rs[o].available
           /\ dep.template = 0 =>
                rs'[0].want = 2 /\ rs'[1].want = 0 /\ rs'[2].want = 0
           /\ dep.template = 1 =>
                /\ rs'[1].want >= rs[1].want /\ rs'[0].want <= rs[0].want /\ rs'[2].want <= rs[2].want
                /\ rs'[0].want + rs[1].available >= 2
           /\ dep.template = 2 =>
                rs'[0].want = 0 /\ rs'[1].want = 2 /\ rs'[2].want = 1
<1> DEFINE t == dep.template
           old == {o \in Templates \ {t} : rs[o].want > 0}
           mayUp == rs[t].want < 2 /\ rs[0].want + rs[1].want + rs[2].want < 3
           spare == (rs[0].want + rs[1].want + rs[2].want) - 2 - (rs[t].want - rs[t].available)
<1>0. CountInv /\ StatusInv /\ PhaseInv /\ SurgeInv
  BY DEF ApiInv
<1>1. t \in Templates /\ 0 \in Templates /\ 1 \in Templates /\ 2 \in Templates
  BY <1>0, Numbers DEF StatusInv
<1>2. \/ mayUp /\ rs' = [rs EXCEPT ![t].want = @ + 1]
      \/ ~mayUp /\ spare > 0 /\ \E o \in old : rs' = [rs EXCEPT ![o].want = @ - 1]
      \/ ~mayUp /\ ~(old # {} /\ spare > 0) /\ rs' = rs
  <2>1. Desired = 2 /\ MaxSurge = 1 /\ MaxUnavailable = 0
    BY Numbers
  <2>2. Sum("want") = rs[0].want + rs[1].want + rs[2].want
    BY DEF Sum
  <2>3. Desired + MaxSurge = 3 /\ Desired - MaxUnavailable = 2
    BY <2>1
  <2> DEFINE up == rs[t].want < Desired /\ Sum("want") < Desired + MaxSurge
             left == Sum("want") - (Desired - MaxUnavailable) - (rs[t].want - rs[t].available)
  <2>4. (up <=> mayUp) /\ left = spare
    BY <2>1, <2>2, <2>3
  <2>5. \/ up /\ rs' = [rs EXCEPT ![t].want = @ + 1]
        \/ ~up /\ left > 0 /\ \E o \in old : rs' = [rs EXCEPT ![o].want = @ - 1]
        \/ ~up /\ ~(old # {} /\ left > 0) /\ rs' = rs
    BY DEF DeploymentSync
  <2> HIDE DEF up, left, mayUp, spare, old
  <2> QED BY <2>4, <2>5
<1>3. rs \in [Templates -> [want : 0 .. 2, active : 0 .. 2, available : 0 .. 2]]
  BY <1>0 DEF CountInv
<1>4. /\ rs[0].want \in 0 .. 2 /\ rs[1].want \in 0 .. 2 /\ rs[2].want \in 0 .. 2
      /\ rs[0].available \in 0 .. 2 /\ rs[1].available \in 0 .. 2 /\ rs[2].available = 0
      /\ rs[0].want + rs[1].available >= 2 /\ rs[2].want <= 1
      /\ rs[t].available \in 0 .. 2 /\ rs[t].want \in 0 .. 2
  BY <1>0, <1>1, <1>3 DEF CountInv
<1>5. t = 0 => rs[0].want = 2 /\ rs[1].want = 0 /\ rs[2].want = 0
  BY <1>0 DEF StatusInv, SurgeInv, RolledBack, Bad
<1>6. t = 2 => rs[0].want = 0 /\ rs[1].want = 2
  BY <1>0 DEF StatusInv, SurgeInv, PhaseInv, Updated, Bad
<1>7. CASE mayUp /\ rs' = [rs EXCEPT ![t].want = @ + 1]
  <2>1. PICK n \in 0 .. 2 : n = rs[t].want + 1
    BY <1>4, <1>7
  <2>2. rs' = [rs EXCEPT ![t].want = n]
    BY <1>7, <2>1
  <2>3. t # 0
    BY <1>4, <1>5, <1>7
  <2>4. rs' \in [Templates -> [want : 0 .. 2, active : 0 .. 2, available : 0 .. 2]]
    BY <1>1, <1>3, <2>2
  <2>5. \A o \in Templates : /\ rs'[o].active = rs[o].active /\ rs'[o].available = rs[o].available
                             /\ rs'[o].want = IF o = t THEN n ELSE rs[o].want
    BY <1>1, <1>3, <2>2
  <2> HIDE DEF t
  <2>6. t = 1 \/ t = 2
    BY <1>1, <2>3 DEF Templates
  <2>7. /\ rs'[0].want = rs[0].want /\ rs'[1].want = IF t = 1 THEN n ELSE rs[1].want
        /\ rs'[2].want = IF t = 2 THEN n ELSE rs[2].want
    BY <1>1, <2>3, <2>5, <2>6
  <2>8. t = 2 => rs[2].want = 0
    BY <1>4, <1>6, <1>7
  <2>9. t = 2 => n = 1
    BY <2>1, <2>8
  <2>10. t = 1 => n >= rs[1].want
    BY <1>4, <2>1
  <2>11. t = dep.template
    BY DEF t
  <2> QED BY <1>4, <1>5, <1>6, <2>3, <2>4, <2>5, <2>6, <2>7, <2>9, <2>10, <2>11
<1>8. CASE ~mayUp /\ spare > 0 /\ \E o \in old : rs' = [rs EXCEPT ![o].want = @ - 1]
  <2>1. PICK o \in old : rs' = [rs EXCEPT ![o].want = @ - 1]
    BY <1>8
  <2>2. o \in Templates /\ o # t /\ rs[o].want \in 1 .. 2
    BY <1>3, <2>1
  <2>3. PICK n \in 0 .. 1 : n = rs[o].want - 1
    BY <2>2
  <2>4. rs' = [rs EXCEPT ![o].want = n]
    BY <2>1, <2>3
  <2>5. rs' \in [Templates -> [want : 0 .. 2, active : 0 .. 2, available : 0 .. 2]]
    BY <1>3, <2>2, <2>4
  <2>6. \A x \in Templates : /\ rs'[x].active = rs[x].active /\ rs'[x].available = rs[x].available
                             /\ rs'[x].want = IF x = o THEN n ELSE rs[x].want
    BY <1>3, <2>2, <2>4
  <2>7. t # 0
    BY <1>1, <1>5, <2>2 DEF Templates
  <2>8. t # 2
    <3> SUFFICES ASSUME t = 2 PROVE FALSE
      OBVIOUS
    <3>1. spare = 0
      BY <1>4, <1>6
    <3> QED BY <1>8, <3>1
  <2>9. t = 1
    BY <1>1, <2>7, <2>8 DEF Templates
  <2>10. spare = (rs[0].want + rs[2].want + rs[1].available) - 2
    BY <1>4, <2>9
  <2>11. rs'[0].want + rs[1].available >= 2
    <3>1. CASE o = 0
      <4>1. rs'[0].want = rs[0].want - 1
        BY <1>1, <2>3, <2>6, <3>1
      <4>2. rs[2].want = 0
        BY <1>0, <2>2, <2>9, <3>1 DEF SurgeInv, PhaseInv, Updated, Bad
      <4> QED BY <1>4, <1>8, <2>10, <4>1, <4>2
    <3>2. CASE o # 0
      <4>1. rs'[0].want = rs[0].want
        BY <1>1, <2>6, <3>2
      <4> QED BY <1>4, <4>1
    <3> QED BY <3>1, <3>2
  <2>12. /\ rs'[1].want = rs[1].want /\ rs'[0].want <= rs[0].want /\ rs'[2].want <= rs[2].want
    BY <1>1, <1>4, <2>2, <2>3, <2>6, <2>9
  <2> QED BY <1>4, <2>5, <2>6, <2>9, <2>11, <2>12
<1>9. CASE ~mayUp /\ ~(old # {} /\ spare > 0) /\ rs' = rs
  <2>1. t = 2 => rs[2].want = 1
    BY <1>4, <1>6, <1>9
  <2> QED BY <1>3, <1>4, <1>5, <1>6, <1>9, <2>1
<1> QED BY <1>2, <1>7, <1>8, <1>9

\* The Deployment controller never reports, and never brings about, that there
\* are fewer pods available than desired.
LEMMA DeploymentStep ==
    ASSUME ApiInv, DeploymentSync
    PROVE  ApiInv'
<1> DEFINE t == dep.template
<1>0. ApiPodsInv /\ CountInv /\ StatusInv /\ PhaseInv /\ SurgeInv /\ EndpointInv
  BY DEF ApiInv
<1>1. /\ UNCHANGED script /\ UNCHANGED pc /\ UNCHANGED sample /\ UNCHANGED prev /\ UNCHANGED helm
      /\ UNCHANGED upgrade /\ UNCHANGED sink /\ UNCHANGED pods /\ UNCHANGED slices /\ UNCHANGED nextPod
      /\ dep' = [dep EXCEPT !.observed = dep.gen, !.rev = t, !.updated = rs[t].active,
                            !.available = Sum("available"), !.total = Sum("active")]
  BY DEF DeploymentSync, scriptVars, local, release
<1>2. t \in Templates /\ 0 \in Templates /\ 1 \in Templates /\ 2 \in Templates /\ Bad = 2
  BY <1>0, Numbers DEF StatusInv
<1>3. \A o \in Templates : /\ rs[o].want \in 0 .. 2 /\ rs[o].active \in 0 .. 2 /\ rs[o].available \in 0 .. 2
                           /\ Live(o) \in Nat /\ Up(o) \in Nat /\ Up(o) <= Live(o)
  BY Numbers
<1>4. PICK a \in Nat, b \in Nat, c \in Nat :
         /\ a = rs[t].active /\ b = rs[0].available + rs[1].available + rs[2].available
         /\ c = rs[0].active + rs[1].active + rs[2].active
  BY <1>2, <1>3
<1>5. dep' = [dep EXCEPT !.observed = dep.gen, !.rev = t, !.updated = a, !.available = b, !.total = c]
  BY <1>1, <1>4 DEF Sum
<1>6. /\ dep' \in [template : Templates, gen : Nat, observed : Nat, rev : Templates,
                   updated : Nat, available : Nat, total : Nat]
      /\ dep'.template = t /\ dep'.gen = dep.gen /\ dep'.observed = dep.gen
      /\ dep'.updated = a /\ dep'.available = b /\ dep'.total = c
  BY <1>0, <1>2, <1>5 DEF StatusInv
<1>7. /\ \A o : Active(o)' = Active(o) /\ Live(o)' = Live(o) /\ Up(o)' = Up(o)
      /\ EndpointInv'
  BY <1>0, <1>1, SamePods, EndpointsKept
<1>8. ApiPodsInv'
  BY <1>0, <1>1 DEF ApiPodsInv
<1>9. /\ rs'[0].active = rs[0].active /\ rs'[1].active = rs[1].active /\ rs'[2].active = rs[2].active
      /\ rs'[0].available = rs[0].available /\ rs'[1].available = rs[1].available
      /\ rs'[2].available = rs[2].available
      /\ rs'[0].want \in 0 .. 2 /\ rs'[1].want \in 0 .. 2 /\ rs'[2].want \in 0 .. 2
      /\ rs' \in [Templates -> [want : 0 .. 2, active : 0 .. 2, available : 0 .. 2]]
  BY <1>2, Scaling
<1>10. /\ Live(0)' = Live(0) /\ Live(1)' = Live(1) /\ Live(2)' = Live(2) /\ Up(1)' = Up(1)
       /\ Live(0) \in Nat /\ Live(1) \in Nat /\ Live(2) \in Nat /\ Up(1) \in Nat /\ Up(1) <= Live(1)
       /\ rs[0].want \in 0 .. 2 /\ rs[1].want \in 0 .. 2 /\ rs[2].want \in 0 .. 2
       /\ rs[0].active \in 0 .. 2 /\ rs[1].active \in 0 .. 2 /\ rs[2].active \in 0 .. 2
       /\ rs[0].available \in 0 .. 2 /\ rs[1].available \in 0 .. 2 /\ rs[2].available \in 0 .. 2
  BY <1>2, <1>3, <1>7
<1>11. t = 0 \/ t = 1 \/ t = 2
  BY <1>2 DEF Templates
<1>12. /\ t = 0 => rs'[0].want = 2 /\ rs'[1].want = 0 /\ rs'[2].want = 0
       /\ t = 1 => /\ rs'[1].want >= rs[1].want /\ rs'[0].want <= rs[0].want /\ rs'[2].want <= rs[2].want
                   /\ rs'[0].want + rs[1].available >= 2
       /\ t = 2 => rs'[0].want = 0 /\ rs'[1].want = 2 /\ rs'[2].want = 1
  BY Scaling
<1>13. t = dep.template
  OBVIOUS
<1> HIDE DEF t
<1>14. CountInv'
  <2>1. t = 0 => rs[0].want = 2 /\ rs[1].want = 0 /\ rs[2].want = 0
    BY <1>0, <1>13 DEF StatusInv, SurgeInv, RolledBack, Bad
  <2>2. t = 2 => rs[0].want = 0 /\ rs[1].want = 2
    BY <1>0, <1>13 DEF SurgeInv, PhaseInv, Updated, Bad
  <2> QED BY <1>0, <1>9, <1>10, <1>11, <1>12, <2>1, <2>2 DEF CountInv
<1>15. StatusInv'
  <2>1. b >= 2
    BY <1>0, <1>4, <1>10 DEF CountInv
  <2>2. t = 0 => b = 2
    BY <1>0, <1>4, <1>10, <1>13 DEF CountInv, StatusInv
  <2>3. t = 1 => a = rs'[1].active
    BY <1>4, <1>9
  <2>4. ASSUME t = 1, a = 2, b = 2, c = 2 PROVE Updated'
    <3>1. rs[1].active = 2 /\ rs[0].active = 0 /\ rs[2].available = 0
      BY <1>0, <1>4, <1>10, <2>4 DEF CountInv
    <3>2. rs[0].available = 0 /\ Live(0) = 0 /\ Live(1) = 2 /\ rs[1].want = 2
      BY <1>0, <1>10, <3>1 DEF CountInv
    <3>3. rs[1].available = 2 /\ Up(1) = 2 /\ rs[0].want = 0
      BY <1>0, <1>4, <1>10, <2>4, <3>1, <3>2 DEF CountInv
    <3>4. rs'[1].want = 2 /\ rs'[0].want = 0
      BY <1>9, <1>12, <2>4, <3>2, <3>3
    <3> QED BY <1>9, <1>10, <3>1, <3>2, <3>3, <3>4 DEF Updated
  <2>5. dep'.template = 1 /\ rollout_complete' => Updated'
    <3>1. Desired' = 2
      BY <1>1, Numbers DEF Desired
    <3>2. rollout_complete' => a = 2 /\ b = 2 /\ c = 2
      BY <1>6, <3>1 DEF rollout_complete
    <3> QED BY <1>6, <2>4, <3>2
  <2>6. dep'.template = 1 /\ dep'.observed = dep'.gen => dep'.updated <= rs'[1].active
    BY <1>6, <1>9, <1>10, <2>3
  <2> HIDE DEF t
  <2>7. dep.template \in Templates /\ (dep.template = 0 <=> pc \in {"start", "patch"}) /\ dep.gen \in Nat
    BY <1>0, <1>13 DEF StatusInv
  <2>8. dep'.observed <= dep'.gen /\ dep'.available >= 2
    BY <1>6, <2>1, <2>7
  <2>9. dep'.template = 0 => rs'[0].want = 2 /\ rs'[1].want = 0 /\ dep'.available = 2
    BY <1>6, <1>12, <2>2
  <2> QED BY <1>1, <1>6, <1>13, <2>5, <2>6, <2>7, <2>8, <2>9 DEF StatusInv
<1>16. PhaseInv'
  <2>1. t = 0 => pc \in {"start", "patch"}
    BY <1>0, <1>13 DEF StatusInv
  <2>2. rs[1].want = 2 /\ t # 0 => rs'[1].want = 2
    BY <1>9, <1>11, <1>12
  <2>3. rs[0].want = 0 /\ t # 0 => rs'[0].want = 0
    BY <1>9, <1>11, <1>12
  <2>4. Updated /\ t # 0 => Updated'
    BY <1>9, <1>10, <2>2, <2>3 DEF Updated
  <2> QED BY <1>0, <1>1, <2>1, <2>4 DEF PhaseInv, Complete, Released, RolledBack
<1>17. SurgeInv'
  <2>1. t # Bad /\ rs[2].want = 0 => rs'[2].want = 0
    BY <1>2, <1>9, <1>10, <1>11, <1>12
  <2>2. t = Bad => a = rs[2].active /\ rs'[2].want = 1
    BY <1>2, <1>4, <1>12
  <2>3. pc \in RolledBack => t # Bad
    BY <1>0, <1>13 DEF SurgeInv, Released, RolledBack
  <2>4. pc \in RolledBack /\ c = 2 => rs'[2].want = 0 /\ Live(2) = 0
    <3> SUFFICES ASSUME pc \in RolledBack, c = 2 PROVE rs'[2].want = 0 /\ Live(2) = 0
      OBVIOUS
    <3>1. rs[1].active = 2 /\ upgrade = "ended"
      BY <1>0 DEF PhaseInv, Updated, ApiInv, HistoryInv
    <3>2. rs[2].active = 0
      BY <1>4, <1>10, <3>1
    <3>3. rs[2].want = 0 /\ Live(2) = 0
      BY <1>0, <1>10, <3>1, <3>2 DEF SurgeInv
    <3> QED BY <2>1, <2>3, <3>3
  <2>5. upgrade = "ended" => rs'[2].want <= Live(2)
    <3> SUFFICES ASSUME upgrade = "ended" PROVE rs'[2].want <= Live(2)
      OBVIOUS
    <3>1. rs[2].want <= Live(2)
      BY <1>0 DEF SurgeInv
    <3>2. CASE t = 2
      BY <1>0, <1>2, <1>10, <1>12, <1>13, <3>1, <3>2 DEF SurgeInv
    <3>3. CASE t # 2
      <4>1. rs'[2].want <= rs[2].want
        BY <1>10, <1>11, <1>12, <3>3
      <4> QED BY <1>9, <1>10, <3>1, <4>1
    <3> QED BY <3>2, <3>3
  <2>6. pc \in Released /\ upgrade = "ended" => t = Bad
    BY <1>0, <1>13 DEF SurgeInv
  <2>7. /\ rs[2].active <= 1 /\ Live(2) <= 1
        /\ t = Bad => rs[2].active <= Live(2)
        /\ upgrade = "ended" => Live(2) <= rs[2].active
        /\ pc = "verify_rollback" => rs[2].want = 0 /\ Live(2) = 0
        /\ t # Bad /\ pc \notin RolledBack => rs[2].want = 0 /\ Live(2) = 0 /\ rs[2].active = 0
        /\ t = Bad <=> pc \in Released /\ upgrade \in {"applied", "ended"}
    BY <1>0, <1>13 DEF SurgeInv, CountInv
  <2>8. pc = "verify_rollback" => pc \in RolledBack
    BY DEF RolledBack
  <2> QED BY <1>1, <1>6, <1>9, <1>10, <2>1, <2>2, <2>3, <2>4, <2>5, <2>6, <2>7, <2>8 DEF SurgeInv
<1> QED BY <1>1, <1>7, <1>8, <1>14, <1>15, <1>16, <1>17, ClusterKeeps

\* Pods appear and disappear without a change of the endpoints.
LEMMA EndpointsFrame ==
    ASSUME ApiPodsInv, EndpointInv, UNCHANGED slices, nextPod' \in Nat, nextPod' >= nextPod,
           \A q \in pods' : q.tmpl = Bare =>
              q.id >= nextPod \/ \E p \in pods : p.tmpl = Bare /\ p.id = q.id
    PROVE  EndpointInv'
<1>1. \A e \in slices : e.pod < nextPod /\ e.pod \in Nat
  BY DEF EndpointInv
<1>2. \A e \in slices' : e.pod < nextPod'
  BY <1>1 DEF ApiPodsInv
<1>3. ASSUME NEW q \in pods', NEW e \in slices', q.tmpl = Bare, e.pod = q.id
      PROVE  ~e.ready
  <2>1. q.id < nextPod /\ q.id \in Nat /\ nextPod \in Nat
    BY <1>1, <1>3 DEF ApiPodsInv
  <2>2. PICK p \in pods : p.tmpl = Bare /\ p.id = q.id
    BY <1>3, <2>1
  <2> QED BY <1>3, <2>2 DEF EndpointInv
<1> QED BY <1>2, <1>3 DEF EndpointInv

\* What the counts of pods decide, as one relation of the numbers.
LEMMA CountsMove ==
    ASSUME ApiInv, UNCHANGED script, UNCHANGED pc, UNCHANGED sample, UNCHANGED prev, UNCHANGED helm,
           UNCHANGED upgrade, UNCHANGED sink, UNCHANGED dep, UNCHANGED rs,
           ApiPodsInv', EndpointInv',
           Live(0)' = Live(0) \/ (Live(0)' < Live(0) /\ rs[0].want <= Live(0)'),
           Live(1)' = Live(1) \/ (Live(1)' > Live(1) /\ Live(1)' <= rs[1].want),
           Up(1)' >= Up(1),
           \/ Live(2)' = Live(2)
           \/ Live(2) < rs[2].want /\ Live(2)' = Live(2) + 1
           \/ Live(2) > rs[2].want /\ Live(2)' = Live(2) - 1
    PROVE  ApiInv'
<1>0. CountInv /\ StatusInv /\ PhaseInv /\ SurgeInv /\ HistoryInv
  BY DEF ApiInv
<1>1. /\ Live(0) \in Nat /\ Live(1) \in Nat /\ Live(2) \in Nat /\ Up(1) \in Nat /\ Up(1) <= Live(1)
      /\ rs[0].want \in 0 .. 2 /\ rs[1].want \in 0 .. 2 /\ rs[2].want \in 0 .. 2
      /\ rs[0].active \in 0 .. 2 /\ rs[1].active \in 0 .. 2 /\ rs[2].active \in 0 .. 2
      /\ rs[0].available \in 0 .. 2 /\ rs[1].available \in 0 .. 2 /\ rs[2].available \in 0 .. 2
      /\ 0 \in Templates /\ 1 \in Templates /\ 2 \in Templates /\ Bad = 2
  BY Numbers
<1>2. /\ Live(0)' \in Nat /\ Live(1)' \in Nat /\ Live(2)' \in Nat /\ Up(1)' \in Nat /\ Up(1)' <= Live(1)'
  BY LiveTyped DEF LiveTypes
<1>3. CountInv'
  <2>1. rs[2].want <= 1 /\ Live(2) <= 1
    BY <1>0 DEF CountInv
  <2>2. Live(2)' <= 1
    BY <1>1, <1>2, <2>1
  <2>3. rs[0].want <= Live(0)' /\ Live(0)' <= rs[0].available /\ rs[0].available <= rs[0].active
    BY <1>0, <1>1, <1>2 DEF CountInv
  <2>4. rs[1].active <= Live(1)' /\ Live(1)' <= rs[1].want /\ rs[1].available <= Up(1)'
    BY <1>0, <1>1, <1>2 DEF CountInv
  <2> QED BY <1>0, <2>2, <2>3, <2>4 DEF CountInv
<1>4. Updated => Updated'
  <2>1. rs[1].want = 2 /\ Live(1) = 2 => Live(1)' = 2
    BY <1>1, <1>2
  <2>2. Live(0) = 0 => Live(0)' = 0
    BY <1>1, <1>2
  <2>3. rs[1].want = 2 /\ Live(1) = 2 /\ Up(1) = 2 => Up(1)' = 2
    BY <1>1, <1>2, <2>1
  <2> QED BY <2>1, <2>2, <2>3 DEF Updated
<1>5. StatusInv' /\ PhaseInv'
  <2>1. rollout_complete' = rollout_complete
    BY DEF rollout_complete, Desired
  <2> QED BY <1>0, <1>4, <2>1 DEF StatusInv, PhaseInv
<1>6. SurgeInv'
  <2>1. rs[2].want = 0 /\ Live(2) = 0 => Live(2)' = 0
    BY <1>1, <1>2
  <2>2. dep.template = Bad => rs[2].active <= Live(2)' /\ Live(2)' <= rs[2].want
    <3>1. dep.template = Bad => rs[2].active <= Live(2) /\ Live(2) <= rs[2].want
      BY <1>0 DEF SurgeInv
    <3> QED BY <1>1, <1>2, <3>1
  <2>3. upgrade = "ended" => rs[2].want <= Live(2)' /\ Live(2)' <= rs[2].active
    <3>1. upgrade = "ended" => rs[2].want <= Live(2) /\ Live(2) <= rs[2].active
      BY <1>0 DEF SurgeInv
    <3> QED BY <1>1, <1>2, <3>1
  <2> QED BY <1>0, <2>1, <2>2, <2>3 DEF SurgeInv
<1> QED BY <1>3, <1>5, <1>6, ClusterKeeps

\* A ReplicaSet makes or deletes a pod (ReplicaSetScale).
LEMMA ScaleStep ==
    ASSUME ApiInv, NEW t \in Templates, ReplicaSetScale(t)
    PROVE  ApiInv'
<1>0. ApiPodsInv /\ CountInv /\ StatusInv /\ PhaseInv /\ SurgeInv /\ EndpointInv
  BY DEF ApiInv
<1>1. /\ UNCHANGED script /\ UNCHANGED pc /\ UNCHANGED sample /\ UNCHANGED prev /\ UNCHANGED helm
      /\ UNCHANGED upgrade /\ UNCHANGED sink /\ UNCHANGED dep /\ UNCHANGED rs /\ UNCHANGED slices
  BY DEF ReplicaSetScale, scriptVars, local, release
<1>2. /\ Live(0) \in Nat /\ Live(1) \in Nat /\ Live(2) \in Nat /\ Up(1) \in Nat
      /\ rs[0].want \in 0 .. 2 /\ rs[1].want \in 0 .. 2 /\ rs[2].want \in 0 .. 2
      /\ 0 \in Templates /\ 1 \in Templates /\ 2 \in Templates /\ Bad = 2
  BY Numbers
<1>3. t = 0 \/ t = 1 \/ t = 2
  BY DEF Templates
<1>4. rs[0].want <= Live(0) /\ Live(1) <= rs[1].want
  BY <1>0 DEF CountInv
<1>5. CASE /\ Live(t) < rs[t].want
           /\ pods' = pods \cup {[id |-> nextPod, tmpl |-> t, ready |-> FALSE, deleting |-> FALSE]}
           /\ nextPod' = nextPod + 1
  <2>1. PICK q : q = [id |-> nextPod, tmpl |-> t, ready |-> FALSE, deleting |-> FALSE]
    OBVIOUS
  <2>2. q \in ApiPods /\ q.id = nextPod /\ q.tmpl = t /\ ~q.ready /\ ~q.deleting
    BY <1>0, <1>3, <2>1 DEF ApiPods, ApiPodsInv
  <2>3. pods' = pods \cup {q} /\ nextPod' = nextPod + 1 /\ t # Bare
    BY <1>3, <1>5, <2>1 DEF Bare
  <2>4. t # 0
    BY <1>2, <1>4, <1>5
  <2>5. /\ ApiPodsInv' /\ ReadyPods' = ReadyPods
        /\ \A o \in Templates : /\ Live(o)' = IF o = q.tmpl THEN Live(o) + 1 ELSE Live(o)
                                /\ Up(o)' = Up(o)
    BY <1>0, <1>1, <2>2, <2>3, <2>4, PodMade
  <2>6. EndpointInv'
    BY <1>0, <1>1, <2>2, <2>3, EndpointsFrame DEF ApiPodsInv
  <2>9. /\ Live(0)' = Live(0) /\ Up(1)' = Up(1)
        /\ Live(1)' = IF t = 1 THEN Live(1) + 1 ELSE Live(1)
        /\ Live(2)' = IF t = 2 THEN Live(2) + 1 ELSE Live(2)
    BY <1>2, <2>2, <2>4, <2>5
  <2>10. Live(1)' = Live(1) \/ (Live(1)' > Live(1) /\ Live(1)' <= rs[1].want)
    BY <1>2, <1>5, <2>9
  <2>11. Live(2)' = Live(2) \/ (Live(2) < rs[2].want /\ Live(2)' = Live(2) + 1)
    BY <1>5, <2>9
  <2> QED BY <1>1, <1>2, <2>5, <2>6, <2>9, <2>10, <2>11, CountsMove
<1>6. CASE /\ Live(t) > rs[t].want
           /\ \E p \in Active(t) : pods' = (pods \ {p}) \cup {[p EXCEPT !.deleting = TRUE]}
           /\ UNCHANGED nextPod
  <2>1. PICK p \in Active(t) : pods' = (pods \ {p}) \cup {[p EXCEPT !.deleting = TRUE]}
    BY <1>6
  <2>2. PICK q : q = [p EXCEPT !.deleting = TRUE]
    OBVIOUS
  <2>3. pods' = (pods \ {p}) \cup {q}
    BY <2>1, <2>2
  <2>4. t # 1
    BY <1>2, <1>4, <1>6
  <2>5. /\ ApiPodsInv' /\ Up(1)' = Up(1) /\ ReadyPods' = ReadyPods \ {p}
        /\ \A o \in Templates : Live(o)' = IF o = t THEN Live(o) - 1 ELSE Live(o)
    BY <1>0, <1>1, <1>6, <2>2, <2>3, <2>4, PodMarked
  <2>6. /\ Live(1)' = Live(1)
        /\ Live(0)' = IF t = 0 THEN Live(0) - 1 ELSE Live(0)
        /\ Live(2)' = IF t = 2 THEN Live(2) - 1 ELSE Live(2)
    BY <1>2, <2>4, <2>5
  <2>7. p \in pods /\ p \in ApiPods /\ p.tmpl = t
    BY <1>0 DEF Active, ApiPodsInv
  <2>8. q.tmpl = t /\ t # Bare
    BY <1>3, <2>2, <2>7 DEF ApiPods, Bare
  <2>9. EndpointInv'
    <3>1. nextPod' \in Nat /\ nextPod' >= nextPod
      BY <1>0, <1>6 DEF ApiPodsInv
    <3>2. \A x \in pods' : x.tmpl = Bare => \E y \in pods : y.tmpl = Bare /\ y.id = x.id
      BY <2>3, <2>8
    <3> QED BY <1>0, <1>1, <3>1, <3>2, EndpointsFrame
  <2>11. Live(0)' = Live(0) \/ (Live(0)' < Live(0) /\ rs[0].want <= Live(0)')
    BY <1>2, <1>6, <2>6
  <2>12. Live(2)' = Live(2) \/ (Live(2) > rs[2].want /\ Live(2)' = Live(2) - 1)
    BY <1>6, <2>6
  <2>13. Up(1)' >= Up(1)
    BY <1>2, <2>5
  <2> QED BY <1>1, <2>5, <2>6, <2>9, <2>11, <2>12, <2>13, CountsMove
<1> QED BY <1>5, <1>6 DEF ReplicaSetScale, Live

\* A pod becomes ready, or one that was marked is gone.
LEMMA PodStep ==
    ASSUME ApiInv, PodReady \/ PodGone
    PROVE  ApiInv'
<1>0. ApiPodsInv /\ PhaseInv /\ EndpointInv
  BY DEF ApiInv
<1>1. /\ UNCHANGED script /\ UNCHANGED pc /\ UNCHANGED sample /\ UNCHANGED prev /\ UNCHANGED helm
      /\ UNCHANGED upgrade /\ UNCHANGED sink /\ UNCHANGED dep /\ UNCHANGED rs /\ UNCHANGED slices
      /\ UNCHANGED nextPod
  BY DEF PodReady, PodGone, scriptVars, local, release
<1>2. /\ Up(1) \in Nat /\ 0 \in Templates /\ 1 \in Templates /\ 2 \in Templates
  BY Numbers
<1>3. nextPod' \in Nat /\ nextPod' >= nextPod
  BY <1>0, <1>1 DEF ApiPodsInv
<1>4. CASE PodReady
  <2>1. PICK p \in NotReadyPods :
           p.tmpl \notin {Bad, Bare} /\ pods' = (pods \ {p}) \cup {[p EXCEPT !.ready = TRUE]}
    BY <1>4 DEF PodReady
  <2>2. PICK q : q = [p EXCEPT !.ready = TRUE]
    OBVIOUS
  <2>3. pods' = (pods \ {p}) \cup {q}
    BY <2>1, <2>2
  <2>4. /\ ApiPodsInv' /\ p.tmpl = 1 /\ Up(1)' = Up(1) + 1 /\ ReadyPods' = ReadyPods \cup {q}
        /\ \A o \in Templates : Live(o)' = Live(o)
    BY <1>0, <1>1, <2>1, <2>2, <2>3, PodTurns
  <2>5. p \in ApiPods
    BY <1>0 DEF NotReadyPods, ApiPodsInv
  <2>6. q.tmpl # Bare
    BY <2>2, <2>4, <2>5 DEF ApiPods, Bare
  <2>7. \A x \in pods' : x.tmpl = Bare => \E y \in pods : y.tmpl = Bare /\ y.id = x.id
    BY <2>3, <2>6
  <2>8. EndpointInv'
    BY <1>0, <1>1, <1>3, <2>7, EndpointsFrame
  <2>10. Up(1)' >= Up(1)
    BY <1>2, <2>4
  <2> QED BY <1>1, <1>2, <2>4, <2>8, <2>10, CountsMove
<1>5. CASE PodGone
  <2>1. PICK p \in pods : p.deleting /\ pods' = pods \ {p}
    BY <1>5 DEF PodGone
  <2>2. /\ ApiPodsInv' /\ ReadyPods' = ReadyPods
        /\ \A t \in Templates : Live(t)' = Live(t) /\ Up(t)' = Up(t)
    BY <1>0, <1>1, <2>1, PodsGo
  <2>3. \A x \in pods' : x.tmpl = Bare => \E y \in pods : y.tmpl = Bare /\ y.id = x.id
    BY <2>1
  <2>4. EndpointInv'
    BY <1>0, <1>1, <1>3, <2>3, EndpointsFrame
  <2>6. Up(1)' >= Up(1)
    BY <1>2, <2>2
  <2> QED BY <1>1, <1>2, <2>2, <2>4, <2>6, CountsMove
<1> QED BY <1>4, <1>5

\* The endpoints follow the pods.
LEMMA EndpointStep ==
    ASSUME ApiInv, EndpointSync
    PROVE  ApiInv'
<1>0. ApiPodsInv /\ CountInv
  BY DEF ApiInv
<1>1. /\ UNCHANGED script /\ UNCHANGED pc /\ UNCHANGED sample /\ UNCHANGED prev /\ UNCHANGED helm
      /\ UNCHANGED upgrade /\ UNCHANGED sink /\ UNCHANGED dep /\ UNCHANGED rs /\ UNCHANGED pods
      /\ UNCHANGED nextPod
      /\ slices' = {[pod |-> p.id, ready |-> p.ready /\ ~p.deleting] : p \in pods}
  BY DEF EndpointSync, scriptVars, local, release, Endpoints
<1>2. /\ Up(1) \in Nat /\ 0 \in Templates /\ 1 \in Templates /\ 2 \in Templates
  BY Numbers
<1>3. /\ ReadyPods' = ReadyPods
      /\ \A t : Active(t)' = Active(t) /\ Live(t)' = Live(t) /\ Up(t)' = Up(t)
  BY <1>1, SamePods
<1>4. ApiPodsInv'
  BY <1>0, <1>1 DEF ApiPodsInv
<1>5. \A e \in slices' : \E p \in pods : e.pod = p.id /\ (e.ready <=> p \in ReadyPods)
  <2> SUFFICES ASSUME NEW e \in slices'
               PROVE  \E p \in pods : e.pod = p.id /\ (e.ready <=> p \in ReadyPods)
    OBVIOUS
  <2>1. PICK p \in pods : e = [pod |-> p.id, ready |-> p.ready /\ ~p.deleting]
    BY <1>1
  <2>2. e.pod = p.id /\ e.ready = (p.ready /\ ~p.deleting)
    BY <2>1
  <2>3. p \in ReadyPods <=> p.ready /\ ~p.deleting
    BY DEF ReadyPods
  <2>4. e.ready <=> p \in ReadyPods
    BY <2>2, <2>3, Zenon
  <2> QED BY <2>2, <2>4
<1>6. \A p \in ReadyPods : \E e \in slices' : e.pod = p.id /\ e.ready
  <2> SUFFICES ASSUME NEW p \in ReadyPods PROVE \E e \in slices' : e.pod = p.id /\ e.ready
    OBVIOUS
  <2>1. p \in pods /\ p.ready /\ ~p.deleting
    BY DEF ReadyPods
  <2>2. PICK e : e = [pod |-> p.id, ready |-> p.ready /\ ~p.deleting]
    OBVIOUS
  <2>3. e \in slices'
    BY <1>1, <2>1, <2>2
  <2>4. e.pod = p.id /\ e.ready = (p.ready /\ ~p.deleting)
    BY <2>2
  <2>5. e.ready
    BY <2>1, <2>4, Zenon
  <2> QED BY <2>3, <2>4, <2>5
<1>7. EndpointInv'
  <2>1. slices' \in SUBSET [pod : Nat, ready : BOOLEAN]
    <3> SUFFICES ASSUME NEW e \in slices' PROVE e \in [pod : Nat, ready : BOOLEAN]
      OBVIOUS
    <3>1. PICK p \in pods : e = [pod |-> p.id, ready |-> p.ready /\ ~p.deleting]
      BY <1>1
    <3>2. p.id \in Nat /\ (p.ready /\ ~p.deleting) \in BOOLEAN
      BY <1>0 DEF ApiPodsInv, ApiPods
    <3> QED BY <3>1, <3>2
  <2>2. PICK p, q \in ReadyPods : p.id # q.id
    BY <1>0, TwoReady
  <2>3. \E e, f \in slices' : e.ready /\ f.ready /\ e.pod # f.pod
    BY <1>6, <2>2
  <2>4. \A e \in slices' : e.pod < nextPod'
    BY <1>0, <1>1, <1>5 DEF ApiPodsInv
  <2>5. \A x \in pods', e \in slices' : x.tmpl = Bare /\ e.pod = x.id => ~e.ready
    <3> SUFFICES ASSUME NEW x \in pods, NEW e \in slices', x.tmpl = Bare, e.pod = x.id PROVE ~e.ready
      BY <1>1
    <3>1. PICK y \in pods : e.pod = y.id /\ (e.ready <=> y \in ReadyPods)
      BY <1>5
    <3>2. y = x
      BY <1>0, <3>1 DEF ApiPodsInv
    <3>3. y \notin ReadyPods
      BY <1>0, <3>2 DEF ApiPodsInv, ReadyPods
    <3> QED BY <3>1, <3>3
  <2> QED BY <2>1, <2>3, <2>4, <2>5 DEF EndpointInv
<1>9. Up(1)' >= Up(1)
  BY <1>2, <1>3
<1> QED BY <1>1, <1>3, <1>4, <1>7, <1>9, CountsMove

\* What a ReplicaSet reports is what it has now: of the old one not less than
\* it wants, of the new one not less than it reported before.
LEMMA StatusStep ==
    ASSUME ApiInv, NEW t \in Templates, ReplicaSetStatus(t)
    PROVE  ApiInv'
<1>0. ApiPodsInv /\ CountInv /\ StatusInv /\ PhaseInv /\ SurgeInv /\ EndpointInv /\ HistoryInv
  BY DEF ApiInv
<1>1. /\ UNCHANGED script /\ UNCHANGED pc /\ UNCHANGED sample /\ UNCHANGED prev /\ UNCHANGED helm
      /\ UNCHANGED upgrade /\ UNCHANGED sink /\ UNCHANGED dep /\ UNCHANGED pods /\ UNCHANGED slices
      /\ UNCHANGED nextPod
      /\ rs' = [rs EXCEPT ![t].active = Live(t), ![t].available = Up(t)]
  BY DEF ReplicaSetStatus, scriptVars, local, release, Live, Up
<1>2. /\ Live(0) \in Nat /\ Live(1) \in Nat /\ Live(2) \in Nat /\ Up(1) \in Nat /\ Up(1) <= Live(1)
      /\ Up(0) \in Nat /\ Up(2) \in Nat /\ Live(t) \in Nat /\ Up(t) \in Nat /\ Up(t) <= Live(t)
      /\ rs[0].want \in 0 .. 2 /\ rs[1].want \in 0 .. 2 /\ rs[2].want \in 0 .. 2
      /\ rs[0].active \in 0 .. 2 /\ rs[1].active \in 0 .. 2 /\ rs[2].active \in 0 .. 2
      /\ rs[0].available \in 0 .. 2 /\ rs[1].available \in 0 .. 2 /\ rs[2].available \in 0 .. 2
      /\ 0 \in Templates /\ 1 \in Templates /\ 2 \in Templates /\ Bad = 2
  BY Numbers
<1>3. t = 0 \/ t = 1 \/ t = 2
  BY DEF Templates
<1>4. /\ Live(0) >= rs[0].want /\ Live(0) <= 2 /\ Live(1) <= 2 /\ Live(2) <= 1
  BY <1>0, <1>2 DEF CountInv
<1>5. Live(t) \in 0 .. 2 /\ Up(t) \in 0 .. 2
  BY <1>2, <1>3, <1>4
<1>6. Up(0) = Live(0)
  <2>1. Active(0) \cap ReadyPods = Active(0)
    BY <1>0 DEF Active, ReadyPods, ApiPodsInv
  <2> QED BY <2>1 DEF Up, Live
<1>7. Up(2) = 0
  <2>1. Active(2) \cap ReadyPods = {}
    BY <1>0, <1>2 DEF Active, ReadyPods, ApiPodsInv
  <2> QED BY <2>1, FS_EmptySet DEF Up
<1>8. PICK a \in 0 .. 2, b \in 0 .. 2 : a = Live(t) /\ b = Up(t)
  BY <1>5
<1>9. rs' = [rs EXCEPT ![t].active = a, ![t].available = b]
  BY <1>1, <1>8
<1>10. rs \in [Templates -> [want : 0 .. 2, active : 0 .. 2, available : 0 .. 2]]
  BY <1>0 DEF CountInv
<1>11. /\ rs' \in [Templates -> [want : 0 .. 2, active : 0 .. 2, available : 0 .. 2]]
       /\ \A o \in Templates : /\ rs'[o].want = rs[o].want
                               /\ rs'[o].active = IF o = t THEN a ELSE rs[o].active
                               /\ rs'[o].available = IF o = t THEN b ELSE rs[o].available
  BY <1>9, <1>10
<1>12. /\ rs'[0].want = rs[0].want /\ rs'[1].want = rs[1].want /\ rs'[2].want = rs[2].want
       /\ rs'[0].available = (IF t = 0 THEN Live(0) ELSE rs[0].available)
       /\ rs'[0].active = (IF t = 0 THEN Live(0) ELSE rs[0].active)
       /\ rs'[1].active = (IF t = 1 THEN Live(1) ELSE rs[1].active)
       /\ rs'[1].available = (IF t = 1 THEN Up(1) ELSE rs[1].available)
       /\ rs'[2].active = (IF t = 2 THEN Live(2) ELSE rs[2].active)
       /\ rs'[2].available = (IF t = 2 THEN 0 ELSE rs[2].available)
  BY <1>2, <1>6, <1>7, <1>8, <1>11
<1>13. /\ \A o : Active(o)' = Active(o) /\ Live(o)' = Live(o) /\ Up(o)' = Up(o)
       /\ EndpointInv'
  BY <1>0, <1>1, SamePods, EndpointsKept
<1>14. Live(0)' = Live(0) /\ Live(1)' = Live(1) /\ Live(2)' = Live(2) /\ Up(1)' = Up(1)
  BY <1>13
<1>15. ApiPodsInv'
  BY <1>0, <1>1 DEF ApiPodsInv
<1>16. rs'[1].active >= rs[1].active /\ rs'[1].available >= rs[1].available
  BY <1>0, <1>2, <1>12 DEF CountInv
<1>17. CountInv'
  <2>1. rs'[1].available \in 0 .. 2
    BY <1>2, <1>11
  <2>2. rs[0].want + rs'[1].available >= 2
    BY <1>0, <1>2, <1>16, <2>1 DEF CountInv
  <2> QED BY <1>0, <1>2, <1>4, <1>11, <1>12, <1>14, <2>2 DEF CountInv
<1>19. Updated => Updated'
  <2>1. rs[1].active = 2 /\ Live(1) = 2 => rs'[1].active = 2
    BY <1>12
  <2>2. rs[1].available = 2 /\ Up(1) = 2 => rs'[1].available = 2
    BY <1>12
  <2> QED BY <1>12, <1>14, <2>1, <2>2 DEF Updated
<1>18. StatusInv'
  <2>1. rs'[1].active \in 0 .. 2 /\ dep.updated \in Nat
    BY <1>0, <1>2, <1>11 DEF StatusInv
  <2>2. dep.updated <= rs[1].active => dep.updated <= rs'[1].active
    BY <1>2, <1>16, <2>1
  <2>3. rollout_complete' => rollout_complete
    BY <1>1 DEF rollout_complete, Desired
  <2> QED BY <1>0, <1>1, <1>12, <1>19, <2>2, <2>3 DEF StatusInv
<1>20. PhaseInv'
  BY <1>0, <1>1, <1>19 DEF PhaseInv
<1>21. SurgeInv'
  <2>1. /\ rs[2].active = 0 /\ Live(2) = 0 => rs'[2].active = 0
        /\ rs[2].active <= Live(2) => rs'[2].active <= Live(2)
        /\ Live(2) <= rs[2].active => Live(2) <= rs'[2].active
    BY <1>2, <1>12
  <2> QED BY <1>0, <1>1, <1>12, <1>14, <2>1 DEF SurgeInv
<1> QED BY <1>1, <1>13, <1>15, <1>17, <1>18, <1>20, <1>21, ClusterKeeps

\* The controllers keep to the way of a healthy script.
LEMMA KubernetesStep ==
    ASSUME ApiInv, Kubernetes
    PROVE  ApiInv'
BY DeploymentStep, PodStep, EndpointStep, ScaleStep, StatusStep DEF Kubernetes

(***************************************************************************)
(* Healthy scripts: steps of the scripts.                                  *)
(***************************************************************************)
\* How far the rolling update is, and whether the status says so, is as before
\* or unknown.
SameProgress ==
    /\ Updated => Updated'
    /\ rollout_complete' => dep'.observed = dep'.gen /\ (dep' = dep => rollout_complete)

\* Where the cluster is as before, so is what was counted in it.
LEMMA ClusterKept ==
    ASSUME ApiInv, UNCHANGED script, UNCHANGED rs, UNCHANGED pods, UNCHANGED slices, UNCHANGED nextPod
    PROVE  /\ ApiPodsInv' /\ CountInv' /\ EndpointInv' /\ SameProgress /\ Way' = Way
           /\ Live(0)' = Live(0) /\ Live(1)' = Live(1) /\ Live(2)' = Live(2) /\ Up(1)' = Up(1)
<1>1. /\ Live(0)' = Live(0) /\ Live(1)' = Live(1) /\ Live(2)' = Live(2) /\ Up(1)' = Up(1)
  BY SamePods
<1>2. ApiPodsInv'
  BY DEF ApiInv, ApiPodsInv
<1>3. CountInv'
  BY <1>1 DEF ApiInv, CountInv
<1>4. EndpointInv'
  BY EndpointsKept DEF ApiInv
<1>5. Way' = Way
  BY DEF Way
<1>6. SameProgress
  BY <1>1 DEF SameProgress, Updated, rollout_complete, Desired
<1> QED BY <1>1, <1>2, <1>3, <1>4, <1>5, <1>6

\* A check that passes takes the script on and changes nothing else.
LEMMA Advance ==
    ASSUME ApiInv, UNCHANGED script, UNCHANGED cluster, UNCHANGED prev, UNCHANGED release, pc' \in Way,
           UNCHANGED sample \/ (sample' = NoSample /\ pc' # "emergency"),
           \/ pc = "start" /\ pc' = "patch"
           \/ pc \in Complete /\ pc' \in Complete \ {"checks", "previous"}
           \/ pc = "watch" /\ upgrade = "ended" /\ pc' = "verify_bad"
           \/ pc = "verify_bad" /\ pc' = "rollback"
           \/ pc = "verify_bad" /\ pc' = "emergency" /\ Interrupted
           \/ pc = "rollback_wait" /\ pc' = "settle"
           \/ pc = "settle" /\ pc' = "verify_rollback" /\ RolloutDone
    PROVE  ApiInv'
<1>0. StatusInv /\ PhaseInv /\ SurgeInv /\ HistoryInv /\ SampleInv
  BY DEF ApiInv
<1>1. /\ UNCHANGED rs /\ UNCHANGED pods /\ UNCHANGED slices /\ UNCHANGED nextPod /\ UNCHANGED dep
      /\ UNCHANGED prev /\ UNCHANGED helm /\ UNCHANGED upgrade /\ UNCHANGED sink
  BY DEF cluster, release
<1>2. /\ ApiPodsInv' /\ CountInv' /\ EndpointInv' /\ SameProgress /\ Way' = Way
      /\ Live(0)' = Live(0) /\ Live(1)' = Live(1) /\ Live(2)' = Live(2) /\ Up(1)' = Up(1)
  BY <1>1, ClusterKept
<1>3. pc = "settle" /\ RolloutDone => dep.observed = dep.gen /\ dep.total = 2
  BY Numbers DEF RolloutDone
<1>4. StatusInv'
  BY <1>0, <1>1, <1>2 DEF StatusInv, SameProgress, Complete
<1>5. PhaseInv'
  BY <1>0, <1>1, <1>2 DEF PhaseInv, SameProgress, Complete, Released, RolledBack
<1>6. SurgeInv'
  <2>1. CASE pc = "settle" /\ pc' = "verify_rollback" /\ RolloutDone
    <3>1. rs[2].want = 0 /\ Live(2) = 0
      BY <1>0, <1>3, <2>1 DEF SurgeInv, RolledBack
    <3> QED BY <1>0, <1>1, <1>2, <2>1, <3>1 DEF SurgeInv, Released, RolledBack
  <2>2. CASE pc' # "verify_rollback"
    <3>1. (pc \in Released <=> pc' \in Released) /\ (pc \in RolledBack <=> pc' \in RolledBack)
      BY <2>2 DEF Released, RolledBack, Complete
    <3> QED BY <1>0, <1>1, <1>2, <2>2, <3>1 DEF SurgeInv
  <2> QED BY <2>1, <2>2 DEF Complete
<1>7. HistoryInv'
  BY <1>0, <1>1 DEF HistoryInv, Complete, Released, RolledBack
<1>8. SampleInv'
  <2>1. pc' # "checks"
    BY DEF Complete
  <2>2. CASE UNCHANGED sample
    BY <1>0, <1>1, <2>1, <2>2 DEF SampleInv, Interrupted, Tolerated, Complete
  <2>3. CASE sample' = NoSample /\ pc' # "emergency"
    BY <2>1, <2>3 DEF SampleInv, SampleRecords, NoSample
  <2> QED BY <2>2, <2>3
<1> QED BY <1>2, <1>4, <1>5, <1>6, <1>7, <1>8 DEF ApiInv

\* The contract holds of the release as it was installed.
LEMMA ContractStep ==
    ASSUME ApiInv, verify_rollout_contract
    PROVE  ApiInv'
<1>1. pc = "start" /\ dep.available = 2 /\ dep.template # Bad
  BY DEF verify_rollout_contract, ApiInv, StatusInv, Bad
<1>2. pc' = "patch" /\ UNCHANGED script /\ UNCHANGED cluster /\ UNCHANGED local /\ UNCHANGED release
  BY <1>1, Numbers DEF verify_rollout_contract, Check, Goto, still
<1>3. pc' \in Way
  BY <1>2 DEF Way
<1> QED BY <1>1, <1>2, <1>3, Advance DEF local

\* A change of the template makes the status of the Deployment a past one.
LEMMA NewTemplate ==
    ASSUME StatusInv, NEW t \in Templates, dep.template # t, SetTemplate(t)
    PROVE  /\ dep' \in [template : Templates, gen : Nat, observed : Nat, rev : Templates,
                        updated : Nat, available : Nat, total : Nat]
           /\ dep'.template = t /\ dep'.available = dep.available
           /\ dep'.observed <= dep'.gen /\ dep'.observed # dep'.gen
<1>1. /\ dep \in [template : Templates, gen : Nat, observed : Nat, rev : Templates,
                  updated : Nat, available : Nat, total : Nat]
      /\ dep.observed <= dep.gen
  BY DEF StatusInv
<1>2. PICK g \in Nat : g = dep.gen + 1
  BY <1>1
<1>3. dep' = [dep EXCEPT !.template = t, !.gen = g]
  BY <1>2 DEF SetTemplate
<1>4. /\ dep' \in [template : Templates, gen : Nat, observed : Nat, rev : Templates,
                   updated : Nat, available : Nat, total : Nat]
      /\ dep'.template = t /\ dep'.gen = g /\ dep'.observed = dep.observed /\ dep'.available = dep.available
  BY <1>1, <1>3
<1>5. dep'.observed <= g /\ dep'.observed # g
  BY <1>1, <1>2, <1>4
<1> QED BY <1>4, <1>5

\* The new template, of which there is no pod yet.
LEMMA PatchStep ==
    ASSUME ApiInv, StartInv, Patch
    PROVE  ApiInv'
<1>0. ApiPodsInv /\ CountInv /\ StatusInv /\ PhaseInv /\ SurgeInv /\ HistoryInv
  BY DEF ApiInv
<1>10. Cardinality({p.tmpl : p \in pods}) = 1
  <2>1. pc = "patch" /\ dep.template = 0
    BY <1>0 DEF Patch, StatusInv
  <2>2. rs[0].want = 2 /\ rs[0].want <= Live(0) /\ 0 \in Templates
    BY <1>0, <2>1, Numbers DEF StatusInv, CountInv
  <2>3. Active(0) # {}
    <3>1. Live(0) \in Nat /\ (Live(0) = 0 <=> Active(0) = {})
      BY <1>0, <2>2, LiveCounts
    <3> QED BY <2>2, <3>1
  <2>4. {p.tmpl : p \in pods} = {0}
    BY <2>1, <2>3 DEF StartInv, Active
  <2> QED BY <2>4, FS_Singleton
<1>1. /\ pc = "patch" /\ pc' = "sample" /\ SetTemplate(1)
      /\ sample' = [NoSample EXCEPT !.hashes = {p.tmpl : p \in pods}]
      /\ UNCHANGED script /\ UNCHANGED rs /\ UNCHANGED pods /\ UNCHANGED slices /\ UNCHANGED nextPod
      /\ UNCHANGED prev /\ UNCHANGED helm /\ UNCHANGED upgrade /\ UNCHANGED sink
  BY <1>10 DEF Patch, Goto, still, release
<1>2. /\ ApiPodsInv' /\ CountInv' /\ EndpointInv' /\ SameProgress /\ Way' = Way
      /\ Live(0)' = Live(0) /\ Live(1)' = Live(1) /\ Live(2)' = Live(2) /\ Up(1)' = Up(1)
  BY <1>1, ClusterKept
<1>3. dep.template = 0 /\ 1 \in Templates
  BY <1>0, <1>1, Numbers DEF StatusInv
<1>4. /\ dep' \in [template : Templates, gen : Nat, observed : Nat, rev : Templates,
                   updated : Nat, available : Nat, total : Nat]
      /\ dep'.template = 1 /\ dep'.available = dep.available
      /\ dep'.observed <= dep'.gen /\ dep'.observed # dep'.gen
  BY <1>0, <1>1, <1>3, NewTemplate
<1>5. StatusInv'
  BY <1>0, <1>1, <1>2, <1>4 DEF StatusInv, SameProgress
<1>6. PhaseInv' /\ HistoryInv'
  BY <1>0, <1>1 DEF PhaseInv, HistoryInv, Complete, Released, RolledBack
<1>7. SurgeInv'
  BY <1>0, <1>1, <1>2, <1>3, <1>4 DEF SurgeInv, HistoryInv, Released, RolledBack, Bad
<1>8. SampleInv'
  <2>1. {p.tmpl : p \in pods} \in SUBSET (0 .. 3)
    BY <1>0 DEF ApiPodsInv, ApiPods
  <2>2. sample' \in SampleRecords /\ (sample').low = FALSE
    BY <1>1, <2>1 DEF NoSample, SampleRecords
  <2> QED BY <1>1, <2>2 DEF SampleInv, Released
<1>9. pc' \in Way' /\ script' \in {"rollout_smoke", "resiliency"}
  BY <1>1, <1>2 DEF Way, ApiInv
<1> QED BY <1>2, <1>5, <1>6, <1>7, <1>8, <1>9 DEF ApiInv

\* A request is counted, and if it is lost that as well, as far as the checks
\* tell.
LEMMA Requests ==
    ASSUME sample \in SampleRecords, NEW s \in Requested
    PROVE  /\ s \in SampleRecords /\ s.low = sample.low
           /\ sample.misses \in 0 .. 2 => s.misses \in 0 .. 2
           /\ s.sent <= sample.sent \/ s.sent <= RequestSamples \/ s.sent <= BadSamples
<1>1. RequestSamples \in Nat /\ BadSamples \in Nat /\ sample.sent \in Nat /\ sample.misses \in Nat
  BY RolloutAssumption DEF SampleRecords
<1>2. Wanted \in {RequestSamples, BadSamples} /\ Tolerated \in {0, 1}
  BY DEF Wanted, Tolerated
<1>3. PICK n \in Nat : n = IF sample.sent < Wanted THEN sample.sent + 1 ELSE sample.sent
  BY <1>1
<1>4. PICK m \in Nat : m = IF sample.misses > Tolerated THEN sample.misses ELSE sample.misses + 1
  BY <1>1
<1>5. n <= sample.sent \/ n <= RequestSamples \/ n <= BadSamples
  BY <1>1, <1>2, <1>3
<1>6. sample.misses \in 0 .. 2 => m \in 0 .. 2
  BY <1>1, <1>2, <1>4
<1>7. PICK a : a = Asked /\ a = [sample EXCEPT !.sent = n]
  BY <1>3 DEF Asked
<1>8. a \in SampleRecords /\ a.low = sample.low /\ a.misses = sample.misses /\ a.sent = n
  BY <1>7 DEF SampleRecords
<1>9. CASE s = a
  BY <1>5, <1>8, <1>9
<1>10. CASE s # a
  <2>1. s = [a EXCEPT !.misses = m]
    BY <1>4, <1>7, <1>8, <1>10 DEF Requested
  <2>2. s \in SampleRecords /\ s.low = a.low /\ s.misses = m /\ s.sent = a.sent
    BY <1>8, <2>1 DEF SampleRecords
  <2>3. s.low = sample.low
    BY <1>8, <2>2, Zenon
  <2> QED BY <1>5, <1>6, <1>8, <2>2, <2>3
<1> QED BY <1>9, <1>10

\* A turn of the sampling loop: a request, the Deployment, then the pods.
LEMMA SampleStep ==
    ASSUME ApiInv, Sample \/ SamplePods
    PROVE  ApiInv'
<1>0. ApiPodsInv /\ CountInv /\ StatusInv /\ PhaseInv /\ SurgeInv /\ HistoryInv /\ SampleInv
  BY DEF ApiInv
<1>1. /\ UNCHANGED script /\ UNCHANGED rs /\ UNCHANGED pods /\ UNCHANGED slices /\ UNCHANGED nextPod
      /\ UNCHANGED dep /\ UNCHANGED prev /\ UNCHANGED helm /\ UNCHANGED upgrade /\ UNCHANGED sink
      /\ pc \in {"sample", "sample_pods"} /\ pc' \in {"sample", "sample_pods", "checks"}
  BY DEF Sample, SamplePods, Goto, still, cluster, release
<1>2. /\ ApiPodsInv' /\ CountInv' /\ EndpointInv' /\ SameProgress /\ Way' = Way
      /\ Live(0)' = Live(0) /\ Live(1)' = Live(1) /\ Live(2)' = Live(2) /\ Up(1)' = Up(1)
  BY <1>1, ClusterKept
<1>3. StatusInv' /\ SurgeInv' /\ HistoryInv'
  BY <1>0, <1>1, <1>2 DEF StatusInv, SameProgress, SurgeInv, HistoryInv, Released, RolledBack
<1>4. dep.template = 1
  BY <1>0, <1>1 DEF StatusInv, SurgeInv, Released, Templates, Bad
<1>5. pc' \in Way' /\ script' \in {"rollout_smoke", "resiliency"}
  BY <1>1, <1>2 DEF Way, ApiInv
<1>6. CASE Sample
  <2>1. PICK s : /\ s \in SampleRecords /\ s.low = sample.low
                 /\ sample' = [s EXCEPT !.done = rollout_complete, !.low = @ \/ dep.available < Desired]
    <3>1. PICK s \in (IF script = "rollout_smoke" THEN Requested ELSE {sample}) :
             sample' = [s EXCEPT !.done = rollout_complete, !.low = @ \/ dep.available < Desired]
      BY <1>6 DEF Sample
    <3>2. sample \in SampleRecords
      BY <1>0 DEF SampleInv
    <3>3. s \in SampleRecords /\ s.low = sample.low
      BY <3>2, Requests
    <3> QED BY <3>1, <3>3
  <2>2. ~(s.low \/ dep.available < Desired)
    <3>1. ~sample.low /\ ~(dep.available < Desired)
      BY <1>0, Numbers DEF SampleInv, StatusInv
    <3> QED BY <2>1, <3>1, Zenon
  <2>4. PICK d \in BOOLEAN : d = rollout_complete
    BY DEF rollout_complete
  <2>5. PICK l \in BOOLEAN : l = (s.low \/ dep.available < Desired)
    OBVIOUS
  <2>6. ~l
    BY <2>2, <2>5
  <2>7. sample' = [s EXCEPT !.done = d, !.low = l]
    BY <2>1, <2>4, <2>5
  <2>8. sample' \in SampleRecords /\ sample'.low = l /\ sample'.done = d
    BY <2>1, <2>7 DEF SampleRecords
  <2>9. ~sample'.low /\ (sample'.done <=> rollout_complete)
    <3>1. (sample').low = l /\ (sample').done = d
      BY <2>8
    <3>2. ~(sample').low
      BY <2>6, <3>1, Zenon
    <3>3. d <=> rollout_complete
      BY <2>4 DEF rollout_complete
    <3>4. (sample').done <=> rollout_complete
      BY <3>1, <3>3, Zenon
    <3> QED BY <3>2, <3>4
  <2>10. pc' = "sample_pods"
    BY <1>6 DEF Sample, Goto
  <2>11. SampleInv'
    BY <2>8, <2>9, <2>10 DEF SampleInv, Released
  <2>12. rollout_complete => Updated'
    BY <1>0, <1>2, <1>4 DEF StatusInv, SameProgress
  <2>13. PhaseInv'
    BY <1>1, <1>2, <2>9, <2>10, <2>12 DEF PhaseInv, Complete, Released, RolledBack
  <2> QED BY <1>2, <1>3, <1>5, <2>11, <2>13 DEF ApiInv
<1>7. CASE SamplePods
  <2>1. /\ sample' = [sample EXCEPT !.hashes = @ \cup {p.tmpl : p \in pods}]
        /\ pc = "sample_pods" /\ (pc' = "sample" \/ (pc' = "checks" /\ sample.done))
    BY <1>7 DEF SamplePods, Goto
  <2>2. PICK h \in SUBSET (0 .. 3) : h = sample.hashes \cup {p.tmpl : p \in pods}
    <3>1. sample.hashes \in SUBSET (0 .. 3)
      BY <1>0 DEF SampleInv, SampleRecords
    <3>2. {p.tmpl : p \in pods} \in SUBSET (0 .. 3)
      BY <1>0 DEF ApiPodsInv, ApiPods
    <3> QED BY <3>1, <3>2
  <2>3. sample' = [sample EXCEPT !.hashes = h]
    BY <2>1, <2>2
  <2>4. sample' \in SampleRecords /\ sample'.low = sample.low /\ sample'.hashes = h
    BY <1>0, <2>3 DEF SampleInv, SampleRecords
  <2>5. ~sample'.low
    <3>1. ~sample.low
      BY <1>0 DEF SampleInv
    <3> QED BY <2>4, <3>1, Zenon
  <2>6. sample.done => Updated /\ Updated'
    BY <1>0, <1>2, <2>1 DEF PhaseInv, SameProgress
  <2>7. sample.done => 1 \in h
    <3> SUFFICES ASSUME sample.done PROVE 1 \in h
      OBVIOUS
    <3>1. Active(1) # {}
      BY <1>0, <2>6, LiveCounts DEF Templates, Updated
    <3>2. \E p \in pods : p.tmpl = 1
      BY <3>1 DEF Active
    <3> QED BY <2>2, <3>2
  <2>8. SampleInv'
    BY <2>1, <2>4, <2>5, <2>7 DEF SampleInv, Released
  <2>9. PhaseInv'
    BY <1>1, <1>2, <2>1, <2>6 DEF PhaseInv, Complete, Released, RolledBack
  <2> QED BY <1>2, <1>3, <1>5, <2>8, <2>9 DEF ApiInv
<1> QED BY <1>6, <1>7

\* The verdict over the samples: available throughout, both templates seen.
LEMMA VerdictStep ==
    ASSUME ApiInv, verify_normal_rollout
    PROVE  \/ ApiInv' /\ pc' # "over"
           \/ pc' = "over" /\ script = "rollout_smoke" /\ Interrupted'
<1>1. /\ pc = "checks" /\ ~sample.low /\ 1 \in sample.hashes /\ sample.misses \in Nat
      /\ script \in {"rollout_smoke", "resiliency"} /\ upgrade = "none"
  BY DEF verify_normal_rollout, ApiInv, SampleInv, SampleRecords, HistoryInv, Released, RolledBack
<1>2. UNCHANGED script /\ UNCHANGED cluster /\ UNCHANGED prev /\ UNCHANGED release
  BY DEF verify_normal_rollout, still
<1>3. CASE script = "rollout_smoke" => sample.misses <= Tolerated
  <2>1. pc' = (IF script = "resiliency" THEN "create_probe" ELSE "delay_sink") /\ sample' = NoSample
    BY <1>1, <1>3 DEF verify_normal_rollout, Goto
  <2>2. pc' \in Way /\ pc' \in Complete \ {"checks", "previous"} /\ pc \in Complete /\ pc' # "over"
        /\ pc' # "emergency"
    BY <1>1, <2>1 DEF Way, Complete
  <2> QED BY <1>2, <2>1, <2>2, Advance
<1>4. CASE ~(script = "rollout_smoke" => sample.misses <= Tolerated)
  <2>1. Raise /\ UNCHANGED sample
    BY <1>4 DEF verify_normal_rollout
  <2>2. pc' = "over"
    BY <1>1, <2>1 DEF Raise, Over, Guarded
  <2>3. sample.misses > Tolerated /\ Tolerated' = Tolerated /\ script = "rollout_smoke"
    BY <1>1, <1>2, <1>4 DEF Tolerated, release
  <2> QED BY <2>1, <2>2, <2>3 DEF Interrupted
<1> QED BY <1>3, <1>4

\* The probe comes and goes without a change of what is counted.
LEMMA ProbeMoves ==
    ASSUME ApiInv, UNCHANGED script, UNCHANGED dep, UNCHANGED rs, UNCHANGED slices, UNCHANGED local,
           UNCHANGED release, ApiPodsInv', EndpointInv',
           \A t \in Templates : Live(t)' = Live(t) /\ Up(t)' = Up(t),
           pc \in Complete, pc' \in Complete \ {"checks", "previous"}, pc' \in Way
    PROVE  ApiInv'
<1>0. CountInv /\ StatusInv /\ PhaseInv /\ SurgeInv /\ HistoryInv /\ SampleInv
  BY DEF ApiInv
<1>1. UNCHANGED sample /\ UNCHANGED prev /\ UNCHANGED helm /\ UNCHANGED upgrade /\ UNCHANGED sink
  BY DEF local, release
<1>2. Live(0)' = Live(0) /\ Live(1)' = Live(1) /\ Live(2)' = Live(2) /\ Up(1)' = Up(1)
  BY Numbers
<1>3. CountInv'
  BY <1>0, <1>2 DEF CountInv
<1>8. (Updated => Updated') /\ (rollout_complete' => rollout_complete)
  BY <1>2 DEF Updated, rollout_complete, Desired
<1>4. StatusInv' /\ HistoryInv' /\ SampleInv'
  BY <1>0, <1>1, <1>8 DEF StatusInv, HistoryInv, SampleInv, Complete, Released, RolledBack
<1>5. PhaseInv'
  BY <1>0, <1>1, <1>8 DEF PhaseInv, Complete, Released, RolledBack
<1>6. SurgeInv'
  BY <1>0, <1>1, <1>2 DEF SurgeInv, Complete, Released, RolledBack
<1>7. pc' \in Way' /\ script' \in {"rollout_smoke", "resiliency"}
  BY DEF Way, ApiInv
<1> QED BY <1>3, <1>4, <1>5, <1>6, <1>7 DEF ApiInv

\* The unready pod is made, waited for and taken away; the Service has two
\* ready endpoints throughout and the probe is none of them.
LEMMA ProbeStep ==
    ASSUME ApiInv, create_unready_api_pod \/ verify_not_ready_endpoint_exclusion
    PROVE  ApiInv'
<1>0. ApiPodsInv /\ EndpointInv
  BY DEF ApiInv
<1>1. /\ pc \in {"create_probe", "await_probe", "exclude", "delete_probe"} /\ pc \in Complete
      /\ script = "resiliency"
  BY DEF create_unready_api_pod, verify_not_ready_endpoint_exclusion, ApiInv, Way, Released, RolledBack, Complete
<1>2. {"await_probe", "exclude", "delete_probe", "delay_sink"} \subseteq Way
      /\ {"await_probe", "exclude", "delete_probe", "delay_sink"} \subseteq Complete \ {"checks", "previous"}
  BY <1>1 DEF Way, Complete
<1>3. CASE pc = "create_probe"
  <2>1. /\ pods' = pods \cup {[id |-> nextPod, tmpl |-> Bare, ready |-> FALSE, deleting |-> FALSE]}
        /\ nextPod' = nextPod + 1 /\ pc' = "await_probe"
        /\ UNCHANGED script /\ UNCHANGED dep /\ UNCHANGED rs /\ UNCHANGED slices
        /\ UNCHANGED local /\ UNCHANGED release
    BY <1>3 DEF create_unready_api_pod, verify_not_ready_endpoint_exclusion, Goto, still
  <2>2. PICK q : q = [id |-> nextPod, tmpl |-> Bare, ready |-> FALSE, deleting |-> FALSE]
    OBVIOUS
  <2>3. q \in ApiPods /\ q.id = nextPod /\ q.tmpl = Bare /\ ~q.ready /\ ~q.deleting /\ Bare = 3
    BY <1>0, <2>2 DEF ApiPods, ApiPodsInv, Bare
  <2>4. pods' = pods \cup {q}
    BY <2>1, <2>2
  <2>5. /\ ApiPodsInv'
        /\ \A t \in Templates : /\ Live(t)' = IF t = q.tmpl THEN Live(t) + 1 ELSE Live(t)
                                /\ Up(t)' = Up(t)
    BY <1>0, <1>1, <2>1, <2>3, <2>4, PodMade
  <2>6. \A t \in Templates : Live(t)' = Live(t) /\ Up(t)' = Up(t)
    BY <2>3, <2>5 DEF Templates
  <2>7. EndpointInv'
    <3>1. nextPod' \in Nat /\ nextPod' >= nextPod /\ nextPod >= nextPod
      BY <1>0, <2>1 DEF ApiPodsInv
    <3>2. \A x \in pods' : x.tmpl = Bare =>
             x.id >= nextPod \/ \E p \in pods : p.tmpl = Bare /\ p.id = x.id
      BY <2>3, <2>4, <3>1
    <3> QED BY <1>0, <2>1, <3>1, <3>2, EndpointsFrame
  <2> QED BY <1>1, <1>2, <2>1, <2>5, <2>6, <2>7, ProbeMoves
<1>4. CASE pc = "await_probe"
  <2>1. pc' = "exclude" /\ UNCHANGED script /\ UNCHANGED cluster /\ UNCHANGED local /\ UNCHANGED release
    BY <1>4 DEF create_unready_api_pod, verify_not_ready_endpoint_exclusion, Check, Goto, still
  <2> QED BY <1>1, <1>2, <2>1, Advance DEF local
<1>5. CASE pc = "exclude"
  <2> DEFINE ready == {e.pod : e \in {s \in slices : s.ready}}
  <2>1. \A p \in pods : p.tmpl = Bare => p.id \notin ready
    BY <1>0 DEF EndpointInv
  <2>2. Cardinality(ready) >= 2
    <3>1. \A e \in slices : e.pod \in Nat /\ e.pod < nextPod
      BY <1>0 DEF EndpointInv
    <3>2. nextPod \in Nat
      BY <1>0 DEF ApiPodsInv
    <3>3. ready \subseteq 0 .. nextPod
      BY <3>1, <3>2
    <3>4. IsFiniteSet(0 .. nextPod)
      BY <3>2, FS_Interval
    <3>5. IsFiniteSet(ready)
      BY <3>3, <3>4, FS_Subset
    <3>6. PICK e, f \in slices : e.ready /\ f.ready /\ e.pod # f.pod
      BY <1>0 DEF EndpointInv
    <3>7. {e.pod, f.pod} \subseteq ready
      BY <3>6
    <3>8. Cardinality({e.pod}) = 1 /\ IsFiniteSet({e.pod})
      BY FS_Singleton
    <3>9. Cardinality({e.pod} \cup {f.pod}) = Cardinality({e.pod}) + 1
      BY <3>6, <3>8, FS_AddElement
    <3>10. {e.pod} \cup {f.pod} = {e.pod, f.pod}
      OBVIOUS
    <3>11. Cardinality({e.pod, f.pod}) = 2
      BY <3>8, <3>9, <3>10
    <3>12. Cardinality(ready) \in Nat /\ Cardinality({e.pod, f.pod}) <= Cardinality(ready)
      BY <3>5, <3>7, FS_Subset, FS_CardinalityType
    <3> QED BY <3>11, <3>12
  <2>3. pc' = "delete_probe" /\ UNCHANGED script /\ UNCHANGED cluster /\ UNCHANGED local /\ UNCHANGED release
    <3>1. Check((\A p \in pods : p.tmpl = Bare => p.id \notin ready) /\ Cardinality(ready) >= Desired,
                "delete_probe")
      BY <1>5 DEF create_unready_api_pod, verify_not_ready_endpoint_exclusion
    <3>2. (\A p \in pods : p.tmpl = Bare => p.id \notin ready) /\ Cardinality(ready) >= Desired
      BY <2>1, <2>2, Numbers
    <3> QED BY <3>1, <3>2 DEF Check, Goto, still
  <2> QED BY <1>1, <1>2, <2>3, Advance DEF local
<1>6. CASE pc = "delete_probe"
  <2>1. /\ pods' = {p \in pods : p.tmpl # Bare} /\ pc' = "delay_sink" /\ UNCHANGED nextPod
        /\ UNCHANGED script /\ UNCHANGED dep /\ UNCHANGED rs /\ UNCHANGED slices
        /\ UNCHANGED local /\ UNCHANGED release
    BY <1>6 DEF create_unready_api_pod, verify_not_ready_endpoint_exclusion, Goto, still
  <2>2. PICK S : S = {p \in pods : p.tmpl # Bare}
    OBVIOUS
  <2>3. S \subseteq pods /\ (\A p \in pods \ S : p.tmpl = Bare) /\ pods' = S
    BY <2>1, <2>2
  <2>4. ApiPodsInv' /\ \A t \in Templates : Live(t)' = Live(t) /\ Up(t)' = Up(t)
    BY <1>0, <2>1, <2>3, PodsGo
  <2>5. EndpointInv'
    BY <1>0, <2>1, EndpointsFrame DEF ApiPodsInv
  <2> QED BY <1>1, <1>2, <2>1, <2>4, <2>5, ProbeMoves
<1> QED BY <1>1, <1>3, <1>4, <1>5, <1>6

\* The history grows by a revision.
LEMMA Recorded ==
    ASSUME HistoryInv, NEW r \in [sink : {"accept", "delay"}, status : {"deployed", "pending", "failed"}],
           helm' = Append(helm, r)
    PROVE  /\ helm' \in Seq([sink : {"accept", "delay"}, status : {"deployed", "pending", "failed"}])
           /\ Len(helm) \in Nat /\ Len(helm') = Len(helm) + 1 /\ helm'[Len(helm')] = r
BY DEF HistoryInv

\* The worker drill: two revisions, the second of them deployed at the end.
LEMMA WorkerStep ==
    ASSUME ApiInv, verify_worker_shutdown_and_recovery
    PROVE  ApiInv'
<1>0. StatusInv /\ PhaseInv /\ SurgeInv /\ HistoryInv /\ SampleInv
  BY DEF ApiInv
<1>1. CASE pc = "drain"
  <2>1. pc' = "heal_sink" /\ UNCHANGED script /\ UNCHANGED cluster /\ UNCHANGED local /\ UNCHANGED release
    BY <1>1 DEF verify_worker_shutdown_and_recovery, configure_mock_sink, Check, Goto, still
  <2>2. pc' \in Way /\ pc' \in Complete \ {"checks", "previous"} /\ pc \in Complete
    BY <1>1, <2>1 DEF Way, Complete
  <2> QED BY <2>1, <2>2, Advance DEF local
<1>2. CASE pc # "drain"
  <2>1. PICK mode \in {"accept", "delay"} :
          /\ pc \in {"delay_sink", "heal_sink"} /\ sink' = mode
          /\ helm' = Append(helm, Revision(mode, "deployed"))
          /\ pc' = IF pc = "delay_sink" THEN "drain"
                   ELSE IF script = "resiliency" THEN "persistence" ELSE "previous"
    BY <1>2 DEF verify_worker_shutdown_and_recovery, configure_mock_sink, Check, Goto
  <2>2. /\ UNCHANGED script /\ UNCHANGED rs /\ UNCHANGED pods /\ UNCHANGED slices /\ UNCHANGED nextPod
        /\ UNCHANGED dep /\ UNCHANGED sample /\ UNCHANGED prev /\ UNCHANGED upgrade
    BY <1>2 DEF verify_worker_shutdown_and_recovery, configure_mock_sink, Check, still, cluster, local
  <2>3. /\ ApiPodsInv' /\ CountInv' /\ EndpointInv' /\ SameProgress /\ Way' = Way
        /\ Live(0)' = Live(0) /\ Live(1)' = Live(1) /\ Live(2)' = Live(2) /\ Up(1)' = Up(1)
    BY <2>2, ClusterKept
  <2>4. /\ pc \in Complete /\ pc' \in Complete \ {"checks"} /\ pc' \in Way
        /\ script \in {"rollout_smoke", "resiliency"}
    BY <2>1 DEF Complete, Way, ApiInv
  <2>5. StatusInv' /\ SampleInv' /\ PhaseInv'
    BY <1>0, <2>2, <2>3, <2>4 DEF StatusInv, SameProgress, SampleInv, PhaseInv, Complete, Released, RolledBack
  <2>6. SurgeInv'
    BY <1>0, <2>2, <2>3, <2>4 DEF SurgeInv, Complete, Released, RolledBack
  <2>7. PICK r \in [sink : {"accept", "delay"}, status : {"deployed", "pending", "failed"}] :
           r = Revision(mode, "deployed") /\ r.status = "deployed"
    BY <2>1 DEF Revision
  <2>8. /\ helm' \in Seq([sink : {"accept", "delay"}, status : {"deployed", "pending", "failed"}])
        /\ Len(helm) \in Nat /\ Len(helm') = Len(helm) + 1 /\ helm'[Len(helm')] = r
    BY <1>0, <2>1, <2>7, Recorded
  <2>9. Len(helm') > 0 /\ helm'[Len(helm')].status = "deployed"
    BY <2>7, <2>8
  <2>10. HistoryInv'
    BY <1>0, <2>1, <2>2, <2>4, <2>8, <2>9 DEF HistoryInv, Complete, Released, RolledBack
  <2> QED BY <2>2, <2>3, <2>4, <2>5, <2>6, <2>10 DEF ApiInv
<1> QED BY <1>1, <1>2

\* Before the bad release the old pods are gone, though the endpoints may lag.
LEMMA RevisionStep ==
    ASSUME ApiInv, deployed_revision
    PROVE  ApiInv'
<1>0. ApiPodsInv /\ CountInv /\ StatusInv /\ PhaseInv /\ SurgeInv /\ HistoryInv /\ SampleInv
  BY DEF ApiInv
<1>1. /\ pc = "previous" /\ pc' = "start_bad" /\ prev' = Len(helm)
      /\ UNCHANGED script /\ UNCHANGED rs /\ UNCHANGED pods /\ UNCHANGED slices /\ UNCHANGED nextPod
      /\ UNCHANGED dep /\ UNCHANGED sample /\ UNCHANGED helm /\ UNCHANGED upgrade /\ UNCHANGED sink
  <2>1. pc = "previous"
    BY DEF deployed_revision
  <2>2. helm[Len(helm)].status = "deployed"
    BY <1>0, <2>1 DEF HistoryInv
  <2> QED BY <2>1, <2>2 DEF deployed_revision, Goto, still, cluster, release
<1>2. /\ ApiPodsInv' /\ CountInv' /\ EndpointInv' /\ SameProgress /\ Way' = Way
      /\ Live(0)' = Live(0) /\ Live(1)' = Live(1) /\ Live(2)' = Live(2) /\ Up(1)' = Up(1)
  BY <1>1, ClusterKept
<1>4. dep.template # Bad /\ Updated
  BY <1>0, <1>1 DEF SurgeInv, PhaseInv, Released, RolledBack, Complete
<1>10. PhaseInv'
  BY <1>1, <1>2, <1>4 DEF PhaseInv, SameProgress
<1>11. StatusInv' /\ SampleInv'
  BY <1>0, <1>1, <1>2 DEF StatusInv, SameProgress, SampleInv
<1>12. SurgeInv'
  BY <1>0, <1>1, <1>2, <1>4 DEF SurgeInv, HistoryInv, Released, RolledBack
<1>13. HistoryInv'
  <2>1. prev' \in 1 .. Len(helm)
    BY <1>0, <1>1 DEF HistoryInv
  <2> QED BY <1>0, <1>1, <2>1 DEF HistoryInv, Released, RolledBack
<1>14. pc' \in Way' /\ script' \in {"rollout_smoke", "resiliency"}
  BY <1>1, <1>2 DEF Way, ApiInv, Released
<1> QED BY <1>2, <1>10, <1>11, <1>12, <1>13, <1>14 DEF ApiInv

\* The bad release is applied: none of its pods is there yet.
LEMMA UpgradeStep ==
    ASSUME ApiInv, HelmUpgradeApplies
    PROVE  ApiInv'
<1>0. CountInv /\ StatusInv /\ PhaseInv /\ SurgeInv /\ HistoryInv /\ SampleInv
  BY DEF ApiInv
<1>1. /\ upgrade = "started" /\ upgrade' = "applied" /\ SetTemplate(Bad)
      /\ helm' = Append(helm, Revision(sink, "pending"))
      /\ UNCHANGED script /\ UNCHANGED pc /\ UNCHANGED rs /\ UNCHANGED pods /\ UNCHANGED slices
      /\ UNCHANGED nextPod /\ UNCHANGED sample /\ UNCHANGED prev /\ UNCHANGED sink
  BY DEF HelmUpgradeApplies, local
<1>2. pc = "watch"
  BY <1>0, <1>1 DEF HistoryInv, Released
<1>3. /\ ApiPodsInv' /\ CountInv' /\ EndpointInv' /\ SameProgress /\ Way' = Way
      /\ Live(0)' = Live(0) /\ Live(1)' = Live(1) /\ Live(2)' = Live(2) /\ Up(1)' = Up(1)
  BY <1>1, ClusterKept
<1>4. dep.template # Bad /\ Bad \in Templates /\ dep.template # 0
  BY <1>0, <1>1, <1>2, Numbers DEF SurgeInv, StatusInv
<1>5. /\ dep' \in [template : Templates, gen : Nat, observed : Nat, rev : Templates,
                   updated : Nat, available : Nat, total : Nat]
      /\ dep'.template = Bad /\ dep'.available = dep.available
      /\ dep'.observed <= dep'.gen /\ dep'.observed # dep'.gen
  BY <1>0, <1>1, <1>4, NewTemplate
<1>6. StatusInv'
  BY <1>0, <1>1, <1>2, <1>5 DEF StatusInv, Bad
<1>7. PhaseInv' /\ SampleInv'
  BY <1>0, <1>1, <1>2, <1>3 DEF PhaseInv, SameProgress, SampleInv
<1>8. SurgeInv'
  <2>1. rs[2].want = 0 /\ Live(2) = 0 /\ rs[2].active = 0
    BY <1>0, <1>2, <1>4 DEF SurgeInv, RolledBack
  <2> QED BY <1>1, <1>2, <1>3, <1>5, <2>1 DEF SurgeInv, Released, RolledBack
<1>9. HistoryInv'
  <2>1. PICK r \in [sink : {"accept", "delay"}, status : {"deployed", "pending", "failed"}] :
           r = Revision(sink, "pending")
    BY <1>0 DEF HistoryInv, Revision
  <2>2. /\ helm' \in Seq([sink : {"accept", "delay"}, status : {"deployed", "pending", "failed"}])
        /\ Len(helm) \in Nat /\ Len(helm') = Len(helm) + 1
    BY <1>0, <1>1, <2>1, Recorded
  <2>3. prev \in 1 .. Len(helm)
    BY <1>0, <1>2 DEF HistoryInv, Released
  <2>4. prev \in 1 .. Len(helm') /\ Len(helm') > prev /\ Len(helm') > 0
    BY <2>2, <2>3
  <2> QED BY <1>0, <1>1, <1>2, <2>2, <2>4 DEF HistoryInv, Released, RolledBack
<1>10. pc' \in Way' /\ script' \in {"rollout_smoke", "resiliency"}
  BY <1>1, <1>3 DEF ApiInv
<1> QED BY <1>3, <1>6, <1>7, <1>8, <1>9, <1>10 DEF ApiInv

\* helm gives up on a release whose pod is there and not ready.
LEMMA TimeoutStep ==
    ASSUME ApiInv, HelmUpgradeTimesOut
    PROVE  ApiInv'
<1>0. CountInv /\ StatusInv /\ PhaseInv /\ SurgeInv /\ HistoryInv /\ SampleInv
  BY DEF ApiInv
<1>1. /\ upgrade = "applied" /\ upgrade' = "ended" /\ Settled
      /\ helm' = [helm EXCEPT ![Len(helm)].status = "failed"]
      /\ UNCHANGED script /\ UNCHANGED pc /\ UNCHANGED rs /\ UNCHANGED pods /\ UNCHANGED slices
      /\ UNCHANGED nextPod /\ UNCHANGED dep /\ UNCHANGED sample /\ UNCHANGED prev /\ UNCHANGED sink
  BY DEF HelmUpgradeTimesOut, local, cluster
<1>2. pc = "watch"
  BY <1>0, <1>1 DEF HistoryInv, Released
<1>3. /\ ApiPodsInv' /\ CountInv' /\ EndpointInv' /\ SameProgress /\ Way' = Way
      /\ Live(0)' = Live(0) /\ Live(1)' = Live(1) /\ Live(2)' = Live(2) /\ Up(1)' = Up(1)
  BY <1>1, ClusterKept
<1>4. StatusInv' /\ PhaseInv' /\ SampleInv'
  BY <1>0, <1>1, <1>2, <1>3 DEF StatusInv, SameProgress, PhaseInv, SampleInv
<1>5. dep.template = Bad /\ dep.observed = dep.gen
  BY <1>0, <1>1, <1>2 DEF SurgeInv, Released, Settled
<1>6. rs[2].want = 1 /\ rs[2].want = Live(2) /\ rs[2].active = rs[2].want
  BY <1>0, <1>1, <1>5, Numbers DEF SurgeInv, Settled, Live
<1>7. SurgeInv'
  BY <1>0, <1>1, <1>2, <1>3, <1>5, <1>6 DEF SurgeInv, Released, RolledBack
<1>8. HistoryInv'
  <2> DEFINE Rev == [sink : {"accept", "delay"}, status : {"deployed", "pending", "failed"}]
  <2>1. helm \in Seq(Rev) /\ Len(helm) \in Nat /\ Len(helm) > 0 /\ prev \in 1 .. Len(helm) /\ Len(helm) > prev
    BY <1>0, <1>1, <1>2 DEF HistoryInv, Released
  <2> HIDE DEF Rev
  <2>2. Len(helm) \in DOMAIN helm /\ Len(helm) \in 1 .. Len(helm) /\ DOMAIN helm = 1 .. Len(helm)
    BY <2>1
  <2>3. PICK h \in Rev : h = helm[Len(helm)]
    BY <2>1, <2>2, ElementOfSeq
  <2>4. PICK r : r = [h EXCEPT !.status = "failed"]
    OBVIOUS
  <2>5. r \in Rev /\ r.status = "failed"
    <3>1. h \in [sink : {"accept", "delay"}, status : {"deployed", "pending", "failed"}]
      BY <2>3 DEF Rev
    <3> QED BY <2>4, <3>1 DEF Rev
  <2>6. helm' = [helm EXCEPT ![Len(helm)] = r]
    BY <1>1, <2>3, <2>4
  <2>7. helm' \in Seq(Rev) /\ Len(helm') = Len(helm) /\ helm'[Len(helm)] = r
    BY <2>1, <2>2, <2>5, <2>6, ExceptSeq
  <2>8. helm'[Len(helm')].status = "failed"
    BY <2>5, <2>7
  <2> USE DEF Rev
  <2> QED BY <1>0, <1>1, <1>2, <2>1, <2>7, <2>8 DEF HistoryInv, Released, RolledBack
<1>9. pc' \in Way' /\ script' \in {"rollout_smoke", "resiliency"}
  BY <1>1, <1>3 DEF ApiInv
<1> QED BY <1>3, <1>4, <1>7, <1>8, <1>9 DEF ApiInv

\* The bad release is watched: the pods of the old one suffice.
LEMMA WatchStep ==
    ASSUME ApiInv, verify_bad_release, pc \in {"start_bad", "watch"}
    PROVE  ApiInv'
<1>0. CountInv /\ StatusInv /\ PhaseInv /\ SurgeInv /\ HistoryInv /\ SampleInv
  BY DEF ApiInv
<1>1. /\ UNCHANGED script /\ UNCHANGED rs /\ UNCHANGED pods /\ UNCHANGED slices /\ UNCHANGED nextPod
      /\ UNCHANGED dep /\ UNCHANGED prev /\ UNCHANGED helm /\ UNCHANGED sink
  BY DEF verify_bad_release, Check, still, cluster, release, local
<1>2. /\ ApiPodsInv' /\ CountInv' /\ EndpointInv' /\ SameProgress /\ Way' = Way
      /\ Live(0)' = Live(0) /\ Live(1)' = Live(1) /\ Live(2)' = Live(2) /\ Up(1)' = Up(1)
  BY <1>1, ClusterKept
<1>3. CASE pc = "start_bad"
  <2>1. upgrade' = "started" /\ sample' = NoSample /\ pc' = "watch" /\ upgrade = "none"
    BY <1>0, <1>3 DEF verify_bad_release, Goto, HistoryInv
  <2>2. SampleInv'
    BY <2>1 DEF SampleInv, SampleRecords, NoSample
  <2>3. StatusInv' /\ HistoryInv'
    BY <1>0, <1>1, <1>2, <1>3, <2>1 DEF StatusInv, SameProgress, HistoryInv, Released, RolledBack
  <2>4. PhaseInv'
    BY <1>0, <1>1, <1>2, <1>3, <2>1 DEF PhaseInv, SameProgress, Released, Complete, RolledBack
  <2>5. SurgeInv'
    BY <1>0, <1>1, <1>2, <1>3, <2>1 DEF SurgeInv, Released, RolledBack
  <2>6. pc' \in Way' /\ script' \in {"rollout_smoke", "resiliency"}
    BY <1>1, <1>2, <1>3, <2>1 DEF Way, ApiInv, Released
  <2> QED BY <1>2, <2>2, <2>3, <2>4, <2>5, <2>6 DEF ApiInv
<1>4. CASE pc = "watch" /\ upgrade # "ended"
  <2>1. /\ UNCHANGED upgrade /\ pc' = "watch"
        /\ \E s \in Requested : sample' = [s EXCEPT !.low = @ \/ dep.available < Desired]
    BY <1>4 DEF verify_bad_release, Goto, release
  <2>2. PICK s : /\ s \in SampleRecords /\ s.low = sample.low
                 /\ sample' = [s EXCEPT !.low = @ \/ dep.available < Desired]
    <3>1. sample \in SampleRecords
      BY <1>0 DEF SampleInv
    <3> QED BY <2>1, <3>1, Requests
  <2>3. ~(s.low \/ dep.available < Desired)
    <3>1. ~sample.low /\ ~(dep.available < Desired)
      BY <1>0, Numbers DEF SampleInv, StatusInv
    <3> QED BY <2>2, <3>1, Zenon
  <2>4. PICK l \in BOOLEAN : l = (s.low \/ dep.available < Desired)
    OBVIOUS
  <2>5. ~l
    BY <2>3, <2>4
  <2>6. sample' = [s EXCEPT !.low = l]
    BY <2>2, <2>4
  <2>7. sample' \in SampleRecords /\ (sample').low = l
    BY <2>2, <2>6 DEF SampleRecords
  <2>8. ~(sample').low
    BY <2>5, <2>7, Zenon
  <2>9. SampleInv'
    BY <2>1, <2>7, <2>8 DEF SampleInv
  <2>10. StatusInv' /\ HistoryInv'
    BY <1>0, <1>1, <1>2, <1>4, <2>1 DEF StatusInv, SameProgress, HistoryInv, Released, RolledBack
  <2>11. PhaseInv'
    BY <1>0, <1>1, <1>2, <1>4, <2>1 DEF PhaseInv, SameProgress, Released, Complete, RolledBack
  <2>12. SurgeInv'
    BY <1>0, <1>1, <1>2, <1>4, <2>1 DEF SurgeInv, Released, RolledBack
  <2>13. pc' \in Way' /\ script' \in {"rollout_smoke", "resiliency"}
    BY <1>1, <1>2, <1>4, <2>1 DEF Way, ApiInv, Released
  <2> QED BY <1>2, <2>9, <2>10, <2>11, <2>12, <2>13 DEF ApiInv
<1>5. CASE pc = "watch" /\ upgrade = "ended"
  <2>1. /\ pc' = "verify_bad" /\ UNCHANGED script /\ UNCHANGED cluster /\ UNCHANGED prev /\ UNCHANGED sample
        /\ UNCHANGED release
    BY <1>5 DEF verify_bad_release, Check, Goto, still, local
  <2>2. pc' \in Way
    BY <1>5, <2>1 DEF ApiInv, Way, Released
  <2> QED BY <1>5, <2>1, <2>2, Advance
<1> QED BY <1>3, <1>4, <1>5

\* The verdict over the bad release: failed, watched to the end, one pod that
\* is not ready beside two that are.
LEMMA BadVerdictStep ==
    ASSUME ApiInv, verify_bad_release, pc = "verify_bad"
    PROVE  ApiInv'
<1>0. ApiPodsInv /\ CountInv /\ StatusInv /\ PhaseInv /\ SurgeInv /\ HistoryInv /\ SampleInv
  BY DEF ApiInv
<1>1. /\ 0 \in Templates /\ 1 \in Templates /\ 2 \in Templates /\ Bad = 2 /\ Desired = 2
      /\ rs[2].want \in 0 .. 2 /\ Live(2) \in Nat
  BY Numbers
<1>2. upgrade = "ended" /\ helm[Len(helm)].status = "failed" /\ Len(helm) > prev
  BY <1>0 DEF HistoryInv, Released
<1>3. dep.template = Bad /\ ~sample.low /\ sample.misses \in Nat /\ sample.sent \in Nat
  BY <1>0, <1>2 DEF SurgeInv, SampleInv, SampleRecords, Released
<1>4. Cardinality(ReadyPods) >= 2
  <2>1. Up(1) = 2
    BY <1>0 DEF PhaseInv, Updated, Released
  <2>2. IsFiniteSet(ReadyPods) /\ (Active(1) \cap ReadyPods) \subseteq ReadyPods
    BY <1>0, <1>1, LiveCounts
  <2>3. Cardinality(Active(1) \cap ReadyPods) <= Cardinality(ReadyPods)
    BY <2>2, FS_Subset
  <2> QED BY <2>1, <2>3 DEF Up
<1>5. NotReadyPods # {}
  <2>1. rs[2].want = 1 /\ rs[2].want <= Live(2)
    BY <1>0, <1>2 DEF SurgeInv, Released
  <2>2. Live(2) # 0
    BY <1>1, <2>1
  <2>3. PICK p : p \in Active(2)
    BY <1>0, <1>1, <2>2, LiveCounts
  <2>4. p \in NotReadyPods
    BY <1>0, <1>1, <2>3 DEF Active, NotReadyPods, ApiPodsInv
  <2> QED BY <2>4
<1>6. ~RolloutDone
  <2>1. dep.observed = dep.gen => dep.updated <= 1
    BY <1>0, <1>3 DEF SurgeInv
  <2> QED BY <1>1, <2>1 DEF RolloutDone
<1>9. Cardinality({p.tmpl : p \in pods}) >= 2
  <2>1. Live(1) # 0 /\ Live(2) # 0
    BY <1>0, <1>1, <1>2 DEF PhaseInv, SurgeInv, Updated, Released
  <2>2. Active(1) # {} /\ Active(2) # {}
    BY <1>0, <1>1, <2>1, LiveCounts
  <2>3. PICK S : S = {p.tmpl : p \in pods}
    OBVIOUS
  <2>4. {1, 2} \subseteq S /\ S \subseteq 0 .. 3
    BY <1>0, <2>2, <2>3 DEF Active, ApiPodsInv, ApiPods
  <2>5. IsFiniteSet(0 .. 3) /\ IsFiniteSet(S)
    <3>1. 0 \in Int /\ 3 \in Int
      OBVIOUS
    <3>2. IsFiniteSet(0 .. 3)
      BY <3>1, FS_Interval
    <3> QED BY <2>4, <3>2, FS_Subset
  <2>6. Cardinality({1}) = 1 /\ IsFiniteSet({1}) /\ {1} \cup {2} = {1, 2}
    BY FS_Singleton
  <2>7. Cardinality({1} \cup {2}) = Cardinality({1}) + 1
    BY <2>6, FS_AddElement
  <2>8. Cardinality({1, 2}) = 2
    BY <2>6, <2>7
  <2>9. Cardinality({1, 2}) <= Cardinality(S) /\ Cardinality(S) \in Nat
    BY <2>4, <2>5, FS_Subset, FS_CardinalityType
  <2> QED BY <2>3, <2>8, <2>9
<1>7. /\ UNCHANGED script /\ UNCHANGED cluster /\ UNCHANGED prev /\ UNCHANGED sample /\ UNCHANGED release
      /\ IF sample.sent >= BadSamples /\ sample.misses = 0 THEN pc' = "rollback" ELSE Raise
  BY <1>1, <1>2, <1>3, <1>4, <1>5, <1>6, <1>9 DEF verify_bad_release, Check, Goto, still, local
<1>8. CASE sample.sent >= BadSamples /\ sample.misses = 0
  <2>1. pc' \in Way /\ pc' = "rollback"
    BY <1>7, <1>8 DEF ApiInv, Way, Released
  <2> QED BY <1>7, <2>1, Advance
<1>10. CASE ~(sample.sent >= BadSamples /\ sample.misses = 0)
  <2>1. script = "rollout_smoke"
    BY DEF ApiInv, Way
  <2>2. pc' = "emergency" /\ pc' \in Way
    BY <1>7, <1>10, <2>1 DEF Raise, Goto, Guarded, Way, Released
  <2>3. BadSamples \in Nat /\ Tolerated = 0
    BY <1>2, RolloutAssumption DEF Tolerated
  <2>4. Interrupted
    BY <1>2, <1>3, <1>10, <2>3 DEF Interrupted
  <2> QED BY <1>7, <2>2, <2>4, Advance
<1> QED BY <1>8, <1>10

\* The rollback: the new template again, and the pod of the bad one unwanted.
LEMMA RollbackStep ==
    ASSUME ApiInv, rollback_release, pc = "rollback"
    PROVE  ApiInv'
<1>0. CountInv /\ StatusInv /\ PhaseInv /\ SurgeInv /\ HistoryInv /\ SampleInv
  BY DEF ApiInv
<1>1. /\ helm' = Append(helm, [helm[prev] EXCEPT !.status = "deployed"])
      /\ sink' = helm[prev].sink /\ SetTemplate(1) /\ pc' = "rollback_wait"
      /\ UNCHANGED script /\ UNCHANGED rs /\ UNCHANGED pods /\ UNCHANGED slices /\ UNCHANGED nextPod
      /\ UNCHANGED sample /\ UNCHANGED prev /\ UNCHANGED upgrade
  BY DEF rollback_release, Rollback, Goto, still, local
<1>2. /\ ApiPodsInv' /\ CountInv' /\ EndpointInv' /\ SameProgress /\ Way' = Way
      /\ Live(0)' = Live(0) /\ Live(1)' = Live(1) /\ Live(2)' = Live(2) /\ Up(1)' = Up(1)
  BY <1>1, ClusterKept
<1>3. upgrade = "ended" /\ dep.template = Bad /\ Bad # 1 /\ 1 \in Templates
  BY <1>0, Numbers DEF HistoryInv, SurgeInv, Released
<1>4. /\ dep' \in [template : Templates, gen : Nat, observed : Nat, rev : Templates,
                   updated : Nat, available : Nat, total : Nat]
      /\ dep'.template = 1 /\ dep'.available = dep.available
      /\ dep'.observed <= dep'.gen /\ dep'.observed # dep'.gen
  BY <1>0, <1>1, <1>3, NewTemplate
<1>5. StatusInv'
  BY <1>0, <1>1, <1>2, <1>4 DEF StatusInv, SameProgress
<1>6. PhaseInv'
  BY <1>0, <1>1, <1>2 DEF PhaseInv, SameProgress, Complete, Released, RolledBack
<1>7. SurgeInv'
  BY <1>0, <1>1, <1>2, <1>3, <1>4 DEF SurgeInv, Released, RolledBack
<1>8. SampleInv'
  BY <1>0, <1>1 DEF SampleInv, Released
<1>9. HistoryInv'
  <2> DEFINE Rev == [sink : {"accept", "delay"}, status : {"deployed", "pending", "failed"}]
  <2>1. helm \in Seq(Rev) /\ prev \in 1 .. Len(helm)
    BY <1>0 DEF HistoryInv, Released
  <2> HIDE DEF Rev
  <2>2. PICK h \in Rev : h = helm[prev]
    BY <2>1, ElementOfSeq
  <2>3. PICK r : r = [h EXCEPT !.status = "deployed"]
    OBVIOUS
  <2>4. /\ r \in [sink : {"accept", "delay"}, status : {"deployed", "pending", "failed"}]
        /\ r.status = "deployed" /\ h.sink \in {"accept", "delay"}
    <3>1. h \in [sink : {"accept", "delay"}, status : {"deployed", "pending", "failed"}]
      BY <2>2 DEF Rev
    <3> QED BY <2>3, <3>1
  <2>5. helm' = Append(helm, r) /\ sink' \in {"accept", "delay"}
    BY <1>1, <2>2, <2>3, <2>4
  <2>6. /\ helm' \in Seq([sink : {"accept", "delay"}, status : {"deployed", "pending", "failed"}])
        /\ Len(helm) \in Nat /\ Len(helm') = Len(helm) + 1 /\ helm'[Len(helm')] = r
    BY <1>0, <2>4, <2>5, Recorded
  <2>7. prev \in 1 .. Len(helm') /\ Len(helm') > 0 /\ helm'[Len(helm')].status = "deployed"
    BY <2>1, <2>4, <2>6
  <2> QED BY <1>1, <1>3, <2>5, <2>6, <2>7 DEF HistoryInv, Released, RolledBack
<1>10. pc' \in Way' /\ script' \in {"rollout_smoke", "resiliency"}
  BY <1>1, <1>2 DEF Way, ApiInv, Released, RolledBack
<1> QED BY <1>2, <1>5, <1>6, <1>7, <1>8, <1>9, <1>10 DEF ApiInv

\* What was waited for leaves exactly the desired pods, all of them ready.
LEMMA RecoveryStep ==
    ASSUME ApiInv, rollback_release, pc \in RolledBack
    PROVE  (ApiInv' /\ pc' # "over") \/ (pc' = "over" /\ exit' = 0)
<1>0. ApiPodsInv /\ CountInv /\ StatusInv /\ PhaseInv /\ SurgeInv /\ HistoryInv /\ SampleInv
  BY DEF ApiInv
<1>1. CASE pc \in {"rollback_wait", "settle"}
  <2>1. /\ UNCHANGED script /\ UNCHANGED cluster /\ UNCHANGED local /\ UNCHANGED release
        /\ \/ pc = "rollback_wait" /\ pc' = "settle"
           \/ pc = "settle" /\ pc' = "verify_rollback" /\ RolloutDone
    BY <1>1 DEF rollback_release, Check, Goto, still
  <2>2. pc' \in Way /\ pc' # "over"
    BY <1>1, <2>1 DEF ApiInv, Way, RolledBack
  <2> QED BY <2>1, <2>2, Advance DEF local
<1>2. CASE pc = "verify_rollback"
  <2>1. /\ 0 \in Templates /\ 1 \in Templates /\ 2 \in Templates /\ Bad = 2 /\ Desired = 2
    BY Numbers
  <2>2. helm[Len(helm)].status = "deployed" /\ dep.template # Bad
    BY <1>0, <1>2 DEF HistoryInv, SurgeInv, Released, RolledBack
  <2>3. Active(0) = {} /\ Active(2) = {}
    BY <1>0, <1>2, <2>1, LiveCounts DEF PhaseInv, Updated, SurgeInv, RolledBack
  <2>4. Live(1) = 2 /\ Up(1) = 2
    BY <1>0, <1>2 DEF PhaseInv, Updated, RolledBack
  <2>5. script # "resiliency"
    BY <1>2 DEF ApiInv, Way
  <2>6. \A p \in pods : ~p.deleting => p \in Active(1)
    <3> SUFFICES ASSUME NEW p \in pods, ~p.deleting PROVE p \in Active(1)
      OBVIOUS
    <3>1. p.tmpl \in 0 .. 3 /\ p.tmpl # Bare
      BY <1>0, <2>5 DEF ApiPodsInv, ApiPods
    <3>2. p.tmpl # 0 /\ p.tmpl # 2
      BY <2>3 DEF Active
    <3>3. p.tmpl = 1
      BY <3>1, <3>2 DEF Bare
    <3> QED BY <3>3 DEF Active
  <2>7. Active(1) \cap ReadyPods = Active(1)
    <3>1. IsFiniteSet(Active(1)) /\ (Active(1) \cap ReadyPods) \subseteq Active(1)
      BY <1>0, <2>1, LiveCounts
    <3>2. Cardinality(Active(1) \cap ReadyPods) = Cardinality(Active(1))
      BY <2>4 DEF Live, Up
    <3> QED BY <3>1, <3>2, FS_Subset
  <2>8. ReadyPods = Active(1)
    BY <2>6, <2>7 DEF ReadyPods
  <2>9. Cardinality(ReadyPods) = 2
    BY <2>4, <2>8 DEF Live
  <2>10. NotReadyPods = {}
    BY <2>6, <2>8 DEF NotReadyPods, ReadyPods
  <2>11. Over(0)
    BY <1>2, <2>1, <2>2, <2>9, <2>10 DEF rollback_release
  <2> QED BY <2>11 DEF Over
<1> QED BY <1>1, <1>2 DEF RolledBack

\* The steps of a script but those of the gate.
LEMMA ScriptStep ==
    ASSUME ApiInv, StartInv, Script \/ Helm
    PROVE  \/ ApiInv' /\ pc' # "over"
           \/ pc' = "over" /\ (exit' = 0 \/ (script = "rollout_smoke" /\ Interrupted'))
<1>1. pc \in Way /\ script \in {"rollout_smoke", "resiliency"}
  BY DEF ApiInv
<1>2. ASSUME ApiInv' PROVE pc' # "over"
  BY <1>2 DEF ApiInv, Way, Released, RolledBack
<1>3. CASE configure_sink_helm \/ read_mock_sink_rollout_objects \/ wait_for_mock_sink_rollout
  BY <1>1, <1>3 DEF configure_sink_helm, read_mock_sink_rollout_objects, Read, wait_for_mock_sink_rollout,
                    Way, Released, RolledBack
<1>10. CASE Emergency
  <2>1. pc = "emergency" /\ pc' = "over" /\ UNCHANGED sample /\ UNCHANGED upgrade
    BY <1>10 DEF Emergency, Over, local
  <2>2. script = "rollout_smoke" /\ Interrupted
    BY <1>1, <2>1 DEF Way, ApiInv, SampleInv
  <2> QED BY <2>1, <2>2 DEF Interrupted, Tolerated
<1>4. CASE \/ verify_rollout_contract \/ Patch \/ Sample \/ SamplePods
           \/ create_unready_api_pod \/ verify_not_ready_endpoint_exclusion
           \/ verify_worker_shutdown_and_recovery \/ deployed_revision
  BY <1>2, <1>4, ContractStep, PatchStep, SampleStep, ProbeStep, WorkerStep, RevisionStep
<1>5. CASE verify_normal_rollout
  BY <1>5, VerdictStep
<1>6. CASE verify_redis_persistence
  BY <1>6 DEF verify_redis_persistence, Over
<1>7. CASE verify_bad_release
  <2>1. pc \in {"start_bad", "watch", "verify_bad"}
    BY <1>7 DEF verify_bad_release
  <2> QED BY <1>2, <1>7, <2>1, WatchStep, BadVerdictStep
<1>8. CASE rollback_release
  <2>1. pc = "rollback" \/ pc \in RolledBack
    BY <1>8 DEF rollback_release, RolledBack
  <2> QED BY <1>2, <1>8, <2>1, RollbackStep, RecoveryStep
<1>9. CASE Helm
  BY <1>2, <1>9, UpgradeStep, TimeoutStep DEF Helm
<1> QED BY <1>3, <1>4, <1>5, <1>6, <1>7, <1>8, <1>9, <1>10 DEF Script

(***************************************************************************)
(* The results.                                                            *)
(***************************************************************************)
\* A release that was deployed and has settled.
LEMMA InitGateInv == Init => GateInv
<1> SUFFICES ASSUME Init, script = "gate"
             PROVE  PodsInv /\ ReplicaSetInv /\ DeploymentInv /\ SlicesInv /\ SeenInv
  BY DEF GateInv
<1> DEFINE q == [id |-> 1, tmpl |-> 0, ready |-> TRUE, deleting |-> FALSE]
<1>1. Desired = 1
  BY DEF Desired
<1>2. pods = {q} /\ nextPod = 2
  <2>1. 1 .. 1 = {1}
    OBVIOUS
  <2>2. pods = {[id |-> i, tmpl |-> 0, ready |-> TRUE, deleting |-> FALSE] : i \in {1}}
    BY <1>1, <2>1 DEF Init
  <2> QED BY <1>1, <2>2 DEF Init
<1>3. q \in PodRecords /\ q.id = 1 /\ q.tmpl = 0 /\ q.deleting = FALSE
  BY DEF PodRecords
<1> HIDE DEF q
<1>4. PodsInv
  <2>1. IsFiniteSet(pods)
    BY <1>2, FS_Singleton
  <2> QED BY <1>2, <1>3, <2>1 DEF PodsInv
<1>5. Active(0) = {q}
  BY <1>2, <1>3 DEF Active
<1>6. /\ rs \in [Templates -> [want : 0 .. 1, active : Nat, available : Nat]]
      /\ rs[0].want = 1 /\ rs[1].want = 0 /\ rs[2].want = 0 /\ rs[0].active = 1
  BY <1>1 DEF Init, Templates
<1>7. ReplicaSetInv
  <2>1. Active(0) # {} /\ rs[0].active # 0
    BY <1>5, <1>6
  <2> QED BY <1>6, <2>1 DEF ReplicaSetInv
<1>8. DeploymentInv
  BY <1>1, <1>6 DEF Init, DeploymentInv
<1>9. SlicesInv
  BY <1>2, <1>3 DEF Init, SlicesInv, Endpoints
<1>10. SeenInv
  BY DEF Init, SeenInv
<1> QED BY <1>4, <1>7, <1>8, <1>9, <1>10

\* The release a healthy script starts from was deployed and has settled.
LEMMA InitHealthy == Init => HealthyInv
<1> SUFFICES ASSUME Init PROVE HealthyInv
  OBVIOUS
<1>1. faults = 0 /\ crashes = 0 /\ pc = "start" /\ script \in {"gate", "rollout_smoke", "resiliency"}
  BY RolloutAssumption DEF Init
<1> SUFFICES ASSUME script # "gate" PROVE ApiInv
  BY <1>1 DEF HealthyInv
<1>2. Desired = 2 /\ script \in {"rollout_smoke", "resiliency"}
  BY <1>1 DEF Desired
<1> DEFINE p == [id |-> 1, tmpl |-> 0, ready |-> TRUE, deleting |-> FALSE]
           q == [id |-> 2, tmpl |-> 0, ready |-> TRUE, deleting |-> FALSE]
<1>3. pods = {p, q} /\ nextPod = 3
  <2>1. 1 .. 2 = {1, 2}
    OBVIOUS
  <2>2. pods = {[id |-> i, tmpl |-> 0, ready |-> TRUE, deleting |-> FALSE] : i \in {1, 2}}
    BY <1>2, <2>1 DEF Init
  <2> QED BY <1>2, <2>2 DEF Init
<1>4. /\ p \in ApiPods /\ p.id = 1 /\ p.tmpl = 0 /\ p.ready /\ ~p.deleting
      /\ q \in ApiPods /\ q.id = 2 /\ q.tmpl = 0 /\ q.ready /\ ~q.deleting
  BY DEF ApiPods
<1>5. slices = {[pod |-> 1, ready |-> TRUE], [pod |-> 2, ready |-> TRUE]}
  <2>1. slices = {[pod |-> x.id, ready |-> x.ready /\ ~x.deleting] : x \in {p, q}}
    BY <1>3 DEF Init, Endpoints
  <2>2. [pod |-> p.id, ready |-> p.ready /\ ~p.deleting] = [pod |-> 1, ready |-> TRUE]
    BY <1>4
  <2>3. [pod |-> q.id, ready |-> q.ready /\ ~q.deleting] = [pod |-> 2, ready |-> TRUE]
    BY <1>4
  <2> HIDE DEF p, q
  <2> QED BY <2>1, <2>2, <2>3
<1> HIDE DEF p, q
<1>6. ApiPodsInv
  <2>1. IsFiniteSet({p}) /\ IsFiniteSet({p} \cup {q}) /\ {p} \cup {q} = pods
    BY <1>3, FS_Singleton, FS_AddElement
  <2>2. 0 \notin {Bad, Bare} /\ 0 # Bare
    BY DEF Bad, Bare
  <2> QED BY <1>3, <1>4, <2>1, <2>2 DEF ApiPodsInv
<1>7. Live(0) = 2 /\ Up(0) = 2
  <2>1. Active(0) = {p} \cup {q} /\ Active(0) \cap ReadyPods = {p} \cup {q}
    BY <1>3, <1>4 DEF Active, ReadyPods
  <2>2. Cardinality({p}) = 1 /\ IsFiniteSet({p}) /\ q \notin {p}
    <3>1. p # q
      BY <1>4
    <3>2. Cardinality({p}) = 1 /\ IsFiniteSet({p})
      BY FS_Singleton
    <3> QED BY <3>1, <3>2
  <2>3. Cardinality({p} \cup {q}) = Cardinality({p}) + 1
    BY <2>2, FS_AddElement
  <2> QED BY <2>1, <2>2, <2>3 DEF Live, Up
<1>8. Live(1) = 0 /\ Up(1) = 0 /\ Live(2) = 0
  <2>1. Active(1) = {} /\ Active(2) = {} /\ Active(1) \cap ReadyPods = {}
    BY <1>3, <1>4 DEF Active
  <2> QED BY <2>1, FS_EmptySet DEF Live, Up
<1>9. /\ rs \in [Templates -> [want : 0 .. 2, active : 0 .. 2, available : 0 .. 2]]
      /\ rs[0].want = 2 /\ rs[0].active = 2 /\ rs[0].available = 2
      /\ rs[1].want = 0 /\ rs[1].active = 0 /\ rs[1].available = 0
      /\ rs[2].want = 0 /\ rs[2].active = 0 /\ rs[2].available = 0
  BY <1>2 DEF Init, Templates
<1>10. CountInv
  BY <1>7, <1>8, <1>9 DEF CountInv
<1>11. /\ dep \in [template : Templates, gen : Nat, observed : Nat, rev : Templates,
                   updated : Nat, available : Nat, total : Nat]
       /\ dep.template = 0 /\ dep.gen = 1 /\ dep.observed = 1 /\ dep.available = 2
  BY <1>2 DEF Init, Templates
<1>12. StatusInv
  BY <1>1, <1>9, <1>11 DEF StatusInv
<1>13. PhaseInv
  BY <1>1 DEF PhaseInv, Complete, Released, RolledBack
<1>14. SurgeInv
  BY <1>1, <1>8, <1>9, <1>11 DEF Init, SurgeInv, Released, RolledBack, Bad
<1>15. HistoryInv
  BY <1>1 DEF Init, HistoryInv, Revision, Released, RolledBack
<1>16. SampleInv
  BY <1>1 DEF Init, SampleInv, SampleRecords, NoSample
<1>17. EndpointInv
  <2>1. slices \in SUBSET [pod : Nat, ready : BOOLEAN]
    BY <1>5
  <2>2. \E e, f \in slices : e.ready /\ f.ready /\ e.pod # f.pod
    BY <1>5
  <2>3. \A e \in slices : e.pod < 3
    BY <1>5
  <2>4. \A x \in pods : x.tmpl # Bare
    BY <1>3, <1>4 DEF Bare
  <2> QED BY <1>3, <2>1, <2>2, <2>3, <2>4 DEF EndpointInv
<1>18. pc \in Way
  BY <1>1 DEF Way
<1> QED BY <1>2, <1>6, <1>10, <1>12, <1>13, <1>14, <1>15, <1>16, <1>17, <1>18 DEF ApiInv

\* One step of a healthy script, or of what goes on around it.
LEMMA HealthyStep ==
    ASSUME ReleaseInv, HealthyInv, StartInv, [Next]_vars
    PROVE  HealthyInv'
<1>0. faults \in Nat /\ crashes \in Nat /\ script' = script
  BY ScriptStable DEF HealthyInv
<1>1. CASE PodFails
  <2>1. crashes' = crashes + 1 /\ UNCHANGED faults
    BY <1>1 DEF PodFails, scriptVars
  <2>2. crashes' \in Nat /\ crashes' # 0
    BY <1>0, <2>1
  <2> QED BY <1>0, <2>1, <2>2 DEF HealthyInv
<1>2. CASE CommandFails
  <2>1. faults' = faults + 1 /\ UNCHANGED crashes
    BY <1>2 DEF CommandFails
  <2>2. faults' \in Nat /\ faults' # 0
    BY <1>0, <2>1
  <2> QED BY <1>0, <2>1, <2>2 DEF HealthyInv
<1>3. CASE Kubernetes
  <2>1. /\ UNCHANGED pc /\ UNCHANGED exit /\ UNCHANGED sample /\ UNCHANGED faults /\ UNCHANGED crashes
        /\ UNCHANGED upgrade
    BY <1>3 DEF Kubernetes, DeploymentSync, PodReady, PodGone, EndpointSync, ReplicaSetScale, ReplicaSetStatus,
                scriptVars, local, release
  <2>2. ApiInv => ApiInv'
    BY <1>3, KubernetesStep
  <2>3. Interrupted => Interrupted'
    BY <2>1 DEF Interrupted, Tolerated
  <2> QED BY <1>0, <2>1, <2>2, <2>3 DEF HealthyInv
<1>4. CASE Emergency /\ faults' = faults + 1
  <2>1. UNCHANGED crashes
    BY <1>4 DEF Emergency
  <2>2. faults' \in Nat /\ faults' # 0
    BY <1>0, <1>4
  <2> QED BY <1>0, <2>1, <2>2 DEF HealthyInv
<1>5. CASE (Script \/ Helm) /\ ~(Emergency /\ faults' = faults + 1)
  <2>1. UNCHANGED faults /\ UNCHANGED crashes
    <3>1. CASE \/ configure_sink_helm \/ read_mock_sink_rollout_objects \/ wait_for_mock_sink_rollout
               \/ verify_rollout_contract \/ Patch \/ Sample \/ SamplePods \/ verify_normal_rollout
      BY <3>1 DEF configure_sink_helm, read_mock_sink_rollout_objects, Read, wait_for_mock_sink_rollout,
                  verify_rollout_contract, Patch, Sample, SamplePods, verify_normal_rollout, Check, still
    <3>2. CASE \/ create_unready_api_pod \/ verify_not_ready_endpoint_exclusion
               \/ verify_worker_shutdown_and_recovery \/ verify_redis_persistence
      BY <3>2 DEF create_unready_api_pod, verify_not_ready_endpoint_exclusion,
                  verify_worker_shutdown_and_recovery, configure_mock_sink, verify_redis_persistence, Check, still
    <3>3. CASE deployed_revision \/ verify_bad_release \/ rollback_release
      BY <3>3 DEF deployed_revision, verify_bad_release, rollback_release, Check, still
    <3>4. CASE Emergency
      BY <1>5, <3>4 DEF Emergency
    <3>5. CASE Helm
      BY <3>5 DEF Helm, HelmUpgradeApplies, HelmUpgradeTimesOut
    <3> QED BY <1>5, <3>1, <3>2, <3>3, <3>4, <3>5 DEF Script
  <2>2. CASE script = "gate"
    <3>1. configure_sink_helm \/ read_mock_sink_rollout_objects \/ wait_for_mock_sink_rollout
      BY <1>5, <2>2, OtherSteps
    <3>2. pc # "over" /\ (pc' = "over" => exit' = 0)
      BY <3>1 DEF configure_sink_helm, read_mock_sink_rollout_objects, Read, wait_for_mock_sink_rollout,
                  Check, Goto, Over
    <3> QED BY <1>0, <2>1, <2>2, <3>2 DEF HealthyInv
  <2>3. CASE script # "gate" /\ pc # "over"
    BY <1>0, <1>5, <2>1, <2>3, ScriptStep DEF HealthyInv
  <2>4. CASE script # "gate" /\ pc = "over"
    <3>1. ~Script
      BY <2>4 DEF Script, configure_sink_helm, read_mock_sink_rollout_objects, Read, wait_for_mock_sink_rollout,
                  verify_rollout_contract, Patch, Sample, SamplePods, verify_normal_rollout,
                  create_unready_api_pod, verify_not_ready_endpoint_exclusion,
                  verify_worker_shutdown_and_recovery, configure_mock_sink, verify_redis_persistence,
                  deployed_revision, verify_bad_release, rollback_release, Emergency
    <3>2. ~Helm
      BY <2>4 DEF Helm, HelmUpgradeApplies, HelmUpgradeTimesOut, ReleaseInv, ControlInv
    <3> QED BY <1>5, <3>1, <3>2
  <2> QED BY <2>2, <2>3, <2>4
<1>6. CASE UNCHANGED vars
  <2>1. /\ UNCHANGED script /\ UNCHANGED pc /\ UNCHANGED exit /\ UNCHANGED sample /\ UNCHANGED faults
        /\ UNCHANGED crashes /\ UNCHANGED rs /\ UNCHANGED pods /\ UNCHANGED slices /\ UNCHANGED nextPod
        /\ UNCHANGED dep /\ UNCHANGED prev /\ UNCHANGED helm /\ UNCHANGED upgrade /\ UNCHANGED sink
    BY <1>6 DEF vars, cluster, local, release
  <2>2. ApiInv => ApiInv'
    <3> SUFFICES ASSUME ApiInv PROVE ApiInv'
      OBVIOUS
    <3>1. /\ ApiPodsInv' /\ CountInv' /\ EndpointInv' /\ SameProgress /\ Way' = Way
          /\ Live(0)' = Live(0) /\ Live(1)' = Live(1) /\ Live(2)' = Live(2) /\ Up(1)' = Up(1)
      BY <2>1, ClusterKept
    <3>2. StatusInv' /\ PhaseInv' /\ SurgeInv'
      BY <2>1, <3>1 DEF ApiInv, StatusInv, PhaseInv, SurgeInv, SameProgress
    <3> QED BY <2>1, <3>1, <3>2, ClusterKeeps
  <2>3. Interrupted => Interrupted'
    BY <2>1 DEF Interrupted, Tolerated
  <2> QED BY <2>1, <2>2, <2>3 DEF HealthyInv
<1> QED BY <1>1, <1>2, <1>3, <1>4, <1>5, <1>6 DEF Next

(***************************************************************************)
(* Types and bounds: the cluster.                                          *)
(***************************************************************************)
\* One replica of the sink, two of the API.
LEMMA Sizes ==
    /\ Desired \in {1, 2} /\ Desired \in Nat /\ MaxSurge = 1 /\ MaxUnavailable = 0
    /\ 0 \in Templates /\ 1 \in Templates /\ 2 \in Templates /\ Bad = 2 /\ Bare = 3
    /\ \A t \in Templates : t = 0 \/ t = 1 \/ t = 2
BY DEF Desired, MaxSurge, MaxUnavailable, Templates, Bad, Bare

\* The counts of a ReplicaSet are natural numbers.
LEMMA Tallies ==
    ASSUME RecordsInv, NEW t \in Templates
    PROVE  /\ IsFiniteSet(Active(t)) /\ IsFiniteSet(Active(t) \cap ReadyPods)
           /\ Live(t) \in Nat /\ Up(t) \in Nat /\ Up(t) <= Live(t)
           /\ t = Bad => Up(t) = 0
<1>1. IsFiniteSet(Active(t)) /\ IsFiniteSet(Active(t) \cap ReadyPods)
  <2>1. Active(t) \subseteq pods /\ (Active(t) \cap ReadyPods) \subseteq pods /\ IsFiniteSet(pods)
    BY DEF Active, RecordsInv
  <2> QED BY <2>1, FS_Subset
<1>2. Live(t) \in Nat /\ Up(t) \in Nat
  BY <1>1, FS_CardinalityType DEF Live, Up
<1>3. Up(t) <= Live(t)
  <2>1. (Active(t) \cap ReadyPods) \subseteq Active(t)
    OBVIOUS
  <2> QED BY <1>1, <2>1, FS_Subset DEF Live, Up
<1>4. t = Bad => Up(t) = 0
  <2>1. t = Bad => Active(t) \cap ReadyPods = {}
    BY DEF RecordsInv, PodKept, Active, ReadyPods
  <2> QED BY <2>1, FS_EmptySet DEF Up
<1> QED BY <1>1, <1>2, <1>3, <1>4

\* A new pod is counted once.
LEMMA OnePodMore ==
    ASSUME RecordsInv, UNCHANGED script, NEW q \in ApiPods, q.id = nextPod, q.tmpl # 0,
           ~q.ready, ~q.deleting, pods' = pods \cup {q}, nextPod' = nextPod + 1, UNCHANGED slices
    PROVE  /\ RecordsInv'
           /\ \A t \in Templates : Live(t)' = IF t = q.tmpl THEN Live(t) + 1 ELSE Live(t)
<1>1. q \notin pods
  BY DEF RecordsInv
<1>2. ASSUME NEW t \in Templates
      PROVE  Live(t)' = IF t = q.tmpl THEN Live(t) + 1 ELSE Live(t)
  <2>1. CASE t = q.tmpl
    <3>1. Active(t)' = Active(t) \cup {q} /\ q \notin Active(t)
      BY <1>1, <2>1 DEF Active
    <3>2. Cardinality(Active(t) \cup {q}) = Cardinality(Active(t)) + 1
      BY <3>1, Tallies, FS_AddElement
    <3> QED BY <2>1, <3>1, <3>2 DEF Live
  <2>2. CASE t # q.tmpl
    <3>1. Active(t)' = Active(t)
      BY <2>2 DEF Active
    <3> QED BY <2>2, <3>1 DEF Live
  <2> QED BY <2>1, <2>2
<1>3. RecordsInv'
  <2>1. IsFiniteSet(pods')
    BY FS_AddElement DEF RecordsInv
  <2>2. pods' \in SUBSET ApiPods /\ nextPod' \in Nat /\ nextPod < nextPod'
    BY DEF RecordsInv
  <2>3. \A p \in pods' : p.id < nextPod' /\ PodKept(p)'
    <3>1. PodKept(q)'
      BY DEF PodKept
    <3>2. \A p : PodKept(p) => PodKept(p)'
      BY DEF PodKept, Desired
    <3> QED BY <2>2, <3>1, <3>2 DEF RecordsInv, ApiPods
  <2>4. \A x, y \in pods' : x.id = y.id => x = y
    BY DEF RecordsInv, ApiPods
  <2>5. \A e \in slices' : e.pod < nextPod'
    BY <2>2 DEF RecordsInv
  <2> QED BY <2>1, <2>2, <2>3, <2>4, <2>5 DEF RecordsInv
<1> QED BY <1>2, <1>3

\* Another record for the same pod: it is marked, or its readiness changes.
LEMMA OnePodElse ==
    ASSUME RecordsInv, UNCHANGED script, NEW p \in pods, NEW q \in ApiPods, q.id = p.id, q.tmpl = p.tmpl,
           ~p.deleting, q.tmpl = 1 => ~q.deleting, q.tmpl \in {Bad, Bare} => ~q.ready,
           UNCHANGED slices, UNCHANGED nextPod, pods' = (pods \ {p}) \cup {q}
    PROVE  /\ RecordsInv'
           /\ \A t \in Templates : Live(t)' = IF t = p.tmpl /\ q.deleting THEN Live(t) - 1 ELSE Live(t)
<1>1. RecordsInv'
  <2>1. IsFiniteSet(pods')
    <3>1. IsFiniteSet(pods \ {p})
      BY FS_RemoveElement DEF RecordsInv
    <3> QED BY <3>1, FS_AddElement
  <2>2. pods' \in SUBSET ApiPods /\ nextPod' \in Nat
    BY DEF RecordsInv
  <2>3. \A x \in pods' : x.id < nextPod' /\ PodKept(x)'
    <3>1. PodKept(q)'
      <4>1. PodKept(p)
        BY DEF RecordsInv
      <4> QED BY <4>1 DEF PodKept, Desired
    <3>2. \A x : PodKept(x) => PodKept(x)'
      BY DEF PodKept, Desired
    <3> QED BY <3>1, <3>2 DEF RecordsInv
  <2>4. \A x, y \in pods' : x.id = y.id => x = y
    BY DEF RecordsInv
  <2> QED BY <2>1, <2>2, <2>3, <2>4 DEF RecordsInv
<1>2. ASSUME NEW t \in Templates
      PROVE  Live(t)' = IF t = p.tmpl /\ q.deleting THEN Live(t) - 1 ELSE Live(t)
  <2>0. IsFiniteSet(Active(t)) /\ Cardinality(Active(t)) \in Nat
    BY Tallies DEF Live
  <2>1. CASE t # p.tmpl
    <3>1. Active(t)' = Active(t)
      BY <2>1 DEF Active
    <3> QED BY <2>1, <3>1 DEF Live
  <2>2. CASE t = p.tmpl /\ q.deleting
    <3>1. Active(t)' = Active(t) \ {p} /\ p \in Active(t)
      BY <2>2 DEF Active
    <3>2. Cardinality(Active(t) \ {p}) = Cardinality(Active(t)) - 1
      BY <2>0, <3>1, FS_RemoveElement
    <3> QED BY <2>2, <3>1, <3>2 DEF Live
  <2>3. CASE t = p.tmpl /\ ~q.deleting
    <3>1. p \in Active(t) /\ q \notin Active(t) \ {p} /\ Active(t)' = (Active(t) \ {p}) \cup {q}
      BY <2>3 DEF Active, RecordsInv
    <3>2. IsFiniteSet(Active(t) \ {p}) /\ Cardinality(Active(t) \ {p}) = Cardinality(Active(t)) - 1
      BY <2>0, <3>1, FS_RemoveElement
    <3>3. Cardinality((Active(t) \ {p}) \cup {q}) = Cardinality(Active(t) \ {p}) + 1
      BY <3>1, <3>2, FS_AddElement
    <3>4. Cardinality((Active(t) \ {p}) \cup {q}) = Cardinality(Active(t))
      BY <2>0, <3>2, <3>3
    <3>5. Cardinality(Active(t)') = Cardinality(Active(t))
      BY <3>1, <3>4
    <3> QED BY <2>3, <3>5 DEF Live
  <2> QED BY <2>1, <2>2, <2>3
<1> QED BY <1>1, <1>2

\* Pods that are not counted go: one that was marked, or the probe.
LEMMA SomePodsLess ==
    ASSUME RecordsInv, UNCHANGED script, NEW S, S \subseteq pods, \A p \in pods \ S : p.deleting \/ p.tmpl = Bare,
           pods' = S, UNCHANGED slices, UNCHANGED nextPod
    PROVE  RecordsInv' /\ \A t \in Templates : Live(t)' = Live(t)
<1>1. ASSUME NEW t \in Templates PROVE Live(t)' = Live(t)
  <2>1. Active(t)' = Active(t)
    BY DEF Active, Templates, Bare
  <2> QED BY <2>1 DEF Live
<1>2. IsFiniteSet(pods')
  BY FS_Subset DEF RecordsInv
<1>3. \A x : PodKept(x) => PodKept(x)'
  BY DEF PodKept, Desired
<1> QED BY <1>1, <1>2, <1>3 DEF RecordsInv

\* Steps that change pods only.
LEMMA OnlyPodsChange ==
    ASSUME TypeInv, UNCHANGED script, UNCHANGED rs, UNCHANGED dep, UNCHANGED pc, UNCHANGED sample,
           \A t \in Templates : Live(t)' \in Nat /\ (Live(t)' <= Live(t) \/ Live(t)' <= rs[t].want),
           rs[1].active <= Live(1)', rs[0].want <= Live(0)'
    PROVE  BoundsInv' /\ DeployedInv'
<1>1. Desired' = Desired
  BY DEF Desired
<1>2. BoundsInv /\ DeployedInv /\ RecordsInv
  BY DEF TypeInv
<1>3. \A t \in Templates : Live(t) \in Nat /\ rs[t].want \in 0 .. Desired /\ Live(t) <= Desired
  BY <1>2, Tallies DEF BoundsInv
<1>4. \A t \in Templates : Live(t)' <= Desired
  BY <1>3, Sizes
<1>5. Live(1)' <= rs[1].want /\ Live(2)' <= MaxSurge /\ Live(0)' <= rs[0].active
  <2>1. Live(0)' \in Nat /\ (Live(0)' <= Live(0) \/ Live(0)' <= rs[0].want)
    BY Sizes
  <2>2. Live(0) \in Nat /\ rs[0].want \in Nat /\ rs[0].active \in Nat
        /\ rs[0].want <= Live(0) /\ Live(0) <= rs[0].active
    BY <1>2, <1>3, Sizes DEF BoundsInv
  <2>3. Live(0)' <= rs[0].active
    BY <2>1, <2>2
  <2> QED BY <1>2, <1>3, <2>3, Sizes DEF BoundsInv
<1>6. BoundsInv'
  BY <1>1, <1>2, <1>4, <1>5, Sizes DEF BoundsInv
<1>7. DeployedInv'
  BY <1>1, <1>2 DEF DeployedInv
<1> QED BY <1>6, <1>7

\* The ReplicaSets make and mark pods, at most as many as they should have; of
\* the new one none is ever marked.
LEMMA ScaleTypes ==
    ASSUME TypeInv, NEW t \in Templates, ReplicaSetScale(t)
    PROVE  RecordsInv' /\ BoundsInv' /\ DeployedInv'
<1>0. RecordsInv /\ BoundsInv
  BY DEF TypeInv
<1>1. /\ UNCHANGED script /\ UNCHANGED rs /\ UNCHANGED dep /\ UNCHANGED pc /\ UNCHANGED sample
      /\ UNCHANGED slices
  BY DEF ReplicaSetScale, scriptVars, local
<1>2. \A o \in Templates : Live(o) \in Nat /\ rs[o].want \in Nat
  <2>1. \A o \in Templates : Live(o) \in Nat
    BY <1>0, Tallies
  <2>2. \A o \in Templates : rs[o].want \in 0 .. Desired
    BY <1>0 DEF BoundsInv
  <2> QED BY <2>1, <2>2
<1>3. /\ rs[1].active <= Live(1) /\ Live(1) <= rs[1].want /\ rs[1].active \in Nat
      /\ rs[0].want <= Live(0)
  BY <1>0, Sizes DEF BoundsInv
<1>4. CASE Live(t) < rs[t].want /\ nextPod' = nextPod + 1
           /\ pods' = pods \cup {[id |-> nextPod, tmpl |-> t, ready |-> FALSE, deleting |-> FALSE]}
  <2> DEFINE q == [id |-> nextPod, tmpl |-> t, ready |-> FALSE, deleting |-> FALSE]
  <2>1. q \in ApiPods /\ q.id = nextPod /\ q.tmpl = t /\ ~q.ready /\ ~q.deleting
    BY <1>0 DEF RecordsInv, ApiPods, Templates
  <2> HIDE DEF q
  <2>2. RecordsInv' /\ \A o \in Templates : Live(o)' = IF o = t THEN Live(o) + 1 ELSE Live(o)
    <3>1. t # 0
      BY <1>2, <1>3, <1>4
    <3> QED BY <1>0, <1>1, <1>4, <2>1, <3>1, OnePodMore DEF q
  <2>3. \A o \in Templates : Live(o)' \in Nat /\ (Live(o)' <= Live(o) \/ Live(o)' <= rs[o].want)
    BY <1>2, <1>4, <2>2
  <2>4. rs[1].active <= Live(1)' /\ rs[0].want <= Live(0)'
    BY <1>2, <1>3, <2>2, Sizes
  <2> QED BY <1>1, <2>2, <2>3, <2>4, OnlyPodsChange
<1>5. CASE Live(t) > rs[t].want /\ UNCHANGED nextPod
           /\ \E p \in Active(t) : pods' = (pods \ {p}) \cup {[p EXCEPT !.deleting = TRUE]}
  <2>1. PICK p \in Active(t) : pods' = (pods \ {p}) \cup {[p EXCEPT !.deleting = TRUE]}
    BY <1>5
  <2> DEFINE q == [p EXCEPT !.deleting = TRUE]
  <2>2. p \in pods /\ p \in ApiPods /\ p.tmpl = t /\ ~p.deleting
    BY <1>0 DEF Active, RecordsInv
  <2>3. q \in ApiPods /\ q.id = p.id /\ q.tmpl = p.tmpl /\ q.ready = p.ready /\ q.deleting
    BY <2>2 DEF ApiPods
  <2> HIDE DEF q
  <2>4. q.tmpl \in {Bad, Bare} => ~q.ready
    <3>1. p.tmpl \in {Bad, Bare} => ~p.ready
      BY <1>0, <2>2 DEF RecordsInv, PodKept
    <3> QED BY <2>3, <3>1, Zenon
  <2>5. pods' = (pods \ {p}) \cup {q}
    BY <2>1 DEF q
  <2>7. t # 1
    BY <1>2, <1>3, <1>5
  <2>6. RecordsInv' /\ \A o \in Templates : Live(o)' = IF o = p.tmpl /\ q.deleting THEN Live(o) - 1 ELSE Live(o)
    BY <1>0, <1>1, <1>5, <2>2, <2>3, <2>4, <2>5, <2>7, OnePodElse
  <2>8. \A o \in Templates : Live(o)' \in Nat /\ Live(o)' <= Live(o)
    BY <1>2, <1>5, <2>2, <2>6
  <2>9. rs[1].active <= Live(1)' /\ rs[0].want <= Live(0)'
    <3>1. rs[0].want <= Live(0)'
      <4>1. Live(0)' = IF 0 = t THEN Live(0) - 1 ELSE Live(0)
        BY <2>2, <2>3, <2>6, Sizes
      <4>2. Live(0) \in Nat /\ rs[0].want \in Nat
        BY <1>2, Sizes
      <4> QED BY <1>3, <1>5, <4>1, <4>2
    <3> QED BY <1>3, <2>2, <2>6, <2>7, <3>1, Sizes
  <2> QED BY <1>1, <2>6, <2>8, <2>9, OnlyPodsChange
<1> QED BY <1>4, <1>5 DEF ReplicaSetScale, Live

\* Readiness comes and goes, and marked pods go.
LEMMA PodTypes ==
    ASSUME TypeInv, PodReady \/ PodGone \/ PodFails
    PROVE  RecordsInv' /\ BoundsInv' /\ DeployedInv'
<1>0. RecordsInv /\ BoundsInv
  BY DEF TypeInv
<1>1. /\ UNCHANGED script /\ UNCHANGED rs /\ UNCHANGED dep /\ UNCHANGED pc /\ UNCHANGED sample
      /\ UNCHANGED slices /\ UNCHANGED nextPod
  BY DEF PodReady, PodGone, PodFails, scriptVars, local
<1>2. /\ \A o \in Templates : Live(o) \in Nat
      /\ rs[1].active <= Live(1) /\ 1 \in Templates /\ rs[0].want <= Live(0) /\ 0 \in Templates
  BY <1>0, Tallies, Sizes DEF BoundsInv
<1>3. RecordsInv' /\ \A o \in Templates : Live(o)' = Live(o)
  <2>1. ASSUME NEW p \in pods, ~p.deleting, NEW r \in BOOLEAN, p.tmpl \in {Bad, Bare} => ~r,
               pods' = (pods \ {p}) \cup {[p EXCEPT !.ready = r]}
        PROVE  RecordsInv' /\ \A o \in Templates : Live(o)' = Live(o)
    <3> DEFINE q == [p EXCEPT !.ready = r]
    <3>1. p \in ApiPods
      BY <1>0 DEF RecordsInv
    <3>2. q \in ApiPods /\ q.id = p.id /\ q.tmpl = p.tmpl /\ q.ready = r /\ q.deleting = p.deleting
      BY <3>1 DEF ApiPods
    <3>3. pods' = (pods \ {p}) \cup {q}
      BY <2>1
    <3> HIDE DEF q
    <3>4. ~q.deleting /\ (q.tmpl \in {Bad, Bare} => ~q.ready)
      BY <2>1, <3>2, Zenon
    <3>5. RecordsInv' /\ \A o \in Templates : Live(o)' = IF o = p.tmpl /\ q.deleting THEN Live(o) - 1 ELSE Live(o)
      BY <1>0, <1>1, <2>1, <3>2, <3>3, <3>4, OnePodElse
    <3> QED BY <3>4, <3>5
  <2>2. CASE PodReady
    <3>1. PICK p \in NotReadyPods :
             p.tmpl \notin {Bad, Bare} /\ pods' = (pods \ {p}) \cup {[p EXCEPT !.ready = TRUE]}
      BY <2>2 DEF PodReady
    <3> QED BY <2>1, <3>1 DEF NotReadyPods
  <2>3. CASE PodFails
    <3>1. PICK p \in ReadyPods : pods' = (pods \ {p}) \cup {[p EXCEPT !.ready = FALSE]}
      BY <2>3 DEF PodFails
    <3> QED BY <2>1, <3>1 DEF ReadyPods
  <2>4. CASE PodGone
    <3>1. PICK p \in pods : p.deleting /\ pods' = pods \ {p}
      BY <2>4 DEF PodGone
    <3> QED BY <1>0, <1>1, <3>1, SomePodsLess
  <2> QED BY <2>2, <2>3, <2>4
<1>4. \A o \in Templates : Live(o)' \in Nat /\ Live(o)' <= Live(o)
  BY <1>2, <1>3
<1>5. rs[1].active <= Live(1)' /\ rs[0].want <= Live(0)'
  BY <1>2, <1>3
<1> QED BY <1>1, <1>3, <1>4, <1>5, OnlyPodsChange

\* The endpoints name pods there are.
LEMMA EndpointTypes ==
    ASSUME TypeInv, EndpointSync
    PROVE  RecordsInv' /\ BoundsInv' /\ DeployedInv'
<1>0. RecordsInv /\ BoundsInv
  BY DEF TypeInv
<1>1. /\ UNCHANGED script /\ UNCHANGED rs /\ UNCHANGED dep /\ UNCHANGED pc /\ UNCHANGED sample
      /\ UNCHANGED pods /\ UNCHANGED nextPod
  BY DEF EndpointSync, scriptVars, local
<1>2. slices' = {[pod |-> p.id, ready |-> p.ready /\ ~p.deleting] : p \in pods}
  BY DEF EndpointSync, Endpoints
<1>3. ASSUME NEW e \in slices' PROVE e \in [pod : Nat, ready : BOOLEAN] /\ e.pod < nextPod'
  <2>1. PICK p \in pods : e = [pod |-> p.id, ready |-> p.ready /\ ~p.deleting]
    BY <1>2
  <2>2. p.id \in Nat /\ p.id < nextPod
    BY <1>0 DEF RecordsInv, ApiPods
  <2> QED BY <1>1, <2>1, <2>2
<1>4. RecordsInv'
  <2>1. \A x : PodKept(x) => PodKept(x)'
    BY <1>1 DEF PodKept, Desired
  <2> QED BY <1>0, <1>1, <1>3, <2>1 DEF RecordsInv
<1>5. \A t \in Templates : Live(t)' = Live(t) /\ Live(t) \in Nat
  BY <1>0, <1>1, SamePods, Tallies
<1> QED BY <1>0, <1>1, <1>4, <1>5, OnlyPodsChange, Sizes DEF BoundsInv

\* A ReplicaSet reports its pods: never more than are desired, and of the new
\* one never less than before.
LEMMA StatusTypes ==
    ASSUME TypeInv, NEW t \in Templates, ReplicaSetStatus(t)
    PROVE  RecordsInv' /\ BoundsInv' /\ DeployedInv'
<1>0. RecordsInv /\ BoundsInv /\ DeployedInv
  BY DEF TypeInv
<1>1. /\ UNCHANGED script /\ UNCHANGED pods /\ UNCHANGED dep /\ UNCHANGED pc /\ UNCHANGED sample
      /\ UNCHANGED slices /\ UNCHANGED nextPod /\ Desired' = Desired
  BY DEF ReplicaSetStatus, scriptVars, local, Desired
<1>2. rs' = [rs EXCEPT ![t].active = Live(t), ![t].available = Up(t)]
  BY DEF ReplicaSetStatus, Live, Up
<1>3. \A o \in Templates : Live(o)' = Live(o) /\ Live(o) \in Nat /\ Live(o) <= Desired
  BY <1>0, <1>1, SamePods, Tallies DEF BoundsInv
<1>4. PICK n, m \in 0 .. Desired : n = Live(t) /\ m = Up(t) /\ m <= n
  <2>1. Live(t) \in Nat /\ Live(t) <= Desired /\ Up(t) \in Nat /\ Up(t) <= Live(t) /\ Desired \in Nat
    BY <1>0, <1>3, Tallies, Sizes
  <2>2. Live(t) \in 0 .. Desired /\ Up(t) \in 0 .. Desired
    BY <2>1
  <2> QED BY <2>1, <2>2
<1>5. rs' = [rs EXCEPT ![t].active = n, ![t].available = m]
  BY <1>2, <1>4
<1>6. /\ rs' \in [Templates -> [want : 0 .. Desired, active : 0 .. Desired, available : 0 .. Desired]]
      /\ \A o \in Templates : /\ rs'[o].want = rs[o].want
                              /\ rs'[o].active = IF o = t THEN n ELSE rs[o].active
                              /\ rs'[o].available = IF o = t THEN m ELSE rs[o].available
  BY <1>0, <1>5 DEF BoundsInv
<1>7. t = 2 => m = 0 /\ n <= MaxSurge
  BY <1>0, <1>4, Tallies, Sizes DEF BoundsInv
<1>8. rs[1].active <= rs'[1].active /\ rs'[1].active <= Live(1)
  BY <1>0, <1>3, <1>4, <1>6, Sizes DEF BoundsInv
<1>9. rs'[2].available = 0 /\ rs'[2].active <= MaxSurge
  BY <1>0, <1>6, <1>7, Sizes DEF BoundsInv
<1>10. BoundsInv'
  BY <1>0, <1>1, <1>3, <1>4, <1>6, <1>8, <1>9, Sizes DEF BoundsInv
<1>11. rs'[0].want = rs[0].want /\ rs'[1].want = rs[1].want /\ rs'[2].want = rs[2].want
  BY <1>6, Sizes
<1>12. rs[1].active \in Nat /\ rs'[1].active \in Nat
  BY <1>0, <1>6, Sizes DEF BoundsInv
<1>13. dep.template = 1 /\ dep.observed = dep.gen => dep.updated <= rs'[1].active
  BY <1>0, <1>8, <1>12, Sizes DEF DeployedInv
<1>14. DeployedInv'
  BY <1>0, <1>1, <1>11, <1>13 DEF DeployedInv
<1>15. RecordsInv'
  BY <1>0, <1>1 DEF RecordsInv, PodKept
<1> QED BY <1>10, <1>14, <1>15

\* The Deployment controller scales the new ReplicaSet up and the others down;
\* for the bad release there is nothing to scale down (DeploymentSync).
LEMMA ScalingBounds ==
    ASSUME TypeInv, DeploymentSync
    PROVE  /\ rs' \in [Templates -> [want : 0 .. Desired, active : 0 .. Desired, available : 0 .. Desired]]
           /\ \A o \in Templates : rs'[o].active = rs[o].active /\ rs'[o].available = rs[o].available
           /\ dep.template = 0 => rs' = rs
           /\ dep.template = 1 =>
                rs'[1].want >= rs[1].want /\ rs'[0].want <= rs[0].want /\ rs'[2].want <= rs[2].want
           /\ dep.template = 2 =>
                rs'[0].want = 0 /\ rs'[1].want = Desired /\ rs'[2].want <= 1
<1> DEFINE t == dep.template
           old == {o \in Templates \ {t} : rs[o].want > 0}
<1>0. BoundsInv /\ DeployedInv /\ t \in Templates
  BY DEF TypeInv, DeployedInv
<1>1. PICK D \in {1, 2} : D = Desired
  BY Sizes
<1>2. rs \in [Templates -> [want : 0 .. D, active : 0 .. D, available : 0 .. D]]
  BY <1>0, <1>1 DEF BoundsInv
<1> DEFINE mayUp == rs[t].want < D /\ rs[0].want + rs[1].want + rs[2].want < D + 1
           spare == (rs[0].want + rs[1].want + rs[2].want) - D - (rs[t].want - rs[t].available)
<1>3. \/ mayUp /\ rs' = [rs EXCEPT ![t].want = @ + 1]
      \/ ~mayUp /\ spare > 0 /\ \E o \in old : rs' = [rs EXCEPT ![o].want = @ - 1]
      \/ rs' = rs
  <2>1. Sum("want") = rs[0].want + rs[1].want + rs[2].want
    BY DEF Sum
  <2>2. Desired + MaxSurge = D + 1 /\ Desired - MaxUnavailable = D
    BY <1>1, Sizes
  <2> DEFINE up == rs[t].want < Desired /\ Sum("want") < Desired + MaxSurge
             left == Sum("want") - (Desired - MaxUnavailable) - (rs[t].want - rs[t].available)
  <2>3. (up <=> mayUp) /\ left = spare
    BY <1>1, <2>1, <2>2
  <2>4. \/ up /\ rs' = [rs EXCEPT ![t].want = @ + 1]
        \/ ~up /\ left > 0 /\ \E o \in old : rs' = [rs EXCEPT ![o].want = @ - 1]
        \/ rs' = rs
    BY DEF DeploymentSync
  <2> HIDE DEF up, left, mayUp, spare, old
  <2> QED BY <2>3, <2>4
<1>4. /\ rs[0].want \in 0 .. D /\ rs[1].want \in 0 .. D /\ rs[2].want \in 0 .. D
      /\ rs[2].available = 0 /\ rs[2].want <= 1
      /\ rs[t].want \in 0 .. D /\ rs[t].available \in 0 .. D
  BY <1>0, <1>2, Sizes DEF BoundsInv
<1>5. t = 0 => rs[0].want = D /\ rs[1].want = 0 /\ rs[2].want = 0
  BY <1>0, <1>1 DEF DeployedInv
<1>6. t = 2 => rs[0].want = 0 /\ rs[1].want = D
  BY <1>0, <1>1 DEF DeployedInv, Bad
<1>7. t = dep.template /\ (t = 0 \/ t = 1 \/ t = 2)
  BY <1>0, Sizes
<1>8. CASE mayUp /\ rs' = [rs EXCEPT ![t].want = @ + 1]
  <2>1. PICK n \in 0 .. D : n = rs[t].want + 1
    BY <1>4, <1>8
  <2>2. rs' = [rs EXCEPT ![t].want = n]
    BY <1>8, <2>1
  <2>3. t # 0
    BY <1>4, <1>5, <1>8
  <2>4. /\ rs' \in [Templates -> [want : 0 .. D, active : 0 .. D, available : 0 .. D]]
        /\ \A o \in Templates : /\ rs'[o].active = rs[o].active /\ rs'[o].available = rs[o].available
                                /\ rs'[o].want = IF o = t THEN n ELSE rs[o].want
    BY <1>0, <1>2, <2>2
  <2>5. t = 2 => n = 1
    BY <1>4, <1>6, <1>8, <2>1
  <2> HIDE DEF t, mayUp, spare, old
  <2>6. /\ rs'[0].want = rs[0].want /\ rs'[1].want = IF t = 1 THEN n ELSE rs[1].want
        /\ rs'[2].want = IF t = 2 THEN n ELSE rs[2].want
    BY <1>7, <2>3, <2>4, Sizes
  <2>7. t = 1 => n >= rs[1].want
    BY <1>4, <2>1
  <2> QED BY <1>1, <1>4, <1>6, <1>7, <2>3, <2>4, <2>5, <2>6, <2>7
<1>9. CASE ~mayUp /\ spare > 0 /\ \E o \in old : rs' = [rs EXCEPT ![o].want = @ - 1]
  <2>1. PICK o \in old : rs' = [rs EXCEPT ![o].want = @ - 1]
    BY <1>9
  <2>2. o \in Templates /\ o # t /\ rs[o].want \in 0 .. D /\ rs[o].want > 0
    BY <1>2, <2>1
  <2>3. PICK n \in 0 .. D : n = rs[o].want - 1
    BY <2>2
  <2>4. rs' = [rs EXCEPT ![o].want = n]
    BY <2>1, <2>3
  <2>5. /\ rs' \in [Templates -> [want : 0 .. D, active : 0 .. D, available : 0 .. D]]
        /\ \A x \in Templates : /\ rs'[x].active = rs[x].active /\ rs'[x].available = rs[x].available
                                /\ rs'[x].want = IF x = o THEN n ELSE rs[x].want
    BY <1>2, <2>2, <2>4
  <2>6. t # 0
    BY <1>5, <2>2, Sizes
  <2>7. t # 2
    <3> SUFFICES ASSUME t = 2 PROVE FALSE
      OBVIOUS
    <3>1. rs[t].want = rs[2].want /\ rs[t].available = 0 /\ rs[0].want = 0 /\ rs[1].want = D
      BY <1>4, <1>6
    <3>2. (rs[0].want + rs[1].want + rs[2].want) - D = rs[2].want
      BY <1>4, <3>1
    <3>3. spare = rs[2].want - (rs[2].want - 0)
      BY <3>1, <3>2
    <3>4. spare = 0
      BY <1>4, <3>3
    <3> QED BY <1>9, <3>4
  <2> HIDE DEF t, mayUp, spare, old
  <2>8. t = 1
    BY <1>7, <2>6, <2>7
  <2>9. rs'[1].want = rs[1].want /\ rs'[0].want <= rs[0].want /\ rs'[2].want <= rs[2].want
    BY <1>4, <2>2, <2>3, <2>5, <2>8, Sizes
  <2> QED BY <1>1, <1>4, <1>7, <2>5, <2>8, <2>9
<1>10. CASE rs' = rs
  BY <1>1, <1>2, <1>4, <1>6, <1>10
<1> QED BY <1>3, <1>8, <1>9, <1>10

\* What it publishes stays within the surge.
LEMMA DeploymentTypes ==
    ASSUME TypeInv, DeploymentSync
    PROVE  RecordsInv' /\ BoundsInv' /\ DeployedInv'
<1> DEFINE t == dep.template
<1>0. RecordsInv /\ BoundsInv /\ DeployedInv
  BY DEF TypeInv
<1>1. /\ UNCHANGED script /\ UNCHANGED pods /\ UNCHANGED pc /\ UNCHANGED sample
      /\ UNCHANGED slices /\ UNCHANGED nextPod /\ Desired' = Desired
      /\ dep' = [dep EXCEPT !.observed = dep.gen, !.rev = t, !.updated = rs[t].active,
                            !.available = Sum("available"), !.total = Sum("active")]
  BY DEF DeploymentSync, scriptVars, local, Desired
<1>2. \A o \in Templates : Live(o)' = Live(o) /\ Live(o) \in Nat
  BY <1>0, <1>1, SamePods, Tallies
<1>3. /\ t \in Templates /\ (t = 0 \/ t = 1 \/ t = 2)
  BY <1>0, Sizes DEF DeployedInv
<1>4. \A o \in Templates : /\ rs[o].want \in 0 .. Desired /\ rs[o].active \in 0 .. Desired
                           /\ rs[o].available \in 0 .. Desired /\ rs[o].available <= rs[o].active
  BY <1>0 DEF BoundsInv
<1>5. /\ rs[0].active \in 0 .. Desired /\ rs[1].active \in 0 .. Desired /\ rs[2].active \in 0 .. 1
      /\ rs[0].available \in 0 .. Desired /\ rs[1].available \in 0 .. Desired /\ rs[2].available = 0
  BY <1>0, <1>4, Sizes DEF BoundsInv
<1>6. PICK a \in 0 .. Desired, b \in 0 .. 2 * Desired + MaxSurge, c \in 0 .. 2 * Desired + MaxSurge :
         /\ a = rs[t].active /\ b = rs[0].available + rs[1].available + rs[2].available
         /\ c = rs[0].active + rs[1].active + rs[2].active
  <2>1. rs[t].active \in 0 .. Desired
    BY <1>3, <1>4
  <2>2. /\ rs[0].available + rs[1].available + rs[2].available \in 0 .. 2 * Desired + MaxSurge
        /\ rs[0].active + rs[1].active + rs[2].active \in 0 .. 2 * Desired + MaxSurge
    <3>1. PICK D \in {1, 2} : D = Desired /\ MaxSurge = 1
      BY Sizes
    <3> QED BY <1>5, <3>1
  <2> QED BY <2>1, <2>2
<1>7. dep' = [dep EXCEPT !.observed = dep.gen, !.rev = t, !.updated = a, !.available = b, !.total = c]
  BY <1>1, <1>6 DEF Sum
<1>8. /\ dep' \in [template : Templates, gen : Nat, observed : Nat, rev : Templates, updated : 0 .. Desired,
                   available : 0 .. 2 * Desired + MaxSurge, total : 0 .. 2 * Desired + MaxSurge]
      /\ dep'.template = t /\ dep'.gen = dep.gen /\ dep'.observed = dep.gen /\ dep'.updated = a
      /\ dep'.total = c
  BY <1>0, <1>3, <1>7 DEF DeployedInv
<1>9. /\ rs' \in [Templates -> [want : 0 .. Desired, active : 0 .. Desired, available : 0 .. Desired]]
      /\ \A o \in Templates : rs'[o].active = rs[o].active /\ rs'[o].available = rs[o].available
      /\ t = 0 => rs' = rs
      /\ t = 1 => rs'[1].want >= rs[1].want /\ rs'[0].want <= rs[0].want /\ rs'[2].want <= rs[2].want
      /\ t = 2 => rs'[0].want = 0 /\ rs'[1].want = Desired /\ rs'[2].want <= 1
  BY ScalingBounds
<1>10. t = dep.template
  OBVIOUS
<1> HIDE DEF t
<1>11. /\ rs[0].want \in 0 .. Desired /\ rs[1].want \in 0 .. Desired /\ rs[2].want \in 0 .. 1
       /\ rs'[0].want \in 0 .. Desired /\ rs'[1].want \in 0 .. Desired /\ rs'[2].want \in 0 .. Desired
       /\ rs'[1].active = rs[1].active /\ rs'[2].active = rs[2].active /\ rs'[2].available = rs[2].available
  <2>1. \A o \in Templates : rs'[o].want \in 0 .. Desired
    BY <1>9
  <2>2. rs[2].want \in 0 .. 1
    BY <1>0, <1>4, Sizes DEF BoundsInv
  <2> QED BY <1>4, <1>9, <2>1, <2>2, Sizes
<1>12. t = 2 => rs[1].want = Desired
  BY <1>0, <1>10 DEF DeployedInv, Bad
<1>13. rs[1].want <= rs'[1].want /\ rs'[2].want <= 1
  BY <1>3, <1>9, <1>11, <1>12, Sizes
<1>14. BoundsInv'
  <2>1. Live(1)' <= rs'[1].want /\ rs'[1].active <= Live(1)'
    BY <1>0, <1>2, <1>11, <1>13, Sizes DEF BoundsInv
  <2>2. rs'[0].want <= Live(0)' /\ Live(0)' <= rs'[0].active
    <3>1. rs[0].want <= Live(0) /\ Live(0) <= rs[0].active /\ rs'[0].active = rs[0].active
      BY <1>0, <1>9, Sizes DEF BoundsInv
    <3>2. rs'[0].want <= rs[0].want
      BY <1>3, <1>9, <1>11, Sizes
    <3> QED BY <1>2, <1>11, <3>1, <3>2, Sizes
  <2>3. \A o \in Templates : rs'[o].available <= rs'[o].active /\ Live(o)' <= Desired
    BY <1>0, <1>2, <1>9 DEF BoundsInv
  <2>4. /\ rs'[2].available = 0 /\ rs'[2].want <= MaxSurge /\ Live(2)' <= MaxSurge
        /\ rs'[2].active <= MaxSurge
    BY <1>0, <1>2, <1>11, <1>13, Sizes DEF BoundsInv
  <2> QED BY <1>1, <1>9, <2>1, <2>2, <2>3, <2>4 DEF BoundsInv
<1>15. DeployedInv'
  <2>1. t = 1 => a <= rs'[1].active
    BY <1>5, <1>6, <1>11, Sizes
  <2>2. t # 0 /\ rs[1].want = Desired => rs'[1].want = Desired
    BY <1>11, <1>13, Sizes
  <2>3. rs[0].want = 0 => rs'[0].want = 0 \/ t = 0
    BY <1>3, <1>9, <1>11, Sizes
  <2>4. (pc = "sample_pods" /\ sample.done) \/ pc \in Late \/ t = Bad
          => t # 0 /\ rs'[1].want = Desired /\ rs'[0].want = 0
    BY <1>0, <1>10, <2>2, <2>3 DEF DeployedInv
  <2>5. t = 0 => rs'[0].want = Desired /\ rs'[1].want = 0 /\ rs'[2].want = 0
    BY <1>0, <1>9, <1>10 DEF DeployedInv
  <2>6. dep'.observed <= dep'.gen
    BY <1>0, <1>8 DEF DeployedInv
  <2>7. t = 1 /\ a = Desired /\ c = Desired => rs'[0].want = 0
    <3> SUFFICES ASSUME t = 1, a = Desired, c = Desired PROVE rs'[0].want = 0
      OBVIOUS
    <3>1. rs[0].active = 0
      BY <1>5, <1>6, Sizes
    <3>2. rs[0].want = 0
      BY <1>0, <1>2, <1>11, <3>1, Sizes DEF BoundsInv
    <3> QED BY <2>3, <3>2
  <2>8. pc \in {"sample", "sample_pods"} => t = 1
    BY <1>0, <1>10 DEF DeployedInv
  <2> QED BY <1>1, <1>8, <2>1, <2>4, <2>5, <2>6, <2>7, <2>8 DEF DeployedInv
<1>16. RecordsInv'
  BY <1>0, <1>1 DEF RecordsInv, PodKept
<1> QED BY <1>14, <1>15, <1>16

\* The controllers leave the script alone.
LEMMA KubernetesTypes ==
    ASSUME TypeInv, Kubernetes \/ PodFails
    PROVE  TypeInv'
<1>1. RecordsInv' /\ BoundsInv' /\ DeployedInv'
  BY DeploymentTypes, PodTypes, EndpointTypes, ScaleTypes, StatusTypes DEF Kubernetes
<1>2. /\ UNCHANGED pc /\ UNCHANGED exit /\ UNCHANGED sample /\ UNCHANGED prev /\ UNCHANGED helm
      /\ UNCHANGED upgrade /\ UNCHANGED sink /\ UNCHANGED faults /\ UNCHANGED cleanFaults
      /\ crashes' = crashes \/ (crashes < MaxCrashes /\ crashes' = crashes + 1)
  BY DEF Kubernetes, PodFails, DeploymentSync, PodReady, PodGone, EndpointSync, ReplicaSetScale,
         ReplicaSetStatus, scriptVars, local, release
<1>3. crashes' \in 0 .. MaxCrashes
  <2>1. crashes \in 0 .. MaxCrashes /\ MaxCrashes \in Nat
    BY RolloutAssumption DEF TypeInv, ScriptInv
  <2> QED BY <1>2, <2>1
<1>4. ScriptInv'
  BY <1>2, <1>3 DEF TypeInv, ScriptInv
<1> QED BY <1>1, <1>4 DEF TypeInv

(***************************************************************************)
(* Types and bounds: the scripts.                                          *)
(***************************************************************************)
\* Where the script goes while the Deployment and its ReplicaSets stay.
LEMMA SamePlace ==
    ASSUME TypeInv, UNCHANGED script, UNCHANGED dep, UNCHANGED rs,
           pc' \in {"sample", "sample_pods"} => dep.template = 1,
           (pc' = "sample_pods" /\ sample'.done) \/ pc' \in Late =>
              dep.template # 0 /\ rs[1].want = Desired /\ rs[0].want = 0
    PROVE  DeployedInv'
<1>1. Desired' = Desired
  BY DEF Desired
<1> QED BY <1>1 DEF TypeInv, DeployedInv

\* The cluster does not change.
LEMMA SameCluster ==
    ASSUME TypeInv, UNCHANGED script, UNCHANGED rs, UNCHANGED pods, UNCHANGED slices, UNCHANGED nextPod
    PROVE  RecordsInv' /\ BoundsInv'
<1>1. \A t : Live(t)' = Live(t)
  BY SamePods
<1>2. Desired' = Desired
  BY DEF Desired
<1> QED BY <1>1, <1>2 DEF TypeInv, RecordsInv, PodKept, BoundsInv

\* A loop that has seen nothing yet, or the pods before it.
LEMMA FreshSample ==
    /\ NoSample \in Samples /\ Sent(NoSample)
    /\ \A h \in SUBSET (0 .. 3) :
         [NoSample EXCEPT !.hashes = h] \in Samples /\ Sent([NoSample EXCEPT !.hashes = h])
<1>1. 0 \in 0 .. 2 /\ 0 \in Nat /\ {} \in SUBSET (0 .. 3) /\ RequestSamples \in Nat
  BY RolloutAssumption
<1>2. ASSUME NEW h \in SUBSET (0 .. 3), NEW n \in 0 .. 2, NEW m \in Nat
      PROVE  [done |-> FALSE, low |-> FALSE, sent |-> m, misses |-> n, hashes |-> h] \in Samples
  BY DEF Samples
<1>3. NoSample \in Samples /\ NoSample.sent = 0
  BY <1>1, <1>2 DEF NoSample
<1>4. ASSUME NEW x \in Samples, NEW h \in SUBSET (0 .. 3)
      PROVE  [x EXCEPT !.hashes = h] \in Samples /\ [x EXCEPT !.hashes = h].sent = x.sent
  BY DEF Samples
<1> QED BY <1>1, <1>3, <1>4 DEF Sent

\* A request more, or none.
LEMMA RequestTypes ==
    ASSUME ScriptInv, NEW s, s \in Requested \/ s = sample
    PROVE  s \in Samples /\ Sent(s)
<1>1. sample \in Samples /\ Sent(sample) /\ sample \in SampleRecords /\ sample.misses \in 0 .. 2
  BY DEF ScriptInv, Samples, SampleRecords
<1>2. CASE s = sample
  BY <1>1, <1>2
<1>3. CASE s \in Requested
  <2>1. /\ s \in SampleRecords /\ s.misses \in 0 .. 2
        /\ s.sent <= sample.sent \/ s.sent <= RequestSamples \/ s.sent <= BadSamples
    BY <1>1, <1>3, Requests
  <2>2. s \in Samples
    BY <2>1 DEF Samples, SampleRecords
  <2>3. RequestSamples \in Nat /\ BadSamples \in Nat /\ s.sent \in Nat /\ sample.sent \in Nat
    BY <1>1, <2>1, RolloutAssumption DEF SampleRecords
  <2> QED BY <1>1, <2>1, <2>2, <2>3 DEF Sent
<1> QED BY <1>2, <1>3

\* A step that reads and decides.
LEMMA Moved ==
    ASSUME TypeInv, UNCHANGED script, UNCHANGED dep, UNCHANGED rs, UNCHANGED pods, UNCHANGED slices,
           UNCHANGED nextPod, UNCHANGED sample \/ sample' = NoSample, UNCHANGED prev, UNCHANGED helm,
           UNCHANGED upgrade, UNCHANGED sink, UNCHANGED faults, UNCHANGED crashes, UNCHANGED cleanFaults,
           pc' \in Places \ {"sample", "sample_pods"}, exit' = exit \/ exit' \in {0, 1},
           pc' \in Late => pc \in Late,
           pc' \in Guarded \cup {"emergency"} => pc \in Guarded
    PROVE  TypeInv'
<1>1. RecordsInv' /\ BoundsInv'
  BY SameCluster
<1>2. DeployedInv'
  <2>1. DeployedInv
    BY DEF TypeInv
  <2>2. pc \in Late => dep.template # 0 /\ rs[1].want = Desired /\ rs[0].want = 0
    BY <2>1 DEF DeployedInv
  <2> QED BY <2>2, SamePlace
<1>3. ScriptInv'
  <2>1. sample' \in Samples /\ Sent(sample')
    BY FreshSample DEF TypeInv, ScriptInv
  <2> QED BY <2>1 DEF TypeInv, ScriptInv
<1> QED BY <1>1, <1>2, <1>3 DEF TypeInv

\* Where an exception leads.
LEMMA Raised ==
    ASSUME Raise
    PROVE  /\ pc' \in {"emergency", "undo_probe", "over"} /\ (exit' = exit \/ exit' \in {0, 1})
           /\ pc' = "emergency" => pc \in Guarded
BY DEF Raise, Goto, Over

\* A check, and the judgements that end a script.
LEMMA Checked ==
    ASSUME TypeInv, UNCHANGED script, UNCHANGED dep, UNCHANGED rs, UNCHANGED pods, UNCHANGED slices,
           UNCHANGED nextPod, UNCHANGED sample \/ sample' = NoSample, UNCHANGED prev, UNCHANGED helm,
           UNCHANGED upgrade, UNCHANGED sink, UNCHANGED faults, UNCHANGED crashes, UNCHANGED cleanFaults,
           NEW next \in Places \ {"sample", "sample_pods"},
           next \in Late => pc \in Late,
           next \in Guarded \cup {"emergency"} => pc \in Guarded,
           Raise \/ (pc' = next /\ (exit' = exit \/ exit' \in {0, 1}))
    PROVE  TypeInv'
<1>1. CASE Raise
  <2>1. /\ pc' \in {"emergency", "undo_probe", "over"} /\ (exit' = exit \/ exit' \in {0, 1})
        /\ pc' = "emergency" => pc \in Guarded
    BY <1>1, Raised
  <2> QED BY <2>1, Moved DEF Places, Late, Complete, Released, RolledBack, Guarded
<1>2. CASE pc' = next /\ (exit' = exit \/ exit' \in {0, 1})
  BY <1>2, Moved
<1> QED BY <1>1, <1>2

\* The steps of the gate after the upgrade.
LEMMA GateTypes ==
    ASSUME TypeInv, read_mock_sink_rollout_objects \/ wait_for_mock_sink_rollout
                    \/ (configure_sink_helm /\ pc # "start")
    PROVE  TypeInv'
<1> DEFINE Reached == Gate \cup {"rollout_wait", "over"}
<1>1. /\ UNCHANGED script /\ UNCHANGED dep /\ UNCHANGED rs /\ UNCHANGED pods /\ UNCHANGED slices
      /\ UNCHANGED nextPod /\ UNCHANGED sample /\ UNCHANGED prev /\ UNCHANGED helm /\ UNCHANGED upgrade
      /\ UNCHANGED sink /\ UNCHANGED faults /\ UNCHANGED crashes /\ UNCHANGED cleanFaults
      /\ pc' \in Reached /\ (exit' = exit \/ exit' \in {0, 1})
  BY DEF read_mock_sink_rollout_objects, wait_for_mock_sink_rollout, configure_sink_helm, Read, Check, Goto,
         Over, still, cluster, local, release, Gate
<1>2. Reached \subseteq Places \ {"sample", "sample_pods"} /\ Reached \cap Late = {}
      /\ Reached \cap (Guarded \cup {"emergency"}) = {}
  BY DEF Places, Gate, Late, Complete, Released, RolledBack, Guarded
<1> HIDE DEF Reached
<1>3. /\ pc' \in Places \ {"sample", "sample_pods"} /\ pc' \notin Late
      /\ pc' \notin Guarded \cup {"emergency"}
  BY <1>1, <1>2
<1> QED BY <1>1, <1>3, Moved

\* The checks of the other two scripts.
LEMMA CheckTypes ==
    ASSUME TypeInv,
           \/ verify_rollout_contract \/ verify_normal_rollout \/ verify_redis_persistence
           \/ (create_unready_api_pod /\ pc = "await_probe")
           \/ (verify_not_ready_endpoint_exclusion /\ pc = "exclude")
           \/ (verify_worker_shutdown_and_recovery /\ pc = "drain")
           \/ (verify_bad_release /\ pc = "verify_bad")
           \/ (rollback_release /\ pc # "rollback")
    PROVE  TypeInv'
<1> DEFINE From == {"start", "checks", "persistence", "await_probe", "exclude", "drain", "verify_bad",
                    "rollback_wait", "settle", "verify_rollback"}
<1> DEFINE To == CASE pc = "start" -> {"patch"}
                   [] pc = "checks" -> {"create_probe", "delay_sink"}
                   [] pc = "await_probe" -> {"exclude"}
                   [] pc = "exclude" -> {"delete_probe"}
                   [] pc = "drain" -> {"heal_sink"}
                   [] pc = "verify_bad" -> {"rollback"}
                   [] pc = "rollback_wait" -> {"settle"}
                   [] pc = "settle" -> {"verify_rollback"}
                   [] OTHER -> {"over"}
<1>1. /\ UNCHANGED script /\ UNCHANGED dep /\ UNCHANGED rs /\ UNCHANGED pods /\ UNCHANGED slices
      /\ UNCHANGED nextPod /\ (UNCHANGED sample \/ sample' = NoSample) /\ UNCHANGED prev /\ UNCHANGED helm
      /\ UNCHANGED upgrade /\ UNCHANGED sink /\ UNCHANGED faults /\ UNCHANGED crashes /\ UNCHANGED cleanFaults
      /\ pc \in From
      /\ Raise \/ (pc' \in To /\ (exit' = exit \/ exit' \in {0, 1}))
  BY DEF verify_rollout_contract, verify_normal_rollout, verify_redis_persistence, create_unready_api_pod,
         verify_not_ready_endpoint_exclusion, verify_worker_shutdown_and_recovery, configure_mock_sink,
         verify_bad_release, rollback_release, Check, Goto, Over, still, cluster, local, release
<1>2. ASSUME NEW next \in To
      PROVE  /\ next \in Places \ {"sample", "sample_pods"}
             /\ next \in Late => pc \in Late
             /\ next \in Guarded \cup {"emergency"} => pc \in Guarded
  BY <1>1, <1>2 DEF Places, Late, Complete, Released, RolledBack, Guarded
<1>3. CASE Raise
  BY <1>1, <1>3, Checked DEF Places, Late, Complete, Released, RolledBack, Guarded
<1> HIDE DEF To
<1>4. CASE pc' \in To /\ (exit' = exit \/ exit' \in {0, 1})
  BY <1>1, <1>2, <1>4, Checked
<1> QED BY <1>1, <1>3, <1>4

\* A new template: the status of the Deployment is not current until the
\* controller has seen it (kubectl patch, helm upgrade, helm rollback).
LEMMA TemplateTypes ==
    ASSUME TypeInv, NEW t \in Templates, t # 0, SetTemplate(t), UNCHANGED script, UNCHANGED rs,
           pc' # "sample_pods", pc' = "sample" => t = 1, pc' \in Late \/ t = Bad => pc \in Late
    PROVE  DeployedInv'
<1> DEFINE Deployments == [template : Templates, gen : Nat, observed : Nat, rev : Templates, updated : 0 .. Desired,
              available : 0 .. 2 * Desired + MaxSurge, total : 0 .. 2 * Desired + MaxSurge]
<1>0. DeployedInv /\ Desired' = Desired /\ dep \in Deployments /\ dep.observed <= dep.gen /\ Bad = 2
  BY Sizes DEF TypeInv, DeployedInv, Desired
<1>1. /\ dep' \in Deployments /\ dep'.template = t /\ dep'.observed <= dep'.gen
      /\ dep' = dep \/ dep'.observed # dep'.gen
  <2>1. CASE dep.template = t
    BY <1>0, <2>1 DEF SetTemplate
  <2>2. CASE dep.template # t
    <3>1. PICK g \in Nat : g = dep.gen + 1
      BY <1>0
    <3>2. dep' = [dep EXCEPT !.template = t, !.gen = g]
      BY <2>2, <3>1 DEF SetTemplate
    <3>3. dep' \in Deployments /\ dep'.template = t /\ dep'.gen = g /\ dep'.observed = dep.observed
      BY <1>0, <3>2
    <3>4. dep'.observed <= g /\ dep'.observed # g
      BY <1>0, <3>1, <3>3
    <3> QED BY <3>3, <3>4
  <2> QED BY <2>1, <2>2
<1>2. pc \in Late => rs[1].want = Desired /\ rs[0].want = 0
  BY <1>0 DEF DeployedInv
<1>3. t = 1 /\ dep'.observed = dep'.gen => dep'.updated <= rs[1].active
  BY <1>0, <1>1 DEF DeployedInv
<1>4. pc' \in {"sample", "sample_pods"} => t = 1
  OBVIOUS
<1>5. t = 1 /\ dep'.observed = dep'.gen /\ dep'.updated = Desired /\ dep'.total = Desired => rs[0].want = 0
  BY <1>0, <1>1 DEF DeployedInv
<1> QED BY <1>0, <1>1, <1>2, <1>3, <1>4, <1>5 DEF DeployedInv

\* The bare pod of verify_not_ready_endpoint_exclusion comes and goes.
LEMMA ProbeTypes ==
    ASSUME TypeInv,
           \/ (create_unready_api_pod /\ pc # "await_probe")
           \/ (verify_not_ready_endpoint_exclusion /\ pc # "exclude")
    PROVE  TypeInv'
<1>0. RecordsInv /\ BoundsInv /\ DeployedInv /\ ScriptInv
  BY DEF TypeInv
<1>1. /\ UNCHANGED script /\ UNCHANGED dep /\ UNCHANGED rs /\ UNCHANGED slices
      /\ UNCHANGED sample /\ UNCHANGED prev /\ UNCHANGED helm /\ UNCHANGED upgrade
      /\ UNCHANGED sink /\ UNCHANGED faults /\ UNCHANGED crashes /\ UNCHANGED cleanFaults
      /\ pc \in {"create_probe", "delete_probe", "undo_probe"} /\ (exit' = exit \/ exit' = 1)
      /\ pc' \in IF pc = "undo_probe" THEN {"over"} ELSE {"await_probe", "delay_sink"}
  BY DEF create_unready_api_pod, verify_not_ready_endpoint_exclusion, Goto, Over, still, local, release, Check
<1>2. RecordsInv' /\ \A t \in Templates : Live(t)' = Live(t)
  <2>1. CASE pc = "create_probe"
    <3> DEFINE q == [id |-> nextPod, tmpl |-> Bare, ready |-> FALSE, deleting |-> FALSE]
    <3>1. pods' = pods \cup {q} /\ nextPod' = nextPod + 1
      BY <2>1 DEF create_unready_api_pod, verify_not_ready_endpoint_exclusion
    <3>2. q \in ApiPods /\ q.id = nextPod /\ q.tmpl = Bare /\ ~q.ready /\ ~q.deleting
      BY <1>0 DEF RecordsInv, ApiPods, Bare
    <3> HIDE DEF q
    <3>4. Bare \notin Templates /\ Bare # 0
      BY DEF Bare, Templates
    <3>3. RecordsInv' /\ \A t \in Templates : Live(t)' = IF t = q.tmpl THEN Live(t) + 1 ELSE Live(t)
      BY <1>0, <1>1, <3>1, <3>2, <3>4, OnePodMore
    <3> QED BY <3>2, <3>3, <3>4
  <2>2. CASE pc # "create_probe"
    <3>1. pods' = {p \in pods : p.tmpl # Bare} /\ UNCHANGED nextPod
      BY <1>1, <2>2 DEF create_unready_api_pod, verify_not_ready_endpoint_exclusion
    <3>2. /\ {p \in pods : p.tmpl # Bare} \subseteq pods
          /\ \A p \in pods \ {x \in pods : x.tmpl # Bare} : p.tmpl = Bare
      OBVIOUS
    <3> QED BY <1>0, <1>1, <3>1, <3>2, SomePodsLess
  <2> QED BY <2>1, <2>2
<1>3. BoundsInv'
  <2>1. Desired' = Desired
    BY <1>1 DEF Desired
  <2>2. 0 \in Templates /\ 1 \in Templates /\ 2 \in Templates
    BY Sizes
  <2> QED BY <1>0, <1>1, <1>2, <2>1, <2>2 DEF BoundsInv
<1>4. DeployedInv'
  <2>1. pc \in Late => dep.template # 0 /\ rs[1].want = Desired /\ rs[0].want = 0
    BY <1>0 DEF DeployedInv
  <2>2. pc' \notin {"sample", "sample_pods"} /\ (pc' \in Late => pc \in Late)
    BY <1>1 DEF Late, Released, Complete, RolledBack
  <2> QED BY <1>1, <2>1, <2>2, SamePlace
<1>5. ScriptInv'
  <2>1. exit' \in {0, 1, 2} /\ pc' \in Places /\ pc' \notin Guarded \cup {"emergency"}
    BY <1>0, <1>1 DEF ScriptInv, Places, Guarded
  <2> QED BY <1>0, <1>1, <2>1 DEF ScriptInv
<1> QED BY <1>2, <1>3, <1>4, <1>5 DEF TypeInv

\* The sampling loop of the rolling update: it ends when all pods are new.
LEMMA SampleTypes ==
    ASSUME TypeInv, Sample \/ SamplePods
    PROVE  TypeInv'
<1>0. RecordsInv /\ BoundsInv /\ DeployedInv /\ ScriptInv /\ sample \in Samples
  BY DEF TypeInv, ScriptInv
<1>1. /\ UNCHANGED script /\ UNCHANGED dep /\ UNCHANGED rs /\ UNCHANGED pods /\ UNCHANGED slices
      /\ UNCHANGED nextPod /\ UNCHANGED prev /\ UNCHANGED helm /\ UNCHANGED upgrade /\ UNCHANGED exit
      /\ UNCHANGED sink /\ UNCHANGED faults /\ UNCHANGED crashes /\ UNCHANGED cleanFaults
      /\ pc \in {"sample", "sample_pods"} /\ pc' \in {"sample", "sample_pods", "checks"}
  BY DEF Sample, SamplePods, Goto, still, cluster, release
<1>2. dep.template = 1
  BY <1>0, <1>1 DEF DeployedInv
<1>3. /\ sample' \in Samples /\ Sent(sample')
      /\ (pc' = "sample_pods" /\ sample'.done) \/ pc' = "checks" => rs[1].want = Desired /\ rs[0].want = 0
  <2>1. CASE Sample
    <3>1. PICK s : /\ s \in Requested \/ s = sample
                   /\ sample' = [s EXCEPT !.done = rollout_complete, !.low = @ \/ dep.available < Desired]
      BY <2>1 DEF Sample
    <3>2. s \in Samples /\ Sent(s)
      BY <1>0, <3>1, RequestTypes
    <3>3. PICK d \in BOOLEAN : d = rollout_complete
      BY DEF rollout_complete
    <3>4. PICK l \in BOOLEAN : l = (s.low \/ dep.available < Desired)
      OBVIOUS
    <3>5. sample' = [s EXCEPT !.done = d, !.low = l]
      BY <3>1, <3>3, <3>4
    <3>6. sample' \in Samples /\ sample'.done = d /\ Sent(sample')
      BY <3>2, <3>5 DEF Samples, Sent
    <3>7. rollout_complete => rs[1].want = Desired /\ rs[0].want = 0
      <4> SUFFICES ASSUME rollout_complete PROVE rs[1].want = Desired /\ rs[0].want = 0
        OBVIOUS
      <4>1. dep.observed = dep.gen /\ dep.updated = Desired /\ dep.total = Desired
        BY DEF rollout_complete
      <4>4. rs[0].want = 0
        BY <1>0, <1>2, <4>1 DEF DeployedInv
      <4>2. rs[1].active >= Desired
        BY <1>0, <1>2, <4>1, Sizes DEF DeployedInv, BoundsInv
      <4>3. rs[1].want \in 0 .. Desired /\ Live(1) \in Nat /\ rs[1].active \in Nat
        <5>1. 1 \in Templates /\ Live(1) \in Nat
          BY <1>0, Tallies, Sizes
        <5> QED BY <1>0, <5>1 DEF BoundsInv
      <4> QED BY <1>0, <4>2, <4>3, <4>4, Sizes DEF BoundsInv
    <3>8. (sample').done => rollout_complete
      <4>1. d => rollout_complete
        BY <3>3 DEF rollout_complete
      <4>2. (sample').done = d
        BY <3>6
      <4> QED BY <4>1, <4>2, Zenon
    <3>9. pc' = "sample_pods"
      BY <2>1 DEF Sample, Goto
    <3> QED BY <3>6, <3>7, <3>8, <3>9
  <2>2. CASE SamplePods
    <3>1. /\ sample' = [sample EXCEPT !.hashes = @ \cup {p.tmpl : p \in pods}]
          /\ pc = "sample_pods" /\ (pc' = "sample" \/ (pc' = "checks" /\ sample.done))
      BY <2>2 DEF SamplePods, Goto
    <3>2. PICK h \in SUBSET (0 .. 3) : h = sample.hashes \cup {p.tmpl : p \in pods}
      <4>1. sample.hashes \in SUBSET (0 .. 3)
        BY <1>0 DEF Samples
      <4>2. {p.tmpl : p \in pods} \in SUBSET (0 .. 3)
        BY <1>0 DEF RecordsInv, ApiPods
      <4> QED BY <4>1, <4>2
    <3>3. sample' = [sample EXCEPT !.hashes = h]
      BY <3>1, <3>2
    <3>4. sample' \in Samples /\ Sent(sample')
      <4>1. Sent(sample)
        BY <1>0 DEF ScriptInv
      <4> QED BY <1>0, <3>3, <4>1 DEF Samples, Sent
    <3>5. sample.done => rs[1].want = Desired /\ rs[0].want = 0
      BY <1>0, <3>1 DEF DeployedInv
    <3> QED BY <3>1, <3>4, <3>5
  <2> QED BY <2>1, <2>2
<1>4. RecordsInv' /\ BoundsInv'
  BY <1>1, SameCluster
<1>5. DeployedInv'
  <2>1. pc' \in Late => pc' = "checks"
    BY <1>1 DEF Late, Released, Complete, RolledBack
  <2> QED BY <1>1, <1>2, <1>3, <2>1, SamePlace
<1>6. ScriptInv'
  BY <1>0, <1>1, <1>3 DEF ScriptInv, Places, Guarded
<1> QED BY <1>4, <1>5, <1>6 DEF TypeInv

\* The upgrade of the gate and the patch of the others.
LEMMA PatchTypes ==
    ASSUME TypeInv, Patch \/ (configure_sink_helm /\ pc = "start")
    PROVE  TypeInv'
<1>0. RecordsInv /\ ScriptInv
  BY DEF TypeInv
<1>1. /\ UNCHANGED script /\ UNCHANGED rs /\ UNCHANGED pods /\ UNCHANGED slices
      /\ UNCHANGED nextPod /\ UNCHANGED prev /\ UNCHANGED helm /\ UNCHANGED upgrade
      /\ UNCHANGED sink /\ UNCHANGED faults /\ UNCHANGED crashes /\ UNCHANGED cleanFaults
      /\ pc \in {"start", "patch"}
      /\ \/ Raise /\ UNCHANGED dep /\ UNCHANGED sample
         \/ /\ SetTemplate(1) /\ pc' \in {"sample", "helm_wait"} /\ UNCHANGED exit
            /\ sample' = sample \/ sample' = [NoSample EXCEPT !.hashes = {p.tmpl : p \in pods}]
  BY DEF Patch, configure_sink_helm, Check, Goto, still, local, release
<1>2. CASE Raise /\ UNCHANGED dep /\ UNCHANGED sample
  BY <1>1, <1>2, Checked DEF Places, Late, Complete, Released, RolledBack, Guarded
<1>3. CASE /\ SetTemplate(1) /\ pc' \in {"sample", "helm_wait"} /\ UNCHANGED exit
           /\ sample' = sample \/ sample' = [NoSample EXCEPT !.hashes = {p.tmpl : p \in pods}]
  <2>1. sample' \in Samples /\ Sent(sample')
    <3>1. {p.tmpl : p \in pods} \in SUBSET (0 .. 3)
      BY <1>0 DEF RecordsInv, ApiPods
    <3>2. PICK h \in SUBSET (0 .. 3) : h = {p.tmpl : p \in pods}
      BY <3>1
    <3>3. [NoSample EXCEPT !.hashes = h] \in Samples /\ Sent([NoSample EXCEPT !.hashes = h])
      BY FreshSample
    <3>4. sample \in Samples /\ Sent(sample)
      BY <1>0 DEF ScriptInv
    <3> QED BY <1>3, <3>2, <3>3, <3>4
  <2>2. RecordsInv' /\ BoundsInv'
    BY <1>1, SameCluster
  <2>3. DeployedInv'
    <3>1. pc' \notin Late /\ 1 \in Templates /\ Bad # 1
      BY <1>3, Sizes DEF Late, Complete, Released, RolledBack
    <3> QED BY <1>1, <1>3, <3>1, TemplateTypes
  <2>4. ScriptInv'
    BY <1>0, <1>1, <1>3, <2>1 DEF ScriptInv, Places, Guarded
  <2> QED BY <2>2, <2>3, <2>4 DEF TypeInv
<1> QED BY <1>1, <1>2, <1>3

\* The history grows by a revision.
LEMMA RevisionAdded ==
    ASSUME ScriptInv, NEW r \in Revisions, helm' = Append(helm, r), UNCHANGED prev
    PROVE  helm' \in Seq(Revisions) /\ Len(helm') > 0 /\ prev' \in 0 .. Len(helm')
<1>1. helm \in Seq(Revisions) /\ Len(helm) \in Nat /\ prev \in 0 .. Len(helm)
  BY DEF ScriptInv
<1>2. helm' \in Seq(Revisions) /\ Len(helm') = Len(helm) + 1
  BY <1>1, AppendProperties
<1> QED BY <1>1, <1>2

\* The worker drill: two revisions.
LEMMA WorkerTypes ==
    ASSUME TypeInv, ReleaseInv, verify_worker_shutdown_and_recovery, pc # "drain"
    PROVE  TypeInv'
<1>0. ScriptInv
  BY DEF TypeInv
<1>1. /\ UNCHANGED script /\ UNCHANGED dep /\ UNCHANGED rs /\ UNCHANGED pods /\ UNCHANGED slices
      /\ UNCHANGED nextPod /\ UNCHANGED sample /\ UNCHANGED prev /\ UNCHANGED upgrade /\ UNCHANGED exit
      /\ UNCHANGED faults /\ UNCHANGED crashes /\ UNCHANGED cleanFaults
      /\ pc \in {"delay_sink", "heal_sink"} /\ pc' \in {"drain", "persistence", "previous"}
      /\ \E mode \in {"delay", "accept"} : sink' = mode /\ helm' = Append(helm, Revision(mode, "deployed"))
  BY DEF verify_worker_shutdown_and_recovery, configure_mock_sink, Goto, still, cluster, local
<1>2. RecordsInv' /\ BoundsInv'
  BY <1>1, SameCluster
<1>3. DeployedInv'
  <2>1. dep.template # 0 /\ rs[1].want = Desired /\ rs[0].want = 0
    BY <1>1 DEF TypeInv, DeployedInv, Late, Complete
  <2>2. pc' \notin {"sample", "sample_pods"}
    BY <1>1
  <2> QED BY <1>1, <2>1, <2>2, SamePlace
<1>4. helm' \in Seq(Revisions) /\ Len(helm') > 0 /\ prev' \in 0 .. Len(helm') /\ sink' \in {"accept", "delay"}
  <2>1. PICK mode \in {"delay", "accept"} : sink' = mode /\ helm' = Append(helm, Revision(mode, "deployed"))
    BY <1>1
  <2>2. Revision(mode, "deployed") \in Revisions
    BY DEF Revision, Revisions
  <2> QED BY <1>0, <1>1, <2>1, <2>2, RevisionAdded
<1>5. ScriptInv'
  BY <1>0, <1>1, <1>4 DEF ScriptInv, Places, Guarded
<1> QED BY <1>2, <1>3, <1>5 DEF TypeInv

\* Before the bad release only new pods are wanted.
LEMMA RevisionTypes ==
    ASSUME TypeInv, deployed_revision
    PROVE  TypeInv'
<1>0. BoundsInv /\ DeployedInv /\ ScriptInv
  BY DEF TypeInv
<1>1. /\ UNCHANGED script /\ UNCHANGED dep /\ UNCHANGED rs /\ UNCHANGED pods /\ UNCHANGED slices
      /\ UNCHANGED nextPod /\ UNCHANGED sample /\ UNCHANGED helm /\ UNCHANGED upgrade /\ UNCHANGED sink
      /\ UNCHANGED faults /\ UNCHANGED crashes /\ UNCHANGED cleanFaults
      /\ pc = "previous"
      /\ (prev' = Len(helm) /\ pc' = "start_bad" /\ UNCHANGED exit) \/ (UNCHANGED prev /\ Raise)
  BY DEF deployed_revision, Goto, still, cluster, release
<1>2. rs[1].want = Desired /\ dep.template # 0 /\ rs[0].want = 0
  BY <1>0, <1>1 DEF DeployedInv, Late, Complete
<1>7. /\ pc' \in {"start_bad", "undo_probe", "over"} /\ prev' \in 0 .. Len(helm)
      /\ pc' = "start_bad" => prev' > 0
      /\ exit' \in {0, 1, 2}
  <2>1. CASE prev' = Len(helm) /\ pc' = "start_bad" /\ UNCHANGED exit
    BY <1>0, <2>1 DEF ScriptInv
  <2>2. CASE UNCHANGED prev /\ Raise
    <3>1. pc' \in {"emergency", "undo_probe", "over"} /\ (exit' = exit \/ exit' \in {0, 1})
          /\ (pc' = "emergency" => pc \in Guarded)
      BY <2>2, Raised
    <3> QED BY <1>0, <1>1, <2>2, <3>1 DEF ScriptInv, Guarded
  <2> QED BY <1>1, <2>1, <2>2
<1>8. RecordsInv' /\ BoundsInv'
  BY <1>1, SameCluster
<1>9. DeployedInv'
  BY <1>1, <1>2, <1>7, SamePlace
<1>10. ScriptInv'
  BY <1>0, <1>1, <1>7 DEF ScriptInv, Places, Guarded
<1> QED BY <1>8, <1>9, <1>10 DEF TypeInv

\* The loop beside the bad upgrade.
LEMMA WatchTypes ==
    ASSUME TypeInv, verify_bad_release, pc # "verify_bad"
    PROVE  TypeInv'
<1>0. DeployedInv /\ ScriptInv /\ sample \in Samples /\ Sent(sample)
  BY DEF TypeInv, ScriptInv
<1>1. /\ UNCHANGED script /\ UNCHANGED dep /\ UNCHANGED rs /\ UNCHANGED pods /\ UNCHANGED slices
      /\ UNCHANGED nextPod /\ UNCHANGED prev /\ UNCHANGED helm /\ UNCHANGED sink /\ UNCHANGED exit
      /\ UNCHANGED faults /\ UNCHANGED crashes /\ UNCHANGED cleanFaults
      /\ pc \in {"start_bad", "watch"} /\ pc' \in {"watch", "verify_bad"}
      /\ upgrade' = upgrade \/ upgrade' = "started"
  BY DEF verify_bad_release, Check, Goto, still, cluster, local, release
<1>2. sample' \in Samples /\ Sent(sample')
  <2>1. CASE pc = "start_bad"
    BY <2>1, FreshSample DEF verify_bad_release
  <2>2. CASE UNCHANGED sample
    BY <1>0, <2>2
  <2>3. ASSUME NEW s \in Requested, sample' = [s EXCEPT !.low = @ \/ dep.available < Desired]
        PROVE  sample' \in Samples /\ Sent(sample')
    <3>1. s \in Samples /\ Sent(s)
      BY <1>0, RequestTypes
    <3>2. PICK l \in BOOLEAN : l = (s.low \/ dep.available < Desired)
      OBVIOUS
    <3>3. sample' = [s EXCEPT !.low = l]
      BY <2>3, <3>2
    <3> QED BY <3>1, <3>3 DEF Samples, Sent
  <2> QED BY <1>1, <2>1, <2>2, <2>3 DEF verify_bad_release, Check, local
<1>3. RecordsInv' /\ BoundsInv'
  BY <1>1, SameCluster
<1>4. DeployedInv'
  <2>1. dep.template # 0 /\ rs[1].want = Desired /\ rs[0].want = 0
    BY <1>0, <1>1 DEF DeployedInv, Late, Released
  <2> QED BY <1>1, <2>1, SamePlace
<1>5. ScriptInv'
  BY <1>0, <1>1, <1>2 DEF ScriptInv, Places, Guarded
<1> QED BY <1>3, <1>4, <1>5 DEF TypeInv

\* helm beside the loop, which names the revision it gives up on.
LEMMA HelmTypes ==
    ASSUME TypeInv, ReleaseInv, Helm
    PROVE  TypeInv'
<1>0. ScriptInv /\ DeployedInv
  BY DEF TypeInv
<1>1. /\ UNCHANGED script /\ UNCHANGED rs /\ UNCHANGED pods /\ UNCHANGED slices /\ UNCHANGED nextPod
      /\ UNCHANGED pc /\ UNCHANGED exit /\ UNCHANGED sample /\ UNCHANGED prev /\ UNCHANGED sink
      /\ UNCHANGED faults /\ UNCHANGED crashes /\ UNCHANGED cleanFaults
      /\ upgrade \in {"started", "applied"} /\ upgrade' \in {"applied", "ended"}
  BY DEF Helm, HelmUpgradeApplies, HelmUpgradeTimesOut, cluster, local
<1>2. pc = "watch"
  BY <1>1 DEF ReleaseInv, ControlInv
<1>3. RecordsInv' /\ BoundsInv'
  BY <1>1, SameCluster
<1>4. DeployedInv' /\ helm' \in Seq(Revisions) /\ Len(helm') > 0 /\ prev' \in 0 .. Len(helm')
  <2>1. CASE HelmUpgradeApplies
    <3>1. SetTemplate(Bad) /\ helm' = Append(helm, Revision(sink, "pending"))
      BY <2>1 DEF HelmUpgradeApplies
    <3>2. pc \in Late /\ pc' \notin {"sample_pods", "sample"} /\ Bad \in Templates /\ Bad # 0
      BY <1>1, <1>2, Sizes DEF Late, Released
    <3>3. DeployedInv'
      BY <1>1, <3>1, <3>2, TemplateTypes
    <3>4. Revision(sink, "pending") \in Revisions
      BY <1>0 DEF Revision, Revisions, ScriptInv
    <3> QED BY <1>0, <1>1, <3>1, <3>3, <3>4, RevisionAdded
  <2>2. CASE HelmUpgradeTimesOut
    <3>1. UNCHANGED dep /\ helm' = [helm EXCEPT ![Len(helm)].status = "failed"]
      BY <2>2 DEF HelmUpgradeTimesOut, cluster
    <3>2. DeployedInv'
      <4>1. Desired' = Desired
        BY <1>1 DEF Desired
      <4> QED BY <1>0, <1>1, <3>1, <4>1 DEF DeployedInv
    <3>3. helm \in Seq(Revisions) /\ Len(helm) \in Nat /\ Len(helm) > 0 /\ prev \in 0 .. Len(helm)
      BY <1>0 DEF ScriptInv
    <3>4. Len(helm) \in DOMAIN helm /\ Len(helm) \in 1 .. Len(helm)
      BY <3>3
    <3>5. PICK h \in Revisions : h = helm[Len(helm)]
      BY <3>3, <3>4, ElementOfSeq
    <3>6. PICK r : r = [h EXCEPT !.status = "failed"]
      OBVIOUS
    <3>7. r \in Revisions
      BY <3>5, <3>6 DEF Revisions
    <3>8. helm' = [helm EXCEPT ![Len(helm)] = r]
      BY <3>1, <3>5, <3>6
    <3>9. helm' \in Seq(Revisions) /\ Len(helm') = Len(helm)
      BY <3>3, <3>4, <3>7, <3>8, ExceptSeq
    <3> QED BY <1>1, <3>2, <3>3, <3>9
  <2> QED BY <2>1, <2>2 DEF Helm
<1>5. ScriptInv'
  BY <1>0, <1>1, <1>4 DEF ScriptInv
<1> QED BY <1>3, <1>4, <1>5 DEF TypeInv

\* helm rollback, asked for or in main's finally.
LEMMA RollbackTypes ==
    ASSUME TypeInv, (rollback_release /\ pc = "rollback") \/ Emergency
    PROVE  TypeInv'
<1>0. ScriptInv
  BY DEF TypeInv
<1>1. /\ UNCHANGED script /\ UNCHANGED rs /\ UNCHANGED pods /\ UNCHANGED slices /\ UNCHANGED nextPod
      /\ UNCHANGED sample /\ UNCHANGED prev /\ UNCHANGED upgrade /\ UNCHANGED crashes
      /\ pc \in {"rollback", "emergency"} /\ pc' \in {"rollback_wait", "over"} /\ (exit' = exit \/ exit' = 1)
      /\ \/ Rollback /\ UNCHANGED faults /\ UNCHANGED cleanFaults
         \/ /\ faults < MaxFaults /\ faults' = faults + 1 /\ cleanFaults' = cleanFaults + 1
            /\ UNCHANGED dep /\ UNCHANGED helm /\ UNCHANGED sink
  BY DEF rollback_release, Emergency, Over, Goto, Check, still, cluster, local
<1>2. RecordsInv' /\ BoundsInv'
  BY <1>1, SameCluster
<1>3. pc' \notin {"sample_pods", "sample"} /\ pc \in Late /\ 1 \in Templates /\ Bad # 1
  BY <1>1, Sizes DEF Late, Released
<1>4. faults' \in 0 .. MaxFaults /\ cleanFaults' \in 0 .. faults'
  <2>1. faults \in 0 .. MaxFaults /\ cleanFaults \in 0 .. faults /\ MaxFaults \in Nat
    BY <1>0, RolloutAssumption DEF ScriptInv
  <2> QED BY <1>1, <2>1
<1>5. /\ DeployedInv' /\ helm' \in Seq(Revisions) /\ Len(helm') > 0 /\ prev' \in 0 .. Len(helm')
      /\ sink' \in {"accept", "delay"}
  <2>1. CASE Rollback
    <3>1. /\ SetTemplate(1) /\ helm' = Append(helm, [helm[prev] EXCEPT !.status = "deployed"])
          /\ sink' = helm[prev].sink
      BY <2>1 DEF Rollback
    <3>2. DeployedInv'
      BY <1>1, <1>3, <3>1, TemplateTypes
    <3>3. helm \in Seq(Revisions) /\ prev \in 1 .. Len(helm)
      BY <1>0, <1>1 DEF ScriptInv, Guarded
    <3>4. PICK h \in Revisions : h = helm[prev]
      BY <3>3, ElementOfSeq
    <3>5. [h EXCEPT !.status = "deployed"] \in Revisions /\ h.sink \in {"accept", "delay"}
      BY DEF Revisions
    <3> QED BY <1>0, <1>1, <3>1, <3>2, <3>4, <3>5, RevisionAdded
  <2>2. CASE UNCHANGED dep /\ UNCHANGED helm /\ UNCHANGED sink
    <3>1. DeployedInv'
      <4>1. dep.template # 0 /\ rs[1].want = Desired /\ rs[0].want = 0
        BY <1>3 DEF TypeInv, DeployedInv
      <4> QED BY <1>1, <1>3, <2>2, <4>1, SamePlace
    <3> QED BY <1>0, <1>1, <2>2, <3>1 DEF ScriptInv
  <2> QED BY <1>1, <2>1, <2>2
<1>6. pc' \in Guarded \cup {"emergency"} => prev > 0
  BY <1>0, <1>1 DEF ScriptInv, Guarded
<1>7. ScriptInv'
  BY <1>0, <1>1, <1>4, <1>5, <1>6 DEF ScriptInv, Places, Guarded
<1> QED BY <1>2, <1>5, <1>7 DEF TypeInv

\* A command raises.
LEMMA FailureTypes ==
    ASSUME TypeInv, CommandFails
    PROVE  TypeInv'
<1>0. ScriptInv
  BY DEF TypeInv
<1>1. /\ UNCHANGED script /\ UNCHANGED dep /\ UNCHANGED rs /\ UNCHANGED pods /\ UNCHANGED slices
      /\ UNCHANGED nextPod /\ UNCHANGED sample /\ UNCHANGED prev /\ UNCHANGED helm /\ UNCHANGED sink
      /\ UNCHANGED crashes /\ UNCHANGED cleanFaults /\ Raise
      /\ upgrade' = upgrade \/ upgrade' = "none"
      /\ faults < MaxFaults /\ faults' = faults + 1
  BY DEF CommandFails, cluster, local
<1>2. /\ pc' \in {"emergency", "undo_probe", "over"} /\ (exit' = exit \/ exit' \in {0, 1})
      /\ pc' = "emergency" => pc \in Guarded
  BY <1>1, Raised
<1>3. faults' \in 0 .. MaxFaults /\ cleanFaults' \in 0 .. faults'
  <2>1. faults \in 0 .. MaxFaults /\ cleanFaults \in 0 .. faults /\ MaxFaults \in Nat
    BY <1>0, RolloutAssumption DEF ScriptInv
  <2> QED BY <1>1, <2>1
<1>4. RecordsInv' /\ BoundsInv'
  BY <1>1, SameCluster
<1>5. DeployedInv'
  <2>1. pc' \notin {"sample", "sample_pods"} /\ (pc' \in Late => pc \in Late)
    BY <1>2 DEF Late, Complete, Released, RolledBack, Guarded
  <2>2. pc \in Late => dep.template # 0 /\ rs[1].want = Desired /\ rs[0].want = 0
    BY DEF TypeInv, DeployedInv
  <2> QED BY <1>1, <2>1, <2>2, SamePlace
<1>6. ScriptInv'
  BY <1>0, <1>1, <1>2, <1>3 DEF ScriptInv, Places, Guarded
<1> QED BY <1>4, <1>5, <1>6 DEF TypeInv

\* One step of the scripts, or of what goes on around them.
LEMMA TypeStep ==
    ASSUME TypeInv, ReleaseInv, [Next]_vars
    PROVE  TypeInv'
<1>1. CASE Kubernetes \/ PodFails
  BY <1>1, KubernetesTypes
<1>2. CASE configure_sink_helm \/ read_mock_sink_rollout_objects \/ wait_for_mock_sink_rollout \/ Patch
  BY <1>2, GateTypes, PatchTypes
<1>3. CASE \/ verify_rollout_contract \/ verify_normal_rollout \/ verify_redis_persistence
           \/ create_unready_api_pod \/ verify_not_ready_endpoint_exclusion
  BY <1>3, CheckTypes, ProbeTypes
<1>4. CASE Sample \/ SamplePods \/ deployed_revision
  BY <1>4, SampleTypes, RevisionTypes
<1>5. CASE verify_worker_shutdown_and_recovery \/ verify_bad_release
  BY <1>5, CheckTypes, WorkerTypes, WatchTypes
<1>6. CASE rollback_release \/ Emergency
  BY <1>6, CheckTypes, RollbackTypes
<1>7. CASE Helm \/ CommandFails
  BY <1>7, HelmTypes, FailureTypes
<1>8. CASE UNCHANGED vars
  <2>1. /\ UNCHANGED script /\ UNCHANGED dep /\ UNCHANGED rs /\ UNCHANGED pods /\ UNCHANGED slices
        /\ UNCHANGED nextPod /\ UNCHANGED sample /\ UNCHANGED prev /\ UNCHANGED helm /\ UNCHANGED upgrade
        /\ UNCHANGED sink /\ UNCHANGED faults /\ UNCHANGED crashes /\ UNCHANGED cleanFaults
        /\ UNCHANGED pc /\ UNCHANGED exit
    BY <1>8 DEF vars, cluster, local, release
  <2>2. RecordsInv' /\ BoundsInv' /\ Desired' = Desired
    BY <2>1, SameCluster DEF Desired
  <2> QED BY <2>1, <2>2 DEF TypeInv, DeployedInv, ScriptInv
<1> QED BY <1>1, <1>2, <1>3, <1>4, <1>5, <1>6, <1>7, <1>8 DEF Next, Script

\* A release that was deployed and has settled.
LEMMA InitTypes == Init => TypeInv
<1> SUFFICES ASSUME Init PROVE TypeInv
  OBVIOUS
<1>0. Desired \in {1, 2} /\ MaxFaults \in Nat /\ MaxCrashes \in Nat
  BY Sizes, RolloutAssumption
<1> DEFINE P(i) == [id |-> i, tmpl |-> 0, ready |-> TRUE, deleting |-> FALSE]
<1>1. pods = {P(i) : i \in 1 .. Desired} /\ nextPod = Desired + 1
  BY DEF Init
<1>2. \A i \in 1 .. Desired : /\ P(i) \in ApiPods /\ P(i).id = i /\ P(i).tmpl = 0 /\ P(i).ready
                              /\ ~P(i).deleting
  BY <1>0 DEF ApiPods
<1> HIDE DEF P
<1>3. pods \in SUBSET ApiPods /\ \A p \in pods : p.id \in 1 .. Desired /\ p = P(p.id) /\ p.tmpl = 0 /\ ~p.deleting
  BY <1>1, <1>2
<1>4. IsFiniteSet(pods) /\ Cardinality(pods) = Desired
  <2>1. IsFiniteSet({P(1)}) /\ Cardinality({P(1)}) = 1
    BY FS_Singleton
  <2>2. CASE Desired = 1
    <3>1. 1 .. Desired = {1}
      BY <2>2
    <3>2. pods = {P(1)}
      BY <1>1, <3>1
    <3> QED BY <2>1, <2>2, <3>2
  <2>3. CASE Desired = 2
    <3>1. 1 .. Desired = {1, 2}
      BY <2>3
    <3>2. pods = {P(1)} \cup {P(2)}
      BY <1>1, <3>1
    <3>3. P(2) \notin {P(1)}
      BY <1>2, <2>3
    <3>4. IsFiniteSet({P(1)} \cup {P(2)}) /\ Cardinality({P(1)} \cup {P(2)}) = Cardinality({P(1)}) + 1
      BY <2>1, <3>3, FS_AddElement
    <3> QED BY <2>1, <2>3, <3>2, <3>4
  <2> QED BY <1>0, <2>2, <2>3
<1>5. RecordsInv
  <2>1. slices \in SUBSET [pod : Nat, ready : BOOLEAN] /\ \A e \in slices : e.pod < nextPod
    <3> SUFFICES ASSUME NEW e \in slices PROVE e \in [pod : Nat, ready : BOOLEAN] /\ e.pod < nextPod
      OBVIOUS
    <3>1. PICK p \in pods : e = [pod |-> p.id, ready |-> p.ready /\ ~p.deleting]
      BY DEF Init, Endpoints
    <3> QED BY <1>0, <1>1, <1>3, <3>1
  <2>2. \A p \in pods : p.id < nextPod /\ PodKept(p)
    BY <1>0, <1>1, <1>3 DEF PodKept, Bad, Bare
  <2>3. nextPod \in Nat
    BY <1>0, <1>1
  <2>4. \A p, q \in pods : p.id = q.id => p = q
    BY <1>3
  <2> QED BY <1>3, <1>4, <2>1, <2>2, <2>3, <2>4 DEF RecordsInv
<1>6. Live(0) = Desired /\ Live(1) = 0 /\ Live(2) = 0
  <2>1. Active(0) = pods /\ Active(1) = {} /\ Active(2) = {}
    BY <1>3 DEF Active
  <2> QED BY <1>4, <2>1, FS_EmptySet DEF Live
<1>7. /\ rs \in [Templates -> [want : 0 .. Desired, active : 0 .. Desired, available : 0 .. Desired]]
      /\ rs[0].want = Desired /\ rs[0].active = Desired /\ rs[0].available = Desired
      /\ rs[1].want = 0 /\ rs[1].active = 0 /\ rs[1].available = 0
      /\ rs[2].want = 0 /\ rs[2].active = 0 /\ rs[2].available = 0
  BY <1>0 DEF Init, Templates
<1>8. BoundsInv
  <2>1. \A t \in Templates : rs[t].available <= rs[t].active /\ Live(t) <= Desired
    BY <1>0, <1>6, <1>7, Sizes
  <2> QED BY <1>0, <1>6, <1>7, <2>1, Sizes DEF BoundsInv
<1>9. DeployedInv
  <2>1. /\ dep \in [template : Templates, gen : Nat, observed : Nat, rev : Templates, updated : 0 .. Desired,
                    available : 0 .. 2 * Desired + MaxSurge, total : 0 .. 2 * Desired + MaxSurge]
        /\ dep.template = 0 /\ dep.gen = 1 /\ dep.observed = 1 /\ pc = "start"
    BY <1>0, Sizes DEF Init
  <2> QED BY <1>7, <2>1 DEF DeployedInv, Late, Complete, Released, RolledBack, Bad
<1>10. ScriptInv
  <2>1. Revision("accept", "deployed") \in Revisions
    BY DEF Revision, Revisions
  <2>2. helm \in Seq(Revisions) /\ Len(helm) = 1 /\ prev = 0
    BY <2>1 DEF Init
  <2> QED BY <1>0, <2>2, FreshSample DEF Init, ScriptInv, Places, Guarded
<1> QED BY <1>5, <1>8, <1>9, <1>10 DEF TypeInv

(***************************************************************************)
(* Where requests go while no pod fails.                                   *)
(***************************************************************************)
\* The endpoints stay, and the new pods that answer go on answering.
LEMMA ServingKept ==
    ASSUME ServingInv, UNCHANGED script, UNCHANGED slices, UNCHANGED crashes,
           \A p \in pods : p.tmpl = 1 /\ p.ready => \E q \in pods' : q.id = p.id /\ q.tmpl = 1 /\ q.ready
    PROVE  ServingInv'
<1>1. Desired' = Desired
  BY DEF Desired
<1> QED BY <1>1 DEF ServingInv

\* Steps that leave the pods and the endpoints alone.
LEMMA ServingSame ==
    ASSUME ServingInv, StartInv, UNCHANGED script, UNCHANGED slices, UNCHANGED crashes, UNCHANGED pods,
           dep'.template = 0 => dep.template = 0
    PROVE  ServingInv' /\ StartInv'
BY ServingKept DEF StartInv

\* A pod is added, or one is replaced by another record of it.
LEMMA ServingScale ==
    ASSUME TypeInv, ServingInv, StartInv, NEW t \in Templates, ReplicaSetScale(t)
    PROVE  ServingInv' /\ StartInv'
<1>0. RecordsInv /\ BoundsInv /\ DeployedInv
  BY DEF TypeInv
<1>1. UNCHANGED script /\ UNCHANGED slices /\ UNCHANGED crashes /\ UNCHANGED dep
  BY DEF ReplicaSetScale, scriptVars
<1>2. Live(t) \in Nat /\ rs[t].want \in Nat /\ t \in {0, 1, 2}
  <2>1. Live(t) \in Nat
    BY <1>0, Tallies
  <2>2. rs[t].want \in 0 .. Desired
    BY <1>0 DEF BoundsInv
  <2> QED BY <2>1, <2>2, Sizes
<1>3. CASE Live(t) < rs[t].want
           /\ pods' = pods \cup {[id |-> nextPod, tmpl |-> t, ready |-> FALSE, deleting |-> FALSE]}
  <2>1. dep.template # 0
    <3> SUFFICES ASSUME dep.template = 0 PROVE FALSE
      OBVIOUS
    <3>1. rs[0].want <= Live(0) /\ rs[1].want = 0 /\ rs[2].want = 0
      BY <1>0 DEF BoundsInv, DeployedInv
    <3> QED BY <1>2, <1>3, <3>1
  <2>2. pods \subseteq pods'
    BY <1>3
  <2>3. ServingInv'
    BY <1>1, <2>2, ServingKept
  <2> QED BY <1>1, <2>1, <2>3 DEF StartInv
<1>4. CASE Live(t) > rs[t].want
           /\ \E p \in Active(t) : pods' = (pods \ {p}) \cup {[p EXCEPT !.deleting = TRUE]}
  <2>1. PICK p \in Active(t) : pods' = (pods \ {p}) \cup {[p EXCEPT !.deleting = TRUE]}
    BY <1>4
  <2>2. p \in pods /\ p \in ApiPods /\ p.tmpl = t
    BY <1>0 DEF Active, RecordsInv
  <2>3. t # 1
    BY <1>0, <1>2, <1>4 DEF BoundsInv
  <2>4. [p EXCEPT !.deleting = TRUE].tmpl = t
    BY <2>2 DEF ApiPods
  <2>5. \A q \in pods : q.tmpl = 1 => q \in pods'
    BY <2>1, <2>2, <2>3
  <2>6. ServingInv'
    BY <1>1, <2>5, ServingKept
  <2>7. StartInv'
    BY <1>1, <2>1, <2>2, <2>4 DEF StartInv
  <2> QED BY <2>6, <2>7
<1> QED BY <1>3, <1>4 DEF ReplicaSetScale, Live

\* Readiness, and pods that are gone.
LEMMA ServingPods ==
    ASSUME TypeInv, ServingInv, StartInv, PodReady \/ PodGone \/ PodFails
    PROVE  ServingInv' /\ StartInv'
<1>0. RecordsInv /\ ScriptInv
  BY DEF TypeInv
<1>1. UNCHANGED script /\ UNCHANGED slices /\ UNCHANGED dep
  BY DEF PodReady, PodGone, PodFails, scriptVars
<1>2. CASE PodReady
  <2>1. PICK p \in NotReadyPods : pods' = (pods \ {p}) \cup {[p EXCEPT !.ready = TRUE]}
    BY <1>2 DEF PodReady
  <2>2. p \in pods /\ p \in ApiPods /\ ~p.ready
    BY <1>0 DEF NotReadyPods, RecordsInv
  <2>3. [p EXCEPT !.ready = TRUE].tmpl = p.tmpl
    BY <2>2 DEF ApiPods
  <2>4. \A q \in pods : q.ready => q \in pods'
    BY <2>1, <2>2
  <2>5. ServingInv'
    <3>1. UNCHANGED crashes
      BY <1>2 DEF PodReady
    <3> QED BY <1>1, <2>4, <3>1, ServingKept
  <2>6. StartInv'
    BY <1>1, <2>1, <2>2, <2>3 DEF StartInv
  <2> QED BY <2>5, <2>6
<1>3. CASE PodGone
  <2>1. PICK p \in pods : p.deleting /\ pods' = pods \ {p}
    BY <1>3 DEF PodGone
  <2>2. \A q \in pods : q.tmpl = 1 => q \in pods'
    BY <1>0, <2>1 DEF RecordsInv, PodKept
  <2>3. ServingInv'
    <3>1. UNCHANGED crashes
      BY <1>3 DEF PodGone
    <3> QED BY <1>1, <2>2, <3>1, ServingKept
  <2> QED BY <1>1, <2>1, <2>3 DEF StartInv
<1>4. CASE PodFails
  <2>1. PICK p \in ReadyPods : pods' = (pods \ {p}) \cup {[p EXCEPT !.ready = FALSE]}
    BY <1>4 DEF PodFails
  <2>2. p \in pods /\ p \in ApiPods
    BY <1>0 DEF ReadyPods, RecordsInv
  <2>3. [p EXCEPT !.ready = FALSE].tmpl = p.tmpl
    BY <2>2 DEF ApiPods
  <2>4. StartInv'
    BY <1>1, <2>1, <2>2, <2>3 DEF StartInv
  <2>5. crashes' # 0
    <3>1. crashes \in 0 .. MaxCrashes /\ crashes' = crashes + 1
      BY <1>0, <1>4 DEF ScriptInv, PodFails
    <3> QED BY <3>1
  <2> QED BY <2>4, <2>5 DEF ServingInv
<1> QED BY <1>2, <1>3, <1>4

\* The endpoints are the pods: those of the bad release and the bare pod are
\* never ready.
LEMMA ServingEndpoints ==
    ASSUME TypeInv, StartInv, EndpointSync
    PROVE  ServingInv' /\ StartInv'
<1>0. RecordsInv
  BY DEF TypeInv
<1>1. UNCHANGED script /\ UNCHANGED pods /\ UNCHANGED dep
  BY DEF EndpointSync, scriptVars
<1>2. Desired' = Desired
  BY <1>1 DEF Desired
<1>3. ASSUME NEW e \in slices', e.ready
      PROVE  e.pod \in 1 .. Desired \/ \E p \in pods : p.id = e.pod /\ p.tmpl = 1 /\ p.ready
  <2>1. PICK p \in pods : e = [pod |-> p.id, ready |-> p.ready /\ ~p.deleting]
    BY DEF EndpointSync, Endpoints
  <2>2. p.ready /\ e.pod = p.id
    <3>1. e.ready = (p.ready /\ ~p.deleting) /\ e.pod = p.id
      BY <2>1
    <3> QED BY <1>3, <3>1, Zenon
  <2>3. PodKept(p) /\ p.tmpl \in 0 .. 3
    BY <1>0 DEF RecordsInv, ApiPods
  <2>4. p.tmpl = 0 \/ p.tmpl = 1
    BY <2>2, <2>3 DEF PodKept, Bad, Bare
  <2>5. p.tmpl = 0 => e.pod \in 1 .. Desired
    BY <2>2, <2>3 DEF PodKept
  <2> QED BY <2>2, <2>4, <2>5
<1> QED BY <1>1, <1>2, <1>3 DEF ServingInv, StartInv

\* The bare pod comes after the rolling update.
LEMMA ServingProbe ==
    ASSUME TypeInv, ServingInv, StartInv, create_unready_api_pod \/ verify_not_ready_endpoint_exclusion
    PROVE  ServingInv' /\ StartInv'
<1>0. DeployedInv
  BY DEF TypeInv
<1>1. UNCHANGED script /\ UNCHANGED slices /\ UNCHANGED dep /\ UNCHANGED crashes
  BY DEF create_unready_api_pod, verify_not_ready_endpoint_exclusion, Check, still, cluster
<1>2. CASE UNCHANGED pods
  BY <1>1, <1>2, ServingSame
<1>3. CASE pc = "create_probe" /\ pods \subseteq pods'
  <2>1. dep.template # 0
    BY <1>0, <1>3 DEF DeployedInv, Late, Complete
  <2>2. ServingInv'
    BY <1>1, <1>3, ServingKept
  <2> QED BY <1>1, <2>1, <2>2 DEF StartInv
<1>4. CASE pods' = {p \in pods : p.tmpl # Bare}
  <2>1. \A p \in pods : p.tmpl = 1 => p \in pods'
    BY <1>4 DEF Bare
  <2>2. ServingInv'
    BY <1>1, <2>1, ServingKept
  <2> QED BY <1>1, <1>4, <2>2 DEF StartInv
<1> QED BY <1>2, <1>3, <1>4 DEF create_unready_api_pod, verify_not_ready_endpoint_exclusion, Check, cluster

\* No other step touches the pods, and none goes back to the old template.
LEMMA ServingStep ==
    ASSUME TypeInv, ServingInv, StartInv, [Next]_vars
    PROVE  ServingInv' /\ StartInv'
<1>0. dep \in [template : Templates, gen : Nat, observed : Nat, rev : Templates, updated : 0 .. Desired,
               available : 0 .. 2 * Desired + MaxSurge, total : 0 .. 2 * Desired + MaxSurge]
  BY DEF TypeInv, DeployedInv
<1>1. ASSUME NEW t, t # 0, SetTemplate(t) PROVE dep'.template # 0
  BY <1>0, <1>1, Templated
<1>2. CASE DeploymentSync
  <2>1. PICK a, b, c, d, e : dep' = [dep EXCEPT !.observed = a, !.rev = b, !.updated = c,
                                                !.available = d, !.total = e]
    BY <1>2 DEF DeploymentSync
  <2>2. dep'.template = dep.template
    BY <1>0, <2>1
  <2> QED BY <1>2, <2>2, ServingSame DEF DeploymentSync, scriptVars
<1>3. ASSUME NEW t \in Templates, ReplicaSetStatus(t) PROVE ServingInv' /\ StartInv'
  BY <1>3, ServingSame DEF ReplicaSetStatus, scriptVars
<1>4. CASE Kubernetes \/ PodFails
  BY <1>2, <1>3, <1>4, ServingScale, ServingPods, ServingEndpoints DEF Kubernetes
<1>5. CASE configure_sink_helm \/ Patch
  <2>1. /\ UNCHANGED script /\ UNCHANGED slices /\ UNCHANGED crashes /\ UNCHANGED pods
        /\ UNCHANGED dep \/ SetTemplate(1)
    BY <1>5 DEF configure_sink_helm, Patch, Check, still, cluster
  <2> QED BY <1>1, <2>1, ServingSame
<1>6. CASE rollback_release \/ Emergency \/ Helm
  <2>1. /\ UNCHANGED script /\ UNCHANGED slices /\ UNCHANGED crashes /\ UNCHANGED pods
        /\ UNCHANGED dep \/ SetTemplate(1) \/ SetTemplate(Bad)
    BY <1>6 DEF rollback_release, Emergency, Helm, HelmUpgradeApplies, HelmUpgradeTimesOut, Rollback, Check,
                still, cluster
  <2> QED BY <1>1, <2>1, ServingSame, Sizes
<1>7. CASE \/ read_mock_sink_rollout_objects \/ wait_for_mock_sink_rollout \/ verify_rollout_contract
           \/ Sample \/ SamplePods \/ verify_normal_rollout
           \/ verify_worker_shutdown_and_recovery \/ verify_redis_persistence \/ deployed_revision
           \/ verify_bad_release \/ CommandFails \/ UNCHANGED vars
  <2>1. /\ UNCHANGED script /\ UNCHANGED slices /\ UNCHANGED crashes /\ UNCHANGED pods /\ UNCHANGED dep
    BY <1>7 DEF read_mock_sink_rollout_objects, wait_for_mock_sink_rollout, Read, verify_rollout_contract,
                Sample, SamplePods, verify_normal_rollout, verify_worker_shutdown_and_recovery,
                configure_mock_sink, verify_redis_persistence, deployed_revision, verify_bad_release,
                CommandFails, Check, still, cluster, vars
  <2> QED BY <2>1, ServingSame
<1>8. CASE create_unready_api_pod \/ verify_not_ready_endpoint_exclusion
  BY <1>8, ServingProbe
<1> QED BY <1>4, <1>5, <1>6, <1>7, <1>8 DEF Next, Script

\* The pods of the release that was deployed, and endpoints for them.
LEMMA InitServing == Init => ServingInv /\ StartInv
<1> SUFFICES ASSUME Init PROVE ServingInv /\ StartInv
  OBVIOUS
<1>1. \A p \in pods : p.id \in 1 .. Desired /\ p.tmpl = 0
  BY DEF Init
<1>2. \A e \in slices : \E p \in pods : e.pod = p.id
  BY DEF Init, Endpoints
<1> QED BY <1>1, <1>2 DEF ServingInv, StartInv

\* The invariants hold throughout, however the reads of the scripts fall
\* between the steps of the controllers and whichever commands fail.
THEOREM Invariance == Spec => []IInv
<1>1. Init => IInv
  BY ReleaseInvariance, InitGateInv, InitHealthy, InitTypes, InitServing DEF IInv
<1>2. IInv /\ [Next]_vars => IInv'
  <2> SUFFICES ASSUME IInv, [Next]_vars PROVE IInv'
    OBVIOUS
  <2>0. /\ ReleaseInv /\ GateInv /\ HealthyInv
        /\ ReleaseInv' /\ HealthyInv' /\ TypeInv' /\ ServingInv' /\ StartInv'
    BY ReleaseInvariance, HealthyStep, TypeStep, ServingStep DEF IInv
  <2>1. CASE script # "gate"
    <3>1. script' # "gate"
      BY <2>1, ScriptStable
    <3> QED BY <2>0, <3>1 DEF IInv, GateInv
  <2>2. CASE script = "gate"
    <3>1. CASE Kubernetes \/ PodFails
      BY <2>0, <2>2, <3>1, DeploymentGateStep, PodGateStep, EndpointGateStep, ScaleGateStep, StatusGateStep
         DEF Kubernetes, IInv
    <3>2. CASE Script \/ Helm
      BY <2>0, <2>2, <3>2, OtherSteps, ConfigureGateStep, ReadGateStep, JudgeGateStep DEF IInv
    <3>3. CASE CommandFails
      BY <2>0, <2>2, <3>3, FailGateStep DEF IInv
    <3>4. CASE UNCHANGED vars
      <4>1. GateInv'
        BY <2>0, <3>4 DEF vars, cluster, local, GateInv, PodsInv, ReplicaSetInv, DeploymentInv, SlicesInv,
           SeenInv, Active, OldIsOut, SeenDeployment, SeenReplicaSets, SeenPods, SeenSlices
      <4> QED BY <2>0, <4>1 DEF IInv
    <3> QED BY <3>1, <3>2, <3>3, <3>4 DEF Next
  <2> QED BY <2>1, <2>2
<1> QED BY <1>1, <1>2, PTL DEF Spec

\* The type invariant of Rollout, whatever fails and however the controllers
\* lag: a ReplicaSet wants and reports at most the desired pods, and a status
\* speaks of at most two sets of pods and the surge.
THEOREM TypeCorrect == Spec => []TypeOK
<1>1. IInv => TypeOK
  <2> SUFFICES ASSUME IInv PROVE TypeOK
    OBVIOUS
  <2>0. RecordsInv /\ BoundsInv /\ DeployedInv /\ ScriptInv
    BY DEF IInv, TypeInv
  <2>1. script \in Scripts
    BY DEF IInv, ReleaseInv, ControlInv
  <2>2. /\ dep.template \in Templates /\ dep.rev \in Templates /\ dep.observed \in 0 .. dep.gen
        /\ {dep.updated, dep.available, dep.total} \subseteq 0 .. 2 * Desired + MaxSurge
    BY <2>0, Sizes DEF DeployedInv
  <2>3. \A t \in Templates : /\ rs[t].want \in 0 .. Desired
                             /\ rs[t].available \in 0 .. rs[t].active
                             /\ rs[t].active \in 0 .. Desired
    BY <2>0, Sizes DEF BoundsInv
  <2>4. /\ \A p \in pods : p.id < nextPod /\ p.tmpl \in Templates \cup {Bare}
        /\ \A e \in slices : e.pod < nextPod
    BY <2>0 DEF RecordsInv, ApiPods, Templates, Bare
  <2>5. sample.misses \in 0 .. 2 /\ sample.hashes \subseteq Templates \cup {Bare}
    BY <2>0 DEF ScriptInv, Samples, Templates, Bare
  <2>6. sample.sent \in Nat /\ (sample.sent <= RequestSamples \/ sample.sent <= BadSamples)
    BY <2>0 DEF ScriptInv, Samples, Sent
  <2> QED BY <2>0, <2>1, <2>2, <2>3, <2>4, <2>5, <2>6 DEF TypeOK, ScriptInv, Places
<1> QED BY <1>1, Invariance, PTL

\* Whatever fails after it was started, the bad release is gone unless the
\* emergency rollback itself failed (main of rollout_smoke.py).
THEOREM BadReleasesAreRolledBack == Spec => []BadReleaseIsGone
<1>1. IInv => BadReleaseIsGone
  BY DEF IInv, ReleaseInv, BadInv, BadReleaseIsGone
<1> QED BY <1>1, Invariance, PTL

\* Once the gate has passed, the Service reaches only pods of the new template
\* (evaluate_mock_sink_rollout).
THEOREM TheGateIsSound == Spec => []ConvergedMeansCurrent
<1>1. IInv => ConvergedMeansCurrent
  <2> SUFFICES ASSUME IInv, script = "gate", pc = "over", exit = 0
               PROVE  \A e \in slices : e.ready => \E p \in pods : p.id = e.pod /\ p.tmpl = dep.template
    BY DEF ConvergedMeansCurrent
  <2>1. SlicesInv /\ OldIsOut /\ dep.template = 1
    BY DEF IInv, GateInv, SeenInv, DeploymentInv
  <2> QED BY <2>1 DEF SlicesInv, OldIsOut
<1> QED BY <1>1, Invariance, PTL

\* The pods there are, and what is wanted of the release a bad one would
\* replace (maxSurge 1, maxUnavailable 0; verify_bad_release).
PodsBounded ==
    /\ \A t \in Templates : Cardinality(Active(t)) <= Desired
    /\ Cardinality(Active(Bad)) <= MaxSurge /\ rs[Bad].available = 0
    /\ dep.template = Bad => rs[1].want = Desired

\* Whatever fails, no ReplicaSet has more pods than desired; that of the bad
\* release never gets past the surge nor reports a pod available, and the
\* release it would replace is never asked to make room for it.
THEOREM PodsAreBounded == Spec => []PodsBounded
<1>1. IInv => PodsBounded
  <2> SUFFICES ASSUME IInv PROVE PodsBounded
    OBVIOUS
  <2>1. BoundsInv /\ DeployedInv
    BY DEF IInv, TypeInv
  <2> QED BY <2>1, Sizes DEF BoundsInv, DeployedInv, PodsBounded, Live
<1> QED BY <1>1, Invariance, PTL

\* A script in which no command and no pod failed raises, if at all, over its
\* requests, and only pods of the replaced template can have lost them; every
\* other check passes, however its reads fall between the steps of the
\* controllers (rollout_smoke.py, kubernetes_resiliency.py, configure_sink_helm).
THEOREM HealthyRolloutsPass == Spec => []HealthyRolloutPasses
<1>1. IInv => HealthyRolloutPasses
  <2> SUFFICES ASSUME IInv, faults = 0, crashes = 0
               PROVE  /\ StaleEndpoints \subseteq 1 .. Desired
                      /\ pc = "over" => exit = 0 \/ (script = "rollout_smoke" /\ Interrupted)
    BY DEF HealthyRolloutPasses
  <2>1. pc = "over" => exit = 0 \/ (script = "rollout_smoke" /\ Interrupted)
    BY DEF IInv, HealthyInv
  <2>2. ASSUME NEW e \in slices, e.ready, ~\E p \in ReadyPods : p.id = e.pod PROVE e.pod \in 1 .. Desired
    <3> SUFFICES ASSUME NEW p \in pods, p.id = e.pod, p.tmpl = 1, p.ready PROVE FALSE
      BY <2>2 DEF IInv, ServingInv
    <3>1. ~p.deleting
      BY DEF IInv, TypeInv, RecordsInv, PodKept
    <3> QED BY <2>2, <3>1 DEF ReadyPods
  <2>3. StaleEndpoints \subseteq 1 .. Desired
    BY <2>2 DEF StaleEndpoints
  <2> QED BY <2>1, <2>3
<1> QED BY <1>1, Invariance, PTL
=============================================================================
