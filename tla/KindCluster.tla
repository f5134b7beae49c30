---------------------------- MODULE KindCluster -----------------------------
(***************************************************************************)
(* The project's kind cluster as its scripts use it: scripts/kind_runtime  *)
(* .py and the operations of scripts/kind_e2e.py that change the release.  *)
(*                                                                         *)
(* A state k of the cluster is a record:                                   *)
(*   present   the cluster exists                                          *)
(*   release   the values of the Helm release                              *)
(*   live      what the API server holds: kubectl changes it, Helm puts it *)
(*             back to the values it renders                               *)
(*   event     the one event the script watches                            *)
(* Every operator below maps a state to the state after the command.       *)
(***************************************************************************)
EXTENDS Naturals

SinkModes == {"accept", "server_error", "delay", "post_receipt_delay"}
Profiles == {"none", "plain", "e2e", "normal"}
EventStates == {"none", "accepted", "retrying", "inflight", "orphaned", "delivered",
                "dead_letter"}

Values(profile, sink, workers) == [profile |-> profile, sink |-> sink, workers |-> workers]
NoRelease == Values("none", "accept", 0)
Normal == Values("normal", "accept", 1)
NormalLive == [sink |-> "accept", workers |-> 1, redis |-> 1]
NothingLive == [sink |-> "accept", workers |-> 0, redis |-> 0]

NoCluster == [present |-> FALSE, release |-> NoRelease, live |-> NothingLive, event |-> "none"]

ClusterTypeOK(k) ==
    /\ k.present \in BOOLEAN
    /\ k.release.profile \in Profiles /\ k.release.sink \in SinkModes /\ k.release.workers \in 0 .. 1
    /\ k.live.sink \in SinkModes /\ k.live.workers \in 0 .. 1 /\ k.live.redis \in 0 .. 1
    /\ k.event \in EventStates

\* helm upgrade: the three-way merge leaves no trace of kubectl's changes.
Helm(k, values) ==
    [k EXCEPT !.release = values,
              !.live = [sink |-> values.sink, workers |-> values.workers, redis |-> 1]]

cluster_up(k) == IF k.present THEN k ELSE [NoCluster EXCEPT !.present = TRUE]
cluster_down(k) == NoCluster

\* deploy and deploy_e2e_release install from the chart's defaults.
deploy(k) == Helm(k, Values("plain", "accept", 1))
deploy_e2e_release(k) == Helm(k, Values("e2e", "accept", 1))

\* --reuse-values, with the sink and, if given, the worker replicas replaced.
configure_sink_helm(k, mode, workers) ==
    Helm(k, [k.release EXCEPT !.sink = mode, !.workers = workers])

\* Mutant: the restoration reuses the values of the release.
RestoreReusingValues(k) ==
    Helm(k, [k.release EXCEPT !.profile = "normal", !.sink = "accept"])

restore_normal_release(k) == Helm(k, Normal)

release_exists(k) == k.release.profile # "none"

scale_worker(k, n) == [k EXCEPT !.live.workers = n]

scale_redis(k, n) == [k EXCEPT !.live.redis = n]

set_sink_env(k) == [k EXCEPT !.live.sink = "accept"]

\* What the API and a delivery need.
Accepts(k) == k.live.redis = 1
Delivers(k) == Accepts(k) /\ k.live.workers = 1 /\ k.live.sink = "accept"
Attempts(k, modes) == Accepts(k) /\ k.live.workers = 1 /\ k.live.sink \in modes

\* retry.maximumAttempts is 20 in the release of the drills and the chart's 5 in
\* the others; 5 attempts are over in seconds, 20 outlast every wait of a drill.
Exhausts(k) ==
    k.event = "retrying" /\ Attempts(k, {"server_error"}) /\ k.release.profile # "e2e"
=============================================================================
