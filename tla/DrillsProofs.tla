---------------------------- MODULE DrillsProofs ----------------------------
(***************************************************************************)
(* Proofs about Drills, for every bound on failing commands.               *)
(***************************************************************************)
EXTENDS Drills, TLAPS

(***************************************************************************)
(* The way a body takes while nothing has raised: in which state of the    *)
(* cluster it comes to its i-th step.                                      *)
(***************************************************************************)
Clusters == [present : BOOLEAN,
             release : [profile : Profiles, sink : SinkModes, workers : 0 .. 1],
             live : [sink : SinkModes, workers : 0 .. 1, redis : 0 .. 1],
             event : EventStates]

LiveIs(c, mode, workers, redis) ==
    c.live.sink = mode /\ c.live.workers = workers /\ c.live.redis = redis
IsNormal(c) == c.release = Normal /\ c.live = NormalLive
Rests(c) == c.event \in {"none", "delivered"}
Ended(c) == c.event \in {"delivered", "dead_letter"}

E2EAt(c, i) ==
    i > 1 =>
        /\ LiveIs(c, IF i \in 9 .. 11 THEN "server_error" ELSE IF i \in 14 .. 17 THEN "delay" ELSE "accept",
                  IF i \in 17 .. 18 THEN 0 ELSE 1, 1)
        /\ c.release.workers = 1
        /\ i \in 11 .. 12 => c.event = "retrying"
        /\ i \in 17 .. 19 => c.event = "orphaned"
        /\ i > 19 => c.event = "delivered"

DownstreamAt(c, i) ==
    i > 1 =>
        /\ LiveIs(c, IF i \in 10 .. 12 THEN "server_error" ELSE "accept", 1, 1)
        /\ c.release.workers = 1
        /\ i \in 11 .. 13 => c.event = "retrying"
        /\ i > 13 => c.event = "delivered"

RedisAt(c, i) ==
    /\ Rests(c)
    /\ i > 1 => LiveIs(c, "accept", 1, IF i \in 10 .. 11 THEN 0 ELSE 1)

WorkerAt(c, i) ==
    i > 1 =>
        /\ LiveIs(c, IF i \in 8 .. 15 THEN "post_receipt_delay" ELSE "accept",
                  IF i \in 13 .. 16 THEN 0 ELSE 1, 1)
        /\ i < 16 => c.release.workers = 1
        /\ i \in 14 .. 17 => c.event = "orphaned"
        /\ i > 17 => c.event = "delivered"

SmokeAt(c, i) ==
    /\ i \in 1 .. 15 => DownstreamAt(c, i)
    /\ i \in 16 .. 29 => RedisAt(c, i - 15)
    /\ i \in 30 .. 49 => WorkerAt(c, i - 29)
    /\ i > 49 => IsNormal(c) /\ c.event = "delivered"

\* smoke of observability_runtime.py takes the cluster as it finds it.
Initial(c) == c \in {NoCluster, [NoCluster EXCEPT !.present = TRUE],
                     Helm([NoCluster EXCEPT !.present = TRUE], Normal)}

ObservabilityAt(c, i) ==
    /\ i < 8 => Initial(c)
    /\ i > 1 => c.present
    /\ i > 3 => LiveIs(c, IF i \in 8 .. 10 THEN "server_error" ELSE "accept", 1, 1)
    /\ i \in 9 .. 11 => c.event \in {"retrying", "dead_letter"}
    /\ i > 10 => IsNormal(c)
    /\ i > 11 => c.event \in {"delivered", "dead_letter"}

FramedAt(c, i) == c.present /\ (i > 1 => release_exists(c))

StateAt(s, c, i) ==
    /\ s = "kind_e2e" => E2EAt(c, i)
    /\ s = "downstream" => DownstreamAt(c, i)
    /\ s = "redis" => RedisAt(c, i)
    /\ s = "worker" => WorkerAt(c, i)
    /\ s = "smoke" => SmokeAt(c, i)
    /\ s = "observability" => ObservabilityAt(c, i)
    /\ s # "observability" => FramedAt(c, i)

(***************************************************************************)
(* The inductive invariant.                                                *)
(***************************************************************************)
Ending == {"unwind", "except", "replicas", "restore", "down", "done"}

TypeInv == TypeOK /\ k \in Clusters

\* Before the body nothing has happened.
StartInv ==
    /\ phase \in {"main", "up"} =>
         Initial(k) /\ raised = "none" /\ at = 1 /\ ~restored /\ ~forward /\ passed
    /\ phase = "main" => ~owned
    /\ phase = "up" => owned /\ ~k.present
    /\ owned => Framed
    /\ phase # "main" /\ Framed /\ ~owned => k.present
    /\ phase = "body" /\ Framed => k.present

\* The body while nothing has raised; the way out of an exception stays in the
\* body of observability_runtime only to heal the sink.
BodyInv ==
    /\ phase = "body" => at \in 1 .. Len(Body(script))
    /\ phase = "body" /\ raised = "none" => StateAt(script, k, at)
    /\ phase = "body" /\ raised # "none" /\ ~Framed => Step = "heal_alerts"
    /\ restored => /\ script = "smoke" /\ (k.present => IsNormal(k))
                   /\ phase = "body" => Step = "verify_final_runtime"

\* A body that nothing raised from ended in a state from which main's finally
\* reaches the normal configuration, if it was not there already.
EndInv ==
    /\ raised = "none" /\ phase \in Ending =>
         /\ phase # "except"
         /\ Framed => Rests(k)
         /\ Framed /\ (phase # "done" \/ ~owned) => k.present /\ release_exists(k)
         /\ ~Framed => IsNormal(k) /\ Ended(k)
    /\ phase \in Ending \ {"unwind"} => ~forward

\* What a restoration in which no command failed leaves.
CleanInv ==
    cleanFaults = 0 =>
        /\ (phase \in {"down", "done"} \/ (phase \in Ending /\ ~Framed)) /\ k.present /\ release_exists(k)
             => IsNormal(k)
        /\ phase = "done" /\ owned => ~k.present

\* Who fails, and what the verdict says of it.
VerdictInv ==
    /\ exit # Running => phase = "done"
    /\ exit = 0 => passed /\ raised # "uncaught"
    /\ phase \in Ending \ {"unwind", "except"} /\ passed => raised # "caught"
    /\ cleanFaults # 0 /\ passed /\ raised = "none" => exit = 1
    /\ faults = 0 /\ raised = "none" => passed /\ exit # 1
    /\ faults = 0 /\ raised # "none" => phase # "body" /\ ~Framed /\ ~release_exists(k)

CoreInv == TypeInv /\ StartInv /\ BodyInv /\ EndInv /\ CleanInv /\ VerdictInv

\* Where a drill makes the sink fail, and with which release.
Drilling(s, i) == (s \in {"kind_e2e", "downstream"} /\ i > 2) \/ (s = "smoke" /\ i \in 3 .. 15)

\* A drill lets the sink fail only under the release with many attempts.
SinkInv ==
    /\ phase = "body" /\ Drilling(script, at) => k.release.profile = "e2e"
    /\ Framed /\ k.live.sink = "server_error" => k.release.profile = "e2e"

IInv == CoreInv /\ SinkInv

(***************************************************************************)
(* The commands.                                                           *)
(***************************************************************************)
Releases == [profile : Profiles, sink : SinkModes, workers : 0 .. 1]

\* helm upgrade sets what it renders and leaves the rest (kind_runtime.py).
LEMMA HelmSets ==
    ASSUME NEW c \in Clusters, NEW v \in Releases
    PROVE  /\ Helm(c, v) \in Clusters
           /\ Helm(c, v).release = v /\ LiveIs(Helm(c, v), v.sink, v.workers, 1)
           /\ Helm(c, v).live = [sink |-> v.sink, workers |-> v.workers, redis |-> 1]
           /\ Helm(c, v).present = c.present /\ Helm(c, v).event = c.event
<1>1. PICK l : l = [sink |-> v.sink, workers |-> v.workers, redis |-> 1]
  OBVIOUS
<1>2. /\ l \in [sink : SinkModes, workers : 0 .. 1, redis : 0 .. 1]
      /\ l.sink = v.sink /\ l.workers = v.workers /\ l.redis = 1
  BY <1>1 DEF Releases
<1>3. Helm(c, v) = [c EXCEPT !.release = v, !.live = l]
  BY <1>1 DEF Helm
<1> QED BY <1>1, <1>2, <1>3 DEF Clusters, Releases, LiveIs

\* configure_sink_helm reuses the profile.
LEMMA ConfigureSets ==
    ASSUME NEW c \in Clusters, NEW mode \in SinkModes, NEW n \in 0 .. 1
    PROVE  LET d == configure_sink_helm(c, mode, n) IN
           /\ d \in Clusters /\ d.release.profile = c.release.profile
           /\ d.release.workers = n /\ LiveIs(d, mode, n, 1)
           /\ d.present = c.present /\ d.event = c.event
<1>1. PICK v : v = [c.release EXCEPT !.sink = mode, !.workers = n]
  OBVIOUS
<1>2. v \in Releases /\ v.profile = c.release.profile /\ v.sink = mode /\ v.workers = n
  BY <1>1 DEF Clusters, Releases
<1>3. configure_sink_helm(c, mode, n) = Helm(c, v)
  BY <1>1 DEF configure_sink_helm
<1>4. PICK d : d = Helm(c, v)
  OBVIOUS
<1>5. /\ d \in Clusters /\ d.release = v /\ LiveIs(d, mode, n, 1)
      /\ d.present = c.present /\ d.event = c.event
  BY <1>2, <1>4, HelmSets
<1> QED BY <1>2, <1>3, <1>4, <1>5

\* The kubectl commands change one field of what is live.
LEMMA KubectlSets ==
    ASSUME NEW c \in Clusters, NEW n \in 0 .. 1
    PROVE  /\ scale_worker(c, n) \in Clusters /\ scale_redis(c, n) \in Clusters
           /\ set_sink_env(c) \in Clusters
           /\ LiveIs(scale_worker(c, n), c.live.sink, n, c.live.redis)
           /\ LiveIs(scale_redis(c, n), c.live.sink, c.live.workers, n)
           /\ LiveIs(set_sink_env(c), "accept", c.live.workers, c.live.redis)
           /\ \A d \in {scale_worker(c, n), scale_redis(c, n), set_sink_env(c)} :
                 d.present = c.present /\ d.release = c.release /\ d.event = c.event
BY DEF scale_worker, scale_redis, set_sink_env, Clusters, LiveIs, SinkModes

\* What the script waits for is known of the event only.
LEMMA EventSets ==
    ASSUME NEW c \in Clusters, NEW e \in EventStates
    PROVE  LET d == [c EXCEPT !.event = e] IN
           /\ d \in Clusters /\ d.present = c.present /\ d.release = c.release
           /\ d.live = c.live /\ d.event = e
BY DEF Clusters

(***************************************************************************)
(* The steps.                                                              *)
(***************************************************************************)
\* The command behind each step that is not only a check.
LEMMA Commands ==
    /\ Effect("deploy") = Helm(k, Values("plain", "accept", 1))
    /\ Effect("deploy_e2e_release") = Helm(k, Values("e2e", "accept", 1))
    /\ Effect("restore_normal") = Helm(k, Normal)
    /\ Effect("inject_alerts") = Helm(k, Values("normal", "server_error", 1))
    /\ Effect("heal_alerts") = Helm(k, Normal)
    /\ \A s \in {"fail_sink", "inject_5xx"} :
          Effect(s) = configure_sink_helm(k, "server_error", k.release.workers)
    /\ \A s \in {"accept_sink", "heal_5xx"} :
          Effect(s) = configure_sink_helm(k, "accept", k.release.workers)
    /\ Effect("slow_sink") = configure_sink_helm(k, "delay", k.release.workers)
    /\ Effect("delay_receipts") = configure_sink_helm(k, "post_receipt_delay", k.release.workers)
    /\ Effect("heal_sink") = configure_sink_helm(k, "accept", 0)
    /\ Effect("accept_by_env") = set_sink_env(k)
    /\ Effect("kill_worker") = [scale_worker(k, 0) EXCEPT !.event = "orphaned"]
    /\ Effect("scale_down") = scale_worker(k, 0)
    /\ \A s \in {"replace_worker", "start_worker"} : Effect(s) = scale_worker(k, 1)
    /\ Effect("stop_redis") = scale_redis(k, 0) /\ Effect("start_redis") = scale_redis(k, 1)
    /\ Effect("post_event") = [k EXCEPT !.event = "accepted"]
    /\ Effect("await_delivering") = [k EXCEPT !.event = "inflight"]
    /\ Effect("remove_worker") = [k EXCEPT !.event = "orphaned"]
    /\ \A s \in {"await_retry", "post_failing", "post_failing_alerts"} :
          Effect(s) = [k EXCEPT !.event = "retrying"]
    /\ Effect("await_delivered") = [k EXCEPT !.event = "delivered"]
    /\ \E e \in {"delivered", "dead_letter"} : Effect("await_terminal") = [k EXCEPT !.event = e]
BY DEF Effect, wait_for_terminal_status, deploy, deploy_e2e_release, restore_normal_release, Normal, alerts_drill,
       verify_retry_recovery, verify_pending_recovery, downstream_drill, redis_drill, worker_drill

Commanding == {"deploy", "deploy_e2e_release", "restore_normal", "inject_alerts", "heal_alerts",
    "fail_sink", "inject_5xx", "accept_sink", "heal_5xx", "slow_sink", "delay_receipts", "heal_sink",
    "accept_by_env", "kill_worker", "scale_down", "replace_worker", "start_worker", "stop_redis",
    "start_redis", "post_event", "await_delivering", "remove_worker", "await_retry", "post_failing",
    "post_failing_alerts", "await_delivered", "await_terminal"}

\* The others leave the cluster alone.
LEMMA Checks == \A s : s \notin Commanding => Effect(s) = k
BY DEF Effect, Commanding

\* No step takes the cluster or the release away.
LEMMA EffectKeeps ==
    ASSUME k \in Clusters, NEW s
    PROVE  /\ Effect(s) \in Clusters /\ Effect(s).present = k.present
           /\ release_exists(k) => release_exists(Effect(s))
<1>0. /\ Values("plain", "accept", 1) \in Releases /\ Values("e2e", "accept", 1) \in Releases
      /\ Normal \in Releases /\ Values("normal", "server_error", 1) \in Releases
      /\ k.release.workers \in 0 .. 1 /\ {"accept", "server_error", "delay", "post_receipt_delay"} = SinkModes
  BY DEF Values, Normal, Releases, Profiles, SinkModes, Clusters
<1>1. CASE s \in {"deploy", "deploy_e2e_release", "restore_normal", "inject_alerts", "heal_alerts"}
  <2>1. PICK v \in Releases : Effect(s) = Helm(k, v) /\ v.profile # "none"
    BY <1>0, <1>1, Commands DEF Values, Normal
  <2>2. PICK d : d = Helm(k, v)
    OBVIOUS
  <2>3. d \in Clusters /\ d.present = k.present /\ d.release = v
    BY <2>2, HelmSets
  <2> QED BY <2>1, <2>2, <2>3 DEF release_exists
<1>2. CASE s \in {"fail_sink", "inject_5xx", "accept_sink", "heal_5xx", "slow_sink", "delay_receipts",
                  "heal_sink"}
  <2>1. PICK mode \in SinkModes, n \in 0 .. 1 : Effect(s) = configure_sink_helm(k, mode, n)
    BY <1>0, <1>2, Commands
  <2>2. PICK d : d = configure_sink_helm(k, mode, n)
    OBVIOUS
  <2>3. d \in Clusters /\ d.present = k.present /\ d.release.profile = k.release.profile
    BY <2>2, ConfigureSets
  <2> QED BY <2>1, <2>2, <2>3 DEF release_exists
<1>3. CASE s \in {"accept_by_env", "scale_down", "replace_worker", "start_worker", "stop_redis", "start_redis"}
  <2>1. PICK n \in 0 .. 1 : Effect(s) \in {scale_worker(k, n), scale_redis(k, n), set_sink_env(k)}
    BY <1>3, Commands
  <2>2. PICK d : d = Effect(s)
    OBVIOUS
  <2>3. d \in Clusters /\ d.present = k.present /\ d.release = k.release
    BY <2>1, <2>2, KubectlSets
  <2> QED BY <2>2, <2>3 DEF release_exists
<1>4. CASE s \in {"post_event", "await_delivering", "remove_worker", "await_retry", "post_failing",
                  "post_failing_alerts", "await_delivered", "await_terminal", "kill_worker"}
  <2>1. PICK c \in Clusters, e \in EventStates : /\ Effect(s) = [c EXCEPT !.event = e]
                                               /\ c.present = k.present /\ c.release = k.release
    <3>1. CASE s = "kill_worker"
      <4>0. PICK n \in 0 .. 1 : n = 0
        OBVIOUS
      <4>1. PICK c : c = scale_worker(k, n)
        OBVIOUS
      <4>2. c \in Clusters /\ c.present = k.present /\ c.release = k.release
        BY <4>1, KubectlSets
      <4> QED BY <3>1, <4>0, <4>1, <4>2, Commands DEF EventStates
    <3>2. CASE s # "kill_worker"
      BY <1>4, <3>2, Commands DEF EventStates
    <3> QED BY <3>1, <3>2
  <2>2. PICK d : d = [c EXCEPT !.event = e]
    OBVIOUS
  <2>3. d \in Clusters /\ d.present = c.present /\ d.release = c.release
    BY <2>2, EventSets
  <2> QED BY <2>1, <2>2, <2>3 DEF release_exists
<1>5. CASE s \notin Commanding
  BY <1>5, Checks
<1> QED BY <1>1, <1>2, <1>3, <1>4, <1>5 DEF Commanding

\* What a step leaves in the cluster, as far as a later step asks.
LEMMA Outcomes ==
    ASSUME k \in Clusters
    PROVE  /\ \A s \in {"deploy", "deploy_e2e_release", "restore_normal", "heal_alerts"} :
                /\ LiveIs(Effect(s), "accept", 1, 1) /\ Effect(s).release.workers = 1
                /\ Effect(s).event = k.event
           /\ \A s \in {"restore_normal", "heal_alerts"} : IsNormal(Effect(s))
           /\ LiveIs(Effect("inject_alerts"), "server_error", 1, 1)
           /\ \A s \in {"fail_sink", "inject_5xx", "accept_sink", "heal_5xx", "slow_sink", "delay_receipts"} :
                /\ Effect(s).release.workers = k.release.workers /\ Effect(s).event = k.event
                /\ Effect(s).live.workers = k.release.workers /\ Effect(s).live.redis = 1
           /\ \A s \in {"fail_sink", "inject_5xx"} : Effect(s).live.sink = "server_error"
           /\ \A s \in {"accept_sink", "heal_5xx"} : Effect(s).live.sink = "accept"
           /\ Effect("slow_sink").live.sink = "delay"
           /\ Effect("delay_receipts").live.sink = "post_receipt_delay"
           /\ LiveIs(Effect("heal_sink"), "accept", 0, 1) /\ Effect("heal_sink").event = k.event
           /\ \A s \in {"accept_by_env", "scale_down", "replace_worker", "start_worker",
                        "stop_redis", "start_redis"} :
                Effect(s).release = k.release /\ Effect(s).event = k.event
           /\ LiveIs(Effect("accept_by_env"), "accept", k.live.workers, k.live.redis)
           /\ \A s \in {"scale_down", "kill_worker"} :
                LiveIs(Effect(s), k.live.sink, 0, k.live.redis)
           /\ Effect("kill_worker").event = "orphaned" /\ Effect("kill_worker").release = k.release
           /\ \A s \in {"replace_worker", "start_worker"} :
                LiveIs(Effect(s), k.live.sink, 1, k.live.redis)
           /\ LiveIs(Effect("stop_redis"), k.live.sink, k.live.workers, 0)
           /\ LiveIs(Effect("start_redis"), k.live.sink, k.live.workers, 1)
           /\ \A s \in {"post_event", "await_delivering", "remove_worker", "await_retry", "post_failing",
                        "post_failing_alerts", "await_delivered", "await_terminal"} :
                Effect(s).release = k.release /\ Effect(s).live = k.live
           /\ Effect("remove_worker").event = "orphaned"
           /\ \A s \in {"await_retry", "post_failing", "post_failing_alerts"} : Effect(s).event = "retrying"
           /\ Effect("await_delivered").event = "delivered"
           /\ Effect("await_terminal").event \in {"delivered", "dead_letter"}
<1>0. /\ Values("plain", "accept", 1) \in Releases /\ Values("e2e", "accept", 1) \in Releases
      /\ Normal \in Releases /\ Values("normal", "server_error", 1) \in Releases
      /\ k.release.workers \in 0 .. 1 /\ {"accept", "server_error", "delay", "post_receipt_delay"} = SinkModes
  BY DEF Values, Normal, Releases, Profiles, SinkModes, Clusters
<1>1. ASSUME NEW s \in {"deploy", "deploy_e2e_release", "restore_normal", "heal_alerts"}
      PROVE  /\ LiveIs(Effect(s), "accept", 1, 1) /\ Effect(s).release.workers = 1
             /\ Effect(s).event = k.event
             /\ s \in {"restore_normal", "heal_alerts"} => IsNormal(Effect(s))
  <2>1. PICK v \in Releases : /\ Effect(s) = Helm(k, v) /\ v.sink = "accept" /\ v.workers = 1
                              /\ s \in {"restore_normal", "heal_alerts"} => v = Normal
    BY <1>0, <1>1, Commands DEF Values, Normal
  <2>2. PICK d : d = Helm(k, v)
    OBVIOUS
  <2>3. /\ LiveIs(d, "accept", 1, 1) /\ d.event = k.event /\ d.release = v
        /\ d.live = [sink |-> "accept", workers |-> 1, redis |-> 1]
    BY <2>1, <2>2, HelmSets
  <2> QED BY <2>1, <2>2, <2>3 DEF IsNormal, NormalLive
<1>2. LiveIs(Effect("inject_alerts"), "server_error", 1, 1)
  <2>1. PICK v \in Releases : Effect("inject_alerts") = Helm(k, v) /\ v.sink = "server_error" /\ v.workers = 1
    BY <1>0, Commands DEF Values
  <2> QED BY <2>1, HelmSets
<1>3. ASSUME NEW s, NEW mode \in SinkModes, NEW n \in 0 .. 1, Effect(s) = configure_sink_helm(k, mode, n)
      PROVE  LiveIs(Effect(s), mode, n, 1) /\ Effect(s).release.workers = n /\ Effect(s).event = k.event
  <2>1. PICK d : d = configure_sink_helm(k, mode, n)
    OBVIOUS
  <2>2. LiveIs(d, mode, n, 1) /\ d.release.workers = n /\ d.event = k.event
    BY <2>1, ConfigureSets
  <2> QED BY <1>3, <2>1, <2>2
<1>4. ASSUME NEW n \in 0 .. 1, NEW d \in {scale_worker(k, n), scale_redis(k, n), set_sink_env(k)}
      PROVE  d.release = k.release /\ d.event = k.event
  BY <1>4, KubectlSets
<1>5. ASSUME NEW s, NEW e \in EventStates, Effect(s) = [k EXCEPT !.event = e]
      PROVE  Effect(s).release = k.release /\ Effect(s).live = k.live /\ Effect(s).event = e
  <2>1. PICK d : d = [k EXCEPT !.event = e]
    OBVIOUS
  <2>2. d.release = k.release /\ d.live = k.live /\ d.event = e
    BY <2>1, EventSets
  <2> QED BY <1>5, <2>1, <2>2
<1>6. /\ LiveIs(Effect("kill_worker"), k.live.sink, 0, k.live.redis)
      /\ Effect("kill_worker").event = "orphaned" /\ Effect("kill_worker").release = k.release
  <2>0. PICK n \in 0 .. 1 : n = 0
    OBVIOUS
  <2>1. PICK c : c = scale_worker(k, n)
    OBVIOUS
  <2>2. c \in Clusters /\ LiveIs(c, k.live.sink, 0, k.live.redis) /\ c.release = k.release
    BY <2>0, <2>1, KubectlSets
  <2>3. PICK d : d = [c EXCEPT !.event = "orphaned"]
    OBVIOUS
  <2>4. d.live = c.live /\ d.event = "orphaned" /\ d.release = c.release
    BY <2>2, <2>3, EventSets DEF EventStates
  <2>5. Effect("kill_worker") = d
    BY <2>0, <2>1, <2>3, Commands
  <2> QED BY <2>2, <2>4, <2>5 DEF LiveIs
<1>7. \A s \in {"fail_sink", "inject_5xx", "accept_sink", "heal_5xx", "slow_sink", "delay_receipts"} :
         /\ Effect(s).release.workers = k.release.workers /\ Effect(s).event = k.event
         /\ Effect(s).live.workers = k.release.workers /\ Effect(s).live.redis = 1
         /\ s \in {"fail_sink", "inject_5xx"} => Effect(s).live.sink = "server_error"
         /\ s \in {"accept_sink", "heal_5xx"} => Effect(s).live.sink = "accept"
         /\ s = "slow_sink" => Effect(s).live.sink = "delay"
         /\ s = "delay_receipts" => Effect(s).live.sink = "post_receipt_delay"
  <2> TAKE s \in {"fail_sink", "inject_5xx", "accept_sink", "heal_5xx", "slow_sink", "delay_receipts"}
  <2>1. PICK mode \in SinkModes, n \in 0 .. 1 :
          /\ Effect(s) = configure_sink_helm(k, mode, n) /\ n = k.release.workers
          /\ s \in {"fail_sink", "inject_5xx"} => mode = "server_error"
          /\ s \in {"accept_sink", "heal_5xx"} => mode = "accept"
          /\ s = "slow_sink" => mode = "delay"
          /\ s = "delay_receipts" => mode = "post_receipt_delay"
    BY <1>0, Commands
  <2>2. LiveIs(Effect(s), mode, n, 1) /\ Effect(s).release.workers = n /\ Effect(s).event = k.event
    BY <1>3, <2>1
  <2> QED BY <2>1, <2>2 DEF LiveIs
<1>8. LiveIs(Effect("heal_sink"), "accept", 0, 1) /\ Effect("heal_sink").event = k.event
  BY <1>0, <1>3, Commands
<1>9. /\ \A s \in {"accept_by_env", "scale_down", "replace_worker", "start_worker",
                    "stop_redis", "start_redis"} :
            Effect(s).release = k.release /\ Effect(s).event = k.event
      /\ LiveIs(Effect("accept_by_env"), "accept", k.live.workers, k.live.redis)
      /\ LiveIs(Effect("scale_down"), k.live.sink, 0, k.live.redis)
      /\ \A s \in {"replace_worker", "start_worker"} :
            LiveIs(Effect(s), k.live.sink, 1, k.live.redis)
      /\ LiveIs(Effect("stop_redis"), k.live.sink, k.live.workers, 0)
      /\ LiveIs(Effect("start_redis"), k.live.sink, k.live.workers, 1)
  BY <1>4, Commands, KubectlSets
<1>10. /\ \A s \in {"post_event", "await_delivering", "remove_worker", "await_retry", "post_failing",
                     "post_failing_alerts", "await_delivered", "await_terminal"} :
             Effect(s).release = k.release /\ Effect(s).live = k.live
       /\ Effect("remove_worker").event = "orphaned"
       /\ \A s \in {"await_retry", "post_failing", "post_failing_alerts"} : Effect(s).event = "retrying"
       /\ Effect("await_delivered").event = "delivered"
       /\ Effect("await_terminal").event \in {"delivered", "dead_letter"}
  BY <1>5, Commands DEF EventStates
<1> QED BY <1>1, <1>2, <1>6, <1>7, <1>8, <1>9, <1>10

(***************************************************************************)
(* The bodies, step by step.                                               *)
(***************************************************************************)
\* The steps of downstream_5xx, one by one.
LEMMA DownstreamSteps ==
    /\ Downstream[1] = "deploy" /\ Downstream[2] = "deploy_e2e_release"
    /\ Downstream[3] = "helm_test" /\ Downstream[4] = "wait_api_ready"
    /\ Downstream[5] = "verify_links" /\ Downstream[6] = "port_forward"
    /\ Downstream[7] = "wait_for_targets" /\ Downstream[8] = "verify_normal"
    /\ Downstream[9] = "inject_5xx" /\ Downstream[10] = "post_failing"
    /\ Downstream[11] = "observe_5xx" /\ Downstream[12] = "heal_5xx"
    /\ Downstream[13] = "await_delivered" /\ Downstream[14] = "verify_normal"
    /\ Downstream[15] = "close_forward"
BY DEF Downstream, Prelude

\* The steps of redis_outage, one by one.
LEMMA RedisSteps ==
    /\ Redis[1] = "deploy" /\ Redis[2] = "deploy_e2e_release" /\ Redis[3] = "helm_test"
    /\ Redis[4] = "wait_api_ready" /\ Redis[5] = "verify_links" /\ Redis[6] = "verify_normal"
    /\ Redis[7] = "port_forward" /\ Redis[8] = "wait_for_targets" /\ Redis[9] = "stop_redis"
    /\ Redis[10] = "observe_outage" /\ Redis[11] = "start_redis" /\ Redis[12] = "verify_kept"
    /\ Redis[13] = "verify_normal" /\ Redis[14] = "close_forward"
BY DEF Redis, Prelude

\* The steps of worker_stop, one by one.
LEMMA WorkerSteps ==
    /\ Worker[1] = "deploy" /\ Worker[2] = "deploy_e2e_release" /\ Worker[3] = "helm_test"
    /\ Worker[4] = "wait_api_ready" /\ Worker[5] = "verify_links"
    /\ Worker[6] = "verify_normal" /\ Worker[7] = "delay_receipts"
    /\ Worker[8] = "port_forward" /\ Worker[9] = "wait_for_targets"
    /\ Worker[10] = "post_event" /\ Worker[11] = "await_delivering"
    /\ Worker[12] = "scale_down" /\ Worker[13] = "remove_worker" /\ Worker[14] = "observe_loss"
    /\ Worker[15] = "heal_sink" /\ Worker[16] = "start_worker"
    /\ Worker[17] = "await_delivered" /\ Worker[18] = "verify_normal"
    /\ Worker[19] = "close_forward"
BY DEF Worker, WorkerBusy, WorkerLost, WorkerReplaced, Prelude

\* The steps of kind_e2e, one by one.
LEMMA E2ESteps ==
    /\ E2E[1] = "deploy" /\ E2E[2] = "deploy_e2e_release" /\ E2E[3] = "helm_test"
    /\ E2E[4] = "wait_api_ready" /\ E2E[5] = "port_forward" /\ E2E[6] = "wait_for_targets"
    /\ E2E[7] = "verify_normal" /\ E2E[8] = "fail_sink" /\ E2E[9] = "post_event"
    /\ E2E[10] = "await_retry" /\ E2E[11] = "accept_sink" /\ E2E[12] = "await_delivered"
    /\ E2E[13] = "slow_sink" /\ E2E[14] = "post_event" /\ E2E[15] = "await_delivering"
    /\ E2E[16] = "kill_worker" /\ E2E[17] = "accept_by_env" /\ E2E[18] = "replace_worker"
    /\ E2E[19] = "await_delivered" /\ E2E[20] = "verify_final_state"
    /\ E2E[21] = "close_forward"
BY DEF E2E, Prelude

\* incident_smoke is the three drills in a row and the two steps of the restoration.
LEMMA SmokeSteps ==
    /\ \A i \in 1 .. 15 : Smoke[i] = Downstream[i]
    /\ \A i \in 16 .. 29 : Smoke[i] = Redis[i - 15]
    /\ \A i \in 30 .. 48 : Smoke[i] = Worker[i - 29]
    /\ Smoke[49] = "restore_normal" /\ Smoke[50] = "verify_final_runtime"
<1> USE DEF Smoke, Downstream, Redis, Worker, WorkerBusy, WorkerLost, WorkerReplaced, Prelude
<1>1. \A i \in 1 .. 15 : Smoke[i] = Downstream[i]
  OBVIOUS
<1>2. \A i \in 16 .. 29 : Smoke[i] = Redis[i - 15]
  OBVIOUS
<1>3. \A i \in 30 .. 48 : Smoke[i] = Worker[i - 29]
  OBVIOUS
<1>4. Smoke[49] = "restore_normal" /\ Smoke[50] = "verify_final_runtime"
  OBVIOUS
<1> QED BY ONLY <1>1, <1>2, <1>3, <1>4

\* The steps of observability_smoke, one by one.
LEMMA ObservabilityBody ==
    LET b == smoke_base \o smoke_alerts IN
       /\ b[1] = "require_cluster" /\ b[2] = "port_forward"
       /\ b[3] = "wait_for_targets" /\ b[4] = "verify_normal"
       /\ b[5] = "close_forward" /\ b[6] = "port_forward"
       /\ b[7] = "inject_alerts" /\ b[8] = "post_failing_alerts"
       /\ b[9] = "observe_alerts" /\ b[10] = "heal_alerts"
       /\ b[11] = "await_terminal" /\ b[12] = "verify_normal"
       /\ b[13] = "close_forward"
BY DEF smoke_base, smoke_alerts

\* downstream_5xx: the sink fails from the injection to the healing.
LEMMA DownstreamRun ==
    ASSUME k \in Clusters, NEW i \in 1 .. 15, DownstreamAt(k, i)
    PROVE  Permits(Downstream[i]) /\ DownstreamAt(Effect(Downstream[i]), i + 1)
<1>0. \/ i = 1 \/ i = 2 \/ i = 3 \/ i = 4 \/ i = 5 \/ i = 6 \/ i = 7 \/ i = 8 \/ i = 9
      \/ i = 10 \/ i = 11 \/ i = 12 \/ i = 13 \/ i = 14 \/ i = 15
  OBVIOUS
<1> USE Outcomes, Checks, DownstreamSteps DEF DownstreamAt, LiveIs, Permits, Commanding,
        Accepts, Delivers, Attempts, wait_for_targets, verify_normal_and_idempotent_delivery
<1>1. CASE i = 1
  BY <1>1
<1>2. CASE i = 2
  BY <1>2
<1>3. CASE i = 3
  BY <1>3
<1>4. CASE i = 4
  BY <1>4
<1>5. CASE i = 5
  BY <1>5
<1>6. CASE i = 6
  BY <1>6
<1>7. CASE i = 7
  BY <1>7
<1>8. CASE i = 8
  BY <1>8
<1>9. CASE i = 9
  BY <1>9
<1>10. CASE i = 10
  BY <1>10
<1>11. CASE i = 11
  BY <1>11
<1>12. CASE i = 12
  BY <1>12
<1>13. CASE i = 13
  BY <1>13
<1>14. CASE i = 14
  BY <1>14
<1>15. CASE i = 15
  BY <1>15
<1> QED BY ONLY <1>0, <1>1, <1>2, <1>3, <1>4, <1>5, <1>6, <1>7, <1>8, <1>9, <1>10, <1>11, <1>12, <1>13,
        <1>14, <1>15

\* redis_outage: Redis is away between two scalings, and no event is watched.
LEMMA RedisRun ==
    ASSUME k \in Clusters, NEW i \in 1 .. 14, RedisAt(k, i)
    PROVE  Permits(Redis[i]) /\ RedisAt(Effect(Redis[i]), i + 1)
<1>0. \/ i = 1 \/ i = 2 \/ i = 3 \/ i = 4 \/ i = 5 \/ i = 6 \/ i = 7 \/ i = 8 \/ i = 9
      \/ i = 10 \/ i = 11 \/ i = 12 \/ i = 13 \/ i = 14
  OBVIOUS
<1> USE Outcomes, Checks, RedisSteps DEF RedisAt, LiveIs, Permits, Commanding,
        Accepts, Delivers, Attempts, wait_for_targets, verify_normal_and_idempotent_delivery, Rests
<1>1. CASE i = 1
  BY <1>1
<1>2. CASE i = 2
  BY <1>2
<1>3. CASE i = 3
  BY <1>3
<1>4. CASE i = 4
  BY <1>4
<1>5. CASE i = 5
  BY <1>5
<1>6. CASE i = 6
  BY <1>6
<1>7. CASE i = 7
  BY <1>7
<1>8. CASE i = 8
  BY <1>8
<1>9. CASE i = 9
  BY <1>9
<1>10. CASE i = 10
  BY <1>10
<1>11. CASE i = 11
  BY <1>11
<1>12. CASE i = 12
  BY <1>12
<1>13. CASE i = 13
  BY <1>13
<1>14. CASE i = 14
  BY <1>14
<1> QED BY ONLY <1>0, <1>1, <1>2, <1>3, <1>4, <1>5, <1>6, <1>7, <1>8, <1>9, <1>10, <1>11, <1>12, <1>13,
        <1>14

\* worker_stop: the worker is lost with an event in flight and comes back after
\* the sink was healed with its replicas held at zero.
LEMMA WorkerRun ==
    ASSUME k \in Clusters, NEW i \in 1 .. 19, WorkerAt(k, i)
    PROVE  Permits(Worker[i]) /\ WorkerAt(Effect(Worker[i]), i + 1)
<1>0. \/ i = 1 \/ i = 2 \/ i = 3 \/ i = 4 \/ i = 5 \/ i = 6 \/ i = 7 \/ i = 8 \/ i = 9
      \/ i = 10 \/ i = 11 \/ i = 12 \/ i = 13 \/ i = 14 \/ i = 15 \/ i = 16 \/ i = 17 \/ i = 18
      \/ i = 19
  OBVIOUS
<1> USE Outcomes, Checks, WorkerSteps DEF WorkerAt, LiveIs, Permits, Commanding,
        Accepts, Delivers, Attempts, wait_for_targets, verify_normal_and_idempotent_delivery
<1>1. CASE i = 1
  BY <1>1
<1>2. CASE i = 2
  BY <1>2
<1>3. CASE i = 3
  BY <1>3
<1>4. CASE i = 4
  BY <1>4
<1>5. CASE i = 5
  BY <1>5
<1>6. CASE i = 6
  BY <1>6
<1>7. CASE i = 7
  BY <1>7
<1>8. CASE i = 8
  BY <1>8
<1>9. CASE i = 9
  BY <1>9
<1>10. CASE i = 10
  BY <1>10
<1>11. CASE i = 11
  BY <1>11
<1>12. CASE i = 12
  BY <1>12
<1>13. CASE i = 13
  BY <1>13
<1>14. CASE i = 14
  BY <1>14
<1>15. CASE i = 15
  <2>1. worker_drill("heal_sink") = Effect("heal_sink")
    BY DEF Effect, worker_drill
  <2> QED BY <1>15, <2>1
<1>16. CASE i = 16
  BY <1>16
<1>17. CASE i = 17
  BY <1>17
<1>18. CASE i = 18
  BY <1>18
<1>19. CASE i = 19
  BY <1>19
<1> QED BY ONLY <1>0, <1>1, <1>2, <1>3, <1>4, <1>5, <1>6, <1>7, <1>8, <1>9, <1>10, <1>11, <1>12, <1>13,
        <1>14, <1>15, <1>16, <1>17, <1>18, <1>19

\* kind_e2e: a retry, then a worker killed under a slow sink.
LEMMA E2ERun ==
    ASSUME k \in Clusters, NEW i \in 1 .. 21, E2EAt(k, i)
    PROVE  Permits(E2E[i]) /\ E2EAt(Effect(E2E[i]), i + 1)
<1>0. \/ i = 1 \/ i = 2 \/ i = 3 \/ i = 4 \/ i = 5 \/ i = 6 \/ i = 7 \/ i = 8 \/ i = 9
      \/ i = 10 \/ i = 11 \/ i = 12 \/ i = 13 \/ i = 14 \/ i = 15 \/ i = 16 \/ i = 17 \/ i = 18
      \/ i = 19 \/ i = 20 \/ i = 21
  OBVIOUS
<1> USE Outcomes, Checks, E2ESteps DEF E2EAt, LiveIs, Permits, Commanding,
        Accepts, Delivers, Attempts, wait_for_targets, verify_normal_and_idempotent_delivery, verify_final_state
<1>1. CASE i = 1
  BY <1>1
<1>2. CASE i = 2
  BY <1>2
<1>3. CASE i = 3
  BY <1>3
<1>4. CASE i = 4
  BY <1>4
<1>5. CASE i = 5
  BY <1>5
<1>6. CASE i = 6
  BY <1>6
<1>7. CASE i = 7
  BY <1>7
<1>8. CASE i = 8
  BY <1>8
<1>9. CASE i = 9
  BY <1>9
<1>10. CASE i = 10
  BY <1>10
<1>11. CASE i = 11
  BY <1>11
<1>12. CASE i = 12
  BY <1>12
<1>13. CASE i = 13
  BY <1>13
<1>14. CASE i = 14
  BY <1>14
<1>15. CASE i = 15
  BY <1>15
<1>16. CASE i = 16
  BY <1>16
<1>17. CASE i = 17
  BY <1>17
<1>18. CASE i = 18
  BY <1>18
<1>19. CASE i = 19
  BY <1>19
<1>20. CASE i = 20
  BY <1>20
<1>21. CASE i = 21
  BY <1>21
<1> QED BY ONLY <1>0, <1>1, <1>2, <1>3, <1>4, <1>5, <1>6, <1>7, <1>8, <1>9, <1>10, <1>11, <1>12, <1>13,
        <1>14, <1>15, <1>16, <1>17, <1>18, <1>19, <1>20, <1>21

\* incident_smoke: the three drills in a row, then the restoration.
LEMMA SmokeRun ==
    ASSUME k \in Clusters, NEW i \in 1 .. 50, SmokeAt(k, i)
    PROVE  Permits(Smoke[i]) /\ SmokeAt(Effect(Smoke[i]), i + 1)
<1>0. PICK d : d = Effect(Smoke[i])
  OBVIOUS
<1>1. CASE i \in 1 .. 15
  <2>1. Smoke[i] = Downstream[i]
    BY <1>1 DEF Smoke, Downstream, Redis, Worker, WorkerBusy, WorkerLost, WorkerReplaced, Prelude
  <2>2. Permits(Smoke[i]) /\ DownstreamAt(d, i + 1)
    BY <1>0, <1>1, <2>1, DownstreamRun DEF SmokeAt
  <2>3. i = 15 => RedisAt(d, 1)
    BY <2>2 DEF DownstreamAt, RedisAt, Rests
  <2> QED BY <1>0, <1>1, <2>2, <2>3 DEF SmokeAt
<1>2. CASE i \in 16 .. 29
  <2>1. Smoke[i] = Redis[i - 15] /\ i - 15 \in 1 .. 14
    BY <1>2 DEF Smoke, Downstream, Redis, Worker, WorkerBusy, WorkerLost, WorkerReplaced, Prelude
  <2>2. Permits(Smoke[i]) /\ RedisAt(d, i - 15 + 1)
    BY <1>0, <1>2, <2>1, RedisRun DEF SmokeAt
  <2>3. i = 29 => WorkerAt(d, 1)
    BY DEF WorkerAt
  <2> QED BY <1>0, <1>2, <2>2, <2>3 DEF SmokeAt
<1>3. CASE i \in 30 .. 48
  <2>1. Smoke[i] = Worker[i - 29] /\ i - 29 \in 1 .. 19
    BY <1>3 DEF Smoke, Downstream, Redis, Worker, WorkerBusy, WorkerLost, WorkerReplaced, Prelude
  <2>2. Permits(Smoke[i]) /\ WorkerAt(d, i - 29 + 1)
    BY <1>0, <1>3, <2>1, WorkerRun DEF SmokeAt
  <2> QED BY <1>0, <1>3, <2>2 DEF SmokeAt
<1>4. CASE i = 49
  <2>1. Smoke[i] = "restore_normal"
    BY <1>4 DEF Smoke, Downstream, Redis, Worker, WorkerBusy, WorkerLost, WorkerReplaced, Prelude
  <2>2. IsNormal(d) /\ d.event = k.event
    BY <1>0, <2>1, Outcomes
  <2>3. k.event = "delivered"
    BY <1>4 DEF SmokeAt, WorkerAt
  <2>4. Permits(Smoke[i])
    BY <2>1 DEF Permits
  <2> QED BY <1>0, <1>4, <2>2, <2>3, <2>4 DEF SmokeAt
<1>5. CASE i = 50
  <2>1. Smoke[i] = "verify_final_runtime"
    BY <1>5 DEF Smoke, Downstream, Redis, Worker, WorkerBusy, WorkerLost, WorkerReplaced, Prelude
  <2>2. d = k
    BY <1>0, <2>1, Checks DEF Commanding
  <2>3. IsNormal(k) /\ k.event = "delivered"
    BY <1>5 DEF SmokeAt
  <2>4. Permits(Smoke[i])
    BY <2>1, <2>3 DEF Permits, verify_final_runtime, IsNormal
  <2> QED BY <1>0, <1>5, <2>2, <2>3, <2>4 DEF SmokeAt
<1> QED BY <1>1, <1>2, <1>3, <1>4, <1>5

\* What the operator left: no cluster, an empty one, or a normal release.
LEMMA Initially ==
    ASSUME NEW c, Initial(c)
    PROVE  /\ c \in Clusters /\ c.event = "none"
           /\ IsNormal(c) \/ (~release_exists(c) /\ c.live.workers = 0)
           /\ ~c.present => ~release_exists(c)
           /\ c.live.sink = "accept"
<1>1. /\ NoCluster \in Clusters /\ NoCluster.event = "none" /\ NoCluster.release = NoRelease
      /\ NoCluster.live = NothingLive /\ ~NoCluster.present
      /\ NoRelease.profile = "none" /\ NothingLive.workers = 0 /\ NothingLive.sink = "accept"
  BY DEF NoCluster, Clusters, NoRelease, Values, NothingLive, EventStates, SinkModes, Profiles
<1>2. PICK m : m = [NoCluster EXCEPT !.present = TRUE]
  OBVIOUS
<1>3. m \in Clusters /\ m.event = "none" /\ m.release = NoRelease /\ m.live = NothingLive
      /\ m.present
  BY <1>1, <1>2 DEF Clusters
<1>4. Normal \in Releases /\ Normal.sink = "accept" /\ Normal.workers = 1
  BY DEF Normal, Values, Releases, SinkModes, Profiles
<1>5. PICK h : h = Helm(m, Normal)
  OBVIOUS
<1>6. /\ h \in Clusters /\ h.event = "none" /\ h.release = Normal /\ h.present
      /\ h.live = [sink |-> "accept", workers |-> 1, redis |-> 1]
  BY <1>3, <1>4, <1>5, HelmSets
<1>7. c = NoCluster \/ c = m \/ c = h
  BY <1>2, <1>5 DEF Initial
<1> QED BY <1>1, <1>3, <1>6, <1>7 DEF IsNormal, NormalLive, release_exists

\* observability_runtime smoke raises only where there is no release to look at.
LEMMA ObservabilityRun ==
    ASSUME k \in Clusters, NEW i \in 1 .. 13, ObservabilityAt(k, i)
    PROVE  LET s == (smoke_base \o smoke_alerts)[i] IN
           /\ Permits(s) => ObservabilityAt(Effect(s), i + 1)
           /\ ~Permits(s) => i < 7 /\ ~release_exists(k)
<1>0. \/ i = 1 \/ i = 2 \/ i = 3 \/ i = 4 \/ i = 5 \/ i = 6 \/ i = 7 \/ i = 8 \/ i = 9
      \/ i = 10 \/ i = 11 \/ i = 12 \/ i = 13
  OBVIOUS
<1>s. PICK s : s = (smoke_base \o smoke_alerts)[i]
  OBVIOUS
<1>d. PICK d : d = Effect(s) /\ d.present = k.present
  BY EffectKeeps
<1>p. PICK b : b = smoke_base \o smoke_alerts
  OBVIOUS
<1>t. \A n \in 1 .. 13 : i = n => s = b[n]
  BY <1>s, <1>p
<1> SUFFICES /\ Permits(s) => ObservabilityAt(d, i + 1)
             /\ ~Permits(s) => i < 7 /\ ~release_exists(k)
  BY <1>s, <1>d
<1> USE DEF ObservabilityAt, Permits, LiveIs
<1>x. i \in 1 .. 3 => /\ Initial(k)
                      /\ IsNormal(k) \/ (~release_exists(k) /\ k.live.workers = 0)
                      /\ ~k.present => ~release_exists(k)
  BY Initially
<1>y. IsNormal(k) => LiveIs(k, "accept", 1, 1)
  BY DEF IsNormal, NormalLive
<1>1. CASE i = 1
  <2>1. s = "require_cluster"
    BY <1>1, <1>p, <1>t, ObservabilityBody
  <2>2. d = k
    BY <1>d, <2>1, Checks DEF Commanding
  <2>3. Permits("require_cluster") <=> k.present
    OBVIOUS
  <2> QED BY ONLY <1>1, <1>x, <2>1, <2>2, <2>3 DEF ObservabilityAt
<1>2. CASE i = 2
  <2>1. s = "port_forward"
    BY <1>2, <1>p, <1>t, ObservabilityBody
  <2>2. d = k
    BY <1>d, <2>1, Checks DEF Commanding
  <2> QED BY <1>2, <1>d, <2>1, <2>2, <1>x, <1>y
<1>3. CASE i = 3
  <2>1. s = "wait_for_targets"
    BY <1>3, <1>p, <1>t, ObservabilityBody
  <2>2. d = k
    BY <1>d, <2>1, Checks DEF Commanding
  <2>3. Permits("wait_for_targets") <=> (k.live.workers = 1 /\ k.live.redis = 1)
    BY DEF wait_for_targets, Accepts
  <2>4. k.present
    BY <1>3
  <2> QED BY ONLY <1>3, <1>x, <1>y, <2>1, <2>2, <2>3, <2>4 DEF ObservabilityAt, LiveIs
<1>4. CASE i = 4
  <2>1. s = "verify_normal"
    BY <1>4, <1>p, <1>t, ObservabilityBody
  <2>2. d = k
    BY <1>d, <2>1, Checks DEF Commanding
  <2> QED BY <1>4, <1>d, <2>1, <2>2 DEF verify_normal_and_idempotent_delivery, Delivers, Accepts
<1>5. CASE i = 5
  <2>1. s = "close_forward"
    BY <1>5, <1>p, <1>t, ObservabilityBody
  <2>2. d = k
    BY <1>d, <2>1, Checks DEF Commanding
  <2> QED BY <1>5, <1>d, <2>1, <2>2
<1>6. CASE i = 6
  <2>1. s = "port_forward"
    BY <1>6, <1>p, <1>t, ObservabilityBody
  <2>2. d = k
    BY <1>d, <2>1, Checks DEF Commanding
  <2> QED BY <1>6, <1>d, <2>1, <2>2
<1>7. CASE i = 7
  <2>1. s = "inject_alerts"
    BY <1>7, <1>p, <1>t, ObservabilityBody
  <2> QED BY <1>7, <1>d, <2>1, Outcomes
<1>8. CASE i = 8
  <2>1. s = "post_failing_alerts"
    BY <1>8, <1>p, <1>t, ObservabilityBody
  <2> QED BY <1>8, <1>d, <2>1, Outcomes DEF Attempts, Accepts
<1>9. CASE i = 9
  <2>1. s = "observe_alerts"
    BY <1>9, <1>p, <1>t, ObservabilityBody
  <2>2. d = k
    BY <1>d, <2>1, Checks DEF Commanding
  <2> QED BY <1>9, <1>d, <2>1, <2>2 DEF Attempts, Accepts
<1>10. CASE i = 10
  <2>1. s = "heal_alerts"
    BY <1>10, <1>p, <1>t, ObservabilityBody
  <2> QED BY <1>10, <1>d, <2>1, Outcomes
<1>11. CASE i = 11
  <2>1. s = "await_terminal"
    BY <1>11, <1>p, <1>t, ObservabilityBody
  <2> QED BY <1>11, <1>d, <2>1, Outcomes DEF Delivers, Accepts, IsNormal
<1>12. CASE i = 12
  <2>1. s = "verify_normal"
    BY <1>12, <1>p, <1>t, ObservabilityBody
  <2>2. d = k
    BY <1>d, <2>1, Checks DEF Commanding
  <2> QED BY <1>12, <1>d, <2>1, <2>2 DEF verify_normal_and_idempotent_delivery, Delivers, Accepts
<1>13. CASE i = 13
  <2>1. s = "close_forward"
    BY <1>13, <1>p, <1>t, ObservabilityBody
  <2>2. d = k
    BY <1>d, <2>1, Checks DEF Commanding
  <2> QED BY <1>13, <1>d, <2>1, <2>2
<1> QED BY ONLY <1>0, <1>1, <1>2, <1>3, <1>4, <1>5, <1>6, <1>7, <1>8, <1>9, <1>10, <1>11, <1>12, <1>13

(***************************************************************************)
(* Places in the bodies.                                                   *)
(***************************************************************************)
Names == {"kind_e2e", "downstream", "redis", "worker", "smoke", "observability"}

\* How long a body is, and where the restoration of incident_smoke is.
LEMMA Lengths ==
    ASSUME NEW s \in Names
    PROVE  /\ Len(Body(s)) \in Nat /\ Len(Body(s)) >= 1
           /\ s = "kind_e2e" => Len(Body(s)) = 21 /\ Body(s) = E2E
           /\ s = "downstream" => Len(Body(s)) = 15 /\ Body(s) = Downstream
           /\ s = "redis" => Len(Body(s)) = 14 /\ Body(s) = Redis
           /\ s = "worker" => Len(Body(s)) = 19 /\ Body(s) = Worker
           /\ s = "smoke" => Len(Body(s)) = 50 /\ Body(s) = Smoke
           /\ s = "observability" => Len(Body(s)) = 13 /\ Body(s) = smoke_base \o smoke_alerts
<1>1. /\ Len(E2E) = 21 /\ Len(Downstream) = 15 /\ Len(Redis) = 14
      /\ Len(smoke_base \o smoke_alerts) = 13
  BY DEF E2E, Downstream, Redis, smoke_base, smoke_alerts, Prelude
<1>2. Len(Worker) = 19
  BY DEF Worker, WorkerBusy, WorkerLost, WorkerReplaced, Prelude
<1>3. Len(Smoke) = 50
  BY DEF Smoke, Downstream, Redis, Worker, WorkerBusy, WorkerLost, WorkerReplaced, Prelude
<1>4. s = "kind_e2e" => Body(s) = E2E
  BY DEF Body
<1>5. s = "downstream" => Body(s) = Downstream
  BY DEF Body
<1>6. s = "redis" => Body(s) = Redis
  BY DEF Body
<1>7. s = "worker" => Body(s) = Worker
  BY DEF Body
<1>8. s = "smoke" => Body(s) = Smoke
  BY DEF Body
<1>9. s = "observability" => Body(s) = smoke_base \o smoke_alerts
  BY DEF Body
<1>10. PICK n : n = Len(Body(s))
  OBVIOUS
<1>11. n \in {13, 14, 15, 19, 21, 50}
  BY <1>1, <1>2, <1>3, <1>4, <1>5, <1>6, <1>7, <1>8, <1>9, <1>10 DEF Names
<1>12. Len(Body(s)) \in Nat /\ Len(Body(s)) >= 1
  BY <1>10, <1>11
<1> QED BY <1>1, <1>2, <1>3, <1>4, <1>5, <1>6, <1>7, <1>8, <1>9, <1>12, Zenon

\* Only incident_smoke restores within its body, one check before its end.
LEMMA Restoration ==
    ASSUME NEW s \in Names, NEW i \in 1 .. Len(Body(s)), Body(s)[i] = "restore_normal"
    PROVE  s = "smoke" /\ i = 49 /\ Body(s)[50] = "verify_final_runtime"
<1>1. ASSUME NEW j \in 1 .. 21 PROVE E2E[j] # "restore_normal"
  <2>1. \/ j = 1 \/ j = 2 \/ j = 3 \/ j = 4 \/ j = 5 \/ j = 6 \/ j = 7 \/ j = 8 \/ j = 9
        \/ j = 10 \/ j = 11 \/ j = 12 \/ j = 13 \/ j = 14 \/ j = 15 \/ j = 16 \/ j = 17 \/ j = 18
        \/ j = 19 \/ j = 20 \/ j = 21
    OBVIOUS
  <2> QED BY <2>1, E2ESteps
<1>2. ASSUME NEW j \in 1 .. 15 PROVE Downstream[j] # "restore_normal"
  <2>1. \/ j = 1 \/ j = 2 \/ j = 3 \/ j = 4 \/ j = 5 \/ j = 6 \/ j = 7 \/ j = 8 \/ j = 9
        \/ j = 10 \/ j = 11 \/ j = 12 \/ j = 13 \/ j = 14 \/ j = 15
    OBVIOUS
  <2> QED BY <2>1, DownstreamSteps
<1>3. ASSUME NEW j \in 1 .. 14 PROVE Redis[j] # "restore_normal"
  <2>1. \/ j = 1 \/ j = 2 \/ j = 3 \/ j = 4 \/ j = 5 \/ j = 6 \/ j = 7 \/ j = 8 \/ j = 9
        \/ j = 10 \/ j = 11 \/ j = 12 \/ j = 13 \/ j = 14
    OBVIOUS
  <2> QED BY <2>1, RedisSteps
<1>4. ASSUME NEW j \in 1 .. 19 PROVE Worker[j] # "restore_normal"
  <2>1. \/ j = 1 \/ j = 2 \/ j = 3 \/ j = 4 \/ j = 5 \/ j = 6 \/ j = 7 \/ j = 8 \/ j = 9
        \/ j = 10 \/ j = 11 \/ j = 12 \/ j = 13 \/ j = 14 \/ j = 15 \/ j = 16 \/ j = 17 \/ j = 18
        \/ j = 19
    OBVIOUS
  <2> QED BY <2>1, WorkerSteps
<1>5. ASSUME NEW j \in 1 .. 13 PROVE (smoke_base \o smoke_alerts)[j] # "restore_normal"
  BY DEF smoke_base, smoke_alerts
<1>6. ASSUME NEW j \in 1 .. 50, Smoke[j] = "restore_normal"
      PROVE  j = 49 /\ Smoke[50] = "verify_final_runtime"
  BY <1>6 DEF Smoke, Downstream, Redis, Worker, WorkerBusy, WorkerLost, WorkerReplaced, Prelude
<1>7. s = "smoke"
  <2>1. s # "kind_e2e"
    <3>1. s = "kind_e2e" => Body(s) = E2E /\ Len(Body(s)) = 21
      BY Lengths
    <3> QED BY <1>1, <3>1
  <2>2. s # "downstream"
    <3>1. s = "downstream" => Body(s) = Downstream /\ Len(Body(s)) = 15
      BY Lengths
    <3> QED BY <1>2, <3>1
  <2>3. s # "redis"
    <3>1. s = "redis" => Body(s) = Redis /\ Len(Body(s)) = 14
      BY Lengths
    <3> QED BY <1>3, <3>1
  <2>4. s # "worker"
    <3>1. s = "worker" => Body(s) = Worker /\ Len(Body(s)) = 19
      BY Lengths
    <3> QED BY <1>4, <3>1
  <2>5. s # "observability"
    <3>1. s = "observability" => Body(s) = smoke_base \o smoke_alerts /\ Len(Body(s)) = 13
      BY Lengths
    <3> QED BY <1>5, <3>1
  <2> QED BY <2>1, <2>2, <2>3, <2>4, <2>5 DEF Names
<1>8. Body(s) = Smoke /\ Len(Body(s)) = 50
  BY <1>7, Lengths
<1> QED BY <1>6, <1>7, <1>8

\* The finally blocks and the steps they are around.
LEMMA Blocks ==
    ASSUME NEW step
    PROVE  /\ step \in {"inject_5xx", "post_failing", "observe_5xx"} => UndoOf(step) = "heal_5xx"
           /\ step \in {"stop_redis", "observe_outage"} => UndoOf(step) = "start_redis"
           /\ step \in {"scale_down", "remove_worker", "observe_loss"} => UndoOf(step) = "heal_sink"
           /\ step \in {"inject_alerts", "post_failing_alerts", "observe_alerts"} =>
                UndoOf(step) = "heal_alerts"
           /\ step = "heal_sink" => UndoOf(step) = "start_worker"
           /\ step \notin {"inject_5xx", "post_failing", "observe_5xx", "stop_redis", "observe_outage",
                          "scale_down", "remove_worker", "observe_loss", "inject_alerts",
                          "post_failing_alerts", "observe_alerts", "heal_sink"} => UndoOf(step) = "none"
BY DEF UndoOf

\* A finally block lies behind the steps it undoes.
LEMMA Undo ==
    ASSUME NEW s \in Names, NEW i \in 1 .. Len(Body(s)), UndoOf(Body(s)[i]) # "none"
    PROVE  \E j \in i + 1 .. Len(Body(s)) : Body(s)[j] = UndoOf(Body(s)[i])
<1> DEFINE Undone == {"inject_5xx", "post_failing", "observe_5xx", "stop_redis", "observe_outage",
                      "scale_down", "remove_worker", "observe_loss", "inject_alerts",
                      "post_failing_alerts", "observe_alerts", "heal_sink"}
<1>0. Body(s)[i] \in Undone
  BY Blocks
<1>a. ASSUME NEW j \in 1 .. 15, Downstream[j] \in Undone
      PROVE  (j \in 9 .. 11 /\ Downstream[j] \in {"inject_5xx", "post_failing", "observe_5xx"})
  BY <1>a DEF Downstream, Prelude
<1>b. ASSUME NEW j \in 1 .. 14, Redis[j] \in Undone
      PROVE  (j \in 9 .. 10 /\ Redis[j] \in {"stop_redis", "observe_outage"})
  BY <1>b DEF Redis, Prelude
<1>c. ASSUME NEW j \in 1 .. 19, Worker[j] \in Undone
      PROVE  \/ (j \in 12 .. 14 /\ Worker[j] \in {"scale_down", "remove_worker", "observe_loss"})
             \/ (j = 15 /\ Worker[j] \in {"heal_sink"})
  BY <1>c DEF Worker, WorkerBusy, WorkerLost, WorkerReplaced, Prelude
<1>1. CASE s = "kind_e2e"
  <2>1. ASSUME NEW j \in 1 .. 21 PROVE E2E[j] \notin Undone
    <3>1. \/ j = 1 \/ j = 2 \/ j = 3 \/ j = 4 \/ j = 5 \/ j = 6 \/ j = 7 \/ j = 8 \/ j = 9
          \/ j = 10 \/ j = 11 \/ j = 12 \/ j = 13 \/ j = 14 \/ j = 15 \/ j = 16 \/ j = 17 \/ j = 18
          \/ j = 19 \/ j = 20 \/ j = 21
      OBVIOUS
    <3> QED BY <3>1, E2ESteps
  <2> QED BY <1>0, <1>1, <2>1, Lengths
<1>2. CASE s = "downstream"
  <2>2. Downstream[12] = "heal_5xx"
    BY DownstreamSteps
  <2>3. PICK f : f = Downstream
    OBVIOUS
  <2>4. Body(s) = f /\ Len(Body(s)) = 15
    BY <1>2, <2>3, Lengths
  <2> QED BY <1>0, <1>a, <2>2, <2>3, <2>4, Blocks
<1>3. CASE s = "redis"
  <2>2. Redis[11] = "start_redis"
    BY RedisSteps
  <2>3. PICK f : f = Redis
    OBVIOUS
  <2>4. Body(s) = f /\ Len(Body(s)) = 14
    BY <1>3, <2>3, Lengths
  <2> QED BY <1>0, <1>b, <2>2, <2>3, <2>4, Blocks
<1>4. CASE s = "worker"
  <2>2. Worker[15] = "heal_sink" /\ Worker[16] = "start_worker"
    BY WorkerSteps
  <2>3. PICK f : f = Worker
    OBVIOUS
  <2>4. Body(s) = f /\ Len(Body(s)) = 19
    BY <1>4, <2>3, Lengths
  <2> QED BY <1>0, <1>c, <2>2, <2>3, <2>4, Blocks
<1>5. CASE s = "smoke"
  <2>1. ASSUME NEW j \in 1 .. 50, Smoke[j] \in Undone
        PROVE  \/ (j \in 9 .. 11 /\ Smoke[j] \in {"inject_5xx", "post_failing", "observe_5xx"})
               \/ (j \in 24 .. 25 /\ Smoke[j] \in {"stop_redis", "observe_outage"})
               \/ (j \in 41 .. 43 /\ Smoke[j] \in {"scale_down", "remove_worker", "observe_loss"})
               \/ (j = 44 /\ Smoke[j] \in {"heal_sink"})
    <3>1. CASE j \in 1 .. 15
      <4>1. Smoke[j] = Downstream[j]
        BY <3>1, SmokeSteps
      <4>2. j \in 9 .. 11 /\ Downstream[j] \in {"inject_5xx", "post_failing", "observe_5xx"}
        BY <1>a, <2>1, <3>1, <4>1
      <4> QED BY <4>1, <4>2
    <3>2. CASE j \in 16 .. 29
      <4>1. PICK n \in 1 .. 14 : n = j - 15
        BY <3>2
      <4>2. Smoke[j] = Redis[n]
        BY <3>2, <4>1, SmokeSteps
      <4>3. n \in 9 .. 10 /\ Redis[n] \in {"stop_redis", "observe_outage"}
        BY <1>b, <2>1, <4>2
      <4> QED BY <4>1, <4>2, <4>3
    <3>3. CASE j \in 30 .. 48
      <4>1. PICK n \in 1 .. 19 : n = j - 29
        BY <3>3
      <4>2. Smoke[j] = Worker[n]
        BY <3>3, <4>1, SmokeSteps
      <4>3. \/ (n \in 12 .. 14 /\ Worker[n] \in {"scale_down", "remove_worker", "observe_loss"})
            \/ (n = 15 /\ Worker[n] \in {"heal_sink"})
        BY <1>c, <2>1, <4>2
      <4> QED BY <4>1, <4>2, <4>3
    <3>4. CASE j \in 49 .. 50
      <4>1. j = 49 \/ j = 50
        BY <3>4
      <4> QED BY <2>1, <4>1, SmokeSteps
    <3> QED BY <3>1, <3>2, <3>3, <3>4
  <2>2. Smoke[12] = "heal_5xx" /\ Smoke[26] = "start_redis" /\ Smoke[44] = "heal_sink" /\ Smoke[45] = "start_worker"
    BY DEF Smoke, Downstream, Redis, Worker, WorkerBusy, WorkerLost, WorkerReplaced, Prelude
  <2>3. PICK f : f = Smoke
    OBVIOUS
  <2>4. Body(s) = f /\ Len(Body(s)) = 50
    BY <1>5, <2>3, Lengths
  <2> QED BY <1>0, <2>1, <2>2, <2>3, <2>4, Blocks
<1>6. CASE s = "observability"
  <2>1. ASSUME NEW j \in 1 .. 13, (smoke_base \o smoke_alerts)[j] \in Undone
        PROVE  (j \in 7 .. 9 /\ (smoke_base \o smoke_alerts)[j] \in {"inject_alerts", "post_failing_alerts", "observe_alerts"})
    BY <2>1 DEF smoke_base, smoke_alerts
  <2>2. (smoke_base \o smoke_alerts)[10] = "heal_alerts"
    BY DEF smoke_base, smoke_alerts
  <2>3. PICK f : f = (smoke_base \o smoke_alerts)
    OBVIOUS
  <2>4. Body(s) = f /\ Len(Body(s)) = 13
    BY <1>6, <2>3, Lengths
  <2>5. i \in 7 .. 9 /\ f[i] \in {"inject_alerts", "post_failing_alerts", "observe_alerts"}
    BY <1>0, <2>1, <2>3, <2>4
  <2>6. f[10] = "heal_alerts"
    BY <2>2, <2>3
  <2> QED BY <2>4, <2>5, <2>6, Blocks
<1> QED BY <1>1, <1>2, <1>3, <1>4, <1>5, <1>6 DEF Names

\* A body comes from one step to the next as its table says, and while nothing
\* raised no check of a framed script fails.
LEMMA BodyRun ==
    ASSUME NEW s \in Names, k \in Clusters, NEW i \in 1 .. Len(Body(s)), StateAt(s, k, i)
    PROVE  /\ Permits(Body(s)[i]) => StateAt(s, Effect(Body(s)[i]), i + 1)
           /\ ~Permits(Body(s)[i]) => s = "observability" /\ i < 7 /\ ~release_exists(k)
<1>0. PICK d : d = Effect(Body(s)[i])
  OBVIOUS
<1>1. s # "observability" => FramedAt(d, i + 1)
  <2>1. d.present = k.present /\ (release_exists(k) => release_exists(d))
    BY <1>0, EffectKeeps
  <2>2. s # "observability" /\ i = 1 => release_exists(d)
    <3>1. s # "observability" => Body(s)[1] = "deploy"
      <4>1. E2E[1] = "deploy" /\ Downstream[1] = "deploy" /\ Redis[1] = "deploy"
        BY DEF E2E, Downstream, Redis, Prelude
      <4>2. Worker[1] = "deploy"
        BY DEF Worker, WorkerBusy, WorkerLost, WorkerReplaced, Prelude
      <4>3. Smoke[1] = "deploy"
        BY DEF Smoke, Downstream, Redis, Worker, WorkerBusy, WorkerLost, WorkerReplaced, Prelude
      <4> QED BY <4>1, <4>2, <4>3, Lengths, Zenon DEF Names
    <3>2. Values("plain", "accept", 1) \in Releases /\ Values("plain", "accept", 1).profile = "plain"
      BY DEF Values, Releases, Profiles, SinkModes
    <3>3. Effect("deploy").release.profile = "plain"
      <4>1. PICK v \in Releases : v = Values("plain", "accept", 1)
        BY <3>2
      <4>2. PICK e : e = Helm(k, v)
        OBVIOUS
      <4>3. e.release = v
        BY <4>2, HelmSets
      <4>4. Effect("deploy") = e
        BY <4>1, <4>2, Commands
      <4> QED BY <3>2, <4>1, <4>3, <4>4
    <3> QED BY <1>0, <3>1, <3>3 DEF release_exists
  <2> QED BY <2>1, <2>2 DEF StateAt, FramedAt
<1>2. CASE s = "kind_e2e"
  BY <1>0, <1>1, <1>2, E2ERun, Lengths DEF StateAt
<1>3. CASE s = "downstream"
  BY <1>0, <1>1, <1>3, DownstreamRun, Lengths DEF StateAt
<1>4. CASE s = "redis"
  BY <1>0, <1>1, <1>4, RedisRun, Lengths DEF StateAt
<1>5. CASE s = "worker"
  BY <1>0, <1>1, <1>5, WorkerRun, Lengths DEF StateAt
<1>6. CASE s = "smoke"
  BY <1>0, <1>1, <1>6, SmokeRun, Lengths DEF StateAt
<1>7. CASE s = "observability"
  BY <1>0, <1>7, ObservabilityRun, Lengths DEF StateAt
<1> QED BY <1>2, <1>3, <1>4, <1>5, <1>6, <1>7 DEF Names

\* The body of observability_runtime is in a finally block at three steps, and
\* its other steps do not change what is installed, but the healing.
LEMMA ObservabilitySteps ==
    ASSUME NEW i \in 1 .. 13
    PROVE  LET s == (smoke_base \o smoke_alerts)[i] IN
           /\ i \in 7 .. 9 => UndoOf(s) = "heal_alerts"
           /\ i \notin 7 .. 9 => UndoOf(s) = "none"
           /\ i < 7 => Effect(s) = k
           /\ i = 10 => s = "heal_alerts"
           /\ i > 10 => Effect(s) = k \/ s = "await_terminal"
<1>1. PICK s : s = (smoke_base \o smoke_alerts)[i]
  OBVIOUS
<1>2. i \in 7 .. 9 => s \in {"inject_alerts", "post_failing_alerts", "observe_alerts"}
  BY <1>1 DEF smoke_base, smoke_alerts
<1>3. i \notin 7 .. 9 => s \in {"require_cluster", "port_forward", "wait_for_targets", "verify_normal",
                              "close_forward", "heal_alerts", "await_terminal"}
  BY <1>1 DEF smoke_base, smoke_alerts
<1>4. i < 7 => s \notin {"heal_alerts", "await_terminal"} /\ i \notin 7 .. 9
  BY <1>1 DEF smoke_base, smoke_alerts
<1>5. i = 10 => s = "heal_alerts"
  BY <1>1 DEF smoke_base, smoke_alerts
<1>6. i > 10 => s # "heal_alerts" /\ i \notin 7 .. 9
  BY <1>1 DEF smoke_base, smoke_alerts
<1>7. i \in 7 .. 9 => UndoOf(s) = "heal_alerts"
  BY <1>2, Blocks
<1>8. i \notin 7 .. 9 => UndoOf(s) = "none"
  BY <1>3, Blocks
<1>9. i < 7 => Effect(s) = k
  BY <1>3, <1>4, Checks DEF Commanding
<1>10. i > 10 => Effect(s) = k \/ s = "await_terminal"
  BY <1>3, <1>6, Checks DEF Commanding
<1> QED BY <1>1, <1>5, <1>7, <1>8, <1>9, <1>10

\* The last check of incident_smoke is where it says.
LEMMA LastCheck ==
    ASSUME NEW i \in 1 .. 50, Smoke[i] = "verify_final_runtime"
    PROVE  i = 50
BY DEF Smoke, Downstream, Redis, Worker, WorkerBusy, WorkerLost, WorkerReplaced, Prelude

\* How a body begins: the cluster is as it was found, or as up left it.
LEMMA Beginning ==
    ASSUME NEW s \in Names, NEW c, Initial(c), s # "observability" => c.present
    PROVE  StateAt(s, c, 1)
<1>1. c.event = "none"
  BY Initially
<1> QED BY <1>1 DEF StateAt, E2EAt, DownstreamAt, RedisAt, WorkerAt, SmokeAt, ObservabilityAt,
                   FramedAt, Rests

\* A body nothing raised from leaves a release and no event on its way.
LEMMA BodyEnd ==
    ASSUME NEW s \in Names, NEW c, StateAt(s, c, Len(Body(s)) + 1)
    PROVE  /\ s # "observability" => c.present /\ release_exists(c) /\ Rests(c)
           /\ s = "observability" => IsNormal(c) /\ Ended(c)
<1>1. CASE s = "kind_e2e"
  <2>1. StateAt(s, c, 22)
    <3>0. Len(Body(s)) = 21
      BY <1>1, Lengths
    <3>1. Len(Body(s)) + 1 = 22
      BY <3>0
    <3> QED BY <3>1, Zenon
  <2> QED BY <1>1, <2>1 DEF StateAt, E2EAt, FramedAt, Rests
<1>2. CASE s = "downstream"
  <2>1. StateAt(s, c, 16)
    <3>0. Len(Body(s)) = 15
      BY <1>2, Lengths
    <3>1. Len(Body(s)) + 1 = 16
      BY <3>0
    <3> QED BY <3>1, Zenon
  <2> QED BY <1>2, <2>1 DEF StateAt, DownstreamAt, FramedAt, Rests
<1>3. CASE s = "redis"
  <2>1. StateAt(s, c, 15)
    <3>0. Len(Body(s)) = 14
      BY <1>3, Lengths
    <3>1. Len(Body(s)) + 1 = 15
      BY <3>0
    <3> QED BY <3>1, Zenon
  <2> QED BY <1>3, <2>1 DEF StateAt, RedisAt, FramedAt, Rests
<1>4. CASE s = "worker"
  <2>1. StateAt(s, c, 20)
    <3>0. Len(Body(s)) = 19
      BY <1>4, Lengths
    <3>1. Len(Body(s)) + 1 = 20
      BY <3>0
    <3> QED BY <3>1, Zenon
  <2> QED BY <1>4, <2>1 DEF StateAt, WorkerAt, FramedAt, Rests
<1>5. CASE s = "smoke"
  <2>1. StateAt(s, c, 51)
    <3>0. Len(Body(s)) = 50
      BY <1>5, Lengths
    <3>1. Len(Body(s)) + 1 = 51
      BY <3>0
    <3> QED BY <3>1, Zenon
  <2>2. SmokeAt(c, 51) /\ FramedAt(c, 51)
    BY <1>5, <2>1 DEF StateAt
  <2>3. c.event = "delivered"
    BY <2>2 DEF SmokeAt
  <2> QED BY <1>5, <2>2, <2>3 DEF FramedAt, Rests
<1>6. CASE s = "observability"
  <2>1. StateAt(s, c, 14)
    <3>0. Len(Body(s)) = 13
      BY <1>6, Lengths
    <3>1. Len(Body(s)) + 1 = 14
      BY <3>0
    <3> QED BY <3>1, Zenon
  <2> QED BY <1>6, <2>1 DEF StateAt, ObservabilityAt, Ended
<1> QED BY <1>1, <1>2, <1>3, <1>4, <1>5, <1>6 DEF Names

(***************************************************************************)
(* The invariant.                                                          *)
(***************************************************************************)
\* The type invariant in the form the proofs use.
LEMMA Typed ==
    ASSUME TypeInv
    PROVE  /\ script \in Names /\ k \in Clusters /\ Len(Body(script)) \in Nat
           /\ at \in 1 .. Len(Body(script)) + 1
           /\ faults \in Nat /\ cleanFaults \in Nat /\ cleanFaults <= faults
           /\ exit \in {0, 1, Running}
<1>1. script \in Names
  BY DrillsAssumption DEF TypeInv, TypeOK, Names
<1>2. Len(Body(script)) \in Nat
  BY <1>1, Lengths
<1> QED BY <1>1, <1>2, DrillsAssumption DEF TypeInv, TypeOK

\* A cluster of the model has its type.
LEMMA ClusterTyped == ASSUME NEW c \in Clusters PROVE ClusterTypeOK(c)
BY DEF Clusters, ClusterTypeOK

\* A step that keeps to the types of the variables keeps the type invariant.
LEMMA Retyped ==
    ASSUME TypeInv, UNCHANGED script, k' \in Clusters,
           phase' \in {"main", "up", "body", "unwind", "except", "replicas", "restore", "down", "done"},
           at' \in 1 .. Len(Body(script)) + 1, raised' \in {"none", "caught", "uncaught"},
           armed' \in BOOLEAN, owned' \in BOOLEAN, restored' \in BOOLEAN, forward' \in BOOLEAN,
           passed' \in BOOLEAN, exit' \in {0, 1, Running}, faults' \in 0 .. MaxFaults,
           cleanFaults' \in 0 .. faults'
    PROVE  TypeInv'
<1>1. ClusterTypeOK(k')
  BY ClusterTyped
<1>2. {armed', owned', restored', forward', passed'} \subseteq BOOLEAN
  BY Zenon
<1> QED BY <1>1, <1>2 DEF TypeInv, TypeOK

\* The scripts start with nothing done.
LEMMA InitInv == Init => CoreInv
<1> SUFFICES ASSUME Init PROVE CoreInv
  OBVIOUS
<1>1. Initial(k) /\ script \in Names
  BY DrillsAssumption DEF Init, Initial, Names
<1>2. k \in Clusters /\ ClusterTypeOK(k) /\ Len(Body(script)) \in Nat
  BY <1>1, Initially, ClusterTyped, Lengths
<1>3. {armed, owned, restored, forward, passed} \subseteq BOOLEAN
  BY Zenon DEF Init
<1>4. TypeInv
  BY <1>2, <1>3, DrillsAssumption DEF Init, TypeInv, TypeOK, Running
<1>5. StartInv
  BY <1>1 DEF Init, StartInv
<1> QED BY <1>4, <1>5 DEF Init, CoreInv, BodyInv, EndInv, CleanInv, VerdictInv, Ending, Running

\* main decides whether it owns the cluster.
LEMMA MainStep == ASSUME CoreInv, Main PROVE CoreInv'
<1>0. /\ TypeInv /\ StartInv /\ BodyInv /\ EndInv /\ CleanInv /\ VerdictInv
      /\ script \in Names /\ k \in Clusters
  BY Typed DEF CoreInv
<1>1. /\ Initial(k) /\ raised = "none" /\ at = 1 /\ ~restored /\ ~forward /\ passed /\ phase = "main"
      /\ k.present \in BOOLEAN
  BY <1>0 DEF Main, StartInv, Clusters
<1>2. /\ UNCHANGED script /\ UNCHANGED k /\ UNCHANGED at /\ UNCHANGED raised /\ UNCHANGED armed
      /\ UNCHANGED restored /\ UNCHANGED forward /\ UNCHANGED passed /\ UNCHANGED exit
      /\ UNCHANGED faults /\ UNCHANGED cleanFaults
  BY DEF Main
<1>3. \/ phase' = "up" /\ owned' /\ Framed /\ ~k.present
      \/ phase' = "body" /\ ~owned' /\ (Framed => k.present)
  BY DEF Main
<1>4. TypeInv'
  <2>1. owned' \in BOOLEAN
    BY Zenon DEF Main
  <2>2. armed' \in BOOLEAN /\ restored' \in BOOLEAN /\ forward' \in BOOLEAN /\ passed' \in BOOLEAN
    BY <1>0, <1>2, Zenon DEF TypeInv, TypeOK
  <2> QED BY <1>0, <1>2, <1>3, <2>1, <2>2, Retyped DEF TypeInv, TypeOK
<1>5. StartInv'
  BY <1>1, <1>2, <1>3 DEF StartInv, Framed
<1>6. BodyInv'
  <2>1. phase' = "body" => StateAt(script, k, 1) /\ at \in 1 .. Len(Body(script))
    BY <1>0, <1>1, <1>3, Beginning, Lengths DEF Framed
  <2> QED BY <1>1, <1>2, <2>1 DEF BodyInv
<1>7. EndInv' /\ CleanInv' /\ VerdictInv'
  BY <1>0, <1>1, <1>2, <1>3 DEF EndInv, CleanInv, VerdictInv, Ending
<1> QED BY <1>4, <1>5, <1>6, <1>7 DEF CoreInv

\* cluster_up, which may fail with or without a cluster made.
LEMMA UpStep == ASSUME CoreInv, Up PROVE CoreInv'
<1>0. /\ TypeInv /\ StartInv /\ BodyInv /\ EndInv /\ CleanInv /\ VerdictInv
      /\ script \in Names /\ k \in Clusters
  BY Typed DEF CoreInv
<1>1. /\ Initial(k) /\ raised = "none" /\ at = 1 /\ ~restored /\ ~forward /\ passed /\ phase = "up"
      /\ owned /\ ~k.present /\ Framed
  BY <1>0 DEF Up, StartInv
<1>2. /\ UNCHANGED script /\ UNCHANGED at /\ UNCHANGED armed /\ UNCHANGED owned
      /\ UNCHANGED restored /\ UNCHANGED forward /\ UNCHANGED passed /\ UNCHANGED exit
      /\ UNCHANGED cleanFaults
  BY DEF Up
<1>3. cluster_up(k) = [NoCluster EXCEPT !.present = TRUE]
  BY <1>1 DEF cluster_up
<1>4. PICK m : m = cluster_up(k)
  OBVIOUS
<1>5. Initial(m) /\ m \in Clusters /\ m.present
  <2>1. Initial(m)
    BY <1>3, <1>4 DEF Initial
  <2> QED BY <1>3, <1>4, <2>1, Initially DEF NoCluster
<1>6. \/ k' = m /\ phase' = "body" /\ raised' = "none" /\ faults' = faults
      \/ /\ faults < MaxFaults /\ faults' = faults + 1 /\ k' \in {k, m}
         /\ raised' \in {"caught", "uncaught"} /\ phase' = "unwind"
  BY <1>1, <1>4 DEF Up, Fault
<1>7. faults \in 0 .. MaxFaults /\ cleanFaults \in 0 .. faults /\ MaxFaults \in Nat
  BY <1>0, DrillsAssumption DEF TypeInv, TypeOK
<1>8. TypeInv'
  <2>1. /\ owned' \in BOOLEAN /\ armed' \in BOOLEAN /\ restored' \in BOOLEAN /\ forward' \in BOOLEAN
        /\ passed' \in BOOLEAN
    BY <1>0, <1>2, Zenon DEF TypeInv, TypeOK
  <2>2. k' \in Clusters /\ faults' \in 0 .. MaxFaults /\ cleanFaults' \in 0 .. faults'
    BY <1>0, <1>2, <1>5, <1>6, <1>7
  <2>3. /\ at' \in 1 .. Len(Body(script)) + 1 /\ exit' \in {0, 1, Running}
        /\ raised' \in {"none", "caught", "uncaught"} /\ phase' \in {"body", "unwind"}
    BY <1>0, <1>2, <1>6 DEF TypeInv, TypeOK
  <2> QED BY <1>0, <1>2, <2>1, <2>2, <2>3, Retyped
<1>9. StartInv'
  BY <1>1, <1>2, <1>5, <1>6 DEF StartInv, Framed
<1>10. BodyInv'
  <2>1. StateAt(script, m, 1) /\ 1 \in 1 .. Len(Body(script))
    BY <1>0, <1>5, Beginning, Lengths
  <2> QED BY <1>1, <1>2, <1>6, <2>1 DEF BodyInv
<1>11. EndInv' /\ CleanInv'
  BY <1>1, <1>2, <1>6 DEF EndInv, CleanInv, Ending, Framed
<1>12. VerdictInv'
  BY <1>0, <1>1, <1>2, <1>6, <1>7 DEF VerdictInv, Ending, Framed, Running
<1> QED BY <1>8, <1>9, <1>10, <1>11, <1>12 DEF CoreInv

\* An exception leads into the finally block around the step, or out.
LEMMA RaiseLeads ==
    ASSUME CoreInv, phase = "body", NEW kind \in {"caught", "uncaught"}, Raise(kind)
    PROVE  /\ raised' \in {"caught", "uncaught"} /\ at' \in 1 .. Len(Body(script))
           /\ \/ /\ phase' = "body" /\ at' > at /\ UndoOf(Step) # "none"
                 /\ Body(script)[at'] = UndoOf(Step)
              \/ phase' = "unwind" /\ at' = at /\ ~Undoes(Step)
<1>0. /\ script \in Names /\ at \in 1 .. Len(Body(script)) /\ raised \in {"none", "caught", "uncaught"}
  BY Typed DEF CoreInv, BodyInv, TypeInv, TypeOK
<1>1. raised' \in {"caught", "uncaught"}
  BY <1>0 DEF Raise
<1>2. CASE Undoes(Step)
  <2>1. UndoOf(Step) # "none"
    BY <1>2 DEF Undoes
  <2>2. \E j \in at + 1 .. Len(Body(script)) : Body(script)[j] = UndoOf(Step)
    BY <1>0, <2>1, Undo DEF Step
  <2>3. at' \in at + 1 .. Len(Body(script)) /\ Body(script)[at'] = UndoOf(Step)
    BY <1>2, <2>2 DEF Raise
  <2>4. Len(Body(script)) \in Nat
    BY <1>0, Lengths
  <2> QED BY <1>0, <1>1, <1>2, <2>1, <2>3, <2>4 DEF Raise
<1>3. CASE ~Undoes(Step)
  BY <1>0, <1>1, <1>3 DEF Raise
<1> QED BY <1>2, <1>3

\* Where observability_runtime leaves its body with an exception, what is
\* installed is as it was found, or the healing failed.
LEMMA ObservabilityRaises ==
    ASSUME CoreInv, phase = "body", ~Framed, NEW c \in {k, Effect(Step)}, ~Undoes(Step),
           Step # "heal_alerts"
    PROVE  c.present /\ release_exists(c) => IsNormal(c)
<1>1. /\ raised = "none" /\ ObservabilityAt(k, at) /\ at \in 1 .. 13 /\ k \in Clusters
      /\ Step = (smoke_base \o smoke_alerts)[at]
  <2>1. script = "observability" /\ script \in Names /\ k \in Clusters
    BY Typed DEF CoreInv, Framed
  <2>2. Len(Body(script)) = 13 /\ Body(script) = smoke_base \o smoke_alerts
    BY <2>1, Lengths
  <2>3. at \in 1 .. Len(Body(script)) /\ raised = "none" /\ StateAt(script, k, at)
    BY DEF CoreInv, BodyInv
  <2>4. at \in 1 .. 13
    BY <2>2, <2>3
  <2>5. ObservabilityAt(k, at)
    BY <2>1, <2>3 DEF StateAt
  <2>6. Step = (smoke_base \o smoke_alerts)[at]
    BY <2>2, Zenon DEF Step
  <2> QED BY <2>1, <2>3, <2>4, <2>5, <2>6
<1>2. PICK s : s = Step
  OBVIOUS
<1>3. /\ at \in 7 .. 9 => UndoOf(s) = "heal_alerts"
      /\ at < 7 => Effect(s) = k
      /\ at = 10 => s = "heal_alerts"
      /\ at > 10 => Effect(s) = k \/ s = "await_terminal"
  BY <1>1, <1>2, ObservabilitySteps
<1>4. at \notin 7 .. 9 /\ at # 10
  BY <1>2, <1>3 DEF Undoes
<1>5. CASE at < 7
  <2>1. at < 8
    BY <1>1, <1>5
  <2>2. Initial(k)
    BY <1>1, <2>1 DEF ObservabilityAt
  <2>3. c = k
    BY <1>2, <1>3, <1>5
  <2> QED BY <2>2, <2>3, Initially
<1>6. CASE at > 10
  <2>1. IsNormal(k)
    BY <1>1, <1>6 DEF ObservabilityAt
  <2>2. s = "await_terminal" => IsNormal(Effect(s))
    BY <1>1, <2>1, Outcomes DEF IsNormal
  <2> QED BY <1>2, <1>3, <1>6, <2>1, <2>2
<1> QED BY <1>1, <1>4, <1>5, <1>6

\* A check that failed, or a command, with or without its effect.
LEMMA RaiseStep ==
    ASSUME CoreInv, phase = "body", NEW kind \in {"caught", "uncaught"}, Raise(kind),
           UNCHANGED script, UNCHANGED armed, UNCHANGED owned, UNCHANGED restored,
           UNCHANGED passed, UNCHANGED exit, k' \in {k, Effect(Step)},
           forward' \in BOOLEAN, faults' \in 0 .. MaxFaults, cleanFaults' \in 0 .. faults',
           cleanFaults' >= cleanFaults,
           \/ faults' = faults /\ k' = k /\ ~Permits(Step)
           \/ faults' = faults + 1 /\ (Step = "heal_alerts" => cleanFaults' = cleanFaults + 1)
    PROVE  CoreInv'
<1>0. /\ TypeInv /\ StartInv /\ BodyInv /\ EndInv /\ CleanInv /\ VerdictInv
      /\ script \in Names /\ k \in Clusters /\ faults \in Nat /\ cleanFaults \in Nat
      /\ Len(Body(script)) \in Nat
  BY Typed DEF CoreInv
<1>1. /\ raised' \in {"caught", "uncaught"} /\ at' \in 1 .. Len(Body(script))
      /\ \/ phase' = "body" /\ UndoOf(Step) # "none" /\ Body(script)[at'] = UndoOf(Step)
         \/ phase' = "unwind" /\ at' = at /\ ~Undoes(Step)
  BY RaiseLeads
<1>2. k' \in Clusters /\ k'.present = k.present
  BY <1>0, EffectKeeps
<1>3. TypeInv'
  <2>1. /\ owned' \in BOOLEAN /\ armed' \in BOOLEAN /\ restored' \in BOOLEAN /\ passed' \in BOOLEAN
    BY <1>0, Zenon DEF TypeInv, TypeOK
  <2>2. exit' \in {0, 1, Running} /\ at' \in 1 .. Len(Body(script)) + 1
    BY <1>0, <1>1 DEF TypeInv, TypeOK
  <2> QED BY <1>0, <1>1, <1>2, <2>1, <2>2, Retyped
<1>4. StartInv'
  BY <1>0, <1>1, <1>2 DEF StartInv, Framed
<1>5. at \in 1 .. Len(Body(script)) /\ Step = Body(script)[at]
  BY <1>0 DEF BodyInv, Step
<1>6. ~Framed => \/ at \in 7 .. 9 /\ UndoOf(Step) = "heal_alerts"
                 \/ at \notin 7 .. 9 /\ UndoOf(Step) = "none"
  <2>1. ~Framed => at \in 1 .. 13 /\ Step = (smoke_base \o smoke_alerts)[at]
    <3>1. ~Framed => Len(Body(script)) = 13 /\ Body(script) = smoke_base \o smoke_alerts
      BY <1>0, Lengths DEF Framed
    <3> QED BY <1>5, <3>1, Zenon
  <2>2. PICK s : s = Step
    OBVIOUS
  <2> QED BY <2>1, <2>2, ObservabilitySteps
<1>7. BodyInv'
  <2>1. restored => Step = "verify_final_runtime" /\ script = "smoke" /\ (k.present => IsNormal(k))
    BY <1>0 DEF BodyInv
  <2>2. restored => k' = k /\ phase' = "unwind"
    BY <1>1, <2>1, Checks, Blocks DEF Commanding
  <2>3. phase' = "body" /\ ~Framed => Body(script)[at'] = "heal_alerts"
    BY <1>1, <1>6
  <2> QED BY <1>1, <2>1, <2>2, <2>3 DEF BodyInv, Framed, Step
<1>8. EndInv'
  BY <1>1 DEF EndInv, Ending
<1>9. CleanInv'
  <2>1. ASSUME phase' = "unwind", ~Framed, k'.present, release_exists(k'), cleanFaults' = 0
        PROVE  IsNormal(k')
    <3>1. Step # "heal_alerts"
      <4>1. Step = "heal_alerts" => Permits(Step)
        BY DEF Permits
      <4> QED BY <1>0, <2>1, <4>1
    <3>2. ~Undoes(Step)
      BY <1>1, <2>1
    <3> QED BY <2>1, <3>1, <3>2, ObservabilityRaises
  <2> QED BY <1>1, <2>1 DEF CleanInv, Ending, Framed
<1>10. VerdictInv'
  <2>1. exit = Running
    BY <1>0 DEF VerdictInv
  <2>2. faults' = 0 => phase' # "body" /\ ~Framed /\ ~release_exists(k')
    <3> SUFFICES ASSUME faults' = 0 PROVE phase' # "body" /\ ~Framed /\ ~release_exists(k')
      OBVIOUS
    <3>1. faults = 0 /\ k' = k /\ ~Permits(Step)
      BY <1>0
    <3>2. raised = "none"
      BY <1>0, <3>1 DEF VerdictInv
    <3>3. StateAt(script, k, at)
      BY <1>0, <3>2 DEF BodyInv
    <3>4. script = "observability" /\ at < 7 /\ ~release_exists(k)
      BY <1>0, <1>5, <3>1, <3>3, BodyRun
    <3>5. UndoOf(Step) = "none"
      BY <1>5, <1>6, <3>4 DEF Framed
    <3> QED BY <1>1, <3>1, <3>4, <3>5 DEF Framed
  <2> QED BY <1>0, <1>1, <2>1, <2>2 DEF VerdictInv, Ending, Framed, Running
<1> QED BY <1>3, <1>4, <1>7, <1>8, <1>9, <1>10 DEF CoreInv

\* A check runs into its deadline.
LEMMA CheckFailsStep == ASSUME CoreInv, CheckFails PROVE CoreInv'
<1>1. /\ phase = "body" /\ ~Permits(Step) /\ Raise("caught") /\ UNCHANGED script /\ UNCHANGED k
      /\ UNCHANGED armed /\ UNCHANGED owned /\ UNCHANGED restored /\ UNCHANGED forward
      /\ UNCHANGED passed /\ UNCHANGED exit /\ UNCHANGED faults /\ UNCHANGED cleanFaults
  BY DEF CheckFails
<1>2. forward' \in BOOLEAN
  BY <1>1, Zenon DEF CoreInv, TypeInv, TypeOK
<1>3. faults' \in 0 .. MaxFaults /\ cleanFaults' \in 0 .. faults' /\ cleanFaults' >= cleanFaults
  BY <1>1, Typed DEF CoreInv, TypeInv, TypeOK
<1> QED BY <1>1, <1>2, <1>3, RaiseStep

\* A command fails, before or after its effect.
LEMMA CommandFailsStep == ASSUME CoreInv, CommandFails PROVE CoreInv'
<1>1. /\ phase = "body" /\ faults < MaxFaults /\ faults' = faults + 1 /\ k' \in {k, Effect(Step)}
      /\ cleanFaults' = (IF Step = "heal_alerts" THEN cleanFaults + 1 ELSE cleanFaults)
      /\ UNCHANGED script /\ UNCHANGED armed /\ UNCHANGED owned /\ UNCHANGED restored
      /\ UNCHANGED passed /\ UNCHANGED exit
  BY DEF CommandFails, Fault
<1>2. PICK kind \in {"caught", "uncaught"} : Raise(kind)
  BY DEF CommandFails
<1>3. forward' \in BOOLEAN
  BY Zenon DEF CommandFails
<1>4. faults \in 0 .. MaxFaults /\ cleanFaults \in 0 .. faults /\ MaxFaults \in Nat
  BY DrillsAssumption DEF CoreInv, TypeInv, TypeOK
<1>5. faults' \in 0 .. MaxFaults /\ cleanFaults' \in 0 .. faults' /\ cleanFaults' >= cleanFaults
  BY <1>1, <1>4
<1> QED BY <1>1, <1>2, <1>3, <1>5, RaiseStep

\* A step of the body succeeds.
LEMMA SucceedStep == ASSUME CoreInv, Succeed PROVE CoreInv'
<1>0. /\ TypeInv /\ StartInv /\ BodyInv /\ EndInv /\ CleanInv /\ VerdictInv
      /\ script \in Names /\ k \in Clusters /\ faults \in Nat /\ cleanFaults \in Nat
      /\ Len(Body(script)) \in Nat
  BY Typed DEF CoreInv
<1>1. /\ phase = "body" /\ Permits(Step) /\ k' = Effect(Step) /\ UNCHANGED script /\ UNCHANGED owned
      /\ UNCHANGED passed /\ UNCHANGED exit /\ UNCHANGED faults /\ UNCHANGED cleanFaults
      /\ raised' = raised /\ (restored' <=> (restored \/ Step = "restore_normal"))
  BY DEF Succeed, Continue
<1>2. at \in 1 .. Len(Body(script)) /\ Step = Body(script)[at] /\ raised \in {"none", "caught", "uncaught"}
  BY <1>0, <1>1 DEF BodyInv, Step, TypeInv, TypeOK
<1>3. \/ raised # "none" /\ Step # "heal_sink" /\ at' = at /\ phase' = "unwind"
      \/ /\ raised = "none" \/ Step = "heal_sink"
         /\ at' = at + 1
         /\ \/ at = Len(Body(script)) /\ phase' = "unwind"
            \/ at # Len(Body(script)) /\ phase' = "body"
  BY DEF Succeed, Continue
<1>4. k' \in Clusters /\ k'.present = k.present /\ (release_exists(k) => release_exists(k'))
  BY <1>0, <1>1, EffectKeeps
<1>5. TypeInv'
  <2>1. forward' \in BOOLEAN /\ owned' \in BOOLEAN /\ passed' \in BOOLEAN
    BY <1>0, <1>1, Zenon DEF TypeInv, TypeOK, Succeed
  <2>2. armed' \in BOOLEAN /\ restored' \in BOOLEAN
    BY Zenon DEF Succeed
  <2>3. at' \in 1 .. Len(Body(script)) + 1 /\ phase' \in {"body", "unwind"}
    BY <1>0, <1>2, <1>3
  <2>4. exit' \in {0, 1, Running} /\ faults' \in 0 .. MaxFaults /\ cleanFaults' \in 0 .. faults'
    BY <1>0, <1>1 DEF TypeInv, TypeOK
  <2> QED BY <1>0, <1>1, <1>2, <1>4, <2>1, <2>2, <2>3, <2>4, Retyped
<1>6. StartInv'
  BY <1>0, <1>1, <1>3, <1>4 DEF StartInv, Framed
<1>7. raised = "none" => StateAt(script, k', at + 1)
  <2>1. raised = "none" => StateAt(script, k, at)
    BY <1>0, <1>1 DEF BodyInv
  <2> QED BY <1>0, <1>1, <1>2, <2>1, BodyRun
<1>8. ~Framed /\ raised # "none" => Step = "heal_alerts"
  BY <1>0, <1>1 DEF BodyInv
<1>9. BodyInv'
  <2>1. phase' = "body" => at' \in 1 .. Len(Body(script))
    BY <1>0, <1>2, <1>3
  <2>2. phase' = "body" /\ raised' = "none" => StateAt(script, k', at')
    BY <1>1, <1>3, <1>7
  <2>3. phase' = "body" /\ raised' # "none" /\ ~Framed => Body(script)[at'] = "heal_alerts"
    BY <1>1, <1>3, <1>8
  <2>4. ASSUME restored'
        PROVE  /\ script = "smoke" /\ (k'.present => IsNormal(k'))
               /\ phase' = "body" => Body(script)[at'] = "verify_final_runtime"
    <3>1. CASE Step = "restore_normal"
      <4>1. script = "smoke" /\ at = 49 /\ Body(script)[50] = "verify_final_runtime"
        <5>1. script \in Names /\ at \in 1 .. Len(Body(script)) /\ Body(script)[at] = "restore_normal"
          BY <1>0, <1>2, <3>1 DEF Step
        <5> QED BY ONLY <5>1, Restoration
      <4>2. IsNormal(k')
        BY <1>0, <1>1, <3>1, Outcomes
      <4>3. phase' = "body" => at' = 50
        BY <1>3, <4>1
      <4> QED BY <4>1, <4>2, <4>3
    <3>2. CASE restored /\ Step # "restore_normal"
      <4>1. script = "smoke" /\ (k.present => IsNormal(k)) /\ Step = "verify_final_runtime"
        BY <1>0, <1>1, <3>2 DEF BodyInv
      <4>2. k' = k
        BY <1>1, <4>1, Checks DEF Commanding
      <4>3. Len(Body(script)) = 50 /\ Body(script) = Smoke
        BY <1>0, <4>1, Lengths
      <4>4. Smoke[at] = "verify_final_runtime"
        BY <1>2, <4>1, <4>3, Zenon
      <4>5. at \in 1 .. 50
        BY <1>2, <4>3
      <4>6. at = 50
        BY <4>4, <4>5, LastCheck
      <4>7. phase' = "unwind"
        BY <1>3, <4>1, <4>3, <4>6
      <4> QED BY <4>1, <4>2, <4>7
    <3> QED BY <1>1, <2>4, <3>1, <3>2
  <2> QED BY <1>1, <2>1, <2>2, <2>3, <2>4 DEF BodyInv, Framed, Step
<1>10. raised = "none" /\ phase' = "unwind" =>
          /\ Framed => k'.present /\ release_exists(k') /\ Rests(k')
          /\ ~Framed => IsNormal(k') /\ Ended(k')
  <2>1. raised = "none" /\ phase' = "unwind" => StateAt(script, k', Len(Body(script)) + 1)
    BY <1>3, <1>7
  <2> QED BY <1>0, <2>1, BodyEnd DEF Framed
<1>11. EndInv'
  BY <1>1, <1>3, <1>10 DEF EndInv, Ending, Framed
<1>12. CleanInv'
  <2>1. phase' = "unwind" /\ ~Framed => IsNormal(k')
    <3>1. Step = "heal_alerts" => IsNormal(k')
      BY <1>0, <1>1, Outcomes
    <3> QED BY <1>8, <1>10, <3>1
  <2> QED BY <1>1, <1>3, <2>1 DEF CleanInv, Ending, Framed
<1>13. VerdictInv'
  BY <1>0, <1>1, <1>3 DEF VerdictInv, Ending, Framed
<1> QED BY <1>5, <1>6, <1>9, <1>11, <1>12, <1>13 DEF CoreInv

\* The port-forward ends with the body, and the exception goes to main.
LEMMA UnwindStep == ASSUME CoreInv, Unwind PROVE CoreInv'
<1>0. /\ TypeInv /\ StartInv /\ BodyInv /\ EndInv /\ CleanInv /\ VerdictInv
  BY DEF CoreInv
<1>1. /\ phase = "unwind" /\ forward' = FALSE
      /\ phase' = (IF raised = "caught" THEN "except" ELSE "replicas")
      /\ UNCHANGED script /\ UNCHANGED k /\ UNCHANGED at /\ UNCHANGED raised /\ UNCHANGED armed
      /\ UNCHANGED owned /\ UNCHANGED restored /\ UNCHANGED passed /\ UNCHANGED exit
      /\ UNCHANGED faults /\ UNCHANGED cleanFaults
  BY DEF Unwind
<1>2. TypeInv'
  <2>1. /\ owned' \in BOOLEAN /\ armed' \in BOOLEAN /\ restored' \in BOOLEAN /\ passed' \in BOOLEAN
        /\ forward' \in BOOLEAN
    BY <1>0, <1>1, Zenon DEF TypeInv, TypeOK
  <2> QED BY <1>0, <1>1, <2>1, Retyped DEF TypeInv, TypeOK
<1>3. StartInv' /\ BodyInv'
  BY <1>0, <1>1 DEF StartInv, BodyInv, Framed
<1>4. EndInv' /\ CleanInv' /\ VerdictInv'
  BY <1>0, <1>1 DEF EndInv, CleanInv, VerdictInv, Ending, Framed
<1> QED BY <1>2, <1>3, <1>4 DEF CoreInv

\* The handler of main notes the failure.
LEMMA ExceptStep == ASSUME CoreInv, Except PROVE CoreInv'
<1>0. /\ TypeInv /\ StartInv /\ BodyInv /\ EndInv /\ CleanInv /\ VerdictInv
      /\ faults \in 0 .. MaxFaults /\ cleanFaults \in 0 .. faults /\ MaxFaults \in Nat
  BY DrillsAssumption DEF CoreInv, TypeInv, TypeOK
<1>1. /\ phase = "except" /\ passed' = FALSE /\ phase' = "replicas"
      /\ UNCHANGED script /\ UNCHANGED k /\ UNCHANGED at /\ UNCHANGED armed
      /\ UNCHANGED owned /\ UNCHANGED restored /\ UNCHANGED forward /\ UNCHANGED exit
      /\ UNCHANGED cleanFaults
  BY DEF Except
<1>2. \/ raised' = raised /\ faults' = faults
      \/ raised' = "uncaught" /\ faults < MaxFaults /\ faults' = faults + 1
  BY DEF Except, Fault
<1>3. raised # "none"
  BY <1>0, <1>1 DEF EndInv, Ending
<1>4. TypeInv'
  <2>1. /\ owned' \in BOOLEAN /\ armed' \in BOOLEAN /\ restored' \in BOOLEAN /\ passed' \in BOOLEAN
        /\ forward' \in BOOLEAN
    BY <1>0, <1>1, Zenon DEF TypeInv, TypeOK
  <2>2. faults' \in 0 .. MaxFaults /\ cleanFaults' \in 0 .. faults'
    BY <1>0, <1>1, <1>2
  <2> QED BY <1>0, <1>1, <1>2, <2>1, <2>2, Retyped DEF TypeInv, TypeOK
<1>5. StartInv' /\ BodyInv'
  BY <1>0, <1>1 DEF StartInv, BodyInv, Framed
<1>6. EndInv' /\ CleanInv'
  BY <1>0, <1>1, <1>2, <1>3 DEF EndInv, CleanInv, Ending, Framed
<1>7. VerdictInv'
  BY <1>0, <1>1, <1>2, <1>3 DEF VerdictInv, Ending, Framed, Running
<1> QED BY <1>4, <1>5, <1>6, <1>7 DEF CoreInv

\* One step of main's finally, done, skipped or failed.  What it wants leaves a
\* release, or takes away the cluster main owns.
LEMMA RestoringStep ==
    ASSUME CoreInv, NEW here, NEW next, NEW wanted \in BOOLEAN, NEW after,
           Restoring(here, next, wanted, after),
           <<here, next>> \in {<<"replicas", "restore">>, <<"restore", "down">>, <<"down", "done">>},
           wanted => /\ after \in Clusters /\ Framed /\ (Rests(k) => Rests(after))
                     /\ next # "done" => ~restored /\ after.present = k.present /\ release_exists(after)
                     /\ next = "done" => owned /\ ~after.present,
           next = "done" /\ owned => wanted,
           next = "down" /\ wanted => IsNormal(after),
           next = "down" /\ ~wanted /\ Framed /\ k.present /\ release_exists(k) => IsNormal(k)
    PROVE  CoreInv'
<1>0. /\ TypeInv /\ StartInv /\ BodyInv /\ EndInv /\ CleanInv /\ VerdictInv
      /\ k \in Clusters
      /\ faults \in 0 .. MaxFaults /\ cleanFaults \in 0 .. faults /\ MaxFaults \in Nat
  BY DrillsAssumption, Typed DEF CoreInv, TypeInv, TypeOK
<1>1. /\ phase = here /\ UNCHANGED script /\ UNCHANGED at /\ UNCHANGED raised /\ UNCHANGED armed
      /\ UNCHANGED owned /\ UNCHANGED restored /\ UNCHANGED forward
  BY DEF Restoring
<1>2. /\ phase \in {"replicas", "restore", "down"} /\ next \in {"restore", "down", "done"}
      /\ (phase = "restore" <=> next = "down") /\ (phase = "down" <=> next = "done")
  BY <1>1
<1>3. \/ /\ (~wanted /\ k' = k) \/ (wanted /\ k' = after)
         /\ phase' = next /\ UNCHANGED passed /\ UNCHANGED exit /\ UNCHANGED faults /\ UNCHANGED cleanFaults
      \/ /\ faults < MaxFaults /\ faults' = faults + 1 /\ cleanFaults' = cleanFaults + 1
         /\ k' = k \/ (wanted /\ k' = after)
         /\ \/ passed' = FALSE /\ phase' = next /\ UNCHANGED exit
            \/ exit' = 1 /\ phase' = "done" /\ UNCHANGED passed
  BY DEF Restoring, Fault
<1>4. k' = k \/ (wanted /\ k' = after)
  BY <1>3
<1>5. exit = Running
  BY <1>0, <1>2 DEF VerdictInv
<1>6. TypeInv'
  <2>1. /\ owned' \in BOOLEAN /\ armed' \in BOOLEAN /\ restored' \in BOOLEAN /\ forward' \in BOOLEAN
    BY <1>0, <1>1, Zenon DEF TypeInv, TypeOK
  <2>2. passed \in BOOLEAN
    BY <1>0, Zenon DEF TypeInv, TypeOK
  <2>3. passed' \in BOOLEAN
    BY <1>3, <2>2, Zenon
  <2>4. faults' \in 0 .. MaxFaults /\ cleanFaults' \in 0 .. faults'
    BY <1>0, <1>3
  <2>5. k' \in Clusters /\ phase' \in {"restore", "down", "done"} /\ exit' \in {0, 1, Running}
    BY <1>0, <1>2, <1>3, <1>4, <1>5
  <2> QED BY <1>0, <1>1, <2>1, <2>3, <2>4, <2>5, Retyped DEF TypeInv, TypeOK
<1>7. StartInv'
  BY <1>0, <1>1, <1>2, <1>3, <1>4 DEF StartInv, Framed
<1>8. BodyInv'
  <2>1. restored => script = "smoke" /\ (k'.present => IsNormal(k'))
    BY <1>0, <1>2, <1>4 DEF BodyInv
  <2>2. phase' # "body"
    BY <1>2, <1>3
  <2> QED BY <1>1, <2>1, <2>2 DEF BodyInv
<1>9. EndInv'
  <2>1. phase \in Ending /\ phase # "done" /\ phase # "unwind" /\ phase' # "except"
    BY <1>2, <1>3 DEF Ending
  <2>2. raised = "none" => (Framed => Rests(k')) /\ (~Framed => IsNormal(k') /\ Ended(k'))
    BY <1>0, <1>4, <2>1 DEF EndInv
  <2>3. raised = "none" /\ Framed /\ (phase' # "done" \/ ~owned) => k'.present /\ release_exists(k')
    BY <1>0, <1>2, <1>3, <1>4, <2>1 DEF EndInv
  <2>4. ~forward
    BY <1>0, <2>1 DEF EndInv
  <2> QED BY <1>1, <2>1, <2>2, <2>3, <2>4 DEF EndInv, Framed
<1>10. CleanInv'
  <2> SUFFICES ASSUME cleanFaults' = 0
               PROVE  /\ (phase' \in {"down", "done"} \/ (phase' \in Ending /\ ~Framed))
                         /\ k'.present /\ release_exists(k') => IsNormal(k')
                      /\ phase' = "done" /\ owned => ~k'.present
    BY <1>1 DEF CleanInv, Framed
  <2>1. /\ (~wanted /\ k' = k) \/ (wanted /\ k' = after)
        /\ phase' = next /\ cleanFaults = 0
    BY <1>0, <1>3
  <2>2. CASE wanted
    BY <1>2, <2>1, <2>2
  <2>3. CASE ~wanted
    BY <1>0, <1>2, <2>1, <2>3 DEF CleanInv, Ending
  <2> QED BY <2>2, <2>3
<1>11. VerdictInv'
  <2>1. (exit' # Running => phase' = "done") /\ exit' # 0
    BY <1>2, <1>3, <1>5 DEF Running
  <2>2. passed' => raised # "caught"
    BY <1>0, <1>2, <1>3 DEF VerdictInv, Ending
  <2>3. cleanFaults' # 0 /\ passed' /\ raised = "none" => exit' = 1
    BY <1>0, <1>3, <1>5 DEF VerdictInv, Running
  <2>4. faults' = 0 => /\ raised = "none" => passed' /\ exit' # 1
                       /\ raised # "none" => ~Framed /\ ~release_exists(k')
    BY <1>0, <1>3, <1>4, <1>5 DEF VerdictInv, Running
  <2>5. phase' # "body"
    BY <1>2, <1>3
  <2> QED BY <1>1, <2>1, <2>2, <2>3, <2>4, <2>5 DEF VerdictInv, Framed
<1> QED BY <1>6, <1>7, <1>8, <1>9, <1>10, <1>11 DEF CoreInv

\* The replicas of Redis or the worker, put back first.
LEMMA RestoreReplicasStep == ASSUME CoreInv, RestoreReplicas PROVE CoreInv'
<1>0. k \in Clusters /\ k.present \in BOOLEAN
  BY Typed DEF CoreInv, Clusters
<1>1. PICK w \in BOOLEAN : w <=> k.present /\ script \in {"redis", "worker"} /\ release_exists(k)
  OBVIOUS
<1>2. PICK after : after = IF script = "redis" THEN scale_redis(k, 1) ELSE scale_worker(k, 1)
  OBVIOUS
<1>3. after \in Clusters /\ after.present = k.present /\ after.release = k.release /\ after.event = k.event
  <2>1. PICK n \in 0 .. 1 : n = 1
    OBVIOUS
  <2> QED BY <1>0, <1>2, <2>1, KubectlSets
<1>4. Restoring("replicas", "restore", w, after)
  BY <1>1, <1>2, Zenon DEF RestoreReplicas, Restoring
<1>5. w => ~restored /\ Framed
  BY <1>1 DEF CoreInv, BodyInv, Framed
<1> QED BY <1>1, <1>3, <1>4, <1>5, RestoringStep DEF Rests, release_exists

\* kubectl finds nothing to scale.
LEMMA NoReplicasStep == ASSUME CoreInv, NoReplicas PROVE CoreInv'
<1>0. /\ TypeInv /\ StartInv /\ BodyInv /\ EndInv /\ CleanInv /\ VerdictInv
  BY DEF CoreInv
<1>1. /\ phase = "replicas" /\ script \in {"redis", "worker"} /\ ~release_exists(k)
      /\ passed' = FALSE /\ phase' = "restore"
      /\ UNCHANGED script /\ UNCHANGED k /\ UNCHANGED at /\ UNCHANGED raised /\ UNCHANGED armed
      /\ UNCHANGED owned /\ UNCHANGED restored /\ UNCHANGED forward /\ UNCHANGED exit
      /\ UNCHANGED faults /\ UNCHANGED cleanFaults
  BY DEF NoReplicas
<1>2. raised # "none" /\ Framed
  BY <1>0, <1>1 DEF EndInv, Ending, Framed
<1>3. TypeInv'
  <2>1. /\ owned' \in BOOLEAN /\ armed' \in BOOLEAN /\ restored' \in BOOLEAN /\ passed' \in BOOLEAN
        /\ forward' \in BOOLEAN
    BY <1>0, <1>1, Zenon DEF TypeInv, TypeOK
  <2> QED BY <1>0, <1>1, <2>1, Retyped DEF TypeInv, TypeOK
<1>4. StartInv' /\ BodyInv'
  BY <1>0, <1>1 DEF StartInv, BodyInv, Framed
<1>5. EndInv' /\ CleanInv'
  BY <1>0, <1>1, <1>2 DEF EndInv, CleanInv, Ending, Framed
<1>6. VerdictInv'
  BY <1>0, <1>1, <1>2 DEF VerdictInv, Ending, Framed, Running
<1> QED BY <1>3, <1>4, <1>5, <1>6 DEF CoreInv

\* restore_normal_release, unless the body of incident_smoke has done it.
LEMMA RestoreReleaseStep == ASSUME CoreInv, RestoreRelease PROVE CoreInv'
<1>0. k \in Clusters /\ k.present \in BOOLEAN /\ restored \in BOOLEAN
  BY Typed, Zenon DEF CoreInv, TypeInv, TypeOK, Clusters
<1>1. PICK w \in BOOLEAN : w <=> Framed /\ k.present /\ release_exists(k) /\ ~restored
  OBVIOUS
<1>2. PICK after : after = Helm(k, Normal)
  OBVIOUS
<1>3. /\ after \in Clusters /\ after.present = k.present /\ after.event = k.event
      /\ after.release = Normal /\ after.live = NormalLive
  <2>1. Normal \in Releases /\ Normal.sink = "accept" /\ Normal.workers = 1
    BY DEF Normal, Values, Releases, SinkModes, Profiles
  <2> QED BY <1>0, <1>2, <2>1, HelmSets DEF NormalLive
<1>4. Restoring("restore", "down", w, after)
  BY <1>1, <1>2, Zenon DEF RestoreRelease, Restoring, restore_normal_release
<1>5. restored /\ k.present => IsNormal(k)
  BY DEF CoreInv, BodyInv
<1>6. release_exists(after) /\ IsNormal(after)
  BY <1>3 DEF release_exists, IsNormal, Normal, Values
<1> QED BY <1>1, <1>3, <1>4, <1>5, <1>6, RestoringStep DEF Rests

\* cluster_down of a cluster main owns.
LEMMA DownStep == ASSUME CoreInv, Down PROVE CoreInv'
<1>0. owned \in BOOLEAN
  BY Zenon DEF CoreInv, TypeInv, TypeOK
<1>1. PICK w \in BOOLEAN : w <=> owned
  BY <1>0
<1>2. PICK after : after = NoCluster
  OBVIOUS
<1>3. after \in Clusters /\ ~after.present /\ after.event = "none"
  <2>1. Initial(after)
    BY <1>2 DEF Initial
  <2> QED BY <1>2, <2>1, Initially DEF NoCluster
<1>4. Restoring("down", "done", w, after)
  BY <1>0, <1>1, <1>2, Zenon DEF Down, Restoring, cluster_down
<1>5. owned => Framed
  BY DEF CoreInv, StartInv
<1> QED BY <1>1, <1>3, <1>4, <1>5, RestoringStep DEF Rests

\* The exit code.
LEMMA FinishStep == ASSUME CoreInv, Finish PROVE CoreInv'
<1>0. /\ TypeInv /\ StartInv /\ BodyInv /\ EndInv /\ CleanInv /\ VerdictInv
  BY DEF CoreInv
<1>1. /\ phase = "done" /\ exit = Running
      /\ exit' = (IF passed /\ raised # "uncaught" THEN 0 ELSE 1)
      /\ UNCHANGED script /\ UNCHANGED k /\ UNCHANGED phase /\ UNCHANGED at /\ UNCHANGED raised
      /\ UNCHANGED armed /\ UNCHANGED owned /\ UNCHANGED restored /\ UNCHANGED forward
      /\ UNCHANGED passed /\ UNCHANGED faults /\ UNCHANGED cleanFaults
  BY DEF Finish
<1>2. TypeInv'
  <2>1. /\ owned' \in BOOLEAN /\ armed' \in BOOLEAN /\ restored' \in BOOLEAN /\ passed' \in BOOLEAN
        /\ forward' \in BOOLEAN
    BY <1>0, <1>1, Zenon DEF TypeInv, TypeOK
  <2> QED BY <1>0, <1>1, <2>1, Retyped DEF TypeInv, TypeOK
<1>3. StartInv' /\ BodyInv'
  BY <1>0, <1>1 DEF StartInv, BodyInv, Framed, Step
<1>4. EndInv' /\ CleanInv'
  BY <1>0, <1>1 DEF EndInv, CleanInv, Ending, Framed
<1>5. VerdictInv'
  BY <1>0, <1>1 DEF VerdictInv, Ending, Framed, Running
<1> QED BY <1>2, <1>3, <1>4, <1>5 DEF CoreInv

(***************************************************************************)
(* The release under which a drill makes the sink fail.                    *)
(***************************************************************************)
Installing == {"deploy", "deploy_e2e_release", "restore_normal", "inject_alerts", "heal_alerts"}

\* Which step chooses the profile, and which makes the sink fail.
LEMMA EffectProfile ==
    ASSUME k \in Clusters, NEW s
    PROVE  /\ Effect("deploy_e2e_release").release.profile = "e2e"
           /\ s \notin Installing => Effect(s).release.profile = k.release.profile
           /\ s \in Installing \ {"inject_alerts"} => Effect(s).live.sink = "accept"
           /\ s \notin Installing /\ Effect(s).live.sink = "server_error" =>
                s \in {"fail_sink", "inject_5xx"} \/ k.live.sink = "server_error"
<1>0. k.release.workers \in 0 .. 1 /\ {"accept", "server_error", "delay", "post_receipt_delay"} = SinkModes
  BY DEF SinkModes, Clusters
<1>1. Effect("deploy_e2e_release").release.profile = "e2e"
  <2>0. Values("e2e", "accept", 1) \in Releases /\ Values("e2e", "accept", 1).profile = "e2e"
    BY DEF Values, Releases, Profiles, SinkModes
  <2>1. PICK v \in Releases : v = Values("e2e", "accept", 1) /\ v.profile = "e2e"
    BY <2>0
  <2>2. PICK e : e = Helm(k, v)
    OBVIOUS
  <2>3. e.release = v
    BY <2>2, HelmSets
  <2> QED BY <2>1, <2>2, <2>3, Commands
<1>2. s \in Installing \ {"inject_alerts"} => Effect(s).live.sink = "accept"
  BY Outcomes DEF Installing, LiveIs
<1>3. CASE s \in {"fail_sink", "inject_5xx", "accept_sink", "heal_5xx", "slow_sink", "delay_receipts",
                  "heal_sink"}
  <2>1. PICK mode \in SinkModes, n \in 0 .. 1 :
           /\ Effect(s) = configure_sink_helm(k, mode, n)
           /\ mode = "server_error" => s \in {"fail_sink", "inject_5xx"}
    BY <1>0, <1>3, Commands
  <2>2. PICK d : d = configure_sink_helm(k, mode, n)
    OBVIOUS
  <2>3. d.release.profile = k.release.profile /\ d.live.sink = mode
    BY <2>2, ConfigureSets DEF LiveIs
  <2> QED BY <1>1, <1>2, <2>1, <2>2, <2>3
<1>4. CASE s \in {"accept_by_env", "scale_down", "replace_worker", "start_worker", "stop_redis",
                  "start_redis", "kill_worker"}
  <2>1. Effect(s).release = k.release
    BY <1>4, Outcomes
  <2>2. Effect(s).live.sink \in {"accept", k.live.sink}
    BY <1>4, Outcomes DEF LiveIs
  <2> QED BY <1>1, <1>2, <2>1, <2>2
<1>5. CASE s \in {"post_event", "await_delivering", "remove_worker", "await_retry", "post_failing",
                  "post_failing_alerts", "await_delivered", "await_terminal"}
  <2>1. Effect(s).release = k.release /\ Effect(s).live = k.live
    BY <1>5, Outcomes
  <2> QED BY <1>1, <1>2, <2>1
<1>6. CASE s \in Installing
  BY <1>1, <1>2, <1>6
<1>7. CASE s \notin Commanding
  <2>1. Effect(s) = k
    BY <1>7, Checks
  <2> QED BY <1>1, <1>2, <2>1
<1> QED BY <1>3, <1>4, <1>5, <1>6, <1>7 DEF Commanding, Installing

\* Where those steps are in the bodies.
LEMMA Places ==
    ASSUME NEW s \in Names, NEW i \in 1 .. Len(Body(s))
    PROVE  /\ Body(s)[i] \in {"fail_sink", "inject_5xx"} => Drilling(s, i)
           /\ Body(s)[i] = "inject_alerts" => s = "observability"
           /\ Drilling(s, i) => Body(s)[i] \notin Installing
           /\ Drilling(s, i + 1) /\ ~Drilling(s, i) => Body(s)[i] = "deploy_e2e_release"
           /\ \A j \in i + 1 .. Len(Body(s)) :
                 UndoOf(Body(s)[i]) # "none" /\ Drilling(s, j) => Drilling(s, i)
<1>a. ASSUME NEW j \in 1 .. 15
      PROVE  /\ j = 1 => Downstream[j] = "deploy"
             /\ j = 2 => Downstream[j] = "deploy_e2e_release"
             /\ j > 2 => Downstream[j] \notin Installing
             /\ Downstream[j] = "inject_5xx" => j > 2
             /\ Downstream[j] # "fail_sink"
  <2>1. \/ j = 1 \/ j = 2 \/ j = 3 \/ j = 4 \/ j = 5 \/ j = 6 \/ j = 7 \/ j = 8 \/ j = 9
        \/ j = 10 \/ j = 11 \/ j = 12 \/ j = 13 \/ j = 14 \/ j = 15
    OBVIOUS
  <2>2. CASE j = 1
    BY <2>2, DownstreamSteps DEF Installing
  <2>3. CASE j = 2
    BY <2>3, DownstreamSteps DEF Installing
  <2>4. CASE j = 3
    BY <2>4, DownstreamSteps DEF Installing
  <2>5. CASE j = 4
    BY <2>5, DownstreamSteps DEF Installing
  <2>6. CASE j = 5
    BY <2>6, DownstreamSteps DEF Installing
  <2>7. CASE j = 6
    BY <2>7, DownstreamSteps DEF Installing
  <2>8. CASE j = 7
    BY <2>8, DownstreamSteps DEF Installing
  <2>9. CASE j = 8
    BY <2>9, DownstreamSteps DEF Installing
  <2>10. CASE j = 9
    BY <2>10, DownstreamSteps DEF Installing
  <2>11. CASE j = 10
    BY <2>11, DownstreamSteps DEF Installing
  <2>12. CASE j = 11
    BY <2>12, DownstreamSteps DEF Installing
  <2>13. CASE j = 12
    BY <2>13, DownstreamSteps DEF Installing
  <2>14. CASE j = 13
    BY <2>14, DownstreamSteps DEF Installing
  <2>15. CASE j = 14
    BY <2>15, DownstreamSteps DEF Installing
  <2>16. CASE j = 15
    BY <2>16, DownstreamSteps DEF Installing
  <2> QED BY ONLY <2>1, <2>2, <2>3, <2>4, <2>5, <2>6, <2>7, <2>8, <2>9, <2>10, <2>11, <2>12, <2>13, <2>14, <2>15, <2>16
<1>b. ASSUME NEW j \in 1 .. 14 PROVE Redis[j] \notin {"fail_sink", "inject_5xx", "inject_alerts"}
  <2>1. \/ j = 1 \/ j = 2 \/ j = 3 \/ j = 4 \/ j = 5 \/ j = 6 \/ j = 7 \/ j = 8 \/ j = 9
        \/ j = 10 \/ j = 11 \/ j = 12 \/ j = 13 \/ j = 14
    OBVIOUS
  <2> QED BY <2>1, RedisSteps
<1>c. ASSUME NEW j \in 1 .. 19 PROVE Worker[j] \notin {"fail_sink", "inject_5xx", "inject_alerts"}
  <2>1. \/ j = 1 \/ j = 2 \/ j = 3 \/ j = 4 \/ j = 5 \/ j = 6 \/ j = 7 \/ j = 8 \/ j = 9
        \/ j = 10 \/ j = 11 \/ j = 12 \/ j = 13 \/ j = 14 \/ j = 15 \/ j = 16 \/ j = 17 \/ j = 18
        \/ j = 19
    OBVIOUS
  <2> QED BY <2>1, WorkerSteps
<1>u. \A step \in {"deploy", "deploy_e2e_release"} : UndoOf(step) = "none"
  BY Blocks
<1>1. CASE s = "kind_e2e"
  <2>0. PICK b : b = Body(s)
    OBVIOUS
  <2>1. b = E2E /\ Len(b) = 21
    BY <1>1, <2>0, Lengths
  <2>2. ASSUME NEW j \in 1 .. 21
        PROVE  /\ j = 1 => E2E[j] = "deploy"
               /\ j = 2 => E2E[j] = "deploy_e2e_release"
               /\ j > 2 => E2E[j] \notin Installing
    <3>1. \/ j = 1 \/ j = 2 \/ j = 3 \/ j = 4 \/ j = 5 \/ j = 6 \/ j = 7 \/ j = 8 \/ j = 9
          \/ j = 10 \/ j = 11 \/ j = 12 \/ j = 13 \/ j = 14 \/ j = 15 \/ j = 16 \/ j = 17 \/ j = 18
          \/ j = 19 \/ j = 20 \/ j = 21
      OBVIOUS
    <3>2. CASE j = 1
      BY <3>2, E2ESteps DEF Installing
    <3>3. CASE j = 2
      BY <3>3, E2ESteps DEF Installing
    <3>4. CASE j = 3
      BY <3>4, E2ESteps DEF Installing
    <3>5. CASE j = 4
      BY <3>5, E2ESteps DEF Installing
    <3>6. CASE j = 5
      BY <3>6, E2ESteps DEF Installing
    <3>7. CASE j = 6
      BY <3>7, E2ESteps DEF Installing
    <3>8. CASE j = 7
      BY <3>8, E2ESteps DEF Installing
    <3>9. CASE j = 8
      BY <3>9, E2ESteps DEF Installing
    <3>10. CASE j = 9
      BY <3>10, E2ESteps DEF Installing
    <3>11. CASE j = 10
      BY <3>11, E2ESteps DEF Installing
    <3>12. CASE j = 11
      BY <3>12, E2ESteps DEF Installing
    <3>13. CASE j = 12
      BY <3>13, E2ESteps DEF Installing
    <3>14. CASE j = 13
      BY <3>14, E2ESteps DEF Installing
    <3>15. CASE j = 14
      BY <3>15, E2ESteps DEF Installing
    <3>16. CASE j = 15
      BY <3>16, E2ESteps DEF Installing
    <3>17. CASE j = 16
      BY <3>17, E2ESteps DEF Installing
    <3>18. CASE j = 17
      BY <3>18, E2ESteps DEF Installing
    <3>19. CASE j = 18
      BY <3>19, E2ESteps DEF Installing
    <3>20. CASE j = 19
      BY <3>20, E2ESteps DEF Installing
    <3>21. CASE j = 20
      BY <3>21, E2ESteps DEF Installing
    <3>22. CASE j = 21
      BY <3>22, E2ESteps DEF Installing
    <3> QED BY ONLY <3>1, <3>2, <3>3, <3>4, <3>5, <3>6, <3>7, <3>8, <3>9, <3>10, <3>11, <3>12, <3>13, <3>14, <3>15, <3>16, <3>17, <3>18, <3>19, <3>20, <3>21, <3>22
  <2>3. i \in 1 .. 21
    BY <2>0, <2>1
  <2>4. /\ i = 1 => b[i] = "deploy"
        /\ i = 2 => b[i] = "deploy_e2e_release"
        /\ i > 2 => b[i] \notin Installing
    BY <2>1, <2>2, <2>3
  <2>5. i <= 2 => UndoOf(b[i]) = "none" /\ b[i] \in {"deploy", "deploy_e2e_release"}
    BY <1>u, <2>3, <2>4
  <2> QED BY <1>1, <2>0, <2>3, <2>4, <2>5 DEF Drilling, Installing
<1>2. CASE s = "downstream"
  <2>0. PICK b : b = Body(s)
    OBVIOUS
  <2>1. b = Downstream /\ Len(b) = 15
    BY <1>2, <2>0, Lengths
  <2>3. i \in 1 .. 15
    BY <2>0, <2>1
  <2>4. /\ i = 1 => b[i] = "deploy"
        /\ i = 2 => b[i] = "deploy_e2e_release"
        /\ i > 2 => b[i] \notin Installing
    BY <1>a, <2>1, <2>3
  <2>5. i <= 2 => UndoOf(b[i]) = "none" /\ b[i] \in {"deploy", "deploy_e2e_release"}
    BY <1>u, <2>3, <2>4
  <2> QED BY <1>2, <2>0, <2>3, <2>4, <2>5 DEF Drilling, Installing
<1>3. CASE s = "smoke"
  <2>0. PICK b : b = Body(s)
    OBVIOUS
  <2>1. b = Smoke /\ Len(b) = 50
    BY <1>3, <2>0, Lengths
  <2>3. i \in 1 .. 50
    BY <2>0, <2>1
  <2>4. i \in 1 .. 15 =>
          /\ i = 1 => b[i] = "deploy"
          /\ i = 2 => b[i] = "deploy_e2e_release"
          /\ i > 2 => b[i] \notin Installing
    <3>1. i \in 1 .. 15 => b[i] = Downstream[i]
      BY <2>1, SmokeSteps
    <3> QED BY <1>a, <3>1
  <2>5. i <= 2 => UndoOf(b[i]) = "none" /\ b[i] \in {"deploy", "deploy_e2e_release"}
    BY <1>u, <2>3, <2>4
  <2>6. i > 15 => b[i] \notin {"fail_sink", "inject_5xx", "inject_alerts"}
    <3>1. CASE i \in 16 .. 29
      <4>1. PICK n \in 1 .. 14 : n = i - 15
        BY <3>1
      <4>2. b[i] = Redis[n]
        BY <2>1, <3>1, <4>1, SmokeSteps
      <4> QED BY <1>b, <4>2
    <3>2. CASE i \in 30 .. 48
      <4>1. PICK n \in 1 .. 19 : n = i - 29
        BY <3>2
      <4>2. b[i] = Worker[n]
        BY <2>1, <3>2, <4>1, SmokeSteps
      <4> QED BY <1>c, <4>2
    <3>3. CASE i \in 49 .. 50
      <4>1. i = 49 \/ i = 50
        BY <3>3
      <4> QED BY <2>1, <4>1, SmokeSteps
    <3> QED BY <2>3, <3>1, <3>2, <3>3
  <2> QED BY <1>3, <2>0, <2>3, <2>4, <2>5, <2>6 DEF Drilling, Installing
<1>4. CASE s = "redis"
  <2>1. Body(s) = Redis /\ Len(Body(s)) = 14
    BY <1>4, Lengths
  <2> QED BY <1>4, <1>b, <2>1 DEF Drilling
<1>5. CASE s = "worker"
  <2>1. Body(s) = Worker /\ Len(Body(s)) = 19
    BY <1>5, Lengths
  <2> QED BY <1>5, <1>c, <2>1 DEF Drilling
<1>6. CASE s = "observability"
  <2>0. PICK b : b = Body(s)
    OBVIOUS
  <2>1. b = smoke_base \o smoke_alerts /\ i \in 1 .. 13
    BY <1>6, <2>0, Lengths
  <2>2. \/ i = 1 \/ i = 2 \/ i = 3 \/ i = 4 \/ i = 5 \/ i = 6 \/ i = 7 \/ i = 8 \/ i = 9
        \/ i = 10 \/ i = 11 \/ i = 12 \/ i = 13
    BY <2>1
  <2>3. b[i] \notin {"fail_sink", "inject_5xx"}
    BY <2>1, <2>2, ObservabilityBody
  <2> QED BY <1>6, <2>0, <2>3 DEF Drilling
<1> QED BY <1>1, <1>2, <1>3, <1>4, <1>5, <1>6 DEF Names

\* A step of a body, with its effect, leaves the sink failing only there.
LEMMA EffectSink ==
    ASSUME CoreInv, SinkInv, phase = "body", NEW c \in {k, Effect(Step)}
    PROVE  /\ Framed /\ c.live.sink = "server_error" => c.release.profile = "e2e"
           /\ Drilling(script, at) => c.release.profile = "e2e"
<1>0. script \in Names /\ k \in Clusters /\ at \in 1 .. Len(Body(script)) /\ Step = Body(script)[at]
  BY Typed DEF CoreInv, BodyInv, Step
<1>1. PICK step : step = Step
  OBVIOUS
<1>2. /\ step \in {"fail_sink", "inject_5xx"} => Drilling(script, at)
      /\ Framed => step # "inject_alerts"
      /\ Drilling(script, at) => step \notin Installing
  BY <1>0, <1>1, Places DEF Framed
<1>3. /\ step \notin Installing => Effect(step).release.profile = k.release.profile
      /\ step \in Installing \ {"inject_alerts"} => Effect(step).live.sink = "accept"
      /\ step \notin Installing /\ Effect(step).live.sink = "server_error" =>
           step \in {"fail_sink", "inject_5xx"} \/ k.live.sink = "server_error"
  BY <1>0, EffectProfile
<1> QED BY <1>1, <1>2, <1>3 DEF SinkInv

\* What a command of main's finally leaves of the sink.
LEMMA RestoringSink ==
    ASSUME SinkInv, NEW here, NEW next, NEW wanted \in BOOLEAN, NEW after,
           Restoring(here, next, wanted, after), next # "body",
           Framed /\ after.live.sink = "server_error" => after.release.profile = "e2e"
    PROVE  SinkInv'
<1>1. phase' # "body" /\ (k' = k \/ k' = after) /\ UNCHANGED script
  BY DEF Restoring
<1> QED BY <1>1 DEF SinkInv, Framed

\* No step of a script lets the sink fail under another release.
LEMMA SinkStep == ASSUME CoreInv, SinkInv, Next PROVE SinkInv'
<1>0. /\ script \in Names /\ k \in Clusters /\ Len(Body(script)) \in Nat
      /\ phase \in {"main", "up"} => Initial(k) /\ at = 1
      /\ phase = "body" => at \in 1 .. Len(Body(script))
  BY Typed DEF CoreInv, StartInv, BodyInv
<1>i. ASSUME NEW c, Initial(c) PROVE c.live.sink = "accept"
  BY <1>i, Initially
<1>1. CASE Main
  BY <1>0, <1>1 DEF Main, SinkInv, Drilling, Framed
<1>2. CASE Up
  <2>1. phase = "up" /\ UNCHANGED script /\ at' = at /\ k' \in {k, cluster_up(k)}
    BY <1>2 DEF Up
  <2>2. Initial(k')
    BY <1>0, <2>1 DEF cluster_up, Initial
  <2>3. k'.live.sink = "accept" /\ at' = 1
    BY <1>0, <1>i, <2>1, <2>2
  <2> QED BY <2>1, <2>3 DEF SinkInv, Drilling, Framed
<1>3. CASE Succeed
  <2>1. /\ phase = "body" /\ k' = Effect(Step) /\ UNCHANGED script
        /\ phase' = "body" => at' = at + 1
    BY <1>3 DEF Succeed, Continue
  <2>2. /\ Framed /\ k'.live.sink = "server_error" => k'.release.profile = "e2e"
        /\ Drilling(script, at) => k'.release.profile = "e2e"
    BY <2>1, EffectSink
  <2>3. Drilling(script, at + 1) /\ ~Drilling(script, at) => k'.release.profile = "e2e"
    BY <1>0, <2>1, Places, EffectProfile DEF Step
  <2> QED BY <2>1, <2>2, <2>3 DEF SinkInv, Framed
<1>4. CASE CheckFails \/ CommandFails
  <2>1. /\ phase = "body" /\ k' \in {k, Effect(Step)} /\ UNCHANGED script
        /\ \E kind \in {"caught", "uncaught"} : Raise(kind)
    BY <1>4 DEF CheckFails, CommandFails
  <2>2. /\ Framed /\ k'.live.sink = "server_error" => k'.release.profile = "e2e"
        /\ Drilling(script, at) => k'.release.profile = "e2e"
    BY <2>1, EffectSink
  <2>3. phase' = "body" => /\ at' \in at + 1 .. Len(Body(script)) /\ UndoOf(Body(script)[at]) # "none"
    <3>1. PICK kind \in {"caught", "uncaught"} : Raise(kind)
      BY <2>1
    <3>2. /\ at' \in 1 .. Len(Body(script))
          /\ phase' = "body" => at' > at /\ UndoOf(Step) # "none"
      BY <2>1, <3>1, RaiseLeads
    <3> QED BY <1>0, <2>1, <3>2 DEF Step
  <2>4. phase' = "body" /\ Drilling(script, at') => Drilling(script, at)
    BY <1>0, <2>1, <2>3, Places
  <2> QED BY <2>1, <2>2, <2>4 DEF SinkInv, Framed
<1>5. CASE Unwind \/ Except \/ NoReplicas \/ Finish
  <2>1. UNCHANGED script /\ UNCHANGED k /\ phase' # "body"
    BY <1>5 DEF Unwind, Except, NoReplicas, Finish
  <2> QED BY <2>1 DEF SinkInv, Framed
<1>6. CASE RestoreReplicas
  <2>1. PICK w \in BOOLEAN : w <=> k.present /\ script \in {"redis", "worker"} /\ release_exists(k)
    OBVIOUS
  <2>2. PICK after : after = IF script = "redis" THEN scale_redis(k, 1) ELSE scale_worker(k, 1)
    OBVIOUS
  <2>3. after.release = k.release /\ after.live.sink = k.live.sink
    <3>1. PICK n \in 0 .. 1 : n = 1
      OBVIOUS
    <3> QED BY <1>0, <2>2, <3>1, KubectlSets DEF LiveIs
  <2>4. Restoring("replicas", "restore", w, after)
    BY <1>6, <2>1, <2>2, Zenon DEF RestoreReplicas, Restoring
  <2>5. Framed /\ after.live.sink = "server_error" => after.release.profile = "e2e"
    BY <2>3 DEF SinkInv
  <2> QED BY <2>4, <2>5, RestoringSink
<1>7. CASE RestoreRelease
  <2>1. PICK w \in BOOLEAN : w <=> Framed /\ k.present /\ release_exists(k) /\ ~restored
    OBVIOUS
  <2>2. PICK after : after = Helm(k, Normal)
    OBVIOUS
  <2>3. after.live.sink = "accept"
    <3>1. Normal \in Releases /\ Normal.sink = "accept"
      BY DEF Normal, Values, Releases, SinkModes, Profiles
    <3> QED BY <1>0, <2>2, <3>1, HelmSets DEF LiveIs
  <2>4. Restoring("restore", "down", w, after)
    BY <1>7, <2>1, <2>2, Zenon DEF RestoreRelease, Restoring, restore_normal_release
  <2> QED BY <2>3, <2>4, RestoringSink
<1>8. CASE Down
  <2>0. owned \in BOOLEAN
    BY Zenon DEF CoreInv, TypeInv, TypeOK
  <2>1. PICK after : after = NoCluster
    OBVIOUS
  <2>2. after.live.sink = "accept"
    BY <2>1, <1>i DEF Initial
  <2>3. Restoring("down", "done", owned, after)
    BY <1>8, <2>1, Zenon DEF Down, Restoring, cluster_down
  <2> QED BY <2>0, <2>2, <2>3, RestoringSink
<1>9. CASE GiveUp
  <2>1. k'.live = k.live /\ k'.release = k.release /\ UNCHANGED script /\ UNCHANGED phase /\ UNCHANGED at
    BY <1>0, <1>9, EventSets DEF GiveUp, EventStates
  <2> QED BY <2>1 DEF SinkInv, Framed
<1> QED BY <1>1, <1>2, <1>3, <1>4, <1>5, <1>6, <1>7, <1>8, <1>9 DEF Next

\* An event whose attempts are spent is one of the observability smoke, which
\* still watches it.
LEMMA GiveUpStep == ASSUME CoreInv, SinkInv, GiveUp PROVE CoreInv'
<1>0. /\ TypeInv /\ StartInv /\ BodyInv /\ EndInv /\ CleanInv /\ VerdictInv
      /\ script \in Names /\ k \in Clusters
  BY Typed DEF CoreInv
<1>1. /\ k' = [k EXCEPT !.event = "dead_letter"] /\ UNCHANGED script /\ UNCHANGED phase /\ UNCHANGED at
      /\ UNCHANGED raised /\ UNCHANGED armed /\ UNCHANGED owned /\ UNCHANGED restored
      /\ UNCHANGED forward /\ UNCHANGED passed /\ UNCHANGED exit /\ UNCHANGED faults
      /\ UNCHANGED cleanFaults
  BY DEF GiveUp
<1>2. k.event = "retrying" /\ k.live.sink = "server_error" /\ k.release.profile # "e2e"
  BY DEF GiveUp, Exhausts, Attempts
<1>3. ~Framed /\ script = "observability"
  BY <1>2 DEF SinkInv, Framed
<1>4. /\ k' \in Clusters /\ k'.present = k.present /\ k'.release = k.release /\ k'.live = k.live
      /\ k'.event = "dead_letter"
  BY <1>0, <1>1, EventSets DEF EventStates
<1>5. ~IsNormal(k) /\ ~Initial(k)
  BY <1>2, Initially DEF IsNormal, NormalLive
<1>6. TypeInv'
  <2>1. /\ owned' \in BOOLEAN /\ armed' \in BOOLEAN /\ restored' \in BOOLEAN /\ forward' \in BOOLEAN
        /\ passed' \in BOOLEAN
    BY <1>0, <1>1, Zenon DEF TypeInv, TypeOK
  <2> QED BY <1>0, <1>1, <1>4, <2>1, Retyped DEF TypeInv, TypeOK
<1>7. StartInv'
  BY <1>0, <1>1, <1>3, <1>5 DEF StartInv, Framed
<1>8. BodyInv'
  <2>1. ASSUME phase = "body", raised = "none" PROVE StateAt(script, k', at)
    <3>1. ObservabilityAt(k, at)
      BY <1>0, <1>3, <2>1 DEF BodyInv, StateAt
    <3>2. at \in 1 .. 13
      BY <1>0, <1>3, <2>1, Lengths DEF BodyInv
    <3>3. at \in 8 .. 10
      BY <1>2, <1>5, <3>1, <3>2 DEF ObservabilityAt
    <3>4. ObservabilityAt(k', at)
      BY <1>4, <3>1, <3>3 DEF ObservabilityAt, LiveIs
    <3> QED BY <1>3, <3>4 DEF StateAt
  <2> QED BY <1>0, <1>1, <1>3, <2>1 DEF BodyInv, Step, Framed
<1>9. EndInv' /\ CleanInv'
  BY <1>0, <1>1, <1>3, <1>4, <1>5 DEF EndInv, CleanInv, Framed, Ending, release_exists
<1>10. VerdictInv'
  BY <1>0, <1>1, <1>4 DEF VerdictInv, Framed, release_exists
<1> QED BY <1>6, <1>7, <1>8, <1>9, <1>10 DEF CoreInv

(***************************************************************************)
(* The theorems.                                                           *)
(***************************************************************************)
\* The invariant holds in every state of every script.
THEOREM Invariance == Spec => []IInv
<1>1. IInv /\ [Next]_vars => IInv'
  <2> SUFFICES ASSUME CoreInv, SinkInv, [Next]_vars PROVE CoreInv' /\ SinkInv'
    BY DEF IInv
  <2>0. Next => SinkInv'
    BY SinkStep
  <2>1. CASE Main
    BY <2>0, <2>1, MainStep DEF Next
  <2>2. CASE Up
    BY <2>0, <2>2, UpStep DEF Next
  <2>3. CASE Succeed
    BY <2>0, <2>3, SucceedStep DEF Next
  <2>4. CASE CheckFails
    BY <2>0, <2>4, CheckFailsStep DEF Next
  <2>5. CASE CommandFails
    BY <2>0, <2>5, CommandFailsStep DEF Next
  <2>6. CASE Unwind
    BY <2>0, <2>6, UnwindStep DEF Next
  <2>7. CASE Except
    BY <2>0, <2>7, ExceptStep DEF Next
  <2>8. CASE RestoreReplicas
    BY <2>0, <2>8, RestoreReplicasStep DEF Next
  <2>9. CASE NoReplicas
    BY <2>0, <2>9, NoReplicasStep DEF Next
  <2>10. CASE RestoreRelease
    BY <2>0, <2>10, RestoreReleaseStep DEF Next
  <2>11. CASE Down
    BY <2>0, <2>11, DownStep DEF Next
  <2>12. CASE Finish
    BY <2>0, <2>12, FinishStep DEF Next
  <2>13. CASE GiveUp
    BY <2>0, <2>13, GiveUpStep DEF Next
  <2>14. CASE UNCHANGED vars
    BY <2>14 DEF vars, CoreInv, SinkInv, TypeInv, TypeOK, StartInv, BodyInv, EndInv, CleanInv, VerdictInv,
                 Framed, Step
  <2> QED BY <2>1, <2>2, <2>3, <2>4, <2>5, <2>6, <2>7, <2>8, <2>9, <2>10, <2>11, <2>12, <2>13, <2>14 DEF Next
<1>2. Init => IInv
  <2>1. Init => SinkInv
    <3>1. Init => Initial(k)
      BY DEF Init, Initial
    <3>2. Initial(k) => k.live.sink = "accept"
      BY Initially
    <3> QED BY <3>1, <3>2 DEF Init, SinkInv
  <2> QED BY <2>1, InitInv DEF IInv
<1> QED BY <1>1, <1>2, PTL DEF Spec

\* The variables keep to their types, whatever fails.
THEOREM TypeCorrect == Spec => []TypeOK
<1>1. IInv => TypeOK
  BY DEF IInv, CoreInv, TypeInv
<1> QED BY <1>1, Invariance, PTL

\* Whatever fails in a body, and wherever, no injected failure and no
\* port-forward survives if the finally blocks of the script work.
THEOREM InjectionsAreUndone == Spec => []InjectionIsUndone
<1>1. IInv => InjectionIsUndone
  BY DEF IInv, CoreInv, EndInv, CleanInv, InjectionIsUndone, Over, Ending, IsNormal
<1> QED BY <1>1, Invariance, PTL

\* A script that exits with 0 has restored the cluster, or taken away its own,
\* and left no event on its way: a drill's was delivered, that of the
\* observability smoke delivered or filed as a dead letter.
THEOREM SuccessMeansRestored == Spec => []PassMeansRestored
<1>1. IInv => PassMeansRestored
  <2> SUFFICES ASSUME IInv, Over, exit = 0
               PROVE  IF owned THEN ~k.present
                      ELSE /\ k.release = Normal /\ k.live = NormalLive
                           /\ k.event \in {"none", "delivered"} \cup (IF Framed THEN {} ELSE {"dead_letter"})
    BY DEF PassMeansRestored
  <2>1. phase = "done" /\ passed /\ raised # "uncaught" /\ raised # "caught"
    BY DEF IInv, CoreInv, VerdictInv, Over, Ending
  <2>2. raised = "none" /\ cleanFaults = 0
    BY <2>1 DEF IInv, CoreInv, VerdictInv, TypeInv, TypeOK
  <2> QED BY <2>1, <2>2 DEF IInv, CoreInv, EndInv, CleanInv, Ending, IsNormal, Rests, Ended
<1> QED BY <1>1, Invariance, PTL

\* With no failing command every check passes: no step and no undo leaves the
\* cluster in a state a later check cannot accept.
THEOREM HealthyRunsPass == Spec => []HealthyRunPasses
<1>1. IInv => HealthyRunPasses
  BY DEF IInv, CoreInv, VerdictInv, TypeInv, TypeOK, HealthyRunPasses, Over
<1> QED BY <1>1, Invariance, PTL
=============================================================================
