------------------------------- MODULE Harness ------------------------------
(***************************************************************************)
(* The local harnesses that start something and have to take it away:      *)
(* run_integration_tests.py, worker_ecs_health_reproduction.py,            *)
(* demo_smoke.py, cloudflare_local_flow.py and clean_room.py.              *)
(*                                                                         *)
(* Each runs a body of steps; a step starts a resource, stops one, or only *)
(* works.  Any step may fail.  A resource is known to its script from the  *)
(* moment that notes it, which need not be the moment it exists, and finally*)
(* takes away what the script knows, looks for, or holds.                  *)
(***************************************************************************)
EXTENDS Naturals, Sequences, FiniteSets

CONSTANTS
    Scripts,    \* the harnesses considered
    MaxFaults   \* bound: commands that fail

ASSUME HarnessAssumption ==
    /\ Scripts \subseteq {"integration", "ecs", "demo", "flow", "clean_room"}
    /\ MaxFaults \in Nat

VARIABLES
    script,
    phase,        \* "body", "cleanup", "post", "over"
    at,           \* the next step of the body, or of the clean-up
    own,          \* resources the script started and that still exist
    noted,        \* resources the script knows it started
    foreign,      \* resources of the same names that were there before
    raised,       \* the body ended with an exception or an error return
    failed,       \* passed = False in the clean-up
    exit,
    faults, cleanFaults,
    missed        \* its resources that stop_process or finally does not reach

vars == <<script, phase, at, own, noted, foreign, raised, failed, exit, faults, cleanFaults, missed>>

-----------------------------------------------------------------------------
(* The bodies.                                                             *)

Do(name) == [name |-> name, starts |-> "none", stops |-> "none", leaves |-> {}]
Start(r) == [Do("start") EXCEPT !.starts = r]
Stop(r) == [Do("stop") EXCEPT !.stops = r]
\* A target that cleans up after itself, if it succeeds.
Stage(name, leaves) == [Do(name) EXCEPT !.leaves = leaves]

run_integration_tests == <<Start("redis"), Do("port"), Do("wait_for_redis"), Do("pytest")>>

worker_ecs_health == <<Do("verify_image"), Start("network"), Start("redis"), Do("wait_for_redis"),
    Start("healthy"), Do("probe_healthy"), Do("stop_and_collect"),
    Start("unavailable"), Do("probe_unavailable"), Do("stop_and_collect"),
    Do("no_listener"), Do("judge")>>

demo_smoke == <<Do("precheck"), Do("init"), Start("compose"), Do("verify_runtime")>>

\* The worker is started again in test mode, the sink again in failure mode.
FlowSetup == <<Do("precheck"), Do("npm_ci"), Do("migrations"), Start("sink"), Start("worker")>>
FlowTestMode == <<Do("default_mode"), Stop("worker"), Start("worker"), Do("ready")>>
FlowDeliveries == <<Do("delivery"), Do("idempotency"), Do("regressions")>>
FlowFaults == <<Do("faults"), Do("repair"), Do("large_payload")>>
FlowExhausted == <<Stop("sink"), Start("sink"), Do("exhausted")>>
run_contract == FlowSetup \o FlowTestMode \o FlowDeliveries \o FlowFaults \o FlowExhausted

create_candidate_clone == <<Do("candidate_state"), Do("clone")>>
verify_candidate == <<Do("setup"), Stage("verify", {"redis"}), Stage("demo", {"compose"}),
    Stage("e2e", {"cluster", "artifact"}), Start("cluster"), Stage("drills", {"artifact"}),
    Do("docs")>>

Body(s) == CASE s = "integration" -> run_integration_tests [] s = "ecs" -> worker_ecs_health
             [] s = "demo" -> demo_smoke [] s = "flow" -> run_contract
             [] s = "clean_room" -> <<Do("precheck")>> \o create_candidate_clone \o verify_candidate

\* The steps under try ... finally.
Protected(s, i) == CASE s = "flow" -> i >= 6 [] s = "clean_room" -> i >= 2 [] OTHER -> TRUE

\* What finally goes through, in this order.
Cleanup(s) == CASE s = "integration" -> <<"redis">>
                [] s = "ecs" -> <<"unavailable", "healthy", "redis", "network">>
                [] s = "demo" -> <<"compose">>
                [] s = "flow" -> <<"worker", "sink">>
                [] s = "clean_room" -> <<"cluster", "compose">>

Resources == {"redis", "network", "healthy", "unavailable", "compose", "sink", "worker", "cluster",
              "artifact"}

-----------------------------------------------------------------------------

TypeOK ==
    /\ script \in Scripts /\ phase \in {"body", "cleanup", "post", "over"}
    /\ at \in 1 .. Len(Body(script)) + 1
    /\ own \subseteq Resources /\ noted \subseteq Resources /\ foreign \subseteq Resources
    /\ raised \in BOOLEAN /\ failed \in BOOLEAN /\ exit \in 0 .. 2
    /\ faults \in 0 .. MaxFaults /\ cleanFaults \in 0 .. faults /\ missed \subseteq Resources

\* Fixed names may be taken; names with a process id are not.
Init ==
    /\ script \in Scripts /\ phase = "body" /\ at = 1
    /\ own = {} /\ noted = {}
    /\ foreign \in CASE script = "demo" -> {{}, {"compose"}}
                     [] script = "flow" -> {{}, {"sink"}, {"worker"}}
                     [] script = "clean_room" -> {{}, {"cluster"}, {"compose"}}
                     [] OTHER -> {{}}
    /\ raised = FALSE /\ failed = FALSE /\ exit = 2
    /\ faults = 0 /\ cleanFaults = 0 /\ missed = {}

Fault == faults < MaxFaults /\ faults' = faults + 1
Step == Body(script)[at]

Known(r) == IF r = "none" THEN {} ELSE {r}

Finally == IF Protected(script, at) THEN phase' = "cleanup" /\ at' = 1 /\ UNCHANGED exit
           ELSE phase' = "over" /\ exit' = 1 /\ UNCHANGED at

\* demo_smoke claims its resources before it makes them, ahead of `init`.
NotedBefore == IF script = "demo" /\ Step.name = "init" THEN {"compose"} ELSE {}

StepSucceeds ==
    /\ phase = "body" /\ at <= Len(Body(script))
    /\ Step.name = "precheck" => foreign = {}
    /\ own' = (own \ (Known(Step.stops) \ missed)) \cup Known(Step.starts)
    /\ noted' = noted \cup Known(Step.starts) \cup NotedBefore
    /\ at' = at + 1
    /\ UNCHANGED <<script, phase, foreign, raised, failed, exit, faults, cleanFaults, missed>>

\* assert_port_available, require_no_project_resources, require_runtime_clean.
Precheck ==
    /\ phase = "body" /\ at <= Len(Body(script)) /\ Step.name = "precheck" /\ foreign # {}
    /\ raised' = TRUE /\ Finally
    /\ UNCHANGED <<script, own, noted, foreign, failed, faults, cleanFaults, missed>>

\* A command fails, or times out when its work is done: the resource may exist
\* and nobody noted it.  A Popen that fails started nothing.
StepFails ==
    /\ phase = "body" /\ at <= Len(Body(script)) /\ Fault
    /\ \E left \in SUBSET Step.leaves, begun \in BOOLEAN :
        /\ begun => Step.starts # "none" /\ script # "flow"
        /\ own' = own \cup left \cup (IF begun THEN Known(Step.starts) ELSE {})
        /\ missed' = missed \cup (IF begun /\ script \in {"integration", "ecs"}
                                 THEN Known(Step.starts) ELSE {})
                             \cup (IF Protected(script, at) THEN {} ELSE own)
    /\ raised' = TRUE /\ Finally
    /\ UNCHANGED <<script, noted, foreign, failed, cleanFaults>>

\* The leader of a process group ends by itself.  stop_process, which asks for
\* the leader, then does nothing about the members that live on.
LeaderEnds ==
    /\ script = "flow" /\ phase # "over"
    /\ \E r \in own \ missed :
        \/ own' = own \ {r} /\ UNCHANGED missed
        \/ missed' = missed \cup {r} /\ UNCHANGED own
    /\ UNCHANGED <<script, phase, at, noted, foreign, raised, failed, exit, faults, cleanFaults>>

BodyEnds ==
    /\ phase = "body" /\ at = Len(Body(script)) + 1
    /\ phase' = "cleanup" /\ at' = 1
    /\ UNCHANGED <<script, own, noted, foreign, raised, failed, exit, faults, cleanFaults, missed>>

-----------------------------------------------------------------------------
(* finally.                                                                *)

Target == Cleanup(script)[at]

\* Mutant: containers only, the network stays.
WantedWithoutNetwork == Target \in noted \ {"network"}

\* clean_room looks what is there; the others go by what they noted.
Wanted == IF script = "clean_room" THEN Target \in own \cup foreign ELSE Target \in noted

Cleaning == phase = "cleanup" /\ at <= Len(Cleanup(script))

\* The names of demo_smoke and clean_room are everybody's; a process group, a
\* container named after the process id is one's own.
Remove ==
    /\ Cleaning
    /\ IF Wanted
       THEN /\ own' = own \ ({Target} \ missed)
            /\ foreign' = IF script \in {"demo", "clean_room"} THEN foreign \ {Target} ELSE foreign
       ELSE UNCHANGED <<own, foreign>>
    /\ at' = at + 1
    /\ UNCHANGED <<script, phase, noted, raised, failed, exit, faults, cleanFaults, missed>>

\* The command says it failed; all but worker_ecs_health_reproduction look.
RemoveFails ==
    /\ Cleaning /\ Wanted /\ script # "flow" /\ Fault
    /\ cleanFaults' = cleanFaults + 1
    /\ failed' = (failed \/ script # "ecs")
    /\ at' = at + 1
    /\ UNCHANGED <<script, phase, own, noted, foreign, raised, exit, missed>>

\* It raises, and the rest of finally is skipped: an interrupt, a time-out, a
\* process group that ended between poll and killpg, an error code from
\* `kind get clusters`.
RemoveRaises ==
    /\ Cleaning /\ Fault
    /\ cleanFaults' = cleanFaults + 1
    /\ phase' = "over" /\ exit' = 1
    /\ UNCHANGED <<script, at, own, noted, foreign, raised, failed, missed>>

CleanupEnds ==
    /\ phase = "cleanup" /\ at = Len(Cleanup(script)) + 1
    /\ phase' = "post"
    /\ UNCHANGED <<script, at, own, noted, foreign, raised, failed, exit, faults, cleanFaults, missed>>

\* Mutant: success is what the body says.
PostTrustsTheBody ==
    /\ phase = "post" /\ phase' = "over"
    /\ exit' = IF raised THEN 1 ELSE 0
    /\ UNCHANGED <<script, at, own, noted, foreign, raised, failed, faults, cleanFaults, missed>>

\* demo_smoke and clean_room look once more, then the exit code.
Post ==
    /\ phase = "post" /\ phase' = "over"
    /\ LET left == script \in {"demo", "clean_room"} /\ own \cup foreign # {}
       IN exit' = IF raised \/ failed \/ left THEN 1 ELSE 0
    /\ UNCHANGED <<script, at, own, noted, foreign, raised, failed, faults, cleanFaults, missed>>

Next ==
    \/ StepSucceeds \/ Precheck \/ StepFails \/ LeaderEnds \/ BodyEnds
    \/ Remove \/ RemoveFails \/ RemoveRaises \/ CleanupEnds \/ Post

Spec == Init /\ [][Next]_vars

-----------------------------------------------------------------------------
(* Properties.                                                             *)

\* Success means that nothing is left, also if a clean-up command failed, but
\* for process groups whose leader ended before stop_process came to them.
\* worker_ecs_health_reproduction does not look at its clean-up commands.
PassMeansClean ==
    phase = "over" /\ exit = 0 /\ (script = "ecs" => cleanFaults = 0) =>
        own \subseteq (IF script = "flow" THEN missed ELSE {})

\* Wherever the body fails, finally takes away all that was started but the
\* very resources it cannot see: one whose start failed before it was noted,
\* those of run_contract ahead of its try, process groups without their leader,
\* and the two kinds that stages of clean_room leave and it does not look for.
\* This holds while the clean-up commands work.
FailureIsCleaned ==
    phase = "over" /\ cleanFaults = 0 =>
        own \subseteq missed \cup (IF script = "clean_room" THEN {"redis", "artifact"} ELSE {})

=============================================================================
