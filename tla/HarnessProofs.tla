--------------------------- MODULE HarnessProofs ----------------------------
(***************************************************************************)
(* Proofs about Harness, for every bound on the failing commands.          *)
(***************************************************************************)
EXTENDS Harness, TLAPS

(***************************************************************************)
(* The inductive invariant.  What finally takes away is what the script    *)
(* has noted and its clean-up lists, so while the body runs every resource *)
(* it started is both; the clean-up then works through its list.           *)
(***************************************************************************)
\* What the clean-up of a script has still to go through, and all of it.
Remaining(s, n) == {Cleanup(s)[j] : j \in n .. Len(Cleanup(s))}
Targets(s) == Remaining(s, 1)

\* What the stages of clean_room leave and its clean-up does not list.
Lost(s) == IF s = "clean_room" THEN {"redis", "artifact"} ELSE {}

\* The body: a name that is taken stops it at its first step.
BodyInv ==
    phase = "body" =>
        /\ raised = FALSE /\ failed = FALSE /\ cleanFaults = 0 /\ exit = 2
        /\ at = 1 => own = {}
        /\ foreign # {} => at = 1 /\ script \in {"demo", "flow", "clean_room"}
        /\ own \subseteq Targets(script)
        /\ script # "clean_room" => own \subseteq noted
        /\ script = "demo" /\ at >= 3 => "compose" \in noted

\* No removal was given up.
Sound == failed = FALSE /\ (script = "ecs" => cleanFaults = 0)

\* The clean-up: what is left is still on the list, or out of its reach.
CleanupInv ==
    phase \in {"cleanup", "post"} =>
        /\ exit = 2
        /\ at \in 1 .. Len(Cleanup(script)) + 1
        /\ phase = "post" => at = Len(Cleanup(script)) + 1
        /\ Sound => own \subseteq Remaining(script, at) \cup Lost(script) \cup missed
        /\ Sound /\ script # "clean_room" => own \subseteq noted \cup missed

\* Without a failure of the body only a process group can be out of reach, and
\* a removal that fails is noticed.
FlagInv ==
    /\ raised = FALSE /\ script # "flow" => missed = {}
    /\ cleanFaults = 0 => failed = FALSE

IInv == TypeOK /\ BodyInv /\ CleanupInv /\ FlagInv /\ PassMeansClean /\ FailureIsCleaned

(***************************************************************************)
(* The bodies.                                                             *)
(***************************************************************************)
Harnesses == {"integration", "ecs", "demo", "flow", "clean_room"}

\* What the steps are called.
Names == {"candidate_state", "clone", "default_mode", "delivery", "demo", "docs", "drills", "e2e",
    "exhausted", "faults", "idempotency", "init", "judge", "large_payload", "migrations",
    "no_listener", "npm_ci", "port", "precheck", "probe_healthy", "probe_unavailable", "pytest",
    "ready", "regressions", "repair", "setup", "start", "stop", "stop_and_collect", "verify",
    "verify_image", "verify_runtime", "wait_for_redis"}

\* The steps of a script start what its clean-up lists, and only the stages of
\* clean_room leave anything else.
StepsOf(s) ==
    [name : Names, starts : Targets(s) \cup {"none"}, stops : Resources \cup {"none"},
     leaves : SUBSET (IF s = "clean_room" THEN Targets(s) \cup Lost(s) ELSE {})]

\* The lists of the finally blocks (clean-up loops of the five scripts).
LEMMA Lists ==
    /\ Targets("integration") = {"redis"}
    /\ Targets("ecs") = {"unavailable", "healthy", "redis", "network"}
    /\ Targets("demo") = {"compose"}
    /\ Targets("flow") = {"worker", "sink"}
    /\ Targets("clean_room") = {"cluster", "compose"}
    /\ \A s \in Harnesses : Len(Cleanup(s)) \in 1 .. 4
    /\ \A s \in Harnesses : Targets(s) \subseteq Resources
BY DEF Targets, Remaining, Cleanup, Harnesses, Resources

\* The step constructors, field by field.
LEMMA Fields ==
    /\ \A n : Do(n) = [name |-> n, starts |-> "none", stops |-> "none", leaves |-> {}]
    /\ \A r : Start(r) = [name |-> "start", starts |-> r, stops |-> "none", leaves |-> {}]
    /\ \A r : Stop(r) = [name |-> "stop", starts |-> "none", stops |-> r, leaves |-> {}]
    /\ \A n, l : Stage(n, l) = [name |-> n, starts |-> "none", stops |-> "none", leaves |-> l]
BY DEF Do, Start, Stop, Stage

\* The step constructors make steps of the script.
LEMMA StepForms ==
    ASSUME NEW s \in Harnesses
    PROVE  /\ \A n \in Names : Do(n) \in StepsOf(s)
           /\ \A r \in Targets(s) : Start(r) \in StepsOf(s)
           /\ \A r \in Resources : Stop(r) \in StepsOf(s)
           /\ \A n \in Names : s = "clean_room" =>
                \A l \in SUBSET (Targets(s) \cup Lost(s)) : Stage(n, l) \in StepsOf(s)
<1>1. \A n \in Names : Do(n) \in StepsOf(s)
  BY Fields DEF StepsOf
<1>0. "start" \in Names /\ "stop" \in Names
  BY DEF Names
<1>2. \A r \in Targets(s) : Start(r) \in StepsOf(s)
  BY <1>0, Fields DEF StepsOf
<1>3. \A r \in Resources : Stop(r) \in StepsOf(s)
  BY <1>0, Fields DEF StepsOf
<1>4. \A n \in Names : s = "clean_room" =>
        \A l \in SUBSET (Targets(s) \cup Lost(s)) : Stage(n, l) \in StepsOf(s)
  BY Fields DEF StepsOf
<1> QED BY <1>1, <1>2, <1>3, <1>4

\* Short lists of steps are sequences of steps.
LEMMA Tuples ==
    ASSUME NEW S, NEW a \in S, NEW b \in S, NEW c \in S, NEW d \in S, NEW e \in S, NEW f \in S
    PROVE  /\ <<a>> \in Seq(S) /\ Len(<<a>>) = 1
           /\ <<a, b>> \in Seq(S) /\ Len(<<a, b>>) = 2
           /\ <<a, b, c>> \in Seq(S) /\ Len(<<a, b, c>>) = 3
           /\ <<a, b, c, d>> \in Seq(S) /\ Len(<<a, b, c, d>>) = 4
           /\ <<a, b, c, d, e>> \in Seq(S) /\ Len(<<a, b, c, d, e>>) = 5
OBVIOUS

\* Two lists of steps in a row.
LEMMA Concat ==
    ASSUME NEW S, NEW a \in Seq(S), NEW b \in Seq(S)
    PROVE  /\ a \o b \in Seq(S) /\ Len(a \o b) = Len(a) + Len(b)
           /\ Len(a) >= 1 => (a \o b)[1] = a[1]
           /\ Len(a) \in Nat /\ Len(b) \in Nat
OBVIOUS

\* Every body is a sequence of such steps, longer than its clean-up list.  A
\* script whose names may be taken looks first, and demo_smoke, which claims
\* its resources with init, starts them after that.
LEMMA Bodies ==
    ASSUME NEW s \in Harnesses
    PROVE  /\ Body(s) \in Seq(StepsOf(s))
           /\ Len(Body(s)) >= Len(Cleanup(s))
           /\ s \in {"demo", "flow", "clean_room"} => Body(s)[1] = Do("precheck")
           /\ s = "demo" => /\ Len(Body(s)) = 4 /\ Body(s)[2] = Do("init")
                            /\ Body(s)[3] = Start("compose") /\ Body(s)[4] = Do("verify_runtime")
<1>0. /\ \A n \in Names : Do(n) \in StepsOf(s)
      /\ \A r \in Targets(s) : Start(r) \in StepsOf(s)
      /\ \A r \in Resources : Stop(r) \in StepsOf(s)
  BY StepForms
<1>1. CASE s = "integration"
  <2>1. Body(s) = <<Start("redis"), Do("port"), Do("wait_for_redis"), Do("pytest")>>
    BY <1>1 DEF Body, run_integration_tests
  <2>2. "redis" \in Targets(s) /\ Len(Cleanup(s)) = 1
    BY <1>1, Lists DEF Cleanup
  <2>3. Start("redis") \in StepsOf(s)
    BY <1>0, <2>2
  <2>4. Do("port") \in StepsOf(s) /\ Do("wait_for_redis") \in StepsOf(s) /\ Do("pytest") \in StepsOf(s)
    BY <1>0 DEF Names
  <2>5. Body(s) \in Seq(StepsOf(s)) /\ Len(Body(s)) = 4
    BY <2>1, <2>3, <2>4, Tuples
  <2>20. Len(Body(s)) >= Len(Cleanup(s))
    BY <2>2, <2>5
  <2>21. s \notin {"demo", "flow", "clean_room"}
    BY <1>1
  <2> QED BY <2>5, <2>20, <2>21
<1>2. CASE s = "ecs"
  <2> DEFINE A == <<Do("verify_image"), Start("network"), Start("redis"), Do("wait_for_redis")>>
             B == <<Start("healthy"), Do("probe_healthy"), Do("stop_and_collect"), Start("unavailable")>>
             C == <<Do("probe_unavailable"), Do("stop_and_collect"), Do("no_listener"), Do("judge")>>
  <2>1. Body(s) = A \o B \o C
    <3>1. Body(s) = worker_ecs_health
      BY <1>2 DEF Body
    <3>2. worker_ecs_health = A \o B \o C
      BY DEF worker_ecs_health
    <3> QED BY <3>1, <3>2
  <2>2. {"unavailable", "healthy", "redis", "network"} \subseteq Targets(s) /\ Len(Cleanup(s)) = 4
    BY <1>2, Lists DEF Cleanup
  <2>3. /\ Start("network") \in StepsOf(s) /\ Start("redis") \in StepsOf(s)
        /\ Start("healthy") \in StepsOf(s) /\ Start("unavailable") \in StepsOf(s)
    BY <1>0, <2>2
  <2>4. /\ Do("verify_image") \in StepsOf(s) /\ Do("wait_for_redis") \in StepsOf(s)
        /\ Do("probe_healthy") \in StepsOf(s) /\ Do("stop_and_collect") \in StepsOf(s)
        /\ Do("probe_unavailable") \in StepsOf(s) /\ Do("no_listener") \in StepsOf(s)
        /\ Do("judge") \in StepsOf(s)
    BY <1>0 DEF Names
  <2>5. A \in Seq(StepsOf(s)) /\ Len(A) = 4
    BY <2>3, <2>4, Tuples
  <2>6. B \in Seq(StepsOf(s)) /\ Len(B) = 4
    BY <2>3, <2>4, Tuples
  <2>7. C \in Seq(StepsOf(s)) /\ Len(C) = 4
    BY <2>3, <2>4, Tuples
  <2> HIDE DEF A, B, C
  <2>8. Body(s) \in Seq(StepsOf(s)) /\ Len(Body(s)) = 12
    <3>1. A \o B \in Seq(StepsOf(s)) /\ Len(A \o B) = 8
      <4>1. A \o B \in Seq(StepsOf(s)) /\ Len(A \o B) = Len(A) + Len(B)
        BY <2>5, <2>6, Concat, Zenon
      <4> QED BY <4>1, <2>5, <2>6
    <3>2. (A \o B) \o C \in Seq(StepsOf(s)) /\ Len((A \o B) \o C) = 12
      <4>1. PICK x \in Seq(StepsOf(s)) : x = A \o B
        BY <3>1
      <4>2. x \o C \in Seq(StepsOf(s)) /\ Len(x \o C) = Len(x) + Len(C)
        BY <2>7, Concat, Zenon
      <4>3. Len(x) = 8
        BY <4>1, <3>1
      <4>4. x \o C \in Seq(StepsOf(s)) /\ Len(x \o C) = 12
        BY <4>2, <4>3, <2>7
      <4> QED BY <4>1, <4>4
    <3> QED BY <3>2, <2>1
  <2>20. Len(Body(s)) >= Len(Cleanup(s))
    BY <2>2, <2>8
  <2>21. s \notin {"demo", "flow", "clean_room"}
    BY <1>2
  <2> QED BY <2>8, <2>20, <2>21
<1>3. CASE s = "demo"
  <2>1. Body(s) = <<Do("precheck"), Do("init"), Start("compose"), Do("verify_runtime")>>
    BY <1>3 DEF Body, demo_smoke
  <2>2. "compose" \in Targets(s) /\ Len(Cleanup(s)) = 1
    BY <1>3, Lists DEF Cleanup
  <2>3. Start("compose") \in StepsOf(s)
    BY <1>0, <2>2
  <2>4. Do("precheck") \in StepsOf(s) /\ Do("init") \in StepsOf(s) /\ Do("verify_runtime") \in StepsOf(s)
    BY <1>0 DEF Names
  <2>5. Body(s) \in Seq(StepsOf(s)) /\ Len(Body(s)) = 4
    BY <2>1, <2>3, <2>4, Tuples
  <2>6. /\ Body(s)[1] = Do("precheck") /\ Body(s)[2] = Do("init")
        /\ Body(s)[3] = Start("compose") /\ Body(s)[4] = Do("verify_runtime")
    BY <2>1
  <2>20. Len(Body(s)) >= Len(Cleanup(s))
    BY <2>2, <2>5
  <2> QED BY <2>5, <2>6, <2>20
<1>4. CASE s = "flow"
  <2>1. Body(s) = FlowSetup \o FlowTestMode \o FlowDeliveries \o FlowFaults \o FlowExhausted
    BY <1>4 DEF Body, run_contract
  <2>2. {"worker", "sink"} \subseteq Targets(s) /\ Len(Cleanup(s)) = 2 /\ {"worker", "sink"} \subseteq Resources
    BY <1>4, Lists DEF Cleanup, Resources
  <2>3. /\ Start("worker") \in StepsOf(s) /\ Start("sink") \in StepsOf(s)
        /\ Stop("worker") \in StepsOf(s) /\ Stop("sink") \in StepsOf(s)
    BY <1>0, <2>2
  <2>4. /\ Do("precheck") \in StepsOf(s) /\ Do("npm_ci") \in StepsOf(s) /\ Do("migrations") \in StepsOf(s)
        /\ Do("default_mode") \in StepsOf(s) /\ Do("ready") \in StepsOf(s)
        /\ Do("delivery") \in StepsOf(s) /\ Do("idempotency") \in StepsOf(s)
        /\ Do("regressions") \in StepsOf(s) /\ Do("faults") \in StepsOf(s)
        /\ Do("repair") \in StepsOf(s) /\ Do("large_payload") \in StepsOf(s)
        /\ Do("exhausted") \in StepsOf(s)
    BY <1>0 DEF Names
  <2>5. FlowSetup \in Seq(StepsOf(s)) /\ Len(FlowSetup) = 5 /\ FlowSetup[1] = Do("precheck")
    <3>1. FlowSetup \in Seq(StepsOf(s)) /\ Len(FlowSetup) = 5
      BY <2>3, <2>4, Tuples DEF FlowSetup
    <3>2. FlowSetup[1] = Do("precheck")
      BY DEF FlowSetup
    <3> QED BY <3>1, <3>2
  <2>6. FlowTestMode \in Seq(StepsOf(s))
    BY <2>3, <2>4, Tuples DEF FlowTestMode
  <2>7. FlowDeliveries \in Seq(StepsOf(s))
    BY <2>4, Tuples DEF FlowDeliveries
  <2>8. FlowFaults \in Seq(StepsOf(s))
    BY <2>4, Tuples DEF FlowFaults
  <2>9. FlowExhausted \in Seq(StepsOf(s))
    BY <2>3, <2>4, Tuples DEF FlowExhausted
  <2>10. Body(s) \in Seq(StepsOf(s)) /\ Len(Body(s)) >= 5 /\ Body(s)[1] = Do("precheck")
    <3>1. \A a, b \in Seq(StepsOf(s)) : Len(a) >= 5 /\ a[1] = Do("precheck") =>
             a \o b \in Seq(StepsOf(s)) /\ Len(a \o b) >= 5 /\ (a \o b)[1] = Do("precheck")
      BY Concat
    <3> DEFINE A == FlowSetup \o FlowTestMode
               B == A \o FlowDeliveries
               C == B \o FlowFaults
               D == C \o FlowExhausted
    <3>2. A \in Seq(StepsOf(s)) /\ Len(A) >= 5 /\ A[1] = Do("precheck")
      <4>1. Len(FlowSetup) >= 5
        BY <2>5
      <4> QED BY <3>1, <2>5, <2>6, <4>1, Zenon
    <3> HIDE DEF A
    <3>3. B \in Seq(StepsOf(s)) /\ Len(B) >= 5 /\ B[1] = Do("precheck")
      BY <3>1, <3>2, <2>7
    <3> HIDE DEF B
    <3>4. C \in Seq(StepsOf(s)) /\ Len(C) >= 5 /\ C[1] = Do("precheck")
      BY <3>1, <3>3, <2>8
    <3> HIDE DEF C
    <3>5. D \in Seq(StepsOf(s)) /\ Len(D) >= 5 /\ D[1] = Do("precheck")
      BY <3>1, <3>4, <2>9
    <3>6. Body(s) = D
      BY <2>1 DEF A, B, C
    <3> HIDE DEF D
    <3> QED BY <3>5, <3>6
  <2>20. Len(Body(s)) >= Len(Cleanup(s))
    BY <2>2, <2>10
  <2>21. s # "demo"
    BY <1>4
  <2> QED BY <2>10, <2>20, <2>21
<1>5. CASE s = "clean_room"
  <2> DEFINE pre == <<Do("precheck")>>
             A == <<Do("setup"), Stage("verify", {"redis"}), Stage("demo", {"compose"})>>
             B == <<Stage("e2e", {"cluster", "artifact"}), Start("cluster"),
                    Stage("drills", {"artifact"}), Do("docs")>>
  <2>1. Body(s) = pre \o create_candidate_clone \o (A \o B)
    <3>1. Body(s) = pre \o create_candidate_clone \o verify_candidate
      BY <1>5 DEF Body
    <3>2. verify_candidate = A \o B
      BY DEF verify_candidate
    <3> QED BY <3>1, <3>2
  <2>2. Targets(s) = {"cluster", "compose"} /\ Lost(s) = {"redis", "artifact"} /\ Len(Cleanup(s)) = 2
    BY <1>5, Lists DEF Cleanup, Lost
  <2>3. /\ Do("precheck") \in StepsOf(s) /\ Do("candidate_state") \in StepsOf(s) /\ Do("clone") \in StepsOf(s)
        /\ Do("setup") \in StepsOf(s) /\ Do("docs") \in StepsOf(s)
    BY <1>0 DEF Names
  <2>4. /\ Stage("verify", {"redis"}) \in StepsOf(s) /\ Stage("demo", {"compose"}) \in StepsOf(s)
        /\ Stage("e2e", {"cluster", "artifact"}) \in StepsOf(s)
        /\ Stage("drills", {"artifact"}) \in StepsOf(s)
    BY <1>5, <2>2, StepForms DEF Names
  <2>5. Start("cluster") \in StepsOf(s)
    BY <1>0, <2>2
  <2>6. pre \in Seq(StepsOf(s)) /\ Len(pre) = 1 /\ pre[1] = Do("precheck")
    BY <2>3, Tuples
  <2>7. create_candidate_clone \in Seq(StepsOf(s)) /\ Len(create_candidate_clone) = 2
    BY <2>3, Tuples DEF create_candidate_clone
  <2>8. A \in Seq(StepsOf(s)) /\ B \in Seq(StepsOf(s))
    BY <2>3, <2>4, <2>5, Tuples
  <2> HIDE DEF pre, A, B
  <2>9. Body(s) \in Seq(StepsOf(s)) /\ Len(Body(s)) >= 2 /\ Body(s)[1] = Do("precheck")
    <3>1. A \o B \in Seq(StepsOf(s)) /\ Len(A \o B) \in Nat
      BY <2>8, Concat
    <3>2. /\ pre \o create_candidate_clone \in Seq(StepsOf(s))
          /\ Len(pre \o create_candidate_clone) = 3
          /\ (pre \o create_candidate_clone)[1] = Do("precheck")
      <4>1. /\ pre \o create_candidate_clone \in Seq(StepsOf(s))
            /\ Len(pre \o create_candidate_clone) = Len(pre) + Len(create_candidate_clone)
            /\ Len(pre) >= 1 => (pre \o create_candidate_clone)[1] = pre[1]
        BY <2>6, <2>7, Concat, Zenon
      <4> QED BY <4>1, <2>6, <2>7
    <3>3. /\ (pre \o create_candidate_clone) \o (A \o B) \in Seq(StepsOf(s))
          /\ Len((pre \o create_candidate_clone) \o (A \o B)) = 3 + Len(A \o B)
          /\ ((pre \o create_candidate_clone) \o (A \o B))[1] = Do("precheck")
      BY <3>1, <3>2, Concat
    <3>4. Len((pre \o create_candidate_clone) \o (A \o B)) >= 2
      BY <3>1, <3>3
    <3> QED BY <3>3, <3>4, <2>1
  <2>20. Len(Body(s)) >= Len(Cleanup(s))
    BY <2>2, <2>9
  <2>21. s # "demo"
    BY <1>5
  <2> QED BY <2>9, <2>20, <2>21
<1> QED BY <1>1, <1>2, <1>3, <1>4, <1>5 DEF Harnesses

\* What a step of a body starts and leaves (the calls of the five scripts).
LEMMA StepFacts ==
    ASSUME NEW s \in Harnesses, NEW i \in 1 .. Len(Body(s))
    PROVE  /\ Known(Body(s)[i].starts) \subseteq Targets(s)
           /\ s # "clean_room" => Body(s)[i].leaves = {}
           /\ Body(s)[i].leaves \subseteq Targets(s) \cup Lost(s)
           /\ i = 1 /\ s \in {"demo", "flow", "clean_room"} =>
                Body(s)[i].name = "precheck" /\ Body(s)[i].starts = "none" /\ Body(s)[i].leaves = {}
           /\ s = "demo" /\ i = 2 => Body(s)[i].name = "init"
           /\ s = "demo" /\ Body(s)[i].starts # "none" => i >= 3
           /\ s = "demo" => Known(Body(s)[i].starts) \subseteq {"compose"}
<1>1. Body(s)[i] \in StepsOf(s)
  BY Bodies
<1>2. /\ Body(s)[i].starts \in Targets(s) \cup {"none"}
      /\ Body(s)[i].leaves \in SUBSET (IF s = "clean_room" THEN Targets(s) \cup Lost(s) ELSE {})
  BY <1>1 DEF StepsOf
<1>3. Known(Body(s)[i].starts) \subseteq Targets(s)
  BY <1>2 DEF Known
<1>4. i = 1 /\ s \in {"demo", "flow", "clean_room"} =>
        Body(s)[i].name = "precheck" /\ Body(s)[i].starts = "none" /\ Body(s)[i].leaves = {}
  <2> SUFFICES ASSUME i = 1, s \in {"demo", "flow", "clean_room"}
               PROVE  Body(s)[i].name = "precheck" /\ Body(s)[i].starts = "none" /\ Body(s)[i].leaves = {}
    OBVIOUS
  <2>1. Body(s)[i] = Do("precheck")
    BY Bodies
  <2> QED BY <2>1 DEF Do
<1>5. s = "demo" => (i = 2 => Body(s)[i].name = "init") /\ (Body(s)[i].starts # "none" => i >= 3)
  <2> SUFFICES ASSUME s = "demo"
               PROVE  (i = 2 => Body(s)[i].name = "init") /\ (Body(s)[i].starts # "none" => i >= 3)
    OBVIOUS
  <2>1. Body(s)[1] = Do("precheck") /\ Body(s)[2] = Do("init")
    BY Bodies
  <2>2. Body(s)[1].starts = "none" /\ Body(s)[2].starts = "none" /\ Body(s)[2].name = "init"
    BY <2>1 DEF Do
  <2>3. i \in Nat /\ i >= 1
    BY Bodies
  <2> QED BY <2>2, <2>3
<1>6. s = "demo" => Targets(s) = {"compose"}
  BY Lists
<1> QED BY <1>2, <1>3, <1>4, <1>5, <1>6

\* The clean-up list, as its loop goes through it.
LEMMA Going ==
    ASSUME NEW s \in Harnesses
    PROVE  /\ \A n \in 1 .. Len(Cleanup(s)) : Remaining(s, n) = {Cleanup(s)[n]} \cup Remaining(s, n + 1)
           /\ Remaining(s, Len(Cleanup(s)) + 1) = {}
           /\ Len(Cleanup(s)) \in Nat
           /\ Targets(s) \cup Lost(s) \subseteq Resources
<1>1. Len(Cleanup(s)) \in 1 .. 4 /\ Targets(s) \subseteq Resources
  BY Lists
<1>2. ASSUME NEW n \in 1 .. Len(Cleanup(s))
      PROVE  Remaining(s, n) = {Cleanup(s)[n]} \cup Remaining(s, n + 1)
  <2>1. n .. Len(Cleanup(s)) = {n} \cup ((n + 1) .. Len(Cleanup(s)))
    BY <1>1
  <2> QED BY <2>1 DEF Remaining
<1>3. Remaining(s, Len(Cleanup(s)) + 1) = {}
  <2>1. Len(Cleanup(s)) + 1 .. Len(Cleanup(s)) = {}
    BY <1>1
  <2> QED BY <2>1 DEF Remaining
<1> QED BY <1>1, <1>2, <1>3 DEF Lost, Resources

(***************************************************************************)
(* Every step preserves the invariant.                                     *)
(***************************************************************************)
\* The script considered is one of the five.
LEMMA Considered ==
    ASSUME TypeOK
    PROVE  script \in Harnesses /\ Len(Body(script)) \in Nat
<1>1. script \in Harnesses
  BY HarnessAssumption DEF TypeOK, Harnesses
<1> QED BY <1>1, Bodies

\* main begins with nothing started.
LEMMA InitIInv == Init => IInv
<1> SUFFICES ASSUME Init PROVE IInv
  OBVIOUS
<1>1. script \in Harnesses
  BY HarnessAssumption DEF Init, Harnesses
<1>2. Len(Body(script)) \in Nat
  BY <1>1, Bodies
<1>3. foreign \subseteq Resources /\ (foreign # {} => script \in {"demo", "flow", "clean_room"})
  BY <1>1 DEF Init, Resources, Harnesses
<1>4. TypeOK
  <2>1. /\ script \in Scripts /\ phase = "body" /\ at = 1 /\ own = {} /\ noted = {}
        /\ raised = FALSE /\ failed = FALSE /\ exit = 2 /\ faults = 0 /\ cleanFaults = 0 /\ missed = {}
    BY DEF Init
  <2>2. at \in 1 .. Len(Body(script)) + 1 /\ exit \in 0 .. 2
    BY <2>1, <1>2
  <2>3. faults \in 0 .. MaxFaults /\ cleanFaults \in 0 .. faults /\ missed \subseteq Resources
    BY <2>1, HarnessAssumption
  <2> QED BY <2>1, <2>2, <2>3, <1>3 DEF TypeOK
<1>5. BodyInv
  BY <1>3 DEF Init, BodyInv
<1> QED BY <1>4, <1>5 DEF Init, IInv, CleanupInv, FlagInv, PassMeansClean, FailureIsCleaned

\* A step that succeeds: what it starts is noted, and demo_smoke claims first.
LEMMA SucceedsStep ==
    ASSUME IInv, StepSucceeds
    PROVE  IInv'
<1> USE DEF IInv
<1>1. script \in Harnesses /\ Len(Body(script)) \in Nat
  BY Considered
<1>2. at \in 1 .. Len(Body(script))
  BY <1>1 DEF StepSucceeds, TypeOK
<1> DEFINE S == Known(Step.starts)
<1>3. /\ S \subseteq Targets(script)
      /\ at = 1 /\ script \in {"demo", "flow", "clean_room"} => Step.name = "precheck"
      /\ script = "demo" /\ at = 2 => Step.name = "init"
  BY <1>1, <1>2, StepFacts DEF Step
<1>4. /\ phase = "body" /\ phase' = "body" /\ at' = at + 1
      /\ own' \subseteq own \cup S /\ noted' = noted \cup S \cup NotedBefore
      /\ UNCHANGED <<script, foreign, raised, failed, exit, faults, cleanFaults, missed>>
      /\ (Step.name = "precheck" => foreign = {})
  BY DEF StepSucceeds
<1>5. NotedBefore \subseteq Resources /\ (script = "demo" /\ at = 2 => "compose" \in NotedBefore)
  BY <1>3 DEF NotedBefore, Resources
<1>6. S \subseteq Resources
  BY <1>1, <1>3, Going
<1> HIDE DEF S
<1>7. TypeOK'
  BY <1>1, <1>2, <1>4, <1>5, <1>6 DEF TypeOK
<1>8. BodyInv'
  <2>1. foreign = {}
    BY <1>3, <1>4 DEF BodyInv
  <2>2. own' \subseteq Targets(script) /\ (script # "clean_room" => own' \subseteq noted')
    BY <1>3, <1>4 DEF BodyInv
  <2>3. script = "demo" /\ at + 1 >= 3 => "compose" \in noted'
    BY <1>2, <1>4, <1>5 DEF BodyInv
  <2>4. at + 1 # 1
    BY <1>2
  <2> QED BY <2>1, <2>2, <2>3, <2>4, <1>4 DEF BodyInv
<1> QED BY <1>4, <1>7, <1>8 DEF CleanupInv, FlagInv, PassMeansClean, FailureIsCleaned

\* The body fails: finally, or out with nothing of its own left behind.
LEMMA FinallyStep ==
    ASSUME IInv, phase = "body", at \in 1 .. Len(Body(script)), script' = script, Finally, raised' = TRUE,
           own' \subseteq Resources, UNCHANGED noted, UNCHANGED foreign, UNCHANGED failed, UNCHANGED cleanFaults,
           faults' \in 0 .. MaxFaults, cleanFaults' \in 0 .. faults', missed' \subseteq Resources,
           ~Protected(script, at) => own' \subseteq missed',
           own' \subseteq Targets(script) \cup Lost(script),
           script # "clean_room" => own' \subseteq noted \cup missed'
    PROVE  IInv'
<1> USE DEF IInv
<1>1. script \in Harnesses /\ Len(Body(script)) \in Nat
  BY Considered
<1>2. exit = 2 /\ failed = FALSE /\ cleanFaults = 0
  BY DEF BodyInv
<1>3. Len(Cleanup(script)) \in Nat
  BY <1>1, Going
<1>4. raised' \in BOOLEAN
  BY Zenon
<1>5. CASE Protected(script, at)
  <2>1. phase' = "cleanup" /\ at' = 1 /\ exit' = 2
    BY <1>5, <1>2 DEF Finally
  <2>2. TypeOK'
    BY <1>1, <1>4, <2>1 DEF TypeOK
  <2>3. CleanupInv'
    <3>1. Remaining(script, 1) = Targets(script)
      BY DEF Targets
    <3> QED BY <1>3, <2>1, <3>1 DEF CleanupInv, Sound
  <2> QED BY <1>2, <2>1, <2>2, <2>3 DEF BodyInv, FlagInv, PassMeansClean, FailureIsCleaned
<1>6. CASE ~Protected(script, at)
  <2>1. phase' = "over" /\ at' = at /\ exit' = 1
    BY <1>6 DEF Finally
  <2>2. TypeOK'
    BY <1>1, <1>4, <2>1 DEF TypeOK
  <2> QED BY <1>2, <1>6, <2>1, <2>2 DEF BodyInv, CleanupInv, FlagInv, PassMeansClean, FailureIsCleaned
<1> QED BY <1>5, <1>6

\* A name that is taken stops the script before it started anything.
LEMMA PrecheckStep ==
    ASSUME IInv, Precheck
    PROVE  IInv'
<1> USE DEF IInv
<1>1. script \in Harnesses /\ Len(Body(script)) \in Nat
  BY Considered
<1>2. phase = "body" /\ at \in 1 .. Len(Body(script)) /\ foreign # {}
  BY <1>1 DEF Precheck, TypeOK
<1>3. own = {}
  BY <1>2 DEF BodyInv
<1>4. /\ Finally /\ raised' = TRUE /\ script' = script
      /\ UNCHANGED own /\ UNCHANGED noted /\ UNCHANGED foreign /\ UNCHANGED failed
      /\ UNCHANGED faults /\ UNCHANGED cleanFaults /\ UNCHANGED missed
  BY DEF Precheck
<1>5. faults' \in 0 .. MaxFaults /\ cleanFaults' \in 0 .. faults' /\ missed' \subseteq Resources
  BY <1>4 DEF TypeOK
<1>6. own' = {}
  BY <1>3, <1>4
<1> QED BY <1>2, <1>4, <1>5, <1>6, FinallyStep

\* A command fails: what it began is on the clean-up list, and noted or missed.
LEMMA FailsStep ==
    ASSUME IInv, StepFails
    PROVE  IInv'
<1> USE DEF IInv
<1>1. script \in Harnesses /\ Len(Body(script)) \in Nat
  BY Considered
<1>2. phase = "body" /\ at \in 1 .. Len(Body(script))
  BY <1>1 DEF StepFails, TypeOK
<1>3. PICK left \in SUBSET Step.leaves, begun \in BOOLEAN :
        /\ begun => Step.starts # "none" /\ script # "flow"
        /\ own' = own \cup left \cup (IF begun THEN Known(Step.starts) ELSE {})
        /\ missed' = missed \cup (IF begun /\ script \in {"integration", "ecs"}
                                 THEN Known(Step.starts) ELSE {})
                             \cup (IF Protected(script, at) THEN {} ELSE own)
  BY DEF StepFails
<1>4. /\ Finally /\ raised' = TRUE /\ script' = script /\ faults < MaxFaults /\ faults' = faults + 1
      /\ UNCHANGED noted /\ UNCHANGED foreign /\ UNCHANGED failed /\ UNCHANGED cleanFaults
  BY DEF StepFails, Fault
<1>5. /\ Known(Step.starts) \subseteq Targets(script)
      /\ script # "clean_room" => Step.leaves = {}
      /\ Step.leaves \subseteq Targets(script) \cup Lost(script)
      /\ at = 1 /\ script \in {"demo", "flow", "clean_room"} => Step.starts = "none" /\ Step.leaves = {}
      /\ script = "demo" /\ Step.starts # "none" => at >= 3
      /\ script = "demo" => Known(Step.starts) \subseteq {"compose"}
  BY <1>1, <1>2, StepFacts DEF Step
<1>6. own \subseteq Targets(script) /\ (script # "clean_room" => own \subseteq noted)
  BY <1>2 DEF BodyInv
<1>7. own' \subseteq Targets(script) \cup Lost(script)
  BY <1>3, <1>5, <1>6
<1>8. own' \subseteq Resources /\ own \subseteq Resources /\ Known(Step.starts) \subseteq Resources
  BY <1>1, <1>5, <1>6, <1>7, Going
<1>9. missed' \subseteq Resources
  <2>1. missed \subseteq Resources
    BY DEF TypeOK
  <2> QED BY <2>1, <1>3, <1>8
<1>10. faults' \in 0 .. MaxFaults /\ cleanFaults' \in 0 .. faults'
  BY <1>4, HarnessAssumption DEF TypeOK
<1>11. ASSUME ~Protected(script, at)
       PROVE  own' \subseteq missed'
  <2>1. script = "flow" \/ (script = "clean_room" /\ at = 1)
    BY <1>2, <1>11 DEF Protected, TypeOK
  <2>2. left = {} /\ (begun => Known(Step.starts) = {})
    BY <2>1, <1>3, <1>5
  <2>3. own' = own
    BY <2>2, <1>3
  <2>4. own \subseteq missed'
    BY <1>3, <1>11
  <2> QED BY <2>3, <2>4
<1>12. ASSUME script # "clean_room"
       PROVE  own' \subseteq noted \cup missed'
  <2>1. left = {} /\ own \subseteq noted
    BY <1>5, <1>6, <1>12
  <2>2. begun => Known(Step.starts) \subseteq noted \cup missed'
    <3>1. CASE script \in {"integration", "ecs"}
      BY <3>1, <1>3
    <3>2. CASE script \notin {"integration", "ecs"}
      <4>1. begun => script = "demo"
        BY <1>1, <1>3, <1>12, <3>2 DEF Harnesses
      <4> QED BY <4>1, <1>2, <1>3, <1>5 DEF BodyInv
    <3> QED BY <3>1, <3>2
  <2> QED BY <2>1, <2>2, <1>3
<1> QED BY <1>2, <1>4, <1>7, <1>8, <1>9, <1>10, <1>11, <1>12, FinallyStep

\* The leader of a process group ends by itself: what lives on is out of reach.
LEMMA LeaderStep ==
    ASSUME IInv, LeaderEnds
    PROVE  IInv'
<1> USE DEF IInv
<1>1. /\ script = "flow" /\ phase # "over" /\ own' \subseteq own
      /\ missed \subseteq missed' /\ missed' \subseteq missed \cup own
      /\ UNCHANGED <<script, phase, at, noted, foreign, raised, failed, exit, faults, cleanFaults>>
  BY DEF LeaderEnds
<1>2. TypeOK'
  BY <1>1 DEF TypeOK
<1>3. BodyInv'
  BY <1>1 DEF BodyInv
<1>4. CleanupInv'
  BY <1>1 DEF CleanupInv, Sound
<1> QED BY <1>1, <1>2, <1>3, <1>4 DEF FlagInv, PassMeansClean, FailureIsCleaned

\* The end of the body.
LEMMA EndsStep ==
    ASSUME IInv, BodyEnds
    PROVE  IInv'
<1> USE DEF IInv
<1>1. script \in Harnesses /\ Len(Body(script)) \in Nat
  BY Considered
<1>2. Len(Cleanup(script)) \in Nat /\ Remaining(script, 1) = Targets(script)
  BY <1>1, Going DEF Targets
<1>3. /\ phase = "body" /\ phase' = "cleanup" /\ at' = 1
      /\ UNCHANGED <<script, own, noted, foreign, raised, failed, exit, faults, cleanFaults, missed>>
  BY DEF BodyEnds
<1>4. TypeOK'
  BY <1>1, <1>3 DEF TypeOK
<1>5. CleanupInv'
  BY <1>2, <1>3 DEF CleanupInv, BodyInv, Sound
<1> QED BY <1>3, <1>4, <1>5 DEF BodyInv, FlagInv, PassMeansClean, FailureIsCleaned

\* One entry of finally: what was wanted is gone, what was not wanted was not
\* the script's.
LEMMA RemoveStep ==
    ASSUME IInv, Remove
    PROVE  IInv'
<1> USE DEF IInv
<1>1. script \in Harnesses /\ Len(Body(script)) \in Nat
  BY Considered
<1>2. Len(Cleanup(script)) \in Nat /\ Len(Body(script)) >= Len(Cleanup(script))
  BY <1>1, Going, Bodies
<1>3. phase = "cleanup" /\ at \in 1 .. Len(Cleanup(script))
  BY <1>2 DEF Remove, Cleaning, TypeOK
<1>4. /\ at' = at + 1
      /\ UNCHANGED <<script, phase, noted, raised, failed, exit, faults, cleanFaults, missed>>
  BY DEF Remove
<1>5. own' \subseteq own /\ foreign' \subseteq foreign
      /\ (Wanted /\ Target \notin missed => Target \notin own')
  BY DEF Remove
<1>6. TypeOK'
  BY <1>1, <1>2, <1>3, <1>4, <1>5 DEF TypeOK
<1>7. Remaining(script, at) = {Target} \cup Remaining(script, at + 1)
  BY <1>1, <1>3, Going DEF Target
<1>8. ASSUME Sound
      PROVE  /\ own' \subseteq Remaining(script, at + 1) \cup Lost(script) \cup missed
             /\ script # "clean_room" => own' \subseteq noted \cup missed
  <2>1. /\ own \subseteq Remaining(script, at) \cup Lost(script) \cup missed
        /\ script # "clean_room" => own \subseteq noted \cup missed
    BY <1>3, <1>8 DEF CleanupInv
  <2>2. Target \in own' => Target \in missed
    BY <2>1, <1>5 DEF Wanted
  <2> QED BY <2>1, <2>2, <1>5, <1>7
<1>9. CleanupInv'
  <2>1. Sound' = Sound
    BY <1>4 DEF Sound
  <2>2. exit' = 2 /\ at' \in 1 .. Len(Cleanup(script)) + 1 /\ phase' = "cleanup"
    BY <1>2, <1>3, <1>4 DEF CleanupInv
  <2> QED BY <2>1, <2>2, <1>4, <1>8 DEF CleanupInv
<1> QED BY <1>3, <1>4, <1>6, <1>9 DEF BodyInv, FlagInv, PassMeansClean, FailureIsCleaned

\* A removal that fails is noticed, or was of the one script that does not look.
LEMMA RemoveFailsStep ==
    ASSUME IInv, RemoveFails
    PROVE  IInv'
<1> USE DEF IInv
<1>1. script \in Harnesses /\ Len(Body(script)) \in Nat
  BY Considered
<1>2. Len(Cleanup(script)) \in Nat /\ Len(Body(script)) >= Len(Cleanup(script))
  BY <1>1, Going, Bodies
<1>3. phase = "cleanup" /\ at \in 1 .. Len(Cleanup(script))
  BY <1>2 DEF RemoveFails, Cleaning, TypeOK
<1>4. /\ at' = at + 1 /\ cleanFaults' = cleanFaults + 1 /\ failed' = (failed \/ script # "ecs")
      /\ faults < MaxFaults /\ faults' = faults + 1
      /\ UNCHANGED <<script, phase, own, noted, foreign, raised, exit, missed>>
  BY DEF RemoveFails, Fault
<1>5. cleanFaults' # 0 /\ failed' \in BOOLEAN /\ (script # "ecs" => failed' # FALSE)
  <2>1. cleanFaults' # 0
    BY <1>4 DEF TypeOK
  <2>2. failed' \in BOOLEAN
    BY <1>4
  <2>3. script # "ecs" => failed' # FALSE
    BY <1>4
  <2> QED BY <2>1, <2>2, <2>3
<1>6. TypeOK'
  <2>1. at' \in 1 .. Len(Body(script)) + 1
    BY <1>1, <1>2, <1>3, <1>4
  <2>2. faults' \in 0 .. MaxFaults /\ cleanFaults' \in 0 .. faults' /\ missed' \subseteq Resources
    BY <1>4, HarnessAssumption DEF TypeOK
  <2> QED BY <2>1, <2>2, <1>4, <1>5 DEF TypeOK
<1>7. ~Sound'
  BY <1>4, <1>5 DEF Sound
<1>8. CleanupInv'
  <2>1. exit' = 2 /\ at' \in 1 .. Len(Cleanup(script)) + 1 /\ phase' = "cleanup"
    BY <1>2, <1>3, <1>4 DEF CleanupInv
  <2> QED BY <2>1, <1>4, <1>7 DEF CleanupInv
<1> QED BY <1>3, <1>4, <1>5, <1>6, <1>8 DEF BodyInv, FlagInv, PassMeansClean, FailureIsCleaned

\* An exception in finally ends the script with an error.
LEMMA RemoveRaisesStep ==
    ASSUME IInv, RemoveRaises
    PROVE  IInv'
<1> USE DEF IInv
<1>1. /\ phase = "cleanup" /\ phase' = "over" /\ exit' = 1 /\ cleanFaults' = cleanFaults + 1
      /\ faults < MaxFaults /\ faults' = faults + 1
      /\ UNCHANGED <<script, at, own, noted, foreign, raised, failed, missed>>
  BY DEF RemoveRaises, Cleaning, Fault
<1>2. cleanFaults' # 0
  BY <1>1 DEF TypeOK
<1>3. TypeOK'
  BY <1>1, HarnessAssumption DEF TypeOK
<1> QED BY <1>1, <1>2, <1>3 DEF BodyInv, CleanupInv, FlagInv, PassMeansClean, FailureIsCleaned

\* The list is through.
LEMMA CleanupEndsStep ==
    ASSUME IInv, CleanupEnds
    PROVE  IInv'
<1> USE DEF IInv
<1>1. /\ phase = "cleanup" /\ phase' = "post" /\ at = Len(Cleanup(script)) + 1
      /\ UNCHANGED <<script, at, own, noted, foreign, raised, failed, exit, faults, cleanFaults, missed>>
  BY DEF CleanupEnds
<1>2. TypeOK'
  BY <1>1 DEF TypeOK
<1>3. CleanupInv'
  BY <1>1 DEF CleanupInv, Sound
<1> QED BY <1>1, <1>2, <1>3 DEF BodyInv, FlagInv, PassMeansClean, FailureIsCleaned

\* The verdict: nothing on the list is left, and what else may be left is
\* what clean_room looks for.
LEMMA PostStep ==
    ASSUME IInv, Post
    PROVE  IInv'
<1> USE DEF IInv
<1>1. script \in Harnesses /\ Len(Body(script)) \in Nat
  BY Considered
<1> DEFINE left == script \in {"demo", "clean_room"} /\ own \cup foreign # {}
<1>2. /\ phase = "post" /\ phase' = "over"
      /\ exit' = IF raised \/ failed \/ left THEN 1 ELSE 0
      /\ UNCHANGED <<script, at, own, noted, foreign, raised, failed, faults, cleanFaults, missed>>
  BY DEF Post
<1>3. TypeOK'
  BY <1>2 DEF TypeOK
<1>4. Sound => own \subseteq Lost(script) \cup missed
  <2>1. Sound => own \subseteq Remaining(script, Len(Cleanup(script)) + 1) \cup Lost(script) \cup missed
    BY <1>2 DEF CleanupInv
  <2>2. Remaining(script, Len(Cleanup(script)) + 1) = {}
    BY <1>1, Going
  <2> QED BY <2>1, <2>2
<1>5. PassMeansClean'
  <2> SUFFICES ASSUME exit' = 0, script = "ecs" => cleanFaults = 0
               PROVE  own \subseteq (IF script = "flow" THEN missed ELSE {})
    BY <1>2 DEF PassMeansClean
  <2>1. raised = FALSE /\ failed = FALSE /\ ~left
    BY <1>2 DEF TypeOK
  <2>2. Sound
    BY <2>1 DEF Sound, FlagInv
  <2>3. script # "flow" => missed = {}
    BY <2>1 DEF FlagInv
  <2> QED BY <2>1, <2>2, <2>3, <1>4 DEF Lost
<1>6. FailureIsCleaned'
  <2> SUFFICES ASSUME cleanFaults = 0
               PROVE  own \subseteq missed \cup Lost(script)
    BY <1>2 DEF FailureIsCleaned, Lost
  <2>1. Sound
    BY DEF Sound, FlagInv
  <2> QED BY <2>1, <1>4
<1> QED BY <1>2, <1>3, <1>5, <1>6 DEF BodyInv, CleanupInv, FlagInv

(***************************************************************************)
(* The results.                                                            *)
(***************************************************************************)
\* The bookkeeping of the five harnesses holds wherever their commands fail
\* (main and the finally blocks of the scripts).
THEOREM Invariance == Spec => []IInv
<1>1. Init => IInv
  BY InitIInv
<1>2. IInv /\ [Next]_vars => IInv'
  <2> SUFFICES ASSUME IInv, [Next]_vars PROVE IInv'
    OBVIOUS
  <2>1. CASE Next
    BY <2>1, SucceedsStep, PrecheckStep, FailsStep, LeaderStep, EndsStep, RemoveStep, RemoveFailsStep,
       RemoveRaisesStep, CleanupEndsStep, PostStep DEF Next
  <2>2. CASE UNCHANGED vars
    BY <2>2 DEF vars, IInv, TypeOK, BodyInv, CleanupInv, FlagInv, Sound, PassMeansClean, FailureIsCleaned
  <2> QED BY <2>1, <2>2
<1> QED BY <1>1, <1>2, PTL DEF Spec

\* A harness that exits with 0 left nothing behind, whatever failed on the way
\* (the exit codes of the five scripts), process groups that lost their leader
\* excepted; worker_ecs_health_reproduction, which does not look at its clean-up
\* commands, if those worked.
THEOREM SuccessMeansClean == Spec => []PassMeansClean
<1>1. IInv => PassMeansClean
  BY DEF IInv
<1> QED BY <1>1, Invariance, PTL

\* Of what a failing body started nothing is left but the resources that are out
\* of reach of its finally block, if the clean-up commands work.
THEOREM FailuresAreCleaned == Spec => []FailureIsCleaned
<1>1. IInv => FailureIsCleaned
  BY DEF IInv
<1> QED BY <1>1, Invariance, PTL
=============================================================================
