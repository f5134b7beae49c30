--------------------------- MODULE WorkerRuntime ----------------------------
(***************************************************************************)
(* One worker process: the loop of run_worker around WorkerRuntime, its    *)
(* reconnection, the readiness gauge it exports, and its shutdown by       *)
(* SIGTERM or SIGINT.  What an iteration does to events is DeliveryWorker; *)
(* here run_once is a call that ends in one of four ways.                  *)
(*                                                                         *)
(* The event loop runs a signal's callback only while the program awaits,  *)
(* so a signal comes between two steps only at an Awaiting label; the      *)
(* other labels are passed without a pause.                                *)
(***************************************************************************)
EXTENDS ServiceHealth

CONSTANT MaxOutages    \* bound: how often Redis goes away
ASSUME MaxOutagesAssumption == MaxOutages \in Nat

VARIABLES
    pc,          \* where run_worker is
    requested,   \* the coordinator's event
    gauge,       \* hooklane_service_ready
    redisUp,
    outages

vars == <<healthVars, pc, requested, gauge, redisUp, outages>>

Awaiting == {"startup", "working", "waiting", "draining"}
Passing == {"loop", "gate", "unavailable", "stopping", "stopped"}

TypeOK ==
    /\ HealthTypeOK
    /\ pc \in Awaiting \cup Passing
    /\ requested \in BOOLEAN
    /\ gauge \in {0, 1}
    /\ redisUp \in BOOLEAN
    /\ outages \in 0 .. MaxOutages

Init ==
    /\ HealthInit
    /\ pc = "loop"
    /\ requested = FALSE
    /\ gauge = 0
    /\ redisUp \in BOOLEAN
    /\ outages = 0

(***************************************************************************)
(* The loop.                                                               *)
(***************************************************************************)
\* Mutants: the loop never looks at the request; it connects only once.
LoopDeaf ==
    /\ pc = "loop"
    /\ pc' = IF Ready THEN "gate" ELSE "startup"
    /\ UNCHANGED <<healthVars, requested, gauge, redisUp, outages>>

LoopConnectsOnce ==
    /\ pc = "loop"
    /\ pc' = IF requested THEN "draining" ELSE IF Ready THEN "gate"
             ELSE IF started THEN "waiting" ELSE "startup"
    /\ UNCHANGED <<healthVars, requested, gauge, redisUp, outages>>

Loop ==
    /\ pc = "loop"
    /\ pc' = IF requested THEN "draining" ELSE IF Ready THEN "gate" ELSE "startup"
    /\ UNCHANGED <<healthVars, requested, gauge, redisUp, outages>>

\* WorkerRuntime.startup: ensure_consumer_group, then mark_started.
StartupSucceeds ==
    /\ pc = "startup"
    /\ redisUp
    /\ MarkStarted(TRUE)
    /\ pc' = "gate"
    /\ UNCHANGED <<requested, gauge, redisUp, outages>>

StartupFails ==
    /\ pc = "startup"
    /\ MarkStarted(FALSE)
    /\ gauge' = 0
    /\ pc' = "waiting"
    /\ UNCHANGED <<requested, redisUp, outages>>

\* WorkerRuntime.run_once up to its first await: shutdown may have begun
\* while startup was under way, and then no work is taken on.
Gate ==
    /\ pc = "gate"
    /\ gauge' = 1
    /\ \/ BeginWork /\ pc' = "working"
       \/ ~Ready /\ UNCHANGED healthVars /\ pc' = "waiting"
    /\ UNCHANGED <<requested, redisUp, outages>>

\* The iteration handled a message, or found none.
RunEnds ==
    /\ pc = "working"
    /\ FinishWork
    /\ pc' \in {"loop", "waiting"}
    /\ UNCHANGED <<requested, gauge, redisUp, outages>>

\* EventStoreUnavailable.
RunUnavailable ==
    /\ pc = "working"
    /\ FinishWork
    /\ pc' = "unavailable"
    /\ UNCHANGED <<requested, gauge, redisUp, outages>>

DependencyLost ==
    /\ pc = "unavailable"
    /\ SetDependencyReady(FALSE)
    /\ gauge' = 0
    /\ pc' = "waiting"
    /\ UNCHANGED <<requested, redisUp, outages>>

\* Any other exception leaves the loop and ends the process.
RunRaises ==
    /\ pc = "working"
    /\ FinishWork
    /\ pc' = "stopping"
    /\ UNCHANGED <<requested, gauge, redisUp, outages>>

\* wait_for_work_or_shutdown: the poll interval is over, or the request is in.
Wake ==
    /\ pc = "waiting"
    /\ pc' = "loop"
    /\ UNCHANGED <<healthVars, requested, gauge, redisUp, outages>>

\* wait_for_drain returns, with the drain or after its timeout.
DrainEnds ==
    /\ pc = "draining"
    /\ pc' = "stopping"
    /\ UNCHANGED <<healthVars, requested, gauge, redisUp, outages>>

\* Mutant: the gauge is left to the next process.
StopGaugeLeft ==
    /\ pc = "stopping"
    /\ pc' = "stopped"
    /\ UNCHANGED <<healthVars, requested, gauge, redisUp, outages>>

Stop ==
    /\ pc = "stopping"
    /\ gauge' = 0
    /\ pc' = "stopped"
    /\ UNCHANGED <<healthVars, requested, redisUp, outages>>

(***************************************************************************)
(* ShutdownCoordinator.request, on the first signal; later ones change     *)
(* nothing.                                                                *)
(***************************************************************************)
Request ==
    /\ pc \in Awaiting
    /\ ~requested
    /\ BeginShutdown
    /\ requested' = TRUE
    /\ UNCHANGED <<pc, gauge, redisUp, outages>>

Outage ==
    /\ redisUp
    /\ outages < MaxOutages
    /\ redisUp' = FALSE
    /\ outages' = outages + 1
    /\ UNCHANGED <<healthVars, pc, requested, gauge>>

Recovery ==
    /\ ~redisUp
    /\ redisUp' = TRUE
    /\ UNCHANGED <<healthVars, pc, requested, gauge, outages>>

RunOnceEnds == RunEnds \/ RunUnavailable \/ RunRaises

Next ==
    \/ Loop \/ StartupSucceeds \/ StartupFails \/ Gate \/ RunOnceEnds \/ DependencyLost
    \/ Wake \/ DrainEnds \/ Stop
    \/ Request \/ Outage \/ Recovery

Spec == Init /\ [][Next]_vars

\* The program runs on, its awaits end (nothing in the code bounds how late),
\* and a Redis that stays up is found at some try.  Signals and outages are
\* never owed.
Fairness ==
    /\ WF_vars(Loop) /\ WF_vars(StartupSucceeds \/ StartupFails) /\ SF_vars(StartupSucceeds)
    /\ WF_vars(Gate) /\ WF_vars(RunOnceEnds) /\ WF_vars(DependencyLost)
    /\ WF_vars(Wake) /\ WF_vars(DrainEnds) /\ WF_vars(Stop)

FairSpec == Spec /\ Fairness

(***************************************************************************)
(* Properties.                                                             *)
(***************************************************************************)
\* A shutdown that begins at any await takes on no new work, not even when it
\* comes while the worker is reconnecting (begin_work asks again).
NoWorkAfterShutdown ==
    [][shuttingDown => inFlight' <= inFlight]_vars

\* The exported gauge says ready only while the last contact with Redis was
\* good and the process runs; it may stay 1 during a shutdown's drain.
GaugeFollowsRedis ==
    /\ pc \in Awaiting /\ gauge = 1 => started /\ dependencyReady
    /\ pc = "stopped" => gauge = 0

\* A requested shutdown ends the process, whatever it was doing.
ShutdownCompletes == requested ~> pc = "stopped"

\* After an outage the worker goes back to work by itself, unless it stops.
WorkResumes == <>[]redisUp => []<>(pc \in {"working", "stopped"})
=============================================================================
