------------------------ MODULE WorkerRuntimeProofs -------------------------
(***************************************************************************)
(* Proofs about WorkerRuntime, for every number of outages.                *)
(***************************************************************************)
EXTENDS WorkerRuntime, TLAPS

(***************************************************************************)
(* The inductive invariant.  The gauge is set on the way from a contact    *)
(* with Redis to run_once, so what it says has to be known at that label   *)
(* and at the labels without an await as well.                             *)
(***************************************************************************)
GaugeInv ==
    /\ gauge = 1 => started /\ dependencyReady
    /\ pc = "gate" => started /\ dependencyReady
    /\ pc = "stopped" => gauge = 0

\* Work is counted while run_once is awaited and never otherwise.
CountInv ==
    /\ inFlight = IF pc = "working" THEN 1 ELSE 0
    /\ drained <=> inFlight = 0

IInv == TypeOK /\ GaugeInv /\ CountInv

USE DEF HealthTypeOK, healthVars, flagVars, workVars, Ready, Awaiting, Passing

\* A process that starts has counted nothing and exported nothing.
LEMMA InitInv == Init => IInv
<1> SUFFICES ASSUME Init PROVE IInv
  OBVIOUS
<1>1. TypeOK
  <2>1. HealthTypeOK
    BY Zenon DEF Init, HealthInit
  <2>2. requested \in BOOLEAN
    BY Zenon DEF Init
  <2> QED BY <2>1, <2>2, MaxOutagesAssumption DEF Init, TypeOK
<1>2. GaugeInv
  BY DEF Init, GaugeInv
<1>3. CountInv
  BY DEF Init, HealthInit, CountInv
<1> QED BY <1>1, <1>2, <1>3 DEF IInv

\* Every step keeps the types.
LEMMA TypeStep == IInv /\ [Next]_vars => TypeOK'
<1> SUFFICES ASSUME IInv, [Next]_vars PROVE TypeOK'
  OBVIOUS
<1> USE DEF IInv, TypeOK
<1>1. CASE Loop
  BY <1>1 DEF Loop
<1>2. CASE StartupSucceeds \/ StartupFails
  BY <1>2, Zenon DEF StartupSucceeds, StartupFails, MarkStarted
<1>3. CASE Gate
  <2>1. drained' \in BOOLEAN
    BY <1>3, Zenon DEF Gate, BeginWork
  <2>2. inFlight' \in Nat /\ UNCHANGED flagVars
    BY <1>3 DEF Gate, BeginWork
  <2> QED BY <1>3, <2>1, <2>2 DEF Gate
<1>4. CASE RunOnceEnds
  <2>1. drained' \in BOOLEAN
    BY <1>4, Zenon DEF RunOnceEnds, RunEnds, RunUnavailable, RunRaises, FinishWork
  <2>2. FinishWork /\ pc' \in Awaiting \cup Passing /\ UNCHANGED <<requested, gauge, redisUp, outages>>
    BY <1>4 DEF RunOnceEnds, RunEnds, RunUnavailable, RunRaises
  <2>3. inFlight' \in Nat /\ UNCHANGED flagVars
    BY <2>2 DEF FinishWork
  <2> QED BY <2>1, <2>2, <2>3
<1>5. CASE DependencyLost
  BY <1>5, Zenon DEF DependencyLost, SetDependencyReady
<1>6. CASE Wake \/ DrainEnds \/ Stop
  BY <1>6 DEF Wake, DrainEnds, Stop
<1>7. CASE Request
  BY <1>7, Zenon DEF Request, BeginShutdown
<1>8. CASE Outage \/ Recovery
  <2>1. redisUp' \in BOOLEAN
    BY <1>8, Zenon DEF Outage, Recovery
  <2> QED BY <1>8, <2>1, MaxOutagesAssumption DEF Outage, Recovery
<1>9. CASE UNCHANGED vars
  BY <1>9 DEF vars
<1> QED BY <1>1, <1>2, <1>3, <1>4, <1>5, <1>6, <1>7, <1>8, <1>9 DEF Next

\* Every step keeps the gauge in line with the last contact with Redis.
LEMMA GaugeStep == IInv /\ [Next]_vars => GaugeInv'
<1> SUFFICES ASSUME IInv, [Next]_vars PROVE GaugeInv'
  OBVIOUS
<1> USE DEF IInv, TypeOK, GaugeInv
<1>1. CASE Loop
  BY <1>1 DEF Loop
<1>2. CASE StartupSucceeds \/ StartupFails
  BY <1>2 DEF StartupSucceeds, StartupFails, MarkStarted
<1>3. CASE Gate
  BY <1>3 DEF Gate, BeginWork
<1>4. CASE RunOnceEnds
  BY <1>4 DEF RunOnceEnds, RunEnds, RunUnavailable, RunRaises, FinishWork
<1>5. CASE DependencyLost
  BY <1>5 DEF DependencyLost, SetDependencyReady
<1>6. CASE Wake \/ DrainEnds \/ Stop
  BY <1>6 DEF Wake, DrainEnds, Stop
<1>7. CASE Request
  BY <1>7 DEF Request, BeginShutdown
<1>8. CASE Outage \/ Recovery
  BY <1>8 DEF Outage, Recovery
<1>9. CASE UNCHANGED vars
  BY <1>9 DEF vars
<1> QED BY <1>1, <1>2, <1>3, <1>4, <1>5, <1>6, <1>7, <1>8, <1>9 DEF Next

\* Every step keeps the count of work.
LEMMA CountStep == IInv /\ [Next]_vars => CountInv'
<1> SUFFICES ASSUME IInv, [Next]_vars PROVE CountInv'
  OBVIOUS
<1> USE DEF IInv, TypeOK, CountInv
<1>1. CASE Loop
  BY <1>1 DEF Loop
<1>2. CASE StartupSucceeds \/ StartupFails
  BY <1>2 DEF StartupSucceeds, StartupFails, MarkStarted
<1>3. CASE Gate
  <2>1. CASE BeginWork /\ pc' = "working"
    BY <1>3, <2>1 DEF Gate, BeginWork
  <2>2. CASE UNCHANGED healthVars /\ pc' = "waiting"
    BY <1>3, <2>2 DEF Gate
  <2> QED BY <1>3, <2>1, <2>2 DEF Gate
<1>4. CASE RunOnceEnds
  <2>1. FinishWork /\ pc = "working" /\ pc' # "working"
    BY <1>4 DEF RunOnceEnds, RunEnds, RunUnavailable, RunRaises
  <2> QED BY <2>1 DEF FinishWork
<1>5. CASE DependencyLost
  BY <1>5 DEF DependencyLost, SetDependencyReady
<1>6. CASE Wake \/ DrainEnds \/ Stop
  BY <1>6 DEF Wake, DrainEnds, Stop
<1>7. CASE Request
  BY <1>7 DEF Request, BeginShutdown
<1>8. CASE Outage \/ Recovery
  BY <1>8 DEF Outage, Recovery
<1>9. CASE UNCHANGED vars
  BY <1>9 DEF vars
<1> QED BY <1>1, <1>2, <1>3, <1>4, <1>5, <1>6, <1>7, <1>8, <1>9 DEF Next

\* The inductive invariant holds throughout.
THEOREM Invariance == Spec => []IInv
<1>1. IInv /\ [Next]_vars => IInv'
  BY TypeStep, GaugeStep, CountStep DEF IInv
<1> QED BY InitInv, <1>1, PTL DEF Spec

\* The exported readiness gauge never claims more than the last contact with
\* Redis showed, and is 0 once the process has stopped (worker/main.py).
THEOREM GaugeIsHonest == Spec => []GaugeFollowsRedis
<1>1. IInv => GaugeFollowsRedis
  BY DEF IInv, GaugeInv, GaugeFollowsRedis
<1> QED BY Invariance, <1>1, PTL

\* Once shutdown has begun no work is taken on, whichever await it began at:
\* only begin_work adds to the count, and it asks for readiness again.
THEOREM ShutdownTakesNoWork == Spec => NoWorkAfterShutdown
<1>1. IInv /\ [Next]_vars => [shuttingDown => inFlight' <= inFlight]_vars
  <2> SUFFICES ASSUME IInv, Next, shuttingDown PROVE inFlight' <= inFlight
    OBVIOUS
  <2>0. inFlight \in Nat
    BY DEF IInv, TypeOK
  <2>1. CASE Gate
    BY <2>1, <2>0 DEF Gate, BeginWork
  <2>2. CASE RunOnceEnds
    <3>1. FinishWork
      BY <2>2 DEF RunOnceEnds, RunEnds, RunUnavailable, RunRaises
    <3> QED BY <2>0, <3>1 DEF FinishWork
  <2>3. CASE StartupSucceeds \/ StartupFails \/ DependencyLost \/ Request
    <3>1. UNCHANGED inFlight
      BY <2>3 DEF StartupSucceeds, StartupFails, MarkStarted, DependencyLost, SetDependencyReady,
                  Request, BeginShutdown
    <3> QED BY <2>0, <3>1
  <2>4. CASE Loop \/ Wake \/ DrainEnds \/ Stop \/ Outage \/ Recovery
    <3>1. UNCHANGED inFlight
      BY <2>4 DEF Loop, Wake, DrainEnds, Stop, Outage, Recovery
    <3> QED BY <2>0, <3>1
  <2> QED BY <2>1, <2>2, <2>3, <2>4 DEF Next
<1> QED BY Invariance, <1>1, PTL DEF Spec, NoWorkAfterShutdown

\* When the loop reaches wait_for_drain the drain event is already set: its
\* timeout bounds nothing, what bounds a shutdown is run_once itself.
THEOREM DrainNeverWaits == Spec => [](pc = "draining" => drained)
<1>1. IInv => (pc = "draining" => drained)
  BY DEF IInv, TypeOK, CountInv
<1> QED BY Invariance, <1>1, PTL
=============================================================================
