--------------------------- MODULE ServiceHealth ----------------------------
(***************************************************************************)
(* ServiceHealth of runtime.py: the startup, readiness and shutdown state  *)
(* of one process and the count of its work in flight.  Its methods do not *)
(* await, so each is part of one step of whoever calls it.                 *)
(***************************************************************************)
EXTENDS Integers

VARIABLES
    started,
    dependencyReady,
    shuttingDown,
    inFlight,
    drained          \* the asyncio.Event: set means nothing is in flight

healthVars == <<started, dependencyReady, shuttingDown, inFlight, drained>>
flagVars == <<started, dependencyReady, shuttingDown>>
workVars == <<inFlight, drained>>

HealthTypeOK ==
    /\ started \in BOOLEAN
    /\ dependencyReady \in BOOLEAN
    /\ shuttingDown \in BOOLEAN
    /\ inFlight \in Nat
    /\ drained \in BOOLEAN

HealthInit ==
    /\ started = FALSE
    /\ dependencyReady = FALSE
    /\ shuttingDown = FALSE
    /\ inFlight = 0
    /\ drained = TRUE

Ready == started /\ dependencyReady /\ ~shuttingDown

MarkStarted(ready) ==
    /\ started' = TRUE
    /\ dependencyReady' = ready
    /\ UNCHANGED <<shuttingDown, workVars>>

SetDependencyReady(ready) ==
    /\ dependencyReady' = ready
    /\ UNCHANGED <<started, shuttingDown, workVars>>

\* Mutant: only the dependency is asked about.
BeginWorkUnguarded ==
    /\ started /\ dependencyReady
    /\ inFlight' = inFlight + 1
    /\ drained' = FALSE
    /\ UNCHANGED flagVars

\* begin_work when it returns True; it returns False and does nothing unless Ready.
BeginWork ==
    /\ Ready
    /\ inFlight' = inFlight + 1
    /\ drained' = FALSE
    /\ UNCHANGED flagVars

\* Mutant: the first work to finish announces the drain.
FinishWorkEarly ==
    /\ inFlight > 0
    /\ inFlight' = inFlight - 1
    /\ drained' = TRUE
    /\ UNCHANGED flagVars

FinishWork ==
    /\ inFlight > 0
    /\ inFlight' = inFlight - 1
    /\ drained' = IF inFlight = 1 THEN TRUE ELSE drained
    /\ UNCHANGED flagVars

BeginShutdown ==
    /\ shuttingDown' = TRUE
    /\ UNCHANGED <<started, dependencyReady, workVars>>
=============================================================================
