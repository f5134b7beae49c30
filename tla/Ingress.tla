------------------------------ MODULE Ingress -------------------------------
(***************************************************************************)
(* The API process: POST /v1/events with its idempotency contract, the     *)
(* readiness endpoint, and startup and shutdown of the application.  A     *)
(* request awaits the event store and a readiness probe awaits the ping,   *)
(* so requests, probes and the shutdown interleave, and Redis may go away  *)
(* and come back at any await.                                             *)
(*                                                                         *)
(* The HTTP server (external) hands over requests between startup and the  *)
(* end of the application, and decides when shutdown begins.               *)
(***************************************************************************)
EXTENDS EventStore, ServiceHealth

CONSTANTS
    Requests,    \* client requests; a client repeats one that got a 503
    Keys,        \* Idempotency-Key values
    NoKey,
    Unsound,
    KeyOf,       \* the key a request carries, or NoKey
    ContentOf,   \* the fingerprint of its content, or Unsound if it fails validation
    Probes,      \* readiness requests that can be under way at once
    MaxOutages   \* bound: how often Redis goes away

ASSUME KeyAssumption == NoKey \notin Keys /\ KeyOf \in [Requests -> Keys \cup {NoKey}]
ASSUME MaxOutagesAssumption == MaxOutages \in Nat

VARIABLES
    phase,       \* of the application: starting, serving, draining, closed
    redisUp,
    outages,
    idem,        \* idempotency mapping: key to [event, content], or Unmapped
    pc,          \* of a request: new, admitted, storing, answered
    owner,       \* the request an event id (uuid4) was drawn for
    uuid,        \* the event id drawn by a request
    answer,      \* what its client has been told
    probe        \* of a readiness request: idle, asked, up, down

requestVars == <<pc, owner, uuid, answer>>
vars == <<storeVars, healthVars, phase, redisUp, outages, idem, requestVars, probe>>

Unmapped == [event |-> NoEvent, content |-> "none"]
Nobody == "nobody"
ASSUME NobodyAssumption == Nobody \notin Requests

Contents == {ContentOf[r] : r \in Requests}

Accepted202(e) == [code |-> 202, event |-> e]
Failed(code) == [code |-> code, event |-> NoEvent]
Unanswered == Failed(0)

TypeOK ==
    /\ StoreTypeOK
    /\ HealthTypeOK
    /\ phase \in {"starting", "serving", "draining", "closed"}
    /\ redisUp \in BOOLEAN
    /\ outages \in 0 .. MaxOutages
    /\ idem \in [Keys -> [event : Events, content : Contents] \cup {Unmapped}]
    /\ pc \in [Requests -> {"new", "admitted", "storing", "answered"}]
    /\ owner \in [Events -> Requests \cup {Nobody}]
    /\ uuid \in [Requests -> Events \cup {NoEvent}]
    /\ answer \in [Requests -> [code : {0, 202, 409, 422, 503}, event : Events \cup {NoEvent}]]
    /\ probe \in [Probes -> {"idle", "asked", "up", "down"}]

Init ==
    /\ StoreInit
    /\ HealthInit
    /\ phase = "starting"
    /\ redisUp \in BOOLEAN
    /\ outages = 0
    /\ idem = [k \in Keys |-> Unmapped]
    /\ pc = [r \in Requests |-> "new"]
    /\ owner = [e \in Events |-> Nobody]
    /\ uuid = [r \in Requests |-> NoEvent]
    /\ answer = [r \in Requests |-> Unanswered]
    /\ probe = [p \in Probes |-> "idle"]

(***************************************************************************)
(* The application's lifespan.                                             *)
(***************************************************************************)
Startup ==
    /\ phase = "starting"
    /\ phase' = "serving"
    /\ MarkStarted(redisUp)
    /\ UNCHANGED <<storeVars, redisUp, outages, idem, requestVars, probe>>

Shutdown ==
    /\ phase = "serving"
    /\ phase' = "draining"
    /\ BeginShutdown
    /\ UNCHANGED <<storeVars, redisUp, outages, idem, requestVars, probe>>

\* wait_for_drain returns because of the drain or because its grace period is
\* over; either way the store's client is closed.
Close ==
    /\ phase = "draining"
    /\ phase' = "closed"
    /\ UNCHANGED <<storeVars, healthVars, redisUp, outages, idem, requestVars, probe>>

(***************************************************************************)
(* POST /v1/events.                                                        *)
(***************************************************************************)
Listening == phase \in {"serving", "draining"}

Answer(r, a) ==
    /\ answer' = [answer EXCEPT ![r] = a]
    /\ pc' = [pc EXCEPT ![r] = "answered"]

\* The middleware turns the request away: 503.
Reject(r) ==
    /\ Listening
    /\ pc[r] = "new"
    /\ ~Ready
    /\ Answer(r, Failed(503))
    /\ UNCHANGED <<storeVars, healthVars, phase, redisUp, outages, idem, owner, uuid, probe>>

\* The middleware admits the request, and then the framework reads its body.
Admit(r) ==
    /\ Listening
    /\ pc[r] = "new"
    /\ BeginWork
    /\ pc' = [pc EXCEPT ![r] = "admitted"]
    /\ UNCHANGED <<storeVars, phase, redisUp, outages, idem, owner, uuid, answer, probe>>

\* A body or a key that fails validation never reaches the handler: 422.
Invalid(r) ==
    /\ pc[r] = "admitted"
    /\ ContentOf[r] = Unsound
    /\ Answer(r, Failed(422))
    /\ FinishWork
    /\ UNCHANGED <<storeVars, phase, redisUp, outages, idem, owner, uuid, probe>>

\* The handler draws a fresh event id and calls the store.
Handle(r) ==
    /\ pc[r] = "admitted"
    /\ ContentOf[r] # Unsound
    /\ pc' = [pc EXCEPT ![r] = "storing"]
    /\ \E e \in Events :
        /\ owner[e] = Nobody
        /\ owner' = [owner EXCEPT ![e] = r]
        /\ uuid' = [uuid EXCEPT ![r] = e]
    /\ UNCHANGED <<storeVars, healthVars, phase, redisUp, outages, idem, answer, probe>>

Creates(r) == KeyOf[r] = NoKey \/ idem[KeyOf[r]] = Unmapped

\* Mutant: the mapping is left to a later call.
IdempotentEnqueueUnmapped(r) ==
    IF Creates(r)
    THEN Enqueue(uuid[r], "parsable") /\ UNCHANGED idem
    ELSE UNCHANGED <<storeVars, idem>>

\* The enqueue script or the idempotent one, by whether there is a key.
IdempotentEnqueue(r) ==
    IF Creates(r)
    THEN /\ CanEnqueue(uuid[r])
         /\ Enqueue(uuid[r], "parsable")
         /\ idem' = IF KeyOf[r] = NoKey THEN idem
                    ELSE [idem EXCEPT ![KeyOf[r]] = [event |-> uuid[r], content |-> ContentOf[r]]]
    ELSE UNCHANGED <<storeVars, idem>>

\* Mutant: whoever holds the key gets the stored event.
DecisionAlwaysReuse(r) ==
    IF Creates(r) THEN Accepted202(uuid[r]) ELSE Accepted202(idem[KeyOf[r]].event)

\* created, reused or conflict.
Decision(r) ==
    IF Creates(r) THEN Accepted202(uuid[r])
    ELSE IF idem[KeyOf[r]].content = ContentOf[r] THEN Accepted202(idem[KeyOf[r]].event)
    ELSE Failed(409)

\* The script ran and its answer arrived.
Stored(r) ==
    /\ pc[r] = "storing"
    /\ redisUp
    /\ IdempotentEnqueue(r)
    /\ Answer(r, Decision(r))
    /\ FinishWork
    /\ UNCHANGED <<phase, redisUp, outages, owner, uuid, probe>>

\* The script ran; the connection broke, the store was closed, or the handler
\* raised or was cancelled before its answer arrived.
StoredUnheard(r) ==
    /\ pc[r] = "storing"
    /\ redisUp
    /\ IdempotentEnqueue(r)
    /\ Answer(r, Failed(503))
    /\ FinishWork
    /\ UNCHANGED <<phase, redisUp, outages, owner, uuid, probe>>

\* Mutant: an event the store did not take is reported as accepted.
NotStoredAccepted(r) ==
    /\ pc[r] = "storing"
    /\ ~redisUp \/ phase = "closed"
    /\ Answer(r, Accepted202(uuid[r]))
    /\ FinishWork
    /\ UNCHANGED <<storeVars, phase, redisUp, outages, idem, owner, uuid, probe>>

\* EventStoreUnavailable without an effect.
NotStored(r) ==
    /\ pc[r] = "storing"
    /\ ~redisUp \/ phase = "closed"
    /\ Answer(r, Failed(503))
    /\ FinishWork
    /\ UNCHANGED <<storeVars, phase, redisUp, outages, idem, owner, uuid, probe>>

\* Any other exception under the middleware, or a cancellation because the
\* client hung up; finally counts the request out.  Its 500, or no answer at
\* all, promises as little as a 503 and is not told apart from it.
Abort(r) ==
    /\ pc[r] \in {"admitted", "storing"}
    /\ Answer(r, Failed(503))
    /\ FinishWork
    /\ UNCHANGED <<storeVars, phase, redisUp, outages, idem, owner, uuid, probe>>

\* The client sends the same request again after a 503.
Resend(r) ==
    /\ pc[r] = "answered"
    /\ answer[r].code = 503
    /\ pc' = [pc EXCEPT ![r] = "new"]
    /\ UNCHANGED <<storeVars, healthVars, phase, redisUp, outages, idem, owner, uuid, answer, probe>>

(***************************************************************************)
(* GET /health/ready.  The ping's result is applied after an await, so two *)
(* readiness requests may apply theirs in the other order.                 *)
(***************************************************************************)
Ask(p) ==
    /\ Listening
    /\ probe[p] = "idle"
    /\ started /\ ~shuttingDown
    /\ probe' = [probe EXCEPT ![p] = "asked"]
    /\ UNCHANGED <<storeVars, healthVars, phase, redisUp, outages, idem, requestVars>>

Ping(p) ==
    /\ probe[p] = "asked"
    /\ probe' = [probe EXCEPT ![p] = IF redisUp THEN "up" ELSE "down"]
    /\ UNCHANGED <<storeVars, healthVars, phase, redisUp, outages, idem, requestVars>>

\* Mutant: readiness, once lost, is not looked at again.
ApplySticky(p) ==
    /\ probe[p] \in {"up", "down"}
    /\ SetDependencyReady(dependencyReady /\ probe[p] = "up")
    /\ probe' = [probe EXCEPT ![p] = "idle"]
    /\ UNCHANGED <<storeVars, phase, redisUp, outages, idem, requestVars>>

Apply(p) ==
    /\ probe[p] \in {"up", "down"}
    /\ SetDependencyReady(probe[p] = "up")
    /\ probe' = [probe EXCEPT ![p] = "idle"]
    /\ UNCHANGED <<storeVars, phase, redisUp, outages, idem, requestVars>>

(***************************************************************************)
(* Redis goes away and comes back with its data.                           *)
(***************************************************************************)
Outage ==
    /\ redisUp
    /\ outages < MaxOutages
    /\ redisUp' = FALSE
    /\ outages' = outages + 1
    /\ UNCHANGED <<storeVars, healthVars, phase, idem, requestVars, probe>>

Recovery ==
    /\ ~redisUp
    /\ redisUp' = TRUE
    /\ UNCHANGED <<storeVars, healthVars, phase, outages, idem, requestVars, probe>>

Serve(r) == Invalid(r) \/ Handle(r) \/ Stored(r) \/ StoredUnheard(r) \/ NotStored(r)

Next ==
    \/ Startup \/ Shutdown \/ Close
    \/ \E r \in Requests : Reject(r) \/ Admit(r) \/ Serve(r) \/ Abort(r) \/ Resend(r)
    \/ \E p \in Probes : Ask(p) \/ Ping(p) \/ Apply(p)
    \/ Outage \/ Recovery

Spec == Init /\ [][Next]_vars

\* The process runs, its handlers go on when their awaits are over, the
\* drain is bounded by its grace period, and readiness is polled for ever
\* (Kubernetes does).  Requests, shutdown and outages are never owed.
Fairness ==
    /\ WF_vars(Startup) /\ WF_vars(Close)
    /\ \A r \in Requests : WF_vars(Serve(r))
    /\ \A p \in Probes : WF_vars(Ask(p)) /\ WF_vars(Ping(p)) /\ WF_vars(Apply(p))

FairSpec == Spec /\ Fairness

(***************************************************************************)
(* Properties.                                                             *)
(***************************************************************************)
IsAccepted(e) == status[e] # "none"

\* A 202 names an event that is stored and queued for delivery, with its key
\* mapped to it; 503 promises nothing (accept_event answers after the store).
AcceptedIsStored ==
    \A r \in Requests : answer[r].code = 202 =>
        LET e == answer[r].event IN
        /\ IsAccepted(e)
        /\ \E i \in DOMAIN stream : stream[i].event = e
        /\ KeyOf[r] # NoKey => idem[KeyOf[r]] = [event |-> e, content |-> ContentOf[r]]

\* However often requests with one key are sent, at once or again after an
\* unheard answer, they create one event (the idempotent enqueue script).
OneEventPerKey ==
    \A e, f \in Events :
        /\ IsAccepted(e) /\ IsAccepted(f)
        /\ KeyOf[owner[e]] = KeyOf[owner[f]]
        /\ KeyOf[owner[e]] # NoKey
        => e = f

\* Two accepted requests with one key had the same content and were told the
\* same event; a 409 means that another content holds the key.
KeyBindsContent ==
    \A r, s \in Requests : KeyOf[r] = KeyOf[s] /\ KeyOf[r] # NoKey =>
        /\ answer[r].code = 202 /\ answer[s].code = 202 =>
             ContentOf[r] = ContentOf[s] /\ answer[r].event = answer[s].event
        /\ answer[r].code = 409 => idem[KeyOf[r]].content # ContentOf[r]

\* The drain event tells the truth: it is set exactly when no admitted
\* request is unanswered, whichever way requests end (validation error,
\* conflict, store failure, unexpected exception, cancellation), so a close
\* after the drain cuts nobody off.
DrainIsExact ==
    /\ inFlight = Cardinality({r \in Requests : pc[r] \in {"admitted", "storing"}})
    /\ drained <=> inFlight = 0

\* Once Redis stays up, the API becomes and stays ready unless it shuts down,
\* although stale pings may be applied late (readiness endpoint).
ReadinessConverges == <>[]redisUp => <>[](Ready \/ shuttingDown)
=============================================================================
