# Hooklane in TLA+

Hooklane accepts events over HTTP, stores them, and delivers each of them to a
downstream sink at least once.  It exists twice: on Redis Streams (`src/hooklane`)
and, as a spike, on Cloudflare D1 and Queues (`cloudflare/`).  Around it stand the
scripts that exercise it: drills and rollouts in a kind cluster, local harnesses,
and the runner that lets an agent work through the feature list.  This directory
models both delivery paths, the processes around them, what both promise, and those
scripts; TLC checks the models on small instances and TLAPS proves most of their
safety properties, and that both delivery paths implement what is promised, for every
instance.

## 1. The system and its parts

| Part | State it keeps | Operations | Module |
|---|---|---|---|
| Redis event store, `queue/events.py` | event stream with consumer group, status hash, retry schedule, dead-letter and quarantine streams, idempotency mapping | eight Lua scripts and the stream commands | `EventStore` (mapping: `Ingress`) |
| Delivery worker, `worker/service.py` | the entry it works on | `run_once`: ensure group, release a retry, claim, read, start, deliver, record the outcome | `DeliveryWorker` |
| Policies, `delivery/` | none | retryable?, dead letter? | `DeliveryPolicy` |
| Worker process, `worker/main.py`, `worker/runtime.py` | readiness, shutdown request, gauge | loop, reconnect, drain, stop | `WorkerRuntime` |
| Service health, `runtime.py` | started, dependency ready, shutting down, in flight, drained | six methods | `ServiceHealth` |
| API, `api/app.py` | requests and readiness probes under way | accept, reject, readiness, startup, shutdown | `Ingress` |
| Cloudflare backend, `cloudflare/src` | D1 rows with delivery lease, outbox rows with claim lease, queue messages | accept, repair, consume | `CloudflareDelivery` |
| Loop runner, `scripts/goal_loop_runner.py` | feature document, agent process, received signal, records of the run | select, spawn, wait, terminate, collect, decide, write, confirm | `GoalLoop` |
| Cluster and drills, `kind_runtime.py`, `kind_e2e.py`, `incident_*.py`, `observability_runtime.py` | cluster, Helm values, live replicas and sink mode, ownership, pending exception | up, deploy, inject, check, undo, restore, down | `KindCluster`, `Drills` |
| Rollouts, `rollout_smoke.py`, `kubernetes_resiliency.py`, the gate in `kind_e2e.py` | what was read of the Deployment, samples, release history | patch, sample, gate, bad release, rollback, emergency rollback | `Rollout` |
| Local harnesses, `run_integration_tests.py`, `worker_ecs_health_reproduction.py`, `demo_smoke.py`, `cloudflare_local_flow.py`, `clean_room.py` | resources started, noted, found | start, stop, note, remove | `Harness` |
| What a client may rely on | status and attempt count | life of an event | `EventLifecycle` |

How they interact.  The API and the workers share nothing but Redis.  The API's
scripts append to the stream and create the hash; a worker obtains an entry by
reading it for the group or by claiming one that has been pending for
`pending_idle_ms`, and ends it with one of four scripts.  A script is atomic, but
`run_once` awaits between scripts and around the POST to the sink, so the steps of
workers interleave, and any step may be the last of its process.  The Cloudflare
consumer works the same way on D1 statements; the Queue carries only event ids,
and the outbox row is what survives a send that did not happen.

What is hard: an entry claimed from a worker that is not dead but slow; a script
that ran and whose answer was lost (the worker only sees `EventStoreUnavailable`,
and the Redis client may send a script twice); a crash between the side effect and
its record; records that do not fit together; answers lost on the way to a client
that repeats its request; shutdown at any await; leases that run out under their
owner; a provider retry budget shared by different kinds of hand-back.  In the
scripts: a command that took effect and then failed, anywhere, the clean-up
included; a release whose values remember an earlier drill; controllers that lag
behind each other while a gate reads one object at a time; a signal between two
statements of the runner; an agent that does not end.
`PROJECT.json` lists these hazards at their lines with the properties for them.

Not modelled: metrics, logs and the signal document built from them (no delivery
decision reads them); the receipts of the mock sink (the models let the sink process
an event and still fail, which covers them; its modes are in `KindCluster`); URL parsing; the request models' field rules (a
request is sound or fails validation); `get_status` and `refresh_queue_metrics`,
which only read; the length of a backoff and the clock (a retry comes due, an entry
becomes idle, a lease runs out); Redis key types other than the expected ones,
which refuse like an unreachable store; Redis losing data it had acknowledged
(Hooklane claims nothing about that); the Cloudflare payload chunks, written in the
same D1 batch as the row; the local regression endpoints; the charts beyond replica
counts and update strategy, Terraform, compose files.  Of the scripts: the repository
gates (`ci_contract.py`, `docs_check.py` and the like), which compare files with
expectations and keep no state; `local_e2e.py`, a list of requests that starts and
restores nothing; `loop.sh` and `goal_loop_fallback.sh`, which pass arguments on;
what the drills compare in texts, logs and metrics (a check passes when the state of
the cluster allows what it looks for); prompts, summaries and Git snapshots of the
loop runner, and descendants of the agent that leave its process group.

## 2. The modules

**EventStore** has one operator per script, named after it.  A script that would
answer with an error changes nothing (every script validates before it writes), so
its condition is a separate `Can...` operator and the caller decides what an error
means.  Stream ids are positions in the stream, `pel` is the group's pending
entries list, `idle` the part of it that passed the idle threshold, `due` the part
of the retry schedule whose time has come.  Payloads, types and timestamps are
abstracted; whether an entry parses is its `form`.

**DeliveryWorker** composes the store with any number of workers.  `pc[w]` is the
next awaited call, `held[w]` the entry, `tries[w]` the attempt count
`mark_delivery_started` returned.  `Deliver` may fail with any of the seven error
classes, and a failed delivery may or may not have reached the sink.  `Abandon`
drops an iteration before its next call: unreachable Redis, lost answer (preceded
by the script's own step), unexpected exception, crash and restart.  `Retransmit`
is a script that the client library sends twice; only starting and scheduling
change anything the second time.  `Overlap` says whether an entry may become idle
while a worker is still at it.  `Stray` writes records no Hooklane version wrote.

**Ingress** composes the store with `ServiceHealth`: requests with and without an
idempotency key, of equal, different and unsound content; store answers that arrive
or do not; handlers that raise or are cancelled; clients that repeat a request after a
failure; overlapping readiness probes,
whose ping and whose effect are separate steps; startup, shutdown, close.

**WorkerRuntime** is one worker process; an iteration is a call that ends in one of
four ways.  Signals arrive only at awaits, which is when asyncio runs their handler.

**CloudflareDelivery** has the request, repair runs and consumers, each with a step
per awaited call.  A token is the run that drew it.  The claim, the snapshot after
a claim that failed, the exhausting update and the re-read of
`mark_delivery_started` are four steps.  `HandBack` is `message.retry`: beyond
`MaxRetries` the message moves to the provider's DLQ.  Any of the `Inherited` events
may start as a row that waits with all attempts used, as after a release that lowered
the maximum (`LeftOver` is the set of those that do).

**GoalLoop** is one run of the loop runner: a step of `pc` per statement between which
a signal can matter, `finalize_iteration` in three (decide, write, confirm).  The
agent is an environment: it writes the document and ends when it likes, may set back
what was done, may make the document unreadable, and may outlive SIGKILL.
`ACTIVE_AGENT` and `RECEIVED_SIGNAL` are variables of their own, since the handler
reads them wherever the runner stands.  Features never vanish from the document.

**KindCluster** maps a cluster to the cluster after a command, **Drills** runs the
scripts over it.  A body is a sequence of steps; a check is enabled by the state of
the cluster and raises otherwise; a command may fail before or after its effect, with
an exception the script catches or another.  The frame (ownership, `except`, the
nested restorations in `finally`, exit code) is modelled for every script as it is.
While the sink fails, the worker may use up the attempts of the watched event
(`GiveUp`).  The drills install their release with 20 attempts, which outlast their
waits; the observability smoke runs with the chart's 5, waits for metrics and alerts
before it heals the sink, and accepts `dead_letter` as well as `delivered`.

**Rollout** has the Deployment controller, the ReplicaSets, pods, the EndpointSlice
controller and Helm as external processes, and three scripts that read one object at
a time.  `StaleEndpoints` are the pods a request may be sent to though they do not
answer; a request of a sampling loop is answered or lost to one of them.  The loop goes
on until the update looks complete and enough requests were sent, so requests sent
after the update count too, and the bad release may start while endpoints of the
normal rollout are still listed.  One timing assumption is left: `HelmUpgradeTimesOut`
waits for the controllers, for which the 20 s of `--timeout` are long.  Terminating
`helm` is assumed to end the upgrade it runs, and a rollback that helm reports as done
to have taken effect.  The worker drill is the sink mode it sets and resets, the Redis
drill its place at the end of `main`; their checks are not translated.

**Harness** follows what a script starts, notes and removes.  `missed` holds the
resources that a script started and its `finally` cannot see: a container created by a
`docker run` that reports failure, the sink when the second `Popen` of
`cloudflare_local_flow.py` fails ahead of its `try`, and a process group whose leader
ended by itself (`LeaderEnds`), which `stop_process` takes for gone.

**EventLifecycle** is the abstract specification: which changes of status and
attempt count a client may see.  It has no step from a terminal status.  Both
backends are checked to implement it (`ImplementsLifecycle`, by refinement mapping
on the status and attempt columns).  On Cloudflare the mapping leaves out the
`LeftOver` rows, which an earlier release put where this one puts none.

The modules `DeliveryWorkerProofs`, `WorkerRuntimeProofs`, `IngressProofs`,
`CloudflareProofs`, `GoalLoopProofs`, `HarnessProofs`, `RolloutProofs` and
`DrillsProofs` hold the proofs (section 4).  `MC...` modules only define symmetry
sets and the requests used for TLC.  A definition marked *Mutant* next to an
operation is a plausible mistake in that operation, with which the property it is
paired with in `PROJECT.json` fails.  Each module states its `TypeOK`; the runs spend
their time on the other properties, except `worker_overlap`.  `TypeOK` is proved for
`DeliveryWorker`, `WorkerRuntime`, `Ingress`, `CloudflareDelivery`, `GoalLoop`,
`Harness`, `Rollout` and `Drills`, as a part of their inductive invariants.

## 3. The runs

| Run | Shows | Result |
|---|---|---|
| worker_overlap | overlapping workers, one fault, one stray record: `NoLoss`, `DeliveredIsReceived`, `NoStrandedRetry`, `DeadLetterOnce` | holds |
| worker_timely | entries become idle only when nobody works on them, two events: `ImplementsLifecycle`, `OpenIsLive`, `DeadLetterIsFiled`, `AttemptsBounded` | holds |
| worker_progress | the same, fair: `EventuallyTerminal` | holds |
| overlap_progress | overlapping workers: `EventuallyTerminal` | violated |
| ingress_requests | concurrent first tries, a repeat, other content under the same key, unsound content, and a shutdown at any point: `AcceptedIsStored`, `OneEventPerKey`, `KeyBindsContent`, `DrainIsExact` | holds |
| ingress_readiness | `ReadinessConverges` | holds |
| worker_runtime | `NoWorkAfterShutdown`, `GaugeFollowsRedis`, `ShutdownCompletes`, `WorkResumes` | holds |
| cloudflare | leases that run out under their owner, a row left over or not, fair: `ImplementsLifecycle`, `OpenIsReferenced`, `AckedIsTerminal`, `AttemptsBounded`, `WaitingHasBudget`, `ExhaustedIsNotDelivered`, `EventuallySettled` | holds |
| goal_loop | signals at any step, an agent that owes nothing: `SignalReachesAgent`, `InterruptIsReported`, `TimedOutIsNotPassing`, `OneWriter`, `RunEnds` | holds |
| drills | six scripts, failing commands anywhere: `PassMeansRestored`, `InjectionIsUndone`, `HealthyRunPasses` | holds |
| rollout | three scripts against lagging controllers: `ConvergedMeansCurrent`, `BadReleaseIsGone`, `HealthyRolloutPasses`, `RolloutEnds` | holds |
| harness | five scripts, failing commands anywhere: `PassMeansClean`, `FailureIsCleaned` | holds |

The violation is a disagreement between the code and its documents:
`_START_DELIVERY_SCRIPT` compares only the stream id.  A worker paused longer than the
idle threshold between obtaining an entry and starting it sets an event another worker
has finished back to `delivering`; the entry is acknowledged, so nothing ends the event
again.  The threshold is configurable down to 0; with the default of 60 s the pause
has to be that long.

### Limits the properties had to respect

What the models showed while the properties were written, and how the properties say it:

* `DeadLetterIsFiled` is a property of the timely regime.  `_SCHEDULE_RETRY_SCRIPT`
  (`events.py:178`) has the same condition as the start: with overlap, a late failure
  turns a delivered event into a scheduled retry, whose release finds the entry
  acknowledged and reports `dead_letter` with no dead-letter entry.
* The last attempt on Cloudflare, reclaimed after its owner died, calls the sink again
  under the same count (`d1.py:271`): `AttemptsBounded` bounds the count, not the calls.
* `EventuallySettled` allows a message in the provider's DLQ.  BUSY hand-backs and
  retries share the Queue's `max_retries` (`cloudflare/src/worker.py:395`); one
  duplicate message can move both to the DLQ while attempts remain, and the row stays
  `retry_scheduled`.
* `TimedOutIsNotPassing` does not say that the feature can be selected again: an agent
  that set `blocked` before its time ran out leaves it so, whatever the receipt says.
* `rollout_smoke.py` sets the sink to delay outside a `try ... finally`: a failure there
  leaves a slow sink, and `BadReleaseIsGone` speaks of the release only.
* `worker_ecs_health_reproduction.py` ignores the return codes of its clean-up, so
  `PassMeansClean` asks of it only that the commands worked.
* `FailureIsCleaned` names what is left rather than saying that nothing is: the
  resources in `missed`, and of `clean_room.py` what its stages leave of other kinds.  If
  a clean-up command raises, the rest of the `finally` block is skipped; the script then
  exits with 1, and neither property says more.
* `PassMeansRestored` lets the observability smoke end with its watched event in
  `dead_letter`, which `wait_for_terminal_status` accepts
  (`observability_runtime.py:241`).
* `HealthyRolloutPasses` does not say that the rollout smoke test passes: in a rollout
  without any failure two requests can be sent to replaced pods that the endpoints still
  list, or one beside the bad release, and `rollout_smoke.py:318` or `418` raises; it also
  raises if helm gives up before 10 requests were sent.  What the property does say is
  that these are the only ways, and that only the pods the rolling update replaces lose
  requests.
* A `kubectl scale` that takes effect and then fails leaves `worker_scaled_down` false;
  the inner `finally` undoes nothing and the restoration in `main` has to
  (`InjectionIsUndone` holds because of it).

So on Redis the overlapping and the timely regime differ in what they guarantee:
nothing is lost in either, the reported status can be relied on only in the second.
On Cloudflare the token and lease keep the reported status sound in both.

### Bounds

Two workers, consumers, repair runs or probes give every pairwise race; the scripts
look at one event at a time, so one event exercises them and two are used where an
event can hinder another (scan limit 1, so that one entry fills the scan; the
schedule; the dead-letter stream).  `MaxAttempts = 2` has a retry and a last attempt.
`MaxFaults = 1` puts a crash, a lost answer or a retransmission at every point;
`MaxStray = 1` a foreign record.  Nothing else bounds the worker models: a fault or
a retry is what makes the stream grow, so the state space is finite by itself.
On Cloudflare the number of `Messages` bounds the sends; `Promised` makes that bound
stop new repair runs only, so a request or a run under way is never blocked by it.
`MaxRetries` is 1 for the code's 4.
The instances with 2 events there exceed what is reasonable to run.  Four event
ids in `ingress_requests` are three first tries of valid requests and one repeat
(the request that fails validation draws none).  `goal_loop`: two features, so that
one can be set back while the other is worked on; three iterations of two attempts,
so that both limits are reached; two signals, of which the first counts; one
unreadable or unwritable artifact.  `drills` and `rollout`: two failing commands, one in
the body and one in the restoration; one pod that loses readiness.  A rolling update is
judged by 2 requests for the script's 20 and the bad release by 1 for its 10: two is the
least number of which more than the tolerated one can be lost, and the proofs hold for
every number.  After the
script has ended the cluster is followed on only for the gate, whose verdict has to last.  `harness`: three,
for the clean-ups of several steps.  The bodies themselves are whole.  Runs that may stop
(a closed API, a stopped process, all messages settled, a script that is over) do not check deadlock; the
worker runs do: a worker can always take a step.

### Fairness

Workers: each worker's loop goes on (Kubernetes and Compose restart a process that
ends), time passes.  Faults, strays and acceptance are never owed.  A delivery may
fail forever only as far as `MaxAttempts` allows, so no fairness on the sink is
needed.  Loop runner: every wait has a time limit, so the runner goes on; agent and
signals owe nothing.  Rollout: Helm, the polling script and Kubernetes
as a whole go on (no controller is owed a step of its own);
crashes and failing commands are never owed.  API: handlers go on when their awaits end, the drain is bounded, and
readiness is polled.  Worker process: awaits end; `StartupSucceeds` has strong
fairness, since a Redis that stays up is reached at some try.  Cloudflare: cron and
Queue keep invoking, leases run out; a request owes nothing, since its client may
go away.

## 4. The proofs

Every theorem has the form `Spec => []P` or `Spec => P` for the specification the runs
use, and rests on the assumptions on constants that the modules declare, nothing else.
Those are: sizes and bounds are natural numbers, and the maxima of attempts and
iterations and the scan and repair limits are positive; a model value that stands for
"none" (`NoEvent`, `NoKey`, `NoToken`, `Nobody`) is not one of the things it stands
beside; `KeyOf` gives each request a key or none; inherited rows are of events; `Overlap`
and `Strict` are Booleans; and `Scripts` are among the scripts modelled.  Sets
of events, workers, messages, consumers, requests and features are arbitrary.

Each proof module defines an inductive invariant `IInv`, proves `Invariance`
(`Spec => []IInv`) with one step per action, and derives the theorems.  TLC checked every
`IInv` on the instance of the run before it was proved, that of the rollouts with all
bounds at 1.

| Module | Theorem | Property |
|---|---|---|
| DeliveryWorkerProofs | `TypeCorrect`, `NoAcceptedEventIsLost`, `DeliveredWasReceived`, `RetriesAreScheduled`, `DeadLetteredOnce` | `TypeOK`, `NoLoss`, `DeliveredIsReceived`, `NoStrandedRetry`, `DeadLetterOnce` |
| DeliveryWorkerProofs (if `Overlap = FALSE`) | `OpenEventsAreLive`, `AttemptsAreBounded`, `DeadLettersAreFiled`, `HashesLiveTheLifecycle` | `OpenIsLive`, `AttemptsBounded`, `DeadLetterIsFiled`, `ImplementsLifecycle` |
| WorkerRuntimeProofs | `GaugeIsHonest`, `ShutdownTakesNoWork`, `DrainNeverWaits` | `GaugeFollowsRedis`, `NoWorkAfterShutdown`; `pc = "draining" => drained` |
| IngressProofs | `AcceptedEventsAreStored`, `KeysAreIdempotent`, `KeysBindTheirContent`, `TheDrainIsExact` | `AcceptedIsStored`, `OneEventPerKey`, `KeyBindsContent`, `DrainIsExact` |
| CloudflareProofs | `OpenEventsAreReferenced`, `AckedEventsAreFinished`, `AttemptsAreBounded`, `WaitingEventsHaveBudget`, `ExhaustedRowsAreNotDelivered`, `RowsLiveTheLifecycle` | `OpenIsReferenced`, `AckedIsTerminal`, `AttemptsBounded`, `WaitingHasBudget`, `ExhaustedIsNotDelivered`, `ImplementsLifecycle` |
| GoalLoopProofs | `SignalsReachTheAgent`, `InterruptsAreReported`, `TimeoutsLeaveFeaturesPending`, `AgentsRunOneAtATime` | `SignalReachesAgent`, `InterruptIsReported`, `TimedOutIsNotPassing`, `OneWriter` |
| HarnessProofs | `SuccessMeansClean`, `FailuresAreCleaned` | `PassMeansClean`, `FailureIsCleaned` |
| RolloutProofs | `TypeCorrect`, `PodsAreBounded`, `BadReleasesAreRolledBack`, `TheGateIsSound`, `HealthyRolloutsPass` | `TypeOK`; `PodsBounded` (in no run); `BadReleaseIsGone`, `ConvergedMeansCurrent`, `HealthyRolloutPasses` |
| DrillsProofs | `TypeCorrect`, `InjectionsAreUndone`, `SuccessMeansRestored`, `HealthyRunsPass` | `TypeOK`, `InjectionIsUndone`, `PassMeansRestored`, `HealthyRunPasses` |

**The worker, in both regimes.**  The properties are not inductive by themselves.
`NoLoss` is disturbed by an acknowledgement, so one must know that the worker that
acknowledges has an outcome the sink or a log knows of; that is `WorkerInv`: a worker
about to complete holds an entry of an event in `receipts`, and holds entries the group
has handed out.  `GroupInv` says that pending entries lie between the group's start and
its cursor, which is why the copy a release appends is unread and therefore live.
`HashInv` ties a hash to its entry (`streamId[e]` is an entry of `e`), `RetryInv` a retry
status to the schedule, and `FilingInv` says that a filed entry is neither pending nor
unread, which makes a second filing impossible.  The proof has one lemma per operation
of the store, then one step per action.

**The worker, timely.**  `TimelyInv` adds three parts to `IInv`.  `Alone`: no two workers
hold the same entry.  `OwnInv`: an entry a worker handles was read and is not idle, and
while the attempt is under way it is the entry its event's hash names; `Stage` ties what
the worker will call next to the hash (the entry is pending, the status is the one that
call expects, the attempt it counted is the hash's).  `KeptInv` is about each event: an
open one has its entry within reach, and an attempt left unless a worker is in the middle
of its last; an unread entry is of a queued event; a dead-lettered event is filed.  With
overlap `Alone` fails, and the rest with it, which is what `overlap_progress` shows.  The
refinement then has one case per script: each changes the status and the count of one
event along an edge of `EventLifecycle`, or of none.

**The worker process.**  `CountInv` says that work is counted exactly while `run_once` is
awaited, so that the loop reaches its drain with nothing in flight; `GaugeInv` follows
the gauge between the awaits.

**The API.**  `StoredInv`: an accepted event was drawn by a request and has an entry in
the stream.  `DrawnInv`: the id a request drew is its own, and is not stored before its
script runs.  `MapInv`: the idempotency mapping and the events with a key name each other,
from which it follows that a mapping is never replaced.  `AnswerInv`: what a 202 or a 409
says is in the store, and stays there.  `DrainInv` equates the counter with the
cardinality of the set of admitted, unanswered requests, which it shows to be finite.

**Cloudflare.**  `CoverInv` is the order of the outbox: nobody marks a row as sent before
there is a message for it or its event has ended.  `AckInv` says that a consumer that will
acknowledge has seen a terminal row.  `BudgetInv` ties the count a consumer holds to the
row's as long as the token is its own; it is what fences off a report that comes after the
lease.  `LeftInv` says that nobody owns a row that was left over.  The refinement maps
each step that changes a row to a step of `EventLifecycle`.

**The loop runner.**  `ActiveInv`: `ACTIVE_AGENT` is set while an agent is supervised;
`AgentInv`: an agent outlives its supervision only after a timeout; `OutcomeInv` and `RecordInv` follow the outcome
from the decision into the records, for the time between the write and its confirmation;
`DocInv` says what the document holds of a feature whose iteration timed out.

**The harnesses.**  `BodyInv`: what a body has started is on the list its `finally` goes
through, and noted; `CleanupInv`: what is left is on the rest of the list or in `missed`,
unless a removal failed; `FlagInv`: without a failure only process groups are missed.  The bodies are the ones of the scripts: that their
steps start only what the list contains is the lemma `Bodies`.

**The rollouts.**  For the bad release: the upgrade is under way only while it is watched,
and from there every way out leads through a rollback (`BadInv`).  For the gate: the old
ReplicaSet never makes a pod again once it reported none and the new one never deletes
one, so that what was read of the ReplicaSets still holds at the judgement, and what was
read of the endpoints can only have become better since (`SeenInv`).

For a healthy script (`HealthyInv`): what a ReplicaSet reports may be behind, but of the old
one it is never less and of the new one never more than there is (`CountInv`).  Hence
`rs[0].want + rs[1].available >= 2` is kept by every scaling, which goes by the reported
numbers, and it keeps two pods ready, two reported available and two endpoints ready
throughout.  A rolling update that looks complete has its two new pods and no old one
(`Updated`, `PhaseInv`), although the endpoints may still list the old ones; what they
list as ready is a pod that is ready or one of the first two (`ServingInv`), so no other
pod can lose a request.  `StartInv` says that before the patch all pods have one template,
which is what the script checks first.  The bad
release gets exactly one pod, since none of its pods is ever available, and the status shows
two pods again only after the rollback has removed it (`SurgeInv`), which is why settling
before the pods are counted is enough.  `TypeInv` bounds the counts whatever fails: the same
argument on what is wanted, without the readiness of the old pods.  It gives `TypeCorrect`
for what is wanted and reported and `PodsAreBounded` for the pods there are.

**The drills.**  `StateAt(s, c, i)` says in which states of the cluster the body of script
`s` comes to its `i`-th step while nothing has raised: which values the release has, whether
the live replicas and the sink mode differ from them, and which event is under way.  The
lemma `BodyRun` shows row by row that each step leads to the next row and that no check of
a row fails there; `Undo` shows that the `finally` block behind an injection undoes it
from wherever the exception came.  `CleanInv` follows main's `finally`: after a restoration
in which no command failed, a release that is still there is a normal one.  `VerdictInv`
ties the verdict to what was raised and to failures of the clean-up.

Only model-checked:

* liveness (`EventuallyTerminal`, `ReadinessConverges`, `ShutdownCompletes`, `WorkResumes`,
  `EventuallySettled`, `RunEnds`, `RolloutEnds`): fairness and ENABLED are out of the
  prover's reach.

Every other property of a passing run is stated by a theorem, and so is the `TypeOK` of
every module with a specification of its own.

## 5. Plan

Models that could still be added: status classification and backoff as operators
against a reference definition; Cloudflare acceptance with idempotency keys and
payload chunks; the queue gauges against the store.
