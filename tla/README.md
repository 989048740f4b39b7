# TLA+ models of reliability-lab

reliability-lab is a small order platform that breaks on purpose and a
Kubernetes operator that repairs it. This directory holds TLA+ models of its
Go code, TLC configurations that check them, and TLAPS proofs.

## The system

| Part | State it keeps | Operations |
|---|---|---|
| operator webhook (`operator/internal/server`) | in-memory map fingerprint -> last stamp, HTTP handlers in flight | `handleAlert`, `Acquire`/`gcLocked`, `dispatch`, `Start` (serve, shut down) |
| classifier (`operator/internal/classifier`) | none | `Classify(labels)` |
| remedies (`operator/internal/remedy`) | none of their own; HPA, ConfigMap and Rollout in the API server | `ScaleUp`, `CircuitBreak`, `Rollback` |
| orders-svc | `publishingPaused`, requests in flight, request counters | `handleCreate`, `watchCircuitBreak`, `main` (set up, serve, drain) |
| payments-svc | calls in flight | `Charge` |
| inventory-svc | in-memory reservations | `Reserve`, `Release` |
| email-worker | client buffer, message in work | `main` (stream, consumer, stop), callback of `Consume` |
| `pkg/obs` | readiness and liveness flags, RED counters | `Ready`, `NotReady`, `Serve`, `HTTPMetrics.Wrap`, `InitTracing` |

How they interact: a customer's `POST /orders` becomes a gRPC `Charge`, which
calls `Reserve`; an authorized order is published to JetStream, whose durable
consumer feeds email-worker. Prometheus alerts about these services reach the
operator through AlertManager, which re-sends them; the operator classifies
each, and either raises an HPA's floor, aborts a canary, or writes
`publish_enabled=false` into a ConfigMap, which kubelet projects into
orders-svc, whose watcher then pauses publishing. Argo CD and people write the
same objects.

What is hard here: handlers that share the cooldown map and carry an old clock
reading; remedies that read a lagging cache and write without a version; faults
answered 202 and left to the next re-send; a flag that travels through
ConfigMap, volume, event, goroutine and atomic before it means anything; calls
whose effect outlives their caller; redelivery; a drain that waits for clients
and stops waiting; readiness set and reset by different goroutines; and the loop
as a whole, in which every link may fail while orders keep coming. The list, line by line, is under "hazards" in
PROJECT.json.

## Modules

* **Dedupe**: `dedupe.go` as operators on the map (a partial function). Every
  operator is one critical section of `Dedupe.mu`. **Classifier**: `Classify`.
* **WebhookServer** (extends both): clock, pods, handlers. `handler[h]` is a
  goroutine in `handleAlert`, with the `now` it read once (server.go:102) and
  its loop index. One pass of the loop is one step (`SkipResolved`,
  `SkipCooldown`, `DispatchNone`, `DispatchRemedy` with `RemedyReturns`): its only
  shared access is under the mutex. `accepts` is a history of what each
  incarnation of a pod accepted. A remedy is opaque here.
* **Remedies**: the three `Apply` methods as processes with one step per API
  call. `cached` is the controller-runtime informer cache, which answers `Get`;
  `hpa`, `flags`, `rollout` are the API server. A call may fail; a write whose
  reply is lost is the write itself, since `dispatch` treats both results alike.
  minReplicas is never nil here: the API server defaults it to 1.
* **Operator** (extends Remedies): firing alerts, the cooldown as one Boolean
  per fingerprint, crash and restart, people's edits, Argo CD. Two assumptions on
  durations stand in the guard of `CooldownEnds`: an `Apply` and the cache's lag
  are shorter than ten minutes.
* **PublishBrake**: ConfigMap, mount, fsnotify events, `watchCircuitBreak` (read
  and store are two steps), `handleCreate`'s check and publish. On a signal the watcher
  returns (`ContextDone`) while requests still drain with the flag as it was; the process
  then exits and is restarted. Left out: the fsnotify error branch, which only logs, and
  the returns on a closed channel, which only the deferred `w.Close` closes.
* **OrdersProcess**: `main` of orders-svc (set-up, `obs.Serve`, deferred closes),
  signals and kills, and the RED middleware: `Accept` is the entry of `red.Wrap`,
  `Record` its return, `counted` the counter by status. What a handler does is left
  to the module that extends it, which passes the set of requests being served to
  `ShutdownReturns` and `ShutdownTimeout`.
* **OrderFlow** (extends OrdersProcess): `handleCreate`, `Charge`, `Reserve`,
  `Release`, the request's five second context, lost calls and replies, restarts of
  all three services. Reading the body has no deadline (the server sets only
  `ReadHeaderTimeout`), so a handler may stay in "reading" for ever; the drain of
  ten seconds is longer than the five of a Charge begun before it, which is the
  guard of `DrainTimeout`. A request cut off in "reading" is "dropped" (nothing was
  done for it), one cut off later is "killed". The constant
  `ReleaseCalled` says whether some client calls `Release`; none in the
  repository does, and it is TRUE only to exercise the handler.
* **AtLeastOnce** (abstract) and **EmailWorker** (detailed): `EmailWorker` maps the
  server's view of a message (pending, delivered, acked, termed, expired) to
  queued, settled, dropped and is checked to implement `AtLeastOnce!Spec`. The
  worker's `main` creates stream and consumer, announces readiness, consumes, and
  on a signal stops while the callback may be anywhere; until the first start
  there is no stream to publish to. JetStream is simplified in one respect: a message
  whose AckWait has expired frees its place under `MaxAckPending` at once, and takes one
  again when it is redelivered.
* **ServiceLifecycle**: `main` of payments-svc and inventory-svc with `obs.Serve`:
  main, gRPC and HTTP goroutines, a shared context, the readiness flag.
* **BrakeLoop** composes Operator and PublishBrake (two instances that share the
  ConfigMap `flags` and the bound on faults) with a count of the worker's queue:
  publishing adds, the worker settles, the alert needs a deep queue to begin.
  Clients send for ever. `SelfHeal` chooses between Argo CD as the repository
  declares it and `MaxSyncs` syncs by hand.
* **MC...** modules give the constants their values. **XProofs** extends the module X
  and holds the theorems about it (WebhookServer, Operator, PublishBrake, OrderFlow,
  EmailWorker, ServiceLifecycle, BrakeLoop).

Operators whose comment begins with "Mutant of" are plausible bugs in the
definition that follows; nothing uses them. Each is the evidence that a property
can fail: put in place of that definition, TLC finds the property violated.

## Runs

Passing:

| Run | Shows |
|---|---|
| webhook | `CooldownSpacing`: remedies for one fingerprint are acted on a cooldown after the request that caused the previous one arrived. `AlertsCovered`: an alert that was passed over is covered by an accepted one less than a cooldown old, so re-sends never starve a burning SLO |
| operator_brake | `BrakeLands`: while an email-worker alert fires, the flag ends up "false". `CanaryAborted`: a canary does not outlive a firing orders alert |
| operator_scale | `BumpsByStep`: with no other writer each patch raises the floor, by Step, capped, although the cache lags. `FloorClimbs`: the floor reaches the ceiling while the burn lasts, although people edit or delete the HPA. Only without Argo CD's self-heal, as `make demo` sets the cluster up (it installs no Argo CD); for the other case see the divergences below |
| brake | `NewOrdersHeld`: an order that arrives during a pause is not published in it. `FlagSettles`: the flag is followed in the end, despite lost and early events |
| orders | `ReservedOnce`: created means reserved exactly once, and nothing is reserved twice. `RequestsAnswered`: the deadline answers every request that reached payments-svc, also across a shutdown, unless the process is killed or gives up its drain. `CleanExit`: an orderly exit has answered and counted every request, under the status its client saw. `StopsWhenTold`: no client can keep the process alive |
| email | `ImplementsAtLeastOnce`; `EveryMessageHandled`: mailed or terminated, unless it expires, whatever starts fail and stops interrupt |
| lifecycle | `CallsAnswered`: a process that is gone has answered every call it took. `NoZombie`: a service that is told to stop, or has lost its gRPC server, drains and exits |
| loop | `QueueStopsGrowing`: during a pause no step adds to the queue and the orders already checked taken together, so only what passed the check before the pause is still published. `WorkerCatchesUp`: a backlog alert that keeps firing leads to a drained queue, through cooldown, cache, API write, kubelet, event or tick, goroutine and the check in `handleCreate` (self-heal off) |

Runs that TLC refutes, each about a sentence of the repository that the code
does not keep ("findings" in PROJECT.json quotes them):

| Run | The code |
|---|---|
| operator_double_apply | `ScaleUp` is not idempotent: a second application raises the floor again. The run needs no fault: a re-send after a write whose reply was lost is the same step as one after a success, since `dispatch` answers both 202 |
| loop_gitops | with self-heal on, Argo CD takes the brake back after each remedy and the queue need never drain |
| orders_release | no timed-out reservation is ever released |
| orders_slo | an inventory outage is answered 402 and so counts as success |

Smaller divergences met while modelling, which have no run:

* dedupe.go:3-5 says a fingerprint is stamped "at action time"; the stamp is the
  time the request was decoded (server.go:102). `CooldownSpacing` is stated accordingly.
* docs/runbooks/rollback.md:52-54 promises no second abort of the same rollout within
  the cooldown; the cooldown is per fingerprint, and the fast-burn and the latency
  alert both lead to it (classifier.go:83).
* scale.go:59-61 patches without a resourceVersion, so it overwrites an edit made after
  the cached copy was taken: with a floor of 2 read, 5 set by hand and 4 patched, the
  "bump" of docs/runbooks/scale.md:8-10 lowers the floor. `BumpsByStep` is stated for the
  undisturbed case.
* docs/runbooks/scale.md:22-24 says the floor stays up "until the human or a follow-up
  remedy lowers `minReplicas`". With self-heal, which gitops/apps/workloads.yaml:24
  declares, Argo CD resets it to the 2 of k8s/base/payments-svc.yaml:68 after each bump,
  the same conflict as loop_gitops shows for the ConfigMap. `FloorClimbs` is false in such
  a cluster and is stated, and run, without self-heal. The HPA half of `GitOpsSync` takes
  part in operator_brake.
* orders-svc serves before its watcher's first read (orders-svc/main.go:168-189): a
  process that starts with the brake engaged may publish at first.
* chaos/inventory-network-drop.yaml:2-4 and payments-svc/main.go:3-4 speak of retries;
  `Charge` makes one attempt (payments-svc/main.go:40-50).
* cbwatch.go:27-28 says the watcher follows the flag until the context ends; when
  `NewWatcher` or `Add` fails it returns after one read (cbwatch.go:51-58).
  `FlagSettles` and `WorkerCatchesUp` except that case.
* obs.go:46-49 says readiness drops during a graceful shutdown: orders-svc never
  calls `NotReady`, and in the gRPC services `Ready` may overtake it
  (payments-svc/main.go:100). `obs.Serve` closes the probe's listener at about the
  same time, which hides both from kubelet.
* docs/runbooks/email-worker-backlog.md:13 says the brake stays until it is lifted;
  self-heal lifts it (the run loop_gitops shows the consequence).
* A client that sends its body late, during the drain, may be cut off in mid-Charge
  with its reservation made (obs.go:108, orders-svc/main.go:63).
* email-worker goes on consuming when its probe server fails (email-worker/main.go:104):
  the error is only logged.
* trace.go:113 takes a sampling argument of 0 for "sample everything".
* services/orders-svc/main.go:4-5 says `/healthz` reflects the circuit-break flag;
  `obs.Mux` answers from `Health.live` only.

### Bounds

* webhook: two handlers (a race needs two), one pod that may die and restart
  (the map is per process, so pods do not interact), cooldown 2 and clock 0..3: a
  window can end, be one tick short, and be judged by a `now` that is two ticks
  old. Payloads have up to three alerts, with a resolved, an unfingerprinted and
  a remedy-less one. `ConfiguredCooldown = 0` exercises the default.
* operator runs: one alert per remedy (`Worker`), `MaxFaults` 2 failed calls or
  crashes, `MaxEdits` 2 edits by people. HPA 2..5 with step 2: the last step is
  cut. Argo CD is not bounded and plays the second writer of the ConfigMap
  and the HPA (operator_brake, with an HPA of 1..2 that no remedy of that run scales).
* brake: two orders, two edits, two faults; `MaxEvents` 2: two events in the
  channel behave as any larger number, for each means "read again".
* orders: two orders, `MaxRestarts` 2 for payments-svc and inventory-svc; orders
  interact only through restarts, the drain and the counters. orders-svc itself
  restarts without a bound.
* email: two good messages and a bad one, `MaxAckPending` 2 so that the limit
  binds, two copies of a message in the client, two faults.
* lifecycle: four calls in flight.
* loop: one client, which sends one order after the other (two clients give the
  same result and take eight times as long), two faults, one sync by hand, a
  threshold of 1 in a queue of 3: the queue can be deep, grow further and drain.
  `MaxEvents` 1, one alert.

`CHECK_DEADLOCK FALSE` is set where the system may really stop: all orders served
and the watcher dead, all messages settled, the process gone.

### Fairness

* Operator: AlertManager re-sends while an alert fires; goroutines, the informer,
  argo-rollouts and the Deployment's restart make progress. Strong fairness for the
  end of a cooldown: it is a timer, and the guard that keeps it longer than the
  cache's lag is interrupted by every other write. None for failures, edits or
  Argo CD.
* PublishBrake: kubelet's periodic sync and its restart of a container that exited, the
  watcher's goroutine; strong fairness
  for the tick, because Go's `select` picks at random among ready cases.
* OrderFlow: only orders-svc itself, its context's timer and the timer of its
  drain. Nothing is assumed of clients (a body need never arrive), the network or
  other services.
* EmailWorker: strong fairness for delivery, which the ack-pending limit may
  disable over and over; JetStream redelivers; the callback runs; the pod is
  restarted.
* ServiceLifecycle: goroutines run and calls end.
* BrakeLoop: what Operator and PublishBrake assume on their own, and that the worker
  settles messages. None for clients, alerts or Argo CD.

## Proofs

Every invariant and action property that a passing run checks, and the refinement of
`AtLeastOnce`, is also proved
for all values of the constants. Each proof module states an inductive invariant
`IInv`, proves `Init => IInv`, one lemma per action or group of actions for
`IInv /\ [Next]_vars => IInv'`, and draws the listed theorems from `Spec => []IInv`. The
conjuncts of `TypeOK` about Booleans are kept in a part of their own (`BoolOK`), because
the SMT backend and Zenon each handle one kind and not both.

**WebhookServerProofs** (`WebhookTypeOK`, `CooldownSpacingHolds`, `AlertsCoveredHolds`):
for every set of handlers, pods, fingerprints and payloads, every clock bound and every
cooldown. Assumptions: the cooldown is an integer, the default a positive one
(`CooldownAssumption`), no real fingerprint is empty (`FingerprintAssumption`), payloads
are sequences of alerts (`PayloadAssumption`), the clock bound is a natural
(`ClockAssumption`). Neither safety property is inductive: an acceptance is justified by
the map, which says nothing about the history. `IInv` adds

* `HandlersOnPods`: a busy handler is on a pod and its `now` is not in the future;
* `StampsAccepted`: every stamp in the map is that of an accepted alert of its
  fingerprint, so a refusal is always covered;
* `AcceptsRemembered`: every accepted alert whose cooldown is not over at the
  present clock is still in the map, with its own stamp; hence
  `gcLocked`, called with an old `now`, cannot have dropped it, and whoever
  acquires the fingerprint again does so a cooldown later;
* `RemedyCovered`: the alert whose remedy is running is already covered.

The lemmas about `Stamp`, `gcLocked` and `AfterAcquire` carry the work.

**OperatorProofs** (`OperatorTypeOK`, `BumpsByStepHolds`): for every set of alerts with
any labels, every set of HPAs, step, number of faults and edits. Assumptions: the bounds
are naturals, the configured step an integer, Git declares well-formed HPAs
(`RemediesAssumption`, `EditsAssumption`). A patch carries no resourceVersion, so nothing
checks that it was computed from the present object. `IInv` says why it was:

* `Guarded`: a call of `Apply` in flight is inside its alert's cooldown, in a process
  that is up;
* `ScalesItsTarget`: it scales the HPA the classifier names;
* `Fresh`: whenever the cooldown would admit a ScaleUp alert, and from then until its
  `Get`, the cached copy of its HPA equals the object; from the `Get` until the patch the
  floor computed is one capped step above the object's floor.

`Fresh` is claimed, and `BumpsByStep` proved, under `OneWriter` and before the first edit:
Argo CD's self-heal is off and no two ScaleUp alerts have one target. The second holds of
the rules in the repository (payments-slo.yaml:44 and inventory-slo.yaml:40 are the only
fast burns of these services). It is needed: a second paging fast-burn alert for payments
would have its own fingerprint and so its own cooldown, could read the same cached floor
and patch the same value, and its patch would raise nothing. The duration assumptions in
the guard of `CooldownEnds` enter exactly where `Fresh` is re-established.

**PublishBrakeProofs** (`BrakeTypeOK`, `NewOrdersHeldHolds`): for every set of orders and
every bound (`BoundsAssumption`: naturals). An order may be checked long after it arrived,
so `IInv` adds that orders are remembered as held only while the pause lasts
(`HeldInPause`: a held order that is checked finds the flag set), that a held order is
never on its way to `js.PublishMsg` (`HeldOnTheWay`), and that publishing is the last thing
a handler does (`PublishedLast`: an order that arrives was not published before).

**OrderFlowProofs** (`OrderFlowTypeOK`, `ReservedOnceHolds`, `CleanExitHolds`): for every
finite set of orders (`OrderAssumption`) and every number of restarts
(`RestartsAssumption`). `Flow` follows one order: no Charge before the handler called it,
no Reserve before payments-svc called it, not executed while it is on the wire, and only an
executed one leads to AUTHORIZED, to "200 created" and to an event. This is what rules out
a second Reserve after a lost or late reply. `Books` is `CleanExit` at every earlier
moment: each accepted request is in a handler or answered, each handler in flight belongs
to an accepted request of a process that serves or drains, and each RED counter is the
number of accepted requests answered with its status. The cardinality argument rests on
`FiniteSetTheorems`.

**EmailWorkerProofs** (`EmailTypeOK`, `EmailRefinesQueue`): for every set of messages,
every limit and number of faults. The safety part of the refinement: each step of the
worker and of JetStream is, under the mapping of `EmailWorker`, a step of `AtLeastOnce` or
leaves the abstract queue alone. It needs that a copy in the client's buffer or in work
belongs to a message that was published (`CopiesPublished`), and that whoever is about to
ack has sent the mail (`AckAfterMail`), through redelivery, expiry and crashes.

**ServiceLifecycleProofs** (`NoCallLeftBehind`): for any number of calls in flight, a
process that is gone has none (`CallsAnswered`), the safety half of `NoZombie`. A failed set-up does not look for calls before it exits; that there are none follows
from the order in which `main` starts things (`NothingBeforeSetup`).

**BrakeLoopProofs** (`QueueStopsGrowingHolds`): for every finite set of clients
(`OrderAssumption`; the sum counts them), any alerts and any bounds
(`BacklogAssumption`, `BoundsAssumption`). The action property follows step by step: a
request that begins, or is checked in the pause, does not become one in flight; a publish
moves an order from in flight to the queue; a restart ends the pause; nobody else touches
the handlers. `IInv` says what the sum needs, that the counters are naturals and the
handlers where `handleCreate` can be, in a composition where both components write the
ConfigMap and share the bound on faults (`LoopTypeOK`).

Only model-checked: all liveness (`BrakeLands`, `FloorClimbs`, `CanaryAborted`,
`FlagSettles`, `RequestsAnswered`, `StopsWhenTold`, `EveryMessageHandled`, `NoZombie`,
`WorkerCatchesUp`), since the proof system does not reason about fairness. The runs that
are refuted have nothing to prove.

## Not modelled

* Logging, the duration histogram, probe handlers, exporter options and the sampling
  ratio (`obs.go`, `redmetrics.go`, `trace.go`): output and configuration that no
  decision of the program reads.
* Generated gRPC code.
* Rates and burn-rate windows of the Prometheus rules: arithmetic over time series.
  The backlog alert's threshold and all labels are in the models.
* Manifests and policies apart from self-heal and the declared flag; leader election
  (off, one replica).
* Chaos experiments (their faults are actions) and the load generator.
* The MTTR drill and the other scripts: each is one sequence of waits with a
  time-out, and what it waits for is the liveness the runs check. The elapsed
  seconds it measures are beyond these models.

## Plan

Done: the webhook, the operator against the cluster, the publish brake, the order flow
with the process around it, the email pipeline with its abstract specification and its
life cycle, the life cycle of the gRPC services, the closed loop; the safety invariants of
all of them and the refinement proved. Next, in this order:

1. A composition of WebhookServer and Remedies with the clock, which would replace
   the two duration assumptions of Operator and show what happens when they fail.
2. Proofs of the safety lemmas that the liveness properties rest on (what stays enabled,
   what cannot be undone), so that only the fairness argument is left to TLC.
