# LangGraph Dev Squad: a TLA+ verification project

The repository is a FastAPI backend that turns Jira tickets into pull requests: a
webhook guard admits deliveries, ARQ workers pick up ticket runs, a LangGraph
workflow plans, codes, tests and reviews under retry budgets, and PostgreSQL and
Redis adapters keep runs, LLM budgets, worker assignments and configuration.
This directory models that backend in TLA+, checks the models with TLC and proves
the main results with TLAPS. All source paths below are relative to
`backend/src/backend/`.

## 1. Inventory

| Component | State | Operations | Hard behaviour | What makes it correct |
|---|---|---|---|---|
| Ticket workflow (`runtime/workflow.py`, `models.py`, `planner.py`) | `TicketRunState`, langgraph's next node | `execute`, twelve nodes, six conditional edges, `resume` | three nested retry loops under one recursion limit; process death | the outcome follows from the request; no PR bypasses a gate; retries end |
| Run repository (`persistence/runs.py`) | table `runs` | `save`, `load`, `pause`, `resume` | upserts of whole, possibly stale copies against a locked resume | a completed run is never reopened; a resume keeps the stored progress |
| Budget ledger (`persistence/governance.py` 231-674) | three Redis counters per context, three PostgreSQL tables | `reserve`, `settle`, `release_orphaned`, `configure_caps`, `reconcile`, `balance` | Lua script, then SQL; credits outside transactions; Redis resets | no cap exceeded; charges final; nothing lost |
| Worker controller (`persistence/worker.py`) and dispatcher (`platform/queue.py`) | Redis hash, counters, lease keys, draining set; process-local caches | `select_next_job`, `assign`, `begin_drain`, `checkpoint_and_release`, `capture_terminal_failure` | several commands per operation, several replicas, failing commands, expiring leases, drains and releases by other replicas | tenant limit; one execution per job; drained workers accept nothing (which the code does not achieve); no job lost; waiting jobs are served |
| Control plane and handler registry (`persistence/control_plane.py`, `control_plane/store.py`, migration `0002`) | versions, snapshots, active pointer, audit log, run bindings; cached handlers | create, activate, rollback, bind, update status, cleanup; resolve, invalidate | compare-and-set races, cleanup on stale reads, lost publications, an invalidation during a load | one line of audited activations; bound snapshots survive; bounded staleness of the cache |
| Webhook guard (`persistence/webhook.py`, `webhook/admin.py`) | delivery table, dedupe cache, sliding windows, secrets | `verify`, secret rotation, deployment | parallel duplicates, cache failures, process-local limits | each event is new exactly once; flood limit across replicas |
| Provider health, routing, catalog (`persistence/governance.py` 76-124, 1181-1519, `governance/routing.py`) | circuit breaker per provider, event rows, catalog | select, allow, record success and failure, half-open, seed the catalog | concurrent probes, Redis down, lost event rows, images with different bundles | probes bounded; breaker state matches its failures |
| Metering, rate cards (`persistence/governance.py` 707-1179, `billing/api.py`) | usage facts, hourly roll-ups, reports, cards | record, roll up, reconcile; save, update, activate, delete | read and write in two transactions, replays, deletions by compliance, row level security | roll-ups follow the recorded facts; deleted cards stay deleted |
| Credentials (`credentials/admin.py`) | break-glass grants, key-encryption keys, rotation schedule | request, approve, revoke; introduce, retire, rotate; schedule, mark overdue | read-then-update without a lock | two people per grant; one default key |
| Envelope encryption (`persistence/encryption.py`, the rotation job of `worker.py`) | wrapped values, active and previous keys | encrypt, rotate stale, deploy keys | a key is dropped while values still use it | a key the job passed over is unused |
| Compliance (`compliance/admin.py`, `dpa_gate.py`) | retention policies and runs, delete events, agreements | sweep, approve, execute, publish, acknowledge, check a delivery | unlocked reads, cascade and completion in different transactions, a check of several reads, row level security | two approvers; a cascade empties the tables it names, as far as its role sees them; the gate decides as the status would |
| Knowledge (`knowledge/service.py`, `api.py`) | documents, jobs, chunks in dictionaries shared by threads | create, update, delete, enqueue, process, search | threads without a lock, retries | index and documents agree |
| Configuration validation (`control_plane/graph.py`, `agents.py`, `shadow.py`) | none | validate, compare | reachability over a graph | accepted graphs cannot bypass a gate |
| Flags, release gates, SLOs (`operations/`), GitHub onboarding (`integrations/github/`) | none that is stored: the routes are stubs | evaluate | none | single decisions |

Interactions: the workflow calls the repository and the branch-protection verifier;
the ledger, the controller, the guard and the breakers are called by threads of
several processes and meet only in Redis and PostgreSQL; the control plane
publishes activations that registries in other processes receive; erasures and
retention runs delete usage facts and roll-ups that builds are reading, and rows that
bindings and audit triggers protect.

## 2. Modules

| Module | Models | Notes |
|---|---|---|
| `TicketWorkflow` | the graph, `execute`, `resume`, the stored row | one action per superstep: node function and the edge evaluated on its result |
| `BudgetLedger` | `PostgresBudgetLedger` | one action per Redis command, script or transaction half |
| `WeightedFairDispatcher` | `select_next_job` as the set of jobs `min` may return | no state |
| `WorkerController` | `RedisWorkerController`, extending the dispatcher | one action per Redis command with the local code after it |
| `ControlPlane` | `PostgresControlPlaneStore` and `SnapshotDrivenHandlerRegistry`, composed | one action per statement; implements `ConfigHistory` |
| `ConfigHistory` | abstract: a pointer with its trail, and pins | |
| `WebhookGuard` | `PostgresRedisWebhookGuard` on several replicas, secret rotation | one action per Redis command, script or insert; implements `DeliveryInbox` |
| `DeliveryInbox` | abstract: an event is taken in at most once | |
| `ProviderRouting` | router, breakers, catalog | one action per script or transaction |
| `Metering`, `RateCards` | `PostgresMeteringLedger`, and what `compliance/admin.py` deletes from its tables | the read and the write of a build or an update are two actions |
| `CredentialAdmin` | routes of `credentials/admin.py` | the read and the update of an approval, and the statements of a rotation, are actions |
| `ComplianceAdmin` | routes of `compliance/admin.py`, the DPA gate | as above; the cascade and the completion are two actions, a check of the gate is three |
| `KnowledgeBase` | repository and ingestion service | one action per dictionary operation another thread can observe |
| `EnvelopeRotation` | `EnvelopeCipher` and its job | |
| `RunStore` | `PostgresRunRepository` with several clients on one run | the row lock of `resume` is a variable |
| `GraphValidator` | the path rules of `GraphConfigValidator` | checked against reachability |
| `TicketWorkflowProofs`, `BudgetLedgerProofs`, `WorkerControllerProofs`, `ControlPlaneProofs`, `WebhookGuardProofs`, `CredentialAdminProofs`, `ComplianceAdminProofs` | theorems about the module they are named after | see section 4 |
| `ServiceProofs` | theorems about `RateCards`, `RunStore`, `EnvelopeRotation`, `ProviderRouting`, `Metering`, `KnowledgeBase` and `GraphValidator` | |
| `MCTicketWorkflow`, `MCBudgetLedger`, `MCWorkerController`, `MCControlPlane`, `MCServices` | instances for TLC | |

A definition that is the mutated form of another one is marked `Mutant:` and used by
nothing in the specifications; each property of a passing run has one, listed in
`PROJECT.json`, under which TLC finds the property violated.

### TicketWorkflow

The variables are the fields of `TicketRunState` that carry control, plus
`next_node` (langgraph's schedule), `phase` (where `execute()` stands) and `stored`
(the row). `Enter(n)` is `transition_to`; each node action then has the node's
early returns as disjuncts and its routing function evaluated on the primed
state, as langgraph does. Artifacts, hashes, readiness texts and
`last_retry_reason` are left out: no condition reads them. A sink URL is
represented by the reason it is registered under. `verify()` of the branch
protection returns whatever GitHub answers, so its verdict is an `\E`; shadow
mode is fixed per process. `RecursionLimit` is langgraph's; the repository sets
none, so the library's default applies. `Killed` may happen in any superstep.

### BudgetLedger

Rows hold exact amounts in units of `1/UnitsPerCent` cent and counters hold whole
cents, converted by `UsdToCents` with ROUND_HALF_UP as in the code. A process has a
program counter and remembers its call (`call`), the counters it still has to
touch (`todo`), the sums it read (`snap`) and where to go on after a reconcile
(`return`). Abstractions: the three GETs of `_ensure_counters`, and the
cap query with the six SUM queries of a reconcile, are one read each; `now` is read
once per step; one tenant and team; one month; daily and monthly caps are the
same for all runs and fixed; negative amounts are not enumerated (no caller
produces them). `OrphansOnly` states how the API is meant to be used (the
reserving caller settles, a sweeper releases only what a dead caller left);
with FALSE any call may overlap any other.

### WorkerController

A step is one Redis command with the process-local code that follows it up to
the next one. Every command may fail before taking effect (`Fault`), which selects
the `except RedisError` branch of the code. `SelectNextJob` reads one snapshot of
the counters, where the code has one GET per tenant; `_get_active_job` looks at
the local entry and at the hash in one step. ARQ is external: a job is handed to
one caller, goes back to the queue when `assign` raises, when a release returns it,
or when the process that held it dies. A worker asks for a job only when it
executes none.

`Assigns` says whose thread fetches jobs for a worker and `Drains` who else may drain it
and release what it runs; the proofs put no condition on `Drains`. `checkpoint_and_release` takes a
`checkpoint_ref` that its caller already has, so the model takes the job as stopped at the
checkpoint when the release begins (`DropLocal`). Two history variables name what the properties
exclude: `overlapped`, two `assign` calls were under way at once, and `crossed`, two calls changed one worker's
slot at once or, with outsiders about, a release took a job its worker did not execute.

### ControlPlane

Transactions are READ COMMITTED. A step is one statement; where a row lock or a
constraint orders the last statements against every other transaction they are one
step with the commit. What an open transaction wrote is in its operator's `tx` until
then. `_create_version` reads `MAX + 1` in one step and inserts in another, where the
unique constraint may fail it. `activate` reads the predecessor, inserts the
snapshot and moves the pointer by compare-and-set with the audit row; it then loads
the committed snapshot and publishes, and a failure there loses the publication but
not the activation. Cleanup reads the active snapshot and the bindings before it
deletes; the foreign keys and the immutability trigger of migration 0002 are
`HeldByRun`, `ReferencedBy` and `DeleteAllowed`. The registry's `resolve` loads outside its lock, so the
listener's invalidation may come between the load and the store. Replicas share
nothing, so one is modelled.

*Refinement.* `ImplementsHistory` maps `current` to the active pointer, `count` to the
revision, `trail` to the audit rows of activations and rollbacks and `pinned` to the
bindings of runs that have not ended. `ConfigHistory` lets the pointer move only in
single recorded steps, which touch no run, and lets a run be pinned only to a snapshot of the trail.
It may be pinned again while it is in flight: `pin_run_snapshot` is an upsert.

### WebhookGuard

The handler is a coroutine that calls `verify` without awaiting, so a replica verifies
one request at a time. Deliveries are records of event, body, sender, tenant and
signing secret; the network repeats any of them on any replica. The checks before the
first Redis command are the guard of `Receive`. The Lua script appends a random
suffix to a member of the sorted set: the suffix is a nondeterministic choice and
`collided` records that two members were equal. `RotateSecret` stores what the route
stores, and `DeploySecret` and `Redeploy` give a replica the configuration a new process
reads. `ImplementsInbox` maps `recorded` to the events with a row.

### The smaller services and MCServices

Each keeps the transactions of its code apart: what was read in one and used in the
next is a field of the caller's record (`caller`, `job`, `cardJob`, `approving`, `rotating`,
`sweep`, `officer`, `thread`, `resuming`). Names, amounts and payloads are members of small sets.
Row level security is a constant of a behaviour (`bypassesRls`, `rlsBypassed`): the role of the
connection either sees every row or only those the session's tenant allows.

Where two of them meet in a table, each has the other's actions on it: `Metering` has
`RetentionDeletes` and `ErasureDeletes`, which delete facts and roll-ups while builds are between their read and
their write, and `ComplianceAdmin` has the rows and the bindings that other components write. The modules have no
variable in common, so `MCServices` checks them in one run as a sum: `focus` chooses the
service at the start and the others keep their initial values. Every service goes
through exactly the states of its own specification, where a conjunction would
explore the product. Retention runs and erasures are two choices of `focus`; the theorem `ErasureCorrect`
speaks of both at once. The interchangeable pairs (replicas, callers, builders, clients, rotators,
threads, executors) are played by the same two model values, so that one permutation is the symmetry of all.

`DpaGateMiddleware` reads the latest version, its acknowledgement and the clock in three steps
(`GateReads`, `GateReadsAck`, `GateDecides`), and a delivery without a readable `tenant_id` passes at once. `seen` is the
history of a check: whether `processing_blocked` of the status route was true, or false, at some moment of it, and
whether what it reads has changed.

History variables (`overtaken`, `deleted`, `outdated`, `kekOverlap`, `contended`, `overlapped`, `crossed`, `collided`, `seen`) record that
the race a property excludes has happened; section 3 says what happens then.

## 3. Runs

| Run | Instance | Checks | Result |
|---|---|---|---|
| `ticket` | 67 planning and 97 execution requests, 3 sink mappings, both modes, limit 20 | `TypeOK`, `OutcomeMatchesRequest`, `ProtectedSuccessPath`, `RetriesAreBounded`, `StoredRowIsTerminal`, `RunReachesRepository` | pass, 623,018 states |
| `ticket_killed` | small request space, fairness | `KilledRunIsResumed` | violated |
| `ticket_oversized` | small request space | `OversizedDiffIsNotReviewed` | violated |
| `budget_ledger` | 2 callers, 1 administrator, Redis reset, day change | `TypeOK`, `LedgerConsistent`, `ChargeIsFinal` | pass, 945,556 states |
| `budget_caps` | 2 callers, 1 sweeper, 2 tickets, 3 reservations, 1 fault | `NoOverspend`, `CounterInvariant` | pass, 148,682 states |
| `budget_reconcile_race` | as above with an administrator | `NoOverspend` | violated |
| `budget_release_race` | uncoordinated sweeper | `NoOverspend` | violated |
| `worker_fleet` | 2 replicas with a worker each, the second also drains and releases the first's, 2 jobs of 1 tenant, 1 fault, fairness | `SlotInvariant`, `LimitHolds`, `JobRunsOnce`, `NoJobIsLost`, `QueueIsServed` | pass, 228,195 states |
| `worker_drain_race` | as above, no fault | `DrainIsRespected` | violated |
| `worker_limit_race` | 2 replicas | `LimitAlwaysHolds` | violated |
| `control_plane` | 2 operators, 1 resolving thread, 1 run, 2 snapshots, 3 revisions, 1 fault, fairness | `StoreInvariant`, `ReferencesSurvive`, `CoherentWhenQuiet`, `ImplementsHistory`, `ReplicaCatchesUp` | pass, 221,494 states |
| `services` | eleven modules, see below | `DedupeInvariant`, `FloodLimitHolds`, `ImplementsInbox`, `BreakerInvariant`, `RollupsFollowFacts`, `DeletedCardsStayDeleted`, `GrantsAreSound`, `DefaultIsKept`, `BlockedOnlyWhenPastDue`, `ErasureInvariant`, `GateIsSound`, `IndexMatchesDocument`, `SweptKeysAreUnused`, `ResumeKeepsProgress`, `RequiredNodesDominate` | pass, 1,086,258 states |

The combined invariants are conjunctions of named parts:

| Invariant | Parts |
|---|---|
| `StoreInvariant` | `TypeOK`; `VersionsAreNumbered`: no gap, no number twice; `AuditIsExact`: the audit log is exactly the sequence of winners of the compare-and-set |
| `DedupeInvariant` | `TypeOK`; `NewExactlyOnce`: one answer "new" per event; `CacheImpliesRecord`: the cache knows nothing the table does not |
| `SlotInvariant` | `TypeOK`; `CountersMatchWhenQuiet`: between calls the tenant counters equal the assignments, until a command fails or a slot is crossed |
| `CounterInvariant` | `CountersAreConservative`: counters never fall below what the rows owe; `CountersAgreeWhenQuiet`: between calls they are equal |
| `BreakerInvariant` | `BreakerIsConsistent`; `ProbesAreBounded`; `OpenIsRecorded` |
| `ErasureInvariant` | `ErasureNeedsTwo`; `ErasedMeansGone`: for a role that sees every row, and for the tables of the cascade; `PinnedRunsStay` |

**Bounds and why they are enough.** The request space of `ticket` has every retry
budget on both sides of every failure count, the degenerate budgets (negative and
zero) and every combination of gate flags; the limit of 20 lies between the
`SuperstepBound` of the base request (19) and that of the largest budgets (22),
so runs on both sides of it are reached. The caps of `budget_caps` make the ticket, the daily and
the monthly pool each the binding one for some reservation, and three reservation
ids let a third call use what two others freed. `budget_ledger` needs two callers
for overlapping settlements, a cap below an existing charge, and a day change for
a daily counter that is missing at the second attempt of the script. The worker
runs have a tenant limit of 1 with two jobs of the same tenant, and two values of
`now`, before and after the starvation threshold; two outside calls are a drain and the release that
follows it, or two releases. Drains by the worker's own thread are left to the theorems, which put no condition on who
drains.

`control_plane`: two operators compete for every compare-and-set and unique constraint;
two snapshots and three revisions allow an activation, another one on top of it and a
rollback, hence a snapshot that cleanup may take. The fault is a lost publication or a
dead listener. Pins, repeated pins and status changes of the run come at any moment. `services`:
for the guard two replicas, a flood limit and a per-minute limit of 1, two suffixes, and a clock that passes every
expiry; the second body of the event has another idempotency key, so the unique constraint and not the cache decides;
threshold 2 with up to 3 failures (a breaker fails again while open or half open), one
probe for two callers; four usages of one hour, over two tenants and two teams, with the whole hour and one
period that ends inside it, and a cutoff between its instants; three administrators, so that an approver may race with
two others; three keys; rows in tables under row level
security, with a trigger or with a binding; two versions of the agreement and a clock that passes both grace periods while a
gate checks; two documents and two jobs on two threads; three
wrapping keys; every set of edges between four nodes and START, cycles included.

`MaxFaults`, `MaxOutside`, `MaxResets`, `MaxDay`, `MaxTime`, `MaxRevision`, `MaxSnapshots`, `MaxVersions`, `MaxFailures`,
`MaxRouteFaults`, `MaxReports`, `MaxAdminTime`, `MaxWrapTime` and `MaxProgress` are the only bounds on counters, and
appear in guards. `CHECK_DEADLOCK FALSE` is used where the system may really stop or the
bounds are used up: a run that was rejected or killed, a ledger or a control plane
whose ids are used up, a queue whose jobs are all in the dead-letter table.

**Fairness.** `FairSpec` of the workflow asks weak fairness of `Progress`: a live
process continues the synchronous call it is in; being killed and calling resume
are never forced. `FairSpec` of the controller asks weak fairness of each caller's
`Works`: a thread continues its call, or asks for the next job, and Redis answers; nobody has to drain and no job has
to end, so `QueueIsServed` promises that a job runs, not that all of them do. `FairSpec` of the control
plane asks weak fairness of an operator's next statement within a call, of a thread's
resolve (it finishes the one it is in and resolves again for the next run), of the
listener and of the passing of the cache's time-to-live; no operator is obliged to
start a call. None assumes that an external
service answers favourably.

**Disagreements between code and documentation.** The six violated runs are
listed as findings in `PROJECT.json` with the sentence they contradict. The
conditions in the other properties are there because the code does not give more;
dropping one, or changing the constants, shows:

Budgets, workers, workflow:

* `CountersAgreeWhenQuiet` fails after a death between the Lua grant and the row
  (`faults > 0`): no row names the amount, so no sweep can return it. It fails after
  a Redis reset (`resets > 0`): the INCRBY of a refund recreates the counter from
  zero, and `_ensure_counters` then finds it in place.
* `NoOverspend` fails with `UnitsPerCent = 4` and amounts of 1: less than half a
  cent costs the counters nothing.
* Nothing repeats the draining check after `assign` has passed it: a drain by another replica in between gives a draining
  worker a job (run `worker_drain_race`). With two faults the check itself can miss a drain: the process that began
  it dies and its local set with it, the lease expires, and an `assign` whose SMEMBERS fails falls back to the empty local set.
* `SlotInvariant`, `LimitHolds` and `JobRunsOnce` need `~crossed`: a replica that drained a worker keeps the job in its local
  cache, which `_get_active_job` prefers; its release, after the worker has gone on to another job, deletes that
  job's entry and queues the old one again although it may run elsewhere.
* They also need `faults = 0`: an INCRBY that fails after its
  HSET leaves a hash entry whose release decrements a counter that was never
  incremented, and puts a job back that is queued already.
* `QueueIsServed` fails after one process death: its tenant's slot stays taken.
* An oversized diff is looked at after the review, in `_pre_pr_sync` (run `ticket_oversized`).
  `OutcomeMatchesRequest` says only that such a run is escalated with a reason and its sink.
* A custom sink mapping that passes validation can leave a run paused with no
  sink (`runtime/workflow.py:384-387`, `branch_protection_missing`: the reason becomes `missing_escalation_sink`), where
  `openspec/specs/autonomous-ticket-flow/spec.md:22` maps "every terminal failure to an explicit escalation reason and
  sink". `OutcomeMatchesRequest` asks for the sink of missing branch protection when the mapping names one.

Control plane and configuration:

* A thread that loaded before an activation and stores after its invalidation serves
  the old handlers until the time-to-live ends (`cache.raced`), and so does a replica whose
  listener died. `openspec/specs/agent-configuration-governance/spec.md:50` says a process "never serves
  runs from a stale snapshot"; `CoherentWhenQuiet` and `ReplicaCatchesUp` state what holds.
* `pin_run_snapshot` (`persistence/control_plane.py:313-327`) updates an existing binding, so a second call moves a run in
  flight to another snapshot; `openspec/specs/config-versioning-and-rollback/spec.md:17` says "active or paused runs keep
  their pinned snapshot". Activations and rollbacks move no run, and a pin names a snapshot that was active
  once: this is what `ImplementsHistory` states.
* The foreign key on `supersedes` makes a cleanup fail as a whole when one retired snapshot
  is named as a predecessor by another one; the predecessor is read before the
  compare-and-set.
* The graph validator looks at paths without repeated nodes: a repository-writing node
  reachable before the gate only through a cycle (START, a, w, a, gate) is not seen.
  `RequiredNodesDominate` states what it does guarantee.

Webhooks:

* `webhook/admin.py:66` stores the hash of the new secret as `previous_secret_hash`, and
  `persistence/webhook.py:498-501` uses it as the previous secret: signatures with the old secret
  are rejected during the overlap that the specification
  `webhook-and-api-protection/spec.md` (lines 68-74) asks for.
* Two Redis script calls of one second can draw the same member (`collided`): the second
  request is not counted.

Routing and metering:

* When the event row of a granted probe cannot be inserted, the probe is lost and the
  breaker stays half open without probes until an operator or the expiry acts. A late
  success closes an open breaker.
* A build that read its facts before another one wrote takes facts out of a roll-up
  again (`overtaken`), and so does a period that ends inside an hour. `rollup_id` omits the
  tenant: without row level security two tenants share a row, and the erasure of one removes the usage of the other.
* A retention run deletes facts and keeps the roll-ups; rebuilding the hour then removes the usage. A build that
  read before an erasure writes the erased usage back. `RollupsFollowFacts` names all of these as the only
  ways in which a roll-up departs from the facts.

Credentials:

* An approval that read the row before the second one wrote it overwrites both and ends a
  grant in force (`outdated`). Approve does not look at the expiry.
* Overlapping rotations leave two default keys (`kekOverlap`), and a retired key may be the
  default. The schedule's route only inserts, so an overdue credential stays overdue.

Compliance:

* No route sets the session's tenant: for a role under row level security an erasure
  deletes nothing and the event is still marked completed (`rlsBypassed`).
* A pinned run's binding fails the erasure of its tenant. An approval read before the completion and written after it
  reopens a completed event. An enforced audit
  policy fails on the append-only trigger as soon as there is a row to delete.
* Retention runs do not filter by tenant (`compliance/admin.py:514-531`): the policy of one tenant deletes rows of all, against
  `openspec/specs/durable-persistence-backbone/spec.md:51`, "parameterise every query with it". The model has this
  behaviour; no property excuses it.
* Publishing a new agreement opens the gate of a blocked tenant for another grace period.
* A delivery whose body has no readable `tenant_id` is never blocked. A check during which a version is published or the
  acknowledgement arrives may refuse a tenant that the status route never called blocked; `GateIsSound` states what holds.

Knowledge:

* Two runs on one document (`contended`) can leave a completed job without chunks or a document
  with two sets, and an update that overlaps a deletion stores the document again.

## 4. Proofs

Every safety property of a passing run, invariant, action property or refinement, is also a theorem
(`PROJECT.json` lists them): TLC shows it on the instance of section 3, TLAPS for every value of the
constants. Each rests on an inductive invariant that was first checked with TLC, and its preservation
proof has one step or lemma per action.

**Assumptions.** The named ASSUMEs on constants: requests are well-typed records, amounts and
bounds are naturals, a null value (`None`, `Nobody`, `"nobody"`, `Unlocked`) is no member of the set it stands
outside of, the sets that are counted or summed over are finite (workers, processes, reservation ids, nodes). They
bound neither the sets nor the numbers. Two conditions describe use rather than type:

* `OneThreadPerWorker` (`WorkerController`): a worker's jobs are fetched by one thread. Who drains or releases a worker
  is not restricted.
* `PlainUse` is the hypothesis of `CapsHold` and `CountersCorrect`: callers settle what they reserved and one
  sweeper releases what a dead caller left, caps are not changed meanwhile, Redis keeps its keys, one day,
  and amounts in whole cents. The instance of `budget_caps` satisfies it. Each part is needed: section 3
  (runs `budget_reconcile_race` and `budget_release_race`, sub-cent amounts) has a counterexample
  for an administrator, a lost key, an uncoordinated release and a fraction of a cent; after a day change a settlement
  credits another daily counter than the one its reservation was taken from.

`TicketWorkflowProofs`:

* `TypeCorrect`: `Spec => []TypeOK`.
* `OutcomeCorrect`: `Spec => []OutcomeMatchesRequest`. The property is not inductive:
  it speaks only of END. The invariant `Inv` adds `WithinBudgets` (each loop counter
  stays within its budget and within the number of failures the request asks
  for), `GatesPassed` (a scheduled node implies that every earlier gate is passable
  for this request, and the flags it set) and `Decided` (a run on its way to
  `escalate` carries the first obstacle's reason and node).
* `RetriesBounded`: `Spec => []RetriesAreBounded`, from the same invariant and a
  potential argument: the visits so far are paid for by the loop counters and the
  position in the graph.
* `SuccessPathProtected`: `Spec => []ProtectedSuccessPath`. The invariant follows the visited sequence: its last
  nodes are determined by the node scheduled next, and the readiness gate precedes every coder.
* `StoredRowTerminal`: `Spec => StoredRowIsTerminal`, an action property.

`BudgetLedgerProofs`:

* `LedgerCorrect`: `Spec => []LedgerConsistent`, and `ChargesAreFinal`:
  `Spec => ChargeIsFinal`, for any number of processes, ids, days, faults and resets.
  `Inv` adds `CallsRemember` (what a settlement or release read from a row is still
  true of its immutable part) and `OwnIds` (a drawn id belongs to one call), without
  which a denial or an insert could hit another call's row.
* `LedgerTyped`: `Spec => []TypeOK`, in the same generality: no script, credit, reconcile or reset leaves
  a negative counter. A reconcile writes a sum over rows, so this needs that the sums are naturals.
* `CapsHold`: `Spec => []NoOverspend`, and `CountersCorrect`: `Spec => []CounterInvariant`, under `PlainUse`.
  Neither says where a cent is between a Lua grant and its row, or while a credit goes from counter to
  counter. `Balanced` does: for each counter key, what the counter offers, what calls under way hold
  (`Held`), the active reservations and the charges add up to the cap, exactly until the first fault and at most
  to the cap afterwards. `Secure` says that the row of a settlement or release belongs to that call
  alone and that a credit has a suffix of the three keys left.
  The sums of the model are folds. `Total` is their recursive function; lemmas show that it exists, that one
  summand may be taken out (`TotalWithout`) or changed (`TotalChange`), and that the SUM queries are such totals.
  Instead of an induction theorem they use `SmallestSet`: a set of finite sets that break a claim
  has a member none of whose one-smaller subsets breaks it.

`WorkerControllerProofs`, for any number of replicas, threads, workers, jobs, tenants and faults:

* `JobsAreKept`: `[]NoJobIsLost`, from `Calls` (what a call at each command knows of the worker and
  the job it works on) and `Kept` (every job is queued, running, in the hands of a call, or has a dead letter).
* `SlotsAreCounted`: `[]SlotInvariant`; `LimitIsKept`: `[]LimitHolds`; `JobsRunOnce`: `[]JobRunsOnce`. While no command has
  failed and no slot was crossed, `Apart` says that one call at a time works on a worker, `Slots`, `Caches` and `Exclusive` which hash entries
  calls have still to write or remove and which cached jobs may differ from them, and `Counters` that a
  tenant's counter is the number of workers counted for it at this moment, the half-done calls included; `Room`
  keeps the slot of a call that has passed the limit check while no two assigns overlap.

`ControlPlaneProofs`, for any number of operators, threads and runs:

* `StoreCorrect`: `[]StoreInvariant`; `CleanupKeepsReferences`: `[]ReferencesSurvive`. `StoreInv` adds `Numbered` (the number a
  creation has read is at most one ahead of the rows), `FreshIds` (the id of an open activation names nothing
  yet and is its own) and `References` (every binding, and the predecessor of a snapshot about to be
  committed, is stored), without which a stale cleanup could delete it.
* `RegistryCoherent`: `[]CoherentWhenQuiet`. `Coherence`: whoever holds an old snapshot, in the cache or about to store
  it there, has an announcement ahead of it.
* `StoreImplementsHistory`: `Spec => ImplementsHistory`, the refinement, step by step.

`WebhookGuardProofs`, for any number of replicas, deliveries and limits:

* `DedupeCorrect`: `[]DedupeInvariant`. `Dedupe` covers the time between the insert and the answer: at most one replica stands
  there for an event, and until a fault it does answer.
* `FloodLimitCorrect`: `[]FloodLimitHolds`. `Flood`: the sorted set has one member for every request that passed
  in the last window, unless a fault or a collision happened, and no more than the limit.
* `GuardImplementsInbox`: `Spec => ImplementsInbox`, the refinement.

`CredentialAdminProofs`: `GrantsSound` (what two approver columns may hold, on a row or in a request that has
read it), `DefaultKept` (`OneRotation`: until rotations overlap, every default has been seen by the rotation
under way), `NeverBlockedEarly`.

`ComplianceAdminProofs`: `ErasureCorrect` (approvers in a row or in a request
that has read it have consented; an execution knows what was there before it; only runs are pinned). `GateCorrect`:
`[]GateIsSound`. `GateInv` follows a check from read to
read: until the check has seen a moment at which the tenant was not blocked, and likewise until something it reads has
changed, the version it holds is the latest and not acknowledged, so the clock decides as the status route would.

`ServiceProofs`:

* `CardsStayDeleted`; `ResumeSafe` (`LockHeld`: what a resume has read is the row until it writes); `SweptUnused` (an
  envelope was issued while its key was active, and no key in use has been passed over).
* `BreakersCorrect`: `[]BreakerInvariant`. `OpenIsReported`: an open breaker is in the event log, or the call that opened it
  is about to write it there.
* `RollupsFollow`: `MeteringSpec => RollupsFollowFacts`. `RowIsSound`: a row names recorded or deleted usage of its own id.
  `ReadIsSound` and `ReadIsComplete`: until another build writes or facts are deleted, what a build has read is on record
  and contains all that a row names of its tenant and period.
* `IndexCorrect`: `[]IndexMatchesDocument`. `DocumentKept`: without contention one thread works on a document, and how far it
  has come determines which chunks are there.
* `GateDominates`: `GraphSpec => []RequiredNodesDominate`, for every finite set of nodes. The validator looks at
  paths without repeated nodes, the reference at reachability with cycles. A walk that avoids a node is
  shortened to a path that avoids it (`WayGoesOn`), the path is no longer than there are nodes
  (`WayIsShort`), and a path reaches a node a step (`WayIsReached`). That the recursive function of `Avoiding` exists
  is proved too (`SpreadExists`), with `SmallestNumber` in the place of an induction theorem.

**Only model-checked**: liveness (`RunReachesRepository`, `QueueIsServed`, `ReplicaCatchesUp`), which is
out of the provers' reach, and the six violated runs. The dispatcher's choice is used in proofs only as
far as it returns one of the jobs it was offered.

## 5. Plan

1. Refinement: `BudgetLedger` under `PlainUse` implements an abstract budget pool; `Balanced` is its mapping.
2. The converse of `GateDominates` for writers: which graphs with a repository-writing node before the gate the
   validator does refuse.
3. `CapsHold` across a day change, for the ticket and the monthly pool, which do not depend on the day.

### Not modelled

* Decisions on one request or on figures that are handed in: authentication, prompt
  safety, sandbox policy, supply-chain admission, release gates, SLOs, the agent
  configuration validator, retention evaluation. They keep no state that steps of
  different actors share.
* `ShadowWebhookGuard`, which asks two guards and returns the legacy answer; the rule by which a shadow report
  blocks an activation is part of `ControlPlane`.
* GitHub onboarding and the flag routes: stubs that store nothing; their repositories are
  protocols without an implementation.
* Read-only queries (retrieval, exports, listings), telemetry, API headers, adapter
  wiring, the frontend and deployment files.
* Three hazards of modelled code: the rounding of sub-cent amounts
  (`persistence/governance.py:1585`) and the daily counter of a reservation that is settled on the
  next day (line 659) move cents between counters by design; a dictionary that changes
  size while a thread iterates over it (`knowledge/service.py`) raises an exception the model
  leaves out.
