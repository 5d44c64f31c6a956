# Verification of the ProfitEngine

ProfitEngine is a collection of automation services: job control planes, delivery
to outside services, publishing pipelines, and a dozen daemons, requests and
scheduled scripts that each keep a table of work.  What can go wrong in them in
ways a test hardly reaches is their *control*: who may run a job, what a worker
that dies leaves behind, what is retried, and what must be done once and not be
lost.  This directory holds TLA+ models of that control, the TLC configurations
that check them on small instances, and proofs that TLAPS checks for every
instance.

Contents: 1 the system; 2 MonetizeOS; 3 FYE; 4 Revenue-OS delivery; 5 the mesh;
6 the content pipeline; 7 the services; 8 what the runs check; 9 what is proved;
10 where code and documents differ; 11 what is not modelled; 12 plan.

## 1. The system

| Component | Source (under `src/`) | State it keeps | Operations | Module |
|---|---|---|---|---|
| Task store of MonetizeOS | `runtime/monetizeos/store.py`, `states.py` | SQLite rows: Director lease with fencing token, tasks, dependency edges, attempts, incidents, cost events | acquire and release the Director lease, create, claim (with the sweep of ended leases), report, accept, reject, fail, cancel | `MonetizeStore` |
| Director and command line of MonetizeOS | `runtime/monetizeos/director.py`, `contracts.py`, `scripts/monetizeos.py` | a process: its token, the task it claimed, where in `run_once` it is | run, enqueue, cancel | `MonetizeDirector` |
| FYE job control plane | `runtime/fye/jobs.py`, `dispatch.py`, `publish.py`, `scripts/fye_*.py`, `POST /fye/run` of `runtime/api.py` | a JSON file per job and root: status, lease, artifacts, post id | create, approve, enqueue, claim, transition, record, expire, publish, look up, reconcile | `FyeJobs`, `FyeControl` |
| Controlled delivery of Revenue-OS | `lib/revenue-os/execution-control.mjs`, `safe-delivery.mjs` | leases, execution records, used nonces, circuits | runOnce, verify and spend an approval, circuit, deliver | `RevenueStore`, `RevenueDelivery` |
| Mesh (G-MAOS) | `runtime/gmaos/` | priority queue, worker pool, task rows, breaker, snapshots, dead letters | submit, execute with retries, drain, stop, restart | `MeshBreaker`, `Mesh`, `TaskService` |
| Content pipeline | `.github/workflows/daily-content.yml`, `scripts/publish_article.py`, `publish_scheduled_article.py`, `indexnow_pending.py`, `syndicate_blog.py`, `app/api/content-sync` | posts, copies on channels, topic queue, pending notifications, post map | daily and weekly runs, self-heal | `Content` |
| 24 services that keep a table of work | section 7 | | | one module each, composed by `Services` |
| The rest | section 11 | | | not modelled |

How they interact.  The Director is the only caller of the store's fenced
operations; workers are the same processes under a worker name.  Processes of the
command line share nothing but the store's SQLite file, and every mutation is one
`BEGIN IMMEDIATE` transaction.  FYE shares nothing with it: a worker of the Actions
workflow fills a fresh root, and the publisher learns of it from the events the
worker sent to Command OS.  The process mesh and the passive-income cycles use the
circuits and the delivery of Revenue-OS.  The other services share no state
with each other, only vendors (Stripe, Resend, Telegram, the channels), each behind
an account of its own.

What is hard, by component:

- *MonetizeOS*: a stale Director acting after a takeover; leases that end while
  the worker still works; a task run more often than its budget, dead-lettered
  twice, resurrected, started before its dependencies, or forgotten; a verdict
  read in one transaction and used in the next.
- *FYE*: a lease written separately from the state; a second worker that fails the
  job of the first; events of a runner that are lost, late or of another attempt; a
  publication whose outcome is unknown must not be repeated.
- *Revenue-OS*: a lease that ends during the execution, approvals spent by failed
  deliveries, circuits updated by read-modify-write, probes that never report.
- *Mesh*: one probe of a half-open breaker; a watchdog thread that puts dead
  letters on the queue of the event loop; rows written before and after the work.
- *Content*: runs that meet, services that fail or answer too late, guards that fail
  open or closed, queues that are saved after a failed read.
- *Services*: work fetched without being claimed; a read in one operation and its use
  in the next; the effect on the vendor and its record in two steps, with a crash or a
  lost answer between them; listings that fail and count as empty.

`PROJECT.json` lists every hazard at its line with the properties that catch it.

## 2. MonetizeOS: MonetizeStore, MonetizeDirector

One action per transaction of `store.py`.  A transaction that raises is rolled
back, so it is a step that is not enabled.

| Model | Code |
|---|---|
| `holder`, `fencing`, `dirLive` | the `directors` row; `holder = NoOne` when there is none |
| `token[d]` | `Director.fencing` of the Director object `d` |
| `state`, `owner`, `leaseOver`, `cancelReq`, `due` | columns of `tasks`; a deadline is the flag "it has passed", since the code only compares it with now |
| `attempts[t]` | the rows of `attempts`, in order: open, the status of the report that closed it, or failed/cancelled when no report did; its length is the column `attempt` |
| `deadLetters[t]`, `costs[t]` | rows of `incidents` (kind dead_letter) and `cost_events` |
| `orphaned` | auxiliary, not in the code: the Directors that still carry a token although the lease row was deleted under them |
| `Claim`, `ClaimNothing` | `claim` with the whole `_sweep` in the same step: ended leases are retried, cancelled or dead-lettered, dependents blocked, retries that are due made ready, then the most urgent ready task leased |
| `FailTx` | `_fail_common` |
| `Unblocked` | `_unblock_dependents`, with the JOIN that skips dependencies that have no row |
| `unseen[t]` | auxiliary: the dependencies of `t` that had no row when the JOIN released it |

The callers are free: any Director may use the token it last received, any
worker may submit for a task leased under its name, any deadline may pass at any
time.  Contracts are enqueued in any order, also before what they depend on: a
task may then be started without a dependency the JOIN did not see, which
`DependenciesCompleted` excepts through `unseen` (section 10).  The program sweeps all projects at once; the model has one
project.  `MaxFencing` bounds the tokens that are explored.

Contracts are valid (`TaskContract.validate`), and a second `create_task` under a
key that is in use changes nothing, whether it returns the task or raises.

### The processes

`MonetizeDirector` extends the store with processes of `scripts/monetizeos.py`.
`run_once` is not atomic, so each of its transactions and reads is a step of its
own; between two steps other processes move, the process crashes, the Director
lease or the worker lease ends.  The exception handler of `run_once` is
`HandleException`; an exception that nothing catches ends the process with its
lease still held (`Die`).  A handler ends in a report that completes, does not,
is invalid or leaves the contract's scope, or in an exception (it raised, died, or
was killed at its deadline).  The `--worker` name is a parameter: the default is
the same for every process.

Bounds: `MaxCycles` cycles per process (it is the `--max-cycles` option; the
processes are started again without limit), `MaxFaults` crashes and Director
leases that end under a living process.  Each contract is enqueued and each task
cancelled by one command.  `MaxFencing` is never reached (`ProcTypeOK` says so of the run).

## 3. FyeJobs, FyeControl: the Faceless YouTube Engine

`FyeJobs` is the job file.  Every method of `FyeJobStore` that holds the file
lock is one step on `job[r]`, the record under root `r`; a method that writes
twice (`claim`, `record_publish`) has a torn form for a crash in between.
`FyeControl` extends it with the processes, each a program counter.

| Model | Code |
|---|---|
| `job[r]` | `jobs/<id>.json` under one `FYE_ROOT`: the control plane's, or a runner's |
| `Transitions`, `Moved` | `_TRANSITIONS`, `_transition_locked` |
| `released` in the record | moves out of PUBLISHING other than to PUBLISHED, which the code keeps in `history` |
| `ledger` | the `fye.job_event` records of Command OS, oldest first |
| `posts` | what the channel has published for the job; it is not part of the program |
| `first`, `todo`, `left`, `result` | locals of `fye_publish.main`, `reconcile_job` and `publish_job` |
| `WorkerStart` ... `FailJob` | `fye_worker.main` in order: verify, skip a finished job, approve and enqueue, claim, RENDERING, event, render, artifact, READY, event, and its handler of errors |
| `PublishStart` ... `Reread` | `fye_publish.main` reads the job and reconciles it: an event becomes a list of store calls, the job is read again, and the next event is taken |
| `Decide`, `OpenPublish`, `Begin`, `CallChannel`, `Refused`, `Record` | the decision to publish, and `publish_job` |

Abstractions.  There is one job id.  A deadline is the flag "it has passed".
Payload hashes and the approvals Command OS holds appear as the choice to refuse
(`Verify`, `Decide`); the ledger may lose any event and may be unreachable.  An
artifact is identified by the worker that made it.  Steps that touch nothing
shared are merged with the next one that does, and the end of a render with its
transition to QA.  CANCELLED is in the graph and has no caller.
`POST /fye/run` puts a request through the worker's gate first: one that is refused
leaves the mark EXPIRED at most (`RunRefused`), one that passes starts a worker, on the host (`HostStart`) or on a runner (`DispatchFyeGha`).

Bounds: `MaxStarts` processes started, `MaxEvents` events kept by the ledger,
`MaxRequeues` re-queues by the operator, `MaxFaults` deaths and deadlines.
`MaxAttempts` is the code's own `cfg.max_attempts`.  No fairness is assumed: all
properties are about safety.

## 4. RevenueStore, RevenueDelivery: approved deliveries

`RevenueStore` is the execution-control store, with one operator per method and
one circuit.  `RevenueDelivery` is `executeControlledDelivery` on it: every await on
the store or the adapter is a step of the call that makes it, and `pc` names the
await a call is at, in the order of the code.

| Model | Code |
|---|---|
| `Call` | one call of `executeControlledDelivery`, with the owner uuids it draws |
| `Delivery` | an idempotency key: lane, resource and payload digest |
| `durable` | which store is used, chosen at the start: MongoDB or in memory |
| `lease`, `record`, `nonces`, `circuit` | the collections of those names; the record is its status |
| `read` ... `mark`, `complete`, `fail`, `release` | `runOnce` |
| `spend` | the insert of the nonce; the signature and `exp` are verified when the await before it returns |
| `circuit` ... `halfopen` | `beforeCircuitCall` and `acquireHalfOpenProbe` |
| `close`, `freeClosed`; `count`, `open`, `freeOpen` | `recordCircuitSuccess`; `recordCircuitFailure` |
| `seen`, `probe` | the circuit document a call has read, and its `circuit.probeOwner`, kept while they are used |
| `posted` | external writes done; the service is outside the program, so a failed call may have written |

The two stores differ in one method.  `putCircuit` of a document that was read
(`Reopen`, `HalfOpen`) succeeds in memory; MongoDB refuses it, because the document
brings `createdAt` into `$set` beside `$setOnInsert` (`PutsReadState`).  The other
calls of `putCircuit` and `putIdempotency` write fresh objects.

Faults.  On MongoDB a request may be lost, or done and its answer lost
(`StoreFails`, with the handler the exception reaches), and a process may end
(`Die`).  The in-memory store lives and dies with its one process, so it has
neither.  Deadlines are flags: the lease of a delivery, approvals, the probe
lease (which ends together with `probeUntil`, computed from the same instant) and
the reset time of the circuit.  Once an approval has expired the TTL index may
remove its nonce, even with the insert of a call that verified it earlier still under way.

Left out: prepared deliveries (a frozen copy of the payload, inserted once),
budgets, tokens that do not verify, and deliveries to other resources, whose
circuits are separate.  Bounds: `MaxFaults`, `MaxLapses` (deadlines that pass);
`Carried` fixes which calls hold which approvals.  The run's `Threshold` is 1, so
that a circuit opens, half-opens and closes within three calls.

## 5. MeshBreaker, Mesh, TaskService: the mesh

`MeshBreaker` has the breaker's methods as functions from a value to a value: each
holds the breaker's lock.  `Mesh` composes it with the queue, the pool, the executor,
the task table and the watchdog.  The event loop runs one coroutine between two
awaits, so a step of an execution is what it does from one await to the next; the
watchdog is a thread, and each of its calls is a step.

| Model | Code |
|---|---|
| `queue` | `PriorityQueue`, a heap of at most three entries, `bare` when the task is not wrapped in a `PrioritizedTask` |
| `Take`, `Run`, `Step`, `Fire` | the worker loop, a caller that executes directly, the executor from await to await, a submission to the pool |
| `DrainRead`, `DrainPut`, `DrainGivesUp`, `LatePut`, `DrainSave`, `Prune` | `_drain_dlq` and the pruning of the watchdog: a put is scheduled on the loop, waited for, given up on, and may still happen |
| `Raise` | an exception out of the executor: of the store, the distillation, an output that is no text, a row or snapshot that cannot be written |
| `Leave`, `Stop`, `Restart` | a worker that returns once the mesh was stopped, `stop`, a process that is started again |
| `probe`, `unsaved` | auxiliary: the task whose call spent the half-open probe; the tasks that were queued although their `submit` raised |
| `idle`, `ended`, `Executing` | what each worker of the pool is at |

`_execute_with_retry` catches the timeout and nothing else, and `_worker` runs it under
try/finally.  So an execution that raises (`Raise`, from any of its awaits on) is at
"raised" for good: nothing more is reported to the breaker, the row stays as it was, and
the worker, if it ran on one, has ended (`ended`) after its `task_done`.  What raises between
`allow` and the report leaves a spent probe behind; after `record_failure` only the row is
missing.  `Fire` and `DrainSave` may raise too: the entry is then on the queue and its row
not written.  In the refinement such a task is lost.  `Mesh.run` gathers its calls, so
one that raises also keeps the answers of its batch from the caller; each call
goes on by itself, which is what the model has.

`TaskService` is the abstract specification: a task is accepted once and has one
outcome, for ever; a fault may lose accepted tasks.  `Mesh` implements it under
the mapping `ImplementsService` names (an outcome is read off the place of a task's
execution), which TLC checks and TLAPS proves.  All tasks have one priority and call
one agent; a task is submitted once; a mesh that was stopped is not started
again within its process.  The vote of `consensus.py` is left out: with the default
threshold 0.67 two agents of three are no quorum, which is arithmetic.

Fairness: `Take` and each task's `Step`, since the event loop runs what is ready.  The
fairness of `Step` asks for some step of the execution, not for its success: a behaviour in
which executions raise is fair, and `EveryTaskEnds` says what is left of the promise then
(a queued task is taken unless every worker has ended).

## 6. Content: the content pipeline

The daily workflow with the two publishers it runs, the queue of search engine
notifications, the weekly syndication and the topic queue.  One daily run is under way
at a time, which is what its concurrency group grants; weekly runs have none and
interleave with it and with each other at every call of a service.  A call may
fail, or take effect with its answer lost, and a job may be killed.  A slug stands
for one draft that the language model makes of a topic; drafts of one topic overlap
in the sense of the duplicate guard, those of two topics do not.

The operator may put any topic on the queue at any time (`Queue`), also one that waits
there already or has a post: the route inserts it and looks at neither.  `again` is
auxiliary: the waiting topics that were queued in one of these two ways, or stood twice in
the queue that a behaviour began with (`Queues`).

Bounds: two days, two daily runs and one weekly, one topic that waits and one request
(`MaxRequests`, before the last run is under way: what comes later finds no run to serve
it), which queues the same topic, while it waits or after its post, or the other; one fault
(`MaxFaults`).  One fault
gives each of the auxiliary conditions the properties name (`blind`, `unread`,
`stopped`), and two runs give the second that meets what the first left.  No
fairness: the workflows are started by a scheduler outside.

## 7. The services

Each of these modules follows one service, and `Services` composes them: it picks one
in its first state and then takes that one's steps, since no two share state (a product
of all would multiply the states and show nothing more).  All answer the same three
questions.  `TypeOK`: the tables hold what the code may write, and the bookkeeping is
consistent.  `EffectsOnce`: no effect on the outside is repeated, but for the
reasons the module names.  `NothingLost`: what was accepted is pending, or done as
recorded, or kept as a dead letter, but for the reasons the module names.  The
reasons are auxiliary variables (a lost answer, requests that were under way at
once, a process that was killed), so each property says under exactly which
circumstances the code breaks the promise; where it does without any fault, section 10
tells.  `EveryItemSettles`, the fourth, is asked of the two daemons.

A step is one operation of the database, one call of a vendor, or what a coroutine
does between two awaits; a transaction is one step.  A call of a vendor has three
outcomes: done and answered, refused, and done with the answer lost.

| Module | Models | May be repeated only after | May be lost only after |
|---|---|---|---|
| `PaymentMesh` | `pipeline/mesh_engine.py` | a session: Stripe dropped the key; a webhook: a delivery that was not recorded, or two cycles overlapped | a letter that was not written, or overlapping cycles |
| `Eaos` | `runtime/eaos/cluster_master.py`, its social lane | an outcome unrecorded, or a post cached twice | the process ended between retry and dead letter |
| `EdgeFailover` | `runtime/edge_failover.py`, `enterprise_mesh.py` | ingested again, result not saved, or two commands met | ingested while a command had the event |
| `Outreach` | `lib/outreach/` | a mail whose outcome was not written; crossing requests | the same |
| `Newsletter` | `lib/newsletter-business/`, `app/api/newsletter/publish` | the audience changed between two attempts, or Resend dropped a key | a subscribe request that read before another change and wrote after it |
| `ProofPublish` | `backend/services/proof_publisher.py`, its requests | two callers at once | a caller cut off, or a job that was there before |
| `Checkout` | `backend/services/launch_router.py`, `app/api/launch/webhook`, `app/api/checkout` | two requests about one session at once | a request cut off where nothing repeats it |
| `Distillation` | `execute_agent`, `backend/services/distillation.py` | cycles at once, an entry expired or not stored | an interrupted cycle |
| `Leads` | `pipeline/revenue_matrix.py`, `outreach_engine.py`, `vp_dashboard.py` | once for each run; a lead closed twice | an operation failed, or a win during the outreach |
| `Opportunities` | `runtime/opportunity_intelligence.py`, `daily_command_producer.py` | overlapping outcomes, or one cut off | stored more than once, or a post lost |
| `Experiments` | `runtime/growth_experiments.py` | overlapping commands (creation never) | overlapping commands |
| `Hypervisor` | `runtime/hypervisor/hypervisor.py` | overlapping runs | a transaction that raised, or overlapping runs |
| `Swarm` | `runtime/swarm_engine.py` | the sandbox was lost after it executed | the channel switched off, or the sandbox raised |
| `ProcessMesh` | `lib/revenue-os/intelligent-process-mesh.mjs` | (the circuit trips as often as it should) | the store raised |
| `PassiveIncome` | `passive-income-engine.mjs`, `passive-income-supervisor.mjs` | the answer to the first was lost; never while writes are off | the store, or a post of a direct cycle, raised |
| `Rendering` | `runtime/fye/orchestrator.py`, `journal.py`, `runtime/eaos/video_engine.py` | scenes of another: the fallback engine, or an ffmpeg that outlived its render | a render that was ended |
| `Execution` | `runtime/sovereign_core.py`, `api.py`, `approval_gate.py`, `memory_commit.py` | an answer not stored or past its time | two calls met at the gate, or one died while it wrote |
| `Dashboard` | `backend/server.py`, `services/ws_hub.py` | overlapping requests | a request cut off |
| `Bids` | `ah-pos/backend` | (imports can be repeated) | a high-priority solicitation, or a key another run wrote |
| `Shorts` | `autonomous-video-production.yml` and its seven scripts | lost answers, runs cut off | a program that could not be filmed |
| `Issues` | `make_daily_digest.py`, `make_newsletter.py`, `resend_newsletter.py`, `daily_digest.py`, `gumroad_buyers_to_beehiiv.py` | a fault, or runs that waited or met | runs that failed, two audiences made at once |
| `Training` | `master_distillation/` | a run told to take the lock, or that met it unwritten, or removed its successor | a lock was lost |
| `Storefront` | `runtime/gumroad_client.py`, `eaos/printify_client.py`, `image_factory.py` and the scripts | someone could not see the first, or did not look again | a fault |
| `FrontDesk` | `agents/taylor/`, `runtime/beehiiv_client.py`, `pipeline/smtp_dispatch.py`, `runtime/eaos/social_engine.py` | a call put through before; numbers that crossed; an answer lost, a thread broken off | a fault, a process killed |

Where a module lists several desks (`Issues`, `Training`, `Storefront`,
`FrontDesk`), these share no state and a behaviour follows one of them.

Abstractions common to all.  Texts, prices, scores and pictures are members of small
sets with the relation the code compares them by (`Akin` stories, `Namesake` topics,
grades against `PassMark`); a clock is the flag "it has passed" or a day counter; a
scan of generated code, a quality gate or a model's answer is a choice of its
outcomes; addresses are people.  `FewFaults` is the fault bound of the modules with
the larger state spaces; `HeadStart` lets the second render begin when the first
is at its assembly, where they can meet.  `Wired` says that Daily Command is configured
(`DC_WEBHOOK_URL` and `WEBHOOK_SECRET`); the run has it so, since otherwise nothing is told.

Fairness (`PaymentFairness`, `ClusterFairness`): the daemons begin cycle after cycle,
their coroutines run, time passes, the cluster master is started again by its
supervisor, and the sync daemon, in the behaviours that have one, drains every half
minute.  Commands, requests and scheduled workflows have none, and no liveness is
claimed of them.

## 8. What the runs check

| Run | Question | Result |
|---|---|---|
| `MonetizeStore` | Two Directors, two workers, three tasks (the third waits for the others, the first may be retried once, tokens up to 2), any order of calls: types, fencing, leases, retry budget, attempt rows, dead letters, dependencies, terminal states | holds, about 1 150 000 states (the symmetry makes the count vary) |
| `MonetizeDirector` | Two processes over a task and its dependent, one fault: the processes implement the store (`Spec`), accept a task only with a passing report of it on record and book its cost once, and finish every task | holds, 182 798 states, no deadlock |
| `MonetizeStoreStale` | "a stale or crashed supervisor cannot issue work after failover" | does not hold: `release_director` deletes the counter |
| `FyeReconcile` | A local worker, a runner and a publisher that reconciles, one fault: types, READY only with an artifact, what has ended stays | holds, 2 649 480 states |
| `FyePublish` | Two workers and two publishers on one root, two faults: each post beyond the first is accounted for by a release of the publish lease, a published job names its post, a live lease admits one worker | holds, 1 515 128 states |
| `FyePublishRace` | "two concurrent publishers cannot both reach the adapter" | does not hold: a publisher that read READY earlier moves PUBLISHING back to PUBLISH_APPROVED and leases it again |
| `RevenueDelivery` | Three calls over two deliveries to one resource, one fault, two deadlines: a second write needs a call that outlived its lease, lost an answer or died; a completed record stands for a write and is overwritten only then; one executor and one probe in time; a probe that reported does not leave the circuit half-open; a valid approval is spent once | holds, 2 456 830 states |
| `RevenueDeliveryProbe` | "circuit transitions CLOSED to OPEN to HALF_OPEN to CLOSED" | does not hold on MongoDB: the call that gets the probe lease is refused, with no fault, every time |
| `Mesh` | Two tasks, two workers, one retry, one drain, one stop or restart, executions that raise anywhere: types, the pool loses no more workers than executions raised until a drain, the probe of a half-open breaker is under way or accounted for, a row tells the outcome, each task has one outcome (refinement of `TaskService`), a queued task is taken while a worker is left and the mesh runs, every execution ends | holds, 421 036 states |
| `MeshDrain` | "one more chance" for a dead letter | does not hold: the drained entry ends the worker that takes it |
| `Content` | Two days, two daily runs, a weekly run, topics queued at any time, one fault: a green run means a post of the day, posts are distinct, second copies need a mishap, a published URL is announced or pending and its topic is not served again unless it was queued again | holds, 4 626 258 states |
| `Services` | Each of the 24 services: the four questions of section 7 | holds, 740 881 states |

Why these bounds are enough to meet the interesting cases: two Directors give
takeover, renewal after an ended lease and release in every order; two tokens
give a stale one; three tasks give a join, a dependent that is blocked by one
dependency and released by the other; one retry gives a second attempt that
meets what the first left behind.  FYE: three starts give a worker with two
publishers, or a worker, its refused or failed rival and a publisher; one re-queue
gives a second attempt; two events give a runner's RENDERING and its end; two
faults give a death together with a lease or deadline that ends.  Revenue-OS: three
calls give an executor, its successor and a third one that is let in by mistake, or
a failure, a probe and the successor of the probe; two deadlines give a reset time
and a probe that outlives its own.  Mesh: two tasks give a probe and the call that it
keeps out; one drain puts both back, so that each ends a worker and the pool is
empty, and so do two executions that raise; one failure opens the circuit, so that it
opens, lets a probe through and opens again within the attempts of two tasks, and the code's
two successes close it.  Streaks of failures below a larger threshold are left to the
proofs, which are for every threshold.  Services: two of whatever may meet (requests, cycles, runs,
processes), one item where items do not interact and two where they do, and one
or two faults, so that a lost answer can be followed by a retry that meets it.  The
mutants in `PROJECT.json` show that each property fails in its run when the code is
changed in a plausible way.

Fairness.  `DirectorFairness`: the run command is scheduled again and again (the
header of `scripts/monetizeos.py` asks for cron), a process that was started goes on
unless it crashes, and deadlines pass.  The mesh: section 5.  The services: section
7.  No fairness anywhere for commands, requests, faults, or the vendors.

`CHECK_DEADLOCK FALSE` is set where a system really comes to rest: commands that
are over, bounds that are used up.

## 9. What is proved

TLAPS checks the following for every set of Directors, workers and tasks, every
dependency graph, priority and retry limit; for every set of calls, deliveries
and approvals; for every size of the pool of the mesh and every threshold; for every set of
FYE workers, runners and publishers; for every set of slugs, channels, plans and topic
queues; for every set of queries, messages, sessions, events, callers, requests, cycles,
tasks, runs, nodes, calls, people, contracts, items, agents and dashboards of the sixteen
services below; and
for every bound.  The only assumptions are the named ones on the
constants in `MonetizeStore`, `MonetizeDirector`, `RevenueStore`, `RevenueDelivery`,
`MeshBreaker`, `Mesh`, `FyeJobs`, `FyeControl` and `Content`, the hypothesis of `AcceptsNewest`
(worker names of their own), and what `ServicesAssumption` says of the services: that bounds,
events, commands, calls and callers are numbers, the runs of the pipeline and the cycles of the
payment mesh positive ones, those cycles finitely many, and its limits positive; that contracts
are numbered from one, there is an objective, the selected agents are agents of the mesh, and
the requests of the dashboard, which are numbers, and its screens are finitely many.

| Module | Theorem | States |
|---|---|---|
| `MonetizeProofs` | `TypeCorrect` | `Spec => []TypeOK` |
| | `Fencing` | `Spec => []TokenOfHolderOnly` |
| | `Finality` | `Spec => TerminalIsFinal` |
| | `LeasesMatchStates`, `RetriesBounded`, `DeadLetteredOnce`, `NewestRowIsCurrent` | the task invariants of the run `MonetizeStore` |
| | `DependenciesFirst` | `Spec => []DependenciesCompleted`, in whatever order contracts are enqueued |
| | `DirectorImplementsStore` | `DirectorSpec => Spec` |
| | `DirectorInherits` | the store's safety holds of the processes |
| | `ProcTypes` | locals and counters keep their types while the token is under its bound |
| | `AcceptsOnEvidence` | `DirectorSpec => AcceptedOnEvidence` |
| | `AcceptsNewest` | with a worker name of its own for each process, the attempt that is accepted is the newest |
| `RevenueProofs` | `TypeCorrect` | types of the store and of the deliveries |
| | `CompletedStands` | a completed record stands for an external write (`CompletedWasPosted`) |
| | `HoldersInTime` | one executor of a delivery and one probe in time (`OneHolderInTime`) |
| | `SecondWriteNeedsMishap` | a second write needs a late, hurt or dead call (`DuplicatePostNeedsMishap`) |
| | `CompletedRecordsYield` | `Spec => CompletedYields` |
| | `ProbesReport` | a half-open circuit has a probe that has not reported (`ProbeReports`) |
| | `ApprovalsSpentOnce` | `Spec => []ApprovalSpentOnce` |
| `MeshProofs` | `TypeCorrect` | types of the mesh and its breaker |
| | `PoolStands` | every worker of a running mesh waits, executes or has ended, and until a drain put a dead letter back no more have ended than executions raised, and the count of unfinished entries is right (`PoolStandsUntilDrained`) |
| | `ProbesAccounted` | the very call that spent the probe of a half-open breaker is under way, reported a success, was answered from the snapshot, or raised (`ProbeUnderWay`) |
| | `RowsTell` | COMPLETED is written for an answer only, and a task out of retries is a dead letter until it is put back or pruned (`RowTellsOutcome`) |
| | `Refinement` | `Mesh` implements `TaskService` (`ImplementsService`) |
| `FyeProofs` | `Types` | types, and no record counts more attempts than workers were started |
| | `OneWorker` | while no lease has ended on a root, one worker is at work on it (`OneWorkerPerLease`) |
| | `ReadyIsRendered` | READY and what follows it has an artifact on record (`ReadyHasArtifact`) |
| | `EndsAreFinal` | what has ended stays (`EndsStay`) |
| | `PublishedNamesPost` | a published job names a post of the channel (`PublishedHasPost`) |
| | `ExtraPostsReleased` | posts are at most one more than the releases of the publish lease (`ExtraPostNeedsRelease`) |
| `ContentProofs` | `Types` | types, and a run past its guards has an article |
| | `GreenOnPost` | `Spec => []GreenMeansPost` |
| | `PostsDistinct` | two posts of a day or of a topic need a reason (`PostsAreDistinct`) |
| | `CopiesAlone` | a second copy on a channel needs a mishap (`CopiesNeedMishap`) |
| | `PublicationsFollowedUp` | `Spec => []PublicationFollowedUp`, whatever the operator queues and when |
| `ServiceProofs` | `SwarmKeeps`, `OutreachKeeps`, `CheckoutKeeps`, `EdgeKeeps`, `ProofKeeps`, `DistillKeeps`, `EaosKeeps`, `PipeKeeps`, `SaleKeeps` | `TypeOK`, `EffectsOnce` and `NothingLost` of the machine, under its `Init` and `Next` |
| `TradeProofs` | `BidsKeep`, `StorefrontKeeps`, `IncomeKeeps`, `ProcessKeeps`, `NewsletterKeeps`, `ExecutionKeeps`, `DashboardKeeps` | the same of seven more |

The arguments.  *Fencing* is not inductive: a token outlives the lease it was
given for.  `FenceInv` adds that the token of every Director that was not
orphaned is at most the counter of the row, equal only for the holder, and 0
when there is no row.  *The retry budget* needs that a task that waits has used
at most `retry_limit` attempts (`BudgetInv`), and leases, budget and dead letters
are proved together because the sweep decides all three from the lease.
*Dependencies* need that whatever was released, not only what was started, has each
dependency completed or among those its release did not see (`DepInv`), and that completed
tasks stay so.  *Refinement* needs only that
a process has a task and a report where it uses them (`ProcInv`).  *Evidence*: a process
about to accept has seen a completed attempt of its task, attempts are only added to
(`ReadReportInv`), and a task that has not completed has no cost on record, wherever a
process is (`UnbookedInv`).  That the completed attempt is also the newest (`NewestInv`)
needs names of their own: nobody else then submits for a leased task, so between the
submission and the acceptance only a sweep can intervene, which takes the state away.

*Completed records* need that a call on its way to the completed record has written
(`WrittenInv`).  *One holder in time* needs that a call that is
not late holds the lease it works under, and, because a call may release the probe
lease of another, that a probe owner it found in an expired circuit document can
never hold that lease again (`HolderInv`); `CallHolds` says what a step does to the
leases, and the cases of `CallKeepsHolders` rest on it.  *A second write* builds on it:
without a mishap no call executes a delivery whose record is completed, and a call that
has written is on its way to that record or there (`OnceInv`), so the next executor finds it; the action property `CompletedYields` is read off
the same invariant.  *Probes*: the owner of a half-open circuit is at one of the steps
between its half-opening and its report (`ProbeInv`).  *Approvals*: a nonce that a call
spent is in the store until the approval expires (`SpentInv`).

*The mesh* is proved from `IInv`, of six parts.  `QueueInv`: an entry that is wrapped is of a
task that waits for it, and no task has two, so a worker that takes an entry begins
one execution.  `PoolInv`: idle, ended and executing workers are together at most the
pool.  `RowInv` adds to `RowTellsOutcome` that what a drain is about to put or save is a
dead letter, so its write touches no task that is under way.  `CalmInv` adds to
`PoolStandsUntilDrained` that before a drain no entry is bare, which is what ends a
worker.  Each action has a lemma; those of an execution share `StepShape`, which
says what a step may do to the pool, the breaker and the rows.  The breaker's
methods are pure, and their lemmas (`BreakerTypes`, `BreakerHalfOpen`) are cited by
the actions that use them.

*FYE.*  The bound on attempts needs a count: attempts on a root plus the workers started
and not yet admitted are at most the starts (`StartsInv`).  *One worker* needs that the
lease on the record names whoever is at work while it has not ended, through the torn
forms of `claim` (`LeaseInv`).  *Artifacts* need two parts, since a job becomes READY by its
worker or by a reconciliation: a worker past its artifact has recorded it
(`RenderedInv`), and every READY a ledger shows, or a publisher has taken from it and still
has to apply, comes after an artifact (`ShownInv`).  *Published jobs*: a post id that a
publisher is about to record is one the channel has made (`NamedInv`).  *Posts* are counted:
posts plus publishers at the channel are at most the releases, and one more while the job is
PUBLISHING or PUBLISHED (`CallInv`, `Budget`).

*Content.*  `TypeInv` adds to the types that a run that writes or posts has an
article (`HasArticle`) and a weekly run that posts has a channel (`HasChannel`).
`PostsInv` says what a run that has passed a guard may rely on until it writes: its day is free
or the guard read nothing (`DayFree`), its topic is free (`TopicFree`), and a scheduled article
comes from the plan (`Planned`, `Unplanned`).  `CopiesInv`: a run has channels to post to only after
its article was written (`NothingToDo`, `Written`), and none of them holds it yet
(`NotYet`); what a channel holds was published (`CopiesPosted`), what a weekly run has on
its list was too (`OutPosted`), and its channel does not hold it unless it saw so
(`Listed`).  That two runs under way at once have `met` (`Meets`) turns each remaining case
into a mishap.  `FollowInv`: a post that nobody announced is pending or its run is
still under way (`Found`), its topic is off the queue unless it was queued again (`Consumed`), and no other topic
waits twice (`OnceBut`): taking the first entry of a topic then leaves none.

*Services.*  `ServiceProofs` and `TradeProofs` instantiate sixteen of the machines as `Services`
does, and each theorem is about one machine by itself.  `Services` starts the machine it follows in its `Init`
and takes only its steps, so what a machine keeps, the composition keeps while it follows
it.  *Swarm*: a query has not run before its plan is at work, and ran at most once before the
subprocess, unless the sandbox was lost (`SwarmQuery`).  *Outreach*: a message that no two requests had at once is
where its one request left it, and one that is approved, or about to be mailed, has an
approval that no mail spent (`MailAlone`); approvals written and requests about to write one
are together at most the requests (`MailAsked`).  *Checkout*: the one handler
of a session that goes to grant found no subscription (`PaySingle`), a handler that saw the
session paid is right (`PayKnows`), and a row that says paid was granted, or has a handler
that will, or one that was cut off (`PayAgree`).  *Edge failover*: the command of an event that
no two had works on its present payload, and an outcome is of that payload
(`FailoverOwned`); what is staged was not dispatched, or its command is about to save it
(`FailoverFresh`).  *Proof of publication*: the state of a job tells how far its caller has
walked (`ProveAgreed`), and while no two callers were under way at once, one that is about
to insert found nothing (`ProveSingle`).  *Distiller*: what a tier was paid for is in its
cache or about to be stored (`DistillHeld`), and the step of a cycle tells what it paid and
accounted (`DistillKept`).  *Cluster master*: row, execution and effect of a task agree
(`EaosAgreed`); while nothing about it is in doubt, its work is still to be done, or journalled
once and not yet posted, or done (`EaosSingle`).  *Hypervisor*: runs begin in the order of
their numbers, and unless runs overlapped the last one alone is at work (`PipeOrder`,
`PipeAlone`); the journal is right about each agent that returned (`PipeRight`).  *Payment
mesh*: a key that has not expired stands for one session (`SaleKey`); until cycles overlap one
slot works, on rows that are as it read them (`SaleReads`), and what a row says came about
(`SaleTrue`); the dead letters of a row and the slots that still have it are together at most
the slots (`SaleCount`), which bounds the letters whatever overlaps.  *Execution core*: a command
past the memory found none of its like there that had not lapsed (`ExecPast`), what was stored
is a row until it lapses (`ExecKept`), and one call alone is at the gate (`ExecGate`).
*Newsletter*: what a sign-up has read of a person holds until someone else writes (`NewsPerson`);
a publisher has reached all before its place (`NewsPlace`), and while there was one audience and
no key was dropped, who has the issue is whoever a kept key names (`NewsOne`), which needs that
the batches of an audience are its members, each once (`NewsNth`).  *Contracting tools*: how far a run has
come tells what is stored or in its transaction (`BidCame`), and the ids of two open
transactions differ (`BidApart`).  *Shops*: what a push counts or saw is in the shop, and what it
made it had not seen (`ShopPushes`).  *Passive income*: each post has its approval, and is
in the report of its cycle or unanswered (`EarnPost`).  *Process mesh*: the stages before the
present one are done and those after it off (`ProcStage`); the failures on record, or read by
an agent that will write them back, are no more than the agents whose failure was counted (`ProcCircuit`,
`ProcFailed`), which holds although two that count at once count one.  *Dashboard*: where a request
stands tells what it has written (`DashShape`), and who was there when it came was told of it or
still is to be (`DashTold`); two requests of a kind that overlapped are known to have
(`DashMeets`), so decisions that did not are heard in order (`DashOrder`, `DashLate`); and a
position on the waitlist is no more than the joins answered before it (`DashCount`).

Only model-checked: the other eight services, and with them the three invariants of the
composition, `Services!TypeOK`, `EffectsOnce` and `NothingLost`, which speak of all 24 (those
of `Experiments`, `Leads`, `Opportunities`, `Rendering` and `FrontDesk` rest on folds or
on counting over sequences, which is induction over data; and in a module that extends
`Services`, with its 24 instances, the proofs of four machines take more than ten times as
long, so the theorems are stated next to it and not in it); that `MaxFencing` is out of reach, in `ProcTypeOK`, which depends on how many
tasks there are to claim and not on one step; all liveness
(`EveryTaskEnds`, `EveryItemSettles`, the completion of tasks of the mesh), which under fairness
is out of this prover's reach, as are ENABLED and induction over data.

## 10. Where code and documents differ

The four runs that expect a violation state what a document or a comment says; `PROJECT.json` quotes
it under "findings".  Reading the code next to its documents, comments and
tests showed more, which the models contain as the code has it.

*MonetizeOS.*
- A dependency that has no row holds a task back only until another one completes
  (`store.py:427`; the comment at `:286-287` says
  "unknown dep ids also keep the task pending until something creates them").
- The report of an old attempt lands on the running one when both workers have the
  default name (`store.py:452`; `AGENT_OPERATIONS.md:28-29`).
- A cancel flag is never carried out once the running attempt fails (`store.py:531`,
  `:383`; `AGENT_OPERATIONS.md:33-34`).
- A dependent enqueued after its dependency failed stays pending (`store.py:298`).
- `retry_limit` counts retries while `TASK_CONTRACTS.md` calls it the maximum of
  attempts; pending becomes blocked, which the graph in `states.py` does not have; the
  Director lease is renewed after a handler, not while it runs.
- `verify` promises the "latest completion report" (`director.py:145`), but `accept` looks at
  the state and at any completed attempt (`store.py`, `Accept`).  Of several Directors under one
  worker name, one that read a completion may accept the task after another's attempt of it
  ended "blocked"; where every process has a name of its own it cannot (`AcceptsNewest`).

*FYE.*
- A job in PUBLISHING whose deadline passes is never resolved: the deadline
  (`publish.py:93`) is tested before the post is looked up (`:103`), and PUBLISHING has
  no transition to EXPIRED.
- After a runner's FAILED event the walk of `reconcile_job` raises (`dispatch.py:257`), so
  the READY of a later runner never arrives.
- A worker that claims a job again from RENDERING cannot move it to RENDERING and
  fails it (`jobs.py:38` promises a retry after a crash); a worker refused by another's
  lease fails that worker's job.
- A worker whose lease ended records its artifact over that of its successor
  (`jobs.py:342`).
- A channel that posted and returned no id counts as one that "declined before upload"
  (`publish.py:35-40`, `:133`).
- The orchestrator says an unsubmitted approval halts the package (`orchestrator.py:29-30`);
  the package completes.  `compile_master` returns its path when every attempt failed, so an
  older master passes.  Scene clips, `seq.txt` and `captions.srt` have fixed names that
  renders share.  Ending the render's process leaves its ffmpeg running
  (`fye_worker.py:200-203` says otherwise).

*Revenue-OS.*
- Circuit failures are counted by read-modify-write: two at once count once
  (`execution-control.mjs:360`); in the process mesh a success is recorded before its
  envelope is parsed, and a record that raises counts as a failure.
- An agent whose dependency is "blocked" still runs; the guard for missing
  dependencies can never fire.
- A throwing fetch ends the direct cycle without a report after earlier lanes were posted, and
  it has no idempotency key.  A product's payload gets a new random id in each
  cycle, so an inline approval never matches it (`legacyInlineApprovalCompatible: true`).
  `prepared.expiresAt` is a string, so the TTL index never drops it.

*G-MAOS.*
- OPEN promises "no calls to upstream", but a call may wait for the rate limiter after it
  was admitted.  A lone successful probe, or one answered from the snapshot, leaves the breaker
  half-open until an earlier call reports.
- An exception of an execution ends the worker it ran on ("the mesh NEVER goes down",
  `core.py:42`) and nothing starts another; it leaves its row unfinished and, after `allow`, the breaker
  without a report.
- A timeout while the result is saved counts a failure after a success.  A refused
  submission still runs.  `stop` ("Drain queue") does not drain.

*Content.*
- The publisher goes on to the channels when GitHub refused the post; the
  scheduled publisher has no same-day guard; that guard fails open, the duplicate guard closed.
- `load_pending` treats a failed read as an empty queue and the save overwrites it
  (`indexnow_pending.py:6`: a slow deploy "can never lose the notification").
- A publication takes the first matching entry off the topic queue ("so it is not re-served",
  `published/route.ts:76`), so a topic that was queued twice, or again after its post, is
  served once more, with no call failing; the duplicate guard then turns that run red.

*Services.*
- `cluster_master.py:13` "not silently dropped": a crash between the retry counter and the dead
  letter drops.  `run_sync_daemon` is started by nothing, though the header of
  `social_engine.py` says "auto-retries on restore".
- An immediate publish job is created DRAFT and may not become QUEUED, so one with a
  `platform_url` ends in 400 and has no receipt (`server.py:1201`, `proofPublish.ts:81-82`);
  without a unique index "No duplicate content ever published" (`proof_publisher.py:126`) fails
  for requests that cross; so does "Idempotent" at `launch_router.py:312`.
- A failing expensive tier is a completed cycle (`server.py:364` promises a fallback).
- `vp_dashboard.py:241` "idempotent on company_name+phase": `add_lead` always inserts; without a
  webhook a lead is marked sent though nothing was.
- The hypervisor never records DEPLOYMENT_COMPLETE: the rows it would update are not inserted.
- All API requests have one embedding, so the first good answer of a namespace is given to any
  other objective, past policy, gate and verifier; two tiers have no branch and return
  "Execution queued" as a verified answer; the approvals file is truncated by a load-modify-write.
- A row of a CSV import that fails rolls back all before it while the log says imported N
  (`ingest_past_performance.py:57`); `scrape_sam_gov.py:276` reads a field the class lacks, so
  every batch with a high-priority notice is lost.
- The reel posted again is never marked as such; without a release nothing is
  posted even where no release is needed; Instagram publishes after its polls run out.
- A queued workflow run has the ledger of its trigger and repeats stories; the buyer sync
  reactivates those who unsubscribed within its window ("re-runs are harmless").
- An output with metrics but no checkpoint can neither restart nor resume; the lock that is
  removed is whatever is at the path by then; "readers never see a gap" (`main.py:50`) has one
  when a plain directory becomes a link.
- A listing of the shop that fails counts as empty and a duplicate is created ("safe to call
  on every deploy"); a Printify product created and not published counts as live.
- A tool of the voice agent that is cut off answers "transfer" though its row exists; a
  text that was refused is spoken of as sent; two calls are offered one slot.  The counter
  of digests is spent by failed sends, and a killed write starts it again at 1.  A refused cc
  counts as sent; Resend has no fallback though its heading says so.  A thread that breaks off is posted
  again from its first part; only Mastodon has an idempotency key.  `/social/distribute` asks for
  methods the engine does not have and always answers "not_implemented".

## 11. What is not modelled

- *Release gates and specialists of MonetizeOS*, *process state* (`core/`): single rows
  written by one caller, or pure functions from a contract to text.
- *Inference, gateways, compression, caches beyond those of section 7*: calls of
  vendors behind one function, with no state that outlives the call.
- *Guards of the runtime* (cost guard, token budget): arithmetic on one file; every route
  costs 0, so the cost guard never refuses.
- *Dashboards, reports, generators* (workbooks, templates, pages), *trading and medical
  tools, code merger*: sequential programs from input to text.
- *Skills, workflows without a state of their own, documents.*
- Dead code: `backend/services/llm_runner.py` imports a module that does not exist; the routes
  of `runtime/distillation.py` are mounted nowhere.
- Within the modelled components: prepared deliveries and budgets of Revenue-OS; the vote and
  the event log of G-MAOS; the health file of the content pipeline; expiry of confirmation
  links; the texts, pictures and figures everywhere.

## 12. Plan

1. Services: theorems about the machines that have none and use no folds: `Shorts`,
   `Issues`, `Training`.
2. FYE: an abstract one-post specification refined under the assumption that no publish
   lease is released (`ExtraPostsReleased` is its invariant form), and liveness of the
   recovery after a crash.
3. Revenue-OS: budgets and prepared deliveries.
4. A composition of the process mesh with the deliveries of a passive-income cycle, which
   share the circuits of `RevenueStore`.
