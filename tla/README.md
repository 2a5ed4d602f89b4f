# js-evolution-agent in TLA+

This directory is a verification development of js-evolution-agent (JEA): a
governed self-evolution host that observes, decides, acts and verifies on behalf
of configured *subjects*. The modules model the parts of the program whose
correctness depends on order, on crashes and on retries, and say for each what
must hold. Line numbers below are those of the repository (paths relative to its
root).

## 1. The system

A subject is a directory of JSON and JSONL files. A daemon runs *reactions* over
it: a rule reaction gathers evidence, a cognitive reaction lets a model decide, an
`exec_queue` reaction carries out the decisions, a `verify_batch` reaction checks
what they did. Evidence is routed to reactors as *activations* in a ledger; a
scheduler claims one activation at a time and turns it into a task of a queue that
workers lease; one lock per subject keeps two workers off the same files. There is
no database and no transaction: the unit of atomicity is one read-modify-write of
one file under one lock. Everything that takes two files can be interrupted between
them, and the program's answer is idempotence and a recovery scan. That is what
these modules are about.

### Components

| component | state it keeps | operations | what makes it correct |
|---|---|---|---|
| Decision queue (`src/engine/decide/decision-queue.mjs`) | `pending_decisions.json`: status, attempts, cycles seen per decision; a lock file | add with fingerprint dedupe, claim, complete, fail, failOrBlock, release, requeue, retire, maintenance (age, expire, purge) | legal transitions only; a fingerprint is hot once; a retry budget bounds what is done, not only what is counted; nothing is lost |
| Exec intents (`src/evolution/reactor/exec-intent-store.mjs`) | `exec-intents.json`: one record per decision and attempt | begin, mark, complete, recover | one live attempt per decision; an unknown outcome is never retried blindly |
| Exec pipeline (`src/engine/pipelines/exec.mjs`, `src/engine/act`) | the batch of a run, in memory | mechanical channel, agent waves, serial settlement | write-class decisions run alone; the loop ends; one failing step does not undo another |
| Exec step (`runExecStep`, `src/evolution/cycle-steps.mjs`) | none | maintenance, recovery, pipeline, in that order | recovery is over before anything is claimed |
| Action receipts (`src/intelligence/store.mjs`) | append-only receipts | record, list by execution | evidence of what was done |
| Exec results and verification (`src/evolution/reactor/exec-result-store.mjs`, `runVerifyStep`) | one record per execution: executed, verifying, verified | write, claim, complete, recover | what was executed is verified once, and eventually |
| Daemon task queue (`src/daemon/daemon-tasks.mjs`, `daemon-core.mjs`) | tasks with leases | enqueue, claim, renew, complete, fail, release, retry, cancel, reclaim | a task has one worker; an expired lease returns it |
| Reactor scheduler (`src/daemon/reactor-scheduler*.mjs`) | `scheduler-plan.json`; holds in the ledger | reclaim, park under an exhausted budget, release, select, claim, enqueue | causal siblings in order, one task per activation, replay work bounded, nothing held for ever |
| Activation ledger (`src/contracts/activation-ledger.mjs`, `src/evolution/reactor/activation-ledger-*.mjs`) | hot ledger, deltas, sharded terminal identities, one set per journal generation | insert, transition, reclaim | handled is terminal; its three files agree whatever crash falls between them |
| Evidence router and pump (`src/evolution/reactor/evidence-router*.mjs`) | `router-cursor.json` | route, move the cursor | the cursor passes nothing that was not inserted |
| Journal maintenance (`src/evolution/reactor/evidence-journal-maintenance.mjs`, `activation-identity-migration.mjs`, `upgrade-migration.mjs`, `control-plane-readiness.mjs`) | generations, manifest, migration state, backups | rebuild, rollback, resume, readiness | a switch happens with nobody at work; claims and handled identities survive it; an interrupted one is completed |
| Claim ledger, batch checkpoints, cognitive reactor (`src/evolution/reactor/claim-ledger.mjs`, `batch-checkpoint-store.mjs`, `cognitive-reactor.mjs`) | `claims.json`, its archive and index, checkpoints, consumed markers | claim, reattach, stage by stage, commit, ack, nack, expire | a failure does not swallow a batch; archive before prune; decided before handled |
| Rule reactor and its resilience | cursors, retries, circuit breaker | tick, catch up, back off | no evidence skipped |
| Settlement service | belief and goal events | settle | append-only, idempotent |
| Channel workers (`src/channel/domain-worker.mjs`, `wake.mjs`, `task-queue.mjs`) | tasks with leases, per process a stop flag | wake, claim, reclaim, settle, stop, restart | leases exclude; one active task per kind; work that arrives is looked at |
| Channel content (`src/channel`) | inbound events, presence state, handled index, cooldowns, outbox | plan, queue speech, write, deliver, retry | durable before handled; at most one message per candidate; everything is answered |
| Product shell | supervisor lease | acquire, renew, release | one supervisor |
| Reports, prompts, model clients, viewer, CLI, desktop | none of their own | text, network, display | not modelled |

### How they interact

The pump routes new evidence of the journal into activations. A scheduling turn of
the daemon, or of a one-shot `process once`, reclaims expired activation leases, parks
or releases what the budget decides, claims the next activation and enqueues a task
for it. A worker leases the task and runs its reactor; the settlement of the task
settles the activation. The cognitive reactor claims its evidence in a ledger of its
own, goes through its stages with a checkpoint after each, queues decisions and
archives the claim. It records a wake for `exec_queue`. The exec task of the subject
(`runExecQueueTask`, `src/evolution/reactor/reactor-tasks.mjs:295`) calls `runExecStep`
with the wake's execution id: queue maintenance, then recovery of open intents, then the
pipeline, which claims decisions and reports through the lifecycle callbacks
`onBeforeExecute` and `onAfterExecute` that write the intents. Action handlers
write receipts. A summary of the run becomes an exec result, and a verify task
claims the results. A task that fails or whose lease runs out is run again *under
the same execution id*; a new wake brings a new one.

An operator may rebuild the journal or roll it back to a backup. Both stage a new
generation with its own ledger, reconciled from the old ledger, the claims and the
consumed markers, and move the manifest to it; the migration state keeps the others
out meanwhile.

The channel has a task queue of the same code but its own file, and no subject lock. Its
daemon runs one loop per role, each claiming the task types of its role; a message in the
outbox, an inbound file or an event makes its writer enqueue a task unless one is active,
and ticks do the same for work that was missed. The presence task plans what to answer,
the speech task writes the message, the notify task delivers it.

### What is hard

* **Crash windows.** A decision's progress is spread over four files: queue, intent,
  receipt, exec result. A reaction's is spread over six: claims, archive, covered index,
  consumed markers, checkpoint, activation ledger. A worker can die between any two writes.
* **Retries under an old identity.** The execution id is part of receipts and of
  `last_maintenance_cycle`; the intent key is decision and attempt, and `requeue`
  resets the attempt. A resumed batch believes the checkpoint its predecessor left.
* **Swallowed failures.** A queue lock times out after a bounded wait; recovery and
  maintenance log the error and go on, a serial execution turns it into a failure
  of the action, a parallel wave lets it end the run.
* **Interleaving.** The handlers of an agent wave run concurrently, their
  settlement does not. A scheduling turn takes no lock: two of them work from listings
  and plans that the other has outdated, and the task is settled before the activation.
* **Progress.** The wave loop reclaims from a queue it releases decisions to. A hold
  that the plan forgets is never released.
* **Leases.** A channel task may outlive its lease, which nobody renews; a settlement
  does not ask who holds the lease; every loop reclaims the leases of all. A cycle
  worker whose event loop stalls loses task and subject lock together, and may come
  back to both.
* **Renames.** A directory cannot be replaced in one rename: the terminal shards of the
  ledger go through two, and the deltas and the hot ledger follow.
* **Switching generations.** Checks of who is at work, the migration state and the
  pointer are separate files, and workers start at any time.
* **Delivery.** Sending and recording are two steps; a crash between them leaves a message
  to be sent again.

`PROJECT.json` lists these as hazards at the lines where they bite, with the
property that would catch each.

## 2. Modules

| module | models |
|---|---|
| `ExecLifecycle` | decision queue, exec intents, receipts and pipeline of one subject, composed: they are one protocol over several files |
| `AttemptLedger` | the abstract specification: what the intents promise |
| `ExecVerify` | exec results, the verify queue and reports, and the exec and verify tasks that produce and consume them |
| `ReactorScheduler` | the activation ledger's states, the scheduling turn with its plan and budget holds, and the cycle daemon that works the tasks |
| `EvidenceReaction` | the cognitive reactor over the claim ledger and the batch checkpoints |
| `ActivationLedger` | how a ledger mutation reaches the disk, the router pump, and rebuild and rollback of the journal's generations |
| `ChannelTasks` | the leased task queue of the channel domain, the role loops that serve it, and the wake-ups that fill it |
| `ChannelSpeech` | how the channel answers: presence run, speech events, message generation, outbox and delivery |
| `MC...` | the modules TLC is run on |
| `...Proofs` | the theorems about the module of that name, and their proofs |
| `ExecQueueProofs` | more theorems about `ExecLifecycle`, on top of `ExecLifecycleProofs`: what the decision queue makes of the intents, and the refinement of `AttemptLedger` |

The components are connected by what one leaves to the next, and the modules each
open up what another takes as one step:

* The states of an activation in `ReactorScheduler` are what `ActivationLedger` stores; there
  one transition is a sequence of renames.
* A reaction of a `ReactorScheduler` task (from `ClaimTask` to `ReactOk` or `ReactFail`) is, for
  the cognitive reactor, the whole of a worker's passage through `EvidenceReaction`, from
  `Begin` to `Settle`.
* An `exec_queue` task, all of `ExecLifecycle`, is one step `Act` of `ExecVerify`.
* The tasks of `ReactorScheduler` and of `ExecVerify` come from the same task queue code as
  those of `ChannelTasks`, but in the cycle domain, where the subject lock admits one worker
  and a watchdog renews leases; the channel domain has neither, so it is there that the
  leases alone must exclude.
* The speech task of `ChannelSpeech` is one task of `ChannelTasks`, with its lease as
  the fault `leaseEnds`.

### ExecLifecycle

State and code:

| variable | code |
|---|---|
| `status`, `attempts`, `cyclesSeen`, `maintained`, `created` | `status`, `attempts`, `cycles_seen`, `last_maintenance_cycle`, `created_at` of a decision in `pending_decisions.json` (`created` is a rank) |
| `intents` | `exec-intents.json`, in the order pushed; an intent's id is its position |
| `receipts` | the pairs of decision and execution for which an action receipt exists |
| `execution` | the execution id of the run's wake |
| `phase`, `recovering`, `repair` | how far `runExecStep` is; the open intents still to visit; the queue update that follows the intent just marked |
| `batch`, `wave`, `touched`, `job` | locals of `_runDualChannel`, `_executeAgentWave` and `_executeOne` |
| `effects`, `spent`, `succeeded`, `turns` | history variables; no code keeps them (`turns`: runs that changed to another execution id) |
| `used` | how much of each bound is consumed |

Actions and code:

| action | code |
|---|---|
| `AddDecision`, `RequeueDecision`, `RetireDecision` | `addDecisionsDetailed`, `requeueDecision`, `retireDecision` |
| `StartRun` | `runExecQueueTask`, under any execution id: a new wake brings a new one, a task that is run again keeps its own, and `retryTask` may run an older one again after a newer one |
| `RunQueueMaintenance`, `MaintenanceFails` | `_expireAndCleanupLocked`; the `catch` around it in `runExecStep` |
| `RecoverIntent`, `RepairQueue`, `RepairFails` | one iteration of `recoverOpenExecIntents`: the intent is marked first, then the queue updated, and an error of the second is swallowed |
| `ClaimMechanical`, `ClaimWave`, `ClaimFails`, `EndRun` | the two channels of `_runDualChannel` |
| `BeginIntent`, `MarkExecuting`, `SideEffect`, `HandlerReturns`, `CloseIntent` | `_executeOne` up to the `onAfterExecute` callback; the success path closes the intent in two writes |
| `SettleDecision`, `SettleFails`, `FailIntent` | the queue update at the end of `_executeOne` or of a wave, the lock timeout, and the `catch` branch it leads to |
| `Crash` | the worker dies: all in-memory state is gone, all files stay |

One run at a time is faithful: the subject lock and the task lease admit one
worker, which runs one reaction after another. Within a run every locked file
update is one step. Between runs the queue may be edited; edits *during* a run are
left out, because the cognitive reaction takes the same subject lock.

What is abstracted: timestamps become ranks and, where the code compares ages
with a wall clock, a free choice (`lapsed` in `RunQueueMaintenance`); a reconciler of
the host is one that tells the truth; a handler is a side effect, an outcome and
perhaps a receipt, in that order. A parallel wave settles in the order of the
claim. `Twins` stands for all decisions whose action has one fingerprint. Execution ids are names
that are compared for equality only, so `StartRun` may choose any of them.

### AttemptLedger

The promise without the machinery: attempts are opened, started, fired, returned,
closed, lost, dismissed. An attempt fires at most once unless its decision is
`Repeatable`; a decision has one live attempt; a lost attempt is never live again.
`ImplementsLedger` in `ExecLifecycle` instantiates it with a mapping from intents to
attempts: `prepared` is fresh, `executing` and `receipt_recorded` are running,
`completed` and `failed` are closed, `uncertain` is unknown. `Dismiss` (unknown to
closed) exists only when a lock may time out: then the `catch` branch of
`_executeOne` runs for a decision that was skipped for its uncertain intent, and
marks that intent failed.

### ExecVerify

| variable | code |
|---|---|
| `execTask`, `execTries`, `verifyTask`, `verifyTries` | status and attempts of the `exec_queue` task of an execution and of the one `verify_batch` task in the daemon's task queue |
| `verifyWake`, `paused` | a pending verify wake in `wakes.json`; the subject's evolution state |
| `receipts` | per execution, the runs of it that left action receipts |
| `results` | the files `exec-results/<execution>.json`: when written (a rank), which runs they cover, verify status |
| `queue` | the items of `exec-results/queue.json`: status, tries, claim fresh or expired |
| `reports` | the verify reports; `times` counts the writes |
| `at`, `current`, `executed`, `ok` | where `runExecQueueTask` or `runVerifyBatchTask` is and the locals it holds |

| action | code |
|---|---|
| `EnqueueExec`, `Pause`, `Unpause`, `RetryTask` | a wake becomes a task (`scanWakeBacklog`); `setSubjectEvolutionState`; `retryTask` |
| `StartExec`, `Act`, `ExecReturns`, `ExecFails` | the claim; `runExecStep`; its return, and the `catch` that collects the receipts of the execution |
| `WriteResult`, `QueueResult`, `WakeVerify`, `CloseExec` | `writeExecResult` (result file, then queue file, one critical section that a crash may split), the wake, the task's settlement |
| `StartVerify`, `ConsumeWake`, `ClaimNone`, `Claim` | `runVerifyBatchTask` up to `claimPendingVerifyResult`, with its recovery of orphans and its reconciliation |
| `VerifyReports`, `VerifyFails`, `Complete`, `FailVerify`, `VerifyUnrecorded`, `CloseVerify` | `runVerifyStep` with the report it writes, `completeVerifyResult`, the lock timeout of it, and the settlement of the task |
| `Scan`, `Reclaim`, `Lapse` | the part of the backlog scan that starts verify tasks; lease and claim expiry |
| `Crash`, `TornScan`, `TornClaim`, `TornReport`, `TornOutcome` | death between steps, and inside the critical sections after the first of two files, or within the report |

Abstracted: the receipts of a run are one token; the queue is a function on
executions, its order is the rank in `results`; the five minutes of a claim are the
action `Lapse`. Not modelled: the archive of verified results, the pointer to the latest,
the limit of 500 receipts, a result file lost by hand, other kinds of wakes.

### ReactorScheduler

| variable | code |
|---|---|
| `state`, `hold`, `lapsed` | the activation ledger: the state of each activation, the class of a deferred one's hold, claimed ones whose lease has run out |
| `plan`, `overdue` | `scheduler-plan.json` (park key, batches used, whether a stop reason is noted); whether its wall-clock bound has passed |
| `task` | `pending_tasks.json`: up to two tasks of each activation, with status, owner, whether the lease is live, attempts |
| `exhausted`, `paused` | the LLM budget and the evolution state of the subject |
| `lock` | the subject lock |
| `pc`, `draft`, `hand`, `targets`, `lost` | where a process is, its copy of the plan, the activation or task it has, the entries of its listing it parks or releases, whether the watchdog told it its lease is gone |
| `late` | history: the pairs of siblings of which the first was inserted when the second had been picked |
| `troubles`, `changes`, `stalls`, `crashes`, `shots`, `replays` | how much of each bound is consumed; replay claims |

| action | code |
|---|---|
| `Insert`, `LeaseExpires` | `insertActivationLedgerEntries`; the lease of a claimed activation |
| `BeginTurn` | the reclaim of `runReactorSchedulerTurn` and what it reads: budget, plan, listing |
| `Park`, `Unpark` | `applyParkOnce`, `releaseBudgetHolds` |
| `Claim`, `Enqueue`, `WritePlan` | the claim of what `selectNextActivation` chose, `enqueueTask`, `writeSchedulerPlan` |
| `ClaimTask`, `GiveUp` | `claimNextTask` under the subject lock; a one-shot process that finds the lock taken or nothing to do |
| `ReactOk`, `Settle` | a reaction that succeeds: the task is completed, then the activation settled |
| `ReactFail`, `NoteBudget`, `WriteNote`, `GiveUpActivation`, `FailTask` | one that fails: back to the queue, or the activation deferred and the task failed |
| `Stall`, `WatchdogTick`, `DropActivation`, `DropTask` | an event loop stalled past its leases; the watchdog that renews them or notices that they are gone; the release that follows |
| `Crash`, `Restart`, `Relock` | death; restart; the daemon's refresh of the subject lock |
| `BudgetChanges`, `PauseChanges`, `WallClockPasses` | the world |

A turn takes no lock of its own: a one-shot `process once` runs one while the daemon runs
another, each from the plan and the listing it read. Every read and every locked write is a
step. A process counts as `Daemons` when it loops, as `Once` when it takes one turn and at most
one task. `Rank` is the order of selection (priority, then age). The pump follows the journal and
the router gives evidence of one causal group different priorities, so activations are inserted in any
order, a predecessor after its successor included.

### EvidenceReaction

| variable | code |
|---|---|
| `settled`, `owner`, `current` | the state of the evidence's activation; the worker that has its task; the holder of the subject lock |
| `claims`, `archive`, `covered` | `claims.json`; `archive/claims.jsonl`; `archive/claims-covered-index.json` |
| `consumed` | the consumed markers of the evidence index |
| `check`, `made` | the batch checkpoints: stage, evidence, what the report asked for; how many batches exist |
| `decided`, `recorded` | how often decisions of a batch were queued; batches whose checkpoint says so |
| `pc`, `hand` | where a worker is, and its evidence, batch, copy of the checkpoint, terminal claims to finish and where it goes on |
| `crashes`, `throws`, `stalls` | how much of each bound is consumed |

| action | code |
|---|---|
| `Begin`, `Pick` | a task of the activation is taken up; `findReattachableClaims` and `findResumableCheckpoint` |
| `Expire`, `claimEvidenceBatch`, `Consume` | `expireClaims`, the claim, `commitEvidenceCursor` |
| `Archive`, `Cover`, `requeueClaimEvidence`, `pruneTerminalClaims` | the four writes of a terminal transition after its status |
| `Start`, `Assemble`, `NoOp`, `Investigate`, `Report`, `Decide`, `Record`, `Commit`, `WrapUp` | the stages of a reaction, each with its checkpoint |
| `releaseBatchClaim`, `ackBatchHandled`, `nackBatchFailed` | the ends of a batch |
| `Throw`, `Fail`, `Settle` | an exception in a stage, the `catch`, and the settlement of the activation |
| `Stall`, `Notice`, `Crash`, `DeadlinePasses` | lease and lock lost without noticing; noticing it; death; the deadline of a claim |

What a model answers is a free choice: a report may ask for decisions or not. A reaction
is a targeted one, for one activation and its evidence, in live mode. A batch's number stands
for its id and for its age; "newest checkpoint" is the one with the highest number.

### ActivationLedger

| variable | code |
|---|---|
| `manifest`, `gens` | the manifest's generation; per generation the ledger: `hot` entries, what the deltas tell up to the ledger's sequence (`told`) and past it (`beyond`), `terminal` shards, consumed markers |
| `lock` | the JSON lock of each ledger file |
| `journal`, `cursor` | the evidence, in order; `router-cursor.json` with the generation it belongs to |
| `claim` | what the claim ledger and its archive say of each evidence |
| `migration`, `backups` | `activation-migration.json`; the copies `createBackup` makes |
| `pc`, `hand` | where a process is, and the mutation in its hands with the ledger it staged, or the migration and the generation it has read |
| `upkeep` | the rebuild or rollback under way |
| `torn`, `meddled`, `overwritten` | history: a crash fell between the renames of the shards; a ledger was written while its successor was staged; the processes that wrote their migration over one they had not read |

| action | code |
|---|---|
| `Start`, `Stop` | the life of a process |
| `inspectControlPlaneReadiness`, `resumeActivationMigration`, `inspectUpgradeMigration`, `persistIfChanged` | the check before each turn: what is first read of the migration decides whether a switch is resumed; it is read again, and a phase in flight is written back after the evidence was walked; nothing is locked meanwhile |
| `pumpEvidenceRouter`, `writeRouterCursor`, `SkipHistory` | the pump, its cursor, and what it does about a cursor of another generation |
| `Schedule`, `Rest`, `Settle` | the transitions the scheduler and the settlement ask for |
| `Stage`, `SetAside`, `Install`, `RenameDeltas`, `RenameLedger` | `mutateLedger`: lock and staging, the two renames of `installStagedTerminal`, the renames of the deltas and of the hot ledger |
| `claimEvidence`, `ackHandled`, `DeadlinePasses`, `Evidence` | what maintenance reads of a reaction; new evidence |
| `rebuildEvidenceJournal`, `rollbackEvidenceJournal`, `MarkInFlight`, `createBackup`, `stageActivationLedger`, `Verify`, `Announce`, `RenameGeneration`, `PointAtIt`, `MarkSwitched`, `MarkComplete` | the two operations, one write per step |
| `Crash`, `Interrupt` | a process killed within a mutation; an operation that fails or is killed |

A rebuild reconciles the ledger, the claims and the markers (`reconcileActivationIdentities`); a
rollback adds the backup's ledger. `Daemons` are the processes maintenance can see; one-shot
commands it cannot. The path of a ledger is taken from the manifest before the lock is, so a process
may write into a generation that has just been left: that is part of the model (`Take`, `Stage`).
The generation that was left is emptied, since nobody reads it again. A readiness check that resumes
a switch writes `complete` twice in the code (`upgrade-migration.mjs:235`, `:251`), once here; the
phases from `sidecar_backup` to `validate`, which nothing tells apart, are `stage`. A number that
was never pointed at is used again by the next operation.

### ChannelTasks

| variable | code |
|---|---|
| `queue` | `pending_tasks.json` of the channel: key, status, attempts, whether the lease has run out. `claims`, `reclaims`, `aborts`, `late` are history |
| `work` | the kinds that have unread events, inbound files or outbox files |
| `stopping` | processes whose `shared.stopping` is set |
| `hold`, `seen`, `done` | per loop, the task in its hands, `claim.task.attempts` as copied at the claim, and whether its handler has looked at the work |
| `turn`, `overrun` | history: which claim a loop holds its task from, and which loops outlived their lease |

| action | code |
|---|---|
| `Arrive`, `Wake` | `appendChannelEvent` and its like; `enqueueIfNeeded` by the writer or by a tick (`channel/wake.mjs`, `channel/dispatch.mjs`) |
| `Claim`, `Reclaim` | `claimNextTask`, `reclaimExpiredLeases`; both reclaim the leases of all types |
| `ReadWork`, `LeaveWork` | the handler of the task reads the work there is, or returns with work left (a batch limit, a model that did not answer) |
| `Complete`, `ReleaseForRetry`, `Fail`, `ReleaseForAbort` | the settlements at the end of `runChannelWorkOnceBody` |
| `Expire` | five minutes pass; nobody renews channel leases |
| `Stop`, `Restart`, `Jam`, `Crash` | a requested stop; the next start; a queue lock found taken, which ends the loop and stops the process; death |

`Serves` and `Process` say which loop claims which keys and runs where, so one module
covers the daemon (one loop per role), a daemon beside `work --once --domain channel`,
and two daemons. A key stands for a kind of work that is deduplicated, as notify,
presence and the classifier are; control and agent tasks have a key each, so for
them the key is the request. The order of cycle rounds and steps that `claimNextTask`
also checks does not apply to channel tasks. A settlement is *late* when another loop has
claimed the task since: the code does not look (`updateTask`,
`src/daemon/daemon-tasks.mjs:444`), and what is promised is promised up to that.

### ChannelSpeech

| variable | code |
|---|---|
| `events` | the speech events of `event_queue.json`: status, candidate, attempts |
| `pending` | the events listed in `pending_speech_generation` of the presence state |
| `planning` | the presence run: idle, planning, or past its deadline |
| `handled` | the handled index (silenced or queued) |
| `cooled`, `keyed` | the cooldowns: candidates whose key is cooling down, and those that have a key, which is never deleted |
| `window` | candidates a presence run can still see; one that is known from a channel event only leaves it with the event |
| `outbox` | how many messages a candidate has in each place (pending, sent, failed) |
| `task`, `retries` | the speech task; the `channel_retry` tasks |
| `presence`, `writer`, `sender` | where the presence worker, each speech worker and the notify worker are, with their locals |
| `delivered`, `written`, `crashes`, `others`, `leases` | how often the adapter sent a message, and how many were written; faults, with the lost leases among the others |

| action | code |
|---|---|
| `beginPresenceRun` ... `failPresenceRun`, `runExpires` | the presence run: context, plan, speech events with their rows, completion, wake-up of the speech task; a run left behind |
| `claimTask` ... `completeTask` | the speech task: claim events, generate, look through the outbox, write the message, cooldown, handled index, and the retry or failure of an event |
| `findOutboxByIdempotencyKey`, `writeOutboxMessage` | sent, pending and failed are read one after the other, then the message is written; nothing is locked |
| `leaseEnds` | the task's lease runs out under its worker and another takes it |
| `runChannelNotifyTask` ... `settleNotify`, `runChannelRetryTask` | delivery: send, then move to sent or failed |
| `lookForSent`, `lookForPending`, `requeueOutboxFailed`, `requeued` | a retry looks for each failed message and puts a copy of it back |
| `Crash`, `cooldownEnds`, `leavesWindow` | death; time; an event that is not among the latest any more |

`Control` marks the candidates that report a control action: those are planned without
looking at pending speech, so that two events for one of them are possible, and it is
the outbox's idempotency key that keeps the message single, as far as it does. Which keys are among
the twenty that a presence run is shown is any subset of those there are (`buildPresenceContext`);
the run does not ask whether they still cool down, the writers do (`cooldownActive`). Events whose
end does not matter any more are all *settled* and give their place to new ones; writers that are
idle, and messages of one candidate in one place, are alike. Two messages written in the same
millisecond would share a file name; here they are two.

## 3. Runs

The constants are in the cfg files. Deadlock is not checked, except in `speech`: when
every bound is used up and everything is settled, nothing is left to do.

| run | instance | what it shows |
|---|---|---|
| `faults` | an idempotent mechanical and a reconcilable agent decision, two executions, two runs, a crash, a lock timeout | `TypeOK`, `NoReplayOfAttempt`, `CompletedOnEvidence`, `NothingStranded`, the refinement `ImplementsLedger` |
| `crashes` | one agent decision, five runs under two executions in any order, two crashes, a lock timeout, a requeue | `OneOpenIntent`, `AgedOncePerTurn`, `RetryBudget`, `UncertainIsFinal` |
| `waves` | three agent decisions, two of them of one fingerprint, one exclusive, width two, two runs, a lock timeout, under fairness | `ExclusiveRunsAlone` and `NoHotTwins` under all interleavings of a wave, `RunEnds` |
| `verify` | two executions, two runs, two failing steps, one unrecorded outcome, one crash (torn writes included), one pause, under fairness | `TypeOK`, `OneReportPerExecution`, `AttemptsBounded`, `EveryResultSettles` |
| `turns` | a daemon and a one-shot process, a replay and a realtime activation of one causal group inserted in any order, one of an LLM reactor, a trouble, a change of budget or pause, a crash or stall, under fairness | `CausalOrder`, `OneActiveTask`, `ReplayBounded`, `WorkSettles` |
| `reactions` | two workers, one evidence, up to three batches, two faults (crash, stall, exception), under fairness | `NothingSwallowed`, `ArchivedBeforePruned`, `DecidedBeforeHandled`, `HandledIsCovered`, `EvidenceSettles` |
| `generations` | a daemon, one activation, a rebuild and a rollback possible, one crash or failed operation, readiness checks that write back what they read | `DeltasExplainLedger`, `RoutedIsRecorded`, `SwitchIsResumable`, `SwitchesAlone`, `HandledIsKept`, `ClaimsSurviveRebuild` |
| `roles` | one process with two role loops, two arrivals, one failure, one overrun lease, one crash, one stop, under fairness | `WorkIsDone`, `EveryTaskEnds` |
| `overlap` | two processes that serve one key, three arrivals, two failures, one overrun lease, one crash, one stop | `LeaseExcludes`, `OneActivePerKey`, `RunsBounded` |
| `speech` | two writers, one control candidate, two attempts, two retries, two places for events, one fault, under fairness | `DurableBeforeHandled`, `OneMessage`, `DuplicatesNeedFaults`, `Answered` |
| `decided` | the instance of `reactions` | refutes `DecidedOnce` (section 5) |
| `torn` | a daemon, two activations, one generation, one crash | refutes `ShardsMatchDeltas` (section 5) |

Bounds. In `ExecLifecycle` two decisions are enough for what relates decisions to each
other: two of a wave that are two of a fingerprint, or one of each channel; the third in
`waves` is the exclusive one that must not join the other two. `MaxAttempts = 2` has both
the retry and the block. Two runs with one crash have a first run that dies and a recovery
run that may fail itself; five runs with two crashes in `crashes` interrupt the
recovery as well and go on after it; two execution ids that alternate have an older execution run
again after a newer one. One lock timeout may hit any of the queue updates. TTLs
of two cycles let a decision survive one maintenance and lapse at a later one. In `verify`
one execution can run twice, or two once each, and each claim may fail, lapse or be torn; two
failing steps exhaust the tries of a result or of a task.

In `turns` the predecessor is a replay activation of an LLM reactor and the successor a realtime one
of another, so that the lanes, the pause and the order of insertion pull against the causal order;
one shot of the one-shot process is one turn from an outdated plan; one fault is either a crash
between any two steps or a stall from which the worker comes back to a task that was taken over. In
`reactions` three batches are a first one, the one that resumes or repeats it, and one more; two
faults interrupt the recovery of the first. The evidence is one because a targeted reaction looks at
no other; that batches of different evidence do not mix is part of what is proved (`OneEvidence`).
In `generations` two generations and two backups have one switch from any state of the activation,
the rollback included; because one process holds the ledger's lock at a time, mutations are
interleaved with maintenance, not with each other. A daemon that starts after the second look for
workers reads the migration and writes it back when the operation has gone on, which is
`overwritten`; one-shot commands, for which `SwitchesAlone` has its exception, do not occur in this
instance, and the theorems cover them. Two processes with two activations were checked in one
generation: 4.5 million states, the same properties, no error. In `overlap` a task can be claimed by
one loop, expire, be claimed by the other and be settled by both; three tasks of a key let a
reopened task meet a successor. `roles` has a task for each role and one more for work that came too
late for the task before it. In `speech` one control candidate has two events at a time and any
number one after the other, since a settled event gives its place to the next; two writers can be at
its message at once when a lease has ended, the notify worker can move the message between two looks
of a writer, and two attempts reach the failure of an event.

Fairness. `RunEnds` assumes weak fairness of the worker's own steps (`RunStep`) and
nothing of crashes, timeouts or new work. Handlers return because agent runs have
a timeout (`src/actions/agent-adapter/runner.mjs`) and all else is local I/O.
`ExecVerify!FairSpec` assumes that the worker loop takes its steps, reclaims and scans
when idle (`runDaemonWorker` polls), and that time passes (`Lapse`); pauses, retries by the
operator and crashes are never assumed. `ReactorScheduler!FairSpec` assumes that a daemon
polls, is started again and refreshes its lock, that a one-shot process that has begun comes to
its end, and that leases run out; that budget and evolution stay on is the hypothesis of
`WorkSettles`, not fairness. `EvidenceReaction!FairSpec` assumes that a worker goes on and
that deadlines pass, and strongly that an open activation is taken up again: the scheduler
offers it whenever it is ready, which is what `WorkSettles` is about. `ChannelTasks!FairSpec`
assumes that each loop polls and its handlers return (the channel's model calls, sends and
agent runs have timeouts), that ticks look for work (`setInterval` in
`src/channel/domain-worker.mjs`), that leases of loops that are gone run out, and that a
stopped process is started again, which is the product supervisor's or the operator's part.
Not every kind has a tick of its own: speech has none, so `WorkIsDone` is claimed for notify,
presence and the classifier. `ChannelSpeech!FairSpec` assumes the presence tick, the loops and
time, and that a planner that may speak again and again does so at last (`SF_vars(planSpeak)`):
a model that always answers `no_op` leaves its candidates open, as it may. Nothing makes a cooldown
end, a key leave the list or a channel event leave the window, and nothing makes the notify worker
deliver: `Answered` holds without.

Each property also has a mutant, an operator defined before the one it replaces
and marked `Mutant` in the module: the change a plausible bug would make, under which
TLC finds the property violated.

## 4. Theorems

For every value of the constants, from nothing but the assumptions each module makes of
its constants:

| module | theorem | statement |
|---|---|---|
| `ExecLifecycleProofs` | `TypeCorrect` | `Spec => []TypeOK` |
| | `NoReplay` | `Spec => []NoReplayOfAttempt` |
| | `NoOrphan` | `Spec => []NoOrphanIntent` |
| | `SingleAttempt` | `Spec => []OneOpenIntent` |
| `ExecQueueProofs` | `Refinement` | `Spec => ImplementsLedger` |
| | `UncertainStays` | `Spec => UncertainIsFinal` (an action property) |
| | `BudgetKept` | `Spec => []RetryBudget` |
| | `CompletionsVouched` | `Spec => []CompletedOnEvidence` |
| | `ExclusiveAlone` | `Spec => []ExclusiveRunsAlone` |
| | `TwinsApart` | `Spec => []NoHotTwins` |
| | `Unstranded` | `Spec => []NothingStranded` |
| | `AgedOnce` | `Spec => []AgedOncePerTurn` |
| `ExecVerifyProofs` | `TypeCorrect` | `Spec => []TypeOK` |
| | `VerifiedOnce` | `Spec => []OneReportPerExecution` |
| | `VerifiedMeansReported` | `Spec => []VerifiedOnReport` |
| | `ClaimsBounded` | `Spec => []AttemptsBounded` |
| | `FilesAgree` | `Spec => []RecordMatchesQueue` |
| `ReactorSchedulerProofs` | `TypeCorrect` | `Spec => []TypeOK` |
| | `HandledForGood` | `Spec => HandledIsFinal` (an action property) |
| | `SiblingsInOrder` | `Spec => []CausalOrder` |
| | `OneTaskEach` | `Spec => []OneActiveTask` |
| | `ReplayStaysBounded` | `Spec => []ReplayBounded` |
| `EvidenceReactionProofs` | `TypeCorrect` | `Spec => []TypeOK` |
| | `NothingIsSwallowed` | `Spec => []NothingSwallowed` |
| | `ArchiveComesFirst` | `Spec => []ArchivedBeforePruned` |
| | `DecisionsComeFirst` | `Spec => []DecidedBeforeHandled` |
| | `RecordsAgree` | `Spec => []HandledIsCovered` |
| `ChannelTasksProofs` | `TypeCorrect` | `Spec => []TypeOK` |
| | `LeasesExclude` | `Spec => []LeaseExcludes` |
| | `KeysAreUnique` | `Spec => []OneActivePerKey` |
| | `RunsAreBounded` | `Spec => []RunsBounded` |
| | `FinalStaysFinal` | `Spec => FinalIsFinal` (an action property) |
| | `NobodyIsLate` | `OneServer /\ Spec => []NoLateSettlement` |
| `ActivationLedgerProofs` | `TypeCorrect` | `Spec => []TypeOK` |
| | `DeltasAgree` | `Spec => []DeltasExplainLedger` |
| | `CursorFollowsLedger` | `Spec => []RoutedIsRecorded` |
| | `NobodySchedules` | `Spec => []SwitchesAlone` |
| | `SwitchesResume` | `Spec => []SwitchIsResumable` |
| | `ClaimsSurvive` | `Spec => ClaimsSurviveRebuild` (an action property) |
| | `HandledStays` | `Spec => HandledIsKept` (an action property) |
| `ChannelSpeechProofs` | `TypeCorrect` | `Spec => []TypeOK` |
| | `OneAtATime` | `Spec => []OneMessage` |
| | `MarkedIsWritten` | `Spec => []DurableBeforeHandled` |
| | `RepeatsAreOwed` | `Spec => []DuplicatesNeedFaults` |

**ExecLifecycle, `TypeOK /\ IInv`.** Type correctness is not inductive alone:
marking an intent is typed only if the job's handle points at one. `IInv` has five
parts. `HandlesOK`: the handles of running jobs point at intents of their own decision.
`JobsMatch`: the status of an intent is the one its job's stage expects, and
jobs exist only while the run works. `OrphansListed`: an intent that says its handler is
at work is held by a job, or still listed for recovery, or the run has not scanned
yet. `PhasesOK`: what is empty in which phase. `EffectsOK`: an intent that is not
idempotent has acted at most once, and not at all while it is open and not at
work. The last is what `NoReplayOfAttempt` needs: an intent that can still be
started has no side effect behind it. It rests on `OrphansListed`: only the
recovery scan sees intents left at work, and it never makes those `prepared` unless
told that is harmless.

**ExecLifecycle, `KInv`.** Why there is one open intent per decision takes the
attempt counter: `beginExecIntent` finds an open intent only under the *next* key.
`NextKey` says an open intent has exactly that key and its decision is not blocked,
so a requeue, which resets the counter, never moves the key away from an open
intent. To preserve it when a failure is counted, `JobsHold` says the attempt being
settled is already closed and the handle is the decision's only open intent;
`RecoveryOK` says recovery blocks a decision only after its intent left the open
states. `NoSharedKey` keeps uncertain and open intents apart, so a decision that is
blocked for an uncertain intent has no open one.

**ExecLifecycle, the queue (`ExecQueueProofs`).** All of it stands on `Sound`, the conjunction of
the three invariants above. `ImplementsLedger` needs no other: `View` maps an intent to an attempt
and its status to the life of the attempt (`LifeOf`), marks and recovery take the step of the ledger
they stand for (`OneOpenIntent` lets `BeginIntent` open an attempt, `EffectsOK` lets `SideEffect`
fire it), and everything else leaves the intents alone. `UncertainIsFinal` needs `Caught`: the only
writer that closes an uncertain intent is the `catch` branch, and only a lock timeout leads there.
`RetryBudget` is the hard one. Side effects and counted failures move in different steps, with the
intent, the queue and the repair in between, and any of the steps may be the last before a crash.
`Within` relates the two counts: effects are at most one ahead of failures, and not ahead at all
while the decision is `Ready`, that is while the attempt it makes next has not acted. `Ready` has to
name every way back: waiting, claimed, deferred by the handler, an open intent without an effect, a
release that recovery owes. `CompletedOnEvidence` is `EvidenceInv`: success a job reports is on
record, and a completion recovery owes the queue was vouched for; evidence only grows.
`ExclusiveRunsAlone` is `WaveInv`: a serial batch starts the newest decision first and the rest
only when it is settled. `NothingStranded` is `Held`, that without a fault what is claimed is in the
batch of the run; `NoHotTwins` follows from how one decision moves (`StatusMoves`), for which
`Repairs` says that recovery never releases a blocked decision; `AgedOncePerTurn` follows from
`Ages`: the turns bound the cycles a decision has seen, strictly while the current execution has not
aged it.

**ExecVerify, `IInv`.** `CurrentKnown`: the worker has an execution in its hands while
it works on one. `ClaimHeld`: its claim stays on the item until the outcome is recorded.
`ReportInv`: a claimed result has no report before the worker has written it, and
nothing is called verified, in file or queue, without one. `AttemptInv`: an item that may
be claimed again is below the cap, every crash and every unrecorded outcome raising
that by one. `RecordMatchesQueue` is a part of its own. `OneReportPerExecution`
follows because every claim reconciles first, and reconciliation takes whatever has a
report out of what is due.

**ReactorScheduler, `Typed /\ Ordered` and `Working`.** `HandsKnown` says where a process has an
activation or a task in its hands. `CausalOrder` is not inductive, because a process that has
selected an activation claims it steps later, from a listing that is old by then, and creates its
task later still. `Ordered` carries the claim across: `Clear(b)` (every predecessor is handled, or
not there, or came when `b` had been picked, which `late` records) holds of what is claimed or
handled (`ClaimedClear`), of what a process has in its hands (`HandClear`) and of what has an active
task (`TaskClear`). These are what `Picked` lists, so an insertion before one of them enters `late`,
and being handled is for good: `Clear` is never lost. The selection makes it true: it looks at every
predecessor that is open. `Working` says that without stalls a worker at its reaction owns its task
(`Owns`, `Attentive`), so it never reopens or settles somebody else's, and an activation has at most
one active task (`Single`).

**ReactorScheduler, `Bounded`.** The count of replay work is in a plan that its writers replace by
what they read before. A daemon in its turn and a worker noting a spent budget hold the lock
meanwhile (`DaemonLock`, `Careful`), so what they write is at least what they read (`DraftBound`). A
one-shot turn and a worker that stalled write without it: they are *loose*, and may set the
count back. `Slack` is what the plan may have lost: a whole `MaxBatches` for each loose writer that
is done, one for each crash, and one for each one-shot turn that has counted a claim and not
written it. `PlanBound` bounds the claims made by the count in the plan, the slack and the one claim
of a daemon that is not written yet; the number of loose writers is a cardinality, at most the
shots and stalls there were (`Counted`). The property had left out the stalls, and was true of
every instance checked until then. The proof attempt failed on `WriteNote`, and TLC confirmed it
with two daemons, one of which stalls before it notes the budget: `MaxBatches` 1, no one-shot
process, no crash, two replay claims.

**EvidenceReaction, `IInv`.** `Located` says where a worker has evidence and a batch. Two chains
lead from there. A batch is about one piece of evidence, in the ledger, its checkpoint, every
hand and every copy of a claim (`OneEvidence`); hence the evidence that a terminal transition
requeues is the one whose claim it prunes, and with the order of the four writes (`InOrder`)
consumed evidence always has a claim that nobody is about to prune, or is covered (`Kept`). It
also lets what one worker decided count for the worker that resumes: a checkpoint at `decide`,
a copy of one, and a worker past deciding each mean that decisions of that batch were queued
(`Decisions`). The second chain is the lock: only its holder chooses a batch (`Locking`), nothing
is said about a batch that has not been made (`OnlyMade`), so the number it makes is fresh
(`FreshClaim`) and no pruning in flight hits the claim between its writing and its consumed
marker. `Undisturbed` adds, for runs without stalls, that the claim in a worker's hands is its
own and live until it is acknowledged; `HandledIsCovered` follows.

**ChannelTasks, `IInv`.** `TurnsDiffer`: two loops on one task hold it from
different claims. `LeaseHeld`: a loop that did not overrun its lease is the last claimant of
a running task, unless that task was settled late. Together they give `LeaseExcludes`.
`LastHolder`: the last claimant of a task finds it active with the attempts it
copied, however often the lease was reclaimed meanwhile; so its settlement neither
changes a settled task (`FinalIsFinal`) nor reopens a key that got a successor
(`OneActivePerKey`, which is itself a part). `AttemptsCounted`: claims are attempts
and aborts, and a waiting task has an attempt left or a reclaimed lease to show for it;
this gives `RunsBounded`. Where `OneServer` holds (no key is served by two loops, as in one
daemon process) `Undisturbed` is inductive too: nobody is ever replaced.

**ActivationLedger.** `TypeCorrect` carries what each place of a mutation has in hand (`HandOK`) and
where the pointer is at each step of the maintenance (`UpkeepOK`). The switch rests on three parts.
`Migrated` says which phase is on disk at each step of an operation as long as nobody has written
over it (`overwritten`), and gives `SwitchIsResumable`. `Shut` holds though daemons write back what
they had read: from the start of an operation to the move of the pointer the migration is never one
that somebody would resume, from the first write on it is never one that readiness lets pass, and no
daemon is about to resume a switch, or to write back the record of a switch that took place
(`Took`). It is this last part that keeps the first two: the phases a daemon can write back are in
flight too. `Alone` follows: nobody who was at rest at the second look gets to a turn, which is
`SwitchesAlone`. The ledger rests on its lock (`Locked`: a mutation under way is its holder's).
`View` is the state of an activation counting the shards that are being swapped (`Shards`), which
the disk does not show at every moment; `WriterOK` relates the ledger a writer has staged to it,
rename by rename, and `Live` says that the deltas explain the `View`, which is `DeltasExplainLedger`
whenever nobody is swapping. `Routed` holds the pump to it: the evidence before the cursor, and
before the one in hand, is recorded. For the generations, `Carries` and `Agrees` relate the staged
successor to the ledger in use: live claims are carried over, a handled activation is handled in the
successor of a rebuild and its claim is not live. That nobody wrote the ledger meanwhile is what
`meddled` records; with it, `HandledIsKept` holds through the move of the pointer.

**ChannelSpeech.** A step leaves the outbox and the count of messages alone, writes a message, puts one
back, or moves one to sent or failed (`OutboxEffect`). Hence no step empties a candidate's outbox or
takes back that a message was sent (`OutboxKeeps`). `Balanced` relates the outbox to what was written:
messages sent and pending are at most those written, one that failed was written, and a retry
about to put a message back has seen that it was not sent. The notify worker takes one message in hand at
a time (`Single`). For `OneMessage`, `Solo` says that one writer works while no lease was lost, and
only while its task runs; `Looked` what it still knows of the places it has been through (when it is
about to write, nothing is pending or failed, and at most one message was written before);
`Copying` that a retry puts a message back only where none is pending. The message that was sent between
two looks is what keeps a second one from being excluded. `Written` says that a worker about to
cool the key or to mark its candidate has the message in the outbox, whoever wrote it; an event in a
hand keeps its candidate (`HandStays`, `CandidateStays`), and `MarkedIsWritten` follows. `ToSend` says
that what the notify worker still has to send is pending; `Accounted` that each delivery is recorded,
about to be recorded by the worker in its place, or owed to a crash or a lost answer. The one
assumption is that there is a candidate (`CandidatesAssumption`), without which the rows of events
have no type.

All invariants were checked with TLC on the instances of the runs before they were proved.
Eleven of the theorems state properties that no run lists any more, because the proof says more:
`NoOrphan`, `VerifiedMeansReported`, `FilesAgree`, `HandledForGood`, `FinalStaysFinal`,
`NobodyIsLate`, and the type correctness of the modules whose runs list none.

Every safety property of a passing run is proved. Only model-checked is the liveness: `RunEnds`,
`EveryResultSettles`, `WorkSettles`, `EvidenceSettles`, `WorkIsDone`, `EveryTaskEnds` and
`Answered` rest on fairness and on when actions are enabled, which is out of the prover's reach.

## 5. Where the code and its documents disagree

Two statements are refuted by a run:

* `decided`. A resumed run of the cognitive reactor patches the stage `report`
  unconditionally (`cognitive-reactor.mjs:820`), over a checkpoint at `decide` that had recorded
  its queued decisions. It reuses them itself, but when it crashes before its own `decide` the next
  run reads `report` and queues decisions for the batch once more.
  `docs/reactor-target-mechanism.md:151` promises replay from the checkpoint without repeated side
  effects.
* `torn`. `installStagedTerminal` renames the live terminal shards to `.prev` and then `.next` to
  the live name (`activation-ledger-terminal.mjs:320`, `:321`). A process killed between the two
  leaves no live shards; no reader looks at `.prev` or `.next`, and the next installation removes
  both. Every identity handled before is then unknown to the ledger, although its deltas still tell
  of it. `activation-ledger-store.mjs:971-977` says that a crash after the switch leaves matching
  sequence, deltas and handled identities, and `activation-ledger-terminal.mjs:307` that the live
  shards stay untouched.

These were met while modelling. Each is part of the models, and is why a property is stated
with the exception it has:

* The queue is claimed before the intent is written (`src/engine/pipelines/exec.mjs:493`). A crash
  in between leaves a decision `in_progress` with no open intent; recovery scans intents only,
  maintenance expires `pending` and `blocked` only, and the hot fingerprint keeps the action from
  being added again. `NothingStranded` is therefore about runs without a crash.
* `completeDecision` is called inside the `try` of `_executeOne` (`exec.mjs:514`). When its lock
  times out, the `catch` branch (`:527`) marks the completed intent failed and sends the decision
  back to `pending`: an action that succeeded runs again. By the same branch a lock timeout closes
  an uncertain intent, the exception of `UncertainIsFinal`.
* `requeueDecision` sets `attempts` to 0 (`decision-queue.mjs:804`). When the uncertain intent
  belongs to a later attempt than the first, the requeued decision starts under another key and its
  action runs again; `README.md:499` says an uncertain intent is never blindly replayed.
* A worker dies during a verification. Its task is retried before the claim on the result has
  expired, finds nothing due and completes. From then on the scan asks for `pending_verify` and
  `verify_failed` results only (`exec-result-store.mjs:202`): the expired claim starts no task of
  its own. `EveryResultSettles` excuses crashes for it.
* A task retried under the same execution id replaces `executed` of a result that covered the first
  run's receipts (`exec-result-store.mjs:87`), which are then never verified.
* A speech task that crashes leaves the channel events it has claimed claimed for ever
  (`src/channel/event-queue.mjs:97`); `Answered` excuses crashes for it.
  `docs/evidence-batch-primitive-review.md:45` and `:50` expect a release.
* A budget hold is released by a turn whose plan has the park key. A turn that crashes between
  parking and writing its plan, or a one-shot turn that writes an older plan over it, leaves the
  hold to nobody until the budget runs out again (`Orphaned`).
* A rollback to a backup in which an activation was claimed makes a handled one claimed again
  (`activation-identity-migration.mjs:535`, `:600`): the exception of `HandledIsKept`.
  `docs/reactor-control-plane-baseline.md:49` has handled identities preserved.
* A rebuild keeps what was claimed or handled and drops what was ready or deferred, and the router
  goes on at the end of the journal (`evidence-router-pump.mjs:128-138`); so it drops evidence that
  had not been routed, too. `RoutedIsRecorded` is therefore about one generation. An expired claim
  whose evidence carries a consumed marker is reconciled as handled.
* A rollback writes no `atomic_switch` phase. Killed between the pointer and the phase `switched`,
  it leaves the phase `stage`, which nothing resumes, and the control plane closed;
  `SwitchIsResumable` is about rebuilds. A rebuild that is killed before the switch leaves its phase
  in flight until the next operation.
* One-shot processes are not seen by the maintenance, and a worker that took the ledger's path
  before the pointer moved writes into the generation that was left (`meddled`).
* Readiness reads the migration, walks the evidence sources and writes the phase it has read back
  (`upgrade-migration.mjs:287`, `:167-184`), with no lock. A daemon that starts after the second
  look for workers may put an early phase over `atomic_switch`, `switched` or `complete` when the
  pointer has moved. Nothing resumes that phase, and the control plane stays closed: the exception
  `overwritten` of `SwitchIsResumable`.
* Maintenance compares the execution with the last one that aged a decision only
  (`decision-queue.mjs:948`). When `retryTask` (`daemon-tasks.mjs:352`) runs an older execution
  again after a newer one, it ages the decisions a second time, and they may expire early;
  `test/decision-queue-unified.test.mjs` has a maintenance cycle counted once, for the same cycle
  twice in a row. `AgedOncePerTurn` bounds the ageing by the turns from one execution to another.
* Selection is by priority first (`reactor-scheduler.mjs:147`), and siblings of a causal group may
  have different priorities (`evidence-router.mjs:544`). A predecessor that is inserted when its
  successor has been picked is overtaken: the pairs of `late`, which `CausalOrder` excuses.
* The outbox is looked through place by place and then written, with no lock
  (`src/channel/state.mjs:379`, `:390`). A message that is sent between two looks of a writer is
  written again, and after a lost lease two writers may write one each, so that two are pending: the
  exceptions of `OneMessage`.
* A presence run leaves out every candidate whose key is among the latest twenty, whether or not its
  cooldown has ended (`src/channel/presence-context.mjs:120`, `expression-candidates.mjs:210`), and
  a control result is a candidate only while its event is among the latest fifteen
  (`presence-context.mjs:252`). A candidate may therefore stay unanswered without a crash: when an
  exception strikes after the message was written and the key was set, or the event leaves the
  window. These are the exceptions of `Answered`.

## 6. Not modelled

* Exec: dry runs, the execution journal, mechanical guards (`cycle-steps.mjs:1386-1450`, a further
  source of decisions), the switch that turns cycle TTLs off, the purge of terminal decisions after
  seven days (it removes records nothing refers to any more), timeouts of the lock of
  `exec-intents.json`, and the agent rate ledger across runs (`AgentBudget` is what one run may
  start).
* Verification: the archive of verified results, the pointer to the latest, the limit of 500
  receipts, and a report torn in a way that still parses.
* Task queue: cancel, acknowledge and retry by an operator except `RetryTask` of `ExecVerify`,
  archiving, the round and step order of cycle tasks, and a queue file that cannot be parsed (it
  reads as empty).
* Scheduler: the budget itself (it is exhausted or not), token and spend allowances of a replay
  plan, failure injection, the state projections; the `blocked` state of an activation, which no
  code path produces.
* Cognitive reactor: shadow mode, batches without a target, what the model writes, the honesty
  check; memory and the wake it records.
* Ledger and maintenance: the conversion of the first format, the projection and the diagnostics;
  routing rules, deduplication and scan of the sources, the index refresh, the disk preflight,
  unknown identities, the validation of what was staged; of readiness, the branches that write
  `detect`, `inspect`, `policy_backfill` or a refusal for want of disk space; that a rollback reads
  the ledger somewhat earlier than it stages; policy backfill and replay epochs.
* Channel: the limits of twenty keys and fifteen events themselves (the keys shown are any subset,
  and an event may leave at any moment), ingestion and classification of messages, recompute events,
  agent runs, briefs, the hourly rate limit, dry runs, the retry delay (zero by default); deprecated
  task types, heartbeats, the worker state file.
* Everything marked `not_modelled` in `PROJECT.json`: network adapters, prompts, reports and model
  clients are text and I/O with little order to get wrong; the rule reactor, the settlement service,
  the agent rate ledger, the mechanical guards and the supervisor lease have state of their own and
  are what is left to do (section 7).

## 7. Plan

Done: `ExecLifecycle` with `AttemptLedger`, `ExecVerify`, `ReactorScheduler`,
`EvidenceReaction`, `ChannelTasks`, `ActivationLedger` and `ChannelSpeech`, with the proofs of their
safety properties. Left, in order of importance:

1. Abstract specifications of more than the intents, refined as `AttemptLedger` is: an activation
   as `ReactorScheduler` sees it, implemented by the files of `ActivationLedger`.
2. The rule reactor with its cursors and circuit breaker; the settlement of beliefs and goals; the
   agent rate ledger over several runs; the supervisor lease.
