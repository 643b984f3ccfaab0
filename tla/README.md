# SnerdMQ in TLA+

A verification project for the SnerdMQ daemon (`src/src/*.rs`): TLA+ models of its components, TLC
runs over small instances of them, and TLAPS proofs of what the runs check. `PROJECT.json` lists
components, runs, mutations, the source lines behind every definition, the hazards, the findings and
the theorems; this file explains them.

SnerdMQ is a job queue that runs beside its client. Clients talk JSON lines over stdin and stdout;
jobs are kept in append-only logs, one per *shard* of a queue directory; several daemons may share
that directory and divide its shards among them.

## 1. Inventory

| Component | Source | State | Operations | Model |
|---|---|---|---|---|
| Queue engine, one per shard | `queue.rs` | `queued_tasks`, `executing_tasks`, `completed_tasks`, `active_hashes`, `paused`, handlers; per pool a heap, a dispatcher count, a semaphore | `enqueue`, `register_task_handler`, `process_due_tasks`, `spawn_dispatcher`, `execute_task`, eviction, recovery in `new_with_pools` | `SnerdQueue`, implementing `JobContract` in `SnerdContract` |
| Task model | `task.rs` | a task's retry count, retry time, schedule, priority | `new`, `update_retry_config`, ordering | inside `SnerdQueue` |
| File store | `file_store.rs` | the log, `tasks_cache`, counters | `new` (replay), `save_task`, `delete_task`, `compact_log`, `read_tasks` | `FileStore`, implementing `DurableMap` |
| Rate limiter | `rate_limiter.rs` | one JSON file with a window per group | `check_and_increment` | `RateLimiter` |
| Membership | `membership.rs` | `membership.json`: shard count, claims with leases | `init`, `claim`, `revert_claim`, `renew`, `release`, `claimable_shards` | `Cluster` |
| Shard runtime | `main.rs`, `sharding.rs` | the engines a daemon runs, their flocks, registered handlers, `shutting_down` | boot, `acquire_shards`, `start_engines`, heartbeat, standby loop, `shutdown`, `add-shards` | `Cluster`; `add-shards` step by step in `QueueDir` |
| SDK protocol loop | `main.rs`, `protocol.rs` | `pending_executions`, one oneshot channel per execution | Execute and Result lines, timeouts, SIGTERM, end of input | `Sdk`; Register in `Cluster`, Enqueue in `QueueDir` |
| Layout and migration | `sharding.rs` | which files the directory holds | `detect_layout`, `resolve_layout`, `migrate_legacy_unlocked` | `QueueDir` |
| Routing | `sharding.rs`, `main.rs` | the shards the daemon serves | `route_shard` | `QueueDir` |
| `replay`, `validate` | `main.rs` | none of their own | read, and append to, logs; read membership and directories | `QueueDir`; of `validate` not the claims |
| Metrics, wire format, library facade | `main.rs`, `protocol.rs`, `lib.rs` | counters nobody reads back, data definitions | | not modelled |

**How they interact.** The message loop hands an Enqueue line to one engine of the daemon. The engine saves
the task through its file store; its processor scans the store every 2 seconds, pushes due tasks into per-pool
heaps and starts up to two dispatchers per pool, which take a permit, pop a task, ask the rate limiter, and
spawn an execution. An execution calls the webhook or the SDK (a line out, a channel to wait on, a line in),
then completes, retries or gives up, which writes the store again. An engine exists while its daemon holds
the shard's flock; the claim in `membership.json` says who should. At boot a daemon finds the directory
fresh, sharded, or in the layout of the previous version, which it moves into shard-0 file by file; the
commands work on the same files as the daemons, under `.membership.lock` or a shard's flock. Heartbeat,
standby loop, shutdown and message loop share the engines under a lock.

**What is hard.**
- *Interleavings.* Every actor of the engine is a tokio task; the processor works on copies it read
  before it took any lock, so a task may be executed, completed, rewritten or deleted between its
  read and its push. Which set an id is in, at each step, is what keeps a task from running twice
  or never again.
- *Failure.* Every verdict is followed by a write that may fail or that a crash may prevent; the
  log's two writes per line can be torn; claim and flock are two steps on two files.
- *Time.* Leases read by clocks that differ, heartbeats that may be late, timeouts that race with
  answers, fixed rate windows.
- *Files as shared memory.* Daemons that boot, a daemon of the previous version and three commands meet
  in one directory. Each looks at it before it takes a lock, or goes on after it has released one, and
  any of them may die between two renames.
- *Shutdown.* A drain that waits for executions runs beside the loop through which they would end.

**What makes each component correct.** *Engine*: an accepted job is stored until it has its verdict, gets
its attempts and no early dead letter, runs once at a time and never after its verdict; permits and
dispatcher counts are conserved; a payload's hash is active exactly while a job with it is pending. *Store*:
a confirmed operation survives; cache and counters are what the log says. *Rate limiter*: a bound on the
calls in any window. *Membership and runtime*: one processor per shard; a running daemon keeps its claims;
claims pass only when lapsed or given up; a dead daemon's shard is served again. *Directory*: no accepted
job ends up in a log that no boot will serve; of the engines that run, one has a given task; the shard count
only grows; replay revives what failed. *Protocol*: an execution always ends, by its own answer or its
timeout.

## 2. Modules

| Module | What it is |
|---|---|
| `SnerdQueue` | One shard's engine, with the store reduced to a map from id to task |
| `JobContract` | What the sender of a job is promised: the phases of a job |
| `SnerdContract` | The refinement mapping from the engine to `JobContract` |
| `MCSnerdQueue` | Sets of jobs for the runs of the engine |
| `FileStore` | The task log, line by line |
| `DurableMap` | What a crash-safe map promises; `FileStore` implements it |
| `RateLimiter` | The fixed windows in their file |
| `Cluster` | Daemons, claims, flocks, clocks |
| `Sdk` | Executions through the SDK, and shutdown |
| `QueueDir` | A queue directory: boots, migration, routing, commands, the previous version |
| `MCFileStore`, `MCRateLimiter`, `MCCluster`, `MCSdk`, `MCQueueDir` | Their instances |
| `SnerdQueueProofs`, `SnerdContractProofs`, `FileStoreProofs`, `RateLimiterProofs`, `ClusterProofs`, `SdkProofs`, `QueueDirProofs` | Theorems about each, section 6 |
| `SetInduction` | Induction up to a number and the greatest of a set, for the proofs about sums and logs |

The modules do not share variables; they meet at interfaces that each assumes of the other.
`SnerdQueue` uses the store as `FileStore` behaves where no line tears: a save or a delete happens or
fails, and a restart finds what was saved. It takes the rate limiter's answer as a free choice, and
an execution's outcome as a free choice. `Sdk` reduces the engine to "a failed task is executed again
until its attempts are used up, one execution at a time", the latter being `OneExecutionPerTask`.
`Cluster` sees an engine as a processor that runs from `build_engine` on, and a directory that is
sharded already. `QueueDir` takes from `Cluster` that who serves a shard holds its flock, from
`FileStore` that a log is the last record of each id, and from `SnerdQueue` what the verdicts on a task
write; it leaves claims and leases out and lets a daemon serve any shards whose flocks it gets.

Names of variables and actions are those of the code where it has one (`queuedTasks`,
`ReadTasks` for the read at the head of `process_due_tasks`, `TryLock` for `try_lock_shard`). An
operator commented *Mutated* is a plausible bug: put in place of the definition it imitates, it makes
the property that `PROJECT.json` pairs it with fail. They are never part of a specification.

### The queue engine (`SnerdQueue`)

A *job* is one enqueue request; a *task* is one copy of its record. The store, the snapshot that the
processor scanned, the heaps, a dispatcher's hands and an execution may each hold a different copy of
the same job. History variables say which jobs were accepted, finished (succeeded, or exhausted their
attempts), dead-lettered, and how often each failed.

One action is one critical section, or steps no other tokio task can tell apart from one. A
`process_due_tasks` is `ReadTasks` (`read_tasks`), `PushDueTasks` (the scan under the two set locks and
the pushes; pushing earlier or later than the rest of the scan can only be seen by a dispatcher that
pops), and one `StartDispatcher` per pool. A dispatcher goes round `Pop`, then `Deny` or `Admit`, or
ends with `PopNone` and `Exit`: two steps, since another actor can act between the empty pop and the
`fetch_sub`. An execution is `SkipCompleted`, or `Begin` and then its outcome (`NoHandler`, `Succeed`,
`Retry`, `GiveUp`), followed for a verdict by `Delete`, `Unhash` and `Return`, in the code's order.

A task carries `due` instead of times. A stored copy becomes due in `BecomesDue`; a copy read earlier
keeps what it was read with, as in the code. Heaps are sets popped by urgency; the order among equals
is left open, which allows every order the code's tie-breaks can produce. A job with `overflow` has a
`retry_after_hours` beyond what chrono represents: `update_retry_config` panics, the execution unwinds
through its guard and permit, and nothing is saved (`SaveRetry`).

`SnerdContract` maps this state to the phases of `JobContract`. A job is *running* while its handler is
called, *settled* between the verdict and the tombstone, *waiting* as long as the store has its record,
then *closed*; copies in queues and hands are not told apart. Two calls at one time are mapped to no
phase at all, so that the contract would be broken. The contract bounds the attempts from below only:
`doc_attempts` shows that it cannot from above.

### The file store (`FileStore`)

The file is a sequence of lines, each a sequence of fragments; `disk` keeps every content since the last
sync, so that a process kill leaves the newest and a power failure any of them. `writeln!` on a file makes
two writes, hence `BeginWrite` and `EndLine`. What a reader finds is said by positions: `Read` are the lines
it gets to and can parse, `Surviving` those that are the last of their id. `lastOp` remembers the last
operation on each id and whether it was confirmed. A rename of a synced file is taken to be durable.

`DurableMap` is a sequence of maps, what a reader finds last and what a crash may fall back to before it,
with the last operation on each id and whether the caller has got its answer. With an answer (`Confirm`) it
gives up every earlier map. Under the mapping `seen[i] = Replay(disk[i])`, `op = lastOp` the answer is the
return of `save_task` or `delete_task` with `Ok`, so that a return before `sync_all` breaks the contract.
The first of a line's two writes is a `Write`, its line feed a `Touch`. A compaction must be a `Settle` for
the newest map, a power failure is one for any of them; what fails, and a process kill, change nothing.

### Rate limiter, cluster, SDK

`RateLimiter` keeps the age of each window; a call is `Check` (lock, read, decide, truncate) and
`Answer` or `Lose`, since a failure or a crash between truncation and write empties the file for all
groups. A call takes no time.

`Cluster` keeps what is left of each timer, in Ticks. A lease's remainder is on the true clock; a
daemon's clock is ahead by its `offset`. With `"stall"` in `Faults`, time passes whatever a daemon is
doing; without it, `OnTime` makes every daemon finish an acquisition or a heartbeat round before the
next Tick and serve its timer within `Delay`. Acquisition is one claim, lock or rollback at a time, as
in `acquire_shards`; `orphans` are processors whose engine was dropped. A standby loop's timer and the
heartbeat's share `due`, since one is only used while the daemon has no engine.

`Sdk` tags a result with the attempt it answers. The code cannot see that tag; the model uses it only
to record strays. The process ends with its loop, at a line during a drain (`LineDuringDrain`) or at the
end of the input (`EndOfInput`), or with the drain.

### The queue directory (`QueueDir`)

A place is the root or a shard; at each there is a log, as the last record of every task, and a lock
file with the holder of its flock, which follows the file when it is renamed. A boot is `Boot`
(`detect_layout`, before the lock), then `Join`, `InitFresh` or `Probe`, `MoveLog`, `MoveLock`,
`InitAdopted`: the steps of `resolve_layout` between which a process may die or another may act. The
re-checks under the lock are in their guards. `Serve` is `acquire_shards` with `start_engines`; the
claims that steer it only take choices away. Of a record, `deleted_at` and `last_error_obj` are kept,
which is what replay looks at; the work of an engine is what its verdicts write. A task id is routed by
a given hash modulo the number of shards the daemon serves.

`add-shards` is `AddShards`, one `CreateDir` per shard, `WriteCount`; `validate` is `Validate` and
`Look`; `replay` goes through the shards with `LockShard`, `Append` per line, `NextShard`. The previous
version (`LegacyStart`, external) takes the root's lock and works on the root's log; it knows neither
membership nor shards. Unless `"downgrade"` is among the `Faults` it is not started on a directory that
a daemon of this version has begun to change; unless `"quiet"` is, it has a log if it runs at the start.

## 3. Runs

On two cores the slowest run takes some two minutes.

| Run | Instance | Shows |
|---|---|---|
| `engine_safety` | a rate-limited local job with 2 attempts, a delayed webhook job with 1; failed writes, crashes | `TypeOK`, `QueuedExact`, `NeverQueuedWhileExecuting`, `DispatcherCountsExact`, `StuckOnlyIfFinished`, `NeverLost`, `NeverGivesUpEarly`, `StrandedOnlyByTwo` |
| `engine_pools` | one id, sent twice to two pools, the first with a backoff that overflows, the second a cron job on the shared default semaphore; evictions | `OneExecutionPerTask`, `PermitsConserved` |
| `engine_dedupe` | two jobs, one payload; retries, crashes | `HashHeldWhilePending`, `HashOnlyWhilePending`, `ImplementsJobContract` |
| `engine_liveness` | an urgent plain job with 2 attempts, a rate-limited one with 1; no crash, no eviction | `NeverRunsAfterFinish`, `EveryJobGetsItsVerdict` |
| `store_faults` | 2 writers, 2 ids, 2 records, compaction after 3 appends; kills, power failures, 2 errors or torn lines | `TypeOK`, `CacheIsLog`, `CountersAreLog`, `OneTearOneLoss` |
| `store_durable` | 2 writers, 2 ids, 2 records; power failures, one failing append or sync | `ImplementsDurableMap` |
| `limiter_windows` | 2 groups, calls with limits of 0 to 2 per 3 Ticks, 1 lost write | `TypeOK`, `AtMostTwoWindows` |
| `cluster_faults` | 2 daemons, 1 shard growing to 2, 2 boots; kills, stalls, failing files, lines during a drain, one owner id for both | `TypeOK` (with `SNERD_MAX_SHARDS`), `OneProcessorPerShard`, `OnlyLapsedClaimsPass` |
| `cluster_failover` | 2 daemons, 1 shard, 3 boots, offsets 0 and 2; kills | `HeartbeatKeepsClaims`, `Failover` |
| `sdk_timeouts` | a timed and an untimed task of 3 attempts; shutdown, end of input | `TypeOK`, `WaiterIsReachable`, `OnlyTimedAreConfused`, `EveryExecutionSettles` |
| `dir_processes` | 2 daemons asked for 1 and 2 shards, the previous version, 2 commands, 2 boots, 2 tasks; crashes | `TypeOK`, `NeverLost`, `OneEnginePerTask`, `EngineSeesLog`, `ShardsOnlyGrow`, `ReplayRevivesOnlyFailed`, `OkIsCurrent` |
| `doc_replay` | the same, commands one at a time | the violation of `ReplayRevivesOnlyExhausted`, section 4 |

**Why these bounds.** A hazard of the engine involves two copies of one job, or two jobs meeting in
one set or pool: two jobs with two attempts give stale copies of every age, a second worker or a
second pool gives the concurrency. Dispatchers are all there can be (two per pool), plus a third name
so that a miscount is not cut off by the model. `failures` saturates at `FailureCap`, above every
`max_retries`. The store needs a record, one over it, a tombstone and two writers; deletions and the third
append make compactions. The limiter's history is as long as a window. The cluster needs a holder, a
challenger, and a restart; two shards for what happens to the first while the second is acquired. In
`cluster_faults` a stall lets any lease lapse, as a clock that is ahead would, so one offset is enough;
in `cluster_failover` Lease = 3, Renew = 1, Delay = 1, Margin = 1 and offsets that differ by 2 are tight:
a lease is renewed at most Renew + Delay Ticks late, and Lease + Margin exceeds that by the offset.
The code has 30 s, 10 s and a margin of 5 s. Three attempts of the SDK let an answer be late by two
executions. A directory's hazards need two processes that boot or one that boots again, and two
commands at once; one daemon serves two shards, so that the two ids, whose hashes differ modulo 2, are
routed apart; one id has a single attempt and the other two, since replay tells them apart; five is
more shards than two `add-shards` can reach from two. A bound on boots, versions, errors or lost writes stops
its own action only.

**What the runs do not meet.** `engine_safety` tells attempts apart with a `max_retries` of 2 and of 1;
`NeverGivesUpEarlyCorrect` is for all. `HashHeldWhilePending`, `HashOnlyWhilePending` and
`ImplementsJobContract` are run without failing writes, and are false with them (`doc_dedupe`).
`NeverRunsAfterFinish` is run without failing writes, too; its theorem allows them. `Failover` is about one
shard: with two, a daemon that has an engine no longer looks for shards (`doc_takeover`).
`EveryJobGetsItsVerdict` excuses a stranded queue; `StrandedOnlyByTwo` says when there is one.

**Mutations.** Each property of a passing run is paired with a mutation of the modelled code that
breaks it under the same configuration.

## 4. Findings

One run checks a statement made by a comment in the code, and TLC shows a behaviour that contradicts
it.

- `doc_replay`: "It's a failed task of the target type!" `snerdmq replay` takes every tombstone that
  carries an error for a failed task. A job that fails once is saved with the error; when its retry
  succeeds, the tombstone is that record with `deleted_at`, error included. Replay appends it again as
  a fresh task, and the next daemon executes a job that has succeeded. The opposite happens, too
  (`doc_missed`): a job with a single attempt fails for good without its error ever being stored, and
  replay does not find it.

Further configurations, not among the listed runs, show what else the code does that its documents do
not say; each has one property and TLC violates it:

| Configuration | Statement | What happens |
|---|---|---|
| `doc_dispatchers` | dispatchers are started for pools that have new tasks | two that have seen the queue empty are still counted when a task is pushed: none is started, the task waits until another of its pool arrives |
| `doc_orphan` | an engine's flock is the handle proving ownership | a later engine of the same promotion fails to start: the earlier one is dropped with its flock, its processor goes on; hence the condition of `OneProcessorPerShard` |
| `doc_guard` | the guard guarantees removal from `executing_tasks` | a completed id returns before the guard exists and stays in the set |
| `doc_attempts` | `max_retries` is the total of attempts | a copy read before a failed attempt was saved runs with the old count; with `Req <- ReqOverflow` a backoff beyond chrono's range panics before the attempt is saved, and the handler is called at every tick, for ever |
| `doc_pause` | pausing stops new dispatch | dispatchers do not look at `paused` |
| `doc_duplicate` | completion prevents duplicate execution | a refused stale copy is saved over the tombstone, and runs after eviction |
| `doc_dedupe` | only a payload that is pending is dropped | a failed write leaves its hash active |
| `doc_torn`, `doc_clock` | corruption-free storage | a record written on a torn line; compaction under a clock that stands still |
| `doc_window` | a rolling window | fixed windows: twice the limit where two meet |
| `doc_rollback` | membership never disagrees with the locks | a rolled-back takeover removes the live owner's claim |
| `doc_takeover` | daemons take over lapsed claims | only daemons without any engine do |
| `doc_drain`, `doc_answer` | shutdown releases claims; the drain waits for executions | the next line on stdin ends the process |
| `doc_handler` | handlers are replayed onto every engine | one registered between replay and publication is not |
| `doc_late` | a late result is refused as expired | it settles the retry |
| `doc_missed` | replay recovers failed tasks | not those that had a single attempt |
| `doc_overwrite` | the log is moved atomically, no data can be lost | after a crash in the migration and a downgrade, the next migration renames the new root log over the shard's |
| `doc_probe` | no legacy daemon is active once its lock could be taken | the lock is released again before the rename |
| `doc_quiet` | jobs are not lost | a legacy daemon without a log yet is not seen: the layout is fresh, and what it accepts is in a log no shard serves |
| `doc_wrap` | the shard count only grows | in a release build the u32 sum wraps |
| `doc_twins` | owner ids are stable identities | of two daemons with the same id the standby one claims the other's shard as its own, fails to lock it and rolls the claim back: the one that serves it has lost its lease and pauses |
| `doc_resend` | two containers cannot process the same queue concurrently | sent again after its daemon has gone, an id is routed over another set of shards and lands in a second log |

## 5. Fairness

`SnerdQueue`: weak fairness of the processor's steps (it runs on an interval), of time passing for a
stored task (`BecomesDue`), of a dispatcher's steps after the pop and of every step of an execution
(its handler answers or times out; `Sdk` covers this). Strong fairness of a dispatcher's pop: it waits
for a permit, which comes and goes; tokio's semaphore serves waiters first come, first served. A
refusing rate limiter, failing attempts and clients are not fair. The disjuncts of
`EveryJobGetsItsVerdict` name what the code does not promise: a job the rate limiter may go on
refusing, a paused shard, a type without a handler, and a stranded queue (`doc_dispatchers`). The
plain job of the run is the more urgent one: the heap does not order tasks of equal urgency, so one
that is refused and pushed again could be popped before an equal one each time.

`Cluster`: weak fairness of time and of a daemon's own tasks; no daemon needs to start, to stop or to
stay up. Kills are bounded by the number of boots, after which `Failover` must come true.

`Sdk`: weak fairness of the daemon's tasks and timers and of the SDK's answers to tasks *without* a
timeout; a task with one settles whatever the SDK does. Signals and the end of the input are not fair, and
end the promise.

`QueueDir` states no fairness, and no liveness.

Liveness runs use no symmetry.

## 6. Proofs

TLAPS proves every safety invariant, every action property and both refinements that the runs check, for
any sets of jobs, ids, daemons, tasks, workers, any numbers of shards, attempts, boots and errors, and
any lengths of leases and windows. Where a theorem has a hypothesis, the property is false without it:
TLC finds a violation as soon as a run's configuration is changed to drop it, and where section 4 has
such a configuration it is named beside the theorem. The runs that check these properties satisfy the
hypotheses.
The constants are constrained by the named assumptions of each module: sentinels are not values, bounds
are naturals, and what is said below.

Each module proves an inductive invariant from `Init` and for every action, most of them one lemma per
action, and its theorems are read off from it.

### The queue engine (`SnerdQueueProofs`)

From `ReqAssumption` (jobs are requests), `PoolAssumption` (the default pool is configured, permits are
naturals), `CapAssumption` (the history counter can count to every `max_retries`).

| Theorem | Property | Where |
|---|---|---|
| `TypeCorrect` | `TypeOK`; in particular permits never fall below zero | |
| `QueuedExactCorrect` | `QueuedExact` | |
| `OneExecutionCorrect` | `OneExecutionPerTask` | |
| `NeverQueuedWhileExecutingCorrect` | `NeverQueuedWhileExecuting` | |
| `NeverLostCorrect` | `NeverLost`, which is about unique ids | |
| `NeverGivesUpEarlyCorrect` | `NeverGivesUpEarly` | |
| `StuckOnlyIfFinishedCorrect` | `StuckOnlyIfFinished`, which is about unique ids | |
| `DispatcherCountsExactCorrect` | `DispatcherCountsExact` | |
| `StrandedOnlyByTwoCorrect` | `StrandedOnlyByTwo` | |
| `PermitsConservedCorrect` | `PermitsConserved` | |
| `NeverRunsAfterFinishCorrect` | `NeverRunsAfterFinish` | no restart, no eviction (`doc_duplicate`) |

*The inductive invariant.* `QueuedExact` and `OneExecutionPerTask` are not inductive. That a scan pushes
an id with no other copy rests on three more facts, which with them make up `IInv == TypeOK /\ Keyed /\
WaitingOK /\ HandsOK /\ Placed /\ ExecutionsOK`: records in store and snapshot are filed under their own
id (`Keyed`); a waiting or popped task is in its own pool, in `queued_tasks`, and alone (`WaitingOK`,
`HandsOK`); an id in `queued_tasks` has a copy (`Placed`); a running execution's id is in
`executing_tasks`, is not queued, and is alone (`ExecutionsOK`). The argument: the scan skips ids of
both sets, so a pushed id has no copy; a copy moves from heap to hand to execution, its id from one set
to the other in one critical section; the id leaves the second set only with the execution.

*Verdicts.* `NeverLost` needs `VerdictFirst`: an execution about to delete has given its job a verdict.
Since every other write of the store saves a copy of the same id's record, an unfinished job with a
unique id stays stored. `NeverGivesUpEarly` needs `RetriesCounted`: no copy anywhere, however stale,
counts more retries than its job has failed. `StuckOnlyIfFinished` needs that the ids in
`completed_tasks` are of finished jobs (`CompletedOK`) and that an executing id has an execution or a
finished job (`Served`). `NeverRunsAfterFinish` needs that a verdict, once given, stays in
`completed_tasks` (`VerdictKept`), which a restart and an eviction end.

*Counting.* `DispatcherCountsExact` and `PermitsConserved` count sets of dispatchers and executions. The
names are not assumed finite, so `CountOK` and `PermitsOK` carry the finiteness of the sets counted
beside their sizes: a spawn adds one element, an exit removes one, a restart leaves none. For
`StrandedOnlyByTwo`, a pool with new tasks is only about while the processor starts dispatchers
(`PoolsInHand`), and it passes over a pool whose heap is not empty only when two are counted: were either
not on its way out, the queue would be served. A dispatcher that takes its last step leaves a queue that
was unserved before.

### Deduplication and the contract (`SnerdContractProofs`)

| Theorem | Property | Where |
|---|---|---|
| `HashHeldWhilePendingCorrect` | `HashHeldWhilePending` | unique ids, no failed write, no rate limit, no eviction |
| `ImplementsJobContractCorrect` | `ImplementsJobContract` | the same |
| `HashOnlyWhilePendingCorrect` | `HashOnlyWhilePending` | unique ids, no failed write |

Restarts are allowed. A failed write leaves a hash without a job (`doc_dedupe`); a rate-limited copy is
saved over a tombstone, and with an eviction runs again (`doc_duplicate`). `DedupeInv == IInv /\
CopiesAccepted /\ Fresh /\ CallsStored /\ HashesOwned`: every copy is of an accepted job; of every copy
about, the record is stored or its id is in `completed_tasks` (`Fresh`); a task is stored from its
handler's call to its tombstone, and not from there to the release of its hash (`CallsStored`); the
active hashes are those of their owners, a stored job or the execution that is about to release the
hash, and each has one. That every active hash has an owner at all, `OwnerOfEach`, is inductive with
`IInv` alone, and is what `HashOnlyWhilePending` takes. For the refinement each action of the engine is
mapped to one of the contract's, or shown to leave every phase as it is: `Enqueue` to `Accept`, `Begin`,
`Retry`, `GiveUp` to their namesakes, `Succeed` to `Succeed` or, for a cron job, `Recur`, `Delete` to
`Close`, and `Restart` to `Crash`.

### The file store (`FileStoreProofs`)

From `IdsAssumption`: a run meets finitely many ids.

| Theorem | Property | Where |
|---|---|---|
| `TypeCorrect` | `TypeOK` | |
| `CacheIsLogCorrect` | `CacheIsLog` | |
| `CountersAreLogCorrect` | `CountersAreLog` | |
| `OneTearOneLossCorrect` | `OneTearOneLoss` | cuts leave text, the clock moves (`doc_clock`) |
| `ImplementsDurableMapCorrect` | `ImplementsDurableMap` | lines do not tear, the clock moves (`doc_torn`, `doc_clock`) |
| `ConfirmedSurvivesCorrect` | the promise of `DurableMap`, and `ConfirmedSurvives` | the same |

Without the hypothesis on cuts, a torn character ends the replay, so that one open line costs any number
of records: this is a listed hazard, not a property.

`LogInv == TypeOK /\ OneWriter /\ LineOfLock /\ Decoded /\ ClosedAtRest`: one writer is in
`save_task_inner`, the holder of the lock has its line open until the line feed, every line is text
where characters are not cut, and, unless a line was torn, no line is open while nobody holds the lock.
`Agreement` adds that cache and counters are those of the log at rest and, while a writer holds the
lock, become so by what it still has to do; it is about the states in which no operation has failed, as
the properties are. `TearInv` bounds the damage: the confirmed operations that a reader does not find,
and the one an open line is about to swallow, are no more than the tears.

For the refinement, `Save` and `Tombstone` are writes of `DurableMap`, `EndLine` touches what no reader sees
(`EndLineReplays`), the return of an operation, which follows a sync, answers it, `Compact` settles for the
newest file and a power failure for any; everything else stutters. That the answer finds its own record
needs `Visible`: what a writer that holds the lock has appended is the last record of its id. That
compaction changes nothing a reader finds is where the positions of lines are compared before and after. The
promise of the contract, that nothing answered can come undone, is then an invariant of its steps
(`PromiseStep`), and `ConfirmedSurvives` follows.

### The rate limiter (`RateLimiterProofs`)

`TypeCorrect` and `AtMostTwoWindowsCorrect`, without hypotheses, for every limit and window and for calls
that bring limits of their own. The
invariant `Counted` follows a window of the history from its older end: the calls of a group younger
than the window in the file are that window's count; the older ones are at most one window's and one
more per lost write (`SinceBegin`, `BeforeBegin`, `OneBefore`). The sums over ages are functions
(`Younger`); that they exist and are monotonic is proved with `InductionUpTo`.

### The cluster (`ClusterProofs`)

From `TimeAssumption` (times are naturals, offsets have a maximum) and `NobodyAssumption`.

| Theorem | Property | Where |
|---|---|---|
| `TypeCorrect` | `TypeOK`, with `SNERD_MAX_SHARDS` | |
| `OneProcessorPerShardCorrect` | `OneProcessorPerShard` | its own premise excludes `doc_orphan` |
| `OnlyLapsedClaimsPassCorrect` | `OnlyLapsedClaimsPass` | |
| `HeartbeatKeepsClaimsCorrect` | `HeartbeatKeepsClaims` | no stall, no failing file, no equal ids (`doc_twins`), and `ClocksAgree` |

The first three hold whatever the faults, since who runs a shard holds its flock (`IInv == TypeOK /\
Staged /\ LocksHeld`). For the last, `ClocksAgree` is the inequality `\A o, p \in Offsets : p <= Lease +
o - Renew - Delay + Margin`: another daemon's clock may be ahead by what the lease and the margin leave
over a heartbeat that is late. The invariant `Kept` says how much of a lease is left: at least the lease
on its owner's clock minus the time since its last renewal. TLC checks the inequality where it is tight;
the theorem is for all values that satisfy it.

### The SDK (`SdkProofs`)

`TypeCorrect`, `WaiterIsReachableCorrect`, `OnlyTimedAreConfusedCorrect`, without hypotheses. `IInv ==
Typed /\ SentOnce /\ Reachable /\ OneAnswer /\ OnlyTimedAreConfused`: an untimed task's request is at
one place, the SDK, the line back or the channel, and is of the attempt that waits, which is why no
earlier answer can meet it.

### The queue directory (`QueueDirProofs`)

| Theorem | Property | Where |
|---|---|---|
| `TypeCorrect` | `TypeOK` | |
| `OkIsCurrentCorrect` | `OkIsCurrent` | |
| `EngineSeesLogCorrect` | `EngineSeesLog` | no downgrade beside a migration (`doc_probe`, `doc_overwrite`) |
| `OneEnginePerTaskCorrect` | `OneEnginePerTask` | the same, and no resending to another daemon (`doc_resend`) |
| `ReplayRevivesOnlyFailedCorrect` | `ReplayRevivesOnlyFailed` | the same |
| `ShardsOnlyGrowCorrect` | `ShardsOnlyGrow` | no sum wraps (`doc_wrap`) |
| `NeverLostCorrect` | `NeverLost` | no downgrade, no quiet daemon (`doc_quiet`), no sum wraps, daemons ask for at least one shard |

`Basic` relates `.membership.lock` to the procedures that hold it; `Flocks` says that who serves a place
holds its lock file; `Seen`, that the engine's cache is then the log; `Placed`, that a pending task is
in one place, that its sender is the engine there, and that what replay found under the lock is what it
will append to. `NeverLost` is proved by itself, along `RootKept`: until `membership.json` exists, what
the previous version left is in the root's log, or has been moved to shard 0 and the mover or the next
boot goes on from there. The two theorems about wrapping are of `Spec /\ [][NoWrap]_vars`.

### Only model-checked

The three liveness properties, `EveryJobGetsItsVerdict`, `Failover` and `EveryExecutionSettles`:
fairness and ENABLED are out of the provers' reach. So is what a RECURSIVE operator computes, but no
module uses one. Induction is proved in `SetInduction` for sets of numbers, from the well-foundedness of
the subsets of a finite set, since the library's induction theorems take an operator and cannot be
instantiated; the sums of the limiter rest on it.

## 7. Abstractions and limits

- Each locked region is one step, also where it contains file operations: membership under
  `.membership.lock`, compaction under the file lock. Failures in it are separate actions.
- In the engine a save or a delete happens or fails. A record whose `sync_all` fails is in the log
  although the call is refused, and a restart finds it: that is in `FileStore`, while in `SnerdQueue` a
  failed write has left nothing.
- Ids of one client are unique unless a run reuses them (`engine_pools`); `NeverLost` and
  `StuckOnlyIfFinished` are stated for unique ids: a deletion by id cannot tell two records apart, and an
  id sent again while it is in `completed_tasks` is left in `executing_tasks` (`doc_guard`).
- An owner id is the set of the daemons that have it. Ids differ, except under the fault `twins`
  (`cluster_faults`): containers without `HOSTNAME` whose pid is 1 share one in the code.
- Durations (backoff, TTL, cron) are reduced to due or not due, evicted or not, and a backoff to one
  that chrono can represent or not. A cron expression is one that always has a next tick.
- `QueueDir` has no claims, so `validate`'s report on them is left out; its logs have no torn or
  unsynced lines, which are `FileStore`'s, so a replay's line is there or not. A line that is not text
  makes `replay` return an error before it has appended anything for that shard (`main.rs:419`); what
  that leaves behind is what a replay leaves that dies before its first line for that shard.
- Deduplication and rate limits are per shard in the code, as their state is: `SnerdQueue` has one
  shard. The pools are shared by a daemon's engines; `SnerdQueue` gives them to one.
- A sum beyond u32 wraps as in a release build; a debug build panics instead.
- A clock may be ahead by a constant; it does not step, except in compaction (`"clock"`).
- Webhooks are their outcome; that no `max_execution_seconds` bounds them is a listed hazard.
- Acks, errors, progress and stats lines change no state and are left out.
- Not modelled at all: metrics, serialization, the syntax of cron expressions. They are data without
  control.

## 8. Plan

Done: every component's model, its runs, and the proofs of the safety properties and refinements. Left:

1. Lemmas that several proof modules share in other words (a set that gains or loses one element, a
   record changed in one field) put into `SetInduction` beside the induction.
2. The safety half of the liveness arguments: that a job which has no verdict always has an actor that
   can move it, or is in one of the states that `EveryJobGetsItsVerdict` excuses.
3. A contract for the store with torn lines: `DurableMap` with an answer that may be taken back once per
   tear, which `OneTearOneLoss` bounds but does not place.
4. For the other theorems with hypotheses, which weaker promise the code keeps without them.
