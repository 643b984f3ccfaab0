----------------------------- MODULE SnerdQueue -----------------------------
(***************************************************************************)
(* One shard's queue engine (src/queue.rs): the periodic processor that    *)
(* scans the task store, the per-pool priority queues with their           *)
(* dispatchers and concurrency permits, and the execution of a task from   *)
(* the handler call to the tombstone.                                      *)
(*                                                                         *)
(* Concurrency.  The processor, every dispatcher and every execution is a  *)
(* tokio task of its own; they share the sets queued_tasks,                *)
(* executing_tasks, completed_tasks and active_hashes and the task store,  *)
(* each behind its own lock.  An action is one critical section, or a run  *)
(* of steps that no other task can tell apart from one.                    *)
(*                                                                         *)
(* Time.  A task is dispatchable when execute_at <= now and                *)
(* retry_after_time <= now.  Only that comparison matters, so a copy of a  *)
(* task carries the flag "due"; BecomesDue lets time pass for the stored   *)
(* copy.  A copy read earlier keeps the times it was read with.            *)
(***************************************************************************)
EXTENDS Integers, FiniteSets

CONSTANTS
    Jobs,        \* enqueue requests of the clients; each is sent at most once
    Ids,         \* task ids: two jobs with one id model a re-enqueued id
    Pools,       \* pool names that tasks mention
    Configured,  \* pools with a semaphore of their own (SNERD_POOLS)
    DefaultPool, \* the "default" pool, always configured
    Permits,     \* semaphore size of each configured pool
    Hashes,      \* payload hashes
    NoHash,      \* auto_dedupe is off
    Types,       \* task types
    Req,         \* the content of each job
    Workers,     \* names for running executions
    NoTask,      \* absence of a task
    FailureCap,  \* bound: the history variable failures saturates here
    IoErrors,    \* may writes to the task log fail?
    Crashes,     \* may the process be killed and restarted?
    Expiry       \* may completed_tasks entries outlive COMPLETED_TTL?

Request == [id: Ids, pool: Pools, type: Types, hash: Hashes \cup {NoHash},
            max: Int, urgency: Int, cron: BOOLEAN, webhook: BOOLEAN,
            limited: BOOLEAN, delayed: BOOLEAN, overflow: BOOLEAN]

ASSUME ReqAssumption == Req \in [Jobs -> Request]

ASSUME PoolAssumption ==
    /\ DefaultPool \in Configured
    /\ Permits \in [Configured -> Nat]

ASSUME CapAssumption ==
    /\ FailureCap \in Nat \ {0}
    /\ \A j \in Jobs : Req[j].max <= FailureCap

ASSUME SwitchAssumption == {IoErrors, Crashes, Expiry} \subseteq BOOLEAN

ASSUME SentinelAssumption == NoHash \notin Hashes

-----------------------------------------------------------------------------
(* Tasks: one in-memory or stored copy of a job's record.                  *)

Task == [job: Jobs, retry: Nat, due: BOOLEAN]

ASSUME NoTaskAssumption == NoTask \notin Task

IdOf(t) == Req[t.job].id
PoolOf(t) == Req[t.job].pool
HashOf(t) == Req[t.job].hash

\* RetryableTask::new: a fresh record, due unless execute_at or the first
\* cron tick lies in the future.
NewTask(j) == [job |-> j, retry |-> 0, due |-> ~Req[j].delayed]

\* WorkerPoolManager: a pool without a semaphore shares the default one.
SemOf(p) == IF p \in Configured THEN p ELSE DefaultPool

\* At most two dispatchers are wanted per pool; a third name makes a miscount
\* visible instead of impossible.
Dispatchers == Pools \X (1..3)

VARIABLES
    store,            \* FileStore: the live task of each id, or NoTask
    activeHashes, queuedTasks, executingTasks, completedTasks,
    paused, taskHandlers,
    sharedPqs,        \* per pool, the BinaryHeap: a set with a priority pop
    dispatcherCounts, \* per pool, the AtomicUsize
    permits,          \* per semaphore, permits available
    processor,        \* "idle", "scan" (tasks read) or "spawn" (tasks pushed)
    snapshot,         \* what read_tasks returned to the processor
    newPools,         \* pools_with_new_tasks still to be given a dispatcher
    dispatcher,       \* state of each dispatcher, with the task it popped
    worker,           \* state of each execution, with its copy of the task
    sent, accepted, finished, dlq, failures   \* history, read by no action

engine == <<queuedTasks, executingTasks, completedTasks, sharedPqs,
            dispatcherCounts, permits, processor, snapshot, newPools,
            dispatcher, worker, taskHandlers, paused>>
history == <<sent, accepted, finished, dlq, failures>>
vars == <<store, activeHashes, engine, history>>

NoTasks == [id \in Ids |-> NoTask]
Off == [pc |-> "off", task |-> NoTask]
Idle == [pc |-> "idle", task |-> NoTask]

DispatcherState ==
    [pc: {"off", "loop", "exit"}, task: {NoTask}] \cup [pc: {"have"}, task: Task]
Finishing == {"finish", "unhash"}
WorkerState ==
    [pc: {"idle"}, task: {NoTask}]
        \cup [pc: {"spawned", "running"} \cup Finishing, task: Task]

\* A fresh engine around a task store (new_with_pools): nothing in memory but
\* the hashes of the live tasks.
LiveHashes(s) == {HashOf(s[id]) : id \in {i \in Ids : s[i] # NoTask}} \ {NoHash}

EngineInit ==
    /\ queuedTasks = {} /\ executingTasks = {} /\ completedTasks = {}
    /\ sharedPqs = [p \in Pools |-> {}]
    /\ dispatcherCounts = [p \in Pools |-> 0]
    /\ permits = Permits
    /\ processor = "idle" /\ snapshot = NoTasks /\ newPools = {}
    /\ dispatcher = [d \in Dispatchers |-> Off]
    /\ worker = [w \in Workers |-> Idle]
    /\ taskHandlers = {} /\ paused = FALSE

Init ==
    /\ store = NoTasks
    /\ activeHashes = {}
    /\ EngineInit
    /\ sent = {} /\ accepted = {} /\ finished = {} /\ dlq = {}
    /\ failures = [j \in Jobs |-> 0]

-----------------------------------------------------------------------------
(* The task store as the engine sees it (FileStore, file_store.rs).        *)

\* save_task: the record replaces whatever the id held; the engine drops the
\* error when the write fails.  A failure is taken to leave no record: when only
\* sync_all fails the record is in the log, out of sight until a restart, which
\* is in FileStore (SyncFails) and not here.
SaveTask(t) ==
    \/ store' = [store EXCEPT ![IdOf(t)] = t]
    \/ IoErrors /\ UNCHANGED store

\* delete_task: tombstones the id's current record, whichever job wrote it.
\* The same goes for a tombstone whose sync fails.
DeleteTask(id) ==
    \/ store' = [store EXCEPT ![id] = NoTask]
    \/ IoErrors /\ UNCHANGED store

-----------------------------------------------------------------------------
(* Clients and environment.                                                *)

\* enqueue: rejected while paused, dropped silently when the payload hash is
\* active, else saved.  The hash is taken before the write is attempted and
\* kept when the write fails.
Enqueue(j) ==
    LET hash == Req[j].hash IN
    /\ j \notin sent
    /\ ~paused
    /\ sent' = sent \cup {j}
    /\ IF hash \in activeHashes
       THEN UNCHANGED <<store, activeHashes, accepted>>
       ELSE /\ activeHashes' = activeHashes \cup ({hash} \ {NoHash})
            /\ \/ /\ store' = [store EXCEPT ![Req[j].id] = NewTask(j)]
                  /\ accepted' = accepted \cup {j}
               \/ IoErrors /\ UNCHANGED <<store, accepted>>
    /\ UNCHANGED <<engine, finished, dlq, failures>>

\* register_task_handler for a task type.
RegisterHandler(type) ==
    /\ taskHandlers' = taskHandlers \cup {type}
    /\ UNCHANGED <<store, activeHashes, queuedTasks, executingTasks,
                   completedTasks, sharedPqs, dispatcherCounts, permits,
                   processor, snapshot, newPools, dispatcher, worker, paused,
                   history>>

\* The clock passes the stored execute_at and retry_after_time of a task.
BecomesDue(id) ==
    /\ store[id] # NoTask
    /\ ~store[id].due
    /\ store' = [store EXCEPT ![id].due = TRUE]
    /\ UNCHANGED <<activeHashes, engine, history>>

\* Lease loss or graceful shutdown; no code ever clears the flag.
Pause ==
    /\ paused' = TRUE
    /\ UNCHANGED <<store, activeHashes, queuedTasks, executingTasks,
                   completedTasks, sharedPqs, dispatcherCounts, permits,
                   processor, snapshot, newPools, dispatcher, worker,
                   taskHandlers, history>>

\* The process dies; a new engine is built on what the task log kept.
Restart ==
    /\ Crashes
    /\ activeHashes' = LiveHashes(store)
    /\ queuedTasks' = {} /\ executingTasks' = {} /\ completedTasks' = {}
    /\ sharedPqs' = [p \in Pools |-> {}]
    /\ dispatcherCounts' = [p \in Pools |-> 0]
    /\ permits' = Permits
    /\ processor' = "idle" /\ snapshot' = NoTasks /\ newPools' = {}
    /\ dispatcher' = [d \in Dispatchers |-> Off]
    /\ worker' = [w \in Workers |-> Idle]
    /\ taskHandlers' = {} /\ paused' = FALSE
    /\ UNCHANGED <<store, history>>

\* The completed sweeper drops an entry older than COMPLETED_TTL.
EvictExpiredCompleted(id) ==
    /\ Expiry
    /\ id \in completedTasks
    /\ completedTasks' = completedTasks \ {id}
    /\ UNCHANGED <<store, activeHashes, queuedTasks, executingTasks, sharedPqs,
                   dispatcherCounts, permits, processor, snapshot, newPools,
                   dispatcher, worker, taskHandlers, paused, history>>

-----------------------------------------------------------------------------
(* The processor: process_due_tasks, once per tick.                        *)

\* Mutated forms of the definitions that follow are named after what they get
\* wrong; nothing in the specification uses them.
EligibleIgnoringExecuting(id) ==
    /\ snapshot[id] # NoTask
    /\ snapshot[id].due
    /\ id \notin queuedTasks

Eligible(id) ==
    /\ snapshot[id] # NoTask
    /\ snapshot[id].due
    /\ id \notin executingTasks
    /\ id \notin queuedTasks

\* The pause check and read_tasks.  The copy is stale from here on.
ReadTasks ==
    /\ processor = "idle"
    /\ ~paused
    /\ snapshot' = store
    /\ processor' = "scan"
    /\ UNCHANGED <<store, activeHashes, queuedTasks, executingTasks,
                   completedTasks, sharedPqs, dispatcherCounts, permits,
                   newPools, dispatcher, worker, taskHandlers, paused, history>>

\* Under the three locks: push every eligible task on its pool's queue.
PushDueTasks ==
    LET due == {id \in Ids : Eligible(id)} IN
    /\ processor = "scan"
    /\ queuedTasks' = queuedTasks \cup due
    /\ sharedPqs' = [p \in Pools |->
           sharedPqs[p] \cup {snapshot[id] : id \in {i \in due : PoolOf(snapshot[i]) = p}}]
    /\ newPools' = {PoolOf(snapshot[id]) : id \in due}
    /\ processor' = IF due = {} THEN "idle" ELSE "spawn"
    /\ snapshot' = NoTasks
    /\ UNCHANGED <<store, activeHashes, executingTasks, completedTasks,
                   dispatcherCounts, permits, dispatcher, worker, taskHandlers,
                   paused, history>>

\* One turn of the loop over the pools that got tasks: a dispatcher is spawned
\* unless enough are counted or the queue was seen empty.  The length is read
\* before the count, so a queue emptied in between still gets its dispatcher.
StartUpTo(wanted, p) ==
    /\ processor = "spawn"
    /\ p \in newPools
    /\ \/ /\ dispatcherCounts[p] < wanted
          /\ \E d \in Dispatchers :
                /\ d[1] = p
                /\ dispatcher[d] = Off
                /\ dispatcher' = [dispatcher EXCEPT ![d].pc = "loop"]
          /\ dispatcherCounts' = [dispatcherCounts EXCEPT ![p] = @ + 1]
       \/ /\ dispatcherCounts[p] >= wanted \/ sharedPqs[p] = {}
          /\ UNCHANGED <<dispatcher, dispatcherCounts>>
    /\ newPools' = newPools \ {p}
    /\ processor' = IF newPools = {p} THEN "idle" ELSE "spawn"
    /\ UNCHANGED <<store, activeHashes, queuedTasks, executingTasks,
                   completedTasks, sharedPqs, permits, snapshot, worker,
                   taskHandlers, paused, history>>

\* Mutated: a second dispatcher is never started.
StartOneDispatcher(p) == StartUpTo(1, p)

StartDispatcher(p) == StartUpTo(2, p)

-----------------------------------------------------------------------------
(* A dispatcher of pool d[1]: spawn_dispatcher's loop.                     *)
(* Taking a permit and popping are one action: a dispatcher that holds a   *)
(* permit and has not popped yet can be delayed until just before its pop  *)
(* without any other task seeing a difference, except more permits.        *)

DispatcherFrame ==
    UNCHANGED <<activeHashes, completedTasks, dispatcherCounts, processor,
                snapshot, newPools, taskHandlers, paused, history>>

\* Mutated: the permit is not awaited.
HasPermitAlways(p) == TRUE

HasPermit(p) == permits[SemOf(p)] > 0

TakePermit(p) == permits' = [permits EXCEPT ![SemOf(p)] = @ - 1]
ReleasePermit(p) == permits' = [permits EXCEPT ![SemOf(p)] = @ + 1]

\* PriorityTask::cmp compares urgency only: among equals any may come first.
MostUrgent(tasks) ==
    {t \in tasks : \A u \in tasks : Req[u.job].urgency <= Req[t.job].urgency}

Pop(d) ==
    /\ dispatcher[d].pc = "loop"
    /\ HasPermit(d[1])
    /\ \E t \in MostUrgent(sharedPqs[d[1]]) :
          /\ sharedPqs' = [sharedPqs EXCEPT ![d[1]] = @ \ {t}]
          /\ dispatcher' = [dispatcher EXCEPT ![d] = [pc |-> "have", task |-> t]]
    /\ TakePermit(d[1])
    /\ UNCHANGED <<store, queuedTasks, executingTasks, worker>>
    /\ DispatcherFrame

\* Mutated: the permit of an empty pop is not dropped.
PopNoneLeaking(d) ==
    /\ dispatcher[d].pc = "loop"
    /\ HasPermit(d[1])
    /\ sharedPqs[d[1]] = {}
    /\ dispatcher' = [dispatcher EXCEPT ![d] = [pc |-> "exit", task |-> NoTask]]
    /\ TakePermit(d[1])
    /\ UNCHANGED <<store, queuedTasks, executingTasks, sharedPqs, worker>>
    /\ DispatcherFrame

\* The pop finds nothing: the permit goes back and the loop is left.  The
\* counter still counts this dispatcher.
PopNone(d) ==
    /\ dispatcher[d].pc = "loop"
    /\ HasPermit(d[1])
    /\ sharedPqs[d[1]] = {}
    /\ dispatcher' = [dispatcher EXCEPT ![d] = [pc |-> "exit", task |-> NoTask]]
    /\ UNCHANGED <<store, queuedTasks, executingTasks, sharedPqs, permits, worker>>
    /\ DispatcherFrame

\* Mutated: the dispatcher ends without the final fetch_sub.
ExitUncounted(d) ==
    /\ dispatcher[d].pc = "exit"
    /\ dispatcher' = [dispatcher EXCEPT ![d] = Off]
    /\ UNCHANGED <<store, queuedTasks, executingTasks, sharedPqs, permits, worker>>
    /\ DispatcherFrame

Exit(d) ==
    /\ dispatcher[d].pc = "exit"
    /\ dispatcher' = [dispatcher EXCEPT ![d] = Off]
    /\ dispatcherCounts' = [dispatcherCounts EXCEPT ![d[1]] = @ - 1]
    /\ UNCHANGED <<store, activeHashes, queuedTasks, executingTasks,
                   completedTasks, sharedPqs, permits, processor, snapshot,
                   newPools, worker, taskHandlers, paused, history>>

\* Mutated: the refused task stays in queued_tasks.
DenyKeepingQueued(d) ==
    LET t == dispatcher[d].task IN
    /\ dispatcher[d].pc = "have"
    /\ Req[t.job].limited
    /\ SaveTask([t EXCEPT !.due = FALSE])
    /\ ReleasePermit(d[1])
    /\ dispatcher' = [dispatcher EXCEPT ![d] = [pc |-> "loop", task |-> NoTask]]
    /\ UNCHANGED <<queuedTasks, executingTasks, sharedPqs, worker>>
    /\ DispatcherFrame

\* The rate limiter refuses (or fails): the task, as it was popped, is saved
\* with retry_after_time a minute ahead.
Deny(d) ==
    LET t == dispatcher[d].task IN
    /\ dispatcher[d].pc = "have"
    /\ Req[t.job].limited
    /\ SaveTask([t EXCEPT !.due = FALSE])
    /\ queuedTasks' = queuedTasks \ {IdOf(t)}
    /\ ReleasePermit(d[1])
    /\ dispatcher' = [dispatcher EXCEPT ![d] = [pc |-> "loop", task |-> NoTask]]
    /\ UNCHANGED <<executingTasks, sharedPqs, worker>>
    /\ DispatcherFrame

\* The task moves from queued to executing under both locks and an execution
\* is spawned with the permit, unless the id is executing already.
Admit(d) ==
    LET t == dispatcher[d].task IN
    /\ dispatcher[d].pc = "have"
    /\ queuedTasks' = queuedTasks \ {IdOf(t)}
    /\ IF IdOf(t) \in executingTasks
       THEN /\ ReleasePermit(d[1])
            /\ UNCHANGED <<executingTasks, worker>>
       ELSE /\ executingTasks' = executingTasks \cup {IdOf(t)}
            /\ \E w \in Workers :
                  /\ worker[w] = Idle
                  /\ worker' = [worker EXCEPT ![w] = [pc |-> "spawned", task |-> t]]
            /\ UNCHANGED permits
    /\ dispatcher' = [dispatcher EXCEPT ![d] = [pc |-> "loop", task |-> NoTask]]
    /\ UNCHANGED <<store, sharedPqs>>
    /\ DispatcherFrame

DispatcherStep(d) == Pop(d) \/ PopNone(d) \/ Exit(d) \/ Deny(d) \/ Admit(d)

-----------------------------------------------------------------------------
(* An execution: execute_task.                                             *)

ExecutionFrame ==
    UNCHANGED <<queuedTasks, sharedPqs, dispatcherCounts, processor, snapshot,
                newPools, dispatcher, taskHandlers, paused, sent, accepted>>

\* ExecutingGuard::drop and the permit's drop, when execute_task returns.
Return(w) ==
    /\ worker' = [worker EXCEPT ![w] = Idle]
    /\ executingTasks' = executingTasks \ {IdOf(worker[w].task)}
    /\ ReleasePermit(PoolOf(worker[w].task))

Move(w, pc) == worker' = [worker EXCEPT ![w].pc = pc]

\* The early return for a completed id: it precedes the guard, so the id stays
\* in executing_tasks.
SkipCompleted(w) ==
    /\ worker[w].pc = "spawned"
    /\ IdOf(worker[w].task) \in completedTasks
    /\ worker' = [worker EXCEPT ![w] = Idle]
    /\ ReleasePermit(PoolOf(worker[w].task))
    /\ UNCHANGED <<store, activeHashes, executingTasks, completedTasks,
                   finished, dlq, failures>>
    /\ ExecutionFrame

HasHandler(t) == Req[t.job].webhook \/ Req[t.job].type \in taskHandlers

\* Mutated: the completed check is missing.
BeginUnchecked(w) ==
    /\ worker[w].pc = "spawned"
    /\ HasHandler(worker[w].task)
    /\ Move(w, "running")
    /\ UNCHANGED <<store, activeHashes, executingTasks, completedTasks,
                   permits, finished, dlq, failures>>
    /\ ExecutionFrame

\* The webhook request or the handler is called; the call is awaited.
Begin(w) ==
    /\ worker[w].pc = "spawned"
    /\ IdOf(worker[w].task) \notin completedTasks
    /\ HasHandler(worker[w].task)
    /\ Move(w, "running")
    /\ UNCHANGED <<store, activeHashes, executingTasks, completedTasks,
                   permits, finished, dlq, failures>>
    /\ ExecutionFrame

\* Mutated: a task nobody handles is thrown away.
NoHandlerDiscarding(w) ==
    LET t == worker[w].task IN
    /\ worker[w].pc = "spawned"
    /\ IdOf(t) \notin completedTasks
    /\ ~HasHandler(t)
    /\ DeleteTask(IdOf(t))
    /\ Return(w)
    /\ UNCHANGED <<activeHashes, completedTasks, finished, dlq, failures>>
    /\ ExecutionFrame

\* Mutated: the return for a missing handler precedes the guard.
NoHandlerUnguarded(w) ==
    LET t == worker[w].task IN
    /\ worker[w].pc = "spawned"
    /\ IdOf(t) \notin completedTasks
    /\ ~HasHandler(t)
    /\ worker' = [worker EXCEPT ![w] = Idle]
    /\ ReleasePermit(PoolOf(t))
    /\ UNCHANGED <<store, activeHashes, executingTasks, completedTasks,
                   finished, dlq, failures>>
    /\ ExecutionFrame

\* Nobody handles the type: execute_task returns and leaves the task stored.
NoHandler(w) ==
    LET t == worker[w].task IN
    /\ worker[w].pc = "spawned"
    /\ IdOf(t) \notin completedTasks
    /\ ~HasHandler(t)
    /\ Return(w)
    /\ UNCHANGED <<store, activeHashes, completedTasks, finished, dlq, failures>>
    /\ ExecutionFrame

\* The handler answered Ok: a cron task is saved for its next tick with its
\* retries reset, any other goes on to the tombstone.
Succeed(w) ==
    LET t == worker[w].task IN
    /\ worker[w].pc = "running"
    /\ IF Req[t.job].cron
       THEN /\ SaveTask([t EXCEPT !.retry = 0, !.due = FALSE])
            /\ Return(w)
            /\ UNCHANGED finished
       ELSE /\ finished' = finished \cup {t.job}
            /\ Move(w, "finish")
            /\ UNCHANGED <<store, executingTasks, permits>>
    /\ UNCHANGED <<activeHashes, completedTasks, dlq, failures>>
    /\ ExecutionFrame

\* Mutated: the bound is off by one.
MayRetryOneLess(t) == t.retry < Req[t.job].max - 2

MayRetry(t) == t.retry < Req[t.job].max - 1

\* update_retry_config on the copy that ran, then save_task.  A backoff beyond
\* the range of chrono's times panics: the execution unwinds before the save.
SaveRetry(t) ==
    IF Req[t.job].overflow THEN UNCHANGED store
    ELSE SaveTask([t EXCEPT !.retry = @ + 1, !.due = FALSE])

CountFailure(j) ==
    failures' = [failures EXCEPT ![j] = IF @ < FailureCap THEN @ + 1 ELSE @]

\* Mutated: a failed attempt gives its payload hash up at once.
RetryDroppingHash(w) ==
    LET t == worker[w].task IN
    /\ worker[w].pc = "running"
    /\ MayRetry(t)
    /\ CountFailure(t.job)
    /\ SaveRetry(t)
    /\ activeHashes' = activeHashes \ {HashOf(t)}
    /\ Return(w)
    /\ UNCHANGED <<completedTasks, finished, dlq>>
    /\ ExecutionFrame

\* The handler answered Err and attempts remain.  A panic releases the guard and
\* the permit as a return does.
Retry(w) ==
    LET t == worker[w].task IN
    /\ worker[w].pc = "running"
    /\ MayRetry(t)
    /\ CountFailure(t.job)
    /\ SaveRetry(t)
    /\ Return(w)
    /\ UNCHANGED <<activeHashes, completedTasks, finished, dlq>>
    /\ ExecutionFrame

\* Err on the last attempt: the dead-letter webhook or max-retry handler fires
\* before anything is recorded.
GiveUp(w) ==
    LET t == worker[w].task IN
    /\ worker[w].pc = "running"
    /\ ~MayRetry(t)
    /\ CountFailure(t.job)
    /\ finished' = finished \cup {t.job}
    /\ dlq' = dlq \cup {t.job}
    /\ Move(w, "finish")
    /\ UNCHANGED <<store, activeHashes, executingTasks, completedTasks, permits>>
    /\ ExecutionFrame

\* Mutated: executing_tasks is cleaned before the record is removed.
DeleteUnguarded(w) ==
    LET t == worker[w].task IN
    /\ worker[w].pc = "finish"
    /\ DeleteTask(IdOf(t))
    /\ executingTasks' = executingTasks \ {IdOf(t)}
    /\ Move(w, "unhash")
    /\ UNCHANGED <<activeHashes, completedTasks, permits, finished, dlq, failures>>
    /\ ExecutionFrame

\* The id is marked completed, then whatever record the id has is tombstoned.
Delete(w) ==
    LET id == IdOf(worker[w].task) IN
    /\ worker[w].pc = "finish"
    /\ completedTasks' = completedTasks \cup {id}
    /\ DeleteTask(id)
    /\ Move(w, "unhash")
    /\ UNCHANGED <<activeHashes, executingTasks, permits, finished, dlq, failures>>
    /\ ExecutionFrame

\* Mutated: the payload hash is never given back.
UnhashForgetting(w) ==
    /\ worker[w].pc = "unhash"
    /\ Return(w)
    /\ UNCHANGED <<store, activeHashes, completedTasks, finished, dlq, failures>>
    /\ ExecutionFrame

\* The payload hash is released and execute_task returns.
Unhash(w) ==
    /\ worker[w].pc = "unhash"
    /\ activeHashes' = activeHashes \ {HashOf(worker[w].task)}
    /\ Return(w)
    /\ UNCHANGED <<store, completedTasks, finished, dlq, failures>>
    /\ ExecutionFrame

WorkerStep(w) ==
    \/ SkipCompleted(w) \/ Begin(w) \/ NoHandler(w)
    \/ Succeed(w) \/ Retry(w) \/ GiveUp(w)
    \/ Delete(w) \/ Unhash(w)

-----------------------------------------------------------------------------
Next ==
    \/ \E j \in Jobs : Enqueue(j)
    \/ \E type \in Types : RegisterHandler(type)
    \/ \E id \in Ids : BecomesDue(id) \/ EvictExpiredCompleted(id)
    \/ Pause
    \/ Restart
    \/ ReadTasks
    \/ PushDueTasks
    \/ \E p \in Pools : StartDispatcher(p)
    \/ \E d \in Dispatchers : DispatcherStep(d)
    \/ \E w \in Workers : WorkerStep(w)

Spec == Init /\ [][Next]_vars

\* The runtime polls every spawned task; the processor's interval keeps
\* ticking; the clock advances; a handler or webhook call answers.  tokio's
\* semaphore serves its waiters in order, so a dispatcher that finds permits
\* again and again gets one.
Fairness ==
    /\ WF_vars(ReadTasks)
    /\ WF_vars(PushDueTasks)
    /\ \A p \in Pools : WF_vars(StartDispatcher(p))
    /\ \A id \in Ids : WF_vars(BecomesDue(id))
    /\ \A d \in Dispatchers :
          /\ SF_vars(Pop(d) \/ PopNone(d))
          /\ WF_vars(Exit(d) \/ Deny(d) \/ Admit(d))
    /\ \A w \in Workers : WF_vars(WorkerStep(w))

FairSpec == Spec /\ Fairness

-----------------------------------------------------------------------------
(* Types.                                                                  *)

\* Every variable has its type.
TypeOK ==
    /\ store \in [Ids -> Task \cup {NoTask}]
    /\ activeHashes \subseteq Hashes
    /\ queuedTasks \subseteq Ids
    /\ executingTasks \subseteq Ids
    /\ completedTasks \subseteq Ids
    /\ paused \in BOOLEAN
    /\ taskHandlers \subseteq Types
    /\ sharedPqs \in [Pools -> SUBSET Task]
    /\ dispatcherCounts \in [Pools -> Int]
    /\ permits \in [Configured -> Nat]
    /\ processor \in {"idle", "scan", "spawn"}
    /\ snapshot \in [Ids -> Task \cup {NoTask}]
    /\ newPools \subseteq Pools
    /\ dispatcher \in [Dispatchers -> DispatcherState]
    /\ worker \in [Workers -> WorkerState]
    /\ sent \subseteq Jobs
    /\ accepted \subseteq Jobs
    /\ finished \subseteq Jobs
    /\ dlq \subseteq Jobs
    /\ failures \in [Jobs -> 0..FailureCap]

-----------------------------------------------------------------------------
(* Safety.                                                                 *)

Waiting(id) == {t \in UNION {sharedPqs[p] : p \in Pools} : IdOf(t) = id}
Holders(id) == {d \in Dispatchers :
                   dispatcher[d].pc = "have" /\ IdOf(dispatcher[d].task) = id}
Executions(id) == {w \in Workers :
                      worker[w].pc # "idle" /\ IdOf(worker[w].task) = id}

\* queued_tasks says exactly which ids are on their way to an execution: a
\* queued id has one copy, in its pool's queue or in one dispatcher's hands,
\* and an id outside the set has none.  An id left in the set with no copy
\* would never be scheduled again; a second copy would run the job twice.
QueuedExact ==
    \A id \in Ids :
        /\ id \in queuedTasks <=> Waiting(id) # {} \/ Holders(id) # {}
        /\ Waiting(id) = {} \/ Holders(id) = {}
        /\ \A t, u \in Waiting(id) : t = u
        /\ \A d, e \in Holders(id) : d = e

\* Between the push and the return an id is queued or executing, never both:
\* the scan tests the two live sets under their locks.
NeverQueuedWhileExecuting == queuedTasks \cap executingTasks = {}

\* No id is executed twice at one time, whatever stale copies the processor
\* scanned while the first execution was finishing.
OneExecutionPerTask ==
    \A id \in Ids : \A v, w \in Executions(id) : v = w

PoppedFor(s) == {d \in Dispatchers : dispatcher[d].pc = "have" /\ SemOf(d[1]) = s}
ExecutedOn(s) ==
    {w \in Workers : worker[w].pc # "idle" /\ SemOf(PoolOf(worker[w].task)) = s}

\* Concurrency budget: permits are neither lost nor invented; each is free or
\* held by a dispatcher with a task in hand or by a running execution.
PermitsConserved ==
    \A s \in Configured :
        permits[s] + Cardinality(PoppedFor(s)) + Cardinality(ExecutedOn(s)) = Permits[s]

Alive(p) == {d \in Dispatchers : d[1] = p /\ dispatcher[d].pc # "off"}

\* dispatcher_counts counts the dispatchers alive, and there are at most two
\* of a pool; a dispatcher not counted off would stop the pool for good.
DispatcherCountsExact ==
    \A p \in Pools :
        dispatcherCounts[p] = Cardinality(Alive(p)) /\ dispatcherCounts[p] <= 2

UniqueIds == \A i, j \in Jobs : Req[i].id = Req[j].id => i = j

\* No unfinished job is locked out: while it has no verdict, its id is in
\* executing_tasks, where the scan passes over it, only as long as an execution
\* of it lasts.  (For ids that are not reused: an id sent again may find itself
\* in executing_tasks since the end of its earlier job.)
StuckOnlyIfFinished ==
    UniqueIds =>
        \A j \in Jobs \ finished :
            Req[j].id \in executingTasks => Executions(Req[j].id) # {}

\* Durability: an accepted job stays in the task store until it succeeded or
\* exhausted its attempts, across crashes, failed writes, rate limiting and
\* stale copies written back.  (For ids that are not reused.)
NeverLost ==
    UniqueIds => \A j \in accepted : store[Req[j].id] # NoTask \/ j \in finished

\* A job reaches the dead-letter handler only after max_retries failed
\* attempts (one at least), whatever copies of it were in flight.
NeverGivesUpEarly ==
    \A j \in dlq : failures[j] >= 1 /\ failures[j] >= Req[j].max

\* Deduplication holds while a job is pending: the hash of an accepted,
\* unfinished job is active, through retries, stale copies and restarts.
\* (Where no write fails and no rate limiter writes a stale copy back.)
HashHeldWhilePending ==
    \A j \in accepted \ finished :
        Req[j].hash # NoHash => Req[j].hash \in activeHashes

\* ... and no longer: an active hash belongs to a stored task or to an
\* execution about to release it, else the payload could never be sent again.
HashOnlyWhilePending ==
    \A hash \in activeHashes :
        \/ \E id \in Ids : store[id] # NoTask /\ HashOf(store[id]) = hash
        \/ \E w \in Workers : worker[w].pc # "idle" /\ HashOf(worker[w].task) = hash

\* A copy waits in a queue that no dispatcher serves and none is about to.
Stranded(p) ==
    /\ sharedPqs[p] # {}
    /\ p \notin newPools
    /\ \A d \in Dispatchers : d[1] = p => dispatcher[d].pc \in {"off", "exit"}

\* A queue loses its last dispatcher only to both it may have: a push is left
\* unserved only while two dispatchers that saw the queue empty are not yet
\* counted off.  One on its way out never keeps the next from being started.
StrandedOnlyByTwo ==
    [][\A p \in Pools :
           ~Stranded(p) /\ Stranded(p)' =>
               Cardinality({d \in Alive(p) : dispatcher[d].pc = "exit"}) = 2]_vars

Starts(w) == worker[w].pc = "spawned" /\ worker'[w].pc = "running"

\* A finished job is not executed again, although copies of its record may
\* still be scanned, queued or saved: completed_tasks and the tombstone stop
\* them.
NeverRunsAfterFinish ==
    [][\A w \in Workers : Starts(w) => worker[w].task.job \notin finished]_vars

-----------------------------------------------------------------------------
(* Liveness.                                                               *)

\* Every accepted job gets its verdict, unless the rate limiter may refuse it,
\* its backoff overflows, the shard is paused, nobody handles its type, or its
\* pool's queue is left without a dispatcher.
EveryJobGetsItsVerdict ==
    \A j \in Jobs :
        (j \in accepted) ~>
            \/ j \in finished
            \/ Req[j].limited \/ Req[j].overflow
            \/ paused
            \/ ~Req[j].webhook /\ Req[j].type \notin taskHandlers
            \/ Stranded(Req[j].pool)

-----------------------------------------------------------------------------
(* What comments and the README say of this code, and the code does not do. *)

\* "Drop guard guarantees removal from executing_tasks" (queue.rs): an id is
\* in executing_tasks only as long as an execution of it lasts.
GuardReleasesExecuting == \A id \in executingTasks : Executions(id) # {}

\* "max_retries means total attempts" (queue.rs): a job fails at most
\* max_retries times, or once if that is less than one.
AttemptsBounded ==
    \A j \in Jobs :
        failures[j] <= IF Req[j].max < 1 THEN 1 ELSE Req[j].max

\* "Pause all engines: stops new task dispatch" (main.rs): no execution
\* starts on a paused shard.
PauseStopsDispatch ==
    [][\A w \in Workers :
           worker[w].pc = "idle" /\ worker'[w].pc = "spawned" => ~paused]_vars

\* "Start dispatchers for pools that have new tasks" (queue.rs): after the
\* loop over the pools, a queue with tasks in it is served.
QueuesAreServed == \A p \in Pools : ~Stranded(p)

\* "If an identical payload is currently sitting in the queue pending
\* execution, this new task is silently dropped" (README, auto_dedupe): a
\* payload is refused only while a task with that payload is pending.
DedupeOnlyWhileStored ==
    [][\A j \in sent' \ sent :
           Req[j].hash \in activeHashes =>
               \/ \E id \in Ids : store[id] # NoTask /\ HashOf(store[id]) = Req[j].hash
               \/ \E w \in Workers :
                     worker[w].pc # "idle" /\ HashOf(worker[w].task) = Req[j].hash]_vars
====
