-------------------------- MODULE SnerdQueueProofs --------------------------
(***************************************************************************)
(* Machine-checked facts about the queue engine, for every set of jobs,    *)
(* ids, pools, permits and executions.                                     *)
(***************************************************************************)
EXTENDS SnerdQueue, FiniteSetTheorems, TLAPS

-----------------------------------------------------------------------------
(* Where a task's fields live.                                             *)

\* A task's id, pool and hash are those of a well-formed request.
LEMMA TaskFields ==
    ASSUME NEW t \in Task
    PROVE  /\ t.job \in Jobs /\ t.retry \in Nat /\ t.due \in BOOLEAN
           /\ IdOf(t) \in Ids /\ PoolOf(t) \in Pools
           /\ HashOf(t) \in Hashes \cup {NoHash}
           /\ Req[t.job].max \in Int
    BY ReqAssumption DEF Task, Request, IdOf, PoolOf, HashOf

\* A request's fields have their types.
LEMMA RequestFields ==
    ASSUME NEW j \in Jobs
    PROVE  /\ Req[j].id \in Ids /\ Req[j].hash \in Hashes \cup {NoHash}
           /\ Req[j].delayed \in BOOLEAN
           /\ NewTask(j) \in Task /\ IdOf(NewTask(j)) = Req[j].id
    BY ReqAssumption DEF Task, Request, NewTask, IdOf

\* Every pool has a configured semaphore behind it.
LEMMA SemConfigured == \A p : SemOf(p) \in Configured
    BY PoolAssumption DEF SemOf

\* The idle and off records are states of an execution and a dispatcher.
LEMMA Sentinels == Idle \in WorkerState /\ Off \in DispatcherState /\ NoTask \notin Task
    BY NoTaskAssumption DEF Idle, Off, WorkerState, DispatcherState

\* A dispatcher with a task in hand, an execution under way: both hold tasks.
LEMMA Hands ==
    ASSUME TypeOK
    PROVE  /\ \A d \in Dispatchers : d[1] \in Pools
           /\ \A d \in Dispatchers : dispatcher[d].pc = "have" => dispatcher[d].task \in Task
           /\ \A w \in Workers : worker[w].pc # "idle" => worker[w].task \in Task
    BY DEF TypeOK, DispatcherState, WorkerState, Dispatchers

-----------------------------------------------------------------------------
(* Type correctness.                                                       *)

LEMMA TypeInit == Init => TypeOK
  <1> SUFFICES ASSUME Init PROVE TypeOK OBVIOUS
  <1> USE DEF Init, EngineInit
  <1>1. permits \in [Configured -> Nat] BY PoolAssumption
  <1>2. worker \in [Workers -> WorkerState] BY Sentinels
  <1>3. dispatcher \in [Dispatchers -> DispatcherState] BY Sentinels
  <1>4. failures \in [Jobs -> 0..FailureCap] BY CapAssumption
  <1>5. /\ store \in [Ids -> Task \cup {NoTask}]
        /\ snapshot \in [Ids -> Task \cup {NoTask}]
    BY DEF NoTasks
  <1>6. sharedPqs \in [Pools -> SUBSET Task] OBVIOUS
  <1>7. dispatcherCounts \in [Pools -> Int] OBVIOUS
  <1> QED BY <1>1, <1>2, <1>3, <1>4, <1>5, <1>6, <1>7 DEF TypeOK

\* A saved task keeps the store's type.
LEMMA SaveType ==
    ASSUME TypeOK, NEW t \in Task, SaveTask(t)
    PROVE  store' \in [Ids -> Task \cup {NoTask}]
    BY TaskFields DEF TypeOK, SaveTask

LEMMA DeleteType ==
    ASSUME TypeOK, NEW id \in Ids, DeleteTask(id)
    PROVE  store' \in [Ids -> Task \cup {NoTask}]
    BY DEF TypeOK, DeleteTask

LEMMA TypeEnvironment ==
    ASSUME TypeOK,
           \/ \E j \in Jobs : Enqueue(j)
           \/ \E type \in Types : RegisterHandler(type)
           \/ \E id \in Ids : BecomesDue(id) \/ EvictExpiredCompleted(id)
           \/ Pause
           \/ Restart
    PROVE  TypeOK'
  <1>1. ASSUME NEW j \in Jobs, Enqueue(j) PROVE TypeOK'
    BY <1>1, RequestFields DEF TypeOK, Enqueue, engine
  <1>2. ASSUME NEW type \in Types, RegisterHandler(type) PROVE TypeOK'
    BY <1>2 DEF TypeOK, RegisterHandler, history
  <1>3. ASSUME NEW id \in Ids, BecomesDue(id) PROVE TypeOK'
    <2>1. store[id] \in Task BY <1>3 DEF TypeOK, BecomesDue
    <2>2. [store[id] EXCEPT !.due = TRUE] \in Task BY <2>1 DEF Task
    <2> QED BY <1>3, <2>2 DEF TypeOK, BecomesDue, engine, history
  <1>4. ASSUME NEW id \in Ids, EvictExpiredCompleted(id) PROVE TypeOK'
    BY <1>4 DEF TypeOK, EvictExpiredCompleted, history
  <1>5. ASSUME Pause PROVE TypeOK'
    BY <1>5 DEF TypeOK, Pause, history
  <1>6. ASSUME Restart PROVE TypeOK'
    <2>1. LiveHashes(store) \subseteq Hashes
      BY TaskFields DEF TypeOK, LiveHashes
    <2>2. permits' \in [Configured -> Nat] BY <1>6, PoolAssumption DEF Restart
    <2>3. worker' \in [Workers -> WorkerState] BY <1>6, Sentinels DEF Restart
    <2>4. dispatcher' \in [Dispatchers -> DispatcherState]
      BY <1>6, Sentinels DEF Restart
    <2>5. snapshot' \in [Ids -> Task \cup {NoTask}] BY <1>6 DEF Restart, NoTasks
    <2>6. sharedPqs' \in [Pools -> SUBSET Task] BY <1>6 DEF Restart
    <2>7. dispatcherCounts' \in [Pools -> Int] BY <1>6 DEF Restart
    <2> QED BY <1>6, <2>1, <2>2, <2>3, <2>4, <2>5, <2>6, <2>7
            DEF TypeOK, Restart, history
  <1> QED BY <1>1, <1>2, <1>3, <1>4, <1>5, <1>6

LEMMA TypeProcessor ==
    ASSUME TypeOK,
           ReadTasks \/ PushDueTasks \/ \E p \in Pools : StartDispatcher(p)
    PROVE  TypeOK'
  <1>1. ASSUME ReadTasks PROVE TypeOK'
    BY <1>1 DEF TypeOK, ReadTasks, history
  <1>2. ASSUME PushDueTasks PROVE TypeOK'
    <2> DEFINE due == {id \in Ids : Eligible(id)}
    <2>1. \A id \in due : snapshot[id] \in Task
      BY DEF TypeOK, Eligible
    <2>2. sharedPqs' \in [Pools -> SUBSET Task]
      BY <1>2, <2>1 DEF TypeOK, PushDueTasks
    <2>3. newPools' \subseteq Pools
      BY <1>2, <2>1, TaskFields DEF PushDueTasks
    <2>4. snapshot' \in [Ids -> Task \cup {NoTask}]
      BY <1>2 DEF PushDueTasks, NoTasks
    <2>5. queuedTasks' \subseteq Ids /\ processor' \in {"idle", "scan", "spawn"}
      BY <1>2 DEF PushDueTasks, TypeOK
    <2> QED BY <1>2, <2>2, <2>3, <2>4, <2>5 DEF TypeOK, PushDueTasks, history
  <1>3. ASSUME NEW p \in Pools, StartDispatcher(p) PROVE TypeOK'
    <2>1. dispatcher' \in [Dispatchers -> DispatcherState]
      BY <1>3 DEF TypeOK, StartDispatcher, StartUpTo, DispatcherState, Off
    <2>2. dispatcherCounts' \in [Pools -> Int]
      BY <1>3 DEF TypeOK, StartDispatcher, StartUpTo
    <2> QED BY <1>3, <2>1, <2>2 DEF TypeOK, StartDispatcher, StartUpTo, history
  <1> QED BY <1>1, <1>2, <1>3

LEMMA TypeDispatcher ==
    ASSUME TypeOK, NEW d \in Dispatchers, DispatcherStep(d)
    PROVE  TypeOK'
  <1> USE DEF DispatcherFrame, history
  <1>0. d[1] \in Pools /\ SemOf(d[1]) \in Configured
    BY Hands, SemConfigured
  <1>1. CASE Pop(d)
    <2>1. PICK t \in MostUrgent(sharedPqs[d[1]]) :
            /\ sharedPqs' = [sharedPqs EXCEPT ![d[1]] = @ \ {t}]
            /\ dispatcher' = [dispatcher EXCEPT ![d] = [pc |-> "have", task |-> t]]
      BY <1>1 DEF Pop
    <2>2. t \in Task BY <1>0 DEF MostUrgent, TypeOK
    <2>3. dispatcher' \in [Dispatchers -> DispatcherState]
      BY <2>1, <2>2 DEF TypeOK, DispatcherState
    <2>4. sharedPqs' \in [Pools -> SUBSET Task]
      BY <2>1, <1>0 DEF TypeOK
    <2>5. permits' \in [Configured -> Nat]
      BY <1>1, <1>0 DEF Pop, HasPermit, TakePermit, TypeOK
    <2> QED BY <1>1, <2>3, <2>4, <2>5 DEF Pop, TypeOK
  <1>2. CASE PopNone(d)
    <2>1. dispatcher' \in [Dispatchers -> DispatcherState]
      BY <1>2 DEF TypeOK, PopNone, DispatcherState
    <2> QED BY <1>2, <2>1 DEF PopNone, TypeOK
  <1>3. CASE Exit(d)
    <2>1. dispatcherCounts' \in [Pools -> Int]
      BY <1>3, <1>0 DEF Exit, TypeOK
    <2> QED BY <1>3, <2>1, Sentinels DEF Exit, TypeOK
  <1>4. ASSUME Deny(d) \/ Admit(d)
        PROVE  /\ permits' \in [Configured -> Nat]
               /\ dispatcher' \in [Dispatchers -> DispatcherState]
    <2>1. [pc |-> "loop", task |-> NoTask] \in DispatcherState
      BY DEF DispatcherState
    <2> QED BY <2>1, <1>4, <1>0 DEF Deny, Admit, TypeOK, ReleasePermit
  <1>5. CASE Deny(d)
    <2> DEFINE t == dispatcher[d].task
    <2>1. t \in Task BY <1>5, Hands DEF Deny
    <2>2. [t EXCEPT !.due = FALSE] \in Task BY <2>1 DEF Task
    <2>3. store' \in [Ids -> Task \cup {NoTask}]
      BY <1>5, <2>2, SaveType DEF Deny
    <2> QED BY <1>5, <1>4, <2>3 DEF Deny, TypeOK
  <1>6. CASE Admit(d)
    <2> DEFINE t == dispatcher[d].task
    <2>1. t \in Task /\ IdOf(t) \in Ids BY <1>6, Hands, TaskFields DEF Admit
    <2>2. [pc |-> "spawned", task |-> t] \in WorkerState
      BY <2>1 DEF WorkerState
    <2>3. executingTasks' \subseteq Ids /\ worker' \in [Workers -> WorkerState]
      BY <1>6, <2>1, <2>2 DEF Admit, TypeOK
    <2> QED BY <1>6, <1>4, <2>3 DEF Admit, TypeOK
  <1> QED BY <1>1, <1>2, <1>3, <1>5, <1>6 DEF DispatcherStep

\* Giving a permit back, and saving a task one of whose fields changed.
LEMMA WorkerHelpers ==
    ASSUME TypeOK, NEW w \in Workers, worker[w].pc # "idle"
    PROVE  /\ worker[w].task \in Task
           /\ IdOf(worker[w].task) \in Ids
           /\ Return(w) => /\ worker' \in [Workers -> WorkerState]
                           /\ executingTasks' \subseteq Ids
           /\ ReleasePermit(PoolOf(worker[w].task)) => permits' \in [Configured -> Nat]
           /\ \A n \in Nat : [worker[w].task EXCEPT !.retry = n, !.due = FALSE] \in Task
  <1>1. worker[w].task \in Task BY Hands
  <1>2. SemOf(PoolOf(worker[w].task)) \in Configured BY SemConfigured
  <1>3. ReleasePermit(PoolOf(worker[w].task)) => permits' \in [Configured -> Nat]
    BY <1>2 DEF TypeOK, ReleasePermit
  <1>4. Return(w) => worker' \in [Workers -> WorkerState]
    BY Sentinels DEF TypeOK, Return
  <1>5. Return(w) => executingTasks' \subseteq Ids
    BY DEF TypeOK, Return
  <1>6. \A n \in Nat : [worker[w].task EXCEPT !.retry = n, !.due = FALSE] \in Task
    BY <1>1 DEF Task
  <1> QED BY <1>1, <1>3, <1>4, <1>5, <1>6, TaskFields

\* Moving on inside execute_task keeps the worker's type.
LEMMA MoveType ==
    ASSUME TypeOK, NEW w \in Workers, worker[w].pc # "idle",
           NEW pc \in {"spawned", "running"} \cup Finishing, Move(w, pc)
    PROVE  worker' \in [Workers -> WorkerState]
  <1>1. worker[w] \in [pc: {"spawned", "running"} \cup Finishing, task: Task]
    BY DEF TypeOK, WorkerState
  <1>2. [worker[w] EXCEPT !.pc = pc] \in [pc: {"spawned", "running"} \cup Finishing, task: Task]
    BY <1>1
  <1> QED BY <1>2 DEF TypeOK, Move, WorkerState

LEMMA FailureType ==
    ASSUME TypeOK, NEW j \in Jobs, CountFailure(j)
    PROVE  failures' \in [Jobs -> 0..FailureCap]
    BY CapAssumption DEF TypeOK, CountFailure

LEMMA TypeWorker ==
    ASSUME TypeOK, NEW w \in Workers, WorkerStep(w)
    PROVE  TypeOK'
  <1> USE DEF ExecutionFrame
  <1> DEFINE t == worker[w].task
  <1>0. worker[w].pc # "idle" /\ t \in Task /\ t.job \in Jobs /\ IdOf(t) \in Ids
        /\ t.retry \in Nat
    <2>1. worker[w].pc # "idle"
      BY DEF WorkerStep, SkipCompleted, Begin, NoHandler, Succeed, Retry,
             GiveUp, Delete, Unhash
    <2> QED BY <2>1, WorkerHelpers, TaskFields
  <1>1. CASE SkipCompleted(w)
    <2>1. worker' \in [Workers -> WorkerState]
      BY <1>1, Sentinels DEF SkipCompleted, TypeOK
    <2> QED BY <1>0, <1>1, <2>1, WorkerHelpers DEF SkipCompleted, TypeOK
  <1>2. CASE Begin(w)
    <2>1. worker' \in [Workers -> WorkerState]
      BY <1>0, <1>2, MoveType DEF Begin
    <2> QED BY <1>2, <2>1 DEF Begin, TypeOK
  <1>3. CASE NoHandler(w)
    <2>1. /\ worker' \in [Workers -> WorkerState] /\ executingTasks' \subseteq Ids
          /\ permits' \in [Configured -> Nat]
      BY <1>0, <1>3, WorkerHelpers DEF NoHandler, Return
    <2> QED BY <1>3, <2>1 DEF NoHandler, TypeOK
  <1>4. CASE Succeed(w)
    <2>1. CASE Req[t.job].cron
      <3>1. store' \in [Ids -> Task \cup {NoTask}]
        BY <1>0, <1>4, <2>1, WorkerHelpers, SaveType DEF Succeed
      <3>2. /\ worker' \in [Workers -> WorkerState] /\ executingTasks' \subseteq Ids
            /\ permits' \in [Configured -> Nat]
        BY <1>0, <1>4, <2>1, WorkerHelpers DEF Succeed, Return
      <3> QED BY <1>4, <2>1, <3>1, <3>2 DEF Succeed, TypeOK
    <2>2. CASE ~Req[t.job].cron
      <3>1. worker' \in [Workers -> WorkerState]
        BY <1>0, <1>4, <2>2, MoveType DEF Succeed, Finishing
      <3> QED BY <1>0, <1>4, <2>2, <3>1 DEF Succeed, TypeOK
    <2> QED BY <2>1, <2>2
  <1>5. CASE Retry(w)
    <2>1. [t EXCEPT !.retry = @ + 1, !.due = FALSE] \in Task
      <3>1. t.retry + 1 \in Nat BY <1>0
      <3> QED BY <1>0, <3>1, WorkerHelpers, Zenon
    <2>2. store' \in [Ids -> Task \cup {NoTask}]
      <3>1. UNCHANGED store \/ SaveTask([t EXCEPT !.retry = @ + 1, !.due = FALSE])
        BY <1>5 DEF Retry, SaveRetry
      <3> QED BY <2>1, <3>1, SaveType DEF TypeOK
    <2>3. /\ worker' \in [Workers -> WorkerState] /\ executingTasks' \subseteq Ids
          /\ permits' \in [Configured -> Nat]
      BY <1>0, <1>5, WorkerHelpers DEF Retry, Return
    <2>4. failures' \in [Jobs -> 0..FailureCap]
      BY <1>0, <1>5, FailureType DEF Retry
    <2> QED BY <1>5, <2>2, <2>3, <2>4 DEF Retry, TypeOK
  <1>6. CASE GiveUp(w)
    <2>1. worker' \in [Workers -> WorkerState]
      BY <1>0, <1>6, MoveType DEF GiveUp, Finishing
    <2>2. failures' \in [Jobs -> 0..FailureCap]
      BY <1>0, <1>6, FailureType DEF GiveUp
    <2> QED BY <1>0, <1>6, <2>1, <2>2 DEF GiveUp, TypeOK
  <1>7. CASE Delete(w)
    <2>1. worker' \in [Workers -> WorkerState]
      BY <1>0, <1>7, MoveType DEF Delete, Finishing
    <2>2. store' \in [Ids -> Task \cup {NoTask}]
      BY <1>0, <1>7, DeleteType DEF Delete
    <2> QED BY <1>0, <1>7, <2>1, <2>2 DEF Delete, TypeOK
  <1>8. CASE Unhash(w)
    <2>1. /\ worker' \in [Workers -> WorkerState] /\ executingTasks' \subseteq Ids
          /\ permits' \in [Configured -> Nat]
      BY <1>0, <1>8, WorkerHelpers DEF Unhash, Return
    <2> QED BY <1>8, <2>1 DEF Unhash, TypeOK
  <1> QED BY <1>1, <1>2, <1>3, <1>4, <1>5, <1>6, <1>7, <1>8 DEF WorkerStep

LEMMA TypeStep == TypeOK /\ [Next]_vars => TypeOK'
  <1> SUFFICES ASSUME TypeOK, [Next]_vars PROVE TypeOK'
    OBVIOUS
  <1>1. CASE UNCHANGED vars
    BY <1>1 DEF vars, engine, history, TypeOK
  <1>2. CASE Next
    BY <1>2, TypeEnvironment, TypeProcessor, TypeDispatcher, TypeWorker DEF Next
  <1> QED BY <1>1, <1>2

\* The engine's variables have their types in every reachable state.
THEOREM TypeCorrect == Spec => []TypeOK
    BY TypeInit, TypeStep, PTL DEF Spec

-----------------------------------------------------------------------------
(* The inductive invariant.  QueuedExact and OneExecutionPerTask are not   *)
(* inductive: that a pushed id has no copy elsewhere rests on the scanned  *)
(* record being filed under its own id, and that two executions never      *)
(* share an id rests on queued and executing ids being disjoint.           *)

\* Records are filed under their own id, in the store and in the snapshot.
Keyed ==
    \A id \in Ids :
        /\ store[id] # NoTask => IdOf(store[id]) = id
        /\ snapshot[id] # NoTask => IdOf(snapshot[id]) = id

\* What waits in a queue belongs there, is in queued_tasks, and is its id's
\* only waiting copy.
WaitingOK ==
    \A p \in Pools : \A t \in sharedPqs[p] :
        /\ PoolOf(t) = p
        /\ IdOf(t) \in queuedTasks
        /\ \A q \in Pools : \A u \in sharedPqs[q] : IdOf(u) = IdOf(t) => u = t

HasTask(d) == dispatcher[d].pc = "have"
Hand(d) == IdOf(dispatcher[d].task)

\* A popped task is in queued_tasks and is its id's only copy.
HandsOK ==
    \A d \in Dispatchers : HasTask(d) =>
        /\ PoolOf(dispatcher[d].task) = d[1]
        /\ Hand(d) \in queuedTasks
        /\ \A p \in Pools : \A t \in sharedPqs[p] : IdOf(t) # Hand(d)
        /\ \A e \in Dispatchers : HasTask(e) /\ Hand(e) = Hand(d) => e = d

\* Every id of queued_tasks has a copy.
Placed ==
    \A id \in queuedTasks :
        \/ \E p \in Pools : \E t \in sharedPqs[p] : IdOf(t) = id
        \/ \E d \in Dispatchers : HasTask(d) /\ Hand(d) = id

Busy(w) == worker[w].pc # "idle"
Work(w) == IdOf(worker[w].task)

\* An execution's id is in executing_tasks, and no other execution has it.
ExecutionsOK ==
    /\ NeverQueuedWhileExecuting
    /\ \A w \in Workers : Busy(w) =>
          /\ Work(w) \in executingTasks
          /\ \A v \in Workers : Busy(v) /\ Work(v) = Work(w) => v = w

IInv == TypeOK /\ Keyed /\ WaitingOK /\ HandsOK /\ Placed /\ ExecutionsOK

\* An execution on its way out has given its job a verdict.
VerdictFirst ==
    \A w \in Workers : worker[w].pc \in Finishing => worker[w].task.job \in finished

\* Every copy of a task anywhere in the engine or its store.
StoredCopies == {store[id] : id \in Ids}
ScannedCopies == {snapshot[id] : id \in Ids}
WaitingCopies == UNION {sharedPqs[p] : p \in Pools}
HeldCopies == {dispatcher[d].task : d \in Dispatchers}
ExecutedCopies == {worker[w].task : w \in Workers}

Copies ==
    (StoredCopies \cup ScannedCopies \cup WaitingCopies \cup HeldCopies
        \cup ExecutedCopies) \ {NoTask}

\* No copy of a job, however stale, counts more retries than the job failed.
RetriesCounted == \A t \in Copies : t.retry <= failures[t.job]

LEMMA IInvInit == Init => IInv
  <1> SUFFICES ASSUME Init PROVE IInv OBVIOUS
  <1> USE DEF Init, EngineInit
  <1>1. TypeOK BY TypeInit
  <1>2. Keyed BY DEF Keyed, NoTasks
  <1>3. WaitingOK /\ Placed BY DEF WaitingOK, Placed
  <1>4. \A d \in Dispatchers : ~HasTask(d) BY DEF HasTask, Off
  <1>5. \A w \in Workers : ~Busy(w) BY DEF Busy, Idle
  <1> QED BY <1>1, <1>2, <1>3, <1>4, <1>5
          DEF IInv, HandsOK, ExecutionsOK, NeverQueuedWhileExecuting

\* What each kind of step leaves alone.
LEMMA KeyedStep ==
    ASSUME TypeOK, Keyed, Next
    PROVE  Keyed'
  <1>1. ASSUME NEW j \in Jobs, Enqueue(j) PROVE Keyed'
    BY <1>1, RequestFields DEF Keyed, TypeOK, Enqueue, engine
  <1>2. ASSUME NEW t \in Task, SaveTask(t), UNCHANGED snapshot PROVE Keyed'
    BY <1>2, TaskFields DEF Keyed, TypeOK, SaveTask
  <1>3. ASSUME NEW id \in Ids, DeleteTask(id), UNCHANGED snapshot PROVE Keyed'
    BY <1>3 DEF Keyed, TypeOK, DeleteTask
  <1>4. ASSUME UNCHANGED <<store, snapshot>> PROVE Keyed'
    BY <1>4 DEF Keyed
  <1>5. ASSUME NEW id \in Ids, BecomesDue(id) PROVE Keyed'
    <2>1. \A i \in Ids : store'[i] # NoTask => IdOf(store'[i]) = i
      <3> SUFFICES ASSUME NEW i \in Ids, store'[i] # NoTask PROVE IdOf(store'[i]) = i
        OBVIOUS
      <3>1. CASE i = id
        <4>1. store[id] \in Task BY <1>5 DEF TypeOK, BecomesDue
        <4>2. store'[id] = [store[id] EXCEPT !.due = TRUE]
          BY <1>5 DEF TypeOK, BecomesDue
        <4>3. store'[id].job = store[id].job BY <4>1, <4>2 DEF Task
        <4> QED BY <1>5, <3>1, <4>3 DEF Keyed, IdOf, BecomesDue
      <3>2. CASE i # id BY <1>5, <3>2 DEF Keyed, TypeOK, BecomesDue
      <3> QED BY <3>1, <3>2
    <2> QED BY <1>5, <2>1 DEF Keyed, BecomesDue, engine
  <1>6. CASE ReadTasks BY <1>6 DEF Keyed, ReadTasks
  <1>7. CASE PushDueTasks BY <1>7 DEF Keyed, PushDueTasks, NoTasks
  <1>8. CASE Restart BY <1>8 DEF Keyed, Restart, NoTasks
  <1>9. ASSUME NEW d \in Dispatchers, DispatcherStep(d) PROVE Keyed'
    <2>1. CASE Deny(d)
      <3>1. [dispatcher[d].task EXCEPT !.due = FALSE] \in Task
        BY <2>1, Hands DEF Deny, Task
      <3> QED BY <1>2, <2>1, <3>1 DEF Deny, DispatcherFrame
    <2>2. CASE ~Deny(d)
      BY <1>4, <1>9, <2>2 DEF DispatcherStep, Pop, PopNone, Exit, Admit, DispatcherFrame
    <2> QED BY <2>1, <2>2
  <1>10. ASSUME NEW w \in Workers, WorkerStep(w) PROVE Keyed'
    <2> DEFINE t == worker[w].task
    <2>1. CASE SkipCompleted(w) \/ Begin(w) \/ NoHandler(w) \/ GiveUp(w) \/ Unhash(w)
      BY <1>4, <2>1 DEF SkipCompleted, Begin, NoHandler, GiveUp, Unhash, ExecutionFrame
    <2>2. CASE Succeed(w)
      <3>1. [t EXCEPT !.retry = 0, !.due = FALSE] \in Task
        BY <2>2, WorkerHelpers, Zenon DEF Succeed
      <3> QED BY <1>2, <1>4, <2>2, <3>1 DEF Succeed, ExecutionFrame
    <2>3. CASE Retry(w)
      <3>0. worker[w].pc # "idle" BY <2>3 DEF Retry
      <3>1. t.retry + 1 \in Nat
        <4>1. t \in Task BY <3>0, WorkerHelpers
        <4>2. t.retry \in Nat BY <4>1, TaskFields
        <4> QED BY <4>2
      <3>2. [t EXCEPT !.retry = @ + 1, !.due = FALSE] \in Task
        BY <3>0, <3>1, WorkerHelpers, Zenon
      <3>3. UNCHANGED store \/ SaveTask([t EXCEPT !.retry = @ + 1, !.due = FALSE])
        BY <2>3 DEF Retry, SaveRetry
      <3>4. UNCHANGED snapshot BY <2>3 DEF Retry, ExecutionFrame
      <3> QED BY <1>2, <1>4, <3>2, <3>3, <3>4
    <2>4. CASE Delete(w)
      BY <1>3, <2>4, WorkerHelpers DEF Delete, ExecutionFrame
    <2> QED BY <1>10, <2>1, <2>2, <2>3, <2>4 DEF WorkerStep
  <1>11. CASE \/ \E type \in Types : RegisterHandler(type)
              \/ \E id \in Ids : EvictExpiredCompleted(id)
              \/ Pause
              \/ \E p \in Pools : StartDispatcher(p)
    BY <1>4, <1>11 DEF RegisterHandler, EvictExpiredCompleted, Pause, StartDispatcher,
                       StartUpTo
  <1> QED BY <1>1, <1>5, <1>6, <1>7, <1>8, <1>9, <1>10, <1>11 DEF Next

-----------------------------------------------------------------------------
(* The queues and the dispatchers' hands.                                  *)

QueueInv == WaitingOK /\ HandsOK /\ Placed

LEMMA QueueFrame ==
    ASSUME QueueInv, UNCHANGED <<queuedTasks, sharedPqs, dispatcher>>
    PROVE  QueueInv'
    BY DEF QueueInv, WaitingOK, HandsOK, Placed, HasTask, Hand

\* A scan pushes copies of ids that had none.
LEMMA QueuePush ==
    ASSUME TypeOK, Keyed, QueueInv, PushDueTasks
    PROVE  QueueInv'
  <1> DEFINE due == {id \in Ids : Eligible(id)}
  <1>1. /\ queuedTasks' = queuedTasks \cup due
        /\ UNCHANGED dispatcher
    BY DEF PushDueTasks
  <1>2. \A id \in due : /\ snapshot[id] \in Task /\ IdOf(snapshot[id]) = id
                        /\ id \notin queuedTasks
    BY DEF Keyed, TypeOK, Eligible
  <1>3. \A p \in Pools : sharedPqs'[p] =
            sharedPqs[p] \cup {snapshot[id] : id \in {i \in due : PoolOf(snapshot[i]) = p}}
    BY DEF PushDueTasks
  <1>4. \A p \in Pools : \A t \in sharedPqs'[p] :
            \/ t \in sharedPqs[p]
            \/ IdOf(t) \in due /\ t = snapshot[IdOf(t)] /\ PoolOf(t) = p
    BY <1>2, <1>3
  <1>5. WaitingOK'
    <2> SUFFICES ASSUME NEW p \in Pools, NEW t \in sharedPqs'[p]
                 PROVE  /\ PoolOf(t) = p
                        /\ IdOf(t) \in queuedTasks'
                        /\ \A q \in Pools : \A u \in sharedPqs'[q] : IdOf(u) = IdOf(t) => u = t
      BY DEF WaitingOK
    <2>1. CASE t \in sharedPqs[p]
      BY <1>1, <1>2, <1>4, <2>1 DEF QueueInv, WaitingOK
    <2>2. CASE IdOf(t) \in due /\ t = snapshot[IdOf(t)] /\ PoolOf(t) = p
      BY <1>1, <1>2, <1>4, <2>2 DEF QueueInv, WaitingOK
    <2> QED BY <1>4, <2>1, <2>2
  <1>6. HandsOK'
    <2> SUFFICES ASSUME NEW d \in Dispatchers, HasTask(d)
                 PROVE  /\ PoolOf(dispatcher[d].task) = d[1]
                        /\ Hand(d) \in queuedTasks'
                        /\ \A p \in Pools : \A t \in sharedPqs'[p] : IdOf(t) # Hand(d)
                        /\ \A e \in Dispatchers : HasTask(e) /\ Hand(e) = Hand(d) => e = d
      BY <1>1 DEF HandsOK, HasTask, Hand
    <2>1. Hand(d) \in queuedTasks BY DEF QueueInv, HandsOK
    <2>2. \A p \in Pools : \A t \in sharedPqs'[p] : IdOf(t) # Hand(d)
      BY <1>2, <1>4, <2>1 DEF QueueInv, HandsOK
    <2> QED BY <1>1, <2>1, <2>2 DEF QueueInv, HandsOK
  <1>7. Placed'
    <2> SUFFICES ASSUME NEW id \in queuedTasks'
                 PROVE  \/ \E p \in Pools : \E t \in sharedPqs'[p] : IdOf(t) = id
                        \/ \E d \in Dispatchers : HasTask(d) /\ Hand(d) = id
      BY <1>1 DEF Placed, HasTask, Hand
    <2>1. CASE id \in queuedTasks
      BY <1>3, <2>1 DEF QueueInv, Placed
    <2>2. CASE id \in due
      <3>1. snapshot[id] \in sharedPqs'[PoolOf(snapshot[id])] /\ PoolOf(snapshot[id]) \in Pools
        BY <1>2, <1>3, <2>2, TaskFields
      <3> QED BY <1>2, <2>2, <3>1
    <2> QED BY <1>1, <2>1, <2>2
  <1> QED BY <1>5, <1>6, <1>7 DEF QueueInv

\* A dispatcher is started empty-handed.
LEMMA QueueStart ==
    ASSUME TypeOK, QueueInv, NEW p \in Pools, StartDispatcher(p)
    PROVE  QueueInv'
  <1>1. UNCHANGED <<queuedTasks, sharedPqs>> BY DEF StartDispatcher, StartUpTo
  <1>2. \A d \in Dispatchers : /\ HasTask(d)' <=> HasTask(d)
                               /\ HasTask(d) => dispatcher'[d] = dispatcher[d]
    BY DEF StartDispatcher, StartUpTo, HasTask, TypeOK, Off
  <1> QED BY <1>1, <1>2 DEF QueueInv, WaitingOK, HandsOK, Placed, Hand

LEMMA QueueDispatcher ==
    ASSUME TypeOK, QueueInv, NEW d \in Dispatchers, DispatcherStep(d)
    PROVE  QueueInv'
  <1>0. d[1] \in Pools BY Hands
  <1>1. CASE Pop(d)
    <2>1. PICK t \in sharedPqs[d[1]] :
            /\ sharedPqs' = [sharedPqs EXCEPT ![d[1]] = @ \ {t}]
            /\ dispatcher' = [dispatcher EXCEPT ![d] = [pc |-> "have", task |-> t]]
      BY <1>1 DEF Pop, MostUrgent
    <2>2. queuedTasks' = queuedTasks /\ ~HasTask(d) BY <1>1 DEF Pop, HasTask
    <2>3. /\ HasTask(d)' /\ dispatcher'[d].task = t
          /\ \A e \in Dispatchers \ {d} : dispatcher'[e] = dispatcher[e]
      BY <2>1 DEF HasTask, TypeOK
    <2>4. /\ \A p \in Pools : sharedPqs'[p] \subseteq sharedPqs[p]
          /\ \A p \in Pools : \A u \in sharedPqs[p] : u = t \/ u \in sharedPqs'[p]
          /\ t \notin sharedPqs'[d[1]]
      BY <1>0, <2>1 DEF TypeOK
    <2>5. \A p \in Pools : \A u \in sharedPqs'[p] : IdOf(u) # IdOf(t)
      <3> SUFFICES ASSUME NEW p \in Pools, NEW u \in sharedPqs'[p], IdOf(u) = IdOf(t)
                   PROVE  FALSE
        OBVIOUS
      <3>1. u = t BY <1>0, <2>4 DEF QueueInv, WaitingOK
      <3>2. p = d[1] BY <1>0, <2>4, <3>1 DEF QueueInv, WaitingOK
      <3> QED BY <2>4, <3>1, <3>2
    <2>6. WaitingOK' BY <2>2, <2>4 DEF QueueInv, WaitingOK
    <2>7. HandsOK'
      <3> SUFFICES ASSUME NEW e \in Dispatchers, HasTask(e)'
                   PROVE  /\ PoolOf(dispatcher'[e].task) = e[1]
                          /\ Hand(e)' \in queuedTasks'
                          /\ \A p \in Pools : \A u \in sharedPqs'[p] : IdOf(u) # Hand(e)'
                          /\ \A f \in Dispatchers : HasTask(f)' /\ Hand(f)' = Hand(e)' => f = e
        BY DEF HandsOK
      <3>1. \A f \in Dispatchers \ {d} : HasTask(f)' => HasTask(f) /\ Hand(f)' = Hand(f)
                                                        /\ Hand(f) # IdOf(t)
        BY <1>0, <2>3 DEF HasTask, Hand, QueueInv, HandsOK
      <3>2. Hand(d)' = IdOf(t) BY <2>3 DEF Hand
      <3>3. CASE e = d
        BY <1>0, <2>2, <2>3, <2>5, <3>1, <3>2, <3>3 DEF QueueInv, WaitingOK
      <3>4. CASE e # d
        <4>1. HasTask(e) /\ dispatcher'[e] = dispatcher[e] /\ Hand(e)' = Hand(e)
          BY <2>3, <3>1, <3>4
        <4> QED BY <2>2, <2>4, <3>1, <3>2, <3>4, <4>1 DEF QueueInv, HandsOK
      <3> QED BY <3>3, <3>4
    <2>8. Placed'
      <3> SUFFICES ASSUME NEW id \in queuedTasks
                   PROVE  \/ \E p \in Pools : \E u \in sharedPqs'[p] : IdOf(u) = id
                          \/ \E e \in Dispatchers : HasTask(e)' /\ Hand(e)' = id
        BY <2>2 DEF Placed
      <3>1. CASE \E p \in Pools : \E u \in sharedPqs[p] : IdOf(u) = id
        BY <2>3, <2>4, <3>1 DEF Hand
      <3>2. CASE \E e \in Dispatchers : HasTask(e) /\ Hand(e) = id
        BY <2>2, <2>3, <3>2 DEF HasTask, Hand
      <3> QED BY <3>1, <3>2 DEF QueueInv, Placed
    <2> QED BY <2>6, <2>7, <2>8 DEF QueueInv
  <1>2. CASE PopNone(d) \/ Exit(d)
    <2>1. UNCHANGED <<queuedTasks, sharedPqs>> BY <1>2 DEF PopNone, Exit
    <2>2. \A e \in Dispatchers : /\ HasTask(e)' <=> HasTask(e)
                                 /\ HasTask(e) => dispatcher'[e] = dispatcher[e]
      BY <1>2 DEF PopNone, Exit, HasTask, TypeOK, Off
    <2> QED BY <2>1, <2>2 DEF QueueInv, WaitingOK, HandsOK, Placed, Hand
  <1>3. CASE Deny(d) \/ Admit(d)
    <2>1. /\ HasTask(d)
          /\ queuedTasks' = queuedTasks \ {Hand(d)} /\ UNCHANGED sharedPqs
      BY <1>3 DEF Deny, Admit, HasTask, Hand
    <2>2. /\ ~HasTask(d)'
          /\ \A e \in Dispatchers \ {d} : dispatcher'[e] = dispatcher[e]
      BY <1>3 DEF Deny, Admit, HasTask, TypeOK
    <2>3. \A e \in Dispatchers : HasTask(e)' => e # d /\ HasTask(e) /\ Hand(e)' = Hand(e)
                                                 /\ dispatcher'[e] = dispatcher[e]
      BY <2>2 DEF HasTask, Hand
    <2>4. WaitingOK' BY <2>1 DEF QueueInv, WaitingOK, HandsOK
    <2>5. HandsOK' BY <2>1, <2>3 DEF QueueInv, HandsOK
    <2>6. Placed'
      <3> SUFFICES ASSUME NEW id \in queuedTasks'
                   PROVE  \/ \E p \in Pools : \E u \in sharedPqs'[p] : IdOf(u) = id
                          \/ \E e \in Dispatchers : HasTask(e)' /\ Hand(e)' = id
        BY DEF Placed
      <3>1. id # Hand(d) /\ id \in queuedTasks BY <2>1
      <3>2. CASE \E e \in Dispatchers : HasTask(e) /\ Hand(e) = id
        BY <2>2, <3>1, <3>2 DEF HasTask, Hand
      <3> QED BY <2>1, <3>1, <3>2 DEF QueueInv, Placed
    <2> QED BY <2>4, <2>5, <2>6 DEF QueueInv
  <1> QED BY <1>1, <1>2, <1>3 DEF DispatcherStep

LEMMA QueueStep ==
    ASSUME TypeOK, Keyed, QueueInv, Next
    PROVE  QueueInv'
  <1>1. CASE \/ \E j \in Jobs : Enqueue(j)
             \/ \E type \in Types : RegisterHandler(type)
             \/ \E id \in Ids : BecomesDue(id) \/ EvictExpiredCompleted(id)
             \/ Pause
             \/ ReadTasks
    BY <1>1, QueueFrame
    DEF Enqueue, RegisterHandler, BecomesDue, EvictExpiredCompleted, Pause,
        ReadTasks, engine
  <1>2. CASE Restart
    BY <1>2 DEF Restart, QueueInv, WaitingOK, HandsOK, Placed, HasTask, Off
  <1>3. CASE \E w \in Workers : WorkerStep(w)
    <2>1. UNCHANGED <<queuedTasks, sharedPqs, dispatcher>>
      BY <1>3 DEF WorkerStep, SkipCompleted, Begin, NoHandler, Succeed, Retry,
                  GiveUp, Delete, Unhash, ExecutionFrame
    <2> QED BY <2>1, QueueFrame
  <1> QED BY <1>1, <1>2, <1>3, QueuePush, QueueStart, QueueDispatcher DEF Next

-----------------------------------------------------------------------------
(* Executions.                                                             *)

LEMMA ExecutionsFrame ==
    ASSUME ExecutionsOK, UNCHANGED <<queuedTasks, executingTasks, worker>>
    PROVE  ExecutionsOK'
    BY DEF ExecutionsOK, NeverQueuedWhileExecuting, Busy, Work

\* An execution that goes on keeps its task.
LEMMA ExecutionsMove ==
    ASSUME TypeOK, ExecutionsOK, NEW w \in Workers, Busy(w),
           NEW pc \in {"running"} \cup Finishing, Move(w, pc),
           UNCHANGED <<queuedTasks, executingTasks>>
    PROVE  ExecutionsOK'
  <1>1. worker[w].task = worker'[w].task /\ Busy(w)'
    <2>1. worker[w] \in [pc: {"spawned", "running"} \cup Finishing, task: Task]
      BY DEF TypeOK, WorkerState, Busy
    <2>2. worker'[w] = [worker[w] EXCEPT !.pc = pc] BY DEF Move, TypeOK
    <2>3. worker'[w].pc = pc /\ worker'[w].task = worker[w].task BY <2>1, <2>2
    <2> QED BY <2>3 DEF Busy, Finishing
  <1>2. \A v \in Workers \ {w} : worker'[v] = worker[v]
    BY DEF Move, TypeOK
  <1>3. \A v \in Workers : Busy(v)' => Busy(v) /\ Work(v)' = Work(v)
    BY <1>1, <1>2 DEF Busy, Work
  <1> QED BY <1>3 DEF ExecutionsOK, NeverQueuedWhileExecuting

\* An execution that ends takes only its own id with it, if any.
LEMMA ExecutionsReturn ==
    ASSUME TypeOK, ExecutionsOK, NEW w \in Workers, Busy(w),
           worker' = [worker EXCEPT ![w] = Idle],
           \/ executingTasks' = executingTasks \ {Work(w)}
           \/ executingTasks' = executingTasks,
           UNCHANGED queuedTasks
    PROVE  ExecutionsOK'
  <1>1. \A v \in Workers : Busy(v)' => v # w /\ Busy(v) /\ Work(v)' = Work(v)
    BY DEF Busy, Work, Idle, TypeOK
  <1>2. \A v \in Workers : Busy(v)' => Work(v) \in executingTasks'
    BY <1>1 DEF ExecutionsOK
  <1>3. queuedTasks' \cap executingTasks' = {}
    BY DEF ExecutionsOK, NeverQueuedWhileExecuting
  <1> QED BY <1>1, <1>2, <1>3 DEF ExecutionsOK, NeverQueuedWhileExecuting

LEMMA ExecutionsWorker ==
    ASSUME TypeOK, ExecutionsOK, NEW w \in Workers, WorkerStep(w)
    PROVE  ExecutionsOK'
  <1>1. Busy(w) /\ UNCHANGED queuedTasks
    BY DEF WorkerStep, SkipCompleted, Begin, NoHandler, Succeed, Retry, GiveUp,
           Delete, Unhash, ExecutionFrame, Busy
  <1>2. CASE Begin(w) \/ GiveUp(w) \/ Delete(w) \/ (Succeed(w) /\ ~Req[worker[w].task.job].cron)
    <2>1. PICK pc \in {"running"} \cup Finishing :
            Move(w, pc) /\ UNCHANGED executingTasks
      BY <1>2 DEF Begin, GiveUp, Delete, Succeed, Finishing
    <2> QED BY <1>1, <2>1, ExecutionsMove
  <1>3. CASE \/ SkipCompleted(w) \/ NoHandler(w) \/ Retry(w) \/ Unhash(w)
             \/ Succeed(w) /\ Req[worker[w].task.job].cron
    <2>1. /\ worker' = [worker EXCEPT ![w] = Idle]
          /\ \/ executingTasks' = executingTasks \ {Work(w)}
             \/ executingTasks' = executingTasks
      BY <1>3 DEF SkipCompleted, NoHandler, Retry, Unhash, Succeed, Return, Work
    <2> QED BY <1>1, <2>1, ExecutionsReturn
  <1> QED BY <1>2, <1>3 DEF WorkerStep

\* The admitted id leaves queued_tasks as it enters executing_tasks, where no
\* execution had it: it was still queued.
LEMMA ExecutionsAdmit ==
    ASSUME TypeOK, HandsOK, ExecutionsOK, NEW d \in Dispatchers, Admit(d)
    PROVE  ExecutionsOK'
  <1> DEFINE t == dispatcher[d].task
  <1>1. IdOf(t) \in queuedTasks BY DEF Admit, HandsOK, HasTask, Hand
  <1>2. IdOf(t) \notin executingTasks
    BY <1>1 DEF ExecutionsOK, NeverQueuedWhileExecuting
  <1>3. /\ queuedTasks' = queuedTasks \ {IdOf(t)}
        /\ executingTasks' = executingTasks \cup {IdOf(t)}
    BY <1>2 DEF Admit
  <1>4. PICK w \in Workers :
          worker[w] = Idle /\ worker' = [worker EXCEPT ![w] = [pc |-> "spawned", task |-> t]]
    BY <1>2 DEF Admit
  <1>5. /\ worker'[w].task = t
        /\ \A v \in Workers \ {w} : worker'[v] = worker[v]
    BY <1>4 DEF TypeOK
  <1>6. \A v \in Workers : Busy(v)' => \/ v = w /\ Work(v)' = IdOf(t)
                                       \/ v # w /\ Busy(v) /\ Work(v)' = Work(v)
    BY <1>5 DEF Busy, Work
  <1>7. \A v \in Workers : Busy(v) => Work(v) # IdOf(t)
    BY <1>2 DEF ExecutionsOK
  <1> QED BY <1>3, <1>6, <1>7 DEF ExecutionsOK, NeverQueuedWhileExecuting

LEMMA ExecutionsStep ==
    ASSUME TypeOK, Keyed, QueueInv, ExecutionsOK, Next
    PROVE  ExecutionsOK'
  <1>1. CASE \/ \E j \in Jobs : Enqueue(j)
             \/ \E type \in Types : RegisterHandler(type)
             \/ \E id \in Ids : BecomesDue(id) \/ EvictExpiredCompleted(id)
             \/ Pause
             \/ ReadTasks
             \/ \E p \in Pools : StartDispatcher(p)
    BY <1>1, ExecutionsFrame
    DEF Enqueue, RegisterHandler, BecomesDue, EvictExpiredCompleted, Pause,
        ReadTasks, StartDispatcher, StartUpTo, engine
  <1>2. CASE Restart
    BY <1>2 DEF Restart, ExecutionsOK, NeverQueuedWhileExecuting, Busy, Idle
  <1>3. CASE PushDueTasks
    BY <1>3 DEF PushDueTasks, Eligible, ExecutionsOK, NeverQueuedWhileExecuting,
                Busy, Work
  <1>4. ASSUME NEW d \in Dispatchers, Pop(d) \/ PopNone(d) \/ Exit(d)
        PROVE  ExecutionsOK'
    BY <1>4, ExecutionsFrame DEF Pop, PopNone, Exit
  <1>5. ASSUME NEW d \in Dispatchers, Deny(d) PROVE ExecutionsOK'
    BY <1>5 DEF Deny, ExecutionsOK, NeverQueuedWhileExecuting, Busy, Work
  <1>6. ASSUME NEW d \in Dispatchers, Admit(d) PROVE ExecutionsOK'
    BY <1>6, ExecutionsAdmit DEF QueueInv
  <1> QED BY <1>1, <1>2, <1>3, <1>4, <1>5, <1>6, ExecutionsWorker
          DEF Next, DispatcherStep

-----------------------------------------------------------------------------
(* The theorems that rest on IInv.                                         *)

LEMMA IInvStep == IInv /\ [Next]_vars => IInv'
  <1> SUFFICES ASSUME IInv, [Next]_vars PROVE IInv' OBVIOUS
  <1>1. CASE Next
    BY <1>1, TypeStep, KeyedStep, QueueStep, ExecutionsStep DEF IInv, QueueInv
  <1>2. CASE UNCHANGED vars
    <2>1. TypeOK' BY <1>2, TypeStep DEF IInv
    <2>2. Keyed' BY <1>2 DEF IInv, Keyed, vars, engine
    <2>3. QueueInv' BY <1>2, QueueFrame DEF IInv, QueueInv, vars, engine
    <2>4. ExecutionsOK' BY <1>2, ExecutionsFrame DEF IInv, vars, engine
    <2> QED BY <2>1, <2>2, <2>3, <2>4 DEF IInv, QueueInv
  <1> QED BY <1>1, <1>2

LEMMA IInvCorrect == Spec => []IInv
    BY IInvInit, IInvStep, PTL DEF Spec

LEMMA IInvQueuedExact == IInv => QueuedExact
  <1> SUFFICES ASSUME IInv, NEW id \in Ids
               PROVE  /\ id \in queuedTasks <=> Waiting(id) # {} \/ Holders(id) # {}
                      /\ Waiting(id) = {} \/ Holders(id) = {}
                      /\ \A t, u \in Waiting(id) : t = u
                      /\ \A d, e \in Holders(id) : d = e
    BY DEF QueuedExact
  <1>1. \A t \in Waiting(id) : IdOf(t) = id /\ \E p \in Pools : t \in sharedPqs[p]
    BY DEF Waiting
  <1>2. \A p \in Pools : \A t \in sharedPqs[p] : IdOf(t) = id => t \in Waiting(id)
    BY DEF Waiting
  <1>3. \A d \in Dispatchers : d \in Holders(id) <=> HasTask(d) /\ Hand(d) = id
    BY DEF Holders, HasTask, Hand
  <1>4. Holders(id) \subseteq Dispatchers BY DEF Holders
  <1>5. id \in queuedTasks => Waiting(id) # {} \/ Holders(id) # {}
    BY <1>2, <1>3 DEF IInv, Placed
  <1>6. Waiting(id) # {} \/ Holders(id) # {} => id \in queuedTasks
    BY <1>1, <1>3, <1>4 DEF IInv, WaitingOK, HandsOK
  <1>7. Waiting(id) = {} \/ Holders(id) = {}
    BY <1>1, <1>3, <1>4 DEF IInv, HandsOK
  <1>8. \A t, u \in Waiting(id) : t = u BY <1>1 DEF IInv, WaitingOK
  <1>9. \A d, e \in Holders(id) : d = e BY <1>3, <1>4 DEF IInv, HandsOK
  <1> QED BY <1>5, <1>6, <1>7, <1>8, <1>9

\* queued_tasks is exact in every reachable state, for any number of jobs,
\* ids, pools, permits and executions.
THEOREM QueuedExactCorrect == Spec => []QueuedExact
    BY IInvCorrect, IInvQueuedExact, PTL

LEMMA IInvOneExecution == IInv => OneExecutionPerTask
  <1> SUFFICES ASSUME IInv, NEW id \in Ids,
                      NEW v \in Executions(id), NEW w \in Executions(id)
               PROVE  v = w
    BY DEF OneExecutionPerTask
  <1>1. /\ v \in Workers /\ Busy(v) /\ Work(v) = id
        /\ w \in Workers /\ Busy(w) /\ Work(w) = id
    BY DEF Executions, Busy, Work
  <1> QED BY <1>1 DEF IInv, ExecutionsOK

\* No id is ever executed twice at one time.
THEOREM OneExecutionCorrect == Spec => []OneExecutionPerTask
    BY IInvCorrect, IInvOneExecution, PTL

\* An id is never queued while it is executing.
THEOREM NeverQueuedWhileExecutingCorrect == Spec => []NeverQueuedWhileExecuting
  <1>1. IInv => NeverQueuedWhileExecuting BY DEF IInv, ExecutionsOK
  <1> QED BY <1>1, IInvCorrect, PTL

-----------------------------------------------------------------------------
(* Durability: NeverLost, from VerdictFirst.                               *)

\* Saving a task empties no slot of the store.
LEMMA SaveKeeps ==
    ASSUME TypeOK, NEW t \in Task, SaveTask(t), NEW id \in Ids, store[id] # NoTask
    PROVE  store'[id] # NoTask
    BY Sentinels, TaskFields DEF TypeOK, SaveTask

LEMMA VerdictStep ==
    ASSUME TypeOK, VerdictFirst, Next
    PROVE  VerdictFirst'
  <1>1. ASSUME UNCHANGED worker, finished \subseteq finished' PROVE VerdictFirst'
    BY <1>1 DEF VerdictFirst
  <1>2. CASE \/ \E j \in Jobs : Enqueue(j)
             \/ \E type \in Types : RegisterHandler(type)
             \/ \E id \in Ids : BecomesDue(id) \/ EvictExpiredCompleted(id)
             \/ Pause \/ ReadTasks \/ PushDueTasks
             \/ \E p \in Pools : StartDispatcher(p)
             \/ \E d \in Dispatchers : Pop(d) \/ PopNone(d) \/ Exit(d) \/ Deny(d)
    BY <1>1, <1>2
    DEF Enqueue, RegisterHandler, BecomesDue, EvictExpiredCompleted, Pause,
        ReadTasks, PushDueTasks, StartDispatcher, StartUpTo, Pop, PopNone, Exit, Deny,
        DispatcherFrame, engine, history
  <1>3. CASE Restart
    BY <1>3 DEF Restart, VerdictFirst, Idle, Finishing
  <1>4. ASSUME NEW d \in Dispatchers, Admit(d) PROVE VerdictFirst'
    <2>1. \A w \in Workers : \/ worker'[w] = worker[w]
                             \/ worker'[w].pc \notin Finishing
      BY <1>4 DEF Admit, TypeOK, Finishing
    <2> QED BY <1>4, <2>1 DEF Admit, DispatcherFrame, history, VerdictFirst
  <1>5. ASSUME NEW w \in Workers, WorkerStep(w) PROVE VerdictFirst'
    <2>1. /\ finished \subseteq finished'
          /\ \A v \in Workers \ {w} : worker'[v] = worker[v]
      BY <1>5 DEF WorkerStep, SkipCompleted, Begin, NoHandler, Succeed, Retry,
                  GiveUp, Delete, Unhash, Return, Move, TypeOK
    <2>2. worker[w].pc # "idle"
      BY <1>5 DEF WorkerStep, SkipCompleted, Begin, NoHandler, Succeed, Retry,
                  GiveUp, Delete, Unhash
    <2>3. worker[w] \in [pc: {"spawned", "running"} \cup Finishing, task: Task]
      BY <2>2 DEF TypeOK, WorkerState
    <2>4. \A pc : worker' = [worker EXCEPT ![w].pc = pc]
                     => worker'[w].pc = pc /\ worker'[w].task = worker[w].task
      BY <2>3 DEF TypeOK
    <2>5. CASE SkipCompleted(w) \/ NoHandler(w) \/ Retry(w) \/ Unhash(w)
      <3>1. worker'[w].pc \notin Finishing
        BY <2>5 DEF SkipCompleted, NoHandler, Retry, Unhash, Return, Idle,
                    Finishing, TypeOK
      <3> QED BY <2>1, <3>1 DEF VerdictFirst
    <2>6. CASE Begin(w)
      <3>1. worker'[w].pc \notin Finishing
        BY <2>4, <2>6 DEF Begin, Move, Finishing
      <3> QED BY <2>1, <3>1 DEF VerdictFirst
    <2>7. CASE Succeed(w) \/ GiveUp(w) \/ Delete(w)
      <3>1. CASE worker' = [worker EXCEPT ![w] = Idle]
        <4>1. worker'[w].pc \notin Finishing
          BY <3>1 DEF Idle, Finishing, TypeOK
        <4> QED BY <2>1, <4>1 DEF VerdictFirst
      <3>2. CASE /\ worker'[w].task = worker[w].task
                 /\ worker[w].task.job \in finished'
        BY <2>1, <3>2 DEF VerdictFirst
      <3>3. \/ worker' = [worker EXCEPT ![w] = Idle]
            \/ Move(w, "finish") /\ worker[w].task.job \in finished'
            \/ Move(w, "unhash") /\ worker[w].task.job \in finished'
        BY <2>7 DEF Succeed, GiveUp, Delete, Return, VerdictFirst, Finishing
      <3> QED BY <2>4, <3>1, <3>2, <3>3 DEF Move
    <2> QED BY <1>5, <2>5, <2>6, <2>7 DEF WorkerStep
  <1> QED BY <1>2, <1>3, <1>4, <1>5 DEF Next, DispatcherStep

LEMMA NeverLostStep ==
    ASSUME TypeOK, VerdictFirst, NeverLost, UniqueIds, Next
    PROVE  NeverLost'
  <1>0. \A j \in accepted : j \in Jobs /\ Req[j].id \in Ids
    BY RequestFields DEF TypeOK
  <1>1. ASSUME accepted' = accepted, finished \subseteq finished',
               \A id \in Ids : store[id] # NoTask => store'[id] # NoTask
        PROVE  NeverLost'
    BY <1>0, <1>1 DEF NeverLost
  <1>2. ASSUME NEW j \in Jobs, Enqueue(j) PROVE NeverLost'
    <2>1. \A id \in Ids : store[id] # NoTask => store'[id] # NoTask
      BY <1>2, RequestFields, Sentinels DEF Enqueue, TypeOK
    <2>2. \A i \in accepted' : \/ i \in accepted
                               \/ i = j /\ store'[Req[j].id] = NewTask(j)
      BY <1>2, RequestFields DEF Enqueue, TypeOK
    <2>3. NewTask(j) # NoTask /\ finished' = finished
      BY <1>2, RequestFields, Sentinels DEF Enqueue
    <2> QED BY <1>0, <2>1, <2>2, <2>3 DEF NeverLost
  <1>3. ASSUME NEW id \in Ids, BecomesDue(id) PROVE NeverLost'
    <2>1. store[id] \in Task BY <1>3 DEF TypeOK, BecomesDue
    <2>2. [store[id] EXCEPT !.due = TRUE] \in Task BY <2>1 DEF Task
    <2>3. \A i \in Ids : store[i] # NoTask => store'[i] # NoTask
      BY <1>3, <2>2, Sentinels DEF TypeOK, BecomesDue
    <2> QED BY <1>1, <1>3, <2>3 DEF BecomesDue, history
  <1>4. CASE \/ \E type \in Types : RegisterHandler(type)
             \/ \E id \in Ids : EvictExpiredCompleted(id)
             \/ Pause \/ Restart \/ ReadTasks \/ PushDueTasks
             \/ \E p \in Pools : StartDispatcher(p)
             \/ \E d \in Dispatchers : Pop(d) \/ PopNone(d) \/ Exit(d) \/ Admit(d)
    <2>1. UNCHANGED <<store, accepted, finished>>
      BY <1>4
      DEF RegisterHandler, EvictExpiredCompleted, Pause, Restart, ReadTasks,
          PushDueTasks, StartDispatcher, StartUpTo, Pop, PopNone, Exit, Admit,
          DispatcherFrame, history
    <2> QED BY <1>1, <2>1
  <1>5. ASSUME NEW d \in Dispatchers, Deny(d) PROVE NeverLost'
    <2>1. [dispatcher[d].task EXCEPT !.due = FALSE] \in Task
      BY <1>5, Hands DEF Deny, Task
    <2>2. \A id \in Ids : store[id] # NoTask => store'[id] # NoTask
      BY <1>5, <2>1, SaveKeeps DEF Deny
    <2> QED BY <1>1, <1>5, <2>2 DEF Deny, DispatcherFrame, history
  <1>6. ASSUME NEW w \in Workers, WorkerStep(w) PROVE NeverLost'
    <2> DEFINE t == worker[w].task
    <2>1. accepted' = accepted /\ finished \subseteq finished'
      BY <1>6 DEF WorkerStep, SkipCompleted, Begin, NoHandler, Succeed, Retry,
                  GiveUp, Delete, Unhash, ExecutionFrame
    <2>2. /\ worker[w].pc # "idle" /\ t \in Task /\ t.job \in Jobs
          /\ t.retry + 1 \in Nat
      <3>1. worker[w].pc # "idle"
        BY <1>6 DEF WorkerStep, SkipCompleted, Begin, NoHandler, Succeed, Retry,
                    GiveUp, Delete, Unhash
      <3>2. t \in Task BY <3>1, WorkerHelpers
      <3>3. t.job \in Jobs /\ t.retry \in Nat BY <3>2, TaskFields
      <3> QED BY <3>1, <3>2, <3>3
    <2>3. CASE SkipCompleted(w) \/ Begin(w) \/ NoHandler(w) \/ GiveUp(w) \/ Unhash(w)
      BY <1>1, <2>1, <2>3 DEF SkipCompleted, Begin, NoHandler, GiveUp, Unhash
    <2>4. CASE Succeed(w) \/ Retry(w)
      <3>0. \A n \in Nat : [t EXCEPT !.retry = n, !.due = FALSE] \in Task
        BY <2>2, WorkerHelpers
      <3>1. /\ [t EXCEPT !.retry = 0, !.due = FALSE] \in Task
            /\ [t EXCEPT !.retry = @ + 1, !.due = FALSE] \in Task
        BY <2>2, <3>0, Zenon
      <3>2. \A id \in Ids : store[id] # NoTask => store'[id] # NoTask
        BY <2>4, <3>1, SaveKeeps DEF Succeed, Retry, SaveRetry
      <3> QED BY <1>1, <2>1, <3>2
    <2>5. CASE Delete(w)
      <3>1. t.job \in finished
        BY <2>5 DEF Delete, VerdictFirst, Finishing
      <3>2. \A i \in Ids : store[i] # NoTask => store'[i] # NoTask \/ i = IdOf(t)
        BY <2>5 DEF Delete, DeleteTask, TypeOK
      <3>3. \A j \in accepted : Req[j].id = IdOf(t) => j = t.job
        BY <1>0, <2>2 DEF UniqueIds, IdOf
      <3> QED BY <1>0, <2>1, <3>1, <3>2, <3>3 DEF NeverLost
    <2> QED BY <1>6, <2>3, <2>4, <2>5 DEF WorkerStep
  <1> QED BY <1>2, <1>3, <1>4, <1>5, <1>6 DEF Next, DispatcherStep

VerdictInv == TypeOK /\ VerdictFirst /\ NeverLost

LEMMA VerdictInvCorrect == Spec => []VerdictInv
  <1> USE DEF VerdictInv
  <1>1. Init => VerdictInv
    BY TypeInit DEF Init, EngineInit, VerdictFirst, NeverLost, Idle, Finishing
  <1>2. VerdictInv /\ [Next]_vars => VerdictInv'
    <2> SUFFICES ASSUME VerdictInv, [Next]_vars PROVE VerdictInv' OBVIOUS
    <2>1. TypeOK' BY TypeStep
    <2>2. CASE Next
      <3>1. CASE UniqueIds BY <2>1, <2>2, <3>1, VerdictStep, NeverLostStep
      <3>2. CASE ~UniqueIds BY <2>1, <2>2, <3>2, VerdictStep DEF NeverLost
      <3> QED BY <3>1, <3>2
    <2>3. CASE UNCHANGED vars
      BY <2>1, <2>3 DEF vars, engine, history, VerdictFirst, NeverLost
    <2> QED BY <2>2, <2>3
  <1> QED BY <1>1, <1>2, PTL DEF Spec

\* An accepted job is stored until it has its verdict, whatever crashes, lost
\* writes, rate limits and stale copies come in between.
THEOREM NeverLostCorrect == Spec => []NeverLost
  <1>1. VerdictInv => NeverLost BY DEF VerdictInv
  <1> QED BY <1>1, VerdictInvCorrect, PTL

-----------------------------------------------------------------------------
(* Attempts: NeverGivesUpEarly, from RetriesCounted.                       *)

\* A failed attempt is counted up to the cap, and no count goes down.
LEMMA CountFacts ==
    ASSUME TypeOK, NEW j \in Jobs, CountFailure(j)
    PROVE  /\ \A i \in Jobs : failures'[i] >= failures[i]
           /\ failures'[j] \in 1..FailureCap
           /\ \A n \in Nat : n <= failures[j] /\ n < FailureCap => n + 1 <= failures'[j]
  <1>1. FailureCap \in Nat \ {0} BY CapAssumption
  <1>2. \A i \in Jobs : failures[i] \in 0..FailureCap BY DEF TypeOK
  <1>3. failures'[j] = IF failures[j] < FailureCap THEN failures[j] + 1 ELSE failures[j]
    BY DEF CountFailure, TypeOK
  <1>4. \A i \in Jobs \ {j} : failures'[i] = failures[i]
    BY DEF CountFailure, TypeOK
  <1> QED BY <1>1, <1>2, <1>3, <1>4

\* Membership in Copies, spelled out.
CopyIn(t) ==
    \/ \E id \in Ids : t = store[id]
    \/ \E id \in Ids : t = snapshot[id]
    \/ \E p \in Pools : t \in sharedPqs[p]
    \/ \E d \in Dispatchers : t = dispatcher[d].task
    \/ \E w \in Workers : t = worker[w].task

LEMMA CopyCases == \A t : t \in Copies <=> t # NoTask /\ CopyIn(t)
  <1> SUFFICES ASSUME NEW t PROVE t \in Copies <=> t # NoTask /\ CopyIn(t)
    OBVIOUS
  <1>1. t \in StoredCopies <=> \E id \in Ids : t = store[id]
    BY DEF StoredCopies
  <1>2. t \in ScannedCopies <=> \E id \in Ids : t = snapshot[id]
    BY DEF ScannedCopies
  <1>3. t \in WaitingCopies <=> \E p \in Pools : t \in sharedPqs[p]
    BY DEF WaitingCopies
  <1>4. t \in HeldCopies <=> \E d \in Dispatchers : t = dispatcher[d].task
    BY DEF HeldCopies
  <1>5. t \in ExecutedCopies <=> \E w \in Workers : t = worker[w].task
    BY DEF ExecutedCopies
  <1>6. t \in Copies <=> t # NoTask /\ \/ t \in StoredCopies \/ t \in ScannedCopies
                                       \/ t \in WaitingCopies \/ t \in HeldCopies
                                       \/ t \in ExecutedCopies
    BY DEF Copies
  <1> QED BY <1>1, <1>2, <1>3, <1>4, <1>5, <1>6 DEF CopyIn

LEMMA CopyCasesNext == (\A t : t \in Copies <=> t # NoTask /\ CopyIn(t))'
    BY CopyCases, PTL

\* Every copy is a task.
LEMMA CopiesAreTasks == TypeOK => Copies \subseteq Task
  <1> SUFFICES ASSUME TypeOK, NEW t \in Copies PROVE t \in Task OBVIOUS
  <1>0. t # NoTask /\ CopyIn(t) BY CopyCases
  <1>1. CASE \E id \in Ids : t = store[id] \/ t = snapshot[id]
    BY <1>0, <1>1 DEF TypeOK
  <1>2. CASE \E p \in Pools : t \in sharedPqs[p]
    BY <1>2 DEF TypeOK
  <1>3. CASE \E d \in Dispatchers : t = dispatcher[d].task
    BY <1>0, <1>3 DEF TypeOK, DispatcherState
  <1>4. CASE \E w \in Workers : t = worker[w].task
    BY <1>0, <1>4 DEF TypeOK, WorkerState
  <1> QED BY <1>0, <1>1, <1>2, <1>3, <1>4 DEF CopyIn

\* A step that only moves copies about, and uncounts no failure, keeps them
\* counted; so does one that makes copies that count no more than they may.
LEMMA RetriesFrom ==
    ASSUME TypeOK, RetriesCounted,
           \A j \in Jobs : failures'[j] >= failures[j],
           failures' \in [Jobs -> 0..FailureCap],
           \A t \in Copies' : t \in Copies \/ t.retry <= failures'[t.job]
    PROVE  RetriesCounted'
  <1> SUFFICES ASSUME NEW t \in Copies' PROVE t.retry <= failures'[t.job]
    BY DEF RetriesCounted
  <1>1. CASE t \in Copies
    <2>1. t \in Task BY <1>1, CopiesAreTasks
    <2>2. t.job \in Jobs /\ t.retry \in Nat BY <2>1, TaskFields
    <2>3. t.retry <= failures[t.job] BY <1>1 DEF RetriesCounted
    <2>4. failures[t.job] \in Int /\ failures'[t.job] \in Int
      BY <2>2, CapAssumption DEF TypeOK
    <2> QED BY <2>2, <2>3, <2>4
  <1> QED BY <1>1

\* Where the copies of the next state come from.
LEMMA CopiesOf ==
    ASSUME NEW t \in Copies'
    PROVE  /\ t # NoTask
           /\ \/ \E id \in Ids : t = store'[id]
              \/ \E id \in Ids : t = snapshot'[id]
              \/ \E p \in Pools : t \in sharedPqs'[p]
              \/ \E d \in Dispatchers : t = dispatcher'[d].task
              \/ \E w \in Workers : t = worker'[w].task
    BY CopyCasesNext DEF CopyIn

LEMMA CopiesHere ==
    /\ \A id \in Ids : store[id] \in Copies \cup {NoTask}
    /\ \A id \in Ids : snapshot[id] \in Copies \cup {NoTask}
    /\ \A p \in Pools : \A t \in sharedPqs[p] : t \in Copies \cup {NoTask}
    /\ \A d \in Dispatchers : dispatcher[d].task \in Copies \cup {NoTask}
    /\ \A w \in Workers : worker[w].task \in Copies \cup {NoTask}
    BY CopyCases DEF CopyIn

LEMMA RetriesStepQuiet ==
    ASSUME TypeOK, RetriesCounted,
           \/ \E j \in Jobs : Enqueue(j)
           \/ \E type \in Types : RegisterHandler(type)
           \/ \E id \in Ids : BecomesDue(id) \/ EvictExpiredCompleted(id)
           \/ Pause \/ Restart \/ ReadTasks \/ PushDueTasks
           \/ \E p \in Pools : StartDispatcher(p)
    PROVE  RetriesCounted' /\ failures' = failures /\ dlq' = dlq
  <1>0. failures' = failures /\ dlq' = dlq
    BY DEF Enqueue, RegisterHandler, BecomesDue, EvictExpiredCompleted, Pause,
           Restart, ReadTasks, PushDueTasks, StartDispatcher, StartUpTo, history
  <1>a. \A j \in Jobs : failures[j] \in Nat /\ failures[j] >= failures[j]
    BY CapAssumption DEF TypeOK
  <1>b. failures' \in [Jobs -> 0..FailureCap] BY <1>0 DEF TypeOK
  <1>1. ASSUME NEW j \in Jobs, Enqueue(j) PROVE RetriesCounted'
    <2>1. \A id \in Ids : store'[id] = store[id] \/ store'[id] = NewTask(j)
      BY <1>1 DEF Enqueue, TypeOK
    <2>2. NewTask(j).retry <= failures[NewTask(j).job]
      BY <1>a DEF NewTask
    <2>3. \A t \in Copies' : t \in Copies \/ t = NewTask(j)
      BY <1>1, <2>1, CopiesOf, CopiesHere DEF Enqueue, engine
    <2>4. \A t \in Copies' : t \in Copies \/ t.retry <= failures'[t.job]
      BY <1>0, <2>2, <2>3
    <2> QED BY <1>0, <1>a, <1>b, <2>4, RetriesFrom
  <1>2. ASSUME NEW id \in Ids, BecomesDue(id) PROVE RetriesCounted'
    <2> DEFINE u == [store[id] EXCEPT !.due = TRUE]
    <2>1. store[id] \in Task /\ store[id] \in Copies
      BY <1>2, CopiesHere DEF BecomesDue, TypeOK
    <2>2. u.retry = store[id].retry /\ u.job = store[id].job
      BY <2>1 DEF Task
    <2>3. u.retry <= failures[u.job] BY <2>1, <2>2 DEF RetriesCounted
    <2>4. \A i \in Ids : store'[i] = store[i] \/ store'[i] = u
      BY <1>2 DEF BecomesDue, TypeOK
    <2>5. \A t \in Copies' : t \in Copies \/ t = u
      BY <1>2, <2>4, CopiesOf, CopiesHere DEF BecomesDue, engine
    <2>6. \A t \in Copies' : t \in Copies \/ t.retry <= failures'[t.job]
      BY <1>0, <2>3, <2>5
    <2> QED BY <1>0, <1>a, <1>b, <2>6, RetriesFrom
  <1>3. CASE Restart
    <2>1. \A t \in Copies' : \E id \in Ids : t = store[id]
      <3> SUFFICES ASSUME NEW t \in Copies' PROVE \E id \in Ids : t = store[id]
        OBVIOUS
      <3>1. /\ \A id \in Ids : snapshot'[id] = NoTask /\ store'[id] = store[id]
            /\ \A p \in Pools : sharedPqs'[p] = {}
            /\ \A d \in Dispatchers : dispatcher'[d].task = NoTask
            /\ \A w \in Workers : worker'[w].task = NoTask
        BY <1>3 DEF Restart, NoTasks, Off, Idle
      <3> QED BY <3>1, CopiesOf
    <2>2. \A t \in Copies' : t \in Copies
      BY <2>1, CopiesOf, CopiesHere
    <2> QED BY <1>0, <1>a, <1>b, <2>2, RetriesFrom
  <1>4. CASE PushDueTasks
    <2>1. \A p \in Pools : \A t \in sharedPqs'[p] :
            t \in sharedPqs[p] \/ \E id \in Ids : t = snapshot[id]
      BY <1>4 DEF PushDueTasks
    <2>2. \A t \in Copies' : t \in Copies
      BY <1>4, <2>1, CopiesOf, CopiesHere DEF PushDueTasks, NoTasks
    <2> QED BY <1>0, <1>a, <1>b, <2>2, RetriesFrom
  <1>5. ASSUME NEW p \in Pools, StartDispatcher(p) PROVE RetriesCounted'
    <2>1. \A d \in Dispatchers : dispatcher'[d].task = dispatcher[d].task
      <3> SUFFICES ASSUME NEW d \in Dispatchers
                   PROVE  dispatcher'[d].task = dispatcher[d].task
        OBVIOUS
      <3>1. \/ dispatcher'[d] = dispatcher[d]
            \/ dispatcher[d] = Off /\ dispatcher'[d] = [dispatcher[d] EXCEPT !.pc = "loop"]
        BY <1>5 DEF StartDispatcher, StartUpTo, TypeOK
      <3> QED BY <3>1 DEF Off
    <2>2. UNCHANGED <<store, snapshot, sharedPqs, worker>>
      BY <1>5 DEF StartDispatcher, StartUpTo
    <2>3. \A t \in Copies' : t \in Copies
      BY <2>1, <2>2, CopyCasesNext, CopyCases DEF CopyIn
    <2> QED BY <1>0, <1>a, <1>b, <2>3, RetriesFrom
  <1>6. CASE \/ \E type \in Types : RegisterHandler(type)
             \/ \E id \in Ids : EvictExpiredCompleted(id)
             \/ Pause
    <2>1. UNCHANGED <<store, snapshot, sharedPqs, dispatcher, worker>>
      BY <1>6 DEF RegisterHandler, EvictExpiredCompleted, Pause
    <2>2. \A t \in Copies' : t \in Copies
      BY <2>1, CopyCasesNext, CopyCases DEF CopyIn
    <2> QED BY <1>0, <1>a, <1>b, <2>2, RetriesFrom
  <1>7. CASE ReadTasks
    <2>1. snapshot' = store /\ UNCHANGED <<store, sharedPqs, dispatcher, worker>>
      BY <1>7 DEF ReadTasks
    <2>2. \A t \in Copies' : t \in Copies
      BY <2>1, CopyCasesNext, CopyCases DEF CopyIn
    <2> QED BY <1>0, <1>a, <1>b, <2>2, RetriesFrom
  <1> QED BY <1>0, <1>1, <1>2, <1>3, <1>4, <1>5, <1>6, <1>7

LEMMA RetriesStepDispatcher ==
    ASSUME TypeOK, RetriesCounted, NEW d \in Dispatchers, DispatcherStep(d)
    PROVE  RetriesCounted' /\ failures' = failures /\ dlq' = dlq
  <1>0. failures' = failures /\ dlq' = dlq /\ snapshot' = snapshot
    BY DEF DispatcherStep, Pop, PopNone, Exit, Deny, Admit, DispatcherFrame, history
  <1>a. \A j \in Jobs : failures'[j] >= failures[j]
    BY <1>0, CapAssumption DEF TypeOK
  <1>b. failures' \in [Jobs -> 0..FailureCap] BY <1>0 DEF TypeOK
  <1>c. d[1] \in Pools BY Hands
  <1> DEFINE h == dispatcher[d].task
             u == [h EXCEPT !.due = FALSE]
  <1>1. ASSUME UNCHANGED store, UNCHANGED worker,
               \A p \in Pools : sharedPqs'[p] \subseteq sharedPqs[p],
               \A e \in Dispatchers : dispatcher'[e].task \in Copies \cup {NoTask}
        PROVE  RetriesCounted'
    <2>1. \A t \in Copies' : t \in Copies
      BY <1>0, <1>1, CopiesOf, CopiesHere
    <2> QED BY <1>a, <1>b, <2>1, RetriesFrom
  <1>2. CASE Pop(d)
    <2>1. PICK t \in sharedPqs[d[1]] :
            /\ sharedPqs' = [sharedPqs EXCEPT ![d[1]] = @ \ {t}]
            /\ dispatcher' = [dispatcher EXCEPT ![d] = [pc |-> "have", task |-> t]]
      BY <1>2 DEF Pop, MostUrgent
    <2>2. t \in Copies \cup {NoTask} BY <1>c, CopiesHere
    <2>3. \A e \in Dispatchers : dispatcher'[e].task \in {t, dispatcher[e].task}
      BY <2>1 DEF TypeOK
    <2>4. \A p \in Pools : sharedPqs'[p] \subseteq sharedPqs[p]
      BY <2>1 DEF TypeOK
    <2>5. UNCHANGED <<store, worker>> BY <1>2 DEF Pop
    <2> QED BY <1>0, <1>1, <2>2, <2>3, <2>4, <2>5, CopiesHere
  <1>3. CASE PopNone(d) \/ Exit(d)
    <2>1. \A e \in Dispatchers : dispatcher'[e].task \in {NoTask, dispatcher[e].task}
      BY <1>3 DEF PopNone, Exit, Off, TypeOK
    <2>2. UNCHANGED <<store, sharedPqs, worker>> BY <1>3 DEF PopNone, Exit
    <2> QED BY <1>0, <1>1, <2>1, <2>2, CopiesHere
  <1>4. CASE Deny(d)
    <2>1. h \in Task /\ h \in Copies
      BY <1>4, Hands, CopiesHere, Sentinels DEF Deny
    <2>2. u \in Task /\ u.retry = h.retry /\ u.job = h.job
      BY <2>1 DEF Task
    <2>3. u.retry <= failures[u.job] BY <2>1, <2>2 DEF RetriesCounted
    <2>4. \A id \in Ids : store'[id] \in {store[id], u}
      BY <1>4 DEF Deny, SaveTask, TypeOK
    <2>5. \A e \in Dispatchers : dispatcher'[e].task \in {NoTask, dispatcher[e].task}
      BY <1>4 DEF Deny, TypeOK
    <2>6. UNCHANGED <<sharedPqs, worker>> BY <1>4 DEF Deny
    <2>7. \A t \in Copies' : t \in Copies \/ t = u
      BY <1>0, <2>4, <2>5, <2>6, CopiesOf, CopiesHere
    <2>8. \A t \in Copies' : t \in Copies \/ t.retry <= failures'[t.job]
      BY <1>0, <2>3, <2>7
    <2> QED BY <1>0, <1>a, <1>b, <2>8, RetriesFrom
  <1>5. CASE Admit(d)
    <2>1. \A w \in Workers : worker'[w].task \in {h, worker[w].task}
      BY <1>5 DEF Admit, TypeOK
    <2>2. \A e \in Dispatchers : dispatcher'[e].task \in {NoTask, dispatcher[e].task}
      BY <1>5 DEF Admit, TypeOK
    <2>3. UNCHANGED <<store, sharedPqs>> BY <1>5 DEF Admit
    <2>4. \A t \in Copies' : t \in Copies
      BY <1>0, <2>1, <2>2, <2>3, CopiesOf, CopiesHere
    <2> QED BY <1>0, <1>a, <1>b, <2>4, RetriesFrom
  <1> QED BY <1>0, <1>2, <1>3, <1>4, <1>5 DEF DispatcherStep

LEMMA RetriesStepWorker ==
    ASSUME TypeOK, RetriesCounted, NeverGivesUpEarly, NEW w \in Workers, WorkerStep(w)
    PROVE  RetriesCounted' /\ NeverGivesUpEarly'
  <1> DEFINE t == worker[w].task
             first == [t EXCEPT !.retry = 0, !.due = FALSE]
             again == [t EXCEPT !.retry = @ + 1, !.due = FALSE]
  <1>1. worker[w].pc # "idle"
    BY DEF WorkerStep, SkipCompleted, Begin, NoHandler, Succeed, Retry,
           GiveUp, Delete, Unhash
  <1>2. t \in Task /\ t \in Copies BY <1>1, WorkerHelpers, CopiesHere, Sentinels
  <1>3. /\ t.job \in Jobs /\ t.retry \in Nat /\ Req[t.job].max \in Int
        /\ t.retry <= failures[t.job]
    BY <1>2, TaskFields DEF RetriesCounted
  <1>4. /\ first.retry = 0 /\ first.job = t.job
        /\ again.retry = t.retry + 1 /\ again.job = t.job
        /\ IdOf(first) = IdOf(t) /\ IdOf(again) = IdOf(t)
    BY <1>2 DEF Task, IdOf
  <1>5. FailureCap \in Nat \ {0} /\ Req[t.job].max <= FailureCap
    BY <1>3, CapAssumption
  <1>6. /\ UNCHANGED <<snapshot, sharedPqs, dispatcher>>
        /\ \A v \in Workers : worker'[v].task \in {NoTask, worker[v].task}
    <2>1. UNCHANGED <<snapshot, sharedPqs, dispatcher>>
      BY DEF WorkerStep, SkipCompleted, Begin, NoHandler, Succeed, Retry, GiveUp,
             Delete, Unhash, ExecutionFrame
    <2>2. \/ worker' = [worker EXCEPT ![w] = Idle]
          \/ \E pc : worker' = [worker EXCEPT ![w].pc = pc]
      BY DEF WorkerStep, SkipCompleted, Begin, NoHandler, Succeed, Retry, GiveUp,
             Delete, Unhash, Return, Move
    <2>3. worker[w] \in [pc: {"spawned", "running"} \cup Finishing, task: Task]
      BY <1>1 DEF TypeOK, WorkerState
    <2>4. \A pc : [worker[w] EXCEPT !.pc = pc].task = worker[w].task BY <2>3
    <2>5. \/ worker'[w].task = NoTask
          \/ worker'[w].task = worker[w].task
      <3>1. CASE worker' = [worker EXCEPT ![w] = Idle]
        BY <3>1 DEF Idle, TypeOK
      <3>2. ASSUME NEW pc, worker' = [worker EXCEPT ![w].pc = pc]
            PROVE  worker'[w].task = worker[w].task
        <4>1. worker'[w] = [worker[w] EXCEPT !.pc = pc] BY <3>2 DEF TypeOK
        <4> QED BY <2>4, <4>1
      <3> QED BY <2>2, <3>1, <3>2
    <2>6. \A v \in Workers \ {w} : worker'[v] = worker[v]
      BY <2>2 DEF TypeOK
    <2> QED BY <2>1, <2>5, <2>6
  <1>7. /\ \A j \in Jobs : failures'[j] >= failures[j]
        /\ failures' \in [Jobs -> 0..FailureCap]
    <2>1. CASE failures' = failures BY <1>5, <2>1 DEF TypeOK
    <2>2. CASE CountFailure(t.job) BY <1>3, <2>2, CountFacts, FailureType
    <2>3. failures' = failures \/ CountFailure(t.job)
      BY DEF WorkerStep, SkipCompleted, Begin, NoHandler, Succeed, Retry, GiveUp,
             Delete, Unhash
    <2> QED BY <2>1, <2>2, <2>3
  <1>8. ASSUME \A id \in Ids : \/ store'[id] \in {store[id], NoTask}
                               \/ store'[id].retry <= failures'[store'[id].job]
        PROVE  RetriesCounted'
    <2>1. \A c \in Copies' : c \in Copies \/ c.retry <= failures'[c.job]
      BY <1>6, <1>8, CopiesOf, CopiesHere
    <2> QED BY <1>7, <2>1, RetriesFrom
  <1>9. ASSUME dlq' = dlq PROVE NeverGivesUpEarly'
    <2> SUFFICES ASSUME NEW j \in dlq
                 PROVE  failures'[j] >= 1 /\ failures'[j] >= Req[j].max
      BY <1>9 DEF NeverGivesUpEarly
    <2>1. j \in Jobs BY DEF TypeOK
    <2>2. failures[j] >= 1 /\ failures[j] >= Req[j].max BY DEF NeverGivesUpEarly
    <2>3. /\ failures[j] \in Int /\ failures'[j] \in Int /\ Req[j].max \in Int
          /\ failures'[j] >= failures[j]
      BY <1>5, <1>7, <2>1, ReqAssumption DEF TypeOK, Request
    <2> QED BY <2>2, <2>3
  <1>10. CASE SkipCompleted(w) \/ Begin(w) \/ NoHandler(w) \/ Unhash(w)
    BY <1>8, <1>9, <1>10 DEF SkipCompleted, Begin, NoHandler, Unhash
  <1>11. CASE Delete(w)
    <2>1. \A id \in Ids : store'[id] \in {store[id], NoTask}
      BY <1>11 DEF Delete, DeleteTask, TypeOK
    <2> QED BY <1>8, <1>9, <1>11, <2>1 DEF Delete
  <1>12. CASE Succeed(w)
    <2>1. \A id \in Ids : store'[id] \in {store[id], first}
      BY <1>12 DEF Succeed, SaveTask, TypeOK
    <2>2. first.retry <= failures'[first.job]
      BY <1>3, <1>4, <1>5, <1>7
    <2> QED BY <1>8, <1>9, <1>12, <2>1, <2>2 DEF Succeed
  <1>13. CASE Retry(w)
    <2>1. \A id \in Ids : store'[id] \in {store[id], again}
      BY <1>13 DEF Retry, SaveRetry, SaveTask, TypeOK
    <2>2. t.retry < FailureCap
      BY <1>3, <1>5, <1>13 DEF Retry, MayRetry
    <2>3. again.retry <= failures'[again.job]
      BY <1>3, <1>4, <1>13, <2>2, CountFacts DEF Retry
    <2> QED BY <1>8, <1>9, <1>13, <2>1, <2>3 DEF Retry
  <1>14. CASE GiveUp(w)
    <2>1. RetriesCounted' BY <1>8, <1>14 DEF GiveUp
    <2>2. failures'[t.job] \in 1..FailureCap
      BY <1>3, <1>14, CountFacts DEF GiveUp
    <2>3. failures'[t.job] >= Req[t.job].max
      <3>1. ~(t.retry < Req[t.job].max - 1) BY <1>14 DEF GiveUp, MayRetry
      <3>2. CASE t.retry < FailureCap
        <4>1. t.retry + 1 <= failures'[t.job]
          BY <1>3, <1>14, <3>2, CountFacts DEF GiveUp
        <4> QED BY <1>3, <2>2, <3>1, <4>1
      <3>3. CASE ~(t.retry < FailureCap)
        <4>1. failures'[t.job] >= failures[t.job] /\ failures[t.job] \in Int
          BY <1>3, <1>5, <1>7 DEF TypeOK
        <4> QED BY <1>3, <1>5, <2>2, <3>3, <4>1
      <3> QED BY <3>2, <3>3
    <2>4. \A j \in dlq : failures'[j] >= 1 /\ failures'[j] >= Req[j].max
      <3> SUFFICES ASSUME NEW j \in dlq
                   PROVE  failures'[j] >= 1 /\ failures'[j] >= Req[j].max
        OBVIOUS
      <3>1. j \in Jobs BY DEF TypeOK
      <3>2. failures[j] >= 1 /\ failures[j] >= Req[j].max BY DEF NeverGivesUpEarly
      <3>3. /\ failures[j] \in Int /\ failures'[j] \in Int /\ Req[j].max \in Int
            /\ failures'[j] >= failures[j]
        BY <1>5, <1>7, <3>1, ReqAssumption DEF TypeOK, Request
      <3> QED BY <3>2, <3>3
    <2>5. dlq' = dlq \cup {t.job} BY <1>14 DEF GiveUp
    <2>6. failures'[t.job] >= 1 BY <1>5, <2>2
    <2> QED BY <2>1, <2>3, <2>4, <2>5, <2>6 DEF NeverGivesUpEarly
  <1> QED BY <1>10, <1>11, <1>12, <1>13, <1>14 DEF WorkerStep

AttemptsInv == TypeOK /\ RetriesCounted /\ NeverGivesUpEarly

LEMMA AttemptsInvCorrect == Spec => []AttemptsInv
  <1> USE DEF AttemptsInv
  <1>1. Init => AttemptsInv
    <2> SUFFICES ASSUME Init PROVE AttemptsInv OBVIOUS
    <2>1. TypeOK /\ NeverGivesUpEarly BY TypeInit DEF Init, NeverGivesUpEarly
    <2>2. \A t : ~(t # NoTask /\ CopyIn(t))
      BY DEF Init, EngineInit, CopyIn, NoTasks, Off, Idle
    <2>3. RetriesCounted BY <2>2, CopyCases DEF RetriesCounted
    <2> QED BY <2>1, <2>3
  <1>2. AttemptsInv /\ [Next]_vars => AttemptsInv'
    <2> SUFFICES ASSUME AttemptsInv, [Next]_vars PROVE AttemptsInv' OBVIOUS
    <2>1. TypeOK' BY TypeStep
    <2>2. ASSUME failures' = failures, dlq' = dlq PROVE NeverGivesUpEarly'
      BY <2>2 DEF NeverGivesUpEarly
    <2>3. CASE UNCHANGED vars
      <3>1. \A t \in Copies' : t \in Copies
        BY <2>3, CopyCasesNext, CopyCases DEF CopyIn, vars, engine
      <3>2. RetriesCounted'
        BY <2>3, <3>1 DEF RetriesCounted, vars, history
      <3> QED BY <2>1, <2>2, <2>3, <3>2 DEF vars, history
    <2>4. ASSUME NEW d \in Dispatchers, DispatcherStep(d) PROVE AttemptsInv'
      BY <2>1, <2>2, <2>4, RetriesStepDispatcher
    <2>5. ASSUME NEW w \in Workers, WorkerStep(w) PROVE AttemptsInv'
      BY <2>1, <2>5, RetriesStepWorker
    <2>6. CASE \/ \E j \in Jobs : Enqueue(j)
               \/ \E type \in Types : RegisterHandler(type)
               \/ \E id \in Ids : BecomesDue(id) \/ EvictExpiredCompleted(id)
               \/ Pause \/ Restart \/ ReadTasks \/ PushDueTasks
               \/ \E p \in Pools : StartDispatcher(p)
      BY <2>1, <2>2, <2>6, RetriesStepQuiet
    <2> QED BY <2>3, <2>4, <2>5, <2>6 DEF Next
  <1> QED BY <1>1, <1>2, PTL DEF Spec

\* No job reaches its dead-letter handler before it failed max_retries times,
\* whatever stale copies of it were run or written back.
THEOREM NeverGivesUpEarlyCorrect == Spec => []NeverGivesUpEarly
  <1>1. AttemptsInv => NeverGivesUpEarly BY DEF AttemptsInv
  <1> QED BY <1>1, AttemptsInvCorrect, PTL

-----------------------------------------------------------------------------
(* Lockouts: StuckOnlyIfFinished, from what completed_tasks says.          *)

FinishedId(id) == \E j \in finished : Req[j].id = id

\* The completed ids are those of finished jobs.
CompletedOK == \A id \in completedTasks : FinishedId(id)

\* An executing id has an execution, or a job that got its verdict.
Served ==
    \A id \in executingTasks :
        FinishedId(id) \/ \E w \in Workers : Busy(w) /\ Work(w) = id

\* History grows.
LEMMA FinishedGrows ==
    ASSUME [Next]_vars
    PROVE  finished \subseteq finished' /\ \A id : FinishedId(id) => FinishedId(id)'
  <1>1. finished \subseteq finished'
    BY DEF Next, Enqueue, RegisterHandler, BecomesDue, EvictExpiredCompleted,
           Pause, Restart, ReadTasks, PushDueTasks, StartDispatcher, StartUpTo,
           DispatcherStep, Pop, PopNone, Exit, Deny, Admit, DispatcherFrame,
           WorkerStep, SkipCompleted, Begin, NoHandler, Succeed, Retry, GiveUp,
           Delete, Unhash, engine, history, vars
  <1> QED BY <1>1 DEF FinishedId

\* What a step of an execution does to its record, and to no other.
LEMMA WorkerMoves ==
    ASSUME TypeOK, NEW w \in Workers, WorkerStep(w)
    PROVE  /\ Busy(w) /\ worker[w].task \in Task
           /\ \A v \in Workers \ {w} : worker'[v] = worker[v]
           /\ \/ worker'[w] = Idle
              \/ /\ worker'[w].task = worker[w].task
                 /\ Busy(w)'
                 /\ executingTasks' = executingTasks
  <1>1. Busy(w)
    BY DEF Busy, WorkerStep, SkipCompleted, Begin, NoHandler, Succeed, Retry,
           GiveUp, Delete, Unhash
  <1>2. worker[w] \in [pc: {"spawned", "running"} \cup Finishing, task: Task]
    BY <1>1 DEF Busy, TypeOK, WorkerState
  <1>3. \/ worker' = [worker EXCEPT ![w] = Idle]
        \/ \E pc \in {"running"} \cup Finishing :
              worker' = [worker EXCEPT ![w].pc = pc] /\ executingTasks' = executingTasks
    BY DEF WorkerStep, SkipCompleted, Begin, NoHandler, Succeed, Retry, GiveUp,
           Delete, Unhash, Return, Move, Finishing
  <1>4. \A v \in Workers \ {w} : worker'[v] = worker[v] BY <1>3 DEF TypeOK
  <1>5. CASE worker' = [worker EXCEPT ![w] = Idle]
    BY <1>1, <1>2, <1>4, <1>5 DEF TypeOK
  <1>6. ASSUME NEW pc \in {"running"} \cup Finishing,
               worker' = [worker EXCEPT ![w].pc = pc]
        PROVE  worker'[w].task = worker[w].task /\ Busy(w)'
    <2>1. worker'[w] = [worker[w] EXCEPT !.pc = pc] BY <1>6 DEF TypeOK
    <2>2. worker'[w].pc = pc /\ worker'[w].task = worker[w].task BY <1>2, <2>1
    <2> QED BY <2>2 DEF Busy, Finishing
  <1> QED BY <1>1, <1>2, <1>3, <1>4, <1>5, <1>6

LEMMA ServedStep ==
    ASSUME TypeOK, VerdictFirst, CompletedOK, Served, Next
    PROVE  CompletedOK' /\ Served'
  <1>0. \A id : FinishedId(id) => FinishedId(id)' BY FinishedGrows
  <1>1. ASSUME UNCHANGED <<worker, executingTasks>>, completedTasks' \subseteq completedTasks
        PROVE  CompletedOK' /\ Served'
    BY <1>0, <1>1 DEF CompletedOK, Served, Busy, Work
  <1>2. CASE \/ \E j \in Jobs : Enqueue(j)
             \/ \E type \in Types : RegisterHandler(type)
             \/ \E id \in Ids : BecomesDue(id) \/ EvictExpiredCompleted(id)
             \/ Pause \/ ReadTasks \/ PushDueTasks
             \/ \E p \in Pools : StartDispatcher(p)
             \/ \E d \in Dispatchers : Pop(d) \/ PopNone(d) \/ Exit(d) \/ Deny(d)
    <2>1. UNCHANGED <<worker, executingTasks>> /\ completedTasks' \subseteq completedTasks
      BY <1>2
      DEF Enqueue, RegisterHandler, BecomesDue, EvictExpiredCompleted, Pause,
          ReadTasks, PushDueTasks, StartDispatcher, StartUpTo, Pop, PopNone, Exit, Deny,
          DispatcherFrame, engine, history
    <2> QED BY <1>1, <2>1
  <1>3. CASE Restart BY <1>3 DEF Restart, CompletedOK, Served
  <1>4. ASSUME NEW d \in Dispatchers, Admit(d) PROVE CompletedOK' /\ Served'
    <2> DEFINE t == dispatcher[d].task
    <2>1. completedTasks' = completedTasks BY <1>4 DEF Admit, DispatcherFrame
    <2>2. CASE IdOf(t) \in executingTasks
      BY <1>1, <1>4, <2>1, <2>2 DEF Admit
    <2>3. CASE IdOf(t) \notin executingTasks
      <3>1. executingTasks' = executingTasks \cup {IdOf(t)} BY <1>4, <2>3 DEF Admit
      <3>2. PICK w \in Workers :
              worker[w] = Idle /\ worker' = [worker EXCEPT ![w] = [pc |-> "spawned", task |-> t]]
        BY <1>4, <2>3 DEF Admit
      <3>3. Busy(w)' /\ Work(w)' = IdOf(t) BY <3>2 DEF Busy, Work, TypeOK
      <3>4. \A v \in Workers : Busy(v) => Busy(v)' /\ Work(v)' = Work(v)
        BY <3>2 DEF Busy, Work, TypeOK, Idle
      <3> QED BY <1>0, <2>1, <3>1, <3>3, <3>4 DEF CompletedOK, Served
    <2> QED BY <2>2, <2>3
  <1>5. ASSUME NEW w \in Workers, WorkerStep(w) PROVE CompletedOK' /\ Served'
    <2>1. /\ Busy(w)
          /\ \A v \in Workers \ {w} : worker'[v] = worker[v]
          /\ \/ worker'[w] = Idle
             \/ /\ worker'[w].task = worker[w].task
                /\ Busy(w)'
                /\ executingTasks' = executingTasks
      BY <1>5, WorkerMoves
    <2>2. completedTasks' = completedTasks \/ Delete(w)
      BY <1>5 DEF WorkerStep, SkipCompleted, Begin, NoHandler, Succeed, Retry,
                  GiveUp, Unhash
    <2>3. Delete(w) => FinishedId(Work(w)) /\ completedTasks' = completedTasks \cup {Work(w)}
      BY DEF Delete, VerdictFirst, Finishing, FinishedId, Work, IdOf
    <2>4. CompletedOK' BY <1>0, <2>2, <2>3 DEF CompletedOK
    <2>5. \A v \in Workers \ {w} : Busy(v) => Busy(v)' /\ Work(v)' = Work(v)
      BY <2>1 DEF Busy, Work
    <2>6. CASE worker'[w].task = worker[w].task /\ Busy(w)' /\ executingTasks' = executingTasks
      <3>1. Work(w)' = Work(w) BY <2>6 DEF Work
      <3> QED BY <1>0, <2>4, <2>5, <2>6, <3>1 DEF Served
    <2>7. CASE worker'[w] = Idle
      <3>1. \/ SkipCompleted(w) /\ executingTasks' = executingTasks
            \/ executingTasks' = executingTasks \ {Work(w)}
            \/ Begin(w) \/ GiveUp(w) \/ Delete(w) \/ (Succeed(w) /\ ~Req[worker[w].task.job].cron)
        BY <1>5 DEF WorkerStep, SkipCompleted, NoHandler, Succeed, Retry,
                    Unhash, Return, Work
      <3>2. CASE SkipCompleted(w) /\ executingTasks' = executingTasks
        <4>1. FinishedId(Work(w)) BY <3>2 DEF SkipCompleted, CompletedOK, Work
        <4> QED BY <1>0, <2>4, <2>5, <3>2, <4>1 DEF Served
      <3>3. CASE executingTasks' = executingTasks \ {Work(w)}
        BY <1>0, <2>4, <2>5, <3>3 DEF Served
      <3>4. CASE Begin(w) \/ GiveUp(w) \/ Delete(w) \/ (Succeed(w) /\ ~Req[worker[w].task.job].cron)
        <4>1. PICK pc \in {"running"} \cup Finishing : Move(w, pc)
          BY <3>4 DEF Begin, GiveUp, Delete, Succeed, Finishing
        <4>2. worker'[w] = [worker[w] EXCEPT !.pc = pc]
          BY <4>1 DEF Move, TypeOK
        <4>3. worker'[w].pc = pc
          <5>1. worker[w] \in [pc: {"spawned", "running"} \cup Finishing, task: Task]
            BY <2>1 DEF Busy, TypeOK, WorkerState
          <5> QED BY <4>2, <5>1
        <4> QED BY <2>7, <4>3 DEF Idle, Finishing
      <3> QED BY <3>1, <3>2, <3>3, <3>4
    <2> QED BY <2>1, <2>6, <2>7
  <1> QED BY <1>2, <1>3, <1>4, <1>5 DEF Next, DispatcherStep

\* Where ids are not reused, no unfinished job is locked out: its id is in
\* executing_tasks only as long as an execution of it lasts.
THEOREM StuckOnlyIfFinishedCorrect == Spec => []StuckOnlyIfFinished
  <1> DEFINE Inv == TypeOK /\ VerdictFirst /\ CompletedOK /\ Served
  <1>1. Init => Inv
    <2> SUFFICES ASSUME Init PROVE Inv OBVIOUS
    <2>1. \A w \in Workers : worker[w].pc \notin Finishing
      BY DEF Init, EngineInit, Idle, Finishing
    <2> QED BY <2>1, TypeInit DEF Init, EngineInit, VerdictFirst, CompletedOK, Served
  <1>2. Inv /\ [Next]_vars => Inv'
    <2> SUFFICES ASSUME Inv, [Next]_vars PROVE Inv' OBVIOUS
    <2>1. TypeOK' BY TypeStep
    <2>2. CASE Next BY <2>1, <2>2, VerdictStep, ServedStep
    <2>3. CASE UNCHANGED vars
      BY <2>1, <2>3
      DEF vars, engine, history, VerdictFirst, CompletedOK, Served, FinishedId, Busy, Work
    <2> QED BY <2>2, <2>3
  <1>3. Inv => StuckOnlyIfFinished
    <2> SUFFICES ASSUME TypeOK, Served, UniqueIds, NEW j \in Jobs \ finished,
                        Req[j].id \in executingTasks
                 PROVE  Executions(Req[j].id) # {}
      BY DEF StuckOnlyIfFinished
    <2>1. ~FinishedId(Req[j].id)
      BY DEF FinishedId, UniqueIds, TypeOK
    <2> QED BY <2>1 DEF Served, Executions, Busy, Work
  <1> QED BY <1>1, <1>2, <1>3, PTL DEF Spec

-----------------------------------------------------------------------------
(* Counters: dispatcher_counts and the permits.                            *)

\* Each pool's counter counts its dispatchers, two at most.
CountOK(p) ==
    /\ IsFiniteSet(Alive(p))
    /\ dispatcherCounts[p] = Cardinality(Alive(p))
    /\ dispatcherCounts[p] <= 2

LEMMA CountFrame ==
    ASSUME NEW p \in Pools, CountOK(p),
           dispatcherCounts'[p] = dispatcherCounts[p],
           \A d \in Dispatchers :
              d[1] = p => (dispatcher'[d].pc # "off" <=> dispatcher[d].pc # "off")
    PROVE  CountOK(p)'
  <1>1. Alive(p)' = Alive(p)
    <2>1. \A d : d \in Alive(p)' <=> d \in Alive(p) BY DEF Alive
    <2> QED BY <2>1, Zenon
  <1> QED BY <1>1 DEF CountOK

\* A dispatcher is counted in before it is spawned ...
LEMMA CountIn ==
    ASSUME TypeOK, NEW p \in Pools, CountOK(p), NEW d \in Dispatchers, d[1] = p,
           dispatcher[d] = Off, dispatcher' = [dispatcher EXCEPT ![d].pc = "loop"],
           dispatcherCounts' = [dispatcherCounts EXCEPT ![p] = @ + 1],
           dispatcherCounts[p] < 2
    PROVE  CountOK(p)'
  <1>1. dispatcher'[d].pc = "loop"
    <2>1. dispatcher'[d] = [dispatcher[d] EXCEPT !.pc = "loop"] BY DEF TypeOK
    <2> QED BY <2>1 DEF Off
  <1>2. \A e \in Dispatchers \ {d} : dispatcher'[e] = dispatcher[e] BY DEF TypeOK
  <1>3. Alive(p)' = Alive(p) \cup {d}
    <2>1. \A e : e \in Alive(p)' <=> e \in Alive(p) \/ e = d BY <1>1, <1>2 DEF Alive
    <2> QED BY <2>1, Zenon
  <1>4. d \notin Alive(p) BY DEF Alive, Off
  <1>5. IsFiniteSet(Alive(p)') /\ Cardinality(Alive(p)') = Cardinality(Alive(p)) + 1
    BY <1>3, <1>4, FS_AddElement DEF CountOK
  <1>6. dispatcherCounts[p] \in Int /\ dispatcherCounts'[p] = dispatcherCounts[p] + 1
    BY DEF TypeOK
  <1> QED BY <1>5, <1>6 DEF CountOK

\* ... and counted off as it ends.
LEMMA CountOff ==
    ASSUME TypeOK, NEW d \in Dispatchers, CountOK(d[1]), Exit(d)
    PROVE  CountOK(d[1])'
  <1> DEFINE p == d[1]
  <1>0. p \in Pools BY Hands
  <1>1. dispatcher'[d] = Off /\ \A e \in Dispatchers \ {d} : dispatcher'[e] = dispatcher[e]
    BY DEF Exit, TypeOK
  <1>2. Alive(p)' = Alive(p) \ {d}
    <2>1. \A e : e \in Alive(p)' <=> e \in Alive(p) /\ e # d BY <1>1 DEF Alive, Off
    <2> QED BY <2>1, Zenon
  <1>3. d \in Alive(p) BY DEF Alive, Exit
  <1>4. IsFiniteSet(Alive(p)') /\ Cardinality(Alive(p)') = Cardinality(Alive(p)) - 1
    BY <1>2, <1>3, FS_RemoveElement DEF CountOK
  <1>5. dispatcherCounts[p] \in Int /\ dispatcherCounts'[p] = dispatcherCounts[p] - 1
    BY <1>0 DEF Exit, TypeOK
  <1>6. Cardinality(Alive(p)) \in Nat BY FS_CardinalityType DEF CountOK
  <1>7. dispatcherCounts[p] = Cardinality(Alive(p)) /\ dispatcherCounts[p] <= 2
    BY DEF CountOK
  <1>8. dispatcherCounts'[p] = Cardinality(Alive(p)') /\ dispatcherCounts'[p] <= 2
    BY <1>4, <1>5, <1>6, <1>7
  <1> QED BY <1>4, <1>8 DEF CountOK

LEMMA CountStep ==
    ASSUME TypeOK, \A p \in Pools : CountOK(p), Next
    PROVE  \A p \in Pools : CountOK(p)'
  <1> SUFFICES ASSUME NEW p \in Pools PROVE CountOK(p)' OBVIOUS
  <1>0. CountOK(p) OBVIOUS
  <1>1. CASE \/ \E j \in Jobs : Enqueue(j)
             \/ \E type \in Types : RegisterHandler(type)
             \/ \E id \in Ids : BecomesDue(id) \/ EvictExpiredCompleted(id)
             \/ Pause \/ ReadTasks \/ PushDueTasks
             \/ \E w \in Workers : WorkerStep(w)
    <2>1. UNCHANGED <<dispatcher, dispatcherCounts>>
      BY <1>1
      DEF Enqueue, RegisterHandler, BecomesDue, EvictExpiredCompleted, Pause,
          ReadTasks, PushDueTasks, engine, history, ExecutionFrame,
          WorkerStep, SkipCompleted, Begin, NoHandler, Succeed, Retry, GiveUp,
          Delete, Unhash
    <2> QED BY <1>0, <2>1, CountFrame
  <1>2. CASE Restart
    <2>1. \A d : d \notin Alive(p)' BY <1>2 DEF Restart, Alive, Off
    <2>2. Alive(p)' = {} BY <2>1
    <2>3. dispatcherCounts'[p] = 0 BY <1>2 DEF Restart
    <2> QED BY <2>2, <2>3, FS_EmptySet DEF CountOK
  <1>3. ASSUME NEW q \in Pools, StartDispatcher(q) PROVE CountOK(p)'
    <2>1. CASE UNCHANGED <<dispatcher, dispatcherCounts>>
      BY <1>0, <2>1, CountFrame
    <2>2. CASE ~UNCHANGED <<dispatcher, dispatcherCounts>>
      <3>1. /\ dispatcherCounts[q] < 2
            /\ dispatcherCounts' = [dispatcherCounts EXCEPT ![q] = @ + 1]
        BY <1>3, <2>2 DEF StartDispatcher, StartUpTo
      <3>2. PICK d \in Dispatchers :
              /\ d[1] = q
              /\ dispatcher[d] = Off
              /\ dispatcher' = [dispatcher EXCEPT ![d].pc = "loop"]
        BY <1>3, <2>2 DEF StartDispatcher, StartUpTo
      <3>3. CASE p = q BY <1>0, <3>1, <3>2, <3>3, CountIn
      <3>4. CASE p # q
        <4>1. dispatcherCounts'[p] = dispatcherCounts[p] BY <3>1, <3>4 DEF TypeOK
        <4>2. \A e \in Dispatchers : e[1] = p => dispatcher'[e] = dispatcher[e]
          BY <3>2, <3>4 DEF TypeOK
        <4> QED BY <1>0, <4>1, <4>2, CountFrame
      <3> QED BY <3>3, <3>4
    <2> QED BY <2>1, <2>2
  <1>4. ASSUME NEW d \in Dispatchers, Pop(d) \/ PopNone(d) \/ Deny(d) \/ Admit(d)
        PROVE  CountOK(p)'
    <2>1. dispatcherCounts' = dispatcherCounts
      BY <1>4 DEF Pop, PopNone, Deny, Admit, DispatcherFrame
    <2>2. dispatcher[d].pc # "off" /\ dispatcher'[d].pc # "off"
      BY <1>4 DEF Pop, PopNone, Deny, Admit, TypeOK
    <2>3. \A e \in Dispatchers \ {d} : dispatcher'[e] = dispatcher[e]
      BY <1>4 DEF Pop, PopNone, Deny, Admit, TypeOK
    <2> QED BY <1>0, <2>1, <2>2, <2>3, CountFrame
  <1>5. ASSUME NEW d \in Dispatchers, Exit(d) PROVE CountOK(p)'
    <2>1. CASE p = d[1] BY <1>0, <1>5, <2>1, CountOff
    <2>2. CASE p # d[1]
      <3>1. dispatcherCounts'[p] = dispatcherCounts[p] BY <1>5, <2>2 DEF Exit, TypeOK
      <3>2. \A e \in Dispatchers : e[1] = p => dispatcher'[e] = dispatcher[e]
        BY <1>5, <2>2 DEF Exit, TypeOK
      <3> QED BY <1>0, <3>1, <3>2, CountFrame
    <2> QED BY <2>1, <2>2
  <1> QED BY <1>1, <1>2, <1>3, <1>4, <1>5 DEF Next, DispatcherStep

LEMMA CountInit == Init => \A p \in Pools : CountOK(p)
  <1> SUFFICES ASSUME Init, NEW p \in Pools PROVE CountOK(p) OBVIOUS
  <1>1. \A d : d \notin Alive(p) BY DEF Init, EngineInit, Alive, Off
  <1>2. Alive(p) = {} BY <1>1
  <1>3. dispatcherCounts[p] = 0 BY DEF Init, EngineInit
  <1> QED BY <1>2, <1>3, FS_EmptySet DEF CountOK

LEMMA CountNext ==
    ASSUME TypeOK, \A p \in Pools : CountOK(p), [Next]_vars
    PROVE  \A p \in Pools : CountOK(p)'
  <1>1. CASE Next BY <1>1, CountStep
  <1>2. CASE UNCHANGED vars BY <1>2, CountFrame DEF vars, engine
  <1> QED BY <1>1, <1>2

\* Every pool's counter is the number of its dispatchers that are alive, never
\* more than two, however spawns, empty pops, exits and restarts interleave.
THEOREM DispatcherCountsExactCorrect == Spec => []DispatcherCountsExact
  <1> DEFINE Inv == TypeOK /\ \A p \in Pools : CountOK(p)
  <1>1. Init => Inv BY TypeInit, CountInit
  <1>2. Inv /\ [Next]_vars => Inv' BY TypeStep, CountNext
  <1>3. Inv => DispatcherCountsExact BY DEF CountOK, DispatcherCountsExact
  <1> QED BY <1>1, <1>2, <1>3, PTL DEF Spec

\* Pools wait for a dispatcher only while the processor goes through them.
PoolsInHand == processor # "spawn" => newPools = {}

LEMMA PoolsStep == ASSUME PoolsInHand, [Next]_vars PROVE PoolsInHand'
  <1>1. CASE \/ \E j \in Jobs : Enqueue(j)
             \/ \E type \in Types : RegisterHandler(type)
             \/ \E id \in Ids : BecomesDue(id) \/ EvictExpiredCompleted(id)
             \/ Pause
             \/ \E d \in Dispatchers : DispatcherStep(d)
             \/ \E w \in Workers : WorkerStep(w)
             \/ UNCHANGED vars
    <2>1. UNCHANGED <<processor, newPools>>
      BY <1>1
      DEF Enqueue, RegisterHandler, BecomesDue, EvictExpiredCompleted, Pause,
          DispatcherStep, Pop, PopNone, Exit, Deny, Admit, DispatcherFrame,
          engine, history, vars, ExecutionFrame, WorkerStep, SkipCompleted,
          Begin, NoHandler, Succeed, Retry, GiveUp, Delete, Unhash
    <2> QED BY <2>1 DEF PoolsInHand
  <1>2. CASE Restart \/ ReadTasks
    BY <1>2 DEF Restart, ReadTasks, PoolsInHand
  <1>3. CASE PushDueTasks
    <2>1. processor' = "idle" => newPools' = {}
      BY <1>3 DEF PushDueTasks
    <2>2. processor' \in {"idle", "spawn"}
      BY <1>3 DEF PushDueTasks
    <2> QED BY <2>1, <2>2 DEF PoolsInHand
  <1>4. ASSUME NEW p \in Pools, StartDispatcher(p) PROVE PoolsInHand'
    <2>1. processor' = "idle" => newPools' = {}
      BY <1>4 DEF StartDispatcher, StartUpTo
    <2>2. processor' \in {"idle", "spawn"}
      BY <1>4 DEF StartDispatcher, StartUpTo
    <2> QED BY <2>1, <2>2 DEF PoolsInHand
  <1> QED BY <1>1, <1>2, <1>3, <1>4 DEF Next

\* A step that leaves a pool's queue and dispatchers alone strands nothing.
LEMMA StrandedFrame ==
    ASSUME NEW p \in Pools, Stranded(p)',
           sharedPqs'[p] = sharedPqs[p], p \in newPools => p \in newPools',
           \A d \in Dispatchers : d[1] = p =>
               (dispatcher'[d].pc \in {"off", "exit"} => dispatcher[d].pc \in {"off", "exit"})
    PROVE  Stranded(p)
  <1> QED BY DEF Stranded

LEMMA StrandedStep ==
    ASSUME TypeOK, PoolsInHand, NEW p \in Pools, CountOK(p), Next,
           ~Stranded(p), Stranded(p)'
    PROVE  Cardinality({d \in Alive(p) : dispatcher[d].pc = "exit"}) = 2
  <1>1. CASE \/ \E j \in Jobs : Enqueue(j)
             \/ \E type \in Types : RegisterHandler(type)
             \/ \E id \in Ids : BecomesDue(id) \/ EvictExpiredCompleted(id)
             \/ Pause \/ ReadTasks
             \/ \E w \in Workers : WorkerStep(w)
    <2>1. UNCHANGED <<dispatcher, sharedPqs, newPools>>
      BY <1>1
      DEF Enqueue, RegisterHandler, BecomesDue, EvictExpiredCompleted, Pause,
          ReadTasks, engine, history, ExecutionFrame,
          WorkerStep, SkipCompleted, Begin, NoHandler, Succeed, Retry, GiveUp,
          Delete, Unhash
    <2> QED BY <2>1, StrandedFrame
  <1>2. CASE Restart
    BY <1>2 DEF Restart, Stranded
  <1>3. CASE PushDueTasks
    <2>1. newPools = {} /\ UNCHANGED dispatcher /\ p \notin newPools'
      BY <1>3 DEF PushDueTasks, PoolsInHand, Stranded
    <2>2. sharedPqs'[p] = sharedPqs[p]
      <3> DEFINE due == {id \in Ids : Eligible(id)}
      <3>1. /\ newPools' = {PoolOf(snapshot[id]) : id \in due}
            /\ sharedPqs'[p] =
                  sharedPqs[p] \cup {snapshot[id] : id \in {i \in due : PoolOf(snapshot[i]) = p}}
        BY <1>3 DEF PushDueTasks
      <3>2. {i \in due : PoolOf(snapshot[i]) = p} = {}
        BY <2>1, <3>1
      <3> QED BY <3>1, <3>2
    <2> QED BY <2>1, <2>2, StrandedFrame
  <1>4. ASSUME NEW q \in Pools, StartDispatcher(q)
        PROVE  Cardinality({d \in Alive(p) : dispatcher[d].pc = "exit"}) = 2
    <2>1. UNCHANGED sharedPqs /\ newPools' = newPools \ {q}
      BY <1>4 DEF StartDispatcher, StartUpTo
    <2>2. CASE p # q
      <3>1. \A d \in Dispatchers : d[1] = p => dispatcher'[d] = dispatcher[d]
        BY <1>4, <2>2 DEF StartDispatcher, StartUpTo, TypeOK
      <3> QED BY <2>1, <2>2, <3>1, StrandedFrame
    <2>3. CASE p = q
      <3>1. ~\E d \in Dispatchers :
                d[1] = p /\ dispatcher' = [dispatcher EXCEPT ![d].pc = "loop"]
        <4> SUFFICES ASSUME NEW d \in Dispatchers, d[1] = p,
                            dispatcher' = [dispatcher EXCEPT ![d].pc = "loop"]
                     PROVE  FALSE
          OBVIOUS
        <4>1. dispatcher'[d] = [dispatcher[d] EXCEPT !.pc = "loop"]
              /\ dispatcher[d] \in DispatcherState
          BY DEF TypeOK
        <4>2. dispatcher'[d].pc = "loop"
          BY <4>1 DEF DispatcherState
        <4> QED BY <4>2 DEF Stranded
      <3>2. UNCHANGED dispatcher /\ (dispatcherCounts[p] >= 2 \/ sharedPqs[p] = {})
        BY <1>4, <2>3, <3>1 DEF StartDispatcher, StartUpTo
      <3>3. sharedPqs[p] # {} /\ \A d \in Dispatchers : d[1] = p => dispatcher[d].pc \in {"off", "exit"}
        BY <2>1, <3>2 DEF Stranded
      <3>4. Cardinality(Alive(p)) = 2
        BY <3>2, <3>3 DEF CountOK, TypeOK
      <3>5. {d \in Alive(p) : dispatcher[d].pc = "exit"} = Alive(p)
        BY <3>3 DEF Alive
      <3> QED BY <3>4, <3>5
    <2> QED BY <2>2, <2>3
  <1>5. ASSUME NEW d \in Dispatchers, DispatcherStep(d) PROVE FALSE
    <2>1. newPools' = newPools /\ \A e \in Dispatchers \ {d} : dispatcher'[e] = dispatcher[e]
      BY <1>5 DEF DispatcherStep, Pop, PopNone, Exit, Deny, Admit, DispatcherFrame, TypeOK
    <2>2. CASE d[1] # p
      <3>1. sharedPqs'[p] = sharedPqs[p]
        BY <1>5, <2>2 DEF DispatcherStep, Pop, PopNone, Exit, Deny, Admit, TypeOK
      <3> QED BY <2>1, <2>2, <3>1, StrandedFrame
    <2>3. CASE d[1] = p
      <3>1. CASE Pop(d) \/ Deny(d) \/ Admit(d)
        <4>1. dispatcher'[d].pc \in {"have", "loop"}
          BY <3>1 DEF Pop, Deny, Admit, TypeOK
        <4> QED BY <4>1, <2>3 DEF Stranded
      <3>2. CASE PopNone(d)
        BY <2>3, <3>2 DEF PopNone, Stranded
      <3>3. CASE Exit(d)
        <4>1. UNCHANGED sharedPqs /\ dispatcher[d].pc = "exit"
          BY <3>3 DEF Exit
        <4> QED BY <2>1, <4>1, StrandedFrame
      <3> QED BY <1>5, <3>1, <3>2, <3>3 DEF DispatcherStep
    <2> QED BY <2>2, <2>3
  <1> QED BY <1>1, <1>2, <1>3, <1>4, <1>5 DEF Next

\* A queue with tasks in it loses its last dispatcher only while both that it may
\* have are on their way out and still counted.
THEOREM StrandedOnlyByTwoCorrect == Spec => StrandedOnlyByTwo
  <1> DEFINE Inv == TypeOK /\ PoolsInHand /\ \A p \in Pools : CountOK(p)
             Step == \A p \in Pools :
                        ~Stranded(p) /\ Stranded(p)' =>
                            Cardinality({d \in Alive(p) : dispatcher[d].pc = "exit"}) = 2
  <1>1. Init => Inv
    BY TypeInit, CountInit DEF Init, EngineInit, PoolsInHand
  <1>2. Inv /\ [Next]_vars => Inv'
    <2> SUFFICES ASSUME Inv, [Next]_vars PROVE Inv' OBVIOUS
    <2> QED BY TypeStep, PoolsStep, CountNext
  <1>3. Inv /\ [Next]_vars => [Step]_vars
    BY StrandedStep
  <1> QED BY <1>1, <1>2, <1>3, PTL DEF Spec, StrandedOnlyByTwo

\* The permits of a semaphore: free, in a dispatcher's hand, or with an
\* execution.
PermitsOK(s) ==
    /\ IsFiniteSet(PoppedFor(s)) /\ IsFiniteSet(ExecutedOn(s))
    /\ permits[s] + Cardinality(PoppedFor(s)) + Cardinality(ExecutedOn(s)) = Permits[s]

Holds(d, s) == HasTask(d) /\ SemOf(d[1]) = s
Uses(w, s) == Busy(w) /\ SemOf(PoolOf(worker[w].task)) = s

LEMMA HoldersOf ==
    ASSUME NEW s
    PROVE  /\ \A d : d \in PoppedFor(s) <=> d \in Dispatchers /\ Holds(d, s)
           /\ \A w : w \in ExecutedOn(s) <=> w \in Workers /\ Uses(w, s)
    BY DEF PoppedFor, ExecutedOn, Holds, Uses, HasTask, Busy

LEMMA HoldersNext ==
    ASSUME NEW s
    PROVE  /\ \A d : d \in PoppedFor(s)' <=> d \in Dispatchers /\ Holds(d, s)'
           /\ \A w : w \in ExecutedOn(s)' <=> w \in Workers /\ Uses(w, s)'
    BY DEF PoppedFor, ExecutedOn, Holds, Uses, HasTask, Busy

\* No hand and no execution comes or goes.
LEMMA HoldersFrame ==
    ASSUME NEW s,
           \A d \in Dispatchers : Holds(d, s)' <=> Holds(d, s),
           \A w \in Workers : Uses(w, s)' <=> Uses(w, s)
    PROVE  PoppedFor(s)' = PoppedFor(s) /\ ExecutedOn(s)' = ExecutedOn(s)
  <1>1. \A d : d \in PoppedFor(s)' <=> d \in PoppedFor(s) BY HoldersOf, HoldersNext
  <1>2. \A w : w \in ExecutedOn(s)' <=> w \in ExecutedOn(s) BY HoldersOf, HoldersNext
  <1> QED BY <1>1, <1>2, Zenon

\* One hand more, one hand less.
LEMMA HandTakes ==
    ASSUME NEW s, IsFiniteSet(PoppedFor(s)), NEW d \in Dispatchers,
           ~Holds(d, s), Holds(d, s)',
           \A e \in Dispatchers \ {d} : Holds(e, s)' <=> Holds(e, s)
    PROVE  /\ IsFiniteSet(PoppedFor(s)')
           /\ Cardinality(PoppedFor(s)') = Cardinality(PoppedFor(s)) + 1
  <1>1. \A e : e \in PoppedFor(s)' <=> e \in PoppedFor(s) \/ e = d
    BY HoldersOf, HoldersNext
  <1>2. PoppedFor(s)' = PoppedFor(s) \cup {d} BY <1>1, Zenon
  <1>3. d \notin PoppedFor(s) BY HoldersOf
  <1> QED BY <1>2, <1>3, FS_AddElement

LEMMA HandGives ==
    ASSUME NEW s, IsFiniteSet(PoppedFor(s)), NEW d \in Dispatchers,
           Holds(d, s), ~Holds(d, s)',
           \A e \in Dispatchers \ {d} : Holds(e, s)' <=> Holds(e, s)
    PROVE  /\ IsFiniteSet(PoppedFor(s)')
           /\ Cardinality(PoppedFor(s)') = Cardinality(PoppedFor(s)) - 1
  <1>1. \A e : e \in PoppedFor(s)' <=> e \in PoppedFor(s) /\ e # d
    BY HoldersOf, HoldersNext
  <1>2. PoppedFor(s)' = PoppedFor(s) \ {d} BY <1>1, Zenon
  <1>3. d \in PoppedFor(s) BY HoldersOf
  <1> QED BY <1>2, <1>3, FS_RemoveElement

\* One execution more, one execution less.
LEMMA ExecutionTakes ==
    ASSUME NEW s, IsFiniteSet(ExecutedOn(s)), NEW w \in Workers,
           ~Uses(w, s), Uses(w, s)',
           \A v \in Workers \ {w} : Uses(v, s)' <=> Uses(v, s)
    PROVE  /\ IsFiniteSet(ExecutedOn(s)')
           /\ Cardinality(ExecutedOn(s)') = Cardinality(ExecutedOn(s)) + 1
  <1>1. \A v : v \in ExecutedOn(s)' <=> v \in ExecutedOn(s) \/ v = w
    BY HoldersOf, HoldersNext
  <1>2. ExecutedOn(s)' = ExecutedOn(s) \cup {w} BY <1>1, Zenon
  <1>3. w \notin ExecutedOn(s) BY HoldersOf
  <1> QED BY <1>2, <1>3, FS_AddElement

LEMMA ExecutionGives ==
    ASSUME NEW s, IsFiniteSet(ExecutedOn(s)), NEW w \in Workers,
           Uses(w, s), ~Uses(w, s)',
           \A v \in Workers \ {w} : Uses(v, s)' <=> Uses(v, s)
    PROVE  /\ IsFiniteSet(ExecutedOn(s)')
           /\ Cardinality(ExecutedOn(s)') = Cardinality(ExecutedOn(s)) - 1
  <1>1. \A v : v \in ExecutedOn(s)' <=> v \in ExecutedOn(s) /\ v # w
    BY HoldersOf, HoldersNext
  <1>2. ExecutedOn(s)' = ExecutedOn(s) \ {w} BY <1>1, Zenon
  <1>3. w \in ExecutedOn(s) BY HoldersOf
  <1> QED BY <1>2, <1>3, FS_RemoveElement

\* The sizes a semaphore's equation adds up.
LEMMA PermitNumbers ==
    ASSUME TypeOK, NEW s \in Configured, PermitsOK(s)
    PROVE  /\ permits[s] \in Int /\ Permits[s] \in Int
           /\ Cardinality(PoppedFor(s)) \in Int /\ Cardinality(ExecutedOn(s)) \in Int
           /\ permits[s] + Cardinality(PoppedFor(s)) + Cardinality(ExecutedOn(s)) = Permits[s]
    BY PoolAssumption, FS_CardinalityType DEF TypeOK, PermitsOK

LEMMA PermitsFrame ==
    ASSUME NEW s \in Configured, PermitsOK(s), permits'[s] = permits[s],
           \A d \in Dispatchers : Holds(d, s)' <=> Holds(d, s),
           \A w \in Workers : Uses(w, s)' <=> Uses(w, s)
    PROVE  PermitsOK(s)'
  <1>1. PoppedFor(s)' = PoppedFor(s) /\ ExecutedOn(s)' = ExecutedOn(s)
    BY HoldersFrame
  <1> QED BY <1>1 DEF PermitsOK

\* What a dispatcher's step does to its own hand, and to no other.
LEMMA DispatcherMoves ==
    ASSUME TypeOK, NEW d \in Dispatchers, DispatcherStep(d)
    PROVE  \A e \in Dispatchers \ {d} : dispatcher'[e] = dispatcher[e]
    BY DEF DispatcherStep, Pop, PopNone, Exit, Deny, Admit, TypeOK

LEMMA PermitsDispatcher ==
    ASSUME TypeOK, HandsOK, NEW s \in Configured, PermitsOK(s),
           NEW d \in Dispatchers, DispatcherStep(d)
    PROVE  PermitsOK(s)'
  <1> DEFINE r == SemOf(d[1])
             t == dispatcher[d].task
             popped == Cardinality(PoppedFor(s))
             executed == Cardinality(ExecutedOn(s))
  <1>0. /\ permits[s] \in Int /\ Permits[s] \in Int /\ popped \in Int /\ executed \in Int
        /\ permits[s] + popped + executed = Permits[s]
    BY PermitNumbers
  <1>1. r \in Configured BY SemConfigured
  <1>2. \A e \in Dispatchers \ {d} : Holds(e, s)' <=> Holds(e, s)
    BY DispatcherMoves DEF Holds, HasTask
  <1>3. ASSUME UNCHANGED worker PROVE \A w \in Workers : Uses(w, s)' <=> Uses(w, s)
    BY <1>3 DEF Uses, Busy
  <1>4. ASSUME UNCHANGED worker, \A e \in Dispatchers : Holds(e, s)' <=> Holds(e, s)
        PROVE  PoppedFor(s)' = PoppedFor(s) /\ ExecutedOn(s)' = ExecutedOn(s)
    BY <1>3, <1>4, HoldersFrame
  <1>5. \A w \in Workers : UNCHANGED worker => (Uses(w, s)' <=> Uses(w, s))
    BY <1>3
  <1>6. ASSUME UNCHANGED worker PROVE ExecutedOn(s)' = ExecutedOn(s)
    <2>1. \A w : w \in ExecutedOn(s)' <=> w \in ExecutedOn(s)
      BY <1>5, <1>6, HoldersOf, HoldersNext
    <2> QED BY <2>1, Zenon
  <1>7. CASE Pop(d)
    <2>1. /\ UNCHANGED worker /\ ~HasTask(d) /\ HasTask(d)'
          /\ permits' = [permits EXCEPT ![r] = @ - 1]
      BY <1>7 DEF Pop, TakePermit, HasTask, TypeOK
    <2>2. ExecutedOn(s)' = ExecutedOn(s) BY <1>6, <2>1
    <2>3. CASE s = r
      <3>1. ~Holds(d, s) /\ Holds(d, s)' BY <2>1, <2>3 DEF Holds
      <3>2. IsFiniteSet(PoppedFor(s)') /\ Cardinality(PoppedFor(s)') = popped + 1
        BY <1>2, <3>1, HandTakes DEF PermitsOK
      <3>3. permits'[s] = permits[s] - 1 BY <1>1, <2>1, <2>3 DEF TypeOK
      <3>4. permits'[s] + Cardinality(PoppedFor(s)') + executed = Permits[s]
        BY <1>0, <3>2, <3>3
      <3> QED BY <2>2, <3>2, <3>4 DEF PermitsOK
    <2>4. CASE s # r
      <3>1. permits'[s] = permits[s] BY <2>1, <2>4 DEF TypeOK
      <3>2. ~Holds(d, s) /\ ~Holds(d, s)' BY <2>4 DEF Holds
      <3> QED BY <1>2, <1>3, <2>1, <3>1, <3>2, PermitsFrame
    <2> QED BY <2>3, <2>4
  <1>8. CASE PopNone(d) \/ Exit(d)
    <2>1. /\ UNCHANGED <<worker, permits>> /\ ~HasTask(d) /\ ~HasTask(d)'
      BY <1>8 DEF PopNone, Exit, HasTask, TypeOK, Off
    <2>2. ~Holds(d, s) /\ ~Holds(d, s)' BY <2>1 DEF Holds
    <2> QED BY <1>2, <1>3, <2>1, <2>2, PermitsFrame
  <1>9. ASSUME Deny(d) \/ Admit(d) PROVE HasTask(d) /\ ~HasTask(d)'
    BY <1>9 DEF Deny, Admit, HasTask, TypeOK
  <1>10. CASE Deny(d) \/ (Admit(d) /\ IdOf(t) \in executingTasks)
    <2>1. /\ UNCHANGED worker /\ HasTask(d) /\ ~HasTask(d)'
          /\ permits' = [permits EXCEPT ![r] = @ + 1]
      BY <1>9, <1>10 DEF Deny, Admit, ReleasePermit
    <2>2. ExecutedOn(s)' = ExecutedOn(s) BY <1>6, <2>1
    <2>3. CASE s = r
      <3>1. Holds(d, s) /\ ~Holds(d, s)' BY <2>1, <2>3 DEF Holds
      <3>2. IsFiniteSet(PoppedFor(s)') /\ Cardinality(PoppedFor(s)') = popped - 1
        BY <1>2, <3>1, HandGives DEF PermitsOK
      <3>3. permits'[s] = permits[s] + 1 BY <1>1, <2>1, <2>3 DEF TypeOK
      <3>4. permits'[s] + Cardinality(PoppedFor(s)') + executed = Permits[s]
        BY <1>0, <3>2, <3>3
      <3> QED BY <2>2, <3>2, <3>4 DEF PermitsOK
    <2>4. CASE s # r
      <3>1. permits'[s] = permits[s] BY <2>1, <2>4 DEF TypeOK
      <3>2. ~Holds(d, s) /\ ~Holds(d, s)' BY <2>4 DEF Holds
      <3> QED BY <1>2, <1>3, <2>1, <3>1, <3>2, PermitsFrame
    <2> QED BY <2>3, <2>4
  <1>11. CASE Admit(d) /\ IdOf(t) \notin executingTasks
    <2>1. permits' = permits /\ HasTask(d) /\ ~HasTask(d)'
      BY <1>9, <1>11 DEF Admit
    <2>2. PICK w \in Workers :
            worker[w] = Idle /\ worker' = [worker EXCEPT ![w] = [pc |-> "spawned", task |-> t]]
      BY <1>11 DEF Admit
    <2>3. worker'[w].task = t /\ Busy(w)' /\ ~Busy(w)
      BY <2>2 DEF Busy, Idle, TypeOK
    <2>4. \A v \in Workers \ {w} : worker'[v] = worker[v] BY <2>2 DEF TypeOK
    <2>5. \A v \in Workers \ {w} : Uses(v, s)' <=> Uses(v, s) BY <2>4 DEF Uses, Busy
    <2>6. PoolOf(t) = d[1] BY <2>1 DEF HandsOK
    <2>7. CASE s = r
      <3>1. Holds(d, s) /\ ~Holds(d, s)' BY <2>1, <2>7 DEF Holds
      <3>2. IsFiniteSet(PoppedFor(s)') /\ Cardinality(PoppedFor(s)') = popped - 1
        BY <1>2, <3>1, HandGives DEF PermitsOK
      <3>3. ~Uses(w, s) /\ Uses(w, s)' BY <2>3, <2>6, <2>7 DEF Uses
      <3>4. IsFiniteSet(ExecutedOn(s)') /\ Cardinality(ExecutedOn(s)') = executed + 1
        BY <2>5, <3>3, ExecutionTakes DEF PermitsOK
      <3>5. permits[s] + Cardinality(PoppedFor(s)') + Cardinality(ExecutedOn(s)') = Permits[s]
        BY <1>0, <3>2, <3>4
      <3> QED BY <2>1, <3>2, <3>4, <3>5 DEF PermitsOK
    <2>8. CASE s # r
      <3>1. ~Holds(d, s) /\ ~Holds(d, s)' BY <2>8 DEF Holds
      <3>2. ~Uses(w, s) /\ ~Uses(w, s)' BY <2>3, <2>6, <2>8 DEF Uses
      <3> QED BY <1>2, <2>1, <2>5, <3>1, <3>2, PermitsFrame
    <2> QED BY <2>7, <2>8
  <1> QED BY <1>7, <1>8, <1>10, <1>11 DEF DispatcherStep

LEMMA PermitsWorker ==
    ASSUME TypeOK, NEW s \in Configured, PermitsOK(s),
           NEW w \in Workers, WorkerStep(w)
    PROVE  PermitsOK(s)'
  <1> DEFINE t == worker[w].task
             r == SemOf(PoolOf(t))
             popped == Cardinality(PoppedFor(s))
             executed == Cardinality(ExecutedOn(s))
  <1>0. /\ permits[s] \in Int /\ Permits[s] \in Int /\ popped \in Int /\ executed \in Int
        /\ permits[s] + popped + executed = Permits[s]
    BY PermitNumbers
  <1>1. r \in Configured BY SemConfigured
  <1>2. /\ Busy(w)
        /\ \A v \in Workers \ {w} : worker'[v] = worker[v]
    BY WorkerMoves
  <1>3. \A v \in Workers \ {w} : Uses(v, s)' <=> Uses(v, s) BY <1>2 DEF Uses, Busy
  <1>4. dispatcher' = dispatcher
    BY DEF WorkerStep, SkipCompleted, Begin, NoHandler, Succeed, Retry, GiveUp,
           Delete, Unhash, ExecutionFrame
  <1>5. \A d \in Dispatchers : Holds(d, s)' <=> Holds(d, s)
    BY <1>4 DEF Holds, HasTask
  <1>6. PoppedFor(s)' = PoppedFor(s)
    <2>1. \A d : d \in PoppedFor(s)' <=> d \in PoppedFor(s)
      BY <1>5, HoldersOf, HoldersNext
    <2> QED BY <2>1, Zenon
  <1>7. CASE Begin(w) \/ GiveUp(w) \/ Delete(w) \/ (Succeed(w) /\ ~Req[t.job].cron)
    <2>1. permits' = permits
      BY <1>7 DEF Begin, GiveUp, Delete, Succeed
    <2>2. PICK pc \in {"running"} \cup Finishing : Move(w, pc)
      BY <1>7 DEF Begin, GiveUp, Delete, Succeed, Finishing
    <2>3. worker[w] \in [pc: {"spawned", "running"} \cup Finishing, task: Task]
      BY <1>2 DEF Busy, TypeOK, WorkerState
    <2>4. worker'[w] = [worker[w] EXCEPT !.pc = pc] BY <2>2 DEF Move, TypeOK
    <2>5. worker'[w].pc = pc /\ worker'[w].task = t BY <2>3, <2>4
    <2>6. Busy(w)' BY <2>5 DEF Busy, Finishing
    <2>7. Uses(w, s)' <=> Uses(w, s) BY <1>2, <2>5, <2>6 DEF Uses
    <2> QED BY <1>3, <1>5, <2>1, <2>7, PermitsFrame
  <1>8. CASE \/ SkipCompleted(w) \/ NoHandler(w) \/ Retry(w) \/ Unhash(w)
             \/ Succeed(w) /\ Req[t.job].cron
    <2>1. /\ worker' = [worker EXCEPT ![w] = Idle]
          /\ permits' = [permits EXCEPT ![r] = @ + 1]
      BY <1>8 DEF SkipCompleted, NoHandler, Retry, Unhash, Succeed, Return, ReleasePermit
    <2>2. ~Busy(w)' BY <2>1 DEF Busy, Idle, TypeOK
    <2>3. CASE s = r
      <3>1. Uses(w, s) /\ ~Uses(w, s)' BY <1>2, <2>2, <2>3 DEF Uses
      <3>2. IsFiniteSet(ExecutedOn(s)') /\ Cardinality(ExecutedOn(s)') = executed - 1
        BY <1>3, <3>1, ExecutionGives DEF PermitsOK
      <3>3. permits'[s] = permits[s] + 1 BY <1>1, <2>1, <2>3 DEF TypeOK
      <3>4. permits'[s] + popped + Cardinality(ExecutedOn(s)') = Permits[s]
        BY <1>0, <3>2, <3>3
      <3> QED BY <1>6, <3>2, <3>4 DEF PermitsOK
    <2>4. CASE s # r
      <3>1. permits'[s] = permits[s] BY <2>1, <2>4 DEF TypeOK
      <3>2. ~Uses(w, s) /\ ~Uses(w, s)' BY <2>2, <2>4 DEF Uses
      <3> QED BY <1>3, <1>5, <3>1, <3>2, PermitsFrame
    <2> QED BY <2>3, <2>4
  <1> QED BY <1>7, <1>8 DEF WorkerStep

LEMMA PermitsStep ==
    ASSUME TypeOK, HandsOK, NEW s \in Configured, PermitsOK(s), Next
    PROVE  PermitsOK(s)'
  <1>1. CASE \/ \E j \in Jobs : Enqueue(j)
             \/ \E type \in Types : RegisterHandler(type)
             \/ \E id \in Ids : BecomesDue(id) \/ EvictExpiredCompleted(id)
             \/ Pause \/ ReadTasks \/ PushDueTasks
    <2>1. UNCHANGED <<dispatcher, worker, permits>>
      BY <1>1
      DEF Enqueue, RegisterHandler, BecomesDue, EvictExpiredCompleted, Pause,
          ReadTasks, PushDueTasks, engine
    <2> QED BY <2>1, PermitsFrame DEF Holds, HasTask, Uses, Busy
  <1>2. CASE Restart
    <2>1. \A d \in Dispatchers : ~Holds(d, s)' BY <1>2 DEF Restart, Holds, HasTask, Off
    <2>2. \A w \in Workers : ~Uses(w, s)' BY <1>2 DEF Restart, Uses, Busy, Idle
    <2>3. PoppedFor(s)' = {} /\ ExecutedOn(s)' = {} BY <2>1, <2>2, HoldersNext
    <2>4. permits'[s] = Permits[s] BY <1>2 DEF Restart
    <2>5. Permits[s] + 0 + 0 = Permits[s] BY PoolAssumption
    <2> QED BY <2>3, <2>4, <2>5, FS_EmptySet DEF PermitsOK
  <1>3. ASSUME NEW p \in Pools, StartDispatcher(p) PROVE PermitsOK(s)'
    <2>1. UNCHANGED <<worker, permits>> BY <1>3 DEF StartDispatcher, StartUpTo
    <2>2. \A d \in Dispatchers : HasTask(d)' <=> HasTask(d)
      BY <1>3 DEF StartDispatcher, StartUpTo, HasTask, TypeOK, Off
    <2> QED BY <2>1, <2>2, PermitsFrame DEF Holds, Uses, Busy
  <1> QED BY <1>1, <1>2, <1>3, PermitsDispatcher, PermitsWorker DEF Next

\* No permit is lost or invented, for any number of permits, pools sharing a
\* semaphore, dispatchers and executions.
THEOREM PermitsConservedCorrect == Spec => []PermitsConserved
  <1> DEFINE Inv == IInv /\ \A s \in Configured : PermitsOK(s)
  <1>1. Init => Inv
    <2> SUFFICES ASSUME Init, NEW s \in Configured PROVE PermitsOK(s) BY IInvInit
    <2>1. \A d \in Dispatchers : ~Holds(d, s) BY DEF Init, EngineInit, Holds, HasTask, Off
    <2>2. \A w \in Workers : ~Uses(w, s) BY DEF Init, EngineInit, Uses, Busy, Idle
    <2>3. PoppedFor(s) = {} /\ ExecutedOn(s) = {} BY <2>1, <2>2, HoldersOf
    <2>4. permits[s] = Permits[s] BY DEF Init, EngineInit
    <2>5. Permits[s] + 0 + 0 = Permits[s] BY PoolAssumption
    <2> QED BY <2>3, <2>4, <2>5, FS_EmptySet DEF PermitsOK
  <1>2. Inv /\ [Next]_vars => Inv'
    <2> SUFFICES ASSUME Inv, [Next]_vars PROVE Inv' OBVIOUS
    <2>1. IInv' BY IInvStep
    <2>2. CASE Next BY <2>1, <2>2, PermitsStep DEF IInv
    <2>3. CASE UNCHANGED vars
      <3>1. \A s \in Configured : PermitsOK(s)'
        BY <2>3, PermitsFrame DEF vars, engine, Holds, HasTask, Uses, Busy
      <3> QED BY <2>1, <3>1
    <2> QED BY <2>2, <2>3
  <1>3. Inv => PermitsConserved BY DEF PermitsOK, PermitsConserved
  <1> QED BY <1>1, <1>2, <1>3, PTL DEF Spec

-----------------------------------------------------------------------------
(* Finality: NeverRunsAfterFinish, while completed_tasks forgets nothing.  *)

\* A finished job's id is in completed_tasks, or its execution is about to put
\* it there.
VerdictKept ==
    \A j \in finished :
        \/ Req[j].id \in completedTasks
        \/ \E w \in Workers : worker[w].pc = "finish" /\ worker[w].task.job = j

LEMMA VerdictKeptStep ==
    ASSUME ~Crashes, ~Expiry, TypeOK, VerdictKept, Next
    PROVE  VerdictKept'
  <1>1. ASSUME finished' = finished, completedTasks \subseteq completedTasks',
               \A w \in Workers : worker[w].pc = "finish" => worker'[w] = worker[w]
        PROVE  VerdictKept'
    BY <1>1 DEF VerdictKept
  <1>2. CASE \/ \E j \in Jobs : Enqueue(j)
             \/ \E type \in Types : RegisterHandler(type)
             \/ \E id \in Ids : BecomesDue(id)
             \/ Pause \/ ReadTasks \/ PushDueTasks
             \/ \E p \in Pools : StartDispatcher(p)
             \/ \E d \in Dispatchers : Pop(d) \/ PopNone(d) \/ Exit(d) \/ Deny(d)
    <2>1. UNCHANGED <<finished, completedTasks, worker>>
      BY <1>2
      DEF Enqueue, RegisterHandler, BecomesDue, Pause, ReadTasks, PushDueTasks,
          StartDispatcher, StartUpTo, Pop, PopNone, Exit, Deny, DispatcherFrame, engine,
          history
    <2> QED BY <1>1, <2>1
  <1>3. CASE Restart \/ \E id \in Ids : EvictExpiredCompleted(id)
    BY <1>3 DEF Restart, EvictExpiredCompleted
  <1>4. ASSUME NEW d \in Dispatchers, Admit(d) PROVE VerdictKept'
    <2>1. UNCHANGED <<finished, completedTasks>>
      BY <1>4 DEF Admit, DispatcherFrame, history
    <2>2. \A w \in Workers : worker[w].pc = "finish" => worker'[w] = worker[w]
      BY <1>4 DEF Admit, Idle, TypeOK
    <2> QED BY <1>1, <2>1, <2>2
  <1>5. ASSUME NEW w \in Workers, WorkerStep(w) PROVE VerdictKept'
    <2> DEFINE t == worker[w].task
    <2>1. /\ Busy(w)
          /\ \A v \in Workers \ {w} : worker'[v] = worker[v]
      BY <1>5, WorkerMoves
    <2>2. worker[w] \in [pc: {"spawned", "running"} \cup Finishing, task: Task]
      BY <2>1 DEF Busy, TypeOK, WorkerState
    <2>3. CASE \/ SkipCompleted(w) \/ Begin(w) \/ NoHandler(w) \/ Retry(w) \/ Unhash(w)
               \/ Succeed(w) /\ Req[t.job].cron
      <3>1. /\ UNCHANGED <<finished, completedTasks>>
            /\ worker[w].pc # "finish"
        BY <2>3 DEF SkipCompleted, Begin, NoHandler, Retry, Unhash, Succeed
      <3> QED BY <1>1, <2>1, <3>1
    <2>4. CASE GiveUp(w) \/ (Succeed(w) /\ ~Req[t.job].cron)
      <3>1. /\ finished' = finished \cup {t.job} /\ completedTasks' = completedTasks
            /\ worker[w].pc = "running" /\ worker' = [worker EXCEPT ![w].pc = "finish"]
        BY <2>4 DEF GiveUp, Succeed, Move
      <3>2. worker'[w] = [worker[w] EXCEPT !.pc = "finish"] BY <3>1 DEF TypeOK
      <3>3. worker'[w].pc = "finish" /\ worker'[w].task = t BY <2>2, <3>2
      <3> QED BY <2>1, <3>1, <3>3 DEF VerdictKept
    <2>5. CASE Delete(w)
      <3>1. finished' = finished /\ completedTasks' = completedTasks \cup {Req[t.job].id}
        BY <2>5 DEF Delete, IdOf
      <3> QED BY <2>1, <3>1 DEF VerdictKept
    <2> QED BY <1>5, <2>3, <2>4, <2>5 DEF WorkerStep
  <1> QED BY <1>2, <1>3, <1>4, <1>5 DEF Next, DispatcherStep

\* Only Begin calls the handler, and it finds no finished job's id outside
\* completed_tasks: that job's own execution would be of the same id.
LEMMA StartsUnfinished ==
    ASSUME IInv, VerdictKept, [Next]_vars, NEW w \in Workers, Starts(w)
    PROVE  worker[w].task.job \notin finished
  <1> DEFINE t == worker[w].task
  <1>1. worker[w].pc = "spawned" /\ worker'[w].pc = "running" BY DEF Starts
  <1>2. IdOf(t) \notin completedTasks
    <2>1. worker' # worker BY <1>1
    <2>2. ~Restart BY <1>1 DEF Restart, Idle
    <2>3. \A d \in Dispatchers : Admit(d) => worker'[w].pc # "running"
      BY <1>1 DEF Admit, Idle, IInv, TypeOK
    <2>4. PICK v \in Workers : WorkerStep(v)
      BY <2>1, <2>2, <2>3, <1>1
      DEF Next, Enqueue, RegisterHandler, BecomesDue, EvictExpiredCompleted,
          Pause, ReadTasks, PushDueTasks, StartDispatcher, StartUpTo, DispatcherStep, Pop,
          PopNone, Exit, Deny, engine, vars
    <2>5. v = w
      BY <1>1, <2>4, WorkerMoves DEF IInv
    <2>6. worker'[w] # Idle BY <1>1 DEF Idle
    <2>7. Begin(w) \/ SkipCompleted(w) \/ NoHandler(w)
      BY <1>1, <2>4, <2>5
      DEF WorkerStep, Succeed, Retry, GiveUp, Delete, Unhash
    <2>8. Begin(w)
      BY <2>6, <2>7 DEF SkipCompleted, NoHandler, Return, IInv, TypeOK
    <2> QED BY <2>8 DEF Begin
  <1>3. ASSUME t.job \in finished PROVE FALSE
    <2>1. Req[t.job].id \notin completedTasks BY <1>2 DEF IdOf
    <2>2. PICK v \in Workers : worker[v].pc = "finish" /\ worker[v].task.job = t.job
      BY <1>3, <2>1 DEF VerdictKept
    <2>3. Busy(v) /\ Busy(w) /\ Work(v) = Work(w)
      BY <1>1, <2>2 DEF Busy, Work, IdOf
    <2>4. v = w BY <2>3 DEF IInv, ExecutionsOK
    <2> QED BY <1>1, <2>2, <2>4
  <1> QED BY <1>3

\* A finished job is never executed again, whatever stale copies of it are
\* scanned, queued or saved, as long as no restart and no eviction takes its id
\* out of completed_tasks.
THEOREM NeverRunsAfterFinishCorrect ==
    ASSUME ~Crashes, ~Expiry
    PROVE  Spec => NeverRunsAfterFinish
  <1> DEFINE Inv == IInv /\ VerdictKept
  <1>1. Init => Inv BY IInvInit DEF Init, VerdictKept
  <1>2. Inv /\ [Next]_vars => Inv'
    <2> SUFFICES ASSUME Inv, [Next]_vars PROVE Inv' OBVIOUS
    <2>1. IInv' BY IInvStep
    <2>2. CASE Next BY <2>1, <2>2, VerdictKeptStep DEF IInv
    <2>3. CASE UNCHANGED vars
      BY <2>1, <2>3 DEF vars, engine, history, VerdictKept
    <2> QED BY <2>2, <2>3
  <1>3. Inv /\ [Next]_vars =>
            [\A w \in Workers : Starts(w) => worker[w].task.job \notin finished]_vars
    BY StartsUnfinished
  <1> QED BY <1>1, <1>2, <1>3, PTL DEF Spec, NeverRunsAfterFinish
=============================================================================
