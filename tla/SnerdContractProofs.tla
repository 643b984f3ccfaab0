------------------------ MODULE SnerdContractProofs -------------------------
(***************************************************************************)
(* Deduplication, and that the queue engine keeps the contract of          *)
(* JobContract, for every set of jobs, ids, pools, permits and executions. *)
(*                                                                         *)
(* All need ids that are not reused and no failed write.  The contract,    *)
(* and that a pending job keeps its hash, also need what SnerdContract     *)
(* asks for: no rate limiter that writes a stale copy back, and completed  *)
(* entries that are not evicted while a copy is still about.  Restarts are *)
(* allowed.                                                                *)
(***************************************************************************)
EXTENDS SnerdContract, SnerdQueueProofs

NoLimits == \A j \in Jobs : ~Req[j].limited

-----------------------------------------------------------------------------
(* Where the copies of a task come from.                                   *)

\* Some copy of job j is about.
About(j) == \E u \in Copies : u.job = j

\* A copy in the store, the snapshot, a queue, a hand or an execution.
LEMMA AboutFrom ==
    ASSUME TypeOK
    PROVE  /\ \A id \in Ids : store[id] # NoTask => About(store[id].job)
           /\ \A id \in Ids : snapshot[id] # NoTask => About(snapshot[id].job)
           /\ \A p \in Pools : \A t \in sharedPqs[p] : About(t.job)
           /\ \A d \in Dispatchers :
                 dispatcher[d].task # NoTask => About(dispatcher[d].task.job)
           /\ \A w \in Workers : worker[w].task # NoTask => About(worker[w].task.job)
  <1>1. \A p \in Pools : \A t \in sharedPqs[p] : t # NoTask
    BY Sentinels DEF TypeOK
  <1> QED BY <1>1, CopiesHere DEF About

\* The store's copies are of jobs that had one, or of the one enqueued.
LEMMA StoreAbout ==
    ASSUME TypeOK, Next, NEW id \in Ids, store'[id] # NoTask
    PROVE  About(store'[id].job) \/ \E j \in Jobs : Enqueue(j) /\ store'[id] = NewTask(j)
  <1>0. store[id] # NoTask => About(store[id].job) BY AboutFrom
  <1>1. ASSUME store'[id] = store[id] PROVE About(store'[id].job) BY <1>0, <1>1
  <1>2. ASSUME NEW j \in Jobs, Enqueue(j)
        PROVE  store'[id] = store[id] \/ store'[id] = NewTask(j)
    BY <1>2 DEF Enqueue, TypeOK
  <1>3. ASSUME NEW i \in Ids, BecomesDue(i) PROVE About(store'[id].job)
    <2>1. store[i] \in Task /\ About(store[i].job)
      BY <1>3, AboutFrom DEF BecomesDue, TypeOK
    <2>2. [store[i] EXCEPT !.due = TRUE].job = store[i].job BY <2>1 DEF Task
    <2>3. store'[id] = store[id] \/ store'[id] = [store[i] EXCEPT !.due = TRUE]
      BY <1>3 DEF BecomesDue, TypeOK
    <2> QED BY <1>1, <2>1, <2>2, <2>3
  <1>4. ASSUME NEW t \in Task, About(t.job), SaveTask(t) PROVE About(store'[id].job)
    BY <1>1, <1>4 DEF SaveTask, TypeOK
  <1>5. ASSUME NEW i \in Ids, DeleteTask(i) PROVE About(store'[id].job)
    BY <1>1, <1>5 DEF DeleteTask, TypeOK
  <1>6. ASSUME NEW d \in Dispatchers, Deny(d) PROVE About(store'[id].job)
    <2> DEFINE t == dispatcher[d].task
               u == [t EXCEPT !.due = FALSE]
    <2>1. t \in Task /\ t # NoTask BY <1>6, Hands, Sentinels DEF Deny
    <2>2. u \in Task /\ u.job = t.job BY <2>1 DEF Task
    <2>3. About(u.job) BY <2>1, <2>2, AboutFrom
    <2>4. SaveTask(u) BY <1>6 DEF Deny
    <2> QED BY <1>4, <2>2, <2>3, <2>4
  <1>7. ASSUME NEW w \in Workers, WorkerStep(w) PROVE About(store'[id].job)
    <2> DEFINE t == worker[w].task
               first == [t EXCEPT !.retry = 0, !.due = FALSE]
               again == [t EXCEPT !.retry = @ + 1, !.due = FALSE]
    <2>1. t \in Task /\ t # NoTask BY <1>7, WorkerMoves, Sentinels
    <2>2. t.retry \in Nat /\ IdOf(t) \in Ids BY <2>1, TaskFields
    <2>3. first \in Task /\ first.job = t.job BY <2>1 DEF Task
    <2>4. again \in Task /\ again.job = t.job
      <3>1. t.retry + 1 \in Nat BY <2>2
      <3> QED BY <2>1, <3>1 DEF Task
    <2>5. About(t.job) BY <2>1, AboutFrom
    <2>6. \/ store' = store \/ DeleteTask(IdOf(t))
          \/ SaveTask(first) \/ SaveTask(again)
      BY <1>7 DEF WorkerStep, SkipCompleted, Begin, NoHandler, Succeed, Retry,
                  GiveUp, Delete, Unhash, SaveRetry
    <2> QED BY <1>1, <1>4, <1>5, <2>2, <2>3, <2>4, <2>5, <2>6
  <1>8. CASE \/ \E type \in Types : RegisterHandler(type)
             \/ \E i \in Ids : EvictExpiredCompleted(i)
             \/ Pause \/ Restart \/ ReadTasks \/ PushDueTasks
             \/ \E p \in Pools : StartDispatcher(p)
             \/ \E d \in Dispatchers : Pop(d) \/ PopNone(d) \/ Exit(d) \/ Admit(d)
    BY <1>1, <1>8 DEF RegisterHandler, EvictExpiredCompleted, Pause, Restart,
       ReadTasks, PushDueTasks, StartDispatcher, StartUpTo, Pop, PopNone, Exit, Admit
  <1> QED BY <1>1, <1>2, <1>3, <1>6, <1>7, <1>8 DEF Next, DispatcherStep

\* So are the copies in memory.
LEMMA MemoryAbout ==
    ASSUME TypeOK, Next
    PROVE  /\ \A id \in Ids : snapshot'[id] # NoTask => About(snapshot'[id].job)
           /\ \A p \in Pools : \A t \in sharedPqs'[p] : About(t.job)
           /\ \A d \in Dispatchers :
                 dispatcher'[d].task # NoTask => About(dispatcher'[d].task.job)
           /\ \A w \in Workers : worker'[w].task # NoTask => About(worker'[w].task.job)
  <1> USE AboutFrom
  <1>1. CASE Restart BY <1>1 DEF Restart, NoTasks, Off, Idle
  <1>2. CASE ReadTasks BY <1>2 DEF ReadTasks
  <1>3. CASE PushDueTasks
    <2>1. \A p \in Pools : \A t \in sharedPqs'[p] :
            t \in sharedPqs[p] \/ \E id \in Ids : t = snapshot[id] /\ t # NoTask
      BY <1>3 DEF PushDueTasks, Eligible
    <2> QED BY <1>3, <2>1 DEF PushDueTasks, NoTasks
  <1>4. ASSUME NEW p \in Pools, StartDispatcher(p)
        PROVE  \A d \in Dispatchers : dispatcher'[d].task = dispatcher[d].task
    <2> SUFFICES ASSUME NEW d \in Dispatchers
                 PROVE  dispatcher'[d].task = dispatcher[d].task
      OBVIOUS
    <2>1. \/ dispatcher'[d] = dispatcher[d]
          \/ dispatcher[d] = Off /\ dispatcher'[d] = [dispatcher[d] EXCEPT !.pc = "loop"]
      BY <1>4 DEF StartDispatcher, StartUpTo, TypeOK
    <2> QED BY <2>1 DEF Off
  <1>5. CASE \E p \in Pools : StartDispatcher(p)
    BY <1>4, <1>5 DEF StartDispatcher, StartUpTo
  <1>6. ASSUME NEW d \in Dispatchers, Pop(d)
        PROVE  /\ \A p \in Pools : sharedPqs'[p] \subseteq sharedPqs[p]
               /\ \A e \in Dispatchers :
                     \/ dispatcher'[e].task = dispatcher[e].task
                     \/ \E p \in Pools : dispatcher'[e].task \in sharedPqs[p]
    <2>0. d[1] \in Pools BY Hands
    <2>1. PICK t \in sharedPqs[d[1]] :
            /\ sharedPqs' = [sharedPqs EXCEPT ![d[1]] = @ \ {t}]
            /\ dispatcher' = [dispatcher EXCEPT ![d] = [pc |-> "have", task |-> t]]
      BY <1>6 DEF Pop, MostUrgent
    <2>2. \A e \in Dispatchers : dispatcher'[e].task \in {dispatcher[e].task, t}
      BY <2>1 DEF TypeOK
    <2> QED BY <2>0, <2>1, <2>2 DEF TypeOK
  <1>7. CASE \E d \in Dispatchers : Pop(d)
    <2>1. UNCHANGED <<snapshot, worker>> BY <1>7 DEF Pop, DispatcherFrame
    <2> QED BY <1>6, <1>7, <2>1
  <1>8. ASSUME NEW d \in Dispatchers, PopNone(d) \/ Exit(d) \/ Deny(d) \/ Admit(d)
        PROVE  /\ UNCHANGED <<snapshot, sharedPqs>>
               /\ \A e \in Dispatchers : dispatcher'[e].task \in {dispatcher[e].task, NoTask}
               /\ \A w \in Workers : worker'[w].task \in {worker[w].task, dispatcher[d].task}
    <2>1. UNCHANGED <<snapshot, sharedPqs>>
      BY <1>8 DEF PopNone, Exit, Deny, Admit, DispatcherFrame
    <2>2. \A e \in Dispatchers : dispatcher'[e].task \in {dispatcher[e].task, NoTask}
      BY <1>8 DEF PopNone, Exit, Deny, Admit, Off, TypeOK
    <2>3. \A w \in Workers : worker'[w].task \in {worker[w].task, dispatcher[d].task}
      BY <1>8 DEF PopNone, Exit, Deny, Admit, TypeOK
    <2> QED BY <2>1, <2>2, <2>3
  <1>9. CASE \E d \in Dispatchers : PopNone(d) \/ Exit(d) \/ Deny(d) \/ Admit(d)
    BY <1>8, <1>9
  <1>10. ASSUME NEW w \in Workers, WorkerStep(w)
         PROVE  /\ UNCHANGED <<snapshot, sharedPqs, dispatcher>>
                /\ \A v \in Workers : worker'[v].task \in {worker[v].task, NoTask}
    <2>1. UNCHANGED <<snapshot, sharedPqs, dispatcher>>
      BY <1>10 DEF WorkerStep, SkipCompleted, Begin, NoHandler, Succeed, Retry,
         GiveUp, Delete, Unhash, ExecutionFrame
    <2> QED BY <1>10, <2>1, WorkerMoves DEF Idle
  <1>11. CASE \E w \in Workers : WorkerStep(w) BY <1>10, <1>11
  <1>12. CASE \/ \E j \in Jobs : Enqueue(j)
              \/ \E type \in Types : RegisterHandler(type)
              \/ \E id \in Ids : BecomesDue(id) \/ EvictExpiredCompleted(id)
              \/ Pause
    <2>1. UNCHANGED <<snapshot, sharedPqs, dispatcher, worker>>
      BY <1>12 DEF Enqueue, RegisterHandler, BecomesDue, EvictExpiredCompleted,
         Pause, engine
    <2> QED BY <2>1
  <1> QED BY <1>1, <1>2, <1>3, <1>5, <1>7, <1>9, <1>11, <1>12
          DEF Next, DispatcherStep

\* No step makes a copy of a job that had none, but the one that accepts it.
LEMMA CopiesAbout ==
    ASSUME TypeOK, Next, NEW t \in Copies'
    PROVE  About(t.job) \/ \E j \in Jobs : Enqueue(j) /\ t = NewTask(j) /\ t \in {store'[id] : id \in Ids}
    BY CopiesOf, StoreAbout, MemoryAbout

-----------------------------------------------------------------------------
(* The inductive invariant.  What an execution about to release a payload  *)
(* hash relies on is that its job is the only one left with that payload,  *)
(* stored or not; and that holds because a stale copy can bring a job back *)
(* only while its record is stored.                                        *)

\* Every copy is of an accepted job, and every accepted job was sent.
CopiesAccepted ==
    accepted \subseteq sent /\ \A t \in Copies : t.job \in accepted

\* A copy's record is stored, or its id is in completed_tasks.
Fresh == \A t \in Copies : IdOf(t) \in completedTasks \/ store[IdOf(t)] # NoTask

\* A task is in the store from the call of its handler to its tombstone, and
\* not between the tombstone and the release of its hash.
CallsStored ==
    \A w \in Workers :
        /\ worker[w].pc \in {"running", "finish"} => store[Work(w)] # NoTask
        /\ worker[w].pc = "unhash" => store[Work(w)] = NoTask

\* Job j has its payload hash: it is stored, or about to release it.
Owns(j) ==
    \/ store[Req[j].id] # NoTask
    \/ \E w \in Workers : worker[w].pc = "unhash" /\ worker[w].task.job = j

SamePayload(i, j) == Req[i].hash = Req[j].hash /\ Req[i].hash # NoHash

OwnerOfEach ==
    \A hash \in activeHashes : \E j \in Jobs : Owns(j) /\ Req[j].hash = hash

\* The active hashes are those of the owners, and each has one owner.
HashesOwned ==
    /\ \A j \in Jobs : Owns(j) /\ Req[j].hash # NoHash => Req[j].hash \in activeHashes
    /\ OwnerOfEach
    /\ \A i, j \in Jobs : Owns(i) /\ Owns(j) /\ SamePayload(i, j) => i = j

DedupeInv == IInv /\ CopiesAccepted /\ Fresh /\ CallsStored /\ HashesOwned

\* With ids that are not reused, an id's record is its one job's.
LEMMA OneJob ==
    ASSUME UniqueIds, TypeOK, Keyed, NEW j \in Jobs, store[Req[j].id] # NoTask
    PROVE  store[Req[j].id] \in Task /\ store[Req[j].id].job = j
  <1>1. Req[j].id \in Ids BY RequestFields
  <1>2. store[Req[j].id] \in Task BY <1>1 DEF TypeOK
  <1>3. store[Req[j].id].job \in Jobs BY <1>2, TaskFields
  <1>4. Req[store[Req[j].id].job].id = Req[j].id BY <1>1 DEF Keyed, IdOf
  <1> QED BY <1>2, <1>3, <1>4 DEF UniqueIds

\* The job of an execution, and its id.
LEMMA WorkFields ==
    ASSUME TypeOK, NEW w \in Workers, Busy(w)
    PROVE  /\ worker[w].task \in Task /\ worker[w].task # NoTask
           /\ worker[w].task.job \in Jobs
           /\ Work(w) = Req[worker[w].task.job].id /\ Work(w) \in Ids
           /\ worker[w].task \in Copies
    BY Hands, TaskFields, Sentinels, CopiesHere DEF Busy, Work, IdOf

-----------------------------------------------------------------------------
(* The store, step by step.                                                *)

\* A step fills the slot of a job it accepts, empties the slot of an execution
\* that deletes it, and no other.
LEMMA StoreChanges ==
    ASSUME ~IoErrors, NoLimits, IInv, CallsStored, Next, NEW id \in Ids
    PROVE  \/ /\ store'[id] = NoTask <=> store[id] = NoTask
              /\ \A w \in Workers : Delete(w) => Work(w) # id
           \/ \E j \in Jobs : Enqueue(j) /\ Req[j].id = id /\ store'[id] = NewTask(j)
           \/ \E w \in Workers : Delete(w) /\ Work(w) = id /\ store'[id] = NoTask
  <1> USE DEF IInv
  <1>1. ASSUME NEW j \in Jobs, Enqueue(j)
        PROVE  \/ store'[id] = store[id]
               \/ Req[j].id = id /\ store'[id] = NewTask(j)
    BY <1>1 DEF Enqueue, TypeOK
  <1>2. ASSUME NEW i \in Ids, BecomesDue(i)
        PROVE  store'[id] = NoTask <=> store[id] = NoTask
    <2>1. store[i] \in Task /\ store[i] # NoTask BY <1>2 DEF BecomesDue, TypeOK
    <2>2. [store[i] EXCEPT !.due = TRUE] \in Task BY <2>1 DEF Task
    <2> QED BY <1>2, <2>1, <2>2, Sentinels DEF BecomesDue, TypeOK
  <1>3. ASSUME NEW d \in Dispatchers, Deny(d) PROVE FALSE
    BY <1>3, Hands, TaskFields DEF Deny, NoLimits
  <1>4. ASSUME NEW w \in Workers, Succeed(w) \/ Retry(w)
        PROVE  store'[id] = NoTask <=> store[id] = NoTask
    <2> DEFINE t == worker[w].task
               first == [t EXCEPT !.retry = 0, !.due = FALSE]
               again == [t EXCEPT !.retry = @ + 1, !.due = FALSE]
    <2>1. Busy(w) /\ worker[w].pc = "running" BY <1>4 DEF Succeed, Retry, Busy
    <2>2. t \in Task /\ t.retry \in Nat BY <2>1, WorkFields, TaskFields
    <2>3. first \in Task /\ first.job = t.job BY <2>2 DEF Task
    <2>4. again \in Task /\ again.job = t.job
      <3>1. t.retry + 1 \in Nat BY <2>2
      <3> QED BY <2>2, <3>1 DEF Task
    <2>5. store' = store \/ SaveTask(first) \/ SaveTask(again)
      BY <1>4 DEF Succeed, Retry, SaveRetry
    <2>6. store[IdOf(t)] # NoTask BY <2>1 DEF CallsStored, Work
    <2>7. IdOf(first) = IdOf(t) /\ IdOf(again) = IdOf(t) BY <2>3, <2>4 DEF IdOf
    <2> QED BY <2>3, <2>4, <2>5, <2>6, <2>7, Sentinels DEF SaveTask, TypeOK
  <1>5. ASSUME NEW w \in Workers, Delete(w)
        PROVE  IF Work(w) = id THEN store'[id] = NoTask ELSE store'[id] = store[id]
    BY <1>5 DEF Delete, DeleteTask, Work, TypeOK
  <1>6. ASSUME NEW w \in Workers, Delete(w)
        PROVE  \A v \in Workers : Delete(v) => v = w
    <2> SUFFICES ASSUME NEW v \in Workers, Delete(v), v # w PROVE FALSE OBVIOUS
    <2>1. worker[v].pc = "finish" /\ worker'[v] = worker[v]
      BY <1>6 DEF Delete, Move, TypeOK
    <2>2. worker'[v].pc = "unhash"
      <3>1. worker[v] \in [pc: {"spawned", "running"} \cup Finishing, task: Task]
        BY <2>1 DEF TypeOK, WorkerState
      <3>2. worker'[v] = [worker[v] EXCEPT !.pc = "unhash"]
        BY DEF Delete, Move, TypeOK
      <3> QED BY <3>1, <3>2
    <2> QED BY <2>1, <2>2
  <1>7. ASSUME store'[id] = NoTask <=> store[id] = NoTask,
               \A w \in Workers : ~Delete(w)
        PROVE  /\ store'[id] = NoTask <=> store[id] = NoTask
               /\ \A w \in Workers : Delete(w) => Work(w) # id
    BY <1>7
  <1>8. ASSUME NEW w \in Workers, Delete(w)
        PROVE  \/ /\ store'[id] = NoTask <=> store[id] = NoTask
                  /\ \A v \in Workers : Delete(v) => Work(v) # id
               \/ Delete(w) /\ Work(w) = id /\ store'[id] = NoTask
    BY <1>5, <1>6, <1>8
  <1>9. CASE ~\E w \in Workers : Delete(w)
    <2>1. CASE \/ \E type \in Types : RegisterHandler(type)
               \/ \E i \in Ids : EvictExpiredCompleted(i)
               \/ Pause \/ Restart \/ ReadTasks \/ PushDueTasks
               \/ \E p \in Pools : StartDispatcher(p)
               \/ \E d \in Dispatchers : Pop(d) \/ PopNone(d) \/ Exit(d) \/ Admit(d)
               \/ \E w \in Workers : SkipCompleted(w) \/ Begin(w) \/ NoHandler(w)
                                        \/ GiveUp(w) \/ Unhash(w)
      <3>1. store' = store
        BY <2>1 DEF RegisterHandler, EvictExpiredCompleted, Pause, Restart,
           ReadTasks, PushDueTasks, StartDispatcher, StartUpTo, Pop, PopNone, Exit, Admit,
           SkipCompleted, Begin, NoHandler, GiveUp, Unhash
      <3> QED BY <1>9, <3>1
    <2>2. CASE \/ \E i \in Ids : BecomesDue(i)
               \/ \E d \in Dispatchers : Deny(d)
               \/ \E w \in Workers : Succeed(w) \/ Retry(w)
      BY <1>2, <1>3, <1>4, <1>9, <2>2
    <2>3. CASE \E j \in Jobs : Enqueue(j) BY <1>1, <1>9, <2>3
    <2> QED BY <1>9, <2>1, <2>2, <2>3 DEF Next, DispatcherStep, WorkerStep
  <1> QED BY <1>8, <1>9

LEMMA CopiesAcceptedStep ==
    ASSUME ~IoErrors, TypeOK, CopiesAccepted, Next
    PROVE  CopiesAccepted'
  <1>1. accepted \subseteq accepted' /\ accepted' \subseteq sent'
    BY DEF CopiesAccepted, Next, Enqueue, RegisterHandler, BecomesDue,
           EvictExpiredCompleted, Pause, Restart, ReadTasks, PushDueTasks,
           StartDispatcher, StartUpTo, DispatcherStep, Pop, PopNone, Exit, Deny, Admit,
           DispatcherFrame, WorkerStep, SkipCompleted, Begin, NoHandler, Succeed,
           Retry, GiveUp, Delete, Unhash, ExecutionFrame, history
  <1>2. ASSUME NEW t \in Copies' PROVE t.job \in accepted'
    <2>1. CASE About(t.job) BY <1>1, <2>1 DEF About, CopiesAccepted
    <2>2. ASSUME NEW j \in Jobs, Enqueue(j), t = NewTask(j), NEW id \in Ids, t = store'[id]
          PROVE  t.job \in accepted'
      <3>1. CASE UNCHANGED store
        <4>1. t # NoTask BY CopiesOf
        <4>2. About(t.job) BY <2>2, <3>1, <4>1, AboutFrom
        <4> QED BY <2>1, <4>2
      <3>2. CASE accepted' = accepted \cup {j} BY <2>2, <3>2 DEF NewTask
      <3> QED BY <2>2, <3>1, <3>2 DEF Enqueue
    <2> QED BY <2>1, <2>2, CopiesAbout
  <1> QED BY <1>1, <1>2 DEF CopiesAccepted

LEMMA FreshStep ==
    ASSUME ~IoErrors, ~Expiry, NoLimits, IInv, IInv', CallsStored, Fresh, Next
    PROVE  Fresh'
  <1> USE DEF IInv
  <1> SUFFICES ASSUME NEW t \in Copies'
               PROVE  IdOf(t) \in completedTasks' \/ store'[IdOf(t)] # NoTask
    BY DEF Fresh
  <1>0. t # NoTask BY CopiesOf
  <1>1. ASSUME NEW id \in Ids, t = store'[id] PROVE store'[IdOf(t)] # NoTask
    BY <1>0, <1>1 DEF Keyed
  <1>2. CASE Restart
    <2>1. PICK id \in Ids : t = store'[id]
      BY <1>0, <1>2, CopiesOf DEF Restart, NoTasks, Off, Idle
    <2> QED BY <1>1, <2>1
  <1>3. CASE ~Restart /\ About(t.job)
    <2> DEFINE id == IdOf(t)
    <2>1. PICK u \in Copies : u.job = t.job BY <1>3 DEF About
    <2>2. IdOf(u) = id BY <2>1 DEF IdOf
    <2>3. id \in Ids BY <2>2, CopiesAreTasks, TaskFields
    <2>4. completedTasks \subseteq completedTasks'
      BY <1>3
      DEF Next, Enqueue, RegisterHandler, BecomesDue, EvictExpiredCompleted,
          Pause, ReadTasks, PushDueTasks, StartDispatcher, StartUpTo, DispatcherStep, Pop,
          PopNone, Exit, Deny, Admit, DispatcherFrame, WorkerStep,
          SkipCompleted, Begin, NoHandler, Succeed, Retry, GiveUp, Delete,
          Unhash, engine
    <2>5. CASE id \in completedTasks BY <2>4, <2>5
    <2>6. CASE store[id] # NoTask
      <3>1. ASSUME NEW w \in Workers, Delete(w), Work(w) = id
            PROVE  id \in completedTasks'
        BY <3>1 DEF Delete, Work
      <3>2. ASSUME NEW j \in Jobs, store'[id] = NewTask(j) PROVE store'[id] # NoTask
        BY <3>2, RequestFields, Sentinels
      <3> QED BY <2>3, <2>6, <3>1, <3>2, StoreChanges
    <2> QED BY <2>1, <2>2, <2>5, <2>6 DEF Fresh
  <1> QED BY <1>1, <1>2, <1>3, CopiesAbout

LEMMA CallsStoredStep ==
    ASSUME ~IoErrors, NoLimits, UniqueIds, IInv, CopiesAccepted, Fresh, CallsStored, Next
    PROVE  CallsStored'
  <1> USE DEF IInv
  <1> SUFFICES ASSUME NEW v \in Workers
               PROVE  /\ worker'[v].pc \in {"running", "finish"} => store'[Work(v)'] # NoTask
                      /\ worker'[v].pc = "unhash" => store'[Work(v)'] = NoTask
    BY DEF CallsStored
  <1>1. CASE worker'[v] = worker[v] /\ Busy(v)
    <2>1. Work(v)' = Work(v) /\ Work(v) \in Ids /\ worker[v].task \in Copies
      BY <1>1, WorkFields DEF Work
    <2>2. ASSUME NEW w \in Workers, Delete(w), Work(w) = Work(v) PROVE FALSE
      <3>1. Busy(w) BY <2>2 DEF Delete, Busy
      <3>2. w = v BY <1>1, <2>2, <3>1 DEF ExecutionsOK
      <3>3. worker[v] \in [pc: {"spawned", "running"} \cup Finishing, task: Task]
        BY <1>1 DEF Busy, TypeOK, WorkerState
      <3>4. worker[v].pc = "finish" /\ worker'[v] = [worker[v] EXCEPT !.pc = "unhash"]
        BY <2>2, <3>2 DEF Delete, Move, TypeOK
      <3> QED BY <1>1, <3>3, <3>4
    <2>3. ASSUME NEW j \in Jobs, Enqueue(j), Req[j].id = Work(v) PROVE FALSE
      <3>1. worker[v].task.job = j BY <1>1, <2>3, WorkFields DEF UniqueIds
      <3> QED BY <2>1, <2>3, <3>1 DEF CopiesAccepted, Enqueue
    <2>4. store'[Work(v)] = NoTask <=> store[Work(v)] = NoTask
      BY <2>1, <2>2, <2>3, StoreChanges
    <2> QED BY <1>1, <2>1, <2>4 DEF CallsStored
  <1>2. CASE WorkerStep(v) /\ worker'[v] # Idle
    <2>1. /\ Busy(v) /\ worker'[v].task = worker[v].task
          /\ worker[v].task \in Copies /\ Work(v) \in Ids
      BY <1>2, WorkerMoves, WorkFields
    <2>2. Work(v)' = Work(v) BY <2>1 DEF Work
    <2>3. worker[v] \in [pc: {"spawned", "running"} \cup Finishing, task: Task]
      BY <2>1 DEF Busy, TypeOK, WorkerState
    <2>4. \A pc : Move(v, pc) => worker'[v].pc = pc
      BY <2>3 DEF Move, TypeOK
    <2>5. CASE Begin(v)
      <3>1. Work(v) \notin completedTasks /\ store' = store /\ worker'[v].pc = "running"
        BY <2>4, <2>5 DEF Begin, Work
      <3>2. store[Work(v)] # NoTask BY <2>1, <3>1 DEF Fresh, Work
      <3> QED BY <2>2, <3>1, <3>2
    <2>6. CASE GiveUp(v) \/ (Succeed(v) /\ ~Req[worker[v].task.job].cron)
      <3>1. worker[v].pc = "running" /\ store' = store /\ worker'[v].pc = "finish"
        BY <2>4, <2>6 DEF GiveUp, Succeed
      <3> QED BY <2>2, <3>1 DEF CallsStored
    <2>7. CASE Delete(v)
      <3>1. worker'[v].pc = "unhash" /\ store'[Work(v)] = NoTask
        BY <2>1, <2>4, <2>7 DEF Delete, DeleteTask, Work, TypeOK
      <3> QED BY <2>2, <3>1
    <2>8. CASE \/ SkipCompleted(v) \/ NoHandler(v) \/ Retry(v) \/ Unhash(v)
               \/ Succeed(v) /\ Req[worker[v].task.job].cron
      BY <1>2, <2>8 DEF SkipCompleted, NoHandler, Retry, Unhash, Succeed, Return, TypeOK
    <2> QED BY <1>2, <2>5, <2>6, <2>7, <2>8 DEF WorkerStep
  <1>3. CASE worker'[v].pc \notin {"running"} \cup Finishing
    BY <1>3 DEF Finishing
  <1>4. \/ worker'[v] = worker[v]
        \/ WorkerStep(v)
        \/ worker'[v].pc \notin {"running"} \cup Finishing
    <2>1. CASE \/ \E j \in Jobs : Enqueue(j)
               \/ \E type \in Types : RegisterHandler(type)
               \/ \E id \in Ids : BecomesDue(id) \/ EvictExpiredCompleted(id)
               \/ Pause \/ ReadTasks \/ PushDueTasks
               \/ \E p \in Pools : StartDispatcher(p)
               \/ \E d \in Dispatchers : Pop(d) \/ PopNone(d) \/ Exit(d) \/ Deny(d)
      BY <2>1
      DEF Enqueue, RegisterHandler, BecomesDue, EvictExpiredCompleted, Pause,
          ReadTasks, PushDueTasks, StartDispatcher, StartUpTo, Pop, PopNone, Exit, Deny,
          engine
    <2>2. CASE Restart BY <2>2 DEF Restart, Idle, Finishing
    <2>3. ASSUME NEW d \in Dispatchers, Admit(d)
          PROVE  worker'[v] = worker[v] \/ worker'[v].pc \notin {"running"} \cup Finishing
      BY <2>3 DEF Admit, Finishing, TypeOK
    <2>4. ASSUME NEW w \in Workers, WorkerStep(w), w # v PROVE worker'[v] = worker[v]
      BY <2>4, WorkerMoves
    <2> QED BY <2>1, <2>2, <2>3, <2>4 DEF Next, DispatcherStep
  <1>5. ASSUME worker'[v] = worker[v], ~Busy(v)
        PROVE  worker'[v].pc \notin {"running"} \cup Finishing
    BY <1>5 DEF Busy, Finishing
  <1>6. CASE worker'[v] = Idle BY <1>6 DEF Idle
  <1> QED BY <1>1, <1>2, <1>3, <1>4, <1>5, <1>6

-----------------------------------------------------------------------------
(* The owners of payload hashes.                                           *)

\* A job that owns its hash was accepted.
LEMMA OwnersAccepted ==
    ASSUME UniqueIds, IInv, CopiesAccepted, NEW j \in Jobs, Owns(j)
    PROVE  j \in accepted
  <1> USE DEF IInv
  <1>1. CASE store[Req[j].id] # NoTask
    <2>1. store[Req[j].id].job = j BY <1>1, OneJob
    <2>2. store[Req[j].id] \in Copies BY <1>1, RequestFields, CopiesHere
    <2> QED BY <2>1, <2>2 DEF CopiesAccepted
  <1>2. ASSUME NEW w \in Workers, worker[w].pc = "unhash", worker[w].task.job = j
        PROVE  j \in accepted
    <2>1. worker[w].task \in Copies BY <1>2, WorkFields DEF Busy
    <2> QED BY <1>2, <2>1 DEF CopiesAccepted
  <1> QED BY <1>1, <1>2 DEF Owns

LEMMA OwnersFrame ==
    ASSUME HashesOwned, activeHashes' = activeHashes,
           \A j \in Jobs : Owns(j)' <=> Owns(j)
    PROVE  HashesOwned'
    BY DEF HashesOwned, OwnerOfEach, SamePayload

\* The accepted job becomes the one owner of its hash, which nobody had.
LEMMA OwnersEnqueue ==
    ASSUME ~IoErrors, UniqueIds, IInv, CopiesAccepted, HashesOwned,
           NEW k \in Jobs, Enqueue(k)
    PROVE  HashesOwned'
  <1> USE DEF IInv
  <1>0. worker' = worker BY DEF Enqueue, engine
  <1>1. CASE UNCHANGED <<store, activeHashes>>
    <2>1. \A j \in Jobs : Owns(j)' <=> Owns(j) BY <1>0, <1>1 DEF Owns
    <2> QED BY <1>1, <2>1, OwnersFrame
  <1>2. CASE /\ Req[k].hash \notin activeHashes
             /\ activeHashes' = activeHashes \cup ({Req[k].hash} \ {NoHash})
             /\ store' = [store EXCEPT ![Req[k].id] = NewTask(k)]
    <2>1. \A j \in Jobs : Owns(j)' <=> Owns(j) \/ j = k
      <3> SUFFICES ASSUME NEW j \in Jobs PROVE Owns(j)' <=> Owns(j) \/ j = k OBVIOUS
      <3>1. CASE j = k
        <4>1. store'[Req[k].id] # NoTask
          BY <1>2, RequestFields, Sentinels DEF TypeOK
        <4> QED BY <3>1, <4>1 DEF Owns
      <3>2. CASE j # k
        <4>1. Req[j].id # Req[k].id BY <3>2 DEF UniqueIds
        <4>2. store'[Req[j].id] = store[Req[j].id]
          BY <1>2, <4>1, RequestFields DEF TypeOK
        <4> QED BY <1>0, <3>2, <4>2 DEF Owns
      <3> QED BY <3>1, <3>2
    <2>2. \A j \in Jobs : Owns(j) => ~SamePayload(j, k) /\ ~SamePayload(k, j)
      BY <1>2 DEF HashesOwned, OwnerOfEach, SamePayload
    <2>3. \A i, j \in Jobs : Owns(i)' /\ Owns(j)' /\ SamePayload(i, j) => i = j
      BY <2>1, <2>2 DEF HashesOwned, OwnerOfEach
    <2>4. \A j \in Jobs : Owns(j)' /\ Req[j].hash # NoHash => Req[j].hash \in activeHashes'
      BY <1>2, <2>1 DEF HashesOwned, OwnerOfEach
    <2>5. \A hash \in activeHashes' : \E j \in Jobs : Owns(j)' /\ Req[j].hash = hash
      BY <1>2, <2>1 DEF HashesOwned, OwnerOfEach
    <2> QED BY <2>3, <2>4, <2>5 DEF HashesOwned, OwnerOfEach, SamePayload
  <1> QED BY <1>1, <1>2 DEF Enqueue

\* The release of a hash ends its one owner.
LEMMA OwnersUnhash ==
    ASSUME UniqueIds, IInv, CallsStored, HashesOwned, NEW w \in Workers, Unhash(w)
    PROVE  HashesOwned'
  <1> USE DEF IInv
  <1> DEFINE k == worker[w].task.job
  <1>1. /\ worker[w].pc = "unhash" /\ store' = store
        /\ worker' = [worker EXCEPT ![w] = Idle]
        /\ activeHashes' = activeHashes \ {Req[k].hash}
    BY DEF Unhash, Return, HashOf
  <1>2. Busy(w) /\ k \in Jobs /\ Work(w) = Req[k].id
    BY <1>1, WorkFields DEF Busy
  <1>3. Owns(k) BY <1>1, <1>2 DEF Owns
  <1>4. /\ worker'[w].pc = "idle"
        /\ \A v \in Workers \ {w} : worker'[v] = worker[v]
    BY <1>1 DEF Idle, TypeOK
  <1>5. \A v \in Workers : worker[v].pc = "unhash" /\ worker[v].task.job = k => v = w
    <2> SUFFICES ASSUME NEW v \in Workers, worker[v].pc = "unhash", worker[v].task.job = k
                 PROVE  v = w
      OBVIOUS
    <2>1. Busy(v) BY DEF Busy
    <2>2. Work(v) = Work(w) BY DEF Work, IdOf
    <2> QED BY <1>2, <2>1, <2>2 DEF ExecutionsOK
  <1>6. \A j \in Jobs : Owns(j)' <=> Owns(j) /\ j # k
    <2> SUFFICES ASSUME NEW j \in Jobs PROVE Owns(j)' <=> Owns(j) /\ j # k OBVIOUS
    <2>1. CASE j = k
      <3>1. store'[Req[k].id] = NoTask BY <1>1, <1>2 DEF CallsStored
      <3>2. ~\E v \in Workers : worker'[v].pc = "unhash" /\ worker'[v].task.job = k
        BY <1>4, <1>5
      <3> QED BY <2>1, <3>1, <3>2 DEF Owns
    <2>2. CASE j # k BY <1>1, <1>4, <2>2 DEF Owns
    <2> QED BY <2>1, <2>2
  <1>7. \A j \in Jobs : Owns(j) /\ j # k => ~SamePayload(j, k)
    BY <1>2, <1>3 DEF HashesOwned, OwnerOfEach
  <1>8. \A j \in Jobs : Owns(j)' /\ Req[j].hash # NoHash => Req[j].hash \in activeHashes'
    BY <1>1, <1>6, <1>7 DEF HashesOwned, OwnerOfEach, SamePayload
  <1>9. \A hash \in activeHashes' : \E j \in Jobs : Owns(j)' /\ Req[j].hash = hash
    BY <1>1, <1>6 DEF HashesOwned, OwnerOfEach
  <1>10. \A i, j \in Jobs : Owns(i)' /\ Owns(j)' /\ SamePayload(i, j) => i = j
    BY <1>6 DEF HashesOwned, OwnerOfEach
  <1> QED BY <1>8, <1>9, <1>10 DEF HashesOwned, OwnerOfEach, SamePayload

\* The tombstone hands the hash over from the record to the execution.
LEMMA OwnersDelete ==
    ASSUME ~IoErrors, UniqueIds, IInv, CallsStored, HashesOwned,
           NEW w \in Workers, Delete(w)
    PROVE  HashesOwned'
  <1> USE DEF IInv
  <1> DEFINE k == worker[w].task.job
  <1>1. /\ worker[w].pc = "finish" /\ activeHashes' = activeHashes
        /\ store' = [store EXCEPT ![Work(w)] = NoTask]
        /\ worker' = [worker EXCEPT ![w].pc = "unhash"]
    BY DEF Delete, DeleteTask, Work, Move
  <1>2. Busy(w) /\ k \in Jobs /\ Work(w) = Req[k].id /\ Work(w) \in Ids
    BY <1>1, WorkFields DEF Busy
  <1>3. worker'[w].pc = "unhash" /\ worker'[w].task.job = k
    <2>1. worker[w] \in [pc: {"spawned", "running"} \cup Finishing, task: Task]
      BY <1>2 DEF Busy, TypeOK, WorkerState
    <2>2. worker'[w] = [worker[w] EXCEPT !.pc = "unhash"] BY <1>1 DEF TypeOK
    <2> QED BY <2>1, <2>2
  <1>4. \A v \in Workers \ {w} : worker'[v] = worker[v] BY <1>1 DEF TypeOK
  <1>5. \A j \in Jobs : Owns(j)' <=> Owns(j)
    <2> SUFFICES ASSUME NEW j \in Jobs PROVE Owns(j)' <=> Owns(j) OBVIOUS
    <2>1. CASE j = k
      <3>1. store[Req[k].id] # NoTask BY <1>1, <1>2 DEF CallsStored
      <3> QED BY <1>3, <2>1, <3>1 DEF Owns
    <2>2. CASE j # k
      <3>1. Req[j].id # Req[k].id /\ Req[j].id \in Ids
        BY <1>2, <2>2, RequestFields DEF UniqueIds
      <3>2. store'[Req[j].id] = store[Req[j].id] BY <1>1, <1>2, <3>1 DEF TypeOK
      <3>3. \A v \in Workers :
               (worker'[v].pc = "unhash" /\ worker'[v].task.job = j)
                  <=> (worker[v].pc = "unhash" /\ worker[v].task.job = j)
        BY <1>1, <1>3, <1>4, <2>2
      <3> QED BY <3>2, <3>3 DEF Owns
    <2> QED BY <2>1, <2>2
  <1> QED BY <1>1, <1>5, OwnersFrame

\* Recovery reads only hashes of records.
LEMMA OwnersRead ==
    ASSUME IInv, Restart
    PROVE  OwnerOfEach'
  <1> USE DEF IInv
  <1>1. store' = store /\ activeHashes' = LiveHashes(store) BY DEF Restart
  <1> SUFFICES ASSUME NEW hash \in LiveHashes(store)
               PROVE  \E j \in Jobs : store[Req[j].id] # NoTask /\ Req[j].hash = hash
    BY <1>1 DEF OwnerOfEach, Owns
  <1>2. PICK id \in Ids : store[id] # NoTask /\ HashOf(store[id]) = hash
    BY DEF LiveHashes
  <1>3. store[id] \in Task BY <1>2 DEF TypeOK
  <1>4. store[id].job \in Jobs BY <1>3, TaskFields
  <1>5. Req[store[id].job].id = id BY <1>2 DEF Keyed, IdOf
  <1> QED BY <1>2, <1>4, <1>5 DEF HashOf

\* Recovery reads the hashes of the live records back.
LEMMA OwnersRestart ==
    ASSUME UniqueIds, IInv, HashesOwned, Restart
    PROVE  HashesOwned'
  <1> USE DEF IInv
  <1>1. store' = store /\ activeHashes' = LiveHashes(store)
        /\ \A w \in Workers : worker'[w].pc = "idle"
    BY DEF Restart, Idle
  <1>2. \A j \in Jobs : Owns(j)' <=> store[Req[j].id] # NoTask
    BY <1>1 DEF Owns
  <1>3. \A j \in Jobs : Owns(j)' => Owns(j) BY <1>2 DEF Owns
  <1>4. \A j \in Jobs : Owns(j)' /\ Req[j].hash # NoHash => Req[j].hash \in activeHashes'
    <2> SUFFICES ASSUME NEW j \in Jobs, store[Req[j].id] # NoTask, Req[j].hash # NoHash
                 PROVE  Req[j].hash \in LiveHashes(store)
      BY <1>1, <1>2
    <2>1. HashOf(store[Req[j].id]) = Req[j].hash BY OneJob DEF HashOf
    <2>2. Req[j].id \in Ids BY RequestFields
    <2> QED BY <2>1, <2>2 DEF LiveHashes
  <1>5. OwnerOfEach' BY OwnersRead
  <1>6. \A i, j \in Jobs : Owns(i)' /\ Owns(j)' /\ SamePayload(i, j) => i = j
    BY <1>3 DEF HashesOwned, OwnerOfEach
  <1> QED BY <1>4, <1>5, <1>6 DEF HashesOwned, OwnerOfEach, SamePayload

\* No other step changes an owner.
LEMMA OwnersStep ==
    ASSUME ~IoErrors, NoLimits, UniqueIds, IInv, CopiesAccepted, CallsStored,
           HashesOwned, Next
    PROVE  HashesOwned'
  <1> USE DEF IInv
  <1>1. CASE \/ \E j \in Jobs : Enqueue(j)
             \/ Restart
             \/ \E w \in Workers : Unhash(w) \/ Delete(w)
    BY <1>1, OwnersEnqueue, OwnersRestart, OwnersUnhash, OwnersDelete
  <1>2. CASE /\ ~\E j \in Jobs : Enqueue(j)
             /\ ~Restart
             /\ ~\E w \in Workers : Unhash(w) \/ Delete(w)
    <2>1. \A id \in Ids : store'[id] = NoTask <=> store[id] = NoTask
      BY <1>2, StoreChanges
    <2>2. activeHashes' = activeHashes
      BY <1>2
      DEF Next, RegisterHandler, BecomesDue, EvictExpiredCompleted, Pause,
          ReadTasks, PushDueTasks, StartDispatcher, StartUpTo, DispatcherStep, Pop, PopNone,
          Exit, Deny, Admit, DispatcherFrame, WorkerStep, SkipCompleted, Begin,
          NoHandler, Succeed, Retry, GiveUp
    <2>3. \A w \in Workers : \/ worker'[w] = worker[w]
                             \/ worker[w].pc # "unhash" /\ worker'[w].pc # "unhash"
      <3>1. CASE \/ \E type \in Types : RegisterHandler(type)
                 \/ \E id \in Ids : BecomesDue(id) \/ EvictExpiredCompleted(id)
                 \/ Pause \/ ReadTasks \/ PushDueTasks
                 \/ \E p \in Pools : StartDispatcher(p)
                 \/ \E d \in Dispatchers : Pop(d) \/ PopNone(d) \/ Exit(d) \/ Deny(d)
        BY <3>1
        DEF RegisterHandler, BecomesDue, EvictExpiredCompleted, Pause, ReadTasks,
            PushDueTasks, StartDispatcher, StartUpTo, Pop, PopNone, Exit, Deny, engine
      <3>2. ASSUME NEW d \in Dispatchers, Admit(d), NEW w \in Workers
            PROVE  \/ worker'[w] = worker[w]
                   \/ worker[w].pc # "unhash" /\ worker'[w].pc # "unhash"
        BY <3>2 DEF Admit, Idle, TypeOK
      <3>3. ASSUME NEW v \in Workers, WorkerStep(v), NEW w \in Workers
            PROVE  \/ worker'[w] = worker[w]
                   \/ worker[w].pc # "unhash" /\ worker'[w].pc # "unhash"
        <4>1. CASE w # v BY <3>3, <4>1, WorkerMoves
        <4>2. worker[v] \in [pc: {"spawned", "running"} \cup Finishing, task: Task]
          BY <3>3, WorkerMoves DEF Busy, TypeOK, WorkerState
        <4>3. worker[v].pc # "unhash"
          BY <1>2, <3>3 DEF WorkerStep, SkipCompleted, Begin, NoHandler, Succeed,
             Retry, GiveUp
        <4>4. \/ worker' = [worker EXCEPT ![v] = Idle]
              \/ \E pc \in {"running", "finish"} : worker' = [worker EXCEPT ![v].pc = pc]
          BY <1>2, <3>3 DEF WorkerStep, SkipCompleted, Begin, NoHandler, Succeed,
             Retry, GiveUp, Return, Move
        <4>5. CASE worker' = [worker EXCEPT ![v] = Idle]
          <5>1. worker'[v].pc # "unhash" BY <4>5 DEF Idle, TypeOK
          <5> QED BY <4>1, <4>3, <5>1
        <4>6. ASSUME NEW pc \in {"running", "finish"}, worker' = [worker EXCEPT ![v].pc = pc]
              PROVE  worker'[v].pc # "unhash"
          <5>1. worker'[v] = [worker[v] EXCEPT !.pc = pc] BY <4>6 DEF TypeOK
          <5>2. worker'[v].pc = pc BY <4>2, <5>1
          <5> QED BY <5>2
        <4> QED BY <4>1, <4>3, <4>4, <4>5, <4>6
      <3> QED BY <1>2, <3>1, <3>2, <3>3 DEF Next, DispatcherStep
    <2>4. \A j \in Jobs : Owns(j)' <=> Owns(j)
      <3>1. \A j \in Jobs : Req[j].id \in Ids BY RequestFields
      <3> QED BY <2>1, <2>3, <3>1 DEF Owns
    <2> QED BY <2>2, <2>4, OwnersFrame
  <1> QED BY <1>1, <1>2

LEMMA DedupeInvCorrect ==
    ASSUME ~IoErrors, ~Expiry, NoLimits, UniqueIds
    PROVE  Spec => []DedupeInv
  <1> USE DEF DedupeInv
  <1>1. Init => DedupeInv
    <2> SUFFICES ASSUME Init PROVE DedupeInv OBVIOUS
    <2>1. IInv BY IInvInit
    <2>2. \A t : ~(t # NoTask /\ CopyIn(t))
      BY DEF Init, EngineInit, CopyIn, NoTasks, Off, Idle
    <2>3. CopiesAccepted /\ Fresh
      BY <2>2, CopyCases DEF Init, CopiesAccepted, Fresh
    <2>4. CallsStored BY DEF Init, EngineInit, CallsStored, Idle
    <2>5. \A j \in Jobs : ~Owns(j)
      BY RequestFields DEF Init, EngineInit, Owns, NoTasks, Idle
    <2>6. HashesOwned BY <2>5 DEF Init, HashesOwned, OwnerOfEach
    <2> QED BY <2>1, <2>3, <2>4, <2>6
  <1>2. DedupeInv /\ [Next]_vars => DedupeInv'
    <2> SUFFICES ASSUME DedupeInv, [Next]_vars PROVE DedupeInv' OBVIOUS
    <2>1. IInv' BY IInvStep
    <2>2. CASE Next
      BY <2>1, <2>2, CopiesAcceptedStep, FreshStep, CallsStoredStep, OwnersStep DEF IInv
    <2>3. CASE UNCHANGED vars
      <3>1. \A t \in Copies' : t \in Copies
        BY <2>3, CopyCasesNext, CopyCases DEF CopyIn, vars, engine
      <3>2. CopiesAccepted' /\ Fresh'
        BY <2>3, <3>1 DEF CopiesAccepted, Fresh, vars, engine, history
      <3>3. CallsStored' BY <2>3 DEF CallsStored, Work, vars, engine
      <3>4. \A j \in Jobs : Owns(j)' <=> Owns(j) BY <2>3 DEF Owns, vars, engine
      <3>5. HashesOwned' BY <2>3, <3>4, OwnersFrame DEF vars
      <3> QED BY <2>1, <3>2, <3>3, <3>5
    <2> QED BY <2>2, <2>3
  <1> QED BY <1>1, <1>2, PTL DEF Spec

-----------------------------------------------------------------------------
(* Deduplication.                                                          *)

\* While an accepted job is pending its payload hash stays active, through
\* retries, stale copies and restarts: no second job with that payload is let
\* in.
THEOREM HashHeldWhilePendingCorrect ==
    ASSUME ~IoErrors, ~Expiry, NoLimits, UniqueIds
    PROVE  Spec => []HashHeldWhilePending
  <1>1. DedupeInv /\ VerdictInv => HashHeldWhilePending
    <2> SUFFICES ASSUME DedupeInv, VerdictInv, NEW j \in accepted \ finished,
                        Req[j].hash # NoHash
                 PROVE  Req[j].hash \in activeHashes
      BY DEF HashHeldWhilePending
    <2>1. j \in Jobs BY DEF VerdictInv, TypeOK
    <2>2. store[Req[j].id] # NoTask BY DEF VerdictInv, NeverLost
    <2> QED BY <2>1, <2>2 DEF DedupeInv, HashesOwned, Owns
  <1> QED BY <1>1, DedupeInvCorrect, VerdictInvCorrect, PTL

\* A step releases a hash only by Unhash; before it, the record it empties is
\* handed to the execution that will.
LEMMA OwnersRemain ==
    ASSUME UniqueIds, IInv, Next, ~Restart, ~\E w \in Workers : Unhash(w),
           NEW j \in Jobs, Owns(j)
    PROVE  Owns(j)'
  <1> USE DEF IInv
  <1>1. Req[j].id \in Ids BY RequestFields
  <1>2. CASE store[Req[j].id] # NoTask
    <2> DEFINE Remains == store'[Req[j].id] # NoTask
    <2>1. ASSUME NEW k \in Jobs, Enqueue(k) PROVE Remains
      BY <1>1, <1>2, <2>1, RequestFields, Sentinels DEF Enqueue, TypeOK
    <2>2. ASSUME NEW id \in Ids, BecomesDue(id) PROVE Remains
      <3>1. store[id] \in Task BY <2>2 DEF BecomesDue, TypeOK
      <3>2. [store[id] EXCEPT !.due = TRUE] \in Task BY <3>1 DEF Task
      <3> QED BY <1>1, <1>2, <2>2, <3>2, Sentinels DEF BecomesDue, TypeOK
    <2>3. ASSUME NEW d \in Dispatchers, Deny(d) PROVE Remains
      <3>1. [dispatcher[d].task EXCEPT !.due = FALSE] \in Task
        BY <2>3, Hands DEF Deny, Task
      <3> QED BY <1>1, <1>2, <2>3, <3>1, SaveKeeps DEF Deny
    <2>4. ASSUME NEW w \in Workers, Succeed(w) \/ Retry(w) PROVE Remains
      <3> DEFINE t == worker[w].task
      <3>1. worker[w].pc # "idle" /\ t \in Task
        BY <2>4, WorkerHelpers DEF Succeed, Retry
      <3>2. t.retry + 1 \in Nat BY <3>1, TaskFields
      <3>3. \A n \in Nat : [t EXCEPT !.retry = n, !.due = FALSE] \in Task
        BY <3>1, WorkerHelpers
      <3>4. /\ [t EXCEPT !.retry = 0, !.due = FALSE] \in Task
            /\ [t EXCEPT !.retry = @ + 1, !.due = FALSE] \in Task
        BY <3>2, <3>3, Zenon
      <3> QED BY <1>1, <1>2, <2>4, <3>4, SaveKeeps DEF Succeed, Retry, SaveRetry
    <2>5. ASSUME NEW w \in Workers, Delete(w) PROVE Owns(j)'
      <3> DEFINE k == worker[w].task.job
      <3>1. Busy(w) /\ k \in Jobs /\ Work(w) = Req[k].id
        BY <2>5, WorkFields DEF Busy, Delete
      <3>2. CASE j = k
        <4>1. worker[w] \in [pc: {"spawned", "running"} \cup Finishing, task: Task]
          BY <3>1 DEF Busy, TypeOK, WorkerState
        <4>2. worker'[w] = [worker[w] EXCEPT !.pc = "unhash"]
          BY <2>5 DEF Delete, Move, TypeOK
        <4>3. worker'[w].pc = "unhash" /\ worker'[w].task.job = k BY <4>1, <4>2
        <4> QED BY <3>2, <4>3 DEF Owns
      <3>3. CASE j # k
        <4>1. Req[j].id # Work(w) BY <3>1, <3>3 DEF UniqueIds
        <4>2. Remains BY <1>1, <1>2, <2>5, <4>1 DEF Delete, DeleteTask, Work, TypeOK
        <4> QED BY <4>2 DEF Owns
      <3> QED BY <3>2, <3>3
    <2>6. CASE \/ \E type \in Types : RegisterHandler(type)
               \/ \E id \in Ids : EvictExpiredCompleted(id)
               \/ Pause \/ ReadTasks \/ PushDueTasks
               \/ \E p \in Pools : StartDispatcher(p)
               \/ \E d \in Dispatchers : Pop(d) \/ PopNone(d) \/ Exit(d) \/ Admit(d)
               \/ \E w \in Workers : SkipCompleted(w) \/ Begin(w) \/ NoHandler(w)
                                        \/ GiveUp(w)
      <3>1. store' = store
        BY <2>6 DEF RegisterHandler, EvictExpiredCompleted, Pause, ReadTasks,
           PushDueTasks, StartDispatcher, StartUpTo, Pop, PopNone, Exit, Admit,
           SkipCompleted, Begin, NoHandler, GiveUp
      <3> QED BY <1>2, <3>1 DEF Owns
    <2>7. Remains => Owns(j)' BY DEF Owns
    <2> QED BY <2>1, <2>2, <2>3, <2>4, <2>5, <2>6, <2>7
        DEF Next, DispatcherStep, WorkerStep
  <1>3. ASSUME NEW w \in Workers, worker[w].pc = "unhash", worker[w].task.job = j
        PROVE  Owns(j)'
    <2>1. worker'[w] = worker[w]
      <3>1. CASE \/ \E k \in Jobs : Enqueue(k)
                 \/ \E type \in Types : RegisterHandler(type)
                 \/ \E id \in Ids : BecomesDue(id) \/ EvictExpiredCompleted(id)
                 \/ Pause \/ ReadTasks \/ PushDueTasks
                 \/ \E p \in Pools : StartDispatcher(p)
                 \/ \E d \in Dispatchers : Pop(d) \/ PopNone(d) \/ Exit(d) \/ Deny(d)
        BY <3>1
        DEF Enqueue, RegisterHandler, BecomesDue, EvictExpiredCompleted, Pause,
            ReadTasks, PushDueTasks, StartDispatcher, StartUpTo, Pop, PopNone, Exit,
            Deny, engine
      <3>2. ASSUME NEW d \in Dispatchers, Admit(d) PROVE worker'[w] = worker[w]
        BY <1>3, <3>2 DEF Admit, Idle, TypeOK
      <3>3. ASSUME NEW v \in Workers, WorkerStep(v) PROVE worker'[w] = worker[w]
        <4>1. worker[v].pc # "unhash"
          BY <3>3 DEF WorkerStep, SkipCompleted, Begin, NoHandler, Succeed, Retry,
             GiveUp, Delete
        <4> QED BY <1>3, <3>3, <4>1, WorkerMoves
      <3> QED BY <3>1, <3>2, <3>3 DEF Next, DispatcherStep
    <2> QED BY <1>3, <2>1 DEF Owns
  <1> QED BY <1>2, <1>3 DEF Owns

\* A hash becomes active with a stored job, and inactive with its release.
LEMMA OwnerOfEachStep ==
    ASSUME ~IoErrors, UniqueIds, IInv, OwnerOfEach, Next
    PROVE  OwnerOfEach'
  <1> USE DEF IInv
  <1>1. CASE Restart BY <1>1, OwnersRead
  <1>2. ASSUME NEW w \in Workers, Unhash(w) PROVE OwnerOfEach'
    <2> DEFINE k == worker[w].task.job
    <2>1. /\ store' = store
          /\ worker' = [worker EXCEPT ![w] = Idle]
          /\ activeHashes' = activeHashes \ {Req[k].hash}
      BY <1>2 DEF Unhash, Return, HashOf
    <2>2. \A v \in Workers \ {w} : worker'[v] = worker[v] BY <2>1 DEF TypeOK
    <2>3. \A j \in Jobs : Owns(j) /\ j # k => Owns(j)' BY <2>1, <2>2 DEF Owns
    <2> QED BY <2>1, <2>3 DEF OwnerOfEach
  <1>3. CASE ~Restart /\ ~\E w \in Workers : Unhash(w)
    <2>1. \A j \in Jobs : Owns(j) => Owns(j)' BY <1>3, OwnersRemain
    <2>2. CASE \E k \in Jobs : Enqueue(k)
      <3>1. PICK k \in Jobs : Enqueue(k) BY <2>2
      <3>2. \/ activeHashes' = activeHashes
            \/ /\ activeHashes' = activeHashes \cup ({Req[k].hash} \ {NoHash})
               /\ store'[Req[k].id] # NoTask
        BY <3>1, RequestFields, Sentinels DEF Enqueue, TypeOK
      <3> QED BY <2>1, <3>2 DEF OwnerOfEach, Owns
    <2>3. CASE ~\E k \in Jobs : Enqueue(k)
      <3>1. activeHashes' = activeHashes
        BY <1>3, <2>3
        DEF Next, RegisterHandler, BecomesDue, EvictExpiredCompleted, Pause,
            ReadTasks, PushDueTasks, StartDispatcher, StartUpTo, DispatcherStep, Pop,
            PopNone,
            Exit, Deny, Admit, DispatcherFrame, WorkerStep, SkipCompleted, Begin,
            NoHandler, Succeed, Retry, GiveUp, Delete
      <3> QED BY <2>1, <3>1 DEF OwnerOfEach
    <2> QED BY <2>2, <2>3
  <1> QED BY <1>1, <1>2, <1>3

\* A payload hash is active only while a task with that payload is stored or
\* on its way out: no payload is locked out for good.  This needs less than
\* the other direction: evictions and rate limits may bring a task back, and
\* that does not leave a hash behind.
THEOREM HashOnlyWhilePendingCorrect ==
    ASSUME ~IoErrors, UniqueIds
    PROVE  Spec => []HashOnlyWhilePending
  <1>1. Init => IInv /\ OwnerOfEach
    BY IInvInit DEF Init, OwnerOfEach
  <1>2. IInv /\ OwnerOfEach /\ [Next]_vars => (IInv /\ OwnerOfEach)'
    <2> SUFFICES ASSUME IInv, OwnerOfEach, [Next]_vars PROVE IInv' /\ OwnerOfEach'
      OBVIOUS
    <2>1. CASE UNCHANGED vars
      <3>1. \A j \in Jobs : Owns(j)' <=> Owns(j) BY <2>1 DEF Owns, vars, engine
      <3> QED BY <2>1, <3>1, IInvStep DEF OwnerOfEach, vars
    <2> QED BY <2>1, IInvStep, OwnerOfEachStep
  <1>3. IInv /\ OwnerOfEach => HashOnlyWhilePending
    <2> SUFFICES ASSUME IInv, OwnerOfEach, NEW hash \in activeHashes
                 PROVE  \/ \E id \in Ids : store[id] # NoTask /\ HashOf(store[id]) = hash
                        \/ \E w \in Workers :
                              worker[w].pc # "idle" /\ HashOf(worker[w].task) = hash
      BY DEF HashOnlyWhilePending
    <2>1. PICK j \in Jobs : Owns(j) /\ Req[j].hash = hash BY DEF OwnerOfEach
    <2>2. CASE store[Req[j].id] # NoTask
      <3>1. store[Req[j].id].job = j BY <2>2, OneJob DEF IInv
      <3> QED BY <2>1, <2>2, <3>1, RequestFields DEF HashOf
    <2>3. ASSUME NEW w \in Workers, worker[w].pc = "unhash", worker[w].task.job = j
          PROVE  worker[w].pc # "idle" /\ HashOf(worker[w].task) = hash
      BY <2>1, <2>3 DEF HashOf
    <2> QED BY <2>1, <2>2, <2>3 DEF Owns
  <1> QED BY <1>1, <1>2, <1>3, PTL DEF Spec

-----------------------------------------------------------------------------
(* The contract.  Where(j) is Phase(j) without the case of two calls at    *)
(* one time, which the invariant excludes.                                 *)

Called(j) == \E w \in Workers : At(w, "running", j)
Settling(j) == \E w \in Workers : At(w, "finish", j)

Where(j) ==
    IF Called(j) THEN "running"
    ELSE IF Settling(j) THEN "settled"
    ELSE IF Stored(j) THEN "waiting"
    ELSE IF j \in accepted THEN "closed" ELSE "new"

LEMMA PhaseIs == IInv => \A j \in Jobs : Phase(j) = Where(j)
  <1> SUFFICES ASSUME IInv, NEW j \in Jobs PROVE Phase(j) = Where(j) OBVIOUS
  <1>1. \A v, w \in Workers : At(v, "running", j) /\ At(w, "running", j) => v = w
    BY DEF At, IInv, ExecutionsOK, Busy, Work, IdOf
  <1>2. CASE Called(j)
    <2>1. \E w \in Workers : At(w, "running", j) BY <1>2 DEF Called
    <2>2. ~\A w \in Workers : ~At(w, "running", j) BY <2>1
    <2>3. ~\E v, w \in Workers : v # w /\ At(v, "running", j) /\ At(w, "running", j)
      BY <1>1
    <2> QED BY <1>2, <2>1, <2>2, <2>3, Zenon DEF Phase, Where
  <1>3. CASE ~Called(j)
    <2>1. ~\E w \in Workers : At(w, "running", j) BY <1>3 DEF Called
    <2>2. \A w \in Workers : ~At(w, "running", j) BY <2>1
    <2> QED BY <1>3, <2>1, <2>2, Zenon DEF Phase, Where, Settling
  <1> QED BY <1>2, <1>3

LEMMA PhaseIsNext == IInv' => \A j \in Jobs : Phase(j)' = Where(j)'
  <1>1. (IInv => \A j \in Jobs : Phase(j) = Where(j))' BY PhaseIs, PTL
  <1> QED BY <1>1

LEMMA ContractInit == Init => Contract!Init
  <1> SUFFICES ASSUME Init PROVE Contract!Init OBVIOUS
  <1>1. \A j \in Jobs : ~Called(j) /\ ~Settling(j)
    BY DEF Init, EngineInit, Called, Settling, At, Idle
  <1>2. \A j \in Jobs : ~Stored(j) /\ j \notin accepted
    BY RequestFields DEF Init, Stored, NoTasks
  <1>3. \A j \in Jobs : Phase(j) = "new"
    BY <1>1, <1>2, PhaseIs, IInvInit DEF Where
  <1>4. failures = [j \in Jobs |-> 0] BY DEF Init
  <1> QED BY <1>3, <1>4 DEF Contract!Init

\* What the invariant says of a job in terms of the contract.
LEMMA PhaseFacts ==
    ASSUME UniqueIds, IInv, CopiesAccepted, CallsStored, NEW j \in Jobs
    PROVE  /\ Stored(j) <=> store[Req[j].id] # NoTask
           /\ Called(j) \/ Settling(j) => Stored(j)
           /\ ~(Called(j) /\ Settling(j))
           /\ Stored(j) => Owns(j) /\ j \in accepted
           /\ \A w \in Workers : Busy(w) /\ worker[w].task.job = j => j \in accepted
  <1> USE DEF IInv
  <1>1. Stored(j) <=> store[Req[j].id] # NoTask BY OneJob DEF Stored
  <1>2. ASSUME NEW w \in Workers, At(w, "running", j) \/ At(w, "finish", j)
        PROVE  store[Req[j].id] # NoTask
    <2>1. Work(w) = Req[j].id BY <1>2 DEF At, Work, IdOf
    <2> QED BY <1>2, <2>1 DEF At, CallsStored
  <1>3. ASSUME NEW v \in Workers, NEW w \in Workers, At(v, "running", j), At(w, "finish", j)
        PROVE  FALSE
    <2>1. Busy(v) /\ Busy(w) /\ Work(v) = Work(w) BY <1>3 DEF At, Busy, Work, IdOf
    <2>2. v = w BY <2>1 DEF ExecutionsOK
    <2> QED BY <1>3, <2>2 DEF At
  <1>4. ASSUME NEW w \in Workers, Busy(w), worker[w].task.job = j PROVE j \in accepted
    BY <1>4, WorkFields DEF CopiesAccepted
  <1>5. Stored(j) => Owns(j) /\ j \in accepted
    BY <1>1, OwnersAccepted DEF Owns
  <1> QED BY <1>1, <1>2, <1>3, <1>4, <1>5 DEF Called, Settling

LEMMA StoredNext ==
    ASSUME UniqueIds, IInv', NEW j \in Jobs
    PROVE  Stored(j)' <=> store'[Req[j].id] # NoTask
  <1> USE DEF IInv
  <1> SUFFICES ASSUME store'[Req[j].id] # NoTask PROVE store'[Req[j].id].job = j
    BY DEF Stored
  <1>1. Req[j].id \in Ids BY RequestFields
  <1>2. store'[Req[j].id] \in Task BY <1>1 DEF TypeOK
  <1>3. store'[Req[j].id].job \in Jobs BY <1>2, TaskFields
  <1>4. Req[store'[Req[j].id].job].id = Req[j].id BY <1>1 DEF Keyed, IdOf
  <1> QED BY <1>3, <1>4 DEF UniqueIds

\* Nothing happens to the contract.
LEMMA PhaseStutter ==
    ASSUME IInv, IInv', failures' = failures,
           \A j \in Jobs : Where(j)' = Where(j)
    PROVE  UNCHANGED <<[j \in Jobs |-> Phase(j)], failures>>
    BY PhaseIs, PhaseIsNext

\* One job goes from one phase to the next.
LEMMA PhaseMove ==
    ASSUME IInv, IInv', NEW k \in Jobs, NEW from, NEW to,
           Where(k) = from, Where(k)' = to,
           \A j \in Jobs \ {k} : Where(j)' = Where(j)
    PROVE  Contract!Move(k, from, to)
  <1>1. \A j \in Jobs : Phase(j) = Where(j) /\ Phase(j)' = Where(j)'
    BY PhaseIs, PhaseIsNext
  <1>2. Phase(k) = from /\ Phase(k)' = to /\ \A j \in Jobs \ {k} : Phase(j)' = Phase(j)
    BY <1>1
  <1>3. [j \in Jobs |-> Phase(j)'] = [[j \in Jobs |-> Phase(j)] EXCEPT ![k] = to]
    BY <1>2
  <1> QED BY <1>2, <1>3 DEF Contract!Move

\* A step of an execution concerns its job alone.
LEMMA OtherJobs ==
    ASSUME TypeOK, NEW w \in Workers, WorkerStep(w), NEW j \in Jobs,
           j # worker[w].task.job
    PROVE  (Called(j)' <=> Called(j)) /\ (Settling(j)' <=> Settling(j))
  <1>1. \A v \in Workers \ {w} : \A pc : At(v, pc, j)' <=> At(v, pc, j)
    BY WorkerMoves DEF At
  <1>2. ~At(w, "running", j) /\ ~At(w, "finish", j) BY DEF At
  <1>3. ~At(w, "running", j)' /\ ~At(w, "finish", j)'
    BY WorkerMoves DEF At, Idle
  <1> QED BY <1>1, <1>2, <1>3 DEF Called, Settling

\* An execution's job is with no other execution.
LEMMA OwnJob ==
    ASSUME IInv, NEW w \in Workers, WorkerStep(w), NEW j, j = worker[w].task.job
    PROVE  /\ Called(j) <=> worker[w].pc = "running"
           /\ Settling(j) <=> worker[w].pc = "finish"
           /\ Called(j)' <=> worker'[w].pc = "running"
           /\ Settling(j)' <=> worker'[w].pc = "finish"
  <1> USE DEF IInv
  <1>1. /\ Busy(w)
        /\ \A v \in Workers \ {w} : worker'[v] = worker[v]
        /\ worker'[w] = Idle \/ worker'[w].task = worker[w].task
    BY WorkerMoves
  <1>2. ASSUME NEW v \in Workers, NEW pc \in {"running", "finish"}, At(v, pc, j)
        PROVE  v = w
    <2>1. Busy(v) /\ Work(v) = Work(w) BY <1>2 DEF At, Busy, Work, IdOf
    <2> QED BY <1>1, <2>1 DEF ExecutionsOK
  <1>3. ASSUME NEW v \in Workers, NEW pc \in {"running", "finish"}, At(v, pc, j)'
        PROVE  v = w
    <2>1. CASE v # w
      <3>1. At(v, pc, j) BY <1>1, <1>3, <2>1 DEF At
      <3> QED BY <1>2, <3>1
    <2> QED BY <2>1
  <1>4. \A pc : At(w, pc, j) <=> worker[w].pc = pc BY DEF At
  <1>5. \A pc \in {"running", "finish"} : At(w, pc, j)' <=> worker'[w].pc = pc
    BY <1>1 DEF At, Idle
  <1> QED BY <1>2, <1>3, <1>4, <1>5 DEF Called, Settling

\* An execution empties the slot of the job it deletes and of no other.
LEMMA WorkerStored ==
    ASSUME ~IoErrors, NoLimits, UniqueIds, IInv, IInv', CallsStored,
           NEW w \in Workers, WorkerStep(w), NEW j \in Jobs
    PROVE  /\ accepted' = accepted
           /\ IF Delete(w) /\ worker[w].task.job = j THEN ~Stored(j)'
              ELSE Stored(j)' <=> Stored(j)
  <1> USE DEF IInv
  <1>1. accepted' = accepted /\ sent' = sent
    BY DEF WorkerStep, SkipCompleted, Begin, NoHandler, Succeed, Retry, GiveUp,
           Delete, Unhash, ExecutionFrame
  <1>2. Stored(j) <=> store[Req[j].id] # NoTask BY OneJob DEF Stored
  <1>3. Stored(j)' <=> store'[Req[j].id] # NoTask BY StoredNext
  <1>4. Req[j].id \in Ids BY RequestFields
  <1>5. ~\E i \in Jobs : Enqueue(i) BY <1>1 DEF Enqueue
  <1>6. \A v \in Workers : Delete(v) => v = w
    <2> SUFFICES ASSUME NEW v \in Workers, Delete(v), v # w PROVE FALSE OBVIOUS
    <2>1. worker'[v] = worker[v] BY WorkerMoves
    <2>2. worker[v] \in [pc: {"spawned", "running"} \cup Finishing, task: Task]
      BY DEF Delete, TypeOK, WorkerState
    <2>3. worker'[v] = [worker[v] EXCEPT !.pc = "unhash"] BY DEF Delete, Move, TypeOK
    <2>4. worker'[v].pc = "unhash" /\ worker[v].pc = "finish" BY <2>2, <2>3 DEF Delete
    <2> QED BY <2>1, <2>4
  <1>7. Delete(w) => (Work(w) = Req[j].id <=> worker[w].task.job = j)
    <2> SUFFICES ASSUME Delete(w) PROVE Work(w) = Req[j].id <=> worker[w].task.job = j
      OBVIOUS
    <2>1. Work(w) = Req[worker[w].task.job].id /\ worker[w].task.job \in Jobs
      BY WorkFields DEF Delete, Busy
    <2> QED BY <2>1 DEF UniqueIds
  <1>8. Next BY DEF Next
  <1>9. Delete(w) => store'[Work(w)] = NoTask
    <2>1. Delete(w) => Work(w) \in Ids BY WorkFields DEF Delete, Busy
    <2> QED BY <2>1 DEF Delete, DeleteTask, Work, TypeOK
  <1>10. CASE Delete(w) /\ worker[w].task.job = j
    BY <1>1, <1>3, <1>7, <1>9, <1>10
  <1>11. CASE ~(Delete(w) /\ worker[w].task.job = j)
    <2>1. store'[Req[j].id] = NoTask <=> store[Req[j].id] = NoTask
      BY <1>4, <1>5, <1>6, <1>7, <1>8, <1>11, StoreChanges
    <2> QED BY <1>1, <1>2, <1>3, <1>11, <2>1
  <1> QED BY <1>10, <1>11

\* Every step of an execution is a step of the contract, or none of its business.
LEMMA ContractWorker ==
    ASSUME ~IoErrors, NoLimits, UniqueIds, DedupeInv, IInv', AttemptsInv,
           NEW w \in Workers, WorkerStep(w)
    PROVE  [Contract!Next]_<<[j \in Jobs |-> Phase(j)], failures>>
  <1> USE DEF DedupeInv
  <1> DEFINE t == worker[w].task
  <1>k. PICK k : k = worker[w].task.job OBVIOUS
  <1> USE <1>k
  <1>0. TypeOK /\ TypeOK' BY DEF IInv
  <1>1. Busy(w) /\ k \in Jobs /\ k \in accepted
    <2>1. Busy(w) BY <1>0, WorkerMoves
    <2> QED BY <1>0, <2>1, WorkFields, PhaseFacts
  <1>2. \A j \in Jobs \ {k} : Where(j)' = Where(j)
    <2> SUFFICES ASSUME NEW j \in Jobs \ {k} PROVE Where(j)' = Where(j) OBVIOUS
    <2>1. (Called(j)' <=> Called(j)) /\ (Settling(j)' <=> Settling(j))
      BY <1>0, OtherJobs
    <2>2. accepted' = accepted /\ (Stored(j)' <=> Stored(j)) BY WorkerStored
    <2> QED BY <2>1, <2>2 DEF Where
  <1>3. /\ Called(k) <=> worker[w].pc = "running"
        /\ Settling(k) <=> worker[w].pc = "finish"
        /\ Called(k)' <=> worker'[w].pc = "running"
        /\ Settling(k)' <=> worker'[w].pc = "finish"
    BY OwnJob
  <1>4. /\ accepted' = accepted
        /\ Delete(w) => ~Stored(k)'
        /\ ~Delete(w) => (Stored(k)' <=> Stored(k))
    BY <1>1, WorkerStored
  <1>5. worker[w].pc \in {"running", "finish"} => Stored(k)
    BY <1>1, <1>3, PhaseFacts
  <1>6. worker[w] \in [pc: {"spawned", "running"} \cup Finishing, task: Task]
    BY <1>0, <1>1 DEF Busy, TypeOK, WorkerState
  <1>7. \A pc : Move(w, pc) => worker'[w].pc = pc
    BY <1>0, <1>6 DEF Move, TypeOK
  <1>8. Return(w) => worker'[w].pc = "idle" BY <1>0 DEF Return, Idle, TypeOK
  <1>9. \A from, to : Where(k) = from /\ Where(k)' = to => Contract!Move(k, from, to)
    BY <1>1, <1>2, PhaseMove
  <1>10. failures' = failures /\ Where(k)' = Where(k)
            => UNCHANGED <<[j \in Jobs |-> Phase(j)], failures>>
    BY <1>2, PhaseStutter
  <1>11. CASE SkipCompleted(w) \/ NoHandler(w) \/ Unhash(w)
    <2>1. /\ worker[w].pc \in {"spawned", "unhash"} /\ failures' = failures
          /\ ~Delete(w)
      BY <1>11 DEF SkipCompleted, NoHandler, Unhash, Delete
    <2>2. worker'[w].pc = "idle"
      BY <1>0, <1>8, <1>11 DEF SkipCompleted, NoHandler, Unhash, Idle, TypeOK
    <2>3. Where(k)' = Where(k) BY <1>3, <1>4, <2>1, <2>2 DEF Where
    <2> QED BY <1>10, <2>1, <2>3
  <1>12. CASE Begin(w)
    <2>1. /\ worker[w].pc = "spawned" /\ worker'[w].pc = "running"
          /\ failures' = failures
      BY <1>7, <1>12 DEF Begin
    <2>2. Stored(k)
      <3>1. Work(w) \notin completedTasks BY <1>12 DEF Begin, Work
      <3>2. store[Work(w)] # NoTask
        BY <1>0, <1>1, <3>1, WorkFields DEF Fresh, Work
      <3>3. Work(w) = Req[k].id BY <1>0, <1>1, WorkFields
      <3> QED BY <1>1, <3>2, <3>3, PhaseFacts
    <2>3. Where(k) = "waiting" /\ Where(k)' = "running"
      BY <1>3, <2>1, <2>2 DEF Where
    <2>4. Contract!Begin(k) BY <1>9, <2>1, <2>3 DEF Contract!Begin
    <2> QED BY <1>1, <2>4 DEF Contract!Next
  <1>13. CASE Succeed(w) /\ Req[k].cron
    <2>1. /\ worker[w].pc = "running" /\ worker'[w].pc = "idle"
          /\ failures' = failures /\ ~Delete(w)
      BY <1>8, <1>13 DEF Succeed, Delete
    <2>2. Where(k) = "running" /\ Where(k)' = "waiting"
      BY <1>3, <1>4, <1>5, <2>1 DEF Where
    <2>3. Contract!Recur(k) BY <1>1, <1>9, <1>13, <2>1, <2>2 DEF Contract!Recur
    <2> QED BY <1>1, <2>3 DEF Contract!Next
  <1>14. CASE Succeed(w) /\ ~Req[k].cron
    <2>1. /\ worker[w].pc = "running" /\ worker'[w].pc = "finish"
          /\ failures' = failures
      BY <1>7, <1>14 DEF Succeed
    <2>2. Where(k) = "running" /\ Where(k)' = "settled" BY <1>3, <2>1 DEF Where
    <2>3. Contract!Succeed(k) BY <1>1, <1>9, <1>14, <2>1, <2>2 DEF Contract!Succeed
    <2> QED BY <1>1, <2>3 DEF Contract!Next
  <1>15. ASSUME CountFailure(k) PROVE Contract!Failed(k)
    BY <1>15 DEF CountFailure, Contract!Failed
  <1>16. CASE Retry(w)
    <2>1. /\ worker[w].pc = "running" /\ worker'[w].pc = "idle"
          /\ ~Delete(w)
      BY <1>8, <1>16 DEF Retry, Delete
    <2>2. Where(k) = "running" /\ Where(k)' = "waiting"
      BY <1>3, <1>4, <1>5, <2>1 DEF Where
    <2>3. CountFailure(k) BY <1>16 DEF Retry
    <2>4. Contract!Retry(k) BY <1>9, <1>15, <2>2, <2>3 DEF Contract!Retry
    <2> QED BY <1>1, <2>4 DEF Contract!Next
  <1>17. CASE GiveUp(w)
    <2>1. worker[w].pc = "running" /\ worker'[w].pc = "finish"
      BY <1>7, <1>17 DEF GiveUp
    <2>2. Where(k) = "running" /\ Where(k)' = "settled" BY <1>3, <2>1 DEF Where
    <2>3. CountFailure(k) BY <1>17 DEF GiveUp
    <2>4. failures[k] + 1 >= Req[k].max
      <3>1. ~(t.retry < Req[k].max - 1) BY <1>17 DEF GiveUp, MayRetry
      <3>2. t \in Task /\ t \in Copies BY <1>0, <1>1, WorkFields
      <3>3. t.retry \in Nat /\ Req[k].max \in Int BY <3>2, TaskFields
      <3>4. t.retry <= failures[k] BY <3>2 DEF AttemptsInv, RetriesCounted
      <3>5. failures[k] \in Int BY <1>0, <1>1, CapAssumption DEF TypeOK
      <3> QED BY <3>1, <3>3, <3>4, <3>5
    <2>5. Contract!GiveUp(k)
      <3>1. [j \in Jobs |-> Req[j].max][k] = Req[k].max BY <1>1
      <3> QED BY <1>9, <1>15, <2>2, <2>3, <2>4, <3>1 DEF Contract!GiveUp
    <2> QED BY <1>1, <2>5 DEF Contract!Next
  <1>18. CASE Delete(w)
    <2>1. worker[w].pc = "finish" /\ worker'[w].pc = "unhash" /\ failures' = failures
      BY <1>7, <1>18 DEF Delete
    <2>2. Where(k) = "settled" /\ Where(k)' = "closed"
      BY <1>1, <1>3, <1>4, <1>18, <2>1 DEF Where
    <2>3. Contract!Close(k) BY <1>9, <2>1, <2>2 DEF Contract!Close
    <2> QED BY <1>1, <2>3 DEF Contract!Next
  <1> QED BY <1>11, <1>12, <1>13, <1>14, <1>16, <1>17, <1>18 DEF WorkerStep

\* An accepted job waits; no other job with its payload is pending.
LEMMA ContractEnqueue ==
    ASSUME ~IoErrors, UniqueIds, DedupeInv, IInv', NEW k \in Jobs, Enqueue(k)
    PROVE  [Contract!Next]_<<[j \in Jobs |-> Phase(j)], failures>>
  <1> USE DEF DedupeInv
  <1>0. TypeOK /\ worker' = worker /\ failures' = failures
    BY DEF IInv, Enqueue, engine
  <1>1. \A j \in Jobs : (Called(j)' <=> Called(j)) /\ (Settling(j)' <=> Settling(j))
    BY <1>0 DEF Called, Settling, At
  <1>2. CASE UNCHANGED <<store, accepted>>
    <2>1. \A j \in Jobs : Stored(j)' <=> Stored(j) BY <1>2 DEF Stored
    <2>2. \A j \in Jobs : Where(j)' = Where(j) BY <1>1, <1>2, <2>1 DEF Where
    <2> QED BY <1>0, <2>2, PhaseStutter
  <1>3. CASE /\ Req[k].hash \notin activeHashes
             /\ store' = [store EXCEPT ![Req[k].id] = NewTask(k)]
             /\ accepted' = accepted \cup {k}
    <2>1. k \notin accepted BY DEF Enqueue, CopiesAccepted
    <2>2. Where(k) = "new" BY <2>1, PhaseFacts DEF Where
    <2>3. Where(k)' = "waiting"
      <3>1. store'[Req[k].id] = NewTask(k) BY <1>0, <1>3, RequestFields DEF TypeOK
      <3>2. NewTask(k) # NoTask /\ NewTask(k).job = k
        BY RequestFields, Sentinels DEF NewTask
      <3>3. Stored(k)' BY <3>1, <3>2 DEF Stored
      <3>4. ~Called(k)' /\ ~Settling(k)' BY <1>1, <2>1, PhaseFacts
      <3> QED BY <3>3, <3>4 DEF Where
    <2>4. \A j \in Jobs \ {k} : Where(j)' = Where(j)
      <3> SUFFICES ASSUME NEW j \in Jobs \ {k} PROVE Where(j)' = Where(j) OBVIOUS
      <3>1. Req[j].id # Req[k].id BY DEF UniqueIds
      <3>2. store'[Req[j].id] = store[Req[j].id]
        BY <1>0, <1>3, <3>1, RequestFields DEF TypeOK
      <3>3. Stored(j)' <=> Stored(j) BY <3>2 DEF Stored
      <3> QED BY <1>1, <1>3, <3>3 DEF Where
    <2>5. Contract!Move(k, "new", "waiting") BY <2>2, <2>3, <2>4, PhaseMove
    <2>6. \A i \in Jobs : Where(i) \in {"waiting", "running", "settled"} => Stored(i)
      BY PhaseFacts DEF Where
    <2>7. \A i \in Jobs : Stored(i) /\ Req[i].hash # NoHash => Req[i].hash \in activeHashes
      BY PhaseFacts DEF HashesOwned
    <2>8. \A i \in Jobs : Phase(i) = Where(i) BY PhaseIs
    <2>9. Contract!Accept(k)
      <3> SUFFICES Req[k].hash # NoHash =>
                      \A i \in Jobs : Req[i].hash = Req[k].hash => ~Contract!Pending(i)
        BY <1>0, <2>5 DEF Contract!Accept
      <3>1. \A i \in Jobs : Contract!Pending(i) => Stored(i)
        BY <2>6, <2>8 DEF Contract!Pending
      <3> QED BY <1>3, <2>7, <3>1
    <2> QED BY <2>9 DEF Contract!Next
  <1> QED BY <1>2, <1>3 DEF Enqueue

\* After a restart what was stored waits.
LEMMA ContractRestart ==
    ASSUME UniqueIds, DedupeInv, IInv', Restart
    PROVE  [Contract!Next]_<<[j \in Jobs |-> Phase(j)], failures>>
  <1> USE DEF DedupeInv
  <1>1. /\ store' = store /\ accepted' = accepted /\ failures' = failures
        /\ \A w \in Workers : worker'[w] = Idle
    BY DEF Restart, history
  <1>2. \A j \in Jobs : ~Called(j)' /\ ~Settling(j)'
    BY <1>1 DEF Called, Settling, At, Idle
  <1>3. \A j \in Jobs : Stored(j)' <=> Stored(j) BY <1>1 DEF Stored
  <1>4. \A j \in Jobs : Phase(j) = Where(j) /\ Phase(j)' = Where(j)'
    BY PhaseIs, PhaseIsNext
  <1>5. \A j \in Jobs : Contract!Pending(j) <=> Stored(j)
    BY <1>4, PhaseFacts DEF Where, Contract!Pending
  <1>6. \A j \in Jobs : Phase(j)' = IF Contract!Pending(j) THEN "waiting" ELSE Phase(j)
    <2> SUFFICES ASSUME NEW j \in Jobs
                 PROVE  Phase(j)' = IF Contract!Pending(j) THEN "waiting" ELSE Phase(j)
      OBVIOUS
    <2>1. CASE Stored(j) BY <1>2, <1>3, <1>4, <1>5, <2>1 DEF Where
    <2>2. CASE ~Stored(j)
      <3>1. ~Called(j) /\ ~Settling(j) BY <2>2, PhaseFacts
      <3> QED BY <1>1, <1>2, <1>3, <1>4, <1>5, <2>2, <3>1 DEF Where
    <2> QED BY <2>1, <2>2
  <1>7. Contract!Crash BY <1>1, <1>6 DEF Contract!Crash
  <1> QED BY <1>7 DEF Contract!Next

\* The scan, the queues, the dispatchers and the clock are not seen.
LEMMA ContractQuiet ==
    ASSUME ~IoErrors, NoLimits, UniqueIds, DedupeInv, IInv',
           \/ \E type \in Types : RegisterHandler(type)
           \/ \E id \in Ids : BecomesDue(id) \/ EvictExpiredCompleted(id)
           \/ Pause \/ ReadTasks \/ PushDueTasks
           \/ \E p \in Pools : StartDispatcher(p)
           \/ \E d \in Dispatchers : DispatcherStep(d)
    PROVE  UNCHANGED <<[j \in Jobs |-> Phase(j)], failures>>
  <1> USE DEF DedupeInv
  <1>0. TypeOK BY DEF IInv
  <1>1. failures' = failures /\ accepted' = accepted /\ sent' = sent
    BY DEF RegisterHandler, BecomesDue, EvictExpiredCompleted, Pause, ReadTasks,
           PushDueTasks, StartDispatcher, StartUpTo, DispatcherStep, Pop, PopNone, Exit,
           Deny, Admit, DispatcherFrame, history
  <1>2. \A w \in Workers : \/ worker'[w] = worker[w]
                           \/ worker[w].pc = "idle" /\ worker'[w].pc = "spawned"
    <2>1. ASSUME NEW d \in Dispatchers, Admit(d), NEW w \in Workers
          PROVE  \/ worker'[w] = worker[w]
                 \/ worker[w].pc = "idle" /\ worker'[w].pc = "spawned"
      BY <1>0, <2>1 DEF Admit, Idle, TypeOK
    <2>2. (\A d \in Dispatchers : ~Admit(d)) => worker' = worker
      BY DEF RegisterHandler, BecomesDue, EvictExpiredCompleted, Pause, ReadTasks,
             PushDueTasks, StartDispatcher, StartUpTo, DispatcherStep, Pop, PopNone, Exit,
             Deny, engine
    <2> QED BY <2>1, <2>2
  <1>3. \A j \in Jobs : (Called(j)' <=> Called(j)) /\ (Settling(j)' <=> Settling(j))
    BY <1>2 DEF Called, Settling, At
  <1>4. \A j \in Jobs : store'[Req[j].id] = NoTask <=> store[Req[j].id] = NoTask
    <2> SUFFICES ASSUME NEW j \in Jobs
                 PROVE  store'[Req[j].id] = NoTask <=> store[Req[j].id] = NoTask
      OBVIOUS
    <2>1. ~\E i \in Jobs : Enqueue(i) BY <1>1 DEF Enqueue
    <2>2. ~\E w \in Workers : Delete(w)
      <3> SUFFICES ASSUME NEW w \in Workers, Delete(w) PROVE FALSE OBVIOUS
      <3>1. worker[w] \in [pc: {"spawned", "running"} \cup Finishing, task: Task]
        BY <1>0 DEF Delete, TypeOK, WorkerState
      <3>2. worker'[w] = [worker[w] EXCEPT !.pc = "unhash"]
        BY <1>0 DEF Delete, Move, TypeOK
      <3>3. worker'[w].pc = "unhash" /\ worker[w].pc = "finish"
        BY <3>1, <3>2 DEF Delete
      <3> QED BY <1>2, <3>3
    <2> QED BY <2>1, <2>2, StoreChanges, RequestFields DEF Next
  <1>5. \A j \in Jobs : Stored(j)' <=> Stored(j)
    <2> SUFFICES ASSUME NEW j \in Jobs PROVE Stored(j)' <=> Stored(j) OBVIOUS
    <2>1. Stored(j) <=> store[Req[j].id] # NoTask BY PhaseFacts
    <2>2. Stored(j)' <=> store'[Req[j].id] # NoTask BY StoredNext
    <2> QED BY <1>4, <2>1, <2>2
  <1>6. \A j \in Jobs : Where(j)' = Where(j) BY <1>1, <1>3, <1>5 DEF Where
  <1> QED BY <1>1, <1>6, PhaseStutter

LEMMA ContractStep ==
    ASSUME ~IoErrors, NoLimits, UniqueIds, DedupeInv, IInv', AttemptsInv, [Next]_vars
    PROVE  [Contract!Next]_<<[j \in Jobs |-> Phase(j)], failures>>
  <1>1. CASE UNCHANGED vars
    <2>1. \A j \in Jobs : Where(j)' = Where(j)
      BY <1>1 DEF Where, Called, Settling, At, Stored, vars, engine, history
    <2>2. failures' = failures BY <1>1 DEF vars, history
    <2> QED BY <2>1, <2>2, PhaseStutter DEF DedupeInv
  <1>2. CASE Next
    <2>1. CASE \E j \in Jobs : Enqueue(j) BY <2>1, ContractEnqueue
    <2>2. CASE Restart BY <2>2, ContractRestart
    <2>3. CASE \E w \in Workers : WorkerStep(w) BY <2>3, ContractWorker
    <2>4. CASE \/ \E type \in Types : RegisterHandler(type)
               \/ \E id \in Ids : BecomesDue(id) \/ EvictExpiredCompleted(id)
               \/ Pause \/ ReadTasks \/ PushDueTasks
               \/ \E p \in Pools : StartDispatcher(p)
               \/ \E d \in Dispatchers : DispatcherStep(d)
      <3>1. UNCHANGED <<[j \in Jobs |-> Phase(j)], failures>> BY <2>4, ContractQuiet
      <3> QED BY <3>1
    <2> QED BY <1>2, <2>1, <2>2, <2>3, <2>4 DEF Next
  <1> QED BY <1>1, <1>2

\* The engine keeps the contract of JobContract: every behaviour of the engine,
\* seen through Phase and failures, is one of the contract.
THEOREM ImplementsJobContractCorrect ==
    ASSUME ~IoErrors, ~Expiry, NoLimits, UniqueIds
    PROVE  Spec => ImplementsJobContract
  <1>1. Spec => []DedupeInv BY DedupeInvCorrect
  <1>2. DedupeInv' => IInv' BY DEF DedupeInv
  <1>3. DedupeInv /\ DedupeInv' /\ AttemptsInv /\ [Next]_vars
            => [Contract!Next]_<<[j \in Jobs |-> Phase(j)], failures>>
    BY <1>2, ContractStep
  <1>4. Init => Contract!Init BY ContractInit
  <1> QED BY <1>1, <1>3, <1>4, AttemptsInvCorrect, PTL
          DEF Spec, ImplementsJobContract, Contract!Spec
=============================================================================
