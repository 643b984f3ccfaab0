-------------------------------- MODULE Sdk ---------------------------------
(***************************************************************************)
(* Executions by an SDK (the handler that Register installs, the Result    *)
(* and shutdown branches of the message loop in src/main.rs).              *)
(*                                                                         *)
(* An execution puts the sender of a channel into pending_executions under *)
(* its task id, writes an Execute line and waits, at most for the task's   *)
(* max_execution_seconds.  A Result line names the task id only: whatever  *)
(* sender is pending under it gets the result.                             *)
(*                                                                         *)
(* The engine around it is reduced to: a task that failed is executed      *)
(* again until its attempts are used up, one execution at a time.          *)
(***************************************************************************)
EXTENDS Naturals, Sequences, FiniteSets

CONSTANTS
    Ids,
    Timed,        \* the ids of tasks with max_execution_seconds
    Attempts,     \* max_retries
    NoResult,
    Signals       \* whether the daemon gets SIGTERM

ASSUME AttemptAssumption == Attempts \in Nat \ {0}
ASSUME TimedAssumption == Timed \subseteq Ids
ASSUME SignalAssumption == Signals \in BOOLEAN

VARIABLES
    execution,  \* each task: its attempt and where it is
    pending,    \* pending_executions: the attempt whose sender is stored, 0 if none
    channel,    \* the result sent to the waiting execution and not received yet
    jobs,       \* executions the SDK has been asked for and not answered
    stdin,      \* Result lines on the way to the daemon
    stop,       \* where shutdown is
    strays      \* history: tasks settled by the answer to an earlier execution

vars == <<execution, pending, channel, jobs, stdin, stop, strays>>

Job(id, attempt) == [id |-> id, attempt |-> attempt]
Result(job, ok) == [job |-> job, ok |-> ok]

AtPc(id, pc) == execution[id].pc = pc
Executing(id) == execution[id].pc \in {"stored", "waiting", "expired"}
Running == stop \in {"no", "draining"}

Init ==
    /\ execution = [id \in Ids |-> [pc |-> "due", attempt |-> 1]]
    /\ pending = [id \in Ids |-> 0]
    /\ channel = [id \in Ids |-> NoResult]
    /\ jobs = {}
    /\ stdin = <<>>
    /\ stop = "no"
    /\ strays = {}

Move(id, pc) == execution' = [execution EXCEPT ![id].pc = pc]

\* The handler stores its sender, replacing what is stored under the id.
Store(id) ==
    /\ Running
    /\ AtPc(id, "due")
    /\ Move(id, "stored")
    /\ pending' = [pending EXCEPT ![id] = execution[id].attempt]
    /\ channel' = [channel EXCEPT ![id] = NoResult]
    /\ UNCHANGED <<jobs, stdin, stop, strays>>

\* It writes the Execute line and waits.
Execute(id) ==
    /\ Running
    /\ AtPc(id, "stored")
    /\ Move(id, "waiting")
    /\ jobs' = jobs \cup {Job(id, execution[id].attempt)}
    /\ UNCHANGED <<pending, channel, stdin, stop, strays>>

\* External: the SDK works on its jobs in any order and answers each once.
SdkAnswers(job) ==
    /\ Running
    /\ job \in jobs
    /\ jobs' = jobs \ {job}
    /\ \E ok \in BOOLEAN : stdin' = Append(stdin, Result(job, ok))
    /\ UNCHANGED <<execution, pending, channel, stop, strays>>

\* Mutated: the sender is dropped without a result.
ReadResultUnsent ==
    /\ stop = "no"
    /\ stdin # <<>>
    /\ pending' = [pending EXCEPT ![Head(stdin).job.id] = 0]
    /\ stdin' = Tail(stdin)
    /\ UNCHANGED <<execution, channel, jobs, stop, strays>>

\* The message loop reads a Result line.  A result nobody waits for is
\* reported to the SDK; one whose receiver has expired is lost.
ReadResult ==
    /\ stop = "no"
    /\ stdin # <<>>
    /\ LET id == Head(stdin).job.id IN
       /\ pending' = [pending EXCEPT ![id] = 0]
       /\ channel' = IF pending[id] # 0 /\ pending[id] = execution[id].attempt
                        /\ execution[id].pc \in {"stored", "waiting"}
                     THEN [channel EXCEPT ![id] = Head(stdin)] ELSE channel
    /\ stdin' = Tail(stdin)
    /\ UNCHANGED <<execution, jobs, stop, strays>>

\* The attempt ends: the task is done, is due again, or has failed for good.
Settle(id, ok) ==
    LET last == execution[id].attempt = Attempts IN
    execution' = [execution EXCEPT ![id] =
        IF ok THEN [@ EXCEPT !.pc = "done"]
        ELSE IF last THEN [@ EXCEPT !.pc = "failed"]
        ELSE [pc |-> "due", attempt |-> @.attempt + 1]]

\* The waiting handler gets its result.
Receive(id) ==
    /\ Running
    /\ AtPc(id, "waiting")
    /\ channel[id] # NoResult
    /\ Settle(id, channel[id].ok)
    /\ channel' = [channel EXCEPT ![id] = NoResult]
    /\ strays' = strays \cup
           (IF channel[id].job.attempt = execution[id].attempt THEN {} ELSE {id})
    /\ UNCHANGED <<pending, jobs, stdin, stop>>

\* Mutated: only the first attempt is timed.
ExpireFirst(id) ==
    /\ Running
    /\ id \in Timed
    /\ AtPc(id, "waiting")
    /\ execution[id].attempt = 1
    /\ channel[id] = NoResult
    /\ Move(id, "expired")
    /\ UNCHANGED <<pending, channel, jobs, stdin, stop, strays>>

\* Mutated: tasks without max_execution_seconds are timed, too.
ExpireUntimed(id) ==
    /\ Running
    /\ AtPc(id, "waiting")
    /\ channel[id] = NoResult
    /\ Move(id, "expired")
    /\ UNCHANGED <<pending, channel, jobs, stdin, stop, strays>>

\* max_execution_seconds pass with no result in the channel.
Expire(id) ==
    /\ Running
    /\ id \in Timed
    /\ AtPc(id, "waiting")
    /\ channel[id] = NoResult
    /\ Move(id, "expired")
    /\ UNCHANGED <<pending, channel, jobs, stdin, stop, strays>>

\* Mutated: the sender stays in the map, so a late result takes it away.
GiveUpKeepingSender(id) ==
    /\ Running
    /\ AtPc(id, "expired")
    /\ Settle(id, FALSE)
    /\ UNCHANGED <<pending, channel, jobs, stdin, stop, strays>>

\* The handler takes its sender out of the map and fails.
GiveUp(id) ==
    /\ Running
    /\ AtPc(id, "expired")
    /\ pending' = [pending EXCEPT ![id] = 0]
    /\ Settle(id, FALSE)
    /\ UNCHANGED <<channel, jobs, stdin, stop, strays>>

-----------------------------------------------------------------------------
(* Shutdown.                                                               *)

Sigterm ==
    /\ Signals
    /\ stop = "no"
    /\ stop' = "draining"
    /\ UNCHANGED <<execution, pending, channel, jobs, stdin, strays>>

DrainEnds ==
    /\ stop = "draining"
    /\ \/ (\A id \in Ids : ~Executing(id)) /\ stop' = "drained"
       \/ stop' = "timed out"
    /\ UNCHANGED <<execution, pending, channel, jobs, stdin, strays>>

\* The message loop reads a line during the drain: it ends, and the process
\* with it.
LineDuringDrain ==
    /\ stop = "draining"
    /\ stdin # <<>>
    /\ stdin' = Tail(stdin)
    /\ stop' = "left"
    /\ UNCHANGED <<execution, pending, channel, jobs, strays>>

\* The SDK closes its end of the pipe: the loop ends after the last line, and the
\* process with it, whatever is executing and whether or not a drain is under way.
EndOfInput ==
    /\ Running
    /\ stdin = <<>>
    /\ stop' = "closed"
    /\ UNCHANGED <<execution, pending, channel, jobs, stdin, strays>>

Next ==
    \/ \E id \in Ids :
          Store(id) \/ Execute(id) \/ Receive(id) \/ Expire(id) \/ GiveUp(id)
    \/ \E job \in jobs : SdkAnswers(job)
    \/ ReadResult
    \/ Sigterm \/ DrainEnds \/ LineDuringDrain \/ EndOfInput

Spec == Init /\ [][Next]_vars

\* The daemon's tasks and timers run; the SDK answers the tasks that have no
\* timeout, and may leave the others unanswered.
FairSpec ==
    /\ Spec
    /\ WF_vars(ReadResult) /\ WF_vars(DrainEnds)
    /\ \A id \in Ids :
          /\ WF_vars(Store(id)) /\ WF_vars(Execute(id)) /\ WF_vars(Receive(id))
          /\ WF_vars(Expire(id)) /\ WF_vars(GiveUp(id))
    /\ \A id \in Ids \ Timed, attempt \in 1..Attempts :
          WF_vars(SdkAnswers(Job(id, attempt)))

-----------------------------------------------------------------------------
Jobs == [id: Ids, attempt: 1..Attempts]
Results == [job: Jobs, ok: BOOLEAN]

ASSUME NoResultAssumption == NoResult \notin Results

\* Every variable has its type; a sender is never of a later attempt, and a
\* task that is due or finished has none.
TypeOK ==
    /\ execution \in [Ids -> [pc: {"due", "stored", "waiting", "expired", "done", "failed"},
                              attempt: 1..Attempts]]
    /\ \A id \in Ids : pending[id] \in IF Executing(id) THEN {0, execution[id].attempt} ELSE {0}
    /\ \A id \in Ids : channel[id] \in Results \cup {NoResult}
    /\ jobs \subseteq Jobs
    /\ \A i \in 1..Len(stdin) : stdin[i] \in Results
    /\ stop \in {"no", "draining", "drained", "timed out", "left", "closed"}
    /\ strays \subseteq Ids

\* Who waits can still be reached: its sender is stored, or its result has
\* been sent; no execution fails because its channel was closed.
WaiterIsReachable ==
    \A id \in Ids : AtPc(id, "waiting") =>
        pending[id] = execution[id].attempt \/ channel[id] # NoResult

\* A late answer can only be taken for that of a later execution where a timeout
\* ended the earlier one: a task without max_execution_seconds is settled by the
\* answer to the execution that waits, although results carry no attempt.
OnlyTimedAreConfused == strays \subseteq Timed

\* Unless the daemon shuts down or its input ends, every task is settled, whatever the SDK does
\* with the timed ones.
EveryExecutionSettles ==
    \A id \in Ids : <>(execution[id].pc \in {"done", "failed"} \/ stop # "no")

-----------------------------------------------------------------------------
(* What comments, messages, tests or the README say of this code, and the  *)
(* code does not do.                                                       *)

\* An execution is settled by its own answer; a late answer to an execution
\* that expired is not taken for a later one's.
OwnAnswerSettles == strays = {}

\* A drain lets executions in flight finish, up to its timeout.
DrainAwaitsExecutions == stop = "left" => \A id \in Ids : ~Executing(id)
=============================================================================
