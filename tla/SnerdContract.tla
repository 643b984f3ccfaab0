--------------------------- MODULE SnerdContract ----------------------------
(***************************************************************************)
(* The engine of SnerdQueue keeps the contract of JobContract, for ids     *)
(* that are not reused, while no write fails, no completed entry outlives  *)
(* its time and no rate limiter writes a stale copy back.                  *)
(***************************************************************************)
EXTENDS SnerdQueue

\* Execution w is that of job j and has come as far as pc.
At(w, pc, j) == worker[w].pc = pc /\ worker[w].task.job = j

Stored(j) == store[Req[j].id] # NoTask /\ store[Req[j].id].job = j

\* Where the engine's state puts a job.  A copy in a queue, with a dispatcher
\* or with an execution that has not called the handler yet is not told from
\* the stored one; two calls at one time are no phase of the contract.
Phase(j) ==
    CASE \E w \in Workers : At(w, "running", j) ->
            IF \E v, w \in Workers : v # w /\ At(v, "running", j) /\ At(w, "running", j)
            THEN "twice" ELSE "running"
      [] \A w \in Workers : ~At(w, "running", j) ->
            IF \E w \in Workers : At(w, "finish", j) THEN "settled"
            ELSE IF Stored(j) THEN "waiting"
            ELSE IF j \in accepted THEN "closed" ELSE "new"

Contract == INSTANCE JobContract WITH
    Payload <- [j \in Jobs |-> Req[j].hash],
    Unchecked <- NoHash,
    Attempts <- [j \in Jobs |-> Req[j].max],
    Recurring <- {j \in Jobs : Req[j].cron},
    Cap <- FailureCap,
    phase <- [j \in Jobs |-> Phase(j)],
    tries <- failures

\* The promise to the sender, end to end: through stale copies, retries,
\* crashes between the verdict and the tombstone, and a second job with the
\* same payload, every job goes through the phases of the contract and no
\* others (execute_task, process_due_tasks, enqueue and recovery together).
ImplementsJobContract == Contract!Spec
=============================================================================
