---------------------------- MODULE JobContract -----------------------------
(***************************************************************************)
(* What the queue promises the sender of a job, and no more: a payload is  *)
(* taken once while it is pending; a job is executed by one execution at a *)
(* time; a failure puts it back, and only one that uses the last attempt   *)
(* up may settle it, as a success does; a settled job is closed and never  *)
(* comes back.  A crash loses no job: what was not closed waits again, and *)
(* may be executed again.  That no more than the given attempts are made   *)
(* is not promised: a copy read before a failure may be executed after it. *)
(***************************************************************************)
EXTENDS Naturals

CONSTANTS
    Jobs,
    Payload,    \* the payload of each job
    Unchecked,  \* the payload of a job whose sender wants no deduplication
    Attempts,   \* the attempts each job is given; at least one is made
    Recurring,  \* jobs that wait for their next tick after a success
    Cap         \* bound: tries saturates here

VARIABLES phase, tries

Init ==
    /\ phase = [j \in Jobs |-> "new"]
    /\ tries = [j \in Jobs |-> 0]

Pending(j) == phase[j] \in {"waiting", "running", "settled"}

Move(j, from, to) ==
    /\ phase[j] = from
    /\ phase' = [phase EXCEPT ![j] = to]

Failed(j) == tries' = [tries EXCEPT ![j] = IF @ < Cap THEN @ + 1 ELSE @]

Accept(j) ==
    /\ Payload[j] # Unchecked => \A k \in Jobs : Payload[k] = Payload[j] => ~Pending(k)
    /\ Move(j, "new", "waiting")
    /\ UNCHANGED tries

Begin(j) == Move(j, "waiting", "running") /\ UNCHANGED tries

Recur(j) == j \in Recurring /\ Move(j, "running", "waiting") /\ UNCHANGED tries

Succeed(j) == j \notin Recurring /\ Move(j, "running", "settled") /\ UNCHANGED tries

Retry(j) == Move(j, "running", "waiting") /\ Failed(j)

GiveUp(j) == tries[j] + 1 >= Attempts[j] /\ Move(j, "running", "settled") /\ Failed(j)

Close(j) == Move(j, "settled", "closed") /\ UNCHANGED tries

Crash ==
    /\ phase' = [j \in Jobs |-> IF Pending(j) THEN "waiting" ELSE phase[j]]
    /\ UNCHANGED tries

Next ==
    \/ \E j \in Jobs :
          \/ Accept(j) \/ Begin(j) \/ Recur(j) \/ Succeed(j)
          \/ Retry(j) \/ GiveUp(j) \/ Close(j)
    \/ Crash

Spec == Init /\ [][Next]_<<phase, tries>>
=============================================================================
