---------------------------- MODULE MCSnerdQueue ----------------------------
(***************************************************************************)
(* Instances of SnerdQueue for TLC.  Each run's configuration picks a set  *)
(* of jobs; the request every job sends is given here.  Each instance      *)
(* keeps to what its question needs: the kinds of trouble (crashes, failed *)
(* writes, evictions, rate limits) multiply the states of one another.     *)
(***************************************************************************)
EXTENDS SnerdContract, TLC

CONSTANTS a, b, c,    \* task ids
          h,          \* a payload hash
          w1, w2

\* A plain local job with two attempts.
Plain(id) ==
    [id |-> id, pool |-> "default", type |-> "T", hash |-> NoHash, max |-> 2,
     urgency |-> 0, cron |-> FALSE, webhook |-> FALSE, limited |-> FALSE,
     delayed |-> FALSE, overflow |-> FALSE]

Hooked(id) == [Plain(id) EXCEPT !.webhook = TRUE]

\* Permits per configured pool.
OnePermit == [p \in {"default"} |-> 1]
TwoPermits == [p \in {"default"} |-> 2]
PoolPermits == [p \in {"default", "urgent"} |-> 1]

\* A rate-limited local job and a delayed webhook job: retries, refusals,
\* missing handlers.
ReqSafety ==
    "j1" :> [Plain(a) EXCEPT !.limited = TRUE]
    @@ "j2" :> [Hooked(b) EXCEPT !.max = 1, !.delayed = TRUE, !.urgency = 1]

\* An id reused by a cron job in another pool, which has no semaphore of its
\* own and shares the default one.  The first job's failures panic.
ReqPools ==
    "j1" :> [Hooked(a) EXCEPT !.pool = "urgent", !.overflow = TRUE]
    @@ "j2" :> [Hooked(a) EXCEPT !.pool = "batch", !.cron = TRUE, !.max = 1]

\* Two jobs with one payload.
ReqDedupe ==
    "j1" :> [Hooked(a) EXCEPT !.hash = h]
    @@ "j2" :> [Hooked(b) EXCEPT !.hash = h, !.max = 1]

\* A plain job and a rate-limited one that is less urgent.
ReqLive ==
    "j1" :> [Plain(a) EXCEPT !.urgency = 1]
    @@ "j2" :> [Plain(b) EXCEPT !.max = 1, !.limited = TRUE]

ReqPlain == "j1" :> Plain(a) @@ "j2" :> [Plain(b) EXCEPT !.max = 1]

ReqOne == "j1" :> Hooked(a)

ReqOverflow == "j1" :> [Hooked(a) EXCEPT !.overflow = TRUE]

ReqLimited == "j1" :> [Hooked(a) EXCEPT !.limited = TRUE, !.max = 1]

Symmetry == Permutations(Workers)
====
