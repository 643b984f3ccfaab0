----------------------------- MODULE MCQueueDir -----------------------------
(* Instances of QueueDir for TLC.                                          *)
EXTENDS QueueDir, TLC

CONSTANTS d1, d2, k1, k2, once, twice

\* Commands are alike; daemons and tasks differ by their parameters.
Symmetry == Permutations({k1, k2})

\* The daemons were given different shard counts.
DifferentCounts == d1 :> 2 @@ d2 :> 1

\* One of them serves two shards at a time.
OneServesTwo == d1 :> 2 @@ d2 :> 1

\* Two ids that a daemon with two shards keeps apart.
Apart == once :> 4 @@ twice :> 7

\* A job with a single attempt and one with a retry.
OneAndTwo == once :> 1 @@ twice :> 2
=============================================================================
