--------------------------- MODULE MCRateLimiter ----------------------------
(***************************************************************************)
(* RateLimiter for TLC.                                                    *)
(***************************************************************************)
EXTENDS RateLimiter, TLC

Symmetry == Permutations(Groups)
=============================================================================
