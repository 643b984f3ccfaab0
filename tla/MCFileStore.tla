---------------------------- MODULE MCFileStore -----------------------------
(***************************************************************************)
(* FileStore for TLC: two ids, two writers, a handful of records.          *)
(***************************************************************************)
EXTENDS FileStore, TLC

Symmetry == Permutations(Threads)
=============================================================================
