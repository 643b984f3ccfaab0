------------------------------- MODULE MCSdk --------------------------------
(***************************************************************************)
(* Sdk for TLC.                                                            *)
(***************************************************************************)
EXTENDS Sdk, TLC

Symmetry == Permutations(Timed)
=============================================================================
