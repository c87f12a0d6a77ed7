------------------------------ MODULE MCPortal -------------------------------
(***************************************************************************)
(* Instances of Portal for TLC.  Slots of calls are interchangeable.        *)
(***************************************************************************)
EXTENDS Portal, TLC

Symmetry == Permutations(Call)
=============================================================================
