----------------------------- MODULE MCRegistry ------------------------------
(***************************************************************************)
(* Instances of Registry for TLC: workers and row identifiers are           *)
(* interchangeable.                                                         *)
(***************************************************************************)
EXTENDS Registry, TLC

Symmetry ==
  Permutations(Worker) \cup Permutations(Piece) \cup Permutations(QrCode)
    \cup Permutations(Certificate)
=============================================================================
