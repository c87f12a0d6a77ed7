------------------------------ MODULE MCAccess -------------------------------
(***************************************************************************)
(* Instances of Access for TLC: rows, addresses, codes and workers are      *)
(* interchangeable.                                                         *)
(***************************************************************************)
EXTENDS Access, TLC

Symmetry ==
  Permutations(Worker) \cup Permutations(Session) \cup Permutations(MailToken)
    \cup Permutations(ResetToken) \cup Permutations(Challenge)
    \cup Permutations(Ip) \cup Permutations(Code)
=============================================================================
