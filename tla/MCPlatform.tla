----------------------------- MODULE MCPlatform ------------------------------
(***************************************************************************)
(* Instances of Platform for TLC.  Users, workers and row identifiers are   *)
(* interchangeable, so the safety runs take symmetry over them.             *)
(***************************************************************************)
EXTENDS Platform, TLC

Symmetry ==
  Permutations(User) \cup Permutations(Worker) \cup Permutations(TransferId)
    \cup Permutations(IncidentId) \cup Permutations(ServiceId)
=============================================================================
