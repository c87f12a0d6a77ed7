------------------------------ MODULE MCBrowser -------------------------------
(***************************************************************************)
(* Instances of Browser for TLC: tabs and calls are interchangeable.        *)
(***************************************************************************)
EXTENDS Browser, TLC

Symmetry == Permutations(Tab) \cup Permutations(Call)
=============================================================================
