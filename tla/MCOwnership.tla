---------------------------- MODULE MCOwnership ----------------------------
(* Instances of InstitutionOwnership for TLC.                              *)
EXTENDS InstitutionOwnership, TLC

Symmetry ==
  Permutations(Requests) \cup Permutations(Users) \cup Permutations(Institutions)
=============================================================================
