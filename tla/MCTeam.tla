------------------------------- MODULE MCTeam -------------------------------
(* Two or three users, two teams and a handful of row ids for TLC.          *)
EXTENDS TeamClaims, TLC

Symmetry ==
  Permutations(Requests) \cup Permutations(Users) \cup Permutations(Teams)
    \cup Permutations(Invitations) \cup Permutations(Memberships)

=============================================================================
