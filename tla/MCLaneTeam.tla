---------------------------- MODULE MCLaneTeam ----------------------------
(* A team that may submit, withdraw and submit again, and a member of it   *)
(* who may hold an individual entry instead.                               *)
EXTENDS CompetitionPricing, TLC

CONSTANTS e1, e2, e3, c1, c2, t1

TeamTeamOf == [e \in Entries |-> IF e = e3 THEN NoTeam ELSE t1]
TeamMembersOf == [e \in Entries |-> IF e = e3 THEN {c2} ELSE {c1, c2}]
TeamCaptainOf == [e \in Entries |-> IF e = e3 THEN c2 ELSE c1]

Symmetry == Permutations(Requests)
===========================================================================
