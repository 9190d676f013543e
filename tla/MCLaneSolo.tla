---------------------------- MODULE MCLaneSolo ----------------------------
(* Individual entries only: one or two candidates, no team.                *)
EXTENDS LaneClaims, TLC

CONSTANTS e1, e2, c1

SoloTeamOf == [e \in Entries |-> NoTeam]
SoloMembersOf == [e \in Entries |-> {c1}]
SoloCaptainOf == [e \in Entries |-> c1]

===========================================================================
