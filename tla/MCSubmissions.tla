----------------------------- MODULE MCSubmissions -----------------------------
\* One registration of a team: two members, two files to replace each other.
EXTENDS Submissions, TLC

CONSTANTS team, k1, k2, u1, u2, a1, a2

MCKeyRegistration == k1 :> team @@ k2 :> team
MCAccountOf == u1 :> a1 @@ u2 :> a2
=============================================================================
