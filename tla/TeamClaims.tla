----------------------------- MODULE TeamClaims -----------------------------
(***************************************************************************)
(* What the comments of the team code promise, which holds while handlers  *)
(* run one at a time, and what is left of it when they overlap.            *)
(***************************************************************************)
EXTENDS TeamLifecycle

\* team-service.ts, inviteTeamMember: active roster and pending invitations
\* together do not exceed the maximum team size.
CapacityHolds == \A t \in Teams : Seats(t) <= MaxTeamSize

\* schema.ts, teamMemberships: a candidate has at most one active membership per
\* competition, enforced at the service layer.
OneTeamPerCandidate ==
  \A s, t \in Teams : s # t => Roster(s) \cap Roster(t) = {}

\* team-service.ts, disbandTeam: every invitation is cancelled, every membership
\* is removed and the team is cancelled, atomically.  A member left behind could
\* neither leave the team, which is not forming, nor join or found another.
DisbandedTeamIsEmpty ==
  \A t \in Teams :
    team[t].status = "cancelled" => ActiveOn(t) = {} /\ LiveFor(t) = {}

\* team-registration-service.ts: a concurrent disband and submission exclude
\* each other, so a disbanded team holds no live registration.
DisbandedTeamIsUnregistered ==
  \A t \in Teams : team[t].status = "cancelled" => registered[t] = {}

\* team-registration-service.ts: one registration per active member; team-service.ts,
\* removeTeamMember: who leaves is on a forming team.  So a live row is a member's,
\* though a member may have cancelled their own.
RegisteredAreMembers == \A t \in Teams : registered[t] \subseteq Roster(t)

\* schema.ts, pending_claim: an invitation of an address without an account is
\* claimed at verified signup.
ClaimedAtSignup ==
  \A i \in Invitations :
    invitation[i].status = "pending_claim" /\ ~invitation[i].lapsed =>
      invitation[i].user \notin accounts

-----------------------------------------------------------------------------
(* The inductive invariant of serial handlers                              *)

OneHandlerAtATime == \A v, w \in Requests : v = w

Standing(t) == t \in Teams /\ team[t].status \in {"forming", "submitted"}

\* What the handler under way has read is still so.
Holds(h) ==
  /\ h.op \in {"disband", "invite", "accept", "submit"} => h.t \in Teams /\ Forming(h.t)
  /\ h.op \in {"create", "accept"} => MayJoin(h.u)
  /\ h.op = "invite" =>
       h.status \in Live /\ (h.status = "pending_claim" => h.u \notin accounts)
  /\ h.op \in {"revoke", "decline", "accept"} => h.id \in Invitations
  /\ h.op = "accept" => h.id \in LiveFor(h.t)
  /\ h.op = "remove" => h.id \in Memberships /\ Removable(h.id)
  /\ h.op = "submit" => h.roster = Roster(h.t)

ReadingsHold == \A w \in Requests : Holds(tx[w])

OneMembershipEach ==
  \A m, n \in Memberships :
    /\ membership[m].status = "active" /\ membership[n].status = "active"
    /\ membership[m].user = membership[n].user
    => m = n

RowsOfStandingTeams ==
  /\ \A m \in Memberships : membership[m].status = "active" => Standing(membership[m].team)
  /\ \A i \in Invitations : invitation[i].status \in Live => Standing(invitation[i].team)

OnlyTheSubmittedAreRegistered ==
  \A t \in Teams : registered[t] # {} => team[t].status = "submitted"

SerialInv ==
  /\ IInv /\ ReadingsHold
  /\ OneMembershipEach /\ RowsOfStandingTeams /\ OnlyTheSubmittedAreRegistered
  /\ RegisteredAreMembers /\ ClaimedAtSignup

\* An invitation under way has found a seat.
SeatsHeld == \A w \in Requests : tx[w].op = "invite" => HasRoom(tx[w].t)

-----------------------------------------------------------------------------
(* Handlers that overlap                                                   *)

\* The commits that rest on what their checks have read.
Writes(w) ==
  \/ CreateCommit(w) \/ DisbandCommit(w) \/ InviteCommit(w)
  \/ AcceptCommit(w) \/ RemoveCommit(w) \/ SubmitCommit(w)

StillReads(h) == Holds(h) /\ (h.op = "invite" => HasRoom(h.t))

\* A handler writes over a row that is no longer what its check found.
StaleWrite == \E w \in Requests : Writes(w) /\ ~StillReads(tx[w])

\* team-service.ts, inviteTeamMember: seats past the maximum are taken by stale writes
\* alone; a member whose invitation is accepted keeps the seat it held.
OverfullOnlyWhenStale ==
  [][\A t \in Teams :
       Seats(t)' > Seats(t) /\ Seats(t)' > MaxTeamSize => StaleWrite]_vars

\* schema.ts, teamMemberships: a candidate comes to be on two teams by stale writes
\* alone, whichever of founding and accepting they overlap.
SecondTeamOnlyWhenStale ==
  [][\A s, t \in Teams, u \in Users :
       s # t /\ u \in Roster(s)' /\ u \in Roster(t)' =>
         (u \in Roster(s) /\ u \in Roster(t)) \/ StaleWrite]_vars

\* team-registration-service.ts: a student comes to be registered with a team they are
\* not on by stale writes alone, a removal's or the submission's own.
StrangerOnlyWhenStale ==
  [][\A t \in Teams, u \in Users :
       u \in registered'[t] /\ u \notin Roster(t)' =>
         (u \in registered[t] /\ u \notin Roster(t)) \/ StaleWrite]_vars

\* team-service.ts, disbandTeam: what a disbanded team still has was written by other
\* handlers that found it forming, a row each at most, and nothing follows.
LeftByOverlapOnly ==
  \A t \in Teams : team[t].status = "cancelled" => Seats(t) < Cardinality(Requests)

\* claim-pending-invitations.ts: an account has no more invitations waiting for it than
\* there were handlers inserting them while it signed up.
Unclaimed(u) ==
  {i \in Invitations : /\ invitation[i].user = u
                       /\ invitation[i].status = "pending_claim"
                       /\ ~invitation[i].lapsed}

UnclaimedByOverlapOnly ==
  \A u \in accounts : Cardinality(Unclaimed(u)) < Cardinality(Requests)

\* What a lock, or the condition repeated in the write, would give the code: no
\* handler writes when what its check has read is no longer so.
WritesOnWhatItRead ==
  [][\A w \in Requests : Writes(w) => StillReads(tx[w])]_vars

\* The least that DisbandedTeamIsUnregistered asks of the code: the compare-and-set
\* of a submission, in the write of a disband too.
DisbandsTheForming ==
  [][\A w \in Requests : DisbandCommit(w) => Forming(tx[w].t)]_vars

=============================================================================
