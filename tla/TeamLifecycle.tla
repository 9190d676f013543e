--------------------------- MODULE TeamLifecycle ---------------------------
(***************************************************************************)
(* The teams of one competition: creating and disbanding a team, inviting, *)
(* revoking, accepting and declining, removing a member, and submitting or *)
(* withdrawing the team's registration.                                    *)
(*                                                                         *)
(* No handler of the team service takes a lock.  Each one reads, decides   *)
(* and then writes, so each is a Check action and a Commit action, and the *)
(* Commit repeats only the conditions the database enforces: a unique      *)
(* index or the WHERE clause of an UPDATE.  Everything the Check decided   *)
(* may have changed by then.  A dead handler is one that never commits.    *)
(*                                                                         *)
(* Registrations also end without the team service: a student cancels      *)
(* their own row, the expiry sweep a group's, and whoever withdraws the    *)
(* competition everybody's.  None of them looks at the team.               *)
(***************************************************************************)
EXTENDS Integers, FiniteSets

CONSTANTS
  Requests,       \* request handlers that may be running
  Users,
  Teams,          \* ids of team rows
  Invitations,    \* ids of team_invitations rows
  Memberships,    \* ids of team_memberships rows
  NoTeam, NoUser, NoId,
  MinTeamSize,
  MaxTeamSize

ASSUME IdsAssumption ==
  /\ NoTeam \notin Teams
  /\ NoUser \notin Users
  /\ NoId \notin Invitations \cup Memberships

ASSUME SizesAssumption == MinTeamSize \in Nat /\ MaxTeamSize \in Nat

VARIABLES
  open,        \* published, not cancelled, and before registrationEndAt
  accounts,    \* users with a verified account
  team,        \* teams: status and captain
  membership,  \* team_memberships
  invitation,  \* team_invitations; lapsed: expires_at is past
  registered,  \* the students of the team's live registration rows
  tx           \* what each handler has read

vars == <<open, accounts, team, membership, invitation, registered, tx>>

-----------------------------------------------------------------------------
(* Rosters, invitations and handlers                                       *)

ActiveOn(t) ==
  {m \in Memberships : membership[m].status = "active" /\ membership[m].team = t}

Roster(t) == {membership[m].user : m \in ActiveOn(t)}

\* findActiveTeamMembershipForCompetition, whatever the team's status.
OnATeam(u) == \E t \in Teams : u \in Roster(t)

Live == {"pending", "pending_claim"}

LiveFor(t) == {i \in Invitations : invitation[i].status \in Live /\ invitation[i].team = t}

\* Seats taken: both live states of an invitation hold one.
Seats(t) == Cardinality(ActiveOn(t)) + Cardinality(LiveFor(t))

\* Mutant of HasRoom: invitations hold no seat.
HasRoomForMembers(t) == Cardinality(ActiveOn(t)) < MaxTeamSize

HasRoom(t) == Seats(t) < MaxTeamSize

\* Mutant of SizeAllowed: the minimum forgotten.
SizeAllowedBelowMax(R) == Cardinality(R) <= MaxTeamSize

SizeAllowed(R) == Cardinality(R) \in MinTeamSize .. MaxTeamSize

\* resolveInviteRecipient: an address without a verified account waits for one,
\* a username names an account, verified or not.
Resolutions(u) == IF u \in accounts THEN {"pending"} ELSE Live

NoTeamRow == [status |-> "absent", captain |-> NoUser]

NoMembership == [team |-> NoTeam, user |-> NoUser, role |-> "member", status |-> "absent"]

NoInvitation == [team |-> NoTeam, user |-> NoUser, status |-> "absent", lapsed |-> FALSE]

Idle == [op |-> "idle", t |-> NoTeam, u |-> NoUser, id |-> NoId,
         status |-> "absent", roster |-> {}]

OnTeam(o, t) == [Idle EXCEPT !.op = o, !.t = t]

OnRow(o, t, u, i) == [OnTeam(o, t) EXCEPT !.u = u, !.id = i]

Begin(w, r) == tx[w] = Idle /\ tx' = [tx EXCEPT ![w] = r]

End(w) == tx' = [tx EXCEPT ![w] = Idle]

Forming(t) == team[t].status = "forming"

\* The partial unique index admits one active row per team and user.
InsertMembership(t, u, r) ==
  /\ u \notin Roster(t)
  /\ \E m \in Memberships :
       /\ membership[m].status = "absent"
       /\ membership' = [membership EXCEPT
            ![m] = [team |-> t, user |-> u, role |-> r, status |-> "active"]]

Close(I, verdict) ==
  invitation' = [i \in Invitations |->
    IF i \in I THEN [invitation[i] EXCEPT !.status = verdict] ELSE invitation[i]]

Remove(M) ==
  membership' = [m \in Memberships |->
    IF m \in M THEN [membership[m] EXCEPT !.status = "removed"] ELSE membership[m]]

Init ==
  /\ open = TRUE
  /\ accounts \in SUBSET Users
  /\ team = [t \in Teams |-> NoTeamRow]
  /\ membership = [m \in Memberships |-> NoMembership]
  /\ invitation = [i \in Invitations |-> NoInvitation]
  /\ registered = [t \in Teams |-> {}]
  /\ tx = [w \in Requests |-> Idle]

-----------------------------------------------------------------------------
(* Creating and disbanding                                                 *)

\* Mutant of MayJoin: a member of a disbanded team is free again.
MayJoinAny(u) == TRUE

MayJoin(u) == ~OnATeam(u)

CreateCheck(w, u) ==
  /\ open
  /\ u \in accounts
  /\ MayJoin(u)
  /\ Begin(w, [Idle EXCEPT !.op = "create", !.u = u])
  /\ UNCHANGED <<open, accounts, team, membership, invitation, registered>>

CreateCommit(w) ==
  /\ tx[w].op = "create"
  /\ \E t \in Teams :
       /\ team[t].status = "absent"
       /\ team' = [team EXCEPT ![t] = [status |-> "forming", captain |-> tx[w].u]]
       /\ InsertMembership(t, tx[w].u, "captain")
  /\ End(w)
  /\ UNCHANGED <<open, accounts, invitation, registered>>

DisbandCheck(w, t) ==
  /\ Forming(t)
  /\ Begin(w, OnTeam("disband", t))
  /\ UNCHANGED <<open, accounts, team, membership, invitation, registered>>

\* Mutant of DisbandCommit: the roster is left as it was.
DisbandCommitTeamOnly(w) == LET t == tx[w].t IN
  /\ tx[w].op = "disband"
  /\ Close(LiveFor(t), "cancelled")
  /\ team' = [team EXCEPT ![t].status = "cancelled"]
  /\ End(w)
  /\ UNCHANGED <<open, accounts, membership, registered>>

\* Neither the invitations, the roster nor the team is tied to "forming" here.
DisbandCommit(w) == LET t == tx[w].t IN
  /\ tx[w].op = "disband"
  /\ Close(LiveFor(t), "cancelled")
  /\ Remove(ActiveOn(t))
  /\ team' = [team EXCEPT ![t].status = "cancelled"]
  /\ End(w)
  /\ UNCHANGED <<open, accounts, registered>>

-----------------------------------------------------------------------------
(* Invitations                                                             *)

InviteCheck(w, t, u) ==
  /\ Forming(t)
  /\ open
  /\ HasRoom(t)
  /\ u \notin Roster(t)
  /\ \A i \in LiveFor(t) : invitation[i].user # u
  /\ \E s \in Resolutions(u) : Begin(w, [OnRow("invite", t, u, NoId) EXCEPT !.status = s])
  /\ UNCHANGED <<open, accounts, team, membership, invitation, registered>>

InviteCommit(w) ==
  /\ tx[w].op = "invite"
  /\ \E i \in Invitations :
       /\ invitation[i].status = "absent"
       /\ invitation' = [invitation EXCEPT
            ![i] = [team |-> tx[w].t, user |-> tx[w].u, status |-> tx[w].status,
                    lapsed |-> FALSE]]
  /\ End(w)
  /\ UNCHANGED <<open, accounts, team, membership, registered>>

RevokeCheck(w, i) ==
  /\ invitation[i].status \in Live
  /\ Forming(invitation[i].team)
  /\ Begin(w, OnRow("revoke", invitation[i].team, NoUser, i))
  /\ UNCHANGED <<open, accounts, team, membership, invitation, registered>>

DeclineCheck(w, i) ==
  /\ invitation[i].status = "pending"
  /\ Begin(w, OnRow("decline", invitation[i].team, NoUser, i))
  /\ UNCHANGED <<open, accounts, team, membership, invitation, registered>>

\* Both write by id alone, over whatever the invitation has become.
CloseCommit(w, o, verdict) ==
  /\ tx[w].op = o
  /\ Close({tx[w].id}, verdict)
  /\ End(w)
  /\ UNCHANGED <<open, accounts, team, membership, registered>>

AcceptCheck(w, i) == LET t == invitation[i].team  u == invitation[i].user IN
  /\ invitation[i].status = "pending"
  /\ ~invitation[i].lapsed
  /\ Forming(t)
  /\ u \in accounts
  /\ MayJoin(u)
  /\ Begin(w, OnRow("accept", t, u, i))
  /\ UNCHANGED <<open, accounts, team, membership, invitation, registered>>

AcceptCommit(w) ==
  /\ tx[w].op = "accept"
  /\ InsertMembership(tx[w].t, tx[w].u, "member")
  /\ Close({tx[w].id}, "accepted")
  /\ End(w)
  /\ UNCHANGED <<open, accounts, team, registered>>

\* An expired invitation: the transaction cancels it and then throws.
LapsedCheck(w, i) ==
  /\ invitation[i].status = "pending"
  /\ invitation[i].lapsed
  /\ Begin(w, OnRow("lapsed", invitation[i].team, invitation[i].user, i))
  /\ UNCHANGED <<open, accounts, team, membership, invitation, registered>>

LapsedRollBack(w) ==
  /\ tx[w].op = "lapsed"
  /\ End(w)
  /\ UNCHANGED <<open, accounts, team, membership, invitation, registered>>

\* Mutant of Signup: the claim does not run with the verification.
SignupUnclaimed(w, u) ==
  /\ tx[w] = Idle
  /\ u \notin accounts
  /\ accounts' = accounts \cup {u}
  /\ UNCHANGED <<open, team, membership, invitation, registered, tx>>

\* A verified signup, with claimPendingInvitationsForUser in its transaction.
Signup(w, u) ==
  /\ tx[w] = Idle
  /\ u \notin accounts
  /\ accounts' = accounts \cup {u}
  /\ Close({i \in Invitations : /\ invitation[i].user = u
                                /\ invitation[i].status = "pending_claim"
                                /\ ~invitation[i].lapsed}, "pending")
  /\ UNCHANGED <<open, team, membership, registered, tx>>

-----------------------------------------------------------------------------
(* Members                                                                 *)

\* Mutants of Removable: the captain included, and a team in any state.
RemovableAny(m) == membership[m].status = "active" /\ Forming(membership[m].team)
RemovableAnytime(m) == membership[m].status = "active" /\ membership[m].role = "member"

Removable(m) ==
  /\ membership[m].status = "active"
  /\ membership[m].role = "member"
  /\ Forming(membership[m].team)

RemoveCheck(w, m) ==
  /\ Removable(m)
  /\ Begin(w, OnRow("remove", membership[m].team, NoUser, m))
  /\ UNCHANGED <<open, accounts, team, membership, invitation, registered>>

RemoveCommit(w) ==
  /\ tx[w].op = "remove"
  /\ Remove({tx[w].id})
  /\ End(w)
  /\ UNCHANGED <<open, accounts, team, invitation, registered>>

-----------------------------------------------------------------------------
(* Submitting and withdrawing                                              *)

\* The roster is read here and registered as it was read.
SubmitCheck(w, t) == LET R == Roster(t) IN
  /\ Forming(t)
  /\ open
  /\ SizeAllowed(R)
  /\ \A s \in Teams : registered[s] \cap R = {}
  /\ Begin(w, [OnTeam("submit", t) EXCEPT !.roster = R])
  /\ UNCHANGED <<open, accounts, team, membership, invitation, registered>>

\* Mutant of Submittable: without the compare-and-set on the team.
SubmittableUnguarded(w) ==
  /\ open
  /\ team[tx[w].t].captain \in tx[w].roster
  /\ \A s \in Teams : registered[s] \cap tx[w].roster = {}

\* The window again, one live row per student, and the compare-and-set.
Submittable(w) ==
  /\ open
  /\ Forming(tx[w].t)
  /\ team[tx[w].t].captain \in tx[w].roster
  /\ \A s \in Teams : registered[s] \cap tx[w].roster = {}

SubmitCommit(w) == LET t == tx[w].t IN
  /\ tx[w].op = "submit"
  /\ Submittable(w)
  /\ registered' = [registered EXCEPT ![t] = tx[w].roster]
  /\ team' = [team EXCEPT ![t].status = "submitted"]
  /\ End(w)
  /\ UNCHANGED <<open, accounts, membership, invitation>>

\* cancelTeamRegistration: the compare-and-set repeats its only check.
Withdraw(w, t) ==
  /\ tx[w] = Idle
  /\ team[t].status = "submitted"
  /\ registered' = [registered EXCEPT ![t] = {}]
  /\ team' = [team EXCEPT ![t].status = "forming"]
  /\ UNCHANGED <<open, accounts, membership, invitation, tx>>

-----------------------------------------------------------------------------
(* Registrations cancelled behind the team's back                          *)

\* cancelRegistration does not ask the row's type: a member of a team, the captain
\* too, cancels their own row by its id, and the team stays submitted.
CancelOwn(t, u) ==
  /\ u \in registered[t]
  /\ registered' = [registered EXCEPT ![t] = @ \ {u}]
  /\ UNCHANGED <<open, accounts, team, membership, invitation, tx>>

\* The expiry sweep cancels what is live under the team's id.
ExpireGroup(t) ==
  /\ registered[t] # {}
  /\ registered' = [registered EXCEPT ![t] = {}]
  /\ UNCHANGED <<open, accounts, team, membership, invitation, tx>>

\* Unpublishing, an operator's cancellation and a missed minimum cancel every row of
\* the competition and take it from the public.
CancelEveryRow ==
  /\ open \/ \E t \in Teams : registered[t] # {}
  /\ open' = FALSE
  /\ registered' = [t \in Teams |-> {}]
  /\ UNCHANGED <<accounts, team, membership, invitation, tx>>

\* A draft is published again, or registrationEndAt is moved to a later day.
Publish ==
  /\ ~open
  /\ open' = TRUE
  /\ UNCHANGED <<accounts, team, membership, invitation, registered, tx>>

-----------------------------------------------------------------------------
\* A unique index or the compare-and-set refuses: the transaction rolls back.
Refuse(w) ==
  /\ \/ tx[w].op = "accept" /\ tx[w].u \in Roster(tx[w].t)
     \/ tx[w].op = "submit" /\ ~Submittable(w)
  /\ End(w)
  /\ UNCHANGED <<open, accounts, team, membership, invitation, registered>>

CloseRegistration ==
  /\ open
  /\ open' = FALSE
  /\ UNCHANGED <<accounts, team, membership, invitation, registered, tx>>

Lapse(i) ==
  /\ invitation[i].status # "absent" /\ ~invitation[i].lapsed
  /\ invitation' = [invitation EXCEPT ![i].lapsed = TRUE]
  /\ UNCHANGED <<open, accounts, team, membership, registered, tx>>

CheckStep(w) ==
  \/ \E u \in Users : CreateCheck(w, u)
  \/ \E t \in Teams : DisbandCheck(w, t) \/ SubmitCheck(w, t)
  \/ \E t \in Teams, u \in Users : InviteCheck(w, t, u)
  \/ \E i \in Invitations :
       RevokeCheck(w, i) \/ DeclineCheck(w, i) \/ AcceptCheck(w, i) \/ LapsedCheck(w, i)
  \/ \E m \in Memberships : RemoveCheck(w, m)

CommitStep(w) ==
  \/ CreateCommit(w)
  \/ DisbandCommit(w)
  \/ InviteCommit(w)
  \/ CloseCommit(w, "revoke", "cancelled")
  \/ CloseCommit(w, "decline", "declined")
  \/ AcceptCommit(w)
  \/ LapsedRollBack(w)
  \/ RemoveCommit(w)
  \/ SubmitCommit(w)
  \/ Refuse(w)
  \/ \E u \in Users : Signup(w, u)
  \/ \E t \in Teams : Withdraw(w, t)

Next ==
  \/ \E w \in Requests : CheckStep(w) \/ CommitStep(w)
  \/ \E t \in Teams : ExpireGroup(t) \/ (\E u \in Users : CancelOwn(t, u))
  \/ CloseRegistration \/ CancelEveryRow \/ Publish
  \/ \E i \in Invitations : Lapse(i)

Spec == Init /\ [][Next]_vars

-----------------------------------------------------------------------------
(* Properties                                                              *)

TeamRows ==
  [status : {"absent", "forming", "submitted", "cancelled"}, captain : Users \cup {NoUser}]

MembershipRows ==
  [team : Teams \cup {NoTeam}, user : Users \cup {NoUser},
   role : {"captain", "member"}, status : {"absent", "active", "removed"}]

InvitationRows ==
  [team : Teams \cup {NoTeam}, user : Users \cup {NoUser},
   status : {"absent", "accepted", "declined", "cancelled"} \cup Live, lapsed : BOOLEAN]

Ops == {"idle", "create", "disband", "invite", "revoke", "decline", "accept",
        "lapsed", "remove", "submit"}

Handlers ==
  [op : Ops, t : Teams \cup {NoTeam}, u : Users \cup {NoUser},
   id : Invitations \cup Memberships \cup {NoId},
   status : {"absent"} \cup Live, roster : SUBSET Users]

\* Every table and every handler holds values of its own kind.
TypeOK ==
  /\ open \in BOOLEAN
  /\ accounts \in SUBSET Users
  /\ team \in [Teams -> TeamRows]
  /\ membership \in [Memberships -> MembershipRows]
  /\ invitation \in [Invitations -> InvitationRows]
  /\ registered \in [Teams -> SUBSET Users]
  /\ tx \in [Requests -> Handlers]

\* team-registration-service.ts calls a submission without its captain
\* unreachable: nothing two handlers can do to a roster takes the captain out of
\* a submission under way, or out of a team that can be or has been submitted.
CaptainAnchorsSubmission ==
  /\ \A w \in Requests :
       tx[w].op = "submit" => team[tx[w].t].captain \in tx[w].roster
  /\ \A t \in Teams :
       team[t].status \in {"forming", "submitted"} => team[t].captain \in Roster(t)

\* Live rows of a team only ever fall away, one by one or all at once, or come about
\* together, where there were none: as one roster with its captain, no smaller than
\* the minimum and no larger than the maximum, which the roster itself may have
\* outgrown by then.
RegisteredTogether ==
  [][\A t \in Teams :
       \/ registered'[t] \subseteq registered[t]
       \/ /\ registered[t] = {}
          /\ Cardinality(registered'[t]) \in MinTeamSize .. MaxTeamSize
          /\ team[t].captain \in registered'[t]]_vars

\* The strengthening that makes the invariants above inductive.  Live rows name
\* real users, a team that is not disbanded has its captain's own row, no removal
\* under way names such a row, and a submission under way is of a team that exists.
RowsAreFilled ==
  /\ \A m \in Memberships : membership[m].status = "active" => membership[m].user \in Users
  /\ \A i \in Invitations : invitation[i].status \in Live => invitation[i].user \in Users
  /\ \A w \in Requests :
       tx[w].op \in {"create", "invite", "accept"} => tx[w].u \in Users

TeamsAreLed ==
  \A t \in Teams :
    team[t].status \in {"forming", "submitted"} =>
      \E m \in ActiveOn(t) :
        membership[m].user = team[t].captain /\ membership[m].role = "captain"

RemovalsSpareCaptains ==
  \A w \in Requests : tx[w].op = "remove" =>
    /\ tx[w].id \in Memberships
    /\ membership[tx[w].id].status # "absent"
    /\ membership[tx[w].id].role = "member"

SubmissionsAreSized ==
  \A w \in Requests : tx[w].op = "submit" =>
    /\ tx[w].t \in Teams
    /\ team[tx[w].t].status # "absent"
    /\ SizeAllowed(tx[w].roster)

\* A team that was withdrawn, or never submitted, has no live row left.
RegisteredWereSubmitted ==
  \A t \in Teams : registered[t] # {} => team[t].status \in {"submitted", "cancelled"}

IInv ==
  /\ TypeOK /\ RowsAreFilled
  /\ TeamsAreLed /\ RemovalsSpareCaptains /\ SubmissionsAreSized /\ RegisteredWereSubmitted
  /\ CaptainAnchorsSubmission

\* Disbanding is final: no submission or withdrawal that was under way revives
\* the team.
DisbandedForGood ==
  [][\A t \in Teams : team[t].status = "cancelled" => team'[t].status = "cancelled"]_vars

=============================================================================
