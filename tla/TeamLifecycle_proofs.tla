------------------------ MODULE TeamLifecycle_proofs ------------------------
(***************************************************************************)
(* What survives the unlocked handlers of the team service, for any number *)
(* of users, teams and overlapping requests, and rows cancelled beside     *)
(* them; that the comments of the team code are kept while handlers run    *)
(* one at a time; and that two of them are broken by stale writes alone.   *)
(***************************************************************************)
EXTENDS TeamClaims, FiniteSetTheorems, TLAPS

tables == <<open, accounts, team, membership, invitation, registered>>

\* What a check may put in its handler: a removal was allowed, a submission
\* carries the roster of a forming team, and a user written down is a user.
Reading(r) ==
  /\ r \in Handlers
  /\ r.op \in {"create", "invite", "accept"} => r.u \in Users
  /\ r.op = "remove" => r.id \in Memberships /\ Removable(r.id)
  /\ r.op = "submit" => /\ r.t \in Teams /\ Forming(r.t)
                        /\ r.roster = Roster(r.t) /\ SizeAllowed(r.roster)

LEMMA RostersAreUsers ==
  ASSUME RowsAreFilled, NEW t
  PROVE  Roster(t) \subseteq Users
BY DEF RowsAreFilled, Roster, ActiveOn

\* Every check leaves the tables alone and records a Reading.
LEMMA ChecksOnlyRead ==
  ASSUME TypeOK, RowsAreFilled, NEW w \in Requests, CheckStep(w)
  PROVE  UNCHANGED tables /\ \E r : Reading(r) /\ Begin(w, r)
<1> USE DEF TypeOK, Handlers, Ops, Live, Idle, OnTeam, OnRow, Reading, tables
<1>1. ASSUME NEW u \in Users, CreateCheck(w, u)
      PROVE  UNCHANGED tables /\ \E r : Reading(r) /\ Begin(w, r)
  <2> DEFINE r == [Idle EXCEPT !.op = "create", !.u = u]
  <2>1. Reading(r) OBVIOUS
  <2> QED BY <1>1, <2>1 DEF CreateCheck
<1>2. ASSUME NEW t \in Teams, DisbandCheck(w, t)
      PROVE  UNCHANGED tables /\ \E r : Reading(r) /\ Begin(w, r)
  <2>1. Reading(OnTeam("disband", t)) OBVIOUS
  <2> QED BY <1>2, <2>1 DEF DisbandCheck
<1>3. ASSUME NEW t \in Teams, SubmitCheck(w, t)
      PROVE  UNCHANGED tables /\ \E r : Reading(r) /\ Begin(w, r)
  <2> DEFINE r == [OnTeam("submit", t) EXCEPT !.roster = Roster(t)]
  <2>1. Roster(t) \subseteq Users BY RostersAreUsers
  <2>2. Reading(r) BY <1>3, <2>1 DEF SubmitCheck
  <2> QED BY <1>3, <2>2 DEF SubmitCheck
<1>4. ASSUME NEW t \in Teams, NEW u \in Users, InviteCheck(w, t, u)
      PROVE  UNCHANGED tables /\ \E r : Reading(r) /\ Begin(w, r)
  <2>1. PICK s \in Resolutions(u) : Begin(w, [OnRow("invite", t, u, NoId) EXCEPT !.status = s])
    BY <1>4 DEF InviteCheck
  <2>2. s \in Live BY DEF Resolutions
  <2> DEFINE r == [OnRow("invite", t, u, NoId) EXCEPT !.status = s]
  <2>3. Reading(r) BY <2>2
  <2> QED BY <1>4, <2>1, <2>3 DEF InviteCheck
<1>5. ASSUME NEW i \in Invitations, RevokeCheck(w, i) \/ DeclineCheck(w, i)
      PROVE  UNCHANGED tables /\ \E r : Reading(r) /\ Begin(w, r)
  <2> DEFINE t == invitation[i].team
  <2>1. t \in Teams \cup {NoTeam} BY DEF InvitationRows
  <2>2. Reading(OnRow("revoke", t, NoUser, i)) /\ Reading(OnRow("decline", t, NoUser, i))
    BY <2>1
  <2> QED BY <1>5, <2>2 DEF RevokeCheck, DeclineCheck
<1>6. ASSUME NEW i \in Invitations, AcceptCheck(w, i) \/ LapsedCheck(w, i)
      PROVE  UNCHANGED tables /\ \E r : Reading(r) /\ Begin(w, r)
  <2> DEFINE t == invitation[i].team  u == invitation[i].user
  <2>1. t \in Teams \cup {NoTeam} BY DEF InvitationRows
  <2>2. u \in Users BY <1>6 DEF AcceptCheck, LapsedCheck, RowsAreFilled
  <2>3. Reading(OnRow("accept", t, u, i)) /\ Reading(OnRow("lapsed", t, u, i))
    BY <2>1, <2>2
  <2> QED BY <1>6, <2>3 DEF AcceptCheck, LapsedCheck
<1>7. ASSUME NEW m \in Memberships, RemoveCheck(w, m)
      PROVE  UNCHANGED tables /\ \E r : Reading(r) /\ Begin(w, r)
  <2> DEFINE t == membership[m].team
  <2>1. t \in Teams \cup {NoTeam} BY DEF MembershipRows
  <2>2. Reading(OnRow("remove", t, NoUser, m)) BY <1>7, <2>1 DEF RemoveCheck
  <2> QED BY <1>7, <2>2 DEF RemoveCheck
<1> QED
  <2> HIDE DEF TypeOK, Handlers, Ops, Live, Idle, OnTeam, OnRow, Reading, tables
  <2> QED BY <1>1, <1>2, <1>3, <1>4, <1>5, <1>6, <1>7 DEF CheckStep

\* A row is inserted under an unused id; every other row stays as it is.
LEMMA InsertionAddsARow ==
  ASSUME TypeOK, NEW t \in Teams \cup {NoTeam}, NEW u \in Users,
         NEW r \in {"captain", "member"}, InsertMembership(t, u, r)
  PROVE  /\ membership' \in [Memberships -> MembershipRows]
         /\ \A m \in Memberships :
              \/ membership'[m] = membership[m]
              \/ membership'[m].user = u
         /\ \E m \in Memberships :
              /\ membership[m].status = "absent"
              /\ membership'[m] = [team |-> t, user |-> u, role |-> r, status |-> "active"]
              /\ \A n \in Memberships : n # m => membership'[n] = membership[n]
<1> DEFINE row == [team |-> t, user |-> u, role |-> r, status |-> "active"]
<1>1. PICK m \in Memberships :
        /\ membership[m].status = "absent"
        /\ membership' = [membership EXCEPT ![m] = row] BY DEF InsertMembership
<1>2. row \in MembershipRows BY DEF MembershipRows
<1> HIDE DEF row
<1>3. membership' \in [Memberships -> MembershipRows] BY <1>1, <1>2 DEF TypeOK
<1>4. membership'[m] = row /\ \A n \in Memberships : n # m => membership'[n] = membership[n]
  BY <1>1 DEF TypeOK
<1>5. row.user = u BY DEF row
<1> QED BY <1>1, <1>3, <1>4, <1>5 DEF row

\* Closing invitations changes nothing but their status.
LEMMA ClosingKeepsRows ==
  ASSUME TypeOK, NEW I,
         NEW v \in {"accepted", "declined", "cancelled", "pending"}, Close(I, v)
  PROVE  /\ invitation' \in [Invitations -> InvitationRows]
         /\ \A i \in Invitations :
              /\ invitation'[i].user = invitation[i].user
              /\ invitation'[i].status = IF i \in I THEN v ELSE invitation[i].status
BY DEF TypeOK, Close, InvitationRows, Live

\* Removing memberships changes nothing but their status.
LEMMA RemovalKeepsRows ==
  ASSUME TypeOK, NEW M, Remove(M)
  PROVE  /\ membership' \in [Memberships -> MembershipRows]
         /\ \A m \in Memberships :
              /\ membership'[m].user = membership[m].user
              /\ membership'[m].team = membership[m].team
              /\ membership'[m].role = membership[m].role
              /\ membership'[m].status =
                   IF m \in M THEN "removed" ELSE membership[m].status
BY DEF TypeOK, Remove, MembershipRows

\* Beginning and ending touch one handler.
LEMMA HandlersKept ==
  ASSUME TypeOK, NEW w \in Requests, NEW r \in Handlers,
         tx' = [tx EXCEPT ![w] = r]
  PROVE  /\ tx' \in [Requests -> Handlers]
         /\ tx'[w] = r
         /\ \A v \in Requests : v # w => tx'[v] = tx[v]
BY DEF TypeOK

LEMMA IdleIsAHandler == Idle \in Handlers
BY DEF Idle, Handlers, Ops

\* The steps behind the team's back.
RowsStep ==
  \/ CloseRegistration \/ CancelEveryRow \/ Publish
  \/ \E t \in Teams : ExpireGroup(t) \/ (\E u \in Users : CancelOwn(t, u))

\* They only take registrations away.
LEMMA RowsOnlyFall ==
  ASSUME TypeOK, RowsStep
  PROVE  /\ UNCHANGED <<accounts, team, membership, invitation, tx>>
         /\ open' \in BOOLEAN /\ registered' \in [Teams -> SUBSET Users]
         /\ \A t \in Teams : registered'[t] \subseteq registered[t]
<1> USE DEF TypeOK
<1>1. CASE CloseRegistration BY <1>1 DEF CloseRegistration
<1>2. CASE CancelEveryRow BY <1>2 DEF CancelEveryRow
<1>3. CASE Publish BY <1>3 DEF Publish
<1>4. ASSUME NEW t \in Teams, ExpireGroup(t)
      PROVE  /\ UNCHANGED <<open, accounts, team, membership, invitation, tx>>
             /\ registered' \in [Teams -> SUBSET Users]
             /\ \A s \in Teams : registered'[s] \subseteq registered[s]
  BY <1>4 DEF ExpireGroup
<1>5. ASSUME NEW t \in Teams, NEW u \in Users, CancelOwn(t, u)
      PROVE  /\ UNCHANGED <<open, accounts, team, membership, invitation, tx>>
             /\ registered' \in [Teams -> SUBSET Users]
             /\ \A s \in Teams : registered'[s] \subseteq registered[s]
  BY <1>5 DEF CancelOwn
<1> QED BY <1>1, <1>2, <1>3, <1>4, <1>5 DEF RowsStep

\* Rows stay well typed and filled through every step.
LEMMA RowsKept ==
  ASSUME TypeOK, RowsAreFilled, [Next]_vars
  PROVE  TypeOK' /\ RowsAreFilled'
<1>1. ASSUME NEW w \in Requests, CheckStep(w) PROVE TypeOK' /\ RowsAreFilled'
  <2>1. PICK r : Reading(r) /\ Begin(w, r) /\ UNCHANGED tables BY <1>1, ChecksOnlyRead
  <2>2. r \in Handlers /\ tx' = [tx EXCEPT ![w] = r] BY <2>1 DEF Reading, Begin
  <2>3. tx' \in [Requests -> Handlers] /\ tx'[w] = r
        /\ \A v \in Requests : v # w => tx'[v] = tx[v] BY <2>2, HandlersKept
  <2>4. TypeOK' BY <2>1, <2>3 DEF TypeOK, tables
  <2>5. r.op \in {"create", "invite", "accept"} => r.u \in Users BY <2>1 DEF Reading
  <2> QED BY <2>1, <2>3, <2>4, <2>5 DEF RowsAreFilled, tables
<1>2. ASSUME NEW w \in Requests, CommitStep(w) PROVE TypeOK' /\ RowsAreFilled'
  <2> DEFINE Ended == /\ tx' \in [Requests -> Handlers] /\ tx'[w] = Idle
                      /\ \A v \in Requests : v # w => tx'[v] = tx[v]
  <2>1. End(w) => Ended BY HandlersKept, IdleIsAHandler DEF End
  <2>2. Idle.op \notin {"create", "invite", "accept"} BY DEF Idle
  <2> HIDE DEF Ended
  <2>3. CASE CreateCommit(w)
    <3>1. PICK t \in Teams :
            /\ team[t].status = "absent"
            /\ team' = [team EXCEPT ![t] = [status |-> "forming", captain |-> tx[w].u]]
            /\ InsertMembership(t, tx[w].u, "captain") BY <2>3 DEF CreateCommit
    <3>2. tx[w].u \in Users BY <2>3 DEF CreateCommit, RowsAreFilled
    <3>3. membership' \in [Memberships -> MembershipRows]
          /\ \A m \in Memberships : membership'[m].status = "active" => membership'[m].user \in Users
      BY <3>1, <3>2, InsertionAddsARow DEF RowsAreFilled
    <3>4. team' \in [Teams -> TeamRows] BY <3>1, <3>2 DEF TypeOK, TeamRows
    <3>5. Ended BY <2>1, <2>3 DEF CreateCommit
    <3> QED BY <2>2, <2>3, <3>3, <3>4, <3>5 DEF Ended, CreateCommit, TypeOK, RowsAreFilled
  <2>4. CASE DisbandCommit(w)
    <3>1. Ended BY <2>1, <2>4 DEF DisbandCommit
    <3>2. Close(LiveFor(tx[w].t), "cancelled") /\ Remove(ActiveOn(tx[w].t))
      BY <2>4 DEF DisbandCommit
    <3>3. team' \in [Teams -> TeamRows] BY <2>4 DEF DisbandCommit, TypeOK, TeamRows
    <3>4. invitation' \in [Invitations -> InvitationRows]
          /\ \A i \in Invitations : invitation'[i].status \in Live =>
               invitation[i].status \in Live /\ invitation'[i].user = invitation[i].user
      BY <3>2, ClosingKeepsRows DEF Live
    <3>5. membership' \in [Memberships -> MembershipRows]
          /\ \A m \in Memberships : membership'[m].status = "active" =>
               membership[m].status = "active" /\ membership'[m].user = membership[m].user
      BY <3>2, RemovalKeepsRows
    <3> QED BY <2>2, <2>4, <3>1, <3>3, <3>4, <3>5 DEF Ended, DisbandCommit, TypeOK, RowsAreFilled
  <2>5. CASE InviteCommit(w)
    <3>1. Ended BY <2>1, <2>5 DEF InviteCommit
    <3>2. tx[w] \in Handlers /\ tx[w].u \in Users
      BY <2>5 DEF InviteCommit, TypeOK, RowsAreFilled
    <3>3. PICK i \in Invitations :
            invitation' = [invitation EXCEPT
              ![i] = [team |-> tx[w].t, user |-> tx[w].u, status |-> tx[w].status,
                      lapsed |-> FALSE]] BY <2>5 DEF InviteCommit
    <3>4. invitation' \in [Invitations -> InvitationRows]
          /\ \A j \in Invitations : invitation'[j].status \in Live => invitation'[j].user \in Users
      BY <3>2, <3>3 DEF TypeOK, InvitationRows, Handlers, RowsAreFilled
    <3> QED BY <2>2, <2>5, <3>1, <3>4 DEF Ended, InviteCommit, TypeOK, RowsAreFilled
  <2>6. CASE CloseCommit(w, "revoke", "cancelled") \/ CloseCommit(w, "decline", "declined")
    <3>1. Ended BY <2>1, <2>6 DEF CloseCommit
    <3>2. invitation' \in [Invitations -> InvitationRows]
          /\ \A i \in Invitations : invitation'[i].status \in Live =>
               invitation[i].status \in Live /\ invitation'[i].user = invitation[i].user
      BY <2>6, ClosingKeepsRows DEF CloseCommit, Live
    <3> QED BY <2>2, <2>6, <3>1, <3>2 DEF Ended, CloseCommit, TypeOK, RowsAreFilled
  <2>7. CASE AcceptCommit(w)
    <3>1. Ended BY <2>1, <2>7 DEF AcceptCommit
    <3>2. tx[w] \in Handlers /\ tx[w].u \in Users
      BY <2>7 DEF AcceptCommit, TypeOK, RowsAreFilled
    <3>3. membership' \in [Memberships -> MembershipRows]
          /\ \A m \in Memberships : membership'[m].status = "active" => membership'[m].user \in Users
      <4>1. tx[w].t \in Teams \cup {NoTeam} BY <3>2 DEF Handlers
      <4> QED BY <2>7, <3>2, <4>1, InsertionAddsARow DEF AcceptCommit, RowsAreFilled
    <3>4. invitation' \in [Invitations -> InvitationRows]
          /\ \A i \in Invitations : invitation'[i].status \in Live =>
               invitation[i].status \in Live /\ invitation'[i].user = invitation[i].user
      BY <2>7, ClosingKeepsRows DEF AcceptCommit, Live
    <3> QED BY <2>2, <2>7, <3>1, <3>3, <3>4 DEF Ended, AcceptCommit, TypeOK, RowsAreFilled
  <2>8. CASE LapsedRollBack(w) \/ Refuse(w)
    <3>1. Ended BY <2>1, <2>8 DEF LapsedRollBack, Refuse
    <3> QED BY <2>2, <2>8, <3>1 DEF Ended, LapsedRollBack, Refuse, TypeOK, RowsAreFilled
  <2>9. CASE RemoveCommit(w)
    <3>1. Ended BY <2>1, <2>9 DEF RemoveCommit
    <3>2. membership' \in [Memberships -> MembershipRows]
          /\ \A m \in Memberships : membership'[m].status = "active" =>
               membership[m].status = "active" /\ membership'[m].user = membership[m].user
      BY <2>9, RemovalKeepsRows DEF RemoveCommit
    <3> QED BY <2>2, <2>9, <3>1, <3>2 DEF Ended, RemoveCommit, TypeOK, RowsAreFilled
  <2>10. CASE SubmitCommit(w)
    <3>1. Ended BY <2>1, <2>10 DEF SubmitCommit
    <3>2. tx[w].roster \in SUBSET Users BY DEF TypeOK, Handlers
    <3>3. registered' \in [Teams -> SUBSET Users] /\ team' \in [Teams -> TeamRows]
      BY <2>10, <3>2 DEF SubmitCommit, TypeOK, TeamRows
    <3> QED BY <2>2, <2>10, <3>1, <3>3 DEF Ended, SubmitCommit, TypeOK, RowsAreFilled
  <2>11. ASSUME NEW u \in Users, Signup(w, u) PROVE TypeOK' /\ RowsAreFilled'
    <3>1. invitation' \in [Invitations -> InvitationRows]
          /\ \A i \in Invitations : invitation'[i].status \in Live =>
               invitation[i].status \in Live /\ invitation'[i].user = invitation[i].user
      BY <2>11, ClosingKeepsRows DEF Signup, Live
    <3> QED BY <2>11, <3>1 DEF Signup, TypeOK, RowsAreFilled
  <2>12. ASSUME NEW t \in Teams, Withdraw(w, t) PROVE TypeOK' /\ RowsAreFilled'
    <3>1. registered' \in [Teams -> SUBSET Users] /\ team' \in [Teams -> TeamRows]
      BY <2>12 DEF Withdraw, TypeOK, TeamRows
    <3> QED BY <2>12, <3>1 DEF Withdraw, TypeOK, RowsAreFilled
  <2> QED BY <1>2, <2>3, <2>4, <2>5, <2>6, <2>7, <2>8, <2>9, <2>10, <2>11, <2>12 DEF CommitStep
<1>3. CASE RowsStep
  BY <1>3, RowsOnlyFall DEF TypeOK, RowsAreFilled
<1>4. ASSUME NEW i \in Invitations, Lapse(i) PROVE TypeOK' /\ RowsAreFilled'
  <2>1. invitation' \in [Invitations -> InvitationRows]
        /\ \A j \in Invitations : /\ invitation'[j].status = invitation[j].status
                                  /\ invitation'[j].user = invitation[j].user
    BY <1>4 DEF Lapse, TypeOK, InvitationRows
  <2> QED BY <1>4, <2>1 DEF Lapse, TypeOK, RowsAreFilled
<1>5. CASE UNCHANGED vars
  BY <1>5 DEF vars, TypeOK, RowsAreFilled
<1> QED BY <1>1, <1>2, <1>3, <1>4, <1>5 DEF Next, RowsStep

-----------------------------------------------------------------------------
(* Captains, sizes and registrations                                       *)

\* What every commit leaves: a team that exists keeps its captain, a membership
\* that exists keeps whom it names, and no handler turns to another request.
Lasting ==
  /\ \A t \in Teams : team[t].status # "absent" =>
       team'[t].status # "absent" /\ team'[t].captain = team[t].captain
  /\ \A m \in Memberships : membership[m].status # "absent" =>
       /\ membership'[m].status # "absent"
       /\ membership'[m].role = membership[m].role
       /\ membership'[m].user = membership[m].user
       /\ membership'[m].team = membership[m].team
  /\ \A v \in Requests : tx'[v] = tx[v] \/ tx'[v] = Idle

\* What was read for a removal or a submission stays true of the captain.
LEMMA ReadingsLast ==
  ASSUME IInv, Lasting
  PROVE  /\ RemovalsSpareCaptains' /\ SubmissionsAreSized'
         /\ \A w \in Requests :
              tx'[w].op = "submit" => team'[tx'[w].t].captain \in tx'[w].roster
<1>1. Idle.op = "idle" BY DEF Idle
<1>2. RemovalsSpareCaptains'
  BY <1>1 DEF IInv, RemovalsSpareCaptains, Lasting
<1>3. SubmissionsAreSized'
  BY <1>1 DEF IInv, SubmissionsAreSized, SizeAllowed, Lasting
<1>4. \A w \in Requests :
        tx'[w].op = "submit" => team'[tx'[w].t].captain \in tx'[w].roster
  BY <1>1 DEF IInv, CaptainAnchorsSubmission, SubmissionsAreSized, Lasting
<1> QED BY <1>2, <1>3, <1>4

\* A led team has its captain on its roster.
LEMMA CaptainsAreRostered ==
  ASSUME TeamsAreLed
  PROVE  \A t \in Teams :
           team[t].status \in {"forming", "submitted"} => team[t].captain \in Roster(t)
BY DEF TeamsAreLed, Roster, ActiveOn

\* Teams and rosters on which nothing is removed stay led.
LEMMA LedWhileUntouched ==
  ASSUME IInv, Lasting, NEW t \in Teams,
         team[t].status \in {"forming", "submitted"},
         \A m \in Memberships :
           membership[m].status = "active" /\ membership[m].role = "captain"
             /\ membership[m].team = t => membership'[m].status = "active"
  PROVE  \E m \in ActiveOn(t)' :
           membership'[m].user = team'[t].captain /\ membership'[m].role = "captain"
<1>1. PICK m \in ActiveOn(t) : membership[m].user = team[t].captain /\ membership[m].role = "captain"
  BY DEF IInv, TeamsAreLed
<1>2. m \in Memberships /\ membership[m].status = "active" /\ membership[m].team = t
  BY <1>1 DEF ActiveOn
<1>3. m \in ActiveOn(t)' BY <1>1, <1>2 DEF ActiveOn, Lasting
<1> QED BY <1>1, <1>2, <1>3 DEF Lasting

LeadInv ==
  /\ TeamsAreLed /\ RemovalsSpareCaptains /\ SubmissionsAreSized /\ RegisteredWereSubmitted
  /\ CaptainAnchorsSubmission

\* It is enough that teams stay led and that live rows are of a team submitted.
LEMMA LeadersSuffice ==
  ASSUME IInv, Lasting, TeamsAreLed',
         \A t \in Teams : registered'[t] # {} => team'[t].status \in {"submitted", "cancelled"}
  PROVE  LeadInv'
<1>1. /\ RemovalsSpareCaptains' /\ SubmissionsAreSized'
      /\ \A w \in Requests :
           tx'[w].op = "submit" => team'[tx'[w].t].captain \in tx'[w].roster
  BY ReadingsLast
<1>2. RegisteredWereSubmitted' BY DEF RegisteredWereSubmitted
<1>3. \A t \in Teams :
        team'[t].status \in {"forming", "submitted"} => team'[t].captain \in Roster(t)'
  BY DEF TeamsAreLed, Roster, ActiveOn
<1> QED BY <1>1, <1>2, <1>3 DEF LeadInv, CaptainAnchorsSubmission

\* A check writes a Reading and nothing else.
LEMMA ReadingsKeepLeaders ==
  ASSUME IInv, NEW w \in Requests, NEW r, Reading(r), Begin(w, r), UNCHANGED tables
  PROVE  LeadInv'
<1>1. r \in Handlers /\ tx' = [tx EXCEPT ![w] = r] BY DEF Reading, Begin
<1>2. tx'[w] = r /\ \A v \in Requests : v # w => tx'[v] = tx[v]
  BY <1>1, HandlersKept DEF IInv
<1>3. RemovalsSpareCaptains'
  BY <1>2 DEF IInv, RemovalsSpareCaptains, Reading, Removable, tables
<1>4. SubmissionsAreSized'
  BY <1>2 DEF IInv, SubmissionsAreSized, SizeAllowed, Reading, Forming, tables
<1>5. r.op = "submit" => team[r.t].captain \in r.roster
  BY CaptainsAreRostered DEF IInv, Reading, Forming
<1>6. \A v \in Requests : tx'[v].op = "submit" => team'[tx'[v].t].captain \in tx'[v].roster
  BY <1>2, <1>5 DEF IInv, CaptainAnchorsSubmission, tables
<1>7. TeamsAreLed' /\ RegisteredWereSubmitted'
  BY DEF IInv, TeamsAreLed, ActiveOn, RegisteredWereSubmitted, tables
<1>8. CaptainAnchorsSubmission'
  BY <1>6 DEF IInv, CaptainAnchorsSubmission, Roster, ActiveOn, tables
<1> QED BY <1>3, <1>4, <1>7, <1>8 DEF LeadInv

\* Every commit keeps the leaders: the cases that touch teams or memberships.
LEMMA CommitsKeepLeaders ==
  ASSUME IInv, NEW w \in Requests, CommitStep(w)
  PROVE  LeadInv'
<1> DEFINE Ended == \A v \in Requests : tx'[v] = tx[v] \/ tx'[v] = Idle
<1>1. End(w) => Ended BY HandlersKept, IdleIsAHandler DEF End, IInv
<1>2. TypeOK /\ RegisteredWereSubmitted BY DEF IInv
<1> HIDE DEF Ended
<1>3. CASE CreateCommit(w)
  <2>1. PICK t \in Teams :
          /\ team[t].status = "absent"
          /\ team' = [team EXCEPT ![t] = [status |-> "forming", captain |-> tx[w].u]]
          /\ InsertMembership(t, tx[w].u, "captain") BY <1>3 DEF CreateCommit
  <2>2. tx[w].u \in Users BY <1>3 DEF CreateCommit, IInv, RowsAreFilled
  <2>3. PICK m \in Memberships :
          /\ membership[m].status = "absent"
          /\ membership'[m] =
               [team |-> t, user |-> tx[w].u, role |-> "captain", status |-> "active"]
          /\ \A n \in Memberships : n # m => membership'[n] = membership[n]
    BY <1>2, <2>1, <2>2, InsertionAddsARow
  <2>4. /\ team'[t] = [status |-> "forming", captain |-> tx[w].u]
        /\ \A s \in Teams : s # t => team'[s] = team[s]
    BY <1>2, <2>1 DEF TypeOK
  <2>5. Lasting BY <1>1, <1>3, <2>1, <2>3, <2>4 DEF CreateCommit, Lasting, Ended
  <2>6. ASSUME NEW s \in Teams, team'[s].status \in {"forming", "submitted"}
        PROVE  \E n \in ActiveOn(s)' :
                 membership'[n].user = team'[s].captain /\ membership'[n].role = "captain"
    <3>1. CASE s = t
      BY <2>3, <2>4, <3>1 DEF ActiveOn
    <3>2. CASE s # t
      BY <2>3, <2>4, <2>5, <2>6, <3>2, LedWhileUntouched
    <3> QED BY <3>1, <3>2
  <2>7. TeamsAreLed' BY <2>6 DEF TeamsAreLed
  <2>8. \A s \in Teams : registered'[s] # {} => team'[s].status \in {"submitted", "cancelled"}
    BY <1>2, <1>3, <2>1, <2>4 DEF CreateCommit, RegisteredWereSubmitted
  <2> QED BY <2>5, <2>7, <2>8, LeadersSuffice
<1>4. CASE DisbandCommit(w)
  <2>1. Remove(ActiveOn(tx[w].t)) /\ team' = [team EXCEPT ![tx[w].t].status = "cancelled"]
    BY <1>4 DEF DisbandCommit
  <2>2. \A s \in Teams : /\ team'[s].captain = team[s].captain
                         /\ s # tx[w].t => team'[s] = team[s]
                         /\ s = tx[w].t => team'[s].status = "cancelled"
    BY <1>2, <2>1 DEF TypeOK, TeamRows
  <2>3. Lasting
    BY <1>1, <1>2, <1>4, <2>1, <2>2, RemovalKeepsRows DEF DisbandCommit, Lasting, Ended
  <2>4. ASSUME NEW s \in Teams, team'[s].status \in {"forming", "submitted"}
        PROVE  \E n \in ActiveOn(s)' :
                 membership'[n].user = team'[s].captain /\ membership'[n].role = "captain"
    <3>1. s # tx[w].t /\ team'[s] = team[s] BY <2>2, <2>4
    <3>2. \A m \in Memberships :
            membership[m].status = "active" /\ membership[m].team = s =>
              membership'[m].status = "active"
      BY <1>2, <2>1, <3>1, RemovalKeepsRows DEF ActiveOn
    <3> QED BY <2>3, <2>4, <3>1, <3>2, LedWhileUntouched
  <2>5. TeamsAreLed' BY <2>4 DEF TeamsAreLed
  <2>6. \A s \in Teams : registered'[s] # {} => team'[s].status \in {"submitted", "cancelled"}
    BY <1>2, <1>4, <2>2 DEF DisbandCommit, RegisteredWereSubmitted
  <2> QED BY <2>3, <2>5, <2>6, LeadersSuffice
<1>5. CASE \/ InviteCommit(w) \/ LapsedRollBack(w) \/ Refuse(w)
           \/ CloseCommit(w, "revoke", "cancelled") \/ CloseCommit(w, "decline", "declined")
  <2>1. End(w) /\ UNCHANGED <<team, membership, registered>>
    BY <1>5 DEF InviteCommit, LapsedRollBack, Refuse, CloseCommit
  <2>2. Lasting BY <1>1, <2>1 DEF Lasting, Ended
  <2>3. TeamsAreLed' BY <2>1 DEF IInv, TeamsAreLed, ActiveOn
  <2>4. RegisteredWereSubmitted' BY <1>2, <2>1 DEF RegisteredWereSubmitted
  <2> QED BY <2>2, <2>3, <2>4, LeadersSuffice DEF RegisteredWereSubmitted
<1>6. CASE AcceptCommit(w)
  <2>1. tx[w].u \in Users /\ tx[w].t \in Teams \cup {NoTeam}
    BY <1>2, <1>6 DEF AcceptCommit, IInv, RowsAreFilled, TypeOK, Handlers
  <2>2. PICK m \in Memberships :
          /\ membership[m].status = "absent"
          /\ membership'[m] =
               [team |-> tx[w].t, user |-> tx[w].u, role |-> "member", status |-> "active"]
          /\ \A n \in Memberships : n # m => membership'[n] = membership[n]
    BY <1>2, <1>6, <2>1, InsertionAddsARow DEF AcceptCommit
  <2>3. Lasting BY <1>1, <1>6, <2>2 DEF AcceptCommit, Lasting, Ended
  <2>4. TeamsAreLed'
    BY <1>6, <2>2, <2>3, LedWhileUntouched DEF AcceptCommit, TeamsAreLed
  <2>5. RegisteredWereSubmitted' BY <1>2, <1>6 DEF AcceptCommit, RegisteredWereSubmitted
  <2> QED BY <2>3, <2>4, <2>5, LeadersSuffice DEF RegisteredWereSubmitted
<1>7. CASE RemoveCommit(w)
  <2>1. /\ Remove({tx[w].id})
        /\ tx[w].id \in Memberships /\ membership[tx[w].id].role = "member"
    BY <1>7 DEF RemoveCommit, IInv, RemovalsSpareCaptains
  <2>2. Lasting BY <1>1, <1>2, <1>7, <2>1, RemovalKeepsRows DEF RemoveCommit, Lasting, Ended
  <2>3. \A m \in Memberships :
          membership[m].status = "active" /\ membership[m].role = "captain" =>
            membership'[m].status = "active"
    BY <1>2, <2>1, RemovalKeepsRows
  <2>4. TeamsAreLed'
    BY <1>7, <2>2, <2>3, LedWhileUntouched DEF RemoveCommit, TeamsAreLed
  <2>5. RegisteredWereSubmitted' BY <1>2, <1>7 DEF RemoveCommit, RegisteredWereSubmitted
  <2> QED BY <2>2, <2>4, <2>5, LeadersSuffice DEF RegisteredWereSubmitted
<1>8. CASE SubmitCommit(w)
  <2> DEFINE t == tx[w].t
  <2>1. t \in Teams /\ team[t].status = "forming"
    BY <1>8 DEF SubmitCommit, Submittable, Forming, IInv, SubmissionsAreSized
  <2>2. /\ team'[t].status = "submitted" /\ team'[t].captain = team[t].captain
        /\ \A s \in Teams : s # t => team'[s] = team[s]
    BY <1>2, <1>8, <2>1 DEF SubmitCommit, TypeOK, TeamRows
  <2>3. registered'[t] = tx[w].roster /\ \A s \in Teams : s # t => registered'[s] = registered[s]
    BY <1>2, <1>8, <2>1 DEF SubmitCommit, TypeOK
  <2>4. End(w) /\ UNCHANGED membership BY <1>8 DEF SubmitCommit
  <2> HIDE DEF t
  <2>5. Lasting BY <1>1, <2>1, <2>2, <2>4 DEF Lasting, Ended
  <2>6. \A s \in Teams : team'[s].status \in {"forming", "submitted"} =>
          team[s].status \in {"forming", "submitted"} BY <2>1, <2>2
  <2>7. TeamsAreLed' BY <2>4, <2>5, <2>6, LedWhileUntouched DEF TeamsAreLed
  <2>8. \A s \in Teams : registered'[s] # {} => team'[s].status \in {"submitted", "cancelled"}
    BY <1>2, <2>2, <2>3 DEF RegisteredWereSubmitted
  <2> QED BY <2>5, <2>7, <2>8, LeadersSuffice
<1>9. ASSUME NEW u \in Users, Signup(w, u) PROVE LeadInv'
  <2>1. Lasting BY <1>9 DEF Signup, Lasting
  <2>2. TeamsAreLed' BY <1>9 DEF Signup, IInv, TeamsAreLed, ActiveOn
  <2>3. RegisteredWereSubmitted' BY <1>2, <1>9 DEF Signup, RegisteredWereSubmitted
  <2> QED BY <2>1, <2>2, <2>3, LeadersSuffice DEF RegisteredWereSubmitted
<1>10. ASSUME NEW t \in Teams, Withdraw(w, t) PROVE LeadInv'
  <2>1. /\ team[t].status = "submitted"
        /\ team'[t].status = "forming" /\ team'[t].captain = team[t].captain
        /\ \A s \in Teams : s # t => team'[s] = team[s]
    BY <1>2, <1>10 DEF Withdraw, TypeOK, TeamRows
  <2>2. Lasting BY <1>10, <2>1 DEF Withdraw, Lasting
  <2>3. \A s \in Teams : team'[s].status \in {"forming", "submitted"} =>
          team[s].status \in {"forming", "submitted"} BY <2>1
  <2>4. TeamsAreLed' BY <1>10, <2>2, <2>3, LedWhileUntouched DEF Withdraw, TeamsAreLed
  <2>5. \A s \in Teams : registered'[s] # {} => team'[s].status \in {"submitted", "cancelled"}
    BY <1>2, <1>10, <2>1 DEF Withdraw, TypeOK, RegisteredWereSubmitted
  <2> QED BY <2>2, <2>4, <2>5, LeadersSuffice
<1> QED BY <1>3, <1>4, <1>5, <1>6, <1>7, <1>8, <1>9, <1>10 DEF CommitStep

-----------------------------------------------------------------------------
(* The theorems                                                            *)

LEMMA InitInv == Init => IInv
<1> SUFFICES ASSUME Init PROVE IInv OBVIOUS
<1>1. TypeOK
  BY IdleIsAHandler DEF Init, TypeOK, TeamRows, MembershipRows, InvitationRows,
     NoTeamRow, NoMembership, NoInvitation
<1>2. RowsAreFilled
  BY DEF Init, RowsAreFilled, NoMembership, NoInvitation, Idle, Live
<1>3. LeadInv
  BY DEF Init, LeadInv, TeamsAreLed, RemovalsSpareCaptains, SubmissionsAreSized,
     RegisteredWereSubmitted, CaptainAnchorsSubmission, NoTeamRow, Idle
<1> QED BY <1>1, <1>2, <1>3 DEF IInv, LeadInv

LEMMA NextInv == IInv /\ [Next]_vars => IInv'
<1> SUFFICES ASSUME IInv, [Next]_vars PROVE IInv' OBVIOUS
<1>1. TypeOK' /\ RowsAreFilled' BY RowsKept DEF IInv
<1>2. ASSUME NEW w \in Requests, CheckStep(w) PROVE LeadInv'
  BY <1>2, ChecksOnlyRead, ReadingsKeepLeaders DEF IInv
<1>3. ASSUME NEW w \in Requests, CommitStep(w) PROVE LeadInv'
  BY <1>3, CommitsKeepLeaders
<1>4. ASSUME RowsStep \/ (\E i \in Invitations : Lapse(i)) \/ UNCHANGED vars
      PROVE  LeadInv'
  <2>1. /\ UNCHANGED <<team, membership, tx>>
        /\ \A t \in Teams : registered'[t] \subseteq registered[t]
    BY <1>4, RowsOnlyFall DEF IInv, Lapse, vars
  <2>2. Lasting BY <2>1 DEF Lasting
  <2>3. TeamsAreLed' BY <2>1 DEF IInv, TeamsAreLed, ActiveOn
  <2>4. RegisteredWereSubmitted' BY <2>1 DEF IInv, RegisteredWereSubmitted
  <2> QED BY <2>2, <2>3, <2>4, LeadersSuffice DEF RegisteredWereSubmitted
<1>5. LeadInv' BY <1>2, <1>3, <1>4 DEF Next, RowsStep
<1> QED BY <1>1, <1>5 DEF IInv, LeadInv

\* Every table and every handler keeps values of its own kind.
THEOREM TeamTypeCorrect == Spec => []TypeOK
<1>1. IInv => TypeOK BY DEF IInv
<1> QED BY <1>1, InitInv, NextInv, PTL DEF Spec

\* However handlers overlap, the captain is on the roster of a team that is not
\* disbanded and in every submission of it under way: no sequence of invitations,
\* removals, withdrawals and cancellations orphans the payment's anchor.
THEOREM CaptainsAnchor == Spec => []CaptainAnchorsSubmission
<1>1. IInv => CaptainAnchorsSubmission BY DEF IInv
<1> QED BY <1>1, InitInv, NextInv, PTL DEF Spec

\* Live rows of a team fall away in any order, but come about only where there are
\* none, together, within the competition's bounds and with the captain's, however
\* far overlapping invitations have taken the roster.
THEOREM RegistrationsComeTogether == Spec => RegisteredTogether
<1> DEFINE Together(t) ==
      \/ registered'[t] \subseteq registered[t]
      \/ /\ registered[t] = {}
         /\ Cardinality(registered'[t]) \in MinTeamSize .. MaxTeamSize
         /\ team[t].captain \in registered'[t]
<1>1. ASSUME IInv, Next, NEW t \in Teams PROVE Together(t)
  <2>1. TypeOK BY <1>1 DEF IInv
  <2>2. ASSUME NEW w \in Requests, SubmitCommit(w) PROVE Together(t)
    <3>1. /\ tx[w].t \in Teams /\ team[tx[w].t].status = "forming"
          /\ Cardinality(tx[w].roster) \in MinTeamSize .. MaxTeamSize
          /\ team[tx[w].t].captain \in tx[w].roster
      BY <1>1, <2>2 DEF SubmitCommit, Submittable, Forming, IInv, SubmissionsAreSized, SizeAllowed
    <3>2. registered[tx[w].t] = {} BY <1>1, <3>1 DEF IInv, RegisteredWereSubmitted
    <3>3. registered' = [registered EXCEPT ![tx[w].t] = tx[w].roster]
      BY <2>2 DEF SubmitCommit
    <3> QED BY <2>1, <3>1, <3>2, <3>3 DEF TypeOK
  <2>3. ASSUME NEW w \in Requests, NEW s \in Teams, Withdraw(w, s) PROVE Together(t)
    BY <2>1, <2>3 DEF Withdraw, TypeOK
  <2>4. ASSUME NEW w \in Requests, CheckStep(w) PROVE Together(t)
    BY <1>1, <2>4, ChecksOnlyRead DEF IInv, tables
  <2>5. CASE RowsStep BY <2>1, <2>5, RowsOnlyFall
  <2>6. CASE UNCHANGED registered BY <2>6
  <2> HIDE DEF Together
  <2> QED BY <1>1, <2>2, <2>3, <2>4, <2>5, <2>6
          DEF Next, RowsStep, CommitStep, CreateCommit, DisbandCommit, InviteCommit, CloseCommit,
              AcceptCommit, LapsedRollBack, RemoveCommit, Refuse, Signup, Lapse
<1>2. IInv /\ [Next]_vars => [\A t \in Teams : Together(t)]_vars BY <1>1
<1> QED BY <1>2, InitInv, NextInv, PTL DEF Spec, RegisteredTogether

\* No handler that was under way revives a disbanded team.
THEOREM DisbandingIsFinal == Spec => DisbandedForGood
<1>1. ASSUME IInv, Next, NEW t \in Teams, team[t].status = "cancelled"
      PROVE  team'[t].status = "cancelled"
  <2>1. TypeOK BY <1>1 DEF IInv
  <2>2. ASSUME NEW w \in Requests, CheckStep(w) PROVE team'[t].status = "cancelled"
    BY <1>1, <2>2, ChecksOnlyRead DEF IInv, tables
  <2>3. ASSUME NEW w \in Requests, CommitStep(w) PROVE team'[t].status = "cancelled"
    <3>1. CASE CreateCommit(w) BY <1>1, <2>1, <3>1 DEF CreateCommit, TypeOK
    <3>2. CASE DisbandCommit(w) BY <1>1, <2>1, <3>2 DEF DisbandCommit, TypeOK, TeamRows
    <3>3. CASE SubmitCommit(w)
      BY <1>1, <2>1, <3>3 DEF SubmitCommit, Submittable, Forming, TypeOK
    <3>4. ASSUME NEW s \in Teams, Withdraw(w, s) PROVE team'[t].status = "cancelled"
      BY <1>1, <2>1, <3>4 DEF Withdraw, TypeOK
    <3>5. CASE team' = team BY <1>1, <3>5
    <3> QED BY <2>3, <3>1, <3>2, <3>3, <3>4, <3>5 DEF CommitStep, InviteCommit,
          CloseCommit, AcceptCommit, LapsedRollBack, RemoveCommit, Refuse, Signup
  <2>4. CASE RowsStep BY <1>1, <2>1, <2>4, RowsOnlyFall
  <2> QED BY <1>1, <2>2, <2>3, <2>4 DEF Next, RowsStep, Lapse
<1>2. IInv /\ [Next]_vars =>
        [\A t \in Teams : team[t].status = "cancelled" => team'[t].status = "cancelled"]_vars
  BY <1>1
<1> QED BY <1>2, InitInv, NextInv, PTL DEF Spec, DisbandedForGood

-----------------------------------------------------------------------------
(* One handler at a time                                                   *)

SerialData ==
  /\ OneMembershipEach /\ RowsOfStandingTeams /\ OnlyTheSubmittedAreRegistered
  /\ RegisteredAreMembers /\ ClaimedAtSignup

-----------------------------------------------------------------------------
(* Reading                                                                 *)

\* A check records what is so, and for an invitation that there is a seat.
LEMMA ChecksReadWhatHolds ==
  ASSUME SerialInv, NEW w \in Requests, CheckStep(w)
  PROVE  /\ UNCHANGED tables
         /\ \E r : /\ r \in Handlers /\ Begin(w, r) /\ Holds(r)
                   /\ r.op = "invite" => HasRoom(r.t)
<1> DEFINE Goal == \E r : /\ r \in Handlers /\ Begin(w, r) /\ Holds(r)
                          /\ r.op = "invite" => HasRoom(r.t)
<1> USE DEF Handlers, Ops, Live, Idle, OnTeam, OnRow, Holds, MayJoin
<1>1. TypeOK /\ RowsAreFilled /\ RowsOfStandingTeams BY DEF SerialInv, IInv
<1>2. UNCHANGED tables BY <1>1, ChecksOnlyRead
<1>3. ASSUME NEW u \in Users, CreateCheck(w, u) PROVE Goal
  <2> DEFINE r == [Idle EXCEPT !.op = "create", !.u = u]
  <2>1. r \in Handlers /\ r.op = "create" /\ r.u = u OBVIOUS
  <2>2. Holds(r) BY <1>3, <2>1 DEF CreateCheck
  <2> QED BY <1>3, <2>1, <2>2 DEF CreateCheck
<1>4. ASSUME NEW t \in Teams, DisbandCheck(w, t) PROVE Goal
  <2>1. OnTeam("disband", t) \in Handlers /\ Holds(OnTeam("disband", t))
    BY <1>4 DEF DisbandCheck
  <2> QED BY <1>4, <2>1 DEF DisbandCheck
<1>5. ASSUME NEW t \in Teams, SubmitCheck(w, t) PROVE Goal
  <2> DEFINE r == [OnTeam("submit", t) EXCEPT !.roster = Roster(t)]
  <2>1. Roster(t) \subseteq Users BY <1>1, RostersAreUsers
  <2>2. r \in Handlers /\ r.op = "submit" /\ r.t = t /\ r.roster = Roster(t) BY <2>1
  <2>3. Holds(r) BY <1>5, <2>2 DEF SubmitCheck
  <2> QED BY <1>5, <2>2, <2>3 DEF SubmitCheck
<1>6. ASSUME NEW t \in Teams, NEW u \in Users, InviteCheck(w, t, u) PROVE Goal
  <2>1. PICK s \in Resolutions(u) : Begin(w, [OnRow("invite", t, u, NoId) EXCEPT !.status = s])
    BY <1>6 DEF InviteCheck
  <2>2. s \in Live /\ (s = "pending_claim" => u \notin accounts) BY DEF Resolutions
  <2> DEFINE r == [OnRow("invite", t, u, NoId) EXCEPT !.status = s]
  <2>3. r \in Handlers /\ r.op = "invite" /\ r.t = t /\ r.u = u /\ r.status = s BY <2>2
  <2>4. Holds(r) /\ HasRoom(r.t) BY <1>6, <2>2, <2>3 DEF InviteCheck
  <2> QED BY <2>1, <2>3, <2>4
<1>7. ASSUME NEW i \in Invitations, RevokeCheck(w, i) \/ DeclineCheck(w, i) PROVE Goal
  <2> DEFINE t == invitation[i].team
  <2>1. t \in Teams \cup {NoTeam} BY <1>1 DEF TypeOK, InvitationRows
  <2>2. /\ OnRow("revoke", t, NoUser, i) \in Handlers /\ Holds(OnRow("revoke", t, NoUser, i))
        /\ OnRow("decline", t, NoUser, i) \in Handlers /\ Holds(OnRow("decline", t, NoUser, i))
    BY <2>1
  <2>3. OnRow("revoke", t, NoUser, i).op # "invite" /\ OnRow("decline", t, NoUser, i).op # "invite"
    OBVIOUS
  <2> QED BY <1>7, <2>2, <2>3 DEF RevokeCheck, DeclineCheck
<1>8. ASSUME NEW i \in Invitations, AcceptCheck(w, i) PROVE Goal
  <2> DEFINE t == invitation[i].team  u == invitation[i].user  r == OnRow("accept", t, u, i)
  <2>1. invitation[i].status \in Live BY <1>8 DEF AcceptCheck
  <2>2. t \in Teams /\ u \in Users
    BY <1>1, <2>1 DEF RowsOfStandingTeams, Standing, RowsAreFilled
  <2>3. i \in LiveFor(t) BY <2>1 DEF LiveFor
  <2>4. r \in Handlers /\ r.op = "accept" /\ r.t = t /\ r.u = u /\ r.id = i BY <2>2
  <2>5. Holds(r) BY <1>8, <2>2, <2>3, <2>4 DEF AcceptCheck
  <2> QED BY <1>8, <2>4, <2>5 DEF AcceptCheck
<1>9. ASSUME NEW i \in Invitations, LapsedCheck(w, i) PROVE Goal
  <2> DEFINE t == invitation[i].team  u == invitation[i].user  r == OnRow("lapsed", t, u, i)
  <2>1. t \in Teams \cup {NoTeam} /\ u \in Users \cup {NoUser} BY <1>1 DEF TypeOK, InvitationRows
  <2>2. r \in Handlers /\ r.op = "lapsed" BY <2>1
  <2>3. Holds(r) BY <2>2
  <2> QED BY <1>9, <2>2, <2>3 DEF LapsedCheck
<1>10. ASSUME NEW m \in Memberships, RemoveCheck(w, m) PROVE Goal
  <2> DEFINE t == membership[m].team  r == OnRow("remove", t, NoUser, m)
  <2>1. t \in Teams \cup {NoTeam} BY <1>1 DEF TypeOK, MembershipRows
  <2>2. r \in Handlers /\ r.op = "remove" /\ r.id = m BY <2>1
  <2>3. Holds(r) BY <1>10, <2>2 DEF RemoveCheck
  <2> QED BY <1>10, <2>2, <2>3 DEF RemoveCheck
<1> HIDE DEF Handlers, Ops, Live, Idle, OnTeam, OnRow, Holds, MayJoin, Goal
<1>11. Goal BY <1>3, <1>4, <1>5, <1>6, <1>7, <1>8, <1>9, <1>10 DEF CheckStep
<1> QED BY <1>2, <1>11 DEF Goal

\* A handler that has ended holds nothing, and no other handler runs.
LEMMA NothingHeldAtTheEnd ==
  ASSUME OneHandlerAtATime, TypeOK, NEW w \in Requests, End(w)
  PROVE  /\ \A v \in Requests : tx'[v] = Idle
         /\ ReadingsHold' /\ SeatsHeld'
<1>1. \A v \in Requests : tx'[v] = Idle
  <2>1. tx'[w] = Idle BY HandlersKept, IdleIsAHandler DEF End
  <2> QED BY <2>1 DEF OneHandlerAtATime
<1> QED BY <1>1 DEF ReadingsHold, SeatsHeld, Holds, Idle

\* Closing invitations leaves their teams, users and expiry.
LEMMA ClosingMovesOnlyStatus ==
  ASSUME TypeOK, NEW I, NEW v, Close(I, v)
  PROVE  \A i \in Invitations :
           /\ invitation'[i].user = invitation[i].user
           /\ invitation'[i].team = invitation[i].team
           /\ invitation'[i].lapsed = invitation[i].lapsed
           /\ invitation'[i].status = IF i \in I THEN v ELSE invitation[i].status
BY DEF TypeOK, Close, InvitationRows

-----------------------------------------------------------------------------
(* Writing                                                                 *)

\* Tables that were only read are as they were.
LEMMA ReadingKeepsData ==
  ASSUME SerialData, UNCHANGED tables
  PROVE  SerialData'
BY DEF tables, SerialData, OneMembershipEach, RowsOfStandingTeams, Standing,
       OnlyTheSubmittedAreRegistered, RegisteredAreMembers, Roster, ActiveOn, ClaimedAtSignup

\* A new member of a standing team that is not submitted, who was on none.
LEMMA JoiningKeepsRosters ==
  ASSUME OneMembershipEach, RowsOfStandingTeams, NEW t, NEW u, ~OnATeam(u),
         NEW m \in Memberships, membership[m].status = "absent",
         NEW role, membership'[m] = [team |-> t, user |-> u, role |-> role, status |-> "active"],
         \A n \in Memberships : n # m => membership'[n] = membership[n]
  PROVE  /\ OneMembershipEach'
         /\ \A s : s # t => Roster(s)' = Roster(s)
<1>1. \A n \in Memberships : membership[n].status = "active" => membership[n].user # u
  BY DEF RowsOfStandingTeams, Standing, OnATeam, Roster, ActiveOn
<1>2. OneMembershipEach'
  <2> SUFFICES ASSUME NEW a \in Memberships, NEW b \in Memberships,
                      membership'[a].status = "active", membership'[b].status = "active",
                      membership'[a].user = membership'[b].user
               PROVE  a = b
    BY DEF OneMembershipEach
  <2>1. CASE a # m /\ b # m BY <2>1 DEF OneMembershipEach
  <2>2. CASE a = m \/ b = m BY <1>1, <2>2
  <2> QED BY <2>1, <2>2
<1>3. ASSUME NEW s, s # t PROVE Roster(s)' = Roster(s)
  <2>1. ActiveOn(s)' = ActiveOn(s) BY <1>3 DEF ActiveOn
  <2>2. \A n \in ActiveOn(s) : membership'[n].user = membership[n].user
    BY <1>3 DEF ActiveOn
  <2> QED BY <2>1, <2>2 DEF Roster
<1> QED BY <1>2, <1>3

LEMMA CreateKeepsData ==
  ASSUME IInv, SerialData, NEW w \in Requests, CreateCommit(w), Holds(tx[w])
  PROVE  SerialData'
<1> USE DEF SerialData
<1>0. TypeOK /\ tx[w].u \in Users /\ ~OnATeam(tx[w].u)
  BY DEF IInv, RowsAreFilled, Holds, MayJoin, CreateCommit
<1>1. PICK t \in Teams :
        /\ team[t].status = "absent"
        /\ team' = [team EXCEPT ![t] = [status |-> "forming", captain |-> tx[w].u]]
        /\ InsertMembership(t, tx[w].u, "captain") BY DEF CreateCommit
<1>2. PICK m \in Memberships :
        /\ membership[m].status = "absent"
        /\ membership'[m] =
             [team |-> t, user |-> tx[w].u, role |-> "captain", status |-> "active"]
        /\ \A n \in Memberships : n # m => membership'[n] = membership[n]
  BY <1>0, <1>1, InsertionAddsARow
<1>3. /\ team'[t].status = "forming" /\ \A s \in Teams : s # t => team'[s] = team[s]
      /\ UNCHANGED <<invitation, registered, accounts>>
  BY <1>0, <1>1 DEF TypeOK, CreateCommit
<1>4. OneMembershipEach' /\ \A s : s # t => Roster(s)' = Roster(s)
  BY <1>0, <1>2, JoiningKeepsRosters
<1>5. \A s : Standing(s) => Standing(s)' BY <1>1, <1>3 DEF Standing
<1>6. RowsOfStandingTeams'
  <2>1. Standing(t)' BY <1>3 DEF Standing
  <2> QED BY <1>2, <1>3, <1>5, <2>1 DEF RowsOfStandingTeams
<1>7. OnlyTheSubmittedAreRegistered' BY <1>1, <1>3 DEF OnlyTheSubmittedAreRegistered
<1>8. RegisteredAreMembers'
  <2>1. registered[t] = {} BY <1>1 DEF OnlyTheSubmittedAreRegistered
  <2> QED BY <1>3, <1>4, <2>1 DEF RegisteredAreMembers
<1> QED BY <1>3, <1>4, <1>6, <1>7, <1>8 DEF ClaimedAtSignup

LEMMA DisbandKeepsData ==
  ASSUME IInv, SerialData, NEW w \in Requests, DisbandCommit(w), Holds(tx[w])
  PROVE  SerialData'
<1> USE DEF SerialData
<1>0. PICK t : t = tx[w].t OBVIOUS
<1>1. TypeOK /\ t \in Teams /\ team[t].status = "forming"
  BY <1>0 DEF IInv, Holds, DisbandCommit, Forming
<1>2. /\ Close(LiveFor(t), "cancelled") /\ Remove(ActiveOn(t))
      /\ team' = [team EXCEPT ![t].status = "cancelled"] /\ UNCHANGED <<accounts, registered>>
  BY <1>0 DEF DisbandCommit
<1>3. /\ team'[t].status = "cancelled" /\ \A s \in Teams : s # t => team'[s] = team[s]
  BY <1>1, <1>2 DEF TypeOK, TeamRows
<1>4. \A i \in Invitations :
        /\ invitation'[i].user = invitation[i].user
        /\ invitation'[i].team = invitation[i].team
        /\ invitation'[i].lapsed = invitation[i].lapsed
        /\ invitation'[i].status \in Live =>
             invitation'[i].status = invitation[i].status /\ invitation[i].team # t
  BY <1>1, <1>2, ClosingMovesOnlyStatus DEF LiveFor, Live
<1>5. \A m \in Memberships :
        /\ membership'[m].user = membership[m].user
        /\ membership'[m].team = membership[m].team
        /\ membership'[m].status = "active" <=>
             membership[m].status = "active" /\ membership[m].team # t
  BY <1>1, <1>2, RemovalKeepsRows DEF ActiveOn
<1>6. OneMembershipEach' BY <1>5 DEF OneMembershipEach
<1>7. \A s : s # t /\ Standing(s) => Standing(s)' BY <1>3 DEF Standing
<1>8. RowsOfStandingTeams' BY <1>4, <1>5, <1>7 DEF RowsOfStandingTeams
<1>9. OnlyTheSubmittedAreRegistered' BY <1>1, <1>2, <1>3 DEF OnlyTheSubmittedAreRegistered
<1>10. RegisteredAreMembers'
  <2>1. ASSUME NEW s, s # t PROVE Roster(s)' = Roster(s)
    <3>1. ActiveOn(s)' = ActiveOn(s) BY <1>5, <2>1 DEF ActiveOn
    <3>2. \A m \in ActiveOn(s) : membership'[m].user = membership[m].user
      BY <1>5 DEF ActiveOn
    <3> QED BY <3>1, <3>2 DEF Roster
  <2>2. registered[t] = {} BY <1>1 DEF OnlyTheSubmittedAreRegistered
  <2> QED BY <1>2, <2>1, <2>2 DEF RegisteredAreMembers
<1>11. ClaimedAtSignup' BY <1>2, <1>4 DEF ClaimedAtSignup, Live
<1> QED BY <1>6, <1>8, <1>9, <1>10, <1>11

LEMMA InviteKeepsData ==
  ASSUME IInv, SerialData, NEW w \in Requests, InviteCommit(w), Holds(tx[w])
  PROVE  SerialData'
<1> USE DEF SerialData
<1>0. PICK h : h = tx[w] OBVIOUS
<1>1. TypeOK /\ h.t \in Teams /\ team[h.t].status = "forming" /\ h.status \in Live
      /\ (h.status = "pending_claim" => h.u \notin accounts)
  BY <1>0 DEF IInv, Holds, InviteCommit, Forming
<1>2. PICK i \in Invitations :
        /\ invitation[i].status = "absent"
        /\ invitation' = [invitation EXCEPT
             ![i] = [team |-> h.t, user |-> h.u, status |-> h.status, lapsed |-> FALSE]]
  BY <1>0 DEF InviteCommit
<1>3. /\ invitation'[i] = [team |-> h.t, user |-> h.u, status |-> h.status, lapsed |-> FALSE]
      /\ \A j \in Invitations : j # i => invitation'[j] = invitation[j]
      /\ UNCHANGED <<accounts, team, membership, registered>>
  BY <1>1, <1>2 DEF TypeOK, InviteCommit
<1>4. RowsOfStandingTeams' BY <1>1, <1>3 DEF RowsOfStandingTeams, Standing
<1>5. ClaimedAtSignup' BY <1>1, <1>3 DEF ClaimedAtSignup
<1> QED BY <1>3, <1>4, <1>5
    DEF OneMembershipEach, OnlyTheSubmittedAreRegistered, RegisteredAreMembers, Roster, ActiveOn

LEMMA CloseKeepsData ==
  ASSUME IInv, SerialData, NEW w \in Requests, NEW o, NEW v \in {"cancelled", "declined"},
         CloseCommit(w, o, v)
  PROVE  SerialData'
<1> USE DEF SerialData
<1>1. TypeOK BY DEF IInv
<1>2. Close({tx[w].id}, v) /\ UNCHANGED <<accounts, team, membership, registered>>
  BY DEF CloseCommit
<1>3. \A i \in Invitations :
        /\ invitation'[i].user = invitation[i].user
        /\ invitation'[i].team = invitation[i].team
        /\ invitation'[i].lapsed = invitation[i].lapsed
        /\ invitation'[i].status \in Live => invitation'[i].status = invitation[i].status
  BY <1>1, <1>2, ClosingMovesOnlyStatus DEF Live
<1> QED BY <1>2, <1>3
    DEF OneMembershipEach, RowsOfStandingTeams, Standing, OnlyTheSubmittedAreRegistered,
        RegisteredAreMembers, Roster, ActiveOn, ClaimedAtSignup, Live

LEMMA AcceptKeepsData ==
  ASSUME IInv, SerialData, NEW w \in Requests, AcceptCommit(w), Holds(tx[w])
  PROVE  SerialData'
<1> USE DEF SerialData
<1>0. PICK h : h = tx[w] OBVIOUS
<1>1. TypeOK /\ h.t \in Teams /\ team[h.t].status = "forming" /\ h.u \in Users /\ ~OnATeam(h.u)
  BY <1>0 DEF IInv, RowsAreFilled, Holds, MayJoin, AcceptCommit, Forming
<1>2. /\ InsertMembership(h.t, h.u, "member") /\ Close({h.id}, "accepted")
      /\ UNCHANGED <<accounts, team, registered>>
  BY <1>0 DEF AcceptCommit
<1>3. PICK m \in Memberships :
        /\ membership[m].status = "absent"
        /\ membership'[m] =
             [team |-> h.t, user |-> h.u, role |-> "member", status |-> "active"]
        /\ \A n \in Memberships : n # m => membership'[n] = membership[n]
  <2>1. h.t \in Teams \cup {NoTeam} /\ "member" \in {"captain", "member"} BY <1>1
  <2>2. TypeOK /\ h.u \in Users /\ InsertMembership(h.t, h.u, "member") BY <1>1, <1>2
  <2> HIDE DEF SerialData
  <2> QED BY <2>1, <2>2, InsertionAddsARow
<1>4. OneMembershipEach' /\ \A s : s # h.t => Roster(s)' = Roster(s)
  BY <1>1, <1>3, JoiningKeepsRosters
<1>5. \A i \in Invitations :
        /\ invitation'[i].user = invitation[i].user
        /\ invitation'[i].team = invitation[i].team
        /\ invitation'[i].lapsed = invitation[i].lapsed
        /\ invitation'[i].status \in Live => invitation'[i].status = invitation[i].status
  BY <1>1, <1>2, ClosingMovesOnlyStatus DEF Live
<1>6. Standing(h.t) BY <1>1 DEF Standing
<1>7. RowsOfStandingTeams'
  <2>1. \A s : Standing(s) => Standing(s)' BY <1>2 DEF Standing
  <2>2. \A n \in Memberships :
          membership'[n].status = "active" => Standing(membership[n].team)'
    BY <1>3, <1>6, <2>1 DEF RowsOfStandingTeams
  <2>3. \A i \in Invitations :
          invitation'[i].status \in Live => Standing(invitation[i].team)'
    BY <1>5, <2>1 DEF RowsOfStandingTeams
  <2> QED BY <2>2, <2>3 DEF RowsOfStandingTeams, Live
<1>8. RegisteredAreMembers'
  <2>1. registered[h.t] = {} BY <1>1 DEF OnlyTheSubmittedAreRegistered
  <2> QED BY <1>2, <1>4, <2>1 DEF RegisteredAreMembers
<1>9. ClaimedAtSignup' BY <1>2, <1>5 DEF ClaimedAtSignup, Live
<1> QED BY <1>2, <1>4, <1>7, <1>8, <1>9 DEF OnlyTheSubmittedAreRegistered

LEMMA RemoveKeepsData ==
  ASSUME IInv, SerialData, NEW w \in Requests, RemoveCommit(w), Holds(tx[w])
  PROVE  SerialData'
<1> USE DEF SerialData
<1>0. PICK d : d = tx[w].id OBVIOUS
<1>1. TypeOK /\ d \in Memberships /\ team[membership[d].team].status = "forming"
  BY <1>0 DEF IInv, Holds, RemoveCommit, Removable, Forming
<1>2. Remove({d}) /\ UNCHANGED <<accounts, team, invitation, registered>>
  BY <1>0 DEF RemoveCommit
<1>3. \A m \in Memberships :
        /\ membership'[m].user = membership[m].user
        /\ membership'[m].team = membership[m].team
        /\ membership'[m].status = IF m = d THEN "removed" ELSE membership[m].status
  BY <1>1, <1>2, RemovalKeepsRows
<1>4. OneMembershipEach' BY <1>3 DEF OneMembershipEach
<1>5. RowsOfStandingTeams' BY <1>2, <1>3 DEF RowsOfStandingTeams, Standing
<1>6. RegisteredAreMembers'
  <2>1. ASSUME NEW s \in Teams, registered[s] # {} PROVE Roster(s)' = Roster(s)
    <3>0. team[s].status = "submitted" BY <2>1 DEF OnlyTheSubmittedAreRegistered
    <3>1. ActiveOn(s)' = ActiveOn(s) BY <1>1, <1>3, <3>0 DEF ActiveOn
    <3>2. \A m \in ActiveOn(s) : membership'[m].user = membership[m].user
      BY <1>3 DEF ActiveOn
    <3> QED BY <3>1, <3>2 DEF Roster
  <2> QED BY <1>2, <2>1 DEF RegisteredAreMembers
<1> QED BY <1>2, <1>4, <1>5, <1>6 DEF OnlyTheSubmittedAreRegistered, ClaimedAtSignup

LEMMA SubmitKeepsData ==
  ASSUME IInv, SerialData, NEW w \in Requests, SubmitCommit(w), Holds(tx[w])
  PROVE  SerialData'
<1> USE DEF SerialData
<1>0. PICK h : h = tx[w] OBVIOUS
<1>1. TypeOK /\ h.t \in Teams /\ team[h.t].status = "forming" /\ h.roster = Roster(h.t)
  BY <1>0 DEF IInv, Holds, SubmitCommit, Forming
<1>2. /\ registered' = [registered EXCEPT ![h.t] = h.roster]
      /\ team' = [team EXCEPT ![h.t].status = "submitted"]
      /\ UNCHANGED <<accounts, membership, invitation>>
  BY <1>0 DEF SubmitCommit
<1>3. /\ registered'[h.t] = h.roster /\ team'[h.t].status = "submitted"
      /\ \A s \in Teams : s # h.t => registered'[s] = registered[s] /\ team'[s] = team[s]
  BY <1>1, <1>2 DEF TypeOK, TeamRows
<1>4. \A s : Standing(s) => Standing(s)' BY <1>3 DEF Standing
<1>5. RowsOfStandingTeams' BY <1>2, <1>4 DEF RowsOfStandingTeams
<1>6. \A s : Roster(s)' = Roster(s) BY <1>2 DEF Roster, ActiveOn
<1>7. RegisteredAreMembers' BY <1>1, <1>3, <1>6 DEF RegisteredAreMembers
<1>8. OnlyTheSubmittedAreRegistered' BY <1>3 DEF OnlyTheSubmittedAreRegistered
<1> QED BY <1>2, <1>5, <1>7, <1>8 DEF OneMembershipEach, ClaimedAtSignup

LEMMA WithdrawKeepsData ==
  ASSUME IInv, SerialData, NEW w \in Requests, NEW t \in Teams, Withdraw(w, t)
  PROVE  SerialData'
<1> USE DEF SerialData
<1>1. TypeOK /\ team[t].status = "submitted" BY DEF IInv, Withdraw
<1>2. /\ registered'[t] = {} /\ team'[t].status = "forming"
      /\ \A s \in Teams : s # t => registered'[s] = registered[s] /\ team'[s] = team[s]
      /\ UNCHANGED <<accounts, membership, invitation>>
  BY <1>1 DEF TypeOK, TeamRows, Withdraw
<1>3. \A s : Standing(s) => Standing(s)' BY <1>2 DEF Standing
<1>4. RowsOfStandingTeams' BY <1>2, <1>3 DEF RowsOfStandingTeams
<1>5. \A s : Roster(s)' = Roster(s) BY <1>2 DEF Roster, ActiveOn
<1>6. RegisteredAreMembers' BY <1>2, <1>5 DEF RegisteredAreMembers
<1>7. OnlyTheSubmittedAreRegistered' BY <1>2 DEF OnlyTheSubmittedAreRegistered
<1> QED BY <1>2, <1>4, <1>6, <1>7 DEF OneMembershipEach, ClaimedAtSignup

LEMMA SignupKeepsData ==
  ASSUME IInv, SerialData, NEW w \in Requests, NEW u \in Users, Signup(w, u)
  PROVE  SerialData'
<1> USE DEF SerialData
<1>1. TypeOK BY DEF IInv
<1> DEFINE I == {i \in Invitations : /\ invitation[i].user = u
                                     /\ invitation[i].status = "pending_claim"
                                     /\ ~invitation[i].lapsed}
<1>2. Close(I, "pending") /\ accounts' = accounts \cup {u} /\ UNCHANGED <<team, membership, registered>>
  BY DEF Signup
<1>3. \A i \in Invitations :
        /\ invitation'[i].user = invitation[i].user
        /\ invitation'[i].team = invitation[i].team
        /\ invitation'[i].lapsed = invitation[i].lapsed
        /\ invitation'[i].status = IF i \in I THEN "pending" ELSE invitation[i].status
  BY <1>1, <1>2, ClosingMovesOnlyStatus
<1>4. RowsOfStandingTeams'
  BY <1>2, <1>3 DEF RowsOfStandingTeams, Standing, Live
<1>5. ClaimedAtSignup' BY <1>2, <1>3 DEF ClaimedAtSignup
<1> HIDE DEF I
<1> QED BY <1>2, <1>4, <1>5
    DEF OneMembershipEach, OnlyTheSubmittedAreRegistered, RegisteredAreMembers, Roster, ActiveOn

-----------------------------------------------------------------------------
(* The invariant                                                           *)

LEMMA OrderedSteps ==
  ASSUME IInv, SerialData, [Next]_vars, \A w \in Requests : Writes(w) => Holds(tx[w])
  PROVE  SerialData'
<1>1. TypeOK BY DEF IInv
<1>2. ASSUME NEW w \in Requests, CheckStep(w) PROVE SerialData'
  BY <1>2, ChecksOnlyRead, ReadingKeepsData DEF IInv
<1>3. ASSUME NEW w \in Requests, Writes(w) PROVE SerialData'
  BY <1>3, CreateKeepsData, DisbandKeepsData, InviteKeepsData, AcceptKeepsData,
     RemoveKeepsData, SubmitKeepsData DEF Writes
<1>4. ASSUME NEW w \in Requests, CommitStep(w), ~Writes(w) PROVE SerialData'
  <2>1. CASE LapsedRollBack(w) \/ Refuse(w)
    <3>1. UNCHANGED tables BY <2>1 DEF LapsedRollBack, Refuse, tables
    <3> QED BY <3>1, ReadingKeepsData
  <2> QED BY <1>4, <2>1, CloseKeepsData, SignupKeepsData, WithdrawKeepsData
          DEF CommitStep, Writes
<1>5. ASSUME RowsStep \/ UNCHANGED vars PROVE SerialData'
  <2>1. /\ UNCHANGED <<accounts, team, membership, invitation>>
        /\ \A t \in Teams : registered'[t] \subseteq registered[t]
    BY <1>1, <1>5, RowsOnlyFall DEF vars
  <2> QED BY <2>1
    DEF SerialData, OneMembershipEach, RowsOfStandingTeams, Standing,
        OnlyTheSubmittedAreRegistered, RegisteredAreMembers, Roster, ActiveOn, ClaimedAtSignup
<1>6. ASSUME NEW i \in Invitations, Lapse(i) PROVE SerialData'
  <2>1. /\ UNCHANGED <<accounts, team, membership, registered>>
        /\ \A j \in Invitations :
             /\ invitation'[j].status = invitation[j].status
             /\ invitation'[j].team = invitation[j].team
             /\ invitation'[j].user = invitation[j].user
             /\ ~invitation'[j].lapsed => ~invitation[j].lapsed
    BY <1>1, <1>6 DEF Lapse, TypeOK, InvitationRows
  <2>2. RowsOfStandingTeams' BY <2>1 DEF SerialData, RowsOfStandingTeams, Standing, Live
  <2> QED BY <2>1, <2>2
    DEF SerialData, OneMembershipEach, OnlyTheSubmittedAreRegistered, RegisteredAreMembers,
        Roster, ActiveOn, ClaimedAtSignup
<1> QED BY <1>2, <1>3, <1>4, <1>5, <1>6 DEF Next, RowsStep

\* One handler at a time finds what it has read: nobody else moves.
LEMMA SerialSteps ==
  ASSUME OneHandlerAtATime, SerialInv, Next
  PROVE  SerialInv'
<1>0. IInv' BY NextInv DEF SerialInv
<1>1. TypeOK BY DEF SerialInv, IInv
<1>2. SerialData'
  <2>1. SerialData /\ IInv /\ ReadingsHold BY DEF SerialInv, SerialData
  <2> QED BY <2>1, OrderedSteps DEF ReadingsHold
<1>3. ASSUME NEW w \in Requests, CheckStep(w) PROVE ReadingsHold'
  <2>1. UNCHANGED tables BY <1>3, ChecksReadWhatHolds
  <2>2. PICK r : r \in Handlers /\ Begin(w, r) /\ Holds(r) BY <1>3, ChecksReadWhatHolds
  <2>3. tx'[w] = r BY <1>1, <2>2, HandlersKept DEF Begin
  <2>4. Holds(tx[w])'
    BY <2>1, <2>2, <2>3 DEF Holds, tables, Forming, MayJoin, OnATeam, Roster, ActiveOn, LiveFor, Removable
  <2>5. \A v \in Requests : v = w BY DEF OneHandlerAtATime
  <2> QED BY <2>4, <2>5 DEF ReadingsHold
<1>4. ASSUME NEW w \in Requests, CommitStep(w) PROVE ReadingsHold'
  <2>1. End(w) \/ (UNCHANGED tx /\ tx[w] = Idle)
    BY <1>4 DEF CommitStep, CreateCommit, DisbandCommit, InviteCommit, CloseCommit,
       AcceptCommit, LapsedRollBack, RemoveCommit, SubmitCommit, Refuse, Signup, Withdraw
  <2>2. CASE UNCHANGED tx /\ tx[w] = Idle
    <3>1. \A v \in Requests : tx'[v] = Idle BY <2>2 DEF OneHandlerAtATime
    <3> QED BY <3>1 DEF ReadingsHold, Holds, Idle
  <2> QED BY <1>1, <2>1, <2>2, NothingHeldAtTheEnd
<1>5. ASSUME RowsStep PROVE ReadingsHold'
  <2>1. UNCHANGED <<accounts, team, membership, invitation, tx>>
    BY <1>1, <1>5, RowsOnlyFall
  <2> QED BY <2>1
    DEF SerialInv, ReadingsHold, Holds, Forming, MayJoin, OnATeam, Roster, ActiveOn, LiveFor, Removable
<1>6. ASSUME NEW i \in Invitations, Lapse(i) PROVE ReadingsHold'
  <2>1. /\ UNCHANGED <<accounts, team, membership, registered, tx>>
        /\ \A j \in Invitations : /\ invitation'[j].status = invitation[j].status
                                  /\ invitation'[j].team = invitation[j].team
    BY <1>1, <1>6 DEF Lapse, TypeOK, InvitationRows
  <2>2. \A t : LiveFor(t)' = LiveFor(t) BY <2>1 DEF LiveFor, Live
  <2> QED BY <2>1, <2>2
    DEF SerialInv, ReadingsHold, Holds, Forming, MayJoin, OnATeam, Roster, ActiveOn, Removable, Live
<1>7. ReadingsHold' BY <1>3, <1>4, <1>5, <1>6 DEF Next, RowsStep
<1> QED BY <1>0, <1>2, <1>7 DEF SerialInv, SerialData

LEMMA SerialStutter ==
  ASSUME SerialInv, UNCHANGED vars
  PROVE  SerialInv'
<1>1. IInv' BY NextInv DEF SerialInv
<1>2. UNCHANGED <<open, accounts, team, membership, invitation, registered, tx>> BY DEF vars
<1>3. SerialData' BY <1>2, ReadingKeepsData DEF SerialInv, SerialData, tables
<1>4. ReadingsHold' BY <1>2
  DEF SerialInv, ReadingsHold, Holds, Forming, MayJoin, OnATeam, Roster, ActiveOn, LiveFor, Removable
<1> QED BY <1>1, <1>3, <1>4 DEF SerialInv, SerialData

LEMMA SerialInit == Init => SerialInv
<1> SUFFICES ASSUME Init PROVE SerialInv OBVIOUS
<1>1. ReadingsHold BY DEF Init, ReadingsHold, Holds, Idle
<1>2. SerialData BY DEF Init, SerialData, OneMembershipEach, RowsOfStandingTeams,
        OnlyTheSubmittedAreRegistered, RegisteredAreMembers, ClaimedAtSignup,
        NoTeamRow, NoMembership, NoInvitation, Live
<1> QED BY <1>1, <1>2, InitInv DEF SerialInv, SerialData

\* Nothing but the overlap of two handlers makes the team code break its word.
THEOREM SerialHandlersKeepOrder ==
  ASSUME OneHandlerAtATime
  PROVE  Spec => []SerialInv
<1>1. SerialInv /\ [Next]_vars => SerialInv' BY SerialSteps, SerialStutter
<1> QED BY <1>1, SerialInit, PTL DEF Spec

\* No candidate is on two teams, though no index says so.
THEOREM SerialCandidatesHaveOneTeam ==
  ASSUME OneHandlerAtATime
  PROVE  Spec => []OneTeamPerCandidate
<1>1. SerialInv => OneTeamPerCandidate
  BY DEF SerialInv, OneMembershipEach, OneTeamPerCandidate, Roster, ActiveOn
<1> QED BY <1>1, SerialHandlersKeepOrder, PTL

\* A disbanded team holds nobody and invites nobody.
THEOREM SerialDisbandingEmpties ==
  ASSUME OneHandlerAtATime
  PROVE  Spec => []DisbandedTeamIsEmpty
<1>1. SerialInv => DisbandedTeamIsEmpty
  BY DEF SerialInv, RowsOfStandingTeams, Standing, DisbandedTeamIsEmpty, ActiveOn, LiveFor
<1> QED BY <1>1, SerialHandlersKeepOrder, PTL

\* A disbanded team holds no live registration.
THEOREM SerialDisbandingUnregisters ==
  ASSUME OneHandlerAtATime
  PROVE  Spec => []DisbandedTeamIsUnregistered
<1>1. SerialInv => DisbandedTeamIsUnregistered
  BY DEF SerialInv, OnlyTheSubmittedAreRegistered, DisbandedTeamIsUnregistered
<1> QED BY <1>1, SerialHandlersKeepOrder, PTL

\* Whoever is registered with a team is on it: removal and disbanding wait until
\* nothing is registered, though members may cancel their own row at any time.
THEOREM SerialRegisteredAreMembers ==
  ASSUME OneHandlerAtATime
  PROVE  Spec => []RegisteredAreMembers
<1>1. SerialInv => RegisteredAreMembers BY DEF SerialInv
<1> QED BY <1>1, SerialHandlersKeepOrder, PTL

\* No invitation waits for a signup that has happened.
THEOREM SerialSignupsClaim ==
  ASSUME OneHandlerAtATime
  PROVE  Spec => []ClaimedAtSignup
<1>1. SerialInv => ClaimedAtSignup BY DEF SerialInv
<1> QED BY <1>1, SerialHandlersKeepOrder, PTL

-----------------------------------------------------------------------------
(* Seats                                                                   *)

IdsAreFinite == IsFiniteSet(Memberships) /\ IsFiniteSet(Invitations)

LEMMA SeatsAreCounted ==
  ASSUME IdsAreFinite, NEW t
  PROVE  /\ IsFiniteSet(ActiveOn(t)) /\ IsFiniteSet(LiveFor(t))
         /\ Cardinality(ActiveOn(t)) \in Nat /\ Cardinality(LiveFor(t)) \in Nat
<1>1. ActiveOn(t) \subseteq Memberships /\ LiveFor(t) \subseteq Invitations
  BY DEF ActiveOn, LiveFor
<1>2. IsFiniteSet(ActiveOn(t)) /\ IsFiniteSet(LiveFor(t)) BY <1>1, FS_Subset DEF IdsAreFinite
<1> QED BY <1>2, FS_CardinalityType

\* Seats only fall free when neither set grows.
LEMMA FewerSeats ==
  ASSUME IdsAreFinite, CapacityHolds, NEW t \in Teams,
         ActiveOn(t)' \subseteq ActiveOn(t), LiveFor(t)' \subseteq LiveFor(t)
  PROVE  Seats(t)' <= MaxTeamSize
<1>1. /\ IsFiniteSet(ActiveOn(t)) /\ IsFiniteSet(LiveFor(t))
      /\ Cardinality(ActiveOn(t)) \in Nat /\ Cardinality(LiveFor(t)) \in Nat
  BY SeatsAreCounted
<1>2. /\ Cardinality(ActiveOn(t)') <= Cardinality(ActiveOn(t))
      /\ Cardinality(LiveFor(t)') <= Cardinality(LiveFor(t))
      /\ IsFiniteSet(ActiveOn(t)') /\ IsFiniteSet(LiveFor(t)')
  BY <1>1, FS_Subset
<1>3. Cardinality(ActiveOn(t)') \in Nat /\ Cardinality(LiveFor(t)') \in Nat
  BY <1>2, FS_CardinalityType
<1>4. Seats(t) <= MaxTeamSize BY DEF CapacityHolds
<1> QED BY <1>1, <1>2, <1>3, <1>4, SizesAssumption DEF Seats

\* A founder takes the first seat of a team nobody was on.
LEMMA FoundingTakesASeat ==
  ASSUME IdsAreFinite, MaxTeamSize >= 1, IInv, SerialData, CapacityHolds,
         NEW w \in Requests, CreateCommit(w)
  PROVE  CapacityHolds'
<1>0. TypeOK /\ tx[w].u \in Users /\ RowsOfStandingTeams
  BY DEF SerialData, IInv, RowsAreFilled, CreateCommit
<1>1. PICK t \in Teams :
        team[t].status = "absent" /\ InsertMembership(t, tx[w].u, "captain")
  BY DEF CreateCommit
<1>2. PICK m \in Memberships :
        /\ membership[m].status = "absent"
        /\ membership'[m] =
             [team |-> t, user |-> tx[w].u, role |-> "captain", status |-> "active"]
        /\ \A n \in Memberships : n # m => membership'[n] = membership[n]
  BY <1>0, <1>1, InsertionAddsARow
<1>3. UNCHANGED invitation BY DEF CreateCommit
<1>4. ~Standing(t) BY <1>1 DEF Standing
<1>5. ActiveOn(t) = {} /\ LiveFor(t) = {}
  BY <1>0, <1>4 DEF RowsOfStandingTeams, ActiveOn, LiveFor
<1>6. ActiveOn(t)' = {m} /\ LiveFor(t)' = {} BY <1>2, <1>3, <1>5 DEF ActiveOn, LiveFor
<1>7. Seats(t)' <= MaxTeamSize
  <2>1. Cardinality({m}) = 1 /\ Cardinality({}) = 0 BY FS_Singleton, FS_EmptySet
  <2> QED BY <1>6, <2>1, SizesAssumption DEF Seats
<1>8. ASSUME NEW s \in Teams, s # t PROVE Seats(s)' <= MaxTeamSize
  <2>1. ActiveOn(s)' = ActiveOn(s) /\ LiveFor(s)' = LiveFor(s)
    BY <1>2, <1>3, <1>8 DEF ActiveOn, LiveFor
  <2> QED BY <2>1, FewerSeats
<1> QED BY <1>7, <1>8 DEF CapacityHolds

\* An invitation takes the seat that was free when it was decided.
LEMMA InvitingTakesASeat ==
  ASSUME IdsAreFinite, IInv, CapacityHolds,
         NEW w \in Requests, InviteCommit(w), StillReads(tx[w])
  PROVE  CapacityHolds'
<1>0. PICK h : h = tx[w] OBVIOUS
<1>1. TypeOK /\ h.status \in Live /\ Seats(h.t) < MaxTeamSize
  BY <1>0 DEF IInv, StillReads, Holds, HasRoom, InviteCommit
<1>2. PICK i \in Invitations :
        /\ invitation[i].status = "absent"
        /\ invitation' = [invitation EXCEPT
             ![i] = [team |-> h.t, user |-> h.u, status |-> h.status, lapsed |-> FALSE]]
  BY <1>0 DEF InviteCommit
<1>3. /\ invitation'[i] = [team |-> h.t, user |-> h.u, status |-> h.status, lapsed |-> FALSE]
      /\ \A j \in Invitations : j # i => invitation'[j] = invitation[j]
      /\ UNCHANGED membership
  BY <1>1, <1>2 DEF TypeOK, InviteCommit
<1>4. ASSUME NEW s \in Teams PROVE Seats(s)' <= MaxTeamSize
  <2>1. ActiveOn(s)' = ActiveOn(s) BY <1>3 DEF ActiveOn
  <2>2. CASE s # h.t
    <3>1. LiveFor(s)' = LiveFor(s) BY <1>2, <1>3, <2>2 DEF LiveFor, Live
    <3> QED BY <2>1, <3>1, FewerSeats
  <2>3. CASE s = h.t
    <3>1. LiveFor(s)' = LiveFor(s) \cup {i} /\ i \notin LiveFor(s)
      BY <1>1, <1>2, <1>3, <2>3 DEF LiveFor, Live
    <3>2. /\ IsFiniteSet(LiveFor(s))
          /\ Cardinality(ActiveOn(s)) \in Nat /\ Cardinality(LiveFor(s)) \in Nat
      BY SeatsAreCounted
    <3>3. Cardinality(LiveFor(s)') = Cardinality(LiveFor(s)) + 1
      BY <3>1, <3>2, FS_AddElement
    <3> QED BY <1>1, <2>1, <2>3, <3>2, <3>3, SizesAssumption DEF Seats
  <2> QED BY <2>2, <2>3
<1> QED BY <1>4 DEF CapacityHolds

\* An acceptance sits down on the seat its invitation held.
LEMMA AcceptingKeepsTheSeat ==
  ASSUME IdsAreFinite, IInv, CapacityHolds,
         NEW w \in Requests, AcceptCommit(w), Holds(tx[w])
  PROVE  CapacityHolds'
<1>0. PICK h : h = tx[w] OBVIOUS
<1>1. TypeOK /\ h.t \in Teams /\ h.u \in Users /\ h.id \in LiveFor(h.t)
  BY <1>0 DEF IInv, RowsAreFilled, Holds, AcceptCommit
<1>2. InsertMembership(h.t, h.u, "member") /\ Close({h.id}, "accepted")
  BY <1>0 DEF AcceptCommit
<1>3. PICK m \in Memberships :
        /\ membership[m].status = "absent"
        /\ membership'[m] =
             [team |-> h.t, user |-> h.u, role |-> "member", status |-> "active"]
        /\ \A n \in Memberships : n # m => membership'[n] = membership[n]
  <2>1. h.t \in Teams \cup {NoTeam} /\ "member" \in {"captain", "member"} BY <1>1
  <2> QED BY <1>1, <1>2, <2>1, InsertionAddsARow
<1>4. \A i \in Invitations :
        /\ invitation'[i].team = invitation[i].team
        /\ invitation'[i].status = IF i = h.id THEN "accepted" ELSE invitation[i].status
  BY <1>1, <1>2, ClosingMovesOnlyStatus
<1>5. \A s : LiveFor(s)' = LiveFor(s) \ {h.id} BY <1>4 DEF LiveFor, Live
<1>6. ASSUME NEW s \in Teams PROVE Seats(s)' <= MaxTeamSize
  <2>1. CASE s # h.t
    <3>1. ActiveOn(s)' = ActiveOn(s) BY <1>3, <2>1 DEF ActiveOn
    <3> QED BY <1>5, <3>1, FewerSeats
  <2>2. CASE s = h.t
    <3>1. ActiveOn(s)' = ActiveOn(s) \cup {m} /\ m \notin ActiveOn(s)
      BY <1>3, <2>2 DEF ActiveOn
    <3>2. /\ IsFiniteSet(ActiveOn(s)) /\ IsFiniteSet(LiveFor(s))
          /\ Cardinality(ActiveOn(s)) \in Nat /\ Cardinality(LiveFor(s)) \in Nat
      BY SeatsAreCounted
    <3>3. Cardinality(ActiveOn(s)') = Cardinality(ActiveOn(s)) + 1
      BY <3>1, <3>2, FS_AddElement
    <3>4. Cardinality(LiveFor(s)') = Cardinality(LiveFor(s)) - 1
      BY <1>1, <1>5, <2>2, <3>2, FS_RemoveElement
    <3>5. Seats(s) <= MaxTeamSize BY DEF CapacityHolds
    <3> QED BY <3>2, <3>3, <3>4, <3>5, SizesAssumption DEF Seats
  <2> QED BY <2>1, <2>2
<1> QED BY <1>6 DEF CapacityHolds

\* Every other step only frees seats.
LEMMA OthersFreeSeats ==
  ASSUME IdsAreFinite, TypeOK, CapacityHolds,
         \A m \in Memberships :
           /\ membership'[m].team = membership[m].team
           /\ membership'[m].status = "active" => membership[m].status = "active",
         \A i \in Invitations :
           /\ invitation'[i].team = invitation[i].team
           /\ invitation'[i].status \in Live => invitation[i].status \in Live
  PROVE  CapacityHolds'
<1>1. ASSUME NEW t \in Teams PROVE Seats(t)' <= MaxTeamSize
  <2>1. ActiveOn(t)' \subseteq ActiveOn(t) BY DEF ActiveOn
  <2>2. LiveFor(t)' \subseteq LiveFor(t) BY DEF LiveFor, Live
  <2> QED BY <2>1, <2>2, FewerSeats
<1> QED BY <1>1 DEF CapacityHolds

LEMMA ClosingFreesSeats ==
  ASSUME IdsAreFinite, TypeOK, CapacityHolds, NEW I, NEW v, Close(I, v),
         v \in Live => \A i \in I \cap Invitations : invitation[i].status \in Live,
         UNCHANGED membership
  PROVE  CapacityHolds'
<1>1. \A i \in Invitations :
        /\ invitation'[i].team = invitation[i].team
        /\ invitation'[i].status = IF i \in I THEN v ELSE invitation[i].status
  BY ClosingMovesOnlyStatus
<1> QED BY <1>1, OthersFreeSeats

LEMMA CapacityStep ==
  ASSUME IdsAreFinite, MaxTeamSize >= 1, IInv, SerialData, CapacityHolds, [Next]_vars,
         \A w \in Requests : Writes(w) => StillReads(tx[w])
  PROVE  CapacityHolds'
<1>0. TypeOK BY DEF IInv
<1>1. ASSUME NEW w \in Requests, CheckStep(w) PROVE CapacityHolds'
  <2>1. UNCHANGED tables BY <1>1, ChecksOnlyRead DEF IInv
  <2> QED BY <1>0, <2>1, OthersFreeSeats DEF tables
<1>2. ASSUME NEW w \in Requests, CommitStep(w) PROVE CapacityHolds'
  <2>1. CASE CreateCommit(w) BY <2>1, FoundingTakesASeat
  <2>2. CASE DisbandCommit(w)
    <3>1. Remove(ActiveOn(tx[w].t)) /\ Close(LiveFor(tx[w].t), "cancelled")
      BY <2>2 DEF DisbandCommit
    <3>2. \A m \in Memberships :
            /\ membership'[m].team = membership[m].team
            /\ membership'[m].status = "active" => membership[m].status = "active"
      BY <1>0, <3>1, RemovalKeepsRows
    <3>3. \A i \in Invitations :
            /\ invitation'[i].team = invitation[i].team
            /\ invitation'[i].status \in Live => invitation[i].status \in Live
      BY <1>0, <3>1, ClosingMovesOnlyStatus DEF Live
    <3> QED BY <1>0, <3>2, <3>3, OthersFreeSeats
  <2>3. CASE InviteCommit(w) BY <2>3, InvitingTakesASeat DEF Writes
  <2>4. CASE CloseCommit(w, "revoke", "cancelled") \/ CloseCommit(w, "decline", "declined")
    <3>1. PICK v \in {"cancelled", "declined"} :
            Close({tx[w].id}, v) /\ UNCHANGED membership
      BY <2>4 DEF CloseCommit
    <3> QED BY <1>0, <3>1, ClosingFreesSeats DEF Live
  <2>5. CASE AcceptCommit(w) BY <2>5, AcceptingKeepsTheSeat DEF Writes, StillReads
  <2>6. CASE LapsedRollBack(w) \/ Refuse(w) \/ SubmitCommit(w)
    <3>1. UNCHANGED <<membership, invitation>>
      BY <2>6 DEF LapsedRollBack, Refuse, SubmitCommit
    <3> QED BY <1>0, <3>1, OthersFreeSeats
  <2>7. CASE RemoveCommit(w)
    <3>1. Remove({tx[w].id}) /\ UNCHANGED invitation BY <2>7 DEF RemoveCommit
    <3>2. \A m \in Memberships :
            /\ membership'[m].team = membership[m].team
            /\ membership'[m].status = "active" => membership[m].status = "active"
      BY <1>0, <3>1, RemovalKeepsRows
    <3> QED BY <1>0, <3>1, <3>2, OthersFreeSeats
  <2>8. ASSUME NEW u \in Users, Signup(w, u) PROVE CapacityHolds'
    <3> DEFINE I == {i \in Invitations : /\ invitation[i].user = u
                                         /\ invitation[i].status = "pending_claim"
                                         /\ ~invitation[i].lapsed}
    <3>1. Close(I, "pending") /\ UNCHANGED membership BY <2>8 DEF Signup
    <3>2. \A i \in I \cap Invitations : invitation[i].status \in Live BY DEF Live
    <3> HIDE DEF I
    <3> QED BY <1>0, <3>1, <3>2, ClosingFreesSeats
  <2>9. ASSUME NEW t \in Teams, Withdraw(w, t) PROVE CapacityHolds'
    <3>1. UNCHANGED <<membership, invitation>> BY <2>9 DEF Withdraw
    <3> QED BY <1>0, <3>1, OthersFreeSeats
  <2> QED BY <1>2, <2>1, <2>2, <2>3, <2>4, <2>5, <2>6, <2>7, <2>8, <2>9 DEF CommitStep
<1>3. ASSUME RowsStep \/ (\E i \in Invitations : Lapse(i)) \/ UNCHANGED vars
      PROVE  CapacityHolds'
  <2>1. /\ UNCHANGED membership
        /\ \A i \in Invitations : /\ invitation'[i].team = invitation[i].team
                                  /\ invitation'[i].status = invitation[i].status
    BY <1>0, <1>3, RowsOnlyFall DEF Lapse, vars, TypeOK, InvitationRows
  <2> QED BY <1>0, <2>1, OthersFreeSeats
<1> QED BY <1>1, <1>2, <1>3 DEF Next, RowsStep

LEMMA SeatsStep ==
  ASSUME OneHandlerAtATime, SerialInv, SeatsHeld, [Next]_vars
  PROVE  SeatsHeld'
<1>0. TypeOK BY DEF SerialInv, IInv
<1>1. ASSUME NEW w \in Requests, CheckStep(w) PROVE SeatsHeld'
  <2>1. UNCHANGED tables BY <1>1, ChecksReadWhatHolds
  <2>2. PICK r : r \in Handlers /\ Begin(w, r) /\ (r.op = "invite" => HasRoom(r.t))
    BY <1>1, ChecksReadWhatHolds
  <2>3. tx'[w] = r BY <1>0, <2>2, HandlersKept DEF Begin
  <2>4. \A t : Seats(t)' = Seats(t) BY <2>1 DEF tables, Seats, ActiveOn, LiveFor
  <2>5. \A v \in Requests : v = w BY DEF OneHandlerAtATime
  <2> QED BY <2>2, <2>3, <2>4, <2>5 DEF SeatsHeld, HasRoom
<1>2. ASSUME NEW w \in Requests, CommitStep(w) PROVE SeatsHeld'
  <2>1. End(w) \/ (UNCHANGED tx /\ tx[w] = Idle)
    BY <1>2 DEF CommitStep, CreateCommit, DisbandCommit, InviteCommit, CloseCommit,
       AcceptCommit, LapsedRollBack, RemoveCommit, SubmitCommit, Refuse, Signup, Withdraw
  <2>2. CASE UNCHANGED tx /\ tx[w] = Idle
    BY <2>2 DEF OneHandlerAtATime, SeatsHeld, Idle
  <2> QED BY <1>0, <2>1, <2>2, NothingHeldAtTheEnd
<1>3. ASSUME RowsStep \/ (\E i \in Invitations : Lapse(i)) \/ UNCHANGED vars
      PROVE  SeatsHeld'
  <2>1. /\ UNCHANGED <<membership, tx>>
        /\ \A i \in Invitations : /\ invitation'[i].team = invitation[i].team
                                  /\ invitation'[i].status = invitation[i].status
    BY <1>0, <1>3, RowsOnlyFall DEF Lapse, vars, TypeOK, InvitationRows
  <2>2. \A t : Seats(t)' = Seats(t) BY <2>1 DEF Seats, ActiveOn, LiveFor, Live
  <2> QED BY <2>1, <2>2 DEF SeatsHeld, HasRoom
<1> QED BY <1>1, <1>2, <1>3 DEF Next, RowsStep

LEMMA NoSeatsAtFirst == IdsAreFinite /\ Init => CapacityHolds
<1> SUFFICES ASSUME Init PROVE CapacityHolds OBVIOUS
<1>1. \A t \in Teams : ActiveOn(t) = {} /\ LiveFor(t) = {}
  BY DEF Init, ActiveOn, LiveFor, NoMembership, NoInvitation, Live
<1>2. \A t \in Teams : Seats(t) = 0 BY <1>1, FS_EmptySet DEF Seats
<1> QED BY <1>2, SizesAssumption DEF CapacityHolds

\* Members and invitations together never exceed the maximum team size, if a
\* team may have a member at all.
THEOREM SerialCapacityHolds ==
  ASSUME OneHandlerAtATime, IdsAreFinite, MaxTeamSize >= 1
  PROVE  Spec => []CapacityHolds
<1>1. Init => CapacityHolds /\ SeatsHeld
  BY NoSeatsAtFirst DEF Init, Idle, SeatsHeld
<1>2. SerialInv /\ CapacityHolds /\ SeatsHeld /\ [Next]_vars => CapacityHolds' /\ SeatsHeld'
  <2> SUFFICES ASSUME SerialInv, CapacityHolds, SeatsHeld, [Next]_vars
               PROVE  CapacityHolds' /\ SeatsHeld'
    OBVIOUS
  <2>1. IInv /\ SerialData BY DEF SerialInv, SerialData
  <2>2. \A w \in Requests : StillReads(tx[w])
    BY DEF SerialInv, ReadingsHold, SeatsHeld, StillReads
  <2> QED BY <2>1, <2>2, CapacityStep, SeatsStep
<1> QED BY <1>1, <1>2, SerialHandlersKeepOrder, PTL DEF Spec

-----------------------------------------------------------------------------
(* Handlers that write only over what they have read                       *)

OrderedInv == IInv /\ SerialData

LEMMA OrderedInductive == Spec /\ WritesOnWhatItRead => []OrderedInv
<1> DEFINE Fresh == \A w \in Requests : Writes(w) => StillReads(tx[w])
<1>1. Init => OrderedInv BY SerialInit DEF OrderedInv, SerialInv, SerialData
<1>2. OrderedInv /\ [Next]_vars /\ [Fresh]_vars => OrderedInv'
  <2> SUFFICES ASSUME OrderedInv, [Next]_vars, [Fresh]_vars PROVE OrderedInv' OBVIOUS
  <2>1. IInv' BY NextInv DEF OrderedInv
  <2>2. CASE Fresh BY <2>1, <2>2, OrderedSteps DEF OrderedInv, StillReads
  <2>3. CASE UNCHANGED vars
    <3>1. UNCHANGED tables BY <2>3 DEF vars, tables
    <3> QED BY <2>1, <3>1, ReadingKeepsData DEF OrderedInv
  <2> QED BY <2>2, <2>3
<1> QED BY <1>1, <1>2, PTL DEF Spec, WritesOnWhatItRead

\* Stale readings are all that is wrong: any number of handlers that overlap as they
\* like, and write only while what they read is so, keep the five promises of the
\* comments on rosters, disbanding and signups.
THEOREM FreshReadingsKeepThePromises ==
  Spec /\ WritesOnWhatItRead =>
    [](/\ OneTeamPerCandidate /\ RegisteredAreMembers /\ ClaimedAtSignup
       /\ DisbandedTeamIsEmpty /\ DisbandedTeamIsUnregistered)
<1>1. OrderedInv =>
        /\ OneTeamPerCandidate /\ RegisteredAreMembers /\ ClaimedAtSignup
        /\ DisbandedTeamIsEmpty /\ DisbandedTeamIsUnregistered
  BY DEF OrderedInv, SerialData, OneMembershipEach, RowsOfStandingTeams, Standing,
     OnlyTheSubmittedAreRegistered, OneTeamPerCandidate, DisbandedTeamIsEmpty,
     DisbandedTeamIsUnregistered, Roster, ActiveOn, LiveFor
<1> QED BY <1>1, OrderedInductive, PTL

\* And no team of theirs outgrows its maximum, counting the invitations it sent.
THEOREM FreshReadingsKeepCapacity ==
  ASSUME IdsAreFinite, MaxTeamSize >= 1
  PROVE  Spec /\ WritesOnWhatItRead => []CapacityHolds
<1> DEFINE Fresh == \A w \in Requests : Writes(w) => StillReads(tx[w])
<1>1. Init => CapacityHolds BY NoSeatsAtFirst
<1>2. OrderedInv /\ CapacityHolds /\ [Next]_vars /\ [Fresh]_vars => CapacityHolds'
  <2> SUFFICES ASSUME OrderedInv, CapacityHolds, [Next]_vars, [Fresh]_vars
               PROVE  CapacityHolds'
    OBVIOUS
  <2>1. CASE Fresh BY <2>1, CapacityStep DEF OrderedInv
  <2>2. CASE UNCHANGED vars
    <3>1. UNCHANGED <<membership, invitation>> BY <2>2 DEF vars
    <3> QED BY <3>1, OthersFreeSeats DEF OrderedInv, IInv
  <2> QED BY <2>1, <2>2
<1> QED BY <1>1, <1>2, OrderedInductive, PTL DEF Spec, WritesOnWhatItRead

\* team-registration-service.ts, on a concurrent disband and submission: repeating
\* "forming" in the write of the disband alone, as the submission repeats it, is enough
\* to keep them exclusive, whatever the other handlers do.
THEOREM GuardedDisbandUnregisters ==
  Spec /\ DisbandsTheForming => []DisbandedTeamIsUnregistered
<1> DEFINE Guarded == \A w \in Requests : DisbandCommit(w) => Forming(tx[w].t)
<1>1. Init => OnlyTheSubmittedAreRegistered
  BY DEF Init, OnlyTheSubmittedAreRegistered
<1>2. IInv /\ OnlyTheSubmittedAreRegistered /\ [Next]_vars /\ [Guarded]_vars
        => OnlyTheSubmittedAreRegistered'
  <2> SUFFICES ASSUME IInv, OnlyTheSubmittedAreRegistered, [Next]_vars, [Guarded]_vars,
                      NEW t \in Teams, registered'[t] # {}
               PROVE  team'[t].status = "submitted"
    BY DEF OnlyTheSubmittedAreRegistered
  <2>1. TypeOK BY DEF IInv
  <2>2. CASE UNCHANGED <<team, registered>>
    BY <2>2 DEF OnlyTheSubmittedAreRegistered
  <2>3. ASSUME NEW w \in Requests, CreateCommit(w) PROVE team'[t].status = "submitted"
    BY <2>1, <2>3 DEF CreateCommit, TypeOK, OnlyTheSubmittedAreRegistered
  <2>4. ASSUME NEW w \in Requests, DisbandCommit(w) PROVE team'[t].status = "submitted"
    <3>1. registered[t] # {} /\ team[t].status = "submitted"
      BY <2>4 DEF DisbandCommit, OnlyTheSubmittedAreRegistered
    <3>2. Guarded \/ UNCHANGED team BY DEF vars
    <3> QED BY <2>1, <2>4, <3>1, <3>2 DEF DisbandCommit, TypeOK, Forming
  <2>5. ASSUME NEW w \in Requests, SubmitCommit(w) PROVE team'[t].status = "submitted"
    BY <2>1, <2>5 DEF SubmitCommit, TypeOK, TeamRows, OnlyTheSubmittedAreRegistered
  <2>6. ASSUME NEW w \in Requests, NEW s \in Teams, Withdraw(w, s)
        PROVE  team'[t].status = "submitted"
    BY <2>1, <2>6 DEF Withdraw, TypeOK, TeamRows, OnlyTheSubmittedAreRegistered
  <2>7. ASSUME NEW w \in Requests, CheckStep(w) PROVE UNCHANGED <<team, registered>>
    BY <2>7, <2>1, ChecksOnlyRead DEF IInv, tables
  <2>8. CASE RowsStep
    BY <2>1, <2>8, RowsOnlyFall DEF OnlyTheSubmittedAreRegistered
  <2>9. CASE (\E i \in Invitations : Lapse(i)) \/ UNCHANGED vars
    BY <2>2, <2>9 DEF Lapse, vars
  <2> QED BY <2>2, <2>3, <2>4, <2>5, <2>6, <2>7, <2>8, <2>9
          DEF Next, RowsStep, CommitStep, InviteCommit, CloseCommit, AcceptCommit, LapsedRollBack,
              RemoveCommit, Refuse, Signup
<1>3. OnlyTheSubmittedAreRegistered => DisbandedTeamIsUnregistered
  BY DEF OnlyTheSubmittedAreRegistered, DisbandedTeamIsUnregistered
<1> QED BY <1>1, <1>2, <1>3, InitInv, NextInv, PTL DEF Spec, DisbandsTheForming

-----------------------------------------------------------------------------
(* Handlers that overlap as they like                                      *)

\* A row that is inserted adds its user to its team's roster and to no other.
LEMMA InsertionFillsOneRoster ==
  ASSUME TypeOK, NEW t \in Teams \cup {NoTeam}, NEW u \in Users,
         NEW r \in {"captain", "member"}, InsertMembership(t, u, r)
  PROVE  \A s \in Teams :
           /\ Roster(s) \subseteq Roster(s)'
           /\ Roster(s)' \subseteq Roster(s) \cup (IF s = t THEN {u} ELSE {})
<1>1. PICK m \in Memberships :
        /\ membership[m].status = "absent"
        /\ membership'[m] = [team |-> t, user |-> u, role |-> r, status |-> "active"]
        /\ \A n \in Memberships : n # m => membership'[n] = membership[n]
  BY InsertionAddsARow
<1>2. ASSUME NEW s \in Teams
      PROVE  /\ ActiveOn(s)' = ActiveOn(s) \cup (IF s = t THEN {m} ELSE {})
             /\ \A n \in ActiveOn(s) : membership'[n].user = membership[n].user
             /\ membership'[m].user = u
  BY <1>1 DEF ActiveOn
<1> QED BY <1>2 DEF Roster

\* Nobody's row is removed but from the teams the handler works on.
LEMMA RemovalEmptiesRosters ==
  ASSUME TypeOK, NEW M, Remove(M)
  PROVE  \A s \in Teams :
           /\ Roster(s)' \subseteq Roster(s)
           /\ ActiveOn(s) \cap M = {} => Roster(s)' = Roster(s)
<1>1. \A m \in Memberships :
        /\ membership'[m].user = membership[m].user
        /\ membership'[m].team = membership[m].team
        /\ membership'[m].status = IF m \in M THEN "removed" ELSE membership[m].status
  BY RemovalKeepsRows
<1>2. ASSUME NEW s \in Teams
      PROVE  /\ ActiveOn(s)' \subseteq ActiveOn(s)
             /\ ActiveOn(s) \cap M = {} => ActiveOn(s)' = ActiveOn(s)
             /\ \A m \in ActiveOn(s) : membership'[m].user = membership[m].user
  BY <1>1 DEF ActiveOn
<1> QED BY <1>2 DEF Roster

\* What a step that is not stale does to rosters: one candidate on no team joins one,
\* or rosters shrink, those of registered teams excepted.
LEMMA FreshStepsOnRosters ==
  ASSUME IInv, Next, ~StaleWrite
  PROVE  \/ \E t \in Teams, u \in Users :
              /\ ~OnATeam(u)
              /\ \A s \in Teams :
                   /\ Roster(s) \subseteq Roster(s)'
                   /\ Roster(s)' \subseteq Roster(s) \cup (IF s = t THEN {u} ELSE {})
         \/ \A s \in Teams :
              /\ Roster(s)' \subseteq Roster(s)
              /\ registered[s] # {} => Roster(s)' = Roster(s)
<1> DEFINE Joins == \E t \in Teams, u \in Users :
              /\ ~OnATeam(u)
              /\ \A s \in Teams :
                   /\ Roster(s) \subseteq Roster(s)'
                   /\ Roster(s)' \subseteq Roster(s) \cup (IF s = t THEN {u} ELSE {})
            Shrinks == \A s \in Teams :
              /\ Roster(s)' \subseteq Roster(s)
              /\ registered[s] # {} => Roster(s)' = Roster(s)
<1>1. TypeOK /\ RowsAreFilled /\ RegisteredWereSubmitted BY DEF IInv
<1>2. \A w \in Requests : Writes(w) => Holds(tx[w]) BY DEF StaleWrite, StillReads
<1>3. ASSUME NEW w \in Requests, CreateCommit(w) PROVE Joins
  <2>1. Holds(tx[w]) /\ tx[w].u \in Users /\ ~OnATeam(tx[w].u)
    BY <1>1, <1>2, <1>3 DEF Writes, Holds, MayJoin, CreateCommit, RowsAreFilled
  <2>2. PICK t \in Teams : InsertMembership(t, tx[w].u, "captain") BY <1>3 DEF CreateCommit
  <2> QED BY <1>1, <2>1, <2>2, InsertionFillsOneRoster
<1>4. ASSUME NEW w \in Requests, AcceptCommit(w) PROVE Joins
  <2>1. tx[w].t \in Teams /\ tx[w].u \in Users /\ ~OnATeam(tx[w].u)
    BY <1>1, <1>2, <1>4 DEF Writes, Holds, MayJoin, AcceptCommit, RowsAreFilled
  <2>2. InsertMembership(tx[w].t, tx[w].u, "member") BY <1>4 DEF AcceptCommit
  <2> QED BY <1>1, <2>1, <2>2, InsertionFillsOneRoster
<1>5. ASSUME NEW w \in Requests, DisbandCommit(w) PROVE Shrinks
  <2>1. tx[w].t \in Teams /\ team[tx[w].t].status = "forming" /\ Remove(ActiveOn(tx[w].t))
    BY <1>2, <1>5 DEF Writes, Holds, DisbandCommit, Forming
  <2>2. registered[tx[w].t] = {} BY <1>1, <2>1 DEF RegisteredWereSubmitted
  <2>3. \A s \in Teams : s # tx[w].t => ActiveOn(s) \cap ActiveOn(tx[w].t) = {} BY DEF ActiveOn
  <2> QED BY <1>1, <2>1, <2>2, <2>3, RemovalEmptiesRosters
<1>6. ASSUME NEW w \in Requests, RemoveCommit(w) PROVE Shrinks
  <2> DEFINE m == tx[w].id
  <2>1. m \in Memberships /\ team[membership[m].team].status = "forming" /\ Remove({m})
    BY <1>2, <1>6 DEF Writes, Holds, RemoveCommit, Removable, Forming
  <2>2. \A s \in Teams : registered[s] # {} => ActiveOn(s) \cap {m} = {}
    BY <1>1, <2>1 DEF RegisteredWereSubmitted, ActiveOn
  <2> HIDE DEF m
  <2> QED BY <1>1, <2>1, <2>2, RemovalEmptiesRosters
<1>7. ASSUME UNCHANGED membership PROVE Shrinks
  BY <1>7 DEF Roster, ActiveOn
<1>8. ASSUME NEW w \in Requests, CheckStep(w) PROVE UNCHANGED membership
  BY <1>1, <1>8, ChecksOnlyRead DEF tables
<1>9. ASSUME RowsStep PROVE UNCHANGED membership BY <1>1, <1>9, RowsOnlyFall
<1> HIDE DEF Joins, Shrinks
<1>10. Joins \/ Shrinks
  BY <1>3, <1>4, <1>5, <1>6, <1>7, <1>8, <1>9
  DEF Next, RowsStep, CommitStep, InviteCommit, CloseCommit, LapsedRollBack, SubmitCommit,
      Refuse, Signup, Withdraw, Lapse
<1> QED BY <1>10 DEF Joins, Shrinks

\* However founding and accepting overlap, a candidate comes to be on two teams only
\* by a handler that writes what it no longer reads.
THEOREM SecondTeamsAreStale == Spec => SecondTeamOnlyWhenStale
<1> DEFINE Kept == \A s, t \in Teams, u \in Users :
      s # t /\ u \in Roster(s)' /\ u \in Roster(t)' =>
        (u \in Roster(s) /\ u \in Roster(t)) \/ StaleWrite
<1>1. ASSUME IInv, Next PROVE Kept
  BY <1>1, FreshStepsOnRosters DEF OnATeam
<1>2. IInv /\ [Next]_vars => [Kept]_vars BY <1>1
<1> QED BY <1>2, InitInv, NextInv, PTL DEF Spec, SecondTeamOnlyWhenStale

\* Whatever removals and submissions overlap, a student comes to be registered with a
\* team they are not on only by a handler that writes what it no longer reads.
THEOREM StrangersAreStale == Spec => StrangerOnlyWhenStale
<1> DEFINE Kept == \A t \in Teams, u \in Users :
      u \in registered'[t] /\ u \notin Roster(t)' =>
        (u \in registered[t] /\ u \notin Roster(t)) \/ StaleWrite
<1>1. ASSUME IInv, Next, ~StaleWrite, NEW t \in Teams, NEW u \in Users,
             u \in registered'[t], u \notin Roster(t)'
      PROVE  u \in registered[t] /\ u \notin Roster(t)
  <2>1. TypeOK BY <1>1 DEF IInv
  <2>2. CASE u \in registered[t] BY <1>1, <2>2, FreshStepsOnRosters
  <2>3. CASE u \notin registered[t]
    <3>1. ASSUME NEW w \in Requests, SubmitCommit(w) PROVE FALSE
      <4>1. /\ tx[w].t \in Teams /\ tx[w].roster = Roster(tx[w].t)
            /\ registered' = [registered EXCEPT ![tx[w].t] = tx[w].roster]
            /\ UNCHANGED membership
        BY <1>1, <3>1 DEF SubmitCommit, Writes, StaleWrite, StillReads, Holds
      <4>2. Roster(t)' = Roster(t) BY <4>1 DEF Roster, ActiveOn
      <4> QED BY <1>1, <2>1, <2>3, <4>1, <4>2 DEF TypeOK
    <3>2. ASSUME NEW w \in Requests, NEW s \in Teams, Withdraw(w, s) PROVE FALSE
      BY <1>1, <2>1, <2>3, <3>2 DEF Withdraw, TypeOK
    <3>3. ASSUME NEW w \in Requests, CheckStep(w) PROVE UNCHANGED registered
      BY <1>1, <3>3, ChecksOnlyRead DEF IInv, tables
    <3>4. CASE RowsStep BY <1>1, <2>1, <2>3, <3>4, RowsOnlyFall
    <3>5. CASE UNCHANGED registered BY <1>1, <2>3, <3>5
    <3> QED BY <1>1, <3>1, <3>2, <3>3, <3>4, <3>5
            DEF Next, RowsStep, CommitStep, CreateCommit, DisbandCommit, InviteCommit,
                CloseCommit, AcceptCommit, LapsedRollBack, RemoveCommit, Refuse, Signup, Lapse
  <2> QED BY <2>2, <2>3
<1>2. ASSUME IInv, Next PROVE Kept BY <1>1, <1>2
<1>3. IInv /\ [Next]_vars => [Kept]_vars BY <1>2
<1> QED BY <1>3, InitInv, NextInv, PTL DEF Spec, StrangerOnlyWhenStale

=============================================================================
