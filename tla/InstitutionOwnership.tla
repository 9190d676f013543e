------------------------ MODULE InstitutionOwnership ------------------------
(***************************************************************************)
(* Who owns an institution: creating and upgrading one, inviting people,   *)
(* changing and ending memberships, suspending and reinstating, and the    *)
(* de-identification of an account.                                        *)
(*                                                                         *)
(* Three locks serialise these handlers, each for the rest of the holder's *)
(* transaction: the advisory lock on an institution's ownership, the       *)
(* advisory lock on a user's institution cap, and the user's row.  Nothing *)
(* takes all three, so a handler is a Decide step, which waits for its     *)
(* locks and reads under them, and a Commit step, which writes and lets    *)
(* them go; what an earlier Check step read, it read without any lock.     *)
(***************************************************************************)
EXTENDS Integers, FiniteSets

CONSTANTS
  Requests,       \* handlers that may be running
  Users,
  Recruiters,     \* users verified as recruiters, of the elevated tier
  Institutions,   \* ids of institutions rows
  Invitations,    \* ids of institution_invitations rows
  Roles,          \* institution_membership_role
  MaxFull,        \* MAX_INSTITUTIONS_PER_RECRUITER
  MaxPersonal,    \* MAX_PERSONAL_INSTITUTIONS_PER_RECRUITER
  NoUser, NoInstitution, NoInvitation

Owner == "institution_owner"

Staff == "institution_staff"

None == "none"

ASSUME RolesAssumption == Owner \in Roles /\ None \notin Roles

ASSUME PeopleAssumption == IsFiniteSet(Institutions) /\ Recruiters \subseteq Users

ASSUME SentinelsAssumption ==
  /\ NoUser \notin Users
  /\ NoInstitution \notin Institutions
  /\ NoInvitation \notin Invitations

ASSUME CapsAssumption == MaxFull \in Nat /\ MaxPersonal = 1

VARIABLES
  account,      \* users: status and suspended_at
  institution,  \* institutions: type and suspended_at; founded: its first type
  member,       \* institution_memberships: the role of an active row, or none
  granted,      \* history: who came to own what by promotion or invitation
  invitation,   \* institution_invitations
  accepted,     \* history: how often each invitation has been accepted
  tx            \* what each handler has read, and the locks it holds

vars == <<account, institution, member, granted, invitation, accepted, tx>>

rows == <<account, institution, member, granted, invitation, accepted>>

-----------------------------------------------------------------------------
(* Memberships, caps and locks                                             *)

Admins == {Owner, Staff}

Kinds == {"personal", "full"}

Owners(i) == {u \in Users : member[i][u] = Owner}

MemberOf(u) == {i \in Institutions : member[i][u] # None}

Owned(u, kind) ==
  {i \in Institutions : member[i][u] = Owner /\ institution[i].type = kind}

Cap(kind) == IF kind = "full" THEN MaxFull ELSE MaxPersonal

Idle == [op |-> "idle", actor |-> NoUser, user |-> NoUser, inst |-> NoInstitution,
         inv |-> NoInvitation, word |-> None,
         own |-> {}, row |-> NoUser, cap |-> NoUser]

NoRow == [status |-> "absent", inst |-> NoInstitution, user |-> NoUser, role |-> None]

End(w) == tx' = [tx EXCEPT ![w] = Idle]

Proceed(w, r) == tx' = [tx EXCEPT ![w] = r]

\* Mutant of OwnershipFree: the count is not serialised.
OwnershipUnlocked(w, I) == TRUE

\* lockInstitutionOwnership, for every institution of the set.
OwnershipFree(w, I) == \A x \in Requests \ {w} : tx[x].own \cap I = {}

\* Mutant of CapFree: the cap is counted without the lock.
CapUnlocked(w, u) == TRUE

\* acquireOwnerCapLock.
CapFree(w, u) == \A x \in Requests \ {w} : tx[x].cap # u

\* Mutant of RowFree: the account is read without locking its row.
RowUnlocked(w, u) == TRUE

\* SELECT ... FOR UPDATE on the user's row.
RowFree(w, u) == \A x \in Requests \ {w} : tx[x].row # u

\* assertAccountNotDeactivated, whose read waits for the row and keeps it.
Reachable(w, u) == RowFree(w, u) /\ account[u].status = "active"

SetRole(i, u, role) == member' = [member EXCEPT ![i][u] = role]

Grant(i, u, role) ==
  granted' = IF role = Owner THEN granted \cup {<<i, u>>} ELSE granted

Init ==
  /\ account = [u \in Users |-> [status |-> "active", suspended |-> FALSE]]
  /\ institution = [i \in Institutions |->
       [founded |-> None, type |-> None, suspended |-> FALSE]]
  /\ member = [i \in Institutions |-> [u \in Users |-> None]]
  /\ granted = {}
  /\ invitation = [v \in Invitations |-> NoRow]
  /\ accepted = [v \in Invitations |-> 0]
  /\ tx = [w \in Requests |-> Idle]

-----------------------------------------------------------------------------
(* Founding and upgrading                                                  *)

\* The user's row, then the cap lock, then the count that the cap allows.
CreateDecide(w, u, kind) ==
  /\ tx[w] = Idle
  /\ u \in Recruiters
  /\ Reachable(w, u)
  /\ CapFree(w, u)
  /\ Cardinality(Owned(u, kind)) < Cap(kind)
  /\ Proceed(w, [Idle EXCEPT !.op = "create", !.user = u, !.word = kind, !.row = u, !.cap = u])
  /\ UNCHANGED rows

CreateCommit(w) ==
  /\ tx[w].op = "create"
  /\ \E i \in Institutions :
       /\ institution[i].type = None
       /\ institution' = [institution EXCEPT
            ![i] = [founded |-> tx[w].word, type |-> tx[w].word, suspended |-> FALSE]]
       /\ SetRole(i, tx[w].user, Owner)
  /\ End(w)
  /\ UNCHANGED <<account, granted, invitation, accepted>>

\* Only the cap lock: neither the owner's row nor the institution's ownership.
UpgradeDecide(w, u, i) ==
  /\ tx[w] = Idle
  /\ u \in Recruiters
  /\ CapFree(w, u)
  /\ member[i][u] = Owner
  /\ Cardinality(Owned(u, "full") \ {i}) + 1 <= MaxFull
  /\ Proceed(w, [Idle EXCEPT !.op = "upgrade", !.user = u, !.inst = i,
                             !.word = institution[i].type, !.cap = u])
  /\ UNCHANGED rows

\* A compare-and-set on the type that was read.
UpgradeCommit(w) ==
  LET i == tx[w].inst IN
  /\ tx[w].op = "upgrade"
  /\ institution[i].type = tx[w].word
  /\ institution' = [institution EXCEPT ![i].type = "full"]
  /\ End(w)
  /\ UNCHANGED <<account, member, granted, invitation, accepted>>

-----------------------------------------------------------------------------
(* Memberships                                                             *)

\* requireAdminInstitutionBySlug, before the transaction.
AdminCheck(w, a, i) ==
  /\ tx[w] = Idle
  /\ member[i][a] \in Admins
  /\ Proceed(w, [Idle EXCEPT !.op = "admin", !.actor = a, !.inst = i])
  /\ UNCHANGED rows

\* A target who owns the institution must leave another owner behind.
LeavesAnOwner(i, u, role) ==
  member[i][u] = Owner /\ role # Owner => Cardinality(Owners(i)) > 1

\* Under the ownership lock; a role the target already has is an early return.
MembershipDecide(w, u, role) ==
  LET i == tx[w].inst IN
  /\ tx[w].op = "admin"
  /\ OwnershipFree(w, {i})
  /\ member[i][u] \notin {None, role}
  /\ u # tx[w].actor
  /\ role \in Admins => u \in Recruiters
  /\ LeavesAnOwner(i, u, role)
  /\ Proceed(w, [tx[w] EXCEPT !.op = "role", !.user = u, !.word = role, !.own = {i}])
  /\ UNCHANGED rows

ChangeRoleDecide(w, u, role) == role \in Roles /\ MembershipDecide(w, u, role)

RemoveDecide(w, u) == MembershipDecide(w, u, None)

RoleCommit(w) ==
  /\ tx[w].op = "role"
  /\ SetRole(tx[w].inst, tx[w].user, tx[w].word)
  /\ Grant(tx[w].inst, tx[w].user, tx[w].word)
  /\ End(w)
  /\ UNCHANGED <<account, institution, invitation, accepted>>

-----------------------------------------------------------------------------
(* Invitations                                                             *)

\* Every read of createInstitutionInvitation, none of them in a transaction.
InviteCheck(w, a, i, u, role) ==
  /\ tx[w] = Idle
  /\ member[i][a] \in Admins
  /\ institution[i].type # "personal"
  /\ account[u].status = "active"
  /\ member[i][u] = None
  /\ \A v \in Invitations :
       invitation[v].status = "pending" => <<invitation[v].inst, invitation[v].user>> # <<i, u>>
  /\ Proceed(w, [Idle EXCEPT !.op = "invite", !.user = u, !.inst = i, !.word = role])
  /\ UNCHANGED rows

InviteCommit(w) ==
  LET t == tx[w] IN
  /\ t.op = "invite"
  /\ \E v \in Invitations :
       /\ invitation[v].status = "absent"
       /\ accepted[v] = 0
       /\ invitation' = [invitation EXCEPT
            ![v] = [status |-> "pending", inst |-> t.inst, user |-> t.user, role |-> t.word]]
  /\ End(w)
  /\ UNCHANGED <<account, institution, member, granted, accepted>>

\* The row of the user who accepts, then the invitation and the membership.
AcceptDecide(w, v) ==
  LET i == invitation[v].inst
      u == invitation[v].user IN
  /\ tx[w] = Idle
  /\ invitation[v].status = "pending"
  /\ Reachable(w, u)
  /\ invitation[v].role \in Admins => u \in Recruiters
  /\ member[i][u] = None
  /\ Proceed(w, [Idle EXCEPT !.op = "accept", !.user = u, !.inst = i, !.inv = v,
                             !.word = invitation[v].role, !.row = u])
  /\ UNCHANGED rows

AcceptCommit(w) ==
  LET t == tx[w] IN
  /\ t.op = "accept"
  /\ SetRole(t.inst, t.user, t.word)
  /\ Grant(t.inst, t.user, t.word)
  /\ invitation' = [invitation EXCEPT ![t.inv].status = "accepted"]
  /\ accepted' = [accepted EXCEPT ![t.inv] = @ + 1]
  /\ End(w)
  /\ UNCHANGED <<account, institution>>

\* A declined invitation and a cancelled one differ in nothing that is read later.
DeclineCheck(w, v) ==
  /\ tx[w] = Idle
  /\ invitation[v].status = "pending"
  /\ Proceed(w, [Idle EXCEPT !.op = "close", !.inv = v])
  /\ UNCHANGED rows

CancelCheck(w, a, v) ==
  /\ tx[w] = Idle
  /\ invitation[v].status = "pending"
  /\ member[invitation[v].inst][a] \in Admins
  /\ Proceed(w, [Idle EXCEPT !.op = "close", !.inv = v])
  /\ UNCHANGED rows

\* Written by id, over whatever the row says by then; a deleted row is not found.
CloseCommit(w) ==
  LET v == tx[w].inv IN
  /\ tx[w].op = "close"
  /\ invitation' =
       IF invitation[v].status = "absent" THEN invitation
       ELSE [invitation EXCEPT ![v].status = "closed"]
  /\ End(w)
  /\ UNCHANGED <<account, institution, member, granted, accepted>>

-----------------------------------------------------------------------------
(* Moderation                                                              *)

\* The operator's read of suspended_at comes before the transaction.
ModerateCheck(w, u) ==
  /\ tx[w] = Idle
  /\ Proceed(w, [Idle EXCEPT !.user = u,
       !.op = IF account[u].suspended THEN "unsuspend" ELSE "suspend"])
  /\ UNCHANGED rows

ModerateCommit(w) ==
  LET u == tx[w].user IN
  /\ tx[w].op \in {"suspend", "unsuspend"}
  /\ Reachable(w, u)
  /\ account' = [account EXCEPT ![u].suspended = (tx[w].op = "suspend")]
  /\ End(w)
  /\ UNCHANGED <<institution, member, granted, invitation, accepted>>

\* A compare-and-set: the read before it decides nothing more.
SuspendInstitution(i) ==
  /\ institution[i].type # None
  /\ ~institution[i].suspended
  /\ institution' = [institution EXCEPT ![i].suspended = TRUE]
  /\ UNCHANGED <<account, member, granted, invitation, accepted, tx>>

ReinstateDecide(w, i) ==
  /\ tx[w] = Idle
  /\ institution[i].suspended
  /\ OwnershipFree(w, {i})
  /\ Owners(i) # {}
  /\ Proceed(w, [Idle EXCEPT !.op = "reinstate", !.inst = i, !.own = {i}])
  /\ UNCHANGED rows

ReinstateCommit(w) ==
  LET i == tx[w].inst IN
  /\ tx[w].op = "reinstate"
  /\ institution[i].suspended
  /\ institution' = [institution EXCEPT ![i].suspended = FALSE]
  /\ End(w)
  /\ UNCHANGED <<account, member, granted, invitation, accepted>>

-----------------------------------------------------------------------------
(* De-identifying an account                                               *)

\* The institutions the target is in, and the ownership lock of each.
DeidentifyLock(w, u) ==
  /\ tx[w] = Idle
  /\ OwnershipFree(w, MemberOf(u))
  /\ Proceed(w, [Idle EXCEPT !.op = "locked", !.user = u, !.own = MemberOf(u)])
  /\ UNCHANGED rows

\* findInstitutionsWhereTargetIsLastActiveOwner: personal institutions are not counted.
LastOwnerOf(u) == {i \in Owned(u, "full") : Owners(i) = {u}}

\* Mutant of SetUnchanged: the set of institutions is not read again.
SetAssumed(w, u) == TRUE

\* An institution joined while waiting for the row is locked by nobody.
SetUnchanged(w, u) == MemberOf(u) \subseteq tx[w].own

\* The target's row, then the first refusals.
DeidentifyCheck(w) ==
  LET u == tx[w].user IN
  /\ tx[w].op = "locked"
  /\ Reachable(w, u)
  /\ SetUnchanged(w, u)
  /\ LastOwnerOf(u) = {}
  /\ Proceed(w, [tx[w] EXCEPT !.op = "checked", !.row = u])
  /\ UNCHANGED rows

\* findOwnedPersonalInstitution, a statement of its own: LIMIT 1.
DeidentifyPersonal(w) ==
  LET personal == Owned(tx[w].user, "personal") IN
  /\ tx[w].op = "checked"
  /\ \E i \in IF personal = {} THEN {NoInstitution} ELSE personal :
       Proceed(w, [tx[w] EXCEPT !.op = "resolved", !.inst = i])
  /\ UNCHANGED rows

\* The tombstone, the invitations, the memberships and the personal institution.
DeidentifyCommit(w) ==
  LET u == tx[w].user
      p == tx[w].inst IN
  /\ tx[w].op = "resolved"
  /\ account' = [account EXCEPT ![u] = [status |-> "deactivated", suspended |-> TRUE]]
  /\ invitation' = [v \in Invitations |->
       IF invitation[v].user = u THEN NoRow ELSE invitation[v]]
  /\ member' = [i \in Institutions |-> [member[i] EXCEPT ![u] = None]]
  /\ institution' = IF p = NoInstitution THEN institution
                    ELSE [institution EXCEPT ![p].suspended = TRUE]
  /\ End(w)
  /\ UNCHANGED <<granted, accepted>>

\* A refusal after the first read, the rehearsal's rollback, a lost connection.
Abandon(w) ==
  /\ tx[w] # Idle
  /\ End(w)
  /\ UNCHANGED rows

-----------------------------------------------------------------------------

Founding(w) ==
  \/ \E u \in Users, kind \in Kinds : CreateDecide(w, u, kind)
  \/ CreateCommit(w)
  \/ \E u \in Users, i \in Institutions : UpgradeDecide(w, u, i)
  \/ UpgradeCommit(w)

Membership(w) ==
  \/ \E a \in Users, i \in Institutions : AdminCheck(w, a, i)
  \/ \E u \in Users, role \in Roles : ChangeRoleDecide(w, u, role)
  \/ \E u \in Users : RemoveDecide(w, u)
  \/ RoleCommit(w)

Inviting(w) ==
  \/ \E a, u \in Users, i \in Institutions, role \in Roles : InviteCheck(w, a, i, u, role)
  \/ InviteCommit(w)
  \/ \E v \in Invitations : AcceptDecide(w, v) \/ DeclineCheck(w, v)
  \/ AcceptCommit(w)
  \/ \E a \in Users, v \in Invitations : CancelCheck(w, a, v)
  \/ CloseCommit(w)

Moderating(w) ==
  \/ \E u \in Users : ModerateCheck(w, u)
  \/ ModerateCommit(w)
  \/ \E i \in Institutions : ReinstateDecide(w, i)
  \/ ReinstateCommit(w)

Deidentifying(w) ==
  \/ \E u \in Users : DeidentifyLock(w, u)
  \/ DeidentifyCheck(w)
  \/ DeidentifyPersonal(w)
  \/ DeidentifyCommit(w)

Next ==
  \/ \E w \in Requests :
       \/ Founding(w) \/ Membership(w) \/ Inviting(w)
       \/ Moderating(w) \/ Deidentifying(w) \/ Abandon(w)
  \/ \E i \in Institutions : SuspendInstitution(i)

Spec == Init /\ [][Next]_vars

-----------------------------------------------------------------------------
(* Properties                                                              *)

Verbs == {"idle", "create", "upgrade", "admin", "role", "invite", "accept", "close",
          "suspend", "unsuspend", "reinstate", "locked", "checked", "resolved"}

TxType ==
  [op : Verbs, actor : Users \cup {NoUser}, user : Users \cup {NoUser},
   inst : Institutions \cup {NoInstitution}, inv : Invitations \cup {NoInvitation},
   word : Roles \cup Kinds \cup {None}, own : SUBSET Institutions,
   row : Users \cup {NoUser}, cap : Users \cup {NoUser}]

\* A deleted invitation has left nothing, any other one has its addressee.
Addressed(v) ==
  IF invitation[v].status = "absent" THEN invitation[v] = NoRow
  ELSE invitation[v].user \in Users

\* Every variable keeps its type, and no deleted invitation is written again.
TypeOK ==
  /\ account \in [Users -> [status : {"active", "deactivated"}, suspended : BOOLEAN]]
  /\ institution \in [Institutions ->
       [founded : Kinds \cup {None}, type : Kinds \cup {None}, suspended : BOOLEAN]]
  /\ member \in [Institutions -> [Users -> Roles \cup {None}]]
  /\ granted \subseteq Institutions \X Users
  /\ invitation \in [Invitations ->
       [status : {"absent", "pending", "accepted", "closed"},
        inst : Institutions \cup {NoInstitution}, user : Users \cup {NoUser},
        role : Roles \cup {None}]]
  /\ \A v \in Invitations : Addressed(v)
  /\ accepted \in [Invitations -> Nat]
  /\ tx \in [Requests -> TxType]

\* An institution founded as a full one always has an active owner, whichever
\* demotions, removals and de-identifications of its owners overlap: the guards
\* count other rows, and only the ownership lock makes their counts true.
FoundedFullIsOwned ==
  \A i \in Institutions : institution[i].founded = "full" => Owners(i) # {}

\* A personal institution is run by its owner or is suspended, and nobody
\* reinstates one whose owner has left: a reinstatement and a
\* de-identification of the owner count and write under one lock.
PersonalOwnedOrSuspended ==
  \A i \in Institutions :
    institution[i].type = "personal" => Owners(i) # {} \/ institution[i].suspended

\* What u owns of a kind and nobody granted.
Founded(u, kind) == {i \in Owned(u, kind) : <<i, u>> \notin granted}

\* Founding and upgrading never take a recruiter past the caps, however many
\* of the same owner's requests count at once.  Ownership that someone else
\* granted is not held to the cap.
FoundersWithinCap ==
  \A u \in Users, kind \in Kinds : Cardinality(Founded(u, kind)) <= Cap(kind)

\* A de-identified account holds no membership and stays suspended, although
\* an acceptance, a creation, a promotion or an unsuspension of it may have been
\* decided before it went.
GoneAccountHoldsNothing ==
  \A u \in Users :
    account[u].status = "deactivated" => MemberOf(u) = {} /\ account[u].suspended

\* An invitation brings its addressee in at most once, although a decline or a
\* cancellation decided earlier may overwrite the status the acceptance wrote.
AcceptedOnce == \A v \in Invitations : accepted[v] <= 1

\* What owner-membership-lock.ts sets out to rule out: "leaving an institution
\* with no active owner, which nothing in the product can repair".  An upgrade
\* that commits between the two reads of a de-identification leaves a full
\* institution that has no owner and is not suspended.
OwnedOrSuspended ==
  \A i \in Institutions :
    institution[i].type # None => Owners(i) # {} \/ institution[i].suspended

\* What OwnedOrSuspended lacks: an upgrade that waits for the ownership lock, as every
\* other handler that moves an institution between its kinds or its owners does.
UpgradesWaitForTheLock ==
  [][\A w \in Requests : UpgradeCommit(w) => OwnershipFree(w, {tx[w].inst})]_vars

-----------------------------------------------------------------------------
(* The inductive invariant of the proofs                                   *)

\* The three locks exclude each other's holders.
LocksExclude ==
  \A w, x \in Requests :
    w # x =>
      /\ tx[w].own \cap tx[x].own = {}
      /\ tx[w].row # NoUser => tx[w].row # tx[x].row
      /\ tx[w].cap # NoUser => tx[w].cap # tx[x].cap

\* A type is given once, members belong to an institution that exists, and
\* only a full one is granted.
TypesAreGiven ==
  \A i \in Institutions :
    /\ institution[i].founded = None <=> institution[i].type = None
    /\ institution[i].founded = "full" => institution[i].type = "full"
    /\ \A u \in Users : member[i][u] # None => institution[i].type # None
    /\ \A u \in Users : <<i, u>> \in granted => institution[i].type = "full"

\* Nobody but its founder is ever a member of a personal institution.
PersonalIsSolo ==
  \A i \in Institutions : institution[i].type = "personal" =>
    \A u, v \in Users : member[i][u] # None =>
      /\ member[i][u] = Owner
      /\ <<i, u>> \notin granted
      /\ member[i][v] # None => u = v

\* Only full institutions invite, and an open invitation was never accepted.
InvitationsOK ==
  \A v \in Invitations : invitation[v].status # "absent" =>
    /\ invitation[v].inst \in Institutions
    /\ invitation[v].user \in Users
    /\ invitation[v].role \in Roles
    /\ institution[invitation[v].inst].type = "full"
    /\ invitation[v].status = "pending" => accepted[v] = 0

\* What a handler has decided, while its locks keep it true.
CreateHolds(w) ==
  LET t == tx[w] IN
  /\ t.user \in Users /\ t.row = t.user /\ t.cap = t.user /\ t.word \in Kinds
  /\ Cardinality(Founded(t.user, t.word)) < Cap(t.word)

UpgradeHolds(w) ==
  LET t == tx[w] IN
  /\ t.user \in Users /\ t.cap = t.user /\ t.inst \in Institutions
  /\ institution[t.inst].type # None
  /\ Cardinality(Founded(t.user, "full") \ {t.inst}) < MaxFull
  /\ institution[t.inst].type = "personal" =>
       \A u \in Users : member[t.inst][u] # None => u = t.user

RoleHolds(w) ==
  LET t == tx[w] IN
  /\ t.user \in Users /\ t.inst \in Institutions /\ t.own = {t.inst}
  /\ t.word \in Roles \cup {None}
  /\ institution[t.inst].type = "full"
  /\ member[t.inst][t.user] # None
  /\ member[t.inst][t.user] = Owner /\ t.word # Owner =>
       \E u \in Users \ {t.user} : member[t.inst][u] = Owner

AcceptHolds(w) ==
  LET t == tx[w] IN
  /\ t.user \in Users /\ t.row = t.user
  /\ t.inv \in Invitations /\ t.inst \in Institutions /\ t.word \in Roles
  /\ institution[t.inst].type = "full"
  /\ member[t.inst][t.user] = None
  /\ invitation[t.inv].status # "absent" /\ invitation[t.inv].user = t.user
  /\ accepted[t.inv] = 0

CheckHolds(w) ==
  LET t == tx[w] IN
  /\ t.row = t.user
  /\ MemberOf(t.user) \subseteq t.own
  /\ \A i \in Institutions : institution[i].founded = "full" /\ member[i][t.user] = Owner =>
       \E u \in Users \ {t.user} : member[i][u] = Owner

HandlerHolds(w) ==
  LET t == tx[w] IN
  /\ t.row \in Users => account[t.row].status = "active"
  /\ t.op = "create" => CreateHolds(w)
  /\ t.op = "upgrade" => UpgradeHolds(w)
  /\ t.op = "admin" => t.inst \in Institutions
  /\ t.op = "role" => RoleHolds(w)
  /\ t.op = "invite" =>
       /\ t.user \in Users /\ t.inst \in Institutions /\ t.word \in Roles
       /\ institution[t.inst].type = "full"
  /\ t.op = "accept" => AcceptHolds(w)
  /\ t.op = "close" => t.inv \in Invitations
  /\ t.op \in {"suspend", "unsuspend", "locked", "checked", "resolved"} => t.user \in Users
  /\ t.op = "reinstate" =>
       t.inst \in Institutions /\ t.own = {t.inst} /\ Owners(t.inst) # {}
  /\ t.op \in {"checked", "resolved"} => CheckHolds(w)
  /\ t.op = "resolved" => Owned(t.user, "personal") \subseteq {t.inst}

IInv ==
  /\ TypeOK
  /\ LocksExclude
  /\ TypesAreGiven
  /\ PersonalIsSolo
  /\ InvitationsOK
  /\ \A w \in Requests : HandlerHolds(w)
  /\ FoundedFullIsOwned
  /\ PersonalOwnedOrSuspended
  /\ FoundersWithinCap
  /\ GoneAccountHoldsNothing
  /\ AcceptedOnce
=============================================================================
