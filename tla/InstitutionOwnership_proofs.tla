--------------------- MODULE InstitutionOwnership_proofs ---------------------
(***************************************************************************)
(* What the three locks buy, for any number of users, institutions and     *)
(* overlapping handlers and for every cap.                                 *)
(***************************************************************************)
EXTENDS InstitutionOwnership, FiniteSetTheorems, TLAPS

-----------------------------------------------------------------------------
(* Sets and counts                                                         *)

\* A set that has one element and counts more than one has another.
LEMMA AnotherElement ==
  ASSUME NEW S, NEW a \in S, Cardinality(S) > 1
  PROVE  \E b \in S \ {a} : TRUE
<1>1. SUFFICES ASSUME S = {a} PROVE FALSE
  OBVIOUS
<1>2. Cardinality({a}) = 1
  BY FS_Singleton
<1> QED BY <1>1, <1>2

\* A finite set that counts at most one has no two elements.
LEMMA AtMostOne ==
  ASSUME NEW S, IsFiniteSet(S), Cardinality(S) <= 1, NEW a \in S, NEW b \in S
  PROVE  a = b
<1>1. SUFFICES ASSUME a # b PROVE FALSE
  OBVIOUS
<1>2. Cardinality({a}) = 1 /\ IsFiniteSet({a})
  BY FS_Singleton
<1>3. Cardinality({a} \cup {b}) = Cardinality({a}) + 1 /\ IsFiniteSet({a} \cup {b})
  BY <1>1, <1>2, FS_AddElement
<1>4. Cardinality({a} \cup {b}) <= Cardinality(S)
  <2>1. {a} \cup {b} \subseteq S OBVIOUS
  <2> QED BY <2>1, FS_Subset
<1>5. Cardinality(S) \in Nat
  BY FS_CardinalityType
<1> QED BY <1>2, <1>3, <1>4, <1>5

\* What a user owns is finite and counted by a natural number.
LEMMA HoldingsCount ==
  ASSUME NEW S, S \subseteq Institutions
  PROVE  /\ IsFiniteSet(S) /\ Cardinality(S) \in Nat
         /\ \A T : T \subseteq S => Cardinality(T) <= Cardinality(S)
<1>1. IsFiniteSet(S) BY FS_Subset, PeopleAssumption
<1> QED BY <1>1, FS_Subset, FS_CardinalityType

-----------------------------------------------------------------------------
(* Reading steps                                                           *)

\* A step that writes nothing but what its own handler has read and locked.
Decided(w) ==
  /\ UNCHANGED rows
  /\ \E r \in TxType : tx' = [tx EXCEPT ![w] = r]
  /\ HandlerHolds(w)'
  /\ \A x \in Requests \ {w} :
       /\ tx'[w].own \cap tx[x].own = {}
       /\ tx'[w].row # NoUser => tx'[w].row # tx[x].row
       /\ tx'[w].cap # NoUser => tx'[w].cap # tx[x].cap

LEMMA DecidedStep ==
  ASSUME IInv, NEW w \in Requests, Decided(w)
  PROVE  IInv'
<1>1. tx \in [Requests -> TxType] BY DEF IInv, TypeOK
<1>2. PICK r \in TxType : tx' = [tx EXCEPT ![w] = r] BY DEF Decided
<1>3. tx' \in [Requests -> TxType] /\ tx'[w] = r
      /\ \A x \in Requests \ {w} : tx'[x] = tx[x]
  BY <1>1, <1>2
<1>4. TypeOK' BY <1>3 DEF IInv, TypeOK, Addressed, Decided, rows
<1>5. LocksExclude' BY <1>3 DEF IInv, LocksExclude, Decided
<1>6. ASSUME NEW x \in Requests PROVE HandlerHolds(x)'
  <2>1. CASE x = w BY <2>1 DEF Decided
  <2>2. CASE x # w
    <3>1. HandlerHolds(x) BY DEF IInv
    <3>2. tx'[x] = tx[x] BY <2>2, <1>3
    <3>3. UNCHANGED rows BY DEF Decided
    <3>4. CreateHolds(x) = CreateHolds(x)' /\ UpgradeHolds(x) = UpgradeHolds(x)'
      BY <3>2, <3>3 DEF rows, CreateHolds, UpgradeHolds, Founded, Owned, Cap
    <3>5. RoleHolds(x) = RoleHolds(x)' /\ AcceptHolds(x) = AcceptHolds(x)'
      BY <3>2, <3>3 DEF rows, RoleHolds, AcceptHolds
    <3>6. CheckHolds(x) = CheckHolds(x)'
      BY <3>2, <3>3 DEF rows, CheckHolds, MemberOf
    <3> QED BY <3>1, <3>2, <3>3, <3>4, <3>5, <3>6 DEF rows, HandlerHolds, Owned, Owners
  <2> QED BY <2>1, <2>2
<1>7. (TypesAreGiven /\ PersonalIsSolo /\ InvitationsOK)'
  BY DEF IInv, Decided, rows, TypesAreGiven, PersonalIsSolo, InvitationsOK
<1>8. (FoundedFullIsOwned /\ PersonalOwnedOrSuspended /\ FoundersWithinCap)'
  BY DEF IInv, Decided, rows, FoundedFullIsOwned, PersonalOwnedOrSuspended,
         FoundersWithinCap, Founded, Owned, Owners, Cap
<1>9. (GoneAccountHoldsNothing /\ AcceptedOnce)'
  BY DEF IInv, Decided, rows, GoneAccountHoldsNothing, AcceptedOnce, MemberOf
<1> QED BY <1>4, <1>5, <1>6, <1>7, <1>8, <1>9 DEF IInv

\* A handler that proceeds to r, reads what r needs and finds r's locks free.
LEMMA ProceedDecides ==
  ASSUME IInv, NEW w \in Requests, NEW r \in TxType, Proceed(w, r), UNCHANGED rows,
         OwnershipFree(w, r.own),
         r.row # NoUser => RowFree(w, r.row),
         r.cap # NoUser => CapFree(w, r.cap),
         tx'[w] = r => HandlerHolds(w)'
  PROVE  Decided(w)
<1>1. tx' = [tx EXCEPT ![w] = r] /\ tx'[w] = r
  BY DEF Proceed, IInv, TypeOK
<1>2. \A x \in Requests \ {w} : tx[x].own \cap r.own = {}
  BY DEF OwnershipFree
<1> QED BY <1>1, <1>2 DEF Decided, OwnershipFree, RowFree, CapFree

\* Founded institutions are among the owned ones.
LEMMA FoundedCount ==
  ASSUME NEW u, NEW kind
  PROVE  /\ Founded(u, kind) \subseteq Owned(u, kind) /\ Owned(u, kind) \subseteq Institutions
         /\ Cardinality(Founded(u, kind)) \in Nat /\ Cardinality(Owned(u, kind)) \in Nat
         /\ Cardinality(Founded(u, kind)) <= Cardinality(Owned(u, kind))
<1>1. Founded(u, kind) \subseteq Owned(u, kind) /\ Owned(u, kind) \subseteq Institutions
  BY DEF Founded, Owned
<1> QED BY <1>1, HoldingsCount

LEMMA CreateDecides ==
  ASSUME IInv, NEW w \in Requests, NEW u \in Users, NEW kind \in Kinds, CreateDecide(w, u, kind)
  PROVE  Decided(w)
<1> DEFINE r == [Idle EXCEPT !.op = "create", !.user = u, !.word = kind, !.row = u, !.cap = u]
<1>1. r \in TxType BY DEF TxType, Idle, Verbs
<1>2. Cardinality(Founded(u, kind)) < Cap(kind)
  <2>1. Cap(kind) \in Int BY CapsAssumption DEF Cap
  <2> QED BY <2>1, FoundedCount DEF CreateDecide
<1>3. (Cardinality(Founded(u, kind)) < Cap(kind))'
  BY <1>2 DEF CreateDecide, rows, Founded, Owned, Cap
<1>4. ASSUME tx'[w] = r PROVE HandlerHolds(w)'
  BY <1>3, <1>4 DEF HandlerHolds, CreateHolds, CreateDecide, Reachable, rows, Idle
<1>5. OwnershipFree(w, r.own) BY DEF OwnershipFree, Idle
<1> HIDE DEF r
<1> QED BY <1>1, <1>4, <1>5, ProceedDecides DEF CreateDecide, Reachable, r, Idle

LEMMA UpgradeDecides ==
  ASSUME IInv, NEW w \in Requests, NEW u \in Users, NEW i \in Institutions, UpgradeDecide(w, u, i)
  PROVE  Decided(w)
<1> DEFINE r == [Idle EXCEPT !.op = "upgrade", !.user = u, !.inst = i,
                             !.word = institution[i].type, !.cap = u]
<1>1. r \in TxType BY DEF TxType, Idle, Verbs, IInv, TypeOK
<1>2. Cardinality(Founded(u, "full") \ {i}) < MaxFull
  <2>1. Founded(u, "full") \ {i} \subseteq Owned(u, "full") \ {i} BY FoundedCount
  <2>2. Owned(u, "full") \ {i} \subseteq Institutions BY FoundedCount
  <2>3. Cardinality(Founded(u, "full") \ {i}) <= Cardinality(Owned(u, "full") \ {i})
        /\ Cardinality(Owned(u, "full") \ {i}) \in Nat
    BY <2>1, <2>2, HoldingsCount
  <2>4. Cardinality(Founded(u, "full") \ {i}) \in Nat BY <2>1, <2>2, HoldingsCount
  <2> QED BY <2>3, <2>4, CapsAssumption DEF UpgradeDecide
<1>3. (Cardinality(Founded(u, "full") \ {i}) < MaxFull)'
  BY <1>2 DEF UpgradeDecide, rows, Founded, Owned
<1>4. institution[i].type # None /\ (institution[i].type = "personal" =>
         \A v \in Users : member[i][v] # None => v = u)
  BY RolesAssumption DEF IInv, TypesAreGiven, PersonalIsSolo, UpgradeDecide
<1>5. ASSUME tx'[w] = r PROVE HandlerHolds(w)'
  BY <1>3, <1>4, <1>5, SentinelsAssumption
     DEF HandlerHolds, UpgradeHolds, UpgradeDecide, rows, Idle
<1>6. OwnershipFree(w, r.own) BY DEF OwnershipFree, Idle
<1> HIDE DEF r
<1> QED BY <1>1, <1>5, <1>6, ProceedDecides DEF UpgradeDecide, r, Idle

\* A handler keeps the locks it has: nobody else holds them.
LEMMA KeepsItsLocks ==
  ASSUME IInv, NEW w \in Requests
  PROVE  /\ OwnershipFree(w, tx[w].own)
         /\ tx[w].row # NoUser => RowFree(w, tx[w].row)
         /\ tx[w].cap # NoUser => CapFree(w, tx[w].cap)
BY DEF IInv, LocksExclude, OwnershipFree, RowFree, CapFree

LEMMA AdminChecks ==
  ASSUME IInv, NEW w \in Requests, NEW a \in Users, NEW i \in Institutions, AdminCheck(w, a, i)
  PROVE  Decided(w)
<1> DEFINE r == [Idle EXCEPT !.op = "admin", !.actor = a, !.inst = i]
<1>1. r \in TxType BY DEF TxType, Idle, Verbs
<1>2. ASSUME tx'[w] = r PROVE HandlerHolds(w)'
  BY <1>2, SentinelsAssumption DEF HandlerHolds, Idle
<1>3. OwnershipFree(w, r.own) BY DEF OwnershipFree, Idle
<1> HIDE DEF r
<1> QED BY <1>1, <1>2, <1>3, ProceedDecides DEF AdminCheck, r, Idle

LEMMA MembershipDecides ==
  ASSUME IInv, NEW w \in Requests, NEW u \in Users, NEW role \in Roles \cup {None},
         MembershipDecide(w, u, role)
  PROVE  Decided(w)
<1> DEFINE i == tx[w].inst
           r == [tx[w] EXCEPT !.op = "role", !.user = u, !.word = role, !.own = {i}]
<1>1. i \in Institutions BY DEF IInv, HandlerHolds, MembershipDecide
<1>2. tx[w] \in TxType BY DEF IInv, TypeOK
<1>3. r \in TxType BY <1>1, <1>2 DEF TxType, Verbs
<1>4. member[i][u] = Owner /\ role # Owner => \E v \in Users \ {u} : member[i][v] = Owner
  <2>1. SUFFICES ASSUME member[i][u] = Owner, role # Owner
                 PROVE  \E v \in Users \ {u} : member[i][v] = Owner
    OBVIOUS
  <2>2. u \in Owners(i) /\ Cardinality(Owners(i)) > 1
    BY <2>1 DEF MembershipDecide, LeavesAnOwner, Owners
  <2>3. \E v \in Owners(i) \ {u} : TRUE BY <2>2, AnotherElement
  <2> QED BY <2>3 DEF Owners
<1>5. institution[i].type = "full"
  <2> DEFINE kind == institution[i].type
  <2>1. kind \in {"personal", "full"}
    BY <1>1 DEF IInv, TypeOK, TypesAreGiven, MembershipDecide, Kinds
  <2>2. member[i][u] # None /\ member[i][u] # role BY DEF MembershipDecide
  <2>3. ASSUME kind = "personal" PROVE FALSE
    <3>1. member[i][u] = Owner BY <1>1, <2>2, <2>3 DEF IInv, PersonalIsSolo
    <3>2. PICK v \in Users \ {u} : member[i][v] = Owner BY <1>4, <2>2, <3>1
    <3>3. member[i][v] # None BY <3>2 DEF Owner, None
    <3> QED BY <1>1, <2>2, <2>3, <3>2, <3>3 DEF IInv, PersonalIsSolo
  <2> QED BY <2>1, <2>3
<1>6. member[i][u] # None BY DEF MembershipDecide
<1>7. ASSUME tx'[w] = r PROVE HandlerHolds(w)'
  <2>1. /\ tx'[w].op = "role" /\ tx'[w].user = u /\ tx'[w].inst = i /\ tx'[w].word = role
        /\ tx'[w].own = {i} /\ tx'[w].row = tx[w].row
    BY <1>2, <1>7 DEF TxType
  <2>2. RoleHolds(w)'
    BY <1>1, <1>4, <1>5, <1>6, <2>1 DEF RoleHolds, MembershipDecide, rows
  <2>3. tx'[w].row \in Users => account'[tx'[w].row].status = "active"
    BY <2>1 DEF IInv, HandlerHolds, MembershipDecide, rows
  <2> QED BY <2>1, <2>2, <2>3 DEF HandlerHolds
<1>8. r.own = {i} /\ r.row = tx[w].row /\ r.cap = tx[w].cap BY <1>2 DEF TxType
<1> HIDE DEF r
<1>9. Proceed(w, r) /\ UNCHANGED rows /\ OwnershipFree(w, r.own)
  BY <1>8 DEF MembershipDecide, r
<1> QED BY <1>3, <1>7, <1>8, <1>9, KeepsItsLocks, ProceedDecides

LEMMA InviteChecks ==
  ASSUME IInv, NEW w \in Requests, NEW a \in Users, NEW u \in Users, NEW i \in Institutions,
         NEW role \in Roles, InviteCheck(w, a, i, u, role)
  PROVE  Decided(w)
<1> DEFINE r == [Idle EXCEPT !.op = "invite", !.user = u, !.inst = i, !.word = role]
<1>1. r \in TxType BY DEF TxType, Idle, Verbs
<1>2. institution[i].type = "full"
  <2>1. member[i][a] # None BY DEF InviteCheck, Admins, Owner, Staff, None
  <2> QED BY <2>1 DEF IInv, TypeOK, TypesAreGiven, InviteCheck, Kinds
<1>3. ASSUME tx'[w] = r PROVE HandlerHolds(w)'
  BY <1>2, <1>3, SentinelsAssumption DEF HandlerHolds, Idle, InviteCheck, rows
<1>4. OwnershipFree(w, r.own) BY DEF OwnershipFree, Idle
<1> HIDE DEF r
<1> QED BY <1>1, <1>3, <1>4, ProceedDecides DEF InviteCheck, r, Idle

LEMMA AcceptDecides ==
  ASSUME IInv, NEW w \in Requests, NEW v \in Invitations, AcceptDecide(w, v)
  PROVE  Decided(w)
<1> DEFINE i == invitation[v].inst
           u == invitation[v].user
           r == [Idle EXCEPT !.op = "accept", !.user = u, !.inst = i, !.inv = v,
                             !.word = invitation[v].role, !.row = u]
<1>1. /\ i \in Institutions /\ u \in Users /\ invitation[v].role \in Roles
      /\ institution[i].type = "full" /\ accepted[v] = 0
  BY DEF IInv, InvitationsOK, AcceptDecide
<1>2. r \in TxType BY <1>1 DEF TxType, Idle, Verbs
<1>3. ASSUME tx'[w] = r PROVE HandlerHolds(w)'
  BY <1>1, <1>3 DEF HandlerHolds, AcceptHolds, Idle, AcceptDecide, Reachable, rows
<1>4. OwnershipFree(w, r.own) BY DEF OwnershipFree, Idle
<1> HIDE DEF r
<1> QED BY <1>2, <1>3, <1>4, ProceedDecides DEF AcceptDecide, Reachable, r, Idle

LEMMA CloseChecks ==
  ASSUME IInv, NEW w \in Requests, NEW v \in Invitations,
         DeclineCheck(w, v) \/ \E a \in Users : CancelCheck(w, a, v)
  PROVE  Decided(w)
<1> DEFINE r == [Idle EXCEPT !.op = "close", !.inv = v]
<1>1. Proceed(w, r) /\ UNCHANGED rows BY DEF DeclineCheck, CancelCheck
<1>2. r \in TxType BY DEF TxType, Idle, Verbs
<1>3. ASSUME tx'[w] = r PROVE HandlerHolds(w)'
  BY <1>3, SentinelsAssumption DEF HandlerHolds, Idle
<1>4. OwnershipFree(w, r.own) BY DEF OwnershipFree, Idle
<1>5. r.row = NoUser /\ r.cap = NoUser BY DEF Idle
<1> HIDE DEF r
<1> QED BY <1>1, <1>2, <1>3, <1>4, <1>5, ProceedDecides DEF r

LEMMA ModerateChecks ==
  ASSUME IInv, NEW w \in Requests, NEW u \in Users, ModerateCheck(w, u)
  PROVE  Decided(w)
<1>1. PICK verb \in {"suspend", "unsuspend"} :
        Proceed(w, [Idle EXCEPT !.user = u, !.op = verb]) /\ UNCHANGED rows
  BY DEF ModerateCheck
<1> DEFINE r == [Idle EXCEPT !.user = u, !.op = verb]
<1>2. r \in TxType BY DEF TxType, Idle, Verbs
<1>3. ASSUME tx'[w] = r PROVE HandlerHolds(w)'
  BY <1>3, SentinelsAssumption DEF HandlerHolds, Idle
<1>4. OwnershipFree(w, r.own) BY DEF OwnershipFree, Idle
<1>5. r.row = NoUser /\ r.cap = NoUser BY DEF Idle
<1> HIDE DEF r
<1> QED BY <1>1, <1>2, <1>3, <1>4, <1>5, ProceedDecides DEF r

LEMMA ReinstateDecides ==
  ASSUME IInv, NEW w \in Requests, NEW i \in Institutions, ReinstateDecide(w, i)
  PROVE  Decided(w)
<1> DEFINE r == [Idle EXCEPT !.op = "reinstate", !.inst = i, !.own = {i}]
<1>1. r \in TxType BY DEF TxType, Idle, Verbs
<1>2. ASSUME tx'[w] = r PROVE HandlerHolds(w)'
  BY <1>2, SentinelsAssumption DEF HandlerHolds, Idle, ReinstateDecide, rows, Owners
<1> HIDE DEF r
<1>3. r.own = {i} /\ r.row = NoUser /\ r.cap = NoUser BY DEF Idle, r
<1>4. Proceed(w, r) /\ UNCHANGED rows /\ OwnershipFree(w, r.own)
  BY <1>3 DEF ReinstateDecide, r
<1> QED BY <1>1, <1>2, <1>3, <1>4, ProceedDecides

LEMMA DeidentifyLocks ==
  ASSUME IInv, NEW w \in Requests, NEW u \in Users, DeidentifyLock(w, u)
  PROVE  Decided(w)
<1> DEFINE r == [Idle EXCEPT !.op = "locked", !.user = u, !.own = MemberOf(u)]
<1>1. r \in TxType BY DEF TxType, Idle, Verbs, MemberOf
<1>2. ASSUME tx'[w] = r PROVE HandlerHolds(w)'
  BY <1>2, SentinelsAssumption DEF HandlerHolds, Idle
<1> HIDE DEF r
<1>3. r.own = MemberOf(u) /\ r.row = NoUser /\ r.cap = NoUser BY DEF Idle, r
<1>4. Proceed(w, r) /\ UNCHANGED rows /\ OwnershipFree(w, r.own)
  BY <1>3 DEF DeidentifyLock, r
<1> QED BY <1>1, <1>2, <1>3, <1>4, ProceedDecides

LEMMA DeidentifyChecks ==
  ASSUME IInv, NEW w \in Requests, DeidentifyCheck(w)
  PROVE  Decided(w)
<1> DEFINE u == tx[w].user
           r == [tx[w] EXCEPT !.op = "checked", !.row = u]
<1>1. u \in Users BY DEF IInv, HandlerHolds, DeidentifyCheck
<1>2. tx[w] \in TxType BY DEF IInv, TypeOK
<1>3. r \in TxType BY <1>1, <1>2 DEF TxType, Verbs
<1>4. ASSUME NEW i \in Institutions, institution[i].founded = "full", member[i][u] = Owner
      PROVE  \E v \in Users \ {u} : member[i][v] = Owner
  <2>1. i \in Owned(u, "full") BY <1>4 DEF IInv, TypesAreGiven, Owned
  <2>2. Owners(i) # {u} BY <2>1 DEF DeidentifyCheck, LastOwnerOf
  <2>3. u \in Owners(i) BY <1>1, <1>4 DEF Owners
  <2> QED BY <2>2, <2>3 DEF Owners
<1>5. ASSUME tx'[w] = r PROVE HandlerHolds(w)'
  <2>1. /\ tx'[w].op = "checked" /\ tx'[w].user = u /\ tx'[w].row = u
        /\ tx'[w].own = tx[w].own
    BY <1>2, <1>5 DEF TxType
  <2>2. CheckHolds(w)'
    BY <1>4, <2>1 DEF CheckHolds, DeidentifyCheck, SetUnchanged, rows, MemberOf
  <2> QED BY <1>1, <2>1, <2>2 DEF HandlerHolds, DeidentifyCheck, Reachable, rows
<1>6. r.own = tx[w].own /\ r.row = u /\ r.cap = tx[w].cap BY <1>2 DEF TxType
<1> HIDE DEF r
<1>7. Proceed(w, r) /\ UNCHANGED rows /\ RowFree(w, r.row)
  BY <1>6 DEF DeidentifyCheck, Reachable, r
<1> QED BY <1>3, <1>5, <1>6, <1>7, KeepsItsLocks, ProceedDecides

LEMMA DeidentifyResolves ==
  ASSUME IInv, NEW w \in Requests, DeidentifyPersonal(w)
  PROVE  Decided(w)
<1> DEFINE u == tx[w].user
           personal == Owned(u, "personal")
<1>1. PICK i \in IF personal = {} THEN {NoInstitution} ELSE personal :
        Proceed(w, [tx[w] EXCEPT !.op = "resolved", !.inst = i])
  BY DEF DeidentifyPersonal
<1> DEFINE r == [tx[w] EXCEPT !.op = "resolved", !.inst = i]
<1>2. u \in Users /\ CheckHolds(w) BY DEF IInv, HandlerHolds, DeidentifyPersonal
<1>3. tx[w] \in TxType BY DEF IInv, TypeOK
<1>4. i \in Institutions \cup {NoInstitution} BY DEF Owned
<1>5. r \in TxType BY <1>3, <1>4 DEF TxType, Verbs
<1>6. personal \subseteq {i}
  <2>1. personal = Founded(u, "personal")
    BY <1>2 DEF IInv, PersonalIsSolo, Founded, Owned, None, Owner
  <2>2. Cardinality(personal) <= 1
    BY <1>2, <2>1, CapsAssumption DEF IInv, FoundersWithinCap, Kinds, Cap
  <2>3. IsFiniteSet(personal) BY FoundedCount, HoldingsCount
  <2> HIDE DEF personal
  <2> QED BY <2>2, <2>3, AtMostOne
<1>7. ASSUME tx'[w] = r PROVE HandlerHolds(w)'
  <2>1. /\ tx'[w].op = "resolved" /\ tx'[w].user = u /\ tx'[w].row = tx[w].row
        /\ tx'[w].own = tx[w].own /\ tx'[w].inst = i
    BY <1>3, <1>7 DEF TxType
  <2>2. CheckHolds(w)'
    BY <1>2, <2>1 DEF CheckHolds, DeidentifyPersonal, rows, MemberOf
  <2>3. Owned(u, "personal")' \subseteq {i} /\ u = tx'[w].user
    BY <1>6, <2>1 DEF Owned, DeidentifyPersonal, rows
  <2>4. (Owned(tx[w].user, "personal") \subseteq {tx[w].inst})'
    BY <2>1, <2>3 DEF Owned
  <2>5. tx'[w].row \in Users => account'[tx'[w].row].status = "active"
    BY <2>1 DEF IInv, HandlerHolds, DeidentifyPersonal, rows
  <2> QED BY <1>2, <2>1, <2>2, <2>4, <2>5 DEF HandlerHolds
<1>8. r.own = tx[w].own /\ r.row = tx[w].row /\ r.cap = tx[w].cap BY <1>3 DEF TxType
<1> HIDE DEF r
<1>9. Proceed(w, r) /\ UNCHANGED rows BY <1>1 DEF DeidentifyPersonal, r
<1> QED BY <1>5, <1>7, <1>8, <1>9, KeepsItsLocks, ProceedDecides

LEMMA Abandons ==
  ASSUME IInv, NEW w \in Requests, Abandon(w)
  PROVE  Decided(w)
<1>1. Idle \in TxType BY DEF TxType, Idle, Verbs
<1>2. ASSUME tx'[w] = Idle PROVE HandlerHolds(w)'
  BY <1>2, SentinelsAssumption DEF HandlerHolds, Idle
<1>3. OwnershipFree(w, Idle.own) /\ Idle.row = NoUser /\ Idle.cap = NoUser
  BY DEF OwnershipFree, Idle
<1>4. Proceed(w, Idle) /\ UNCHANGED rows BY DEF Abandon, End, Proceed
<1> QED BY <1>1, <1>2, <1>3, <1>4, ProceedDecides

-----------------------------------------------------------------------------
(* Writing steps                                                           *)

\* What a step of another handler leaves to the holder of a lock.
Undisturbed(x) ==
  /\ tx'[x] = tx[x]
  /\ \A i \in tx[x].own, u \in Users : member[i][u] # None => member'[i][u] = member[i][u]
  /\ \A u \in Users : tx[x].row = u =>
       /\ account'[u].status = account[u].status
       /\ \A i \in Institutions : member'[i][u] # None => member[i][u] # None
       /\ \A v \in Invitations : invitation[v].status # "absent" /\ invitation[v].user = u =>
            /\ invitation'[v].status # "absent" /\ invitation'[v].user = u
            /\ accepted'[v] = accepted[v]
  /\ \A u \in Users, kind \in Kinds : tx[x].cap = u => Founded(u, kind)' \subseteq Founded(u, kind)
  /\ \A i \in Institutions : institution[i].type # None =>
       /\ institution'[i].founded = institution[i].founded
       /\ institution'[i].type \in {institution[i].type, "full"}
  /\ \A i \in Institutions, u \in Users : institution[i].type = "personal" =>
       (member'[i][u] # None => member[i][u] # None)

LEMMA UndisturbedHolds ==
  ASSUME IInv, NEW x \in Requests, Undisturbed(x)
  PROVE  HandlerHolds(x)'
<1> DEFINE t == tx[x]
<1>1. HandlerHolds(x) /\ t \in TxType /\ tx'[x] = t BY DEF IInv, TypeOK, Undisturbed
<1>2. t.row \in Users => account'[t.row].status = "active"
  BY <1>1 DEF HandlerHolds, Undisturbed
<1>3. ASSUME t.op = "create" PROVE CreateHolds(x)'
  <2>1. CreateHolds(x) BY <1>1, <1>3 DEF HandlerHolds
  <2>2. Founded(t.user, t.word)' \subseteq Founded(t.user, t.word)
    BY <2>1 DEF CreateHolds, Undisturbed
  <2>3. Founded(t.user, t.word) \subseteq Institutions BY DEF Founded, Owned
  <2>4. Cardinality(Founded(t.user, t.word)') <= Cardinality(Founded(t.user, t.word))
        /\ Cardinality(Founded(t.user, t.word)) \in Nat
    BY <2>2, <2>3, HoldingsCount
  <2>5. Cardinality(Founded(t.user, t.word)') \in Nat BY <2>2, <2>3, HoldingsCount
  <2>6. Cap(t.word) \in Int BY CapsAssumption DEF Cap
  <2>7. Cardinality(Founded(t.user, t.word)') < Cap(t.word)
    BY <2>1, <2>4, <2>5, <2>6 DEF CreateHolds
  <2> QED BY <1>1, <2>1, <2>7 DEF CreateHolds, Founded, Owned, Cap
<1>4. ASSUME t.op = "upgrade" PROVE UpgradeHolds(x)'
  <2>1. UpgradeHolds(x) BY <1>1, <1>4 DEF HandlerHolds
  <2> DEFINE S == Founded(t.user, "full") \ {t.inst}
             T == Founded(t.user, "full")' \ {t.inst}
  <2>2. T \subseteq S BY <2>1 DEF UpgradeHolds, Undisturbed, Kinds
  <2>3. S \subseteq Institutions BY DEF Founded, Owned
  <2>4. T \subseteq Institutions BY <2>2, <2>3
  <2>5. Cardinality(T) <= Cardinality(S) /\ Cardinality(S) \in Nat /\ Cardinality(T) \in Nat
    <3> HIDE DEF S, T
    <3> QED BY <2>2, <2>3, <2>4, HoldingsCount
  <2>6. Cardinality(S) < MaxFull BY <2>1 DEF UpgradeHolds
  <2>7. Cardinality(T) < MaxFull
    <3> HIDE DEF S, T
    <3> QED BY <2>5, <2>6, CapsAssumption
  <2>8. institution'[t.inst].type # None /\
        (institution'[t.inst].type = "personal" =>
           \A u \in Users : member'[t.inst][u] # None => u = t.user)
    BY <2>1 DEF UpgradeHolds, Undisturbed, None
  <2> QED BY <1>1, <2>1, <2>7, <2>8 DEF UpgradeHolds, Founded, Owned
<1>5. ASSUME t.op = "role" PROVE RoleHolds(x)'
  <2>1. RoleHolds(x) BY <1>1, <1>5 DEF HandlerHolds
  <2>2. \A u \in Users : member[t.inst][u] # None => member'[t.inst][u] = member[t.inst][u]
    BY <2>1 DEF RoleHolds, Undisturbed
  <2>3. institution'[t.inst].type = "full" BY <2>1 DEF RoleHolds, Undisturbed, None
  <2> QED BY <1>1, <2>1, <2>2, <2>3 DEF RoleHolds, Owner, None
<1>6. ASSUME t.op = "accept" PROVE AcceptHolds(x)'
  <2>1. AcceptHolds(x) BY <1>1, <1>6 DEF HandlerHolds
  <2>2. member'[t.inst][t.user] = None /\ institution'[t.inst].type = "full"
    BY <2>1 DEF AcceptHolds, Undisturbed, None
  <2>3. /\ invitation'[t.inv].status # "absent" /\ invitation'[t.inv].user = t.user
        /\ accepted'[t.inv] = 0
    BY <2>1 DEF AcceptHolds, Undisturbed
  <2> QED BY <1>1, <2>1, <2>2, <2>3 DEF AcceptHolds
<1>7. ASSUME t.op \in {"checked", "resolved"} PROVE CheckHolds(x)'
  <2>1. CheckHolds(x) /\ t.user \in Users BY <1>1, <1>7 DEF HandlerHolds
  <2>2. MemberOf(t.user)' \subseteq MemberOf(t.user) BY <2>1 DEF CheckHolds, Undisturbed, MemberOf
  <2>3. ASSUME NEW i \in Institutions, institution'[i].founded = "full",
               member'[i][t.user] = Owner
        PROVE  \E u \in Users \ {t.user} : member'[i][u] = Owner
    <3>1. i \in MemberOf(t.user) BY <1>1, <2>2, <2>3 DEF MemberOf, Owner, None
    <3>2. \A u \in Users : member[i][u] # None => member'[i][u] = member[i][u]
      BY <2>1, <3>1 DEF CheckHolds, Undisturbed
    <3>3. member[i][t.user] = Owner BY <2>1, <2>3, <3>1, <3>2 DEF MemberOf
    <3>4. institution[i].founded = "full"
      BY <2>1, <2>3, <3>1 DEF IInv, TypesAreGiven, MemberOf, Undisturbed
    <3> QED BY <2>1, <3>2, <3>3, <3>4 DEF CheckHolds, Owner, None
  <2> QED BY <1>1, <2>1, <2>2, <2>3 DEF CheckHolds, MemberOf
<1>8. ASSUME t.op = "resolved" PROVE Owned(t.user, "personal")' \subseteq {t.inst}
  <2>1. CheckHolds(x) /\ t.user \in Users /\ Owned(t.user, "personal") \subseteq {t.inst}
    BY <1>1, <1>8 DEF HandlerHolds
  <2>2. ASSUME NEW i \in Institutions, member'[i][t.user] = Owner,
               institution'[i].type = "personal"
        PROVE  i = t.inst
    <3>1. i \in MemberOf(t.user)
      BY <2>1, <2>2 DEF CheckHolds, Undisturbed, MemberOf, Owner, None
    <3>2. member[i][t.user] = Owner
      BY <2>1, <2>2, <3>1 DEF CheckHolds, Undisturbed, MemberOf
    <3>3. institution[i].type = "personal"
      BY <2>1, <2>2, <3>1 DEF IInv, TypesAreGiven, MemberOf, Undisturbed
    <3> QED BY <2>1, <3>2, <3>3 DEF Owned
  <2> QED BY <1>1, <2>2 DEF Owned
<1>9. ASSUME t.op = "reinstate" PROVE Owners(t.inst)' # {}
  <2>1. t.inst \in Institutions /\ t.own = {t.inst} /\ Owners(t.inst) # {}
    BY <1>1, <1>9 DEF HandlerHolds
  <2>2. PICK u \in Users : member[t.inst][u] = Owner BY <2>1 DEF Owners
  <2>3. member'[t.inst][u] = Owner BY <2>1, <2>2 DEF Undisturbed, Owner, None
  <2> QED BY <1>1, <2>1, <2>3 DEF Owners
<1>10. ASSUME t.op = "invite" PROVE institution'[t.inst].type = "full"
  BY <1>1, <1>10 DEF HandlerHolds, Undisturbed, None
<1>11. (Owned(tx[x].user, "personal") \subseteq {tx[x].inst})'
         = (Owned(t.user, "personal")' \subseteq {t.inst})
       /\ Owners(tx[x].inst)' = Owners(t.inst)'
  BY <1>1 DEF Owned, Owners
<1> QED BY <1>1, <1>2, <1>3, <1>4, <1>5, <1>6, <1>7, <1>8, <1>9, <1>10, <1>11 DEF HandlerHolds

\* What the invariant says of the rows alone.
RowsHold ==
  /\ TypesAreGiven /\ PersonalIsSolo /\ InvitationsOK
  /\ FoundedFullIsOwned /\ PersonalOwnedOrSuspended /\ FoundersWithinCap
  /\ GoneAccountHoldsNothing /\ AcceptedOnce

Committed(w) == End(w) /\ \A x \in Requests \ {w} : Undisturbed(x)

\* A handler that writes and lets its locks go disturbs nobody.
LEMMA CommitStep ==
  ASSUME IInv, NEW w \in Requests, End(w), TypeOK', RowsHold',
         \A x \in Requests \ {w} : Undisturbed(x)
  PROVE  IInv' /\ Committed(w)
<1>1. tx'[w] = Idle BY DEF End, IInv, TypeOK
<1>2. \A x \in Requests \ {w} : tx'[x] = tx[x] BY DEF Undisturbed
<1>3. LocksExclude'
  <2>1. tx'[w].own = {} /\ tx'[w].row = NoUser /\ tx'[w].cap = NoUser BY <1>1 DEF Idle
  <2> QED BY <1>2, <2>1 DEF IInv, LocksExclude
<1>4. HandlerHolds(w)'
  BY <1>1, SentinelsAssumption DEF HandlerHolds, Idle
<1>5. \A x \in Requests : HandlerHolds(x)'
  BY <1>4, UndisturbedHolds
<1> QED BY <1>3, <1>5 DEF IInv, RowsHold, Committed

\* The locks are let go and nobody else's reading is touched.
LEMMA EndKeepsOthers ==
  ASSUME IInv, NEW w \in Requests, End(w)
  PROVE  tx' \in [Requests -> TxType] /\ \A x \in Requests \ {w} : tx'[x] = tx[x]
<1>1. Idle \in TxType BY DEF TxType, Idle, Verbs
<1> QED BY <1>1 DEF IInv, TypeOK, End

\* A step keeps the caps that adds one institution to what the cap allows.
LEMMA CapsKept ==
  ASSUME IInv,
         \A u \in Users, kind \in Kinds :
           \/ Founded(u, kind)' \subseteq Founded(u, kind)
           \/ \E i \in Institutions :
                /\ Founded(u, kind)' \subseteq (Founded(u, kind) \ {i}) \cup {i}
                /\ Cardinality(Founded(u, kind) \ {i}) < Cap(kind)
  PROVE  FoundersWithinCap'
<1>1. SUFFICES ASSUME NEW u \in Users, NEW kind \in Kinds
               PROVE  Cardinality(Founded(u, kind)') <= Cap(kind)
  BY DEF FoundersWithinCap, Cap
<1> DEFINE S == Founded(u, kind)
           T == Founded(u, kind)'
<1>2. S \subseteq Institutions /\ T \subseteq Institutions BY DEF Founded, Owned
<1>3. Cap(kind) \in Int /\ Cardinality(S) <= Cap(kind)
  BY CapsAssumption DEF IInv, FoundersWithinCap, Cap
<1>4. \/ T \subseteq S
      \/ \E i \in Institutions :
           T \subseteq (S \ {i}) \cup {i} /\ Cardinality(S \ {i}) < Cap(kind)
  OBVIOUS
<1> HIDE DEF S, T
<1>5. CASE T \subseteq S
  <2>1. Cardinality(T) <= Cardinality(S) /\ Cardinality(S) \in Nat /\ Cardinality(T) \in Nat
    BY <1>2, <1>5, HoldingsCount
  <2> QED BY <1>3, <2>1 DEF T
<1>6. ASSUME NEW i \in Institutions, T \subseteq (S \ {i}) \cup {i},
             Cardinality(S \ {i}) < Cap(kind)
      PROVE  Cardinality(T) <= Cap(kind)
  <2> DEFINE R == S \ {i}
  <2>1. R \subseteq Institutions /\ R \cup {i} \subseteq Institutions BY <1>2
  <2>2. IsFiniteSet(R) /\ Cardinality(R) \in Nat BY <2>1, HoldingsCount
  <2>3. Cardinality(R \cup {i}) = Cardinality(R) + 1
    <3>1. i \notin R OBVIOUS
    <3> HIDE DEF R
    <3> QED BY <2>2, <3>1, FS_AddElement
  <2>4. T \subseteq R \cup {i} BY <1>6
  <2>5. Cardinality(T) <= Cardinality(R \cup {i}) BY <2>1, <2>4, HoldingsCount
  <2>6. Cardinality(T) \in Nat BY <1>2, HoldingsCount
  <2>7. Cardinality(R) < Cap(kind) BY <1>6
  <2> HIDE DEF R
  <2> QED BY <1>3, <2>2, <2>3, <2>5, <2>6, <2>7
<1> QED BY <1>4, <1>5, <1>6 DEF T

\* Other handlers hold other locks.
LEMMA LocksDiffer ==
  ASSUME IInv, NEW w \in Requests, NEW x \in Requests \ {w}
  PROVE  /\ tx[w].own \cap tx[x].own = {}
         /\ tx[w].row # NoUser => tx[w].row # tx[x].row
         /\ tx[w].cap # NoUser => tx[w].cap # tx[x].cap
BY DEF IInv, LocksExclude

LEMMA CreateCommits ==
  ASSUME IInv, NEW w \in Requests, CreateCommit(w)
  PROVE  IInv' /\ Committed(w)
<1>0. PICK u, kind : tx[w].user = u /\ tx[w].word = kind OBVIOUS
<1>1. PICK i \in Institutions :
        /\ institution[i].type = None
        /\ institution' = [institution EXCEPT
             ![i] = [founded |-> kind, type |-> kind, suspended |-> FALSE]]
        /\ SetRole(i, u, Owner)
  BY <1>0 DEF CreateCommit
<1>2. End(w) /\ UNCHANGED <<account, granted, invitation, accepted>> BY DEF CreateCommit
<1>3. /\ u \in Users /\ tx[w].row = u /\ tx[w].cap = u /\ kind \in Kinds
      /\ Cardinality(Founded(u, kind)) < Cap(kind) /\ account[u].status = "active"
  BY <1>0 DEF CreateCommit, IInv, HandlerHolds, CreateHolds
<1>4. \A v \in Users : member[i][v] = None BY <1>1 DEF IInv, TypesAreGiven
<1>5. /\ \A j \in Institutions, v \in Users :
           member'[j][v] = IF j = i /\ v = u THEN Owner ELSE member[j][v]
      /\ \A j \in Institutions \ {i} : institution'[j] = institution[j]
      /\ institution'[i].type = kind /\ institution'[i].founded = kind
  BY <1>1, <1>3 DEF IInv, TypeOK, SetRole
<1>6. TypeOK'
  <2>1. member' \in [Institutions -> [Users -> Roles \cup {None}]]
    BY <1>1, <1>3, RolesAssumption DEF IInv, TypeOK, SetRole
  <2>2. institution' \in [Institutions ->
          [founded : Kinds \cup {None}, type : Kinds \cup {None}, suspended : BOOLEAN]]
    BY <1>1, <1>3 DEF IInv, TypeOK
  <2> QED BY <1>2, <2>1, <2>2, EndKeepsOthers DEF IInv, TypeOK, Addressed
<1>7. \A v \in Users, k \in Kinds :
        (v # u \/ k # kind => Founded(v, k)' \subseteq Founded(v, k))
        /\ Founded(v, k)' \subseteq Founded(v, k) \cup {i}
  BY <1>2, <1>4, <1>5, RolesAssumption DEF Founded, Owned
<1>8. ASSUME NEW x \in Requests \ {w} PROVE Undisturbed(x)
  <2>1. tx'[x] = tx[x] BY <1>2, EndKeepsOthers
  <2>2. u # NoUser BY <1>3, SentinelsAssumption
  <2>3. tx[x].row # u /\ tx[x].cap # u BY <1>3, <2>2, LocksDiffer
  <2>4. \A v \in Users, k \in Kinds : tx[x].cap = v => Founded(v, k)' \subseteq Founded(v, k)
    BY <1>7, <2>3
  <2>5. \A j \in Institutions : institution[j].type # None => j # i BY <1>1
  <2>6. tx[x].own \subseteq Institutions BY DEF IInv, TypeOK, TxType
  <2> QED BY <1>2, <1>4, <1>5, <2>1, <2>3, <2>4, <2>5, <2>6 DEF Undisturbed, None
<1>9. RowsHold'
  <2>1. kind # None BY <1>3 DEF Kinds, None
  <2>2. \A v \in Users : <<i, v>> \notin granted BY <1>1 DEF IInv, TypesAreGiven, None
  <2>3. TypesAreGiven' BY <1>2, <1>5, <2>1, <2>2 DEF IInv, TypesAreGiven
  <2>4. PersonalIsSolo' BY <1>2, <1>4, <1>5, <2>2 DEF IInv, PersonalIsSolo
  <2>5. InvitationsOK' BY <1>1, <1>2, <1>5 DEF IInv, InvitationsOK, None
  <2>6. \A j \in Institutions : Owners(j) \subseteq Owners(j)' BY <1>4, <1>5 DEF Owners
  <2>7. u \in Owners(i)' BY <1>3, <1>5 DEF Owners
  <2>8. FoundedFullIsOwned' /\ PersonalOwnedOrSuspended'
    BY <1>5, <2>6, <2>7 DEF IInv, FoundedFullIsOwned, PersonalOwnedOrSuspended
  <2>9. FoundersWithinCap'
    <3>1. i \notin Founded(u, kind) BY <1>4, <1>3 DEF Founded, Owned, Owner, None
    <3>2. Founded(u, kind)' \subseteq (Founded(u, kind) \ {i}) \cup {i} BY <1>3, <1>7
    <3>3. Founded(u, kind) \ {i} = Founded(u, kind) BY <3>1
    <3>4. Cardinality(Founded(u, kind) \ {i}) < Cap(kind) BY <1>3, <3>3
    <3> QED BY <1>3, <1>7, <3>2, <3>4, CapsKept
  <2>10. GoneAccountHoldsNothing' BY <1>2, <1>3, <1>5 DEF IInv, GoneAccountHoldsNothing, MemberOf
  <2>11. AcceptedOnce' BY <1>2 DEF IInv, AcceptedOnce
  <2> QED BY <2>3, <2>4, <2>5, <2>8, <2>9, <2>10, <2>11 DEF RowsHold
<1> QED BY <1>2, <1>6, <1>8, <1>9, CommitStep

LEMMA UpgradeCommits ==
  ASSUME IInv, NEW w \in Requests, UpgradeCommit(w)
  PROVE  IInv' /\ Committed(w)
<1>0. PICK i, u : tx[w].inst = i /\ tx[w].user = u OBVIOUS
<1>1. /\ u \in Users /\ tx[w].cap = u /\ i \in Institutions
      /\ institution[i].type # None
      /\ Cardinality(Founded(u, "full") \ {i}) < MaxFull
      /\ institution[i].type = "personal" => \A v \in Users : member[i][v] # None => v = u
  BY <1>0 DEF UpgradeCommit, IInv, HandlerHolds, UpgradeHolds
<1>2. End(w) /\ UNCHANGED <<account, member, granted, invitation, accepted>>
  BY DEF UpgradeCommit
<1>3. institution' = [institution EXCEPT ![i].type = "full"]
  BY <1>0 DEF UpgradeCommit
<1>4. /\ \A j \in Institutions \ {i} : institution'[j] = institution[j]
      /\ institution'[i].type = "full" /\ institution'[i].founded = institution[i].founded
      /\ institution'[i].suspended = institution[i].suspended
      /\ institution[i].type \in {"personal", "full"}
  BY <1>1, <1>3 DEF IInv, TypeOK, Kinds
<1>5. TypeOK'
  <2>1. institution' \in [Institutions ->
          [founded : Kinds \cup {None}, type : Kinds \cup {None}, suspended : BOOLEAN]]
    <3> DEFINE R == [founded : Kinds \cup {None}, type : Kinds \cup {None}, suspended : BOOLEAN]
    <3>1. institution \in [Institutions -> R] BY DEF IInv, TypeOK
    <3>2. [institution[i] EXCEPT !.type = "full"] \in R
      <4>1. institution[i] \in R BY <1>1, <3>1
      <4> QED BY <4>1 DEF Kinds
    <3> HIDE DEF R
    <3>3. institution' \in [Institutions -> R] BY <1>1, <1>3, <3>1, <3>2
    <3> QED BY <3>3 DEF R
  <2> QED BY <1>2, <2>1, EndKeepsOthers DEF IInv, TypeOK, Addressed
<1>6. \A v \in Users, k \in Kinds :
        (v # u \/ k # "full" => Founded(v, k)' \subseteq Founded(v, k))
        /\ Founded(v, k)' \subseteq Founded(v, k) \cup {i}
  BY <1>1, <1>2, <1>4 DEF Founded, Owned, Kinds, Owner, None
<1>7. ASSUME NEW x \in Requests \ {w} PROVE Undisturbed(x)
  <2>1. tx'[x] = tx[x] BY <1>2, EndKeepsOthers
  <2>2. tx[x].cap # u BY <1>1, SentinelsAssumption, LocksDiffer
  <2>3. \A v \in Users, k \in Kinds : tx[x].cap = v => Founded(v, k)' \subseteq Founded(v, k)
    BY <1>6, <2>2
  <2> QED BY <1>2, <1>4, <2>1, <2>3 DEF Undisturbed
<1>8. RowsHold'
  <2>1. TypesAreGiven' BY <1>1, <1>2, <1>4 DEF IInv, TypesAreGiven, None
  <2>2. PersonalIsSolo' BY <1>2, <1>4 DEF IInv, PersonalIsSolo
  <2>3. InvitationsOK' BY <1>2, <1>4 DEF IInv, InvitationsOK
  <2>4. FoundedFullIsOwned' BY <1>2, <1>4 DEF IInv, FoundedFullIsOwned, Owners
  <2>5. PersonalOwnedOrSuspended' BY <1>2, <1>4 DEF IInv, PersonalOwnedOrSuspended, Owners
  <2>6. FoundersWithinCap'
    <3>1. Founded(u, "full")' \subseteq (Founded(u, "full") \ {i}) \cup {i}
      BY <1>1, <1>6 DEF Kinds
    <3>2. Cardinality(Founded(u, "full") \ {i}) < Cap("full") BY <1>1 DEF Cap
    <3> QED BY <1>1, <1>6, <3>1, <3>2, CapsKept
  <2>7. GoneAccountHoldsNothing' BY <1>2 DEF IInv, GoneAccountHoldsNothing, MemberOf
  <2>8. AcceptedOnce' BY <1>2 DEF IInv, AcceptedOnce
  <2> QED BY <2>1, <2>2, <2>3, <2>4, <2>5, <2>6, <2>7, <2>8 DEF RowsHold
<1> QED BY <1>2, <1>5, <1>7, <1>8, CommitStep

LEMMA RoleCommits ==
  ASSUME IInv, NEW w \in Requests, RoleCommit(w)
  PROVE  IInv' /\ Committed(w)
<1>0. PICK i, u, role : tx[w].inst = i /\ tx[w].user = u /\ tx[w].word = role OBVIOUS
<1>1. /\ u \in Users /\ i \in Institutions /\ tx[w].own = {i} /\ role \in Roles \cup {None}
      /\ institution[i].type = "full" /\ member[i][u] # None
      /\ member[i][u] = Owner /\ role # Owner => \E v \in Users \ {u} : member[i][v] = Owner
  BY <1>0 DEF RoleCommit, IInv, HandlerHolds, RoleHolds
<1>2. End(w) /\ UNCHANGED <<account, institution, invitation, accepted>> BY DEF RoleCommit
<1>3. member' = [member EXCEPT ![i][u] = role] /\ Grant(i, u, role)
  BY <1>0 DEF RoleCommit, SetRole
<1>4. \A j \in Institutions, v \in Users :
        member'[j][v] = IF j = i /\ v = u THEN role ELSE member[j][v]
  BY <1>1, <1>3 DEF IInv, TypeOK
<1>5. TypeOK'
  <2>1. member' \in [Institutions -> [Users -> Roles \cup {None}]]
    BY <1>1, <1>3 DEF IInv, TypeOK
  <2>2. granted' \subseteq Institutions \X Users BY <1>1, <1>3 DEF IInv, TypeOK, Grant
  <2> QED BY <1>2, <2>1, <2>2, EndKeepsOthers DEF IInv, TypeOK, Addressed
<1>6. \A v \in Users, k \in Kinds : Founded(v, k)' \subseteq Founded(v, k)
  BY <1>2, <1>3, <1>4 DEF Founded, Owned, Grant
<1>7. ASSUME NEW x \in Requests \ {w} PROVE Undisturbed(x)
  <2>1. tx'[x] = tx[x] BY <1>2, EndKeepsOthers
  <2>2. i \notin tx[x].own BY <1>1, LocksDiffer
  <2>3. tx[x].own \subseteq Institutions BY DEF IInv, TypeOK, TxType
  <2>4. \A j \in Institutions, v \in Users : member'[j][v] # None => member[j][v] # None
    BY <1>1, <1>4
  <2> QED BY <1>2, <1>4, <1>6, <2>1, <2>2, <2>3, <2>4 DEF Undisturbed
<1>8. RowsHold'
  <2>1. \A j \in Institutions, v \in Users :
          <<j, v>> \in granted' => <<j, v>> \in granted \/ (j = i /\ v = u)
    BY <1>3 DEF Grant
  <2>2. TypesAreGiven' BY <1>1, <1>2, <1>4, <2>1 DEF IInv, TypesAreGiven
  <2>3. PersonalIsSolo' BY <1>1, <1>2, <1>4, <2>1 DEF IInv, PersonalIsSolo
  <2>4. InvitationsOK' BY <1>2 DEF IInv, InvitationsOK
  <2>5. ASSUME NEW j \in Institutions, Owners(j) # {} PROVE Owners(j)' # {}
    BY <1>1, <1>4, <2>5 DEF Owners
  <2>6. FoundedFullIsOwned' /\ PersonalOwnedOrSuspended'
    BY <1>2, <2>5 DEF IInv, FoundedFullIsOwned, PersonalOwnedOrSuspended
  <2>7. FoundersWithinCap' BY <1>6, CapsKept
  <2>8. GoneAccountHoldsNothing' BY <1>1, <1>2, <1>4 DEF IInv, GoneAccountHoldsNothing, MemberOf
  <2>9. AcceptedOnce' BY <1>2 DEF IInv, AcceptedOnce
  <2> QED BY <2>2, <2>3, <2>4, <2>6, <2>7, <2>8, <2>9 DEF RowsHold
<1> QED BY <1>2, <1>5, <1>7, <1>8, CommitStep

LEMMA AcceptCommits ==
  ASSUME IInv, NEW w \in Requests, AcceptCommit(w)
  PROVE  IInv' /\ Committed(w)
<1>0. PICK i, u, role, n : /\ tx[w].inst = i /\ tx[w].user = u
                           /\ tx[w].word = role /\ tx[w].inv = n
  OBVIOUS
<1>1. /\ u \in Users /\ tx[w].row = u /\ account[u].status = "active"
      /\ n \in Invitations /\ i \in Institutions /\ role \in Roles
      /\ institution[i].type = "full" /\ member[i][u] = None
      /\ invitation[n].status # "absent" /\ invitation[n].user = u /\ accepted[n] = 0
  BY <1>0 DEF AcceptCommit, IInv, HandlerHolds, AcceptHolds
<1>2. End(w) /\ UNCHANGED <<account, institution>> BY DEF AcceptCommit
<1>3. /\ member' = [member EXCEPT ![i][u] = role] /\ Grant(i, u, role)
      /\ invitation' = [invitation EXCEPT ![n].status = "accepted"]
      /\ accepted' = [accepted EXCEPT ![n] = @ + 1]
  BY <1>0 DEF AcceptCommit, SetRole
<1>4. /\ \A j \in Institutions, v \in Users :
           member'[j][v] = IF j = i /\ v = u THEN role ELSE member[j][v]
      /\ \A m \in Invitations \ {n} : invitation'[m] = invitation[m] /\ accepted'[m] = accepted[m]
      /\ accepted'[n] = 1
  BY <1>1, <1>3 DEF IInv, TypeOK
<1>5. /\ invitation'[n].status = "accepted" /\ invitation'[n].user = u
      /\ invitation'[n].inst = invitation[n].inst /\ invitation'[n].role = invitation[n].role
  BY <1>1, <1>3 DEF IInv, TypeOK
<1>6. TypeOK'
  <2>1. member' \in [Institutions -> [Users -> Roles \cup {None}]]
    BY <1>1, <1>3 DEF IInv, TypeOK
  <2>2. granted' \subseteq Institutions \X Users BY <1>1, <1>3 DEF IInv, TypeOK, Grant
  <2>3. accepted' \in [Invitations -> Nat] BY <1>1, <1>3 DEF IInv, TypeOK
  <2> DEFINE R == [status : {"absent", "pending", "accepted", "closed"},
                   inst : Institutions \cup {NoInstitution}, user : Users \cup {NoUser},
                   role : Roles \cup {None}]
  <2>4. invitation \in [Invitations -> R] BY DEF IInv, TypeOK
  <2>5. [invitation[n] EXCEPT !.status = "accepted"] \in R
    <3>1. invitation[n] \in R BY <1>1, <2>4
    <3> QED BY <3>1
  <2>6. invitation' \in [Invitations -> R]
    <3> HIDE DEF R
    <3> QED BY <1>1, <1>3, <2>4, <2>5
  <2>7. ASSUME NEW m \in Invitations PROVE Addressed(m)'
    <3>1. Addressed(m) BY DEF IInv, TypeOK
    <3>2. CASE m = n BY <1>1, <1>5, <3>2 DEF Addressed
    <3>3. CASE m # n BY <1>4, <3>1, <3>3 DEF Addressed
    <3> QED BY <3>2, <3>3
  <2> QED BY <1>2, <2>1, <2>2, <2>3, <2>6, <2>7, EndKeepsOthers DEF IInv, TypeOK
<1>7. \A v \in Users, k \in Kinds : Founded(v, k)' \subseteq Founded(v, k)
  BY <1>2, <1>3, <1>4 DEF Founded, Owned, Grant
<1>8. ASSUME NEW x \in Requests \ {w} PROVE Undisturbed(x)
  <2>1. tx'[x] = tx[x] BY <1>2, EndKeepsOthers
  <2>2. tx[x].row # u BY <1>1, SentinelsAssumption, LocksDiffer
  <2>3. tx[x].own \subseteq Institutions BY DEF IInv, TypeOK, TxType
  <2>4. \A j \in Institutions, v \in Users : member[j][v] # None => member'[j][v] = member[j][v]
    BY <1>1, <1>4
  <2>5. \A v \in Users : tx[x].row = v => v # u BY <2>2
  <2>6. \A v \in Users \ {u}, m \in Invitations :
          invitation[m].user = v => invitation'[m] = invitation[m] /\ accepted'[m] = accepted[m]
    BY <1>1, <1>4
  <2>7. \A v \in Users, m \in Invitations :
          tx[x].row = v /\ invitation[m].status # "absent" /\ invitation[m].user = v =>
             /\ invitation'[m].status # "absent" /\ invitation'[m].user = v
             /\ accepted'[m] = accepted[m]
    BY <2>5, <2>6
  <2> QED BY <1>1, <1>2, <1>4, <1>7, <2>1, <2>3, <2>4, <2>5, <2>7 DEF Undisturbed
<1>9. RowsHold'
  <2>1. \A j \in Institutions, v \in Users :
          <<j, v>> \in granted' => <<j, v>> \in granted \/ (j = i /\ v = u)
    BY <1>3 DEF Grant
  <2>2. TypesAreGiven' BY <1>1, <1>2, <1>4, <2>1 DEF IInv, TypesAreGiven, None
  <2>3. PersonalIsSolo' BY <1>1, <1>2, <1>4, <2>1 DEF IInv, PersonalIsSolo
  <2>4. InvitationsOK' BY <1>1, <1>2, <1>4, <1>5 DEF IInv, InvitationsOK
  <2>5. ASSUME NEW j \in Institutions, Owners(j) # {} PROVE Owners(j)' # {}
    BY <1>1, <1>4, <2>5 DEF Owners, Owner, None
  <2>6. FoundedFullIsOwned' /\ PersonalOwnedOrSuspended'
    BY <1>2, <2>5 DEF IInv, FoundedFullIsOwned, PersonalOwnedOrSuspended
  <2>7. FoundersWithinCap' BY <1>7, CapsKept
  <2>8. GoneAccountHoldsNothing' BY <1>1, <1>2, <1>4 DEF IInv, GoneAccountHoldsNothing, MemberOf
  <2>9. AcceptedOnce' BY <1>4 DEF IInv, AcceptedOnce
  <2> QED BY <2>2, <2>3, <2>4, <2>6, <2>7, <2>8, <2>9 DEF RowsHold
<1> QED BY <1>2, <1>6, <1>8, <1>9, CommitStep

\* A step that writes only invitations, and takes none from a user.
LEMMA InvitationCommits ==
  ASSUME IInv, NEW w \in Requests, End(w),
         UNCHANGED <<account, institution, member, granted, accepted>>,
         TypeOK', InvitationsOK',
         \A v \in Invitations : invitation[v].status # "absent" =>
           invitation'[v].status # "absent" /\ invitation'[v].user = invitation[v].user
  PROVE  IInv' /\ Committed(w)
<1>1. \A u \in Users, k \in Kinds : Founded(u, k)' \subseteq Founded(u, k)
  BY DEF Founded, Owned
<1>2. ASSUME NEW x \in Requests \ {w} PROVE Undisturbed(x)
  BY <1>1, EndKeepsOthers DEF Undisturbed
<1>3. FoundersWithinCap' BY <1>1, CapsKept
<1>4. (TypesAreGiven /\ PersonalIsSolo /\ FoundedFullIsOwned /\ PersonalOwnedOrSuspended)'
  BY DEF IInv, TypesAreGiven, PersonalIsSolo, FoundedFullIsOwned,
         PersonalOwnedOrSuspended, Owners
<1>5. (GoneAccountHoldsNothing /\ AcceptedOnce)'
  BY DEF IInv, GoneAccountHoldsNothing, AcceptedOnce, MemberOf
<1> QED BY <1>2, <1>3, <1>4, <1>5, CommitStep DEF RowsHold

LEMMA InviteCommits ==
  ASSUME IInv, NEW w \in Requests, InviteCommit(w)
  PROVE  IInv' /\ Committed(w)
<1>1. PICK i, u, role : tx[w].inst = i /\ tx[w].user = u /\ tx[w].word = role OBVIOUS
<1>2. /\ u \in Users /\ i \in Institutions /\ role \in Roles /\ institution[i].type = "full"
  BY <1>1 DEF InviteCommit, IInv, HandlerHolds
<1> DEFINE r == [status |-> "pending", inst |-> i, user |-> u, role |-> role]
<1>3. PICK n \in Invitations : /\ invitation[n].status = "absent" /\ accepted[n] = 0
                               /\ invitation' = [invitation EXCEPT ![n] = r]
  BY <1>1 DEF InviteCommit
<1>4. End(w) /\ UNCHANGED <<account, institution, member, granted, accepted>>
  BY DEF InviteCommit
<1>5. invitation'[n] = r /\ \A m \in Invitations \ {n} : invitation'[m] = invitation[m]
  BY <1>3 DEF IInv, TypeOK
<1>6. TypeOK'
  <2>1. r \in [status : {"absent", "pending", "accepted", "closed"},
               inst : Institutions \cup {NoInstitution}, user : Users \cup {NoUser},
               role : Roles \cup {None}]
    BY <1>2
  <2>2. ASSUME NEW m \in Invitations PROVE Addressed(m)'
    <3>1. Addressed(m) BY DEF IInv, TypeOK
    <3>2. CASE m = n BY <1>2, <1>5, <3>2 DEF Addressed
    <3>3. CASE m # n BY <1>5, <3>1, <3>3 DEF Addressed
    <3> QED BY <3>2, <3>3
  <2> HIDE DEF r
  <2> QED BY <1>3, <1>4, <2>1, <2>2, EndKeepsOthers DEF IInv, TypeOK
<1>7. InvitationsOK' BY <1>2, <1>3, <1>4, <1>5 DEF IInv, InvitationsOK
<1> QED BY <1>3, <1>4, <1>5, <1>6, <1>7, InvitationCommits

LEMMA CloseCommits ==
  ASSUME IInv, NEW w \in Requests, CloseCommit(w)
  PROVE  IInv' /\ Committed(w)
<1>1. PICK n : tx[w].inv = n OBVIOUS
<1>2. n \in Invitations
  BY <1>1 DEF CloseCommit, IInv, HandlerHolds
<1>3. End(w) /\ UNCHANGED <<account, institution, member, granted, accepted>>
  BY DEF CloseCommit
<1>4. invitation' = IF invitation[n].status = "absent" THEN invitation
                    ELSE [invitation EXCEPT ![n].status = "closed"]
  BY <1>1 DEF CloseCommit
<1>5. \A m \in Invitations :
        \/ invitation'[m] = invitation[m]
        \/ /\ invitation[m].status # "absent" /\ invitation'[m].status = "closed"
           /\ invitation'[m].inst = invitation[m].inst
           /\ invitation'[m].user = invitation[m].user
           /\ invitation'[m].role = invitation[m].role
  BY <1>2, <1>4 DEF IInv, TypeOK
<1>6. TypeOK'
  <2> DEFINE R == [status : {"absent", "pending", "accepted", "closed"},
                   inst : Institutions \cup {NoInstitution}, user : Users \cup {NoUser},
                   role : Roles \cup {None}]
  <2>1. invitation \in [Invitations -> R] BY DEF IInv, TypeOK
  <2>2. [invitation[n] EXCEPT !.status = "closed"] \in R
    <3>1. invitation[n] \in R BY <1>2, <2>1
    <3> QED BY <1>2, <3>1
  <2>3. invitation' \in [Invitations -> R]
    <3> HIDE DEF R
    <3> QED BY <1>2, <1>4, <2>1, <2>2
  <2>4. \A m \in Invitations : Addressed(m)'
    BY <1>2, <1>5 DEF IInv, TypeOK, Addressed, InvitationsOK
  <2> QED BY <1>3, <2>3, <2>4, EndKeepsOthers DEF IInv, TypeOK
<1>7. InvitationsOK' BY <1>2, <1>3, <1>5 DEF IInv, InvitationsOK
<1> QED BY <1>2, <1>3, <1>5, <1>6, <1>7, InvitationCommits

LEMMA ModerateCommits ==
  ASSUME IInv, NEW w \in Requests, ModerateCommit(w)
  PROVE  IInv' /\ Committed(w)
<1>1. PICK u, b : u \in Users /\ account[u].status = "active" /\ b \in BOOLEAN
                  /\ account' = [account EXCEPT ![u].suspended = b]
  BY DEF ModerateCommit, IInv, HandlerHolds, Reachable
<1>2. End(w) /\ UNCHANGED <<institution, member, granted, invitation, accepted>>
  BY DEF ModerateCommit
<1>3. /\ \A v \in Users : account'[v].status = account[v].status
      /\ \A v \in Users \ {u} : account'[v] = account[v]
  BY <1>1 DEF IInv, TypeOK
<1>4. TypeOK'
  <2> DEFINE R == [status : {"active", "deactivated"}, suspended : BOOLEAN]
  <2>1. account \in [Users -> R] BY DEF IInv, TypeOK
  <2>2. [account[u] EXCEPT !.suspended = b] \in R
    <3>1. account[u] \in R BY <1>1, <2>1
    <3> QED BY <1>1, <3>1
  <2>3. account' \in [Users -> R]
    <3> HIDE DEF R
    <3> QED BY <1>1, <2>1, <2>2
  <2> QED BY <1>2, <2>3, EndKeepsOthers DEF IInv, TypeOK, Addressed
<1>5. \A v \in Users, k \in Kinds : Founded(v, k)' \subseteq Founded(v, k)
  BY <1>2 DEF Founded, Owned
<1>6. ASSUME NEW x \in Requests \ {w} PROVE Undisturbed(x)
  BY <1>2, <1>3, <1>5, EndKeepsOthers DEF Undisturbed
<1>7. FoundersWithinCap' BY <1>5, CapsKept
<1>8. GoneAccountHoldsNothing' BY <1>1, <1>2, <1>3 DEF IInv, GoneAccountHoldsNothing, MemberOf
<1>9. (TypesAreGiven /\ PersonalIsSolo /\ InvitationsOK /\ FoundedFullIsOwned
       /\ PersonalOwnedOrSuspended /\ AcceptedOnce)'
  BY <1>2 DEF IInv, TypesAreGiven, PersonalIsSolo, InvitationsOK, FoundedFullIsOwned,
              PersonalOwnedOrSuspended, AcceptedOnce, Owners
<1> QED BY <1>2, <1>4, <1>6, <1>7, <1>8, <1>9, CommitStep DEF RowsHold

\* A step that sets suspended_at of one institution, or clears it for one
\* that has an owner.
Suspends(i, b) ==
  /\ institution' = [institution EXCEPT ![i].suspended = b]
  /\ b = TRUE \/ Owners(i) # {}
  /\ UNCHANGED <<account, member, granted, invitation, accepted>>

LEMMA SuspensionKeeps ==
  ASSUME IInv, NEW i \in Institutions, NEW b \in BOOLEAN, Suspends(i, b),
         tx' \in [Requests -> TxType]
  PROVE  /\ TypeOK' /\ RowsHold'
         /\ \A x \in Requests : tx'[x] = tx[x] => Undisturbed(x)
<1>1. /\ \A j \in Institutions : /\ institution'[j].founded = institution[j].founded
                                 /\ institution'[j].type = institution[j].type
      /\ \A j \in Institutions \ {i} : institution'[j] = institution[j]
      /\ institution'[i].suspended = b
  BY DEF Suspends, IInv, TypeOK
<1>2. TypeOK'
  <2> DEFINE R == [founded : Kinds \cup {None}, type : Kinds \cup {None}, suspended : BOOLEAN]
  <2>1. institution \in [Institutions -> R] BY DEF IInv, TypeOK
  <2>2. [institution[i] EXCEPT !.suspended = b] \in R
    <3>1. institution[i] \in R BY <2>1
    <3> QED BY <3>1
  <2>3. institution' \in [Institutions -> R]
    <3> HIDE DEF R
    <3> QED BY <2>1, <2>2 DEF Suspends
  <2> QED BY <2>3 DEF Suspends, IInv, TypeOK, Addressed
<1>3. \A v \in Users, k \in Kinds : Founded(v, k)' \subseteq Founded(v, k)
  BY <1>1 DEF Founded, Owned, Suspends
<1>4. \A x \in Requests : tx'[x] = tx[x] => Undisturbed(x)
  BY <1>1, <1>3 DEF Undisturbed, Suspends
<1>5. FoundersWithinCap' BY <1>3, CapsKept
<1>6. (TypesAreGiven /\ PersonalIsSolo /\ InvitationsOK /\ FoundedFullIsOwned)'
  BY <1>1 DEF IInv, TypesAreGiven, PersonalIsSolo, InvitationsOK, FoundedFullIsOwned,
              Suspends, Owners
<1>7. PersonalOwnedOrSuspended'
  BY <1>1 DEF IInv, PersonalOwnedOrSuspended, Suspends, Owners
<1>8. (GoneAccountHoldsNothing /\ AcceptedOnce)'
  BY DEF IInv, GoneAccountHoldsNothing, AcceptedOnce, MemberOf, Suspends
<1> QED BY <1>2, <1>4, <1>5, <1>6, <1>7, <1>8 DEF RowsHold

LEMMA ReinstateCommits ==
  ASSUME IInv, NEW w \in Requests, ReinstateCommit(w)
  PROVE  IInv' /\ Committed(w)
<1>1. PICK i : tx[w].inst = i OBVIOUS
<1>2. i \in Institutions /\ Owners(i) # {}
  BY <1>1 DEF ReinstateCommit, IInv, HandlerHolds
<1>3. End(w) /\ Suspends(i, FALSE) BY <1>1, <1>2 DEF ReinstateCommit, Suspends
<1> QED BY <1>2, <1>3, EndKeepsOthers, SuspensionKeeps, CommitStep

LEMMA SuspendInstitutionKeeps ==
  ASSUME IInv, NEW i \in Institutions, SuspendInstitution(i)
  PROVE  IInv'
<1>1. Suspends(i, TRUE) BY DEF SuspendInstitution, Suspends
<1>2. tx' = tx /\ tx' \in [Requests -> TxType] BY DEF SuspendInstitution, IInv, TypeOK
<1>3. TypeOK' /\ RowsHold' /\ \A x \in Requests : Undisturbed(x)
  BY <1>1, <1>2, SuspensionKeeps
<1>4. \A x \in Requests : HandlerHolds(x)' BY <1>3, UndisturbedHolds
<1>5. LocksExclude' BY <1>2 DEF IInv, LocksExclude
<1> QED BY <1>3, <1>4, <1>5 DEF IInv, RowsHold

LEMMA DeidentifyCommits ==
  ASSUME IInv, NEW w \in Requests, DeidentifyCommit(w)
  PROVE  IInv' /\ Committed(w)
<1>0. PICK u, p, own : tx[w].user = u /\ tx[w].inst = p /\ tx[w].own = own OBVIOUS
<1>1. /\ u \in Users /\ tx[w].row = u
      /\ \A i \in Institutions : member[i][u] # None => i \in own
      /\ \A i \in Institutions : institution[i].founded = "full" /\ member[i][u] = Owner =>
           \E v \in Users \ {u} : member[i][v] = Owner
      /\ \A i \in Institutions :
           member[i][u] = Owner /\ institution[i].type = "personal" => i = p
      /\ p \in Institutions \cup {NoInstitution}
  <2>1. u \in Users /\ CheckHolds(w) /\ Owned(u, "personal") \subseteq {p}
    BY <1>0 DEF DeidentifyCommit, IInv, HandlerHolds
  <2>2. p \in Institutions \cup {NoInstitution} BY <1>0 DEF IInv, TypeOK, TxType
  <2> QED BY <1>0, <2>1, <2>2 DEF CheckHolds, MemberOf, Owned
<1>2. End(w) /\ UNCHANGED <<granted, accepted>> BY DEF DeidentifyCommit
<1>3. /\ account' = [account EXCEPT ![u] = [status |-> "deactivated", suspended |-> TRUE]]
      /\ invitation' = [v \in Invitations |->
           IF invitation[v].user = u THEN NoRow ELSE invitation[v]]
      /\ member' = [i \in Institutions |-> [member[i] EXCEPT ![u] = None]]
      /\ institution' = IF p = NoInstitution THEN institution
                        ELSE [institution EXCEPT ![p].suspended = TRUE]
  BY <1>0 DEF DeidentifyCommit
<1>4. /\ account'[u].status = "deactivated" /\ account'[u].suspended
      /\ \A v \in Users \ {u} : account'[v] = account[v]
      /\ \A i \in Institutions : member'[i][u] = None
      /\ \A i \in Institutions, v \in Users \ {u} : member'[i][v] = member[i][v]
  BY <1>1, <1>3 DEF IInv, TypeOK
<1>5. /\ \A i \in Institutions : /\ institution'[i].founded = institution[i].founded
                                 /\ institution'[i].type = institution[i].type
                                 /\ i # p => institution'[i] = institution[i]
      /\ p \in Institutions => institution'[p].suspended
  BY <1>1, <1>3, SentinelsAssumption DEF IInv, TypeOK
<1>6. \A n \in Invitations :
        invitation'[n] = IF invitation[n].user = u THEN NoRow ELSE invitation[n]
  BY <1>3
<1>7. TypeOK'
  <2>1. account' \in [Users -> [status : {"active", "deactivated"}, suspended : BOOLEAN]]
    BY <1>1, <1>3 DEF IInv, TypeOK
  <2>2. member' \in [Institutions -> [Users -> Roles \cup {None}]]
    BY <1>1, <1>3 DEF IInv, TypeOK
  <2> DEFINE R == [founded : Kinds \cup {None}, type : Kinds \cup {None}, suspended : BOOLEAN]
  <2>3. institution \in [Institutions -> R] BY DEF IInv, TypeOK
  <2>4. p \in Institutions => [institution[p] EXCEPT !.suspended = TRUE] \in R
    <3>1. p \in Institutions => institution[p] \in R BY <2>3
    <3> QED BY <3>1
  <2>5. institution' \in [Institutions -> R]
    <3> HIDE DEF R
    <3> QED BY <1>1, <1>3, <2>3, <2>4
  <2>6. invitation' \in [Invitations ->
          [status : {"absent", "pending", "accepted", "closed"},
           inst : Institutions \cup {NoInstitution}, user : Users \cup {NoUser},
           role : Roles \cup {None}]]
    BY <1>3 DEF IInv, TypeOK, NoRow
  <2>7. ASSUME NEW n \in Invitations PROVE Addressed(n)'
    <3>1. Addressed(n) BY DEF IInv, TypeOK
    <3> QED BY <1>6, <3>1 DEF Addressed, NoRow
  <2> QED BY <1>2, <2>1, <2>2, <2>5, <2>6, <2>7, EndKeepsOthers DEF IInv, TypeOK
<1>8. \A i \in Institutions, v \in Users : member'[i][v] # None => member[i][v] # None
  BY <1>4
<1>9. \A v \in Users, k \in Kinds : Founded(v, k)' \subseteq Founded(v, k)
  BY <1>2, <1>4, <1>5 DEF Founded, Owned, Owner, None
<1>10. ASSUME NEW x \in Requests \ {w} PROVE Undisturbed(x)
  <2>1. tx'[x] = tx[x] BY <1>2, EndKeepsOthers
  <2>2. tx[x].row # u BY <1>1, SentinelsAssumption, LocksDiffer
  <2>3. tx[x].own \subseteq Institutions /\ own \cap tx[x].own = {}
    BY <1>0, LocksDiffer DEF IInv, TypeOK, TxType
  <2>4. \A i \in tx[x].own, v \in Users : member[i][v] # None => member'[i][v] = member[i][v]
    BY <1>1, <1>4, <2>3
  <2>5. \A v \in Users : tx[x].row = v => v # u BY <2>2
  <2>6. \A n \in Invitations : invitation[n].user # u => invitation'[n] = invitation[n]
    BY <1>6
  <2> QED BY <1>2, <1>4, <1>5, <1>8, <1>9, <2>1, <2>4, <2>5, <2>6 DEF Undisturbed
<1>11. RowsHold'
  <2>1. TypesAreGiven' BY <1>2, <1>5, <1>8 DEF IInv, TypesAreGiven
  <2>2. PersonalIsSolo' BY <1>2, <1>4, <1>5 DEF IInv, PersonalIsSolo
  <2>3. InvitationsOK' BY <1>2, <1>5, <1>6 DEF IInv, InvitationsOK, NoRow
  <2>4. FoundedFullIsOwned' BY <1>1, <1>4, <1>5 DEF IInv, FoundedFullIsOwned, Owners
  <2>5. PersonalOwnedOrSuspended'
    BY <1>1, <1>4, <1>5 DEF IInv, PersonalOwnedOrSuspended, Owners
  <2>6. FoundersWithinCap' BY <1>9, CapsKept
  <2>7. GoneAccountHoldsNothing' BY <1>4 DEF IInv, GoneAccountHoldsNothing, MemberOf
  <2>8. AcceptedOnce' BY <1>2 DEF IInv, AcceptedOnce
  <2> QED BY <2>1, <2>2, <2>3, <2>4, <2>5, <2>6, <2>7, <2>8 DEF RowsHold
<1> QED BY <1>2, <1>7, <1>10, <1>11, CommitStep

-----------------------------------------------------------------------------
(* The invariant is inductive                                              *)

LEMMA InitInv == Init => IInv
<1> SUFFICES ASSUME Init PROVE IInv OBVIOUS
<1>1. TypeOK
  BY RolesAssumption DEF Init, TypeOK, Addressed, TxType, Idle, Verbs, NoRow, Kinds
<1>2. LocksExclude BY DEF Init, LocksExclude, Idle
<1>3. TypesAreGiven /\ PersonalIsSolo /\ InvitationsOK
  BY DEF Init, TypesAreGiven, PersonalIsSolo, InvitationsOK, NoRow, None
<1>4. ASSUME NEW w \in Requests PROVE HandlerHolds(w)
  <2>1. tx[w] = Idle BY DEF Init
  <2> QED BY <2>1, SentinelsAssumption DEF HandlerHolds, Idle
<1>5. FoundedFullIsOwned /\ PersonalOwnedOrSuspended
  BY DEF Init, FoundedFullIsOwned, PersonalOwnedOrSuspended, None
<1>6. FoundersWithinCap
  <2>1. SUFFICES ASSUME NEW u \in Users, NEW kind \in Kinds
                 PROVE  Cardinality(Founded(u, kind)) <= Cap(kind)
    BY DEF FoundersWithinCap
  <2>2. Founded(u, kind) = {} BY DEF Init, Founded, Owned, Owner, None
  <2>3. Cardinality(Founded(u, kind)) = 0 BY <2>2, FS_EmptySet
  <2>4. Cap(kind) \in Nat BY CapsAssumption DEF Cap
  <2> QED BY <2>3, <2>4
<1>7. GoneAccountHoldsNothing /\ AcceptedOnce
  BY DEF Init, GoneAccountHoldsNothing, AcceptedOnce
<1> QED BY <1>1, <1>2, <1>3, <1>4, <1>5, <1>6, <1>7 DEF IInv

LEMMA StutterInv ==
  ASSUME IInv, UNCHANGED vars
  PROVE  IInv'
<1>1. \A x \in Requests : HandlerHolds(x)'
  <2>1. SUFFICES ASSUME NEW x \in Requests PROVE HandlerHolds(x)' OBVIOUS
  <2>2. Undisturbed(x)
    BY DEF vars, Undisturbed, Founded, Owned
  <2> QED BY <2>2, UndisturbedHolds
<1>2. (TypeOK /\ LocksExclude)' BY DEF vars, IInv, TypeOK, Addressed, LocksExclude
<1>3. (TypesAreGiven /\ PersonalIsSolo /\ InvitationsOK)'
  BY DEF IInv, vars, TypesAreGiven, PersonalIsSolo, InvitationsOK
<1>4. FoundersWithinCap'
  <2>1. \A u \in Users, k \in Kinds : Founded(u, k)' \subseteq Founded(u, k)
    BY DEF vars, Founded, Owned
  <2> QED BY <2>1, CapsKept
<1>5. (FoundedFullIsOwned /\ PersonalOwnedOrSuspended)'
  BY DEF IInv, vars, FoundedFullIsOwned, PersonalOwnedOrSuspended, Owners
<1>6. (GoneAccountHoldsNothing /\ AcceptedOnce)'
  BY DEF IInv, vars, GoneAccountHoldsNothing, AcceptedOnce, MemberOf
<1> QED BY <1>1, <1>2, <1>3, <1>4, <1>5, <1>6 DEF IInv

LEMMA NextInv == IInv /\ [Next]_vars => IInv'
<1> SUFFICES ASSUME IInv, [Next]_vars PROVE IInv' OBVIOUS
<1>1. CASE UNCHANGED vars BY <1>1, StutterInv
<1>2. ASSUME NEW w \in Requests, Founding(w) PROVE IInv'
  BY <1>2, CreateDecides, UpgradeDecides, DecidedStep, CreateCommits, UpgradeCommits
     DEF Founding
<1>3. ASSUME NEW w \in Requests, Membership(w) PROVE IInv'
  <2>1. ASSUME NEW u \in Users, NEW role \in Roles, ChangeRoleDecide(w, u, role) PROVE IInv'
    BY <2>1, MembershipDecides, DecidedStep DEF ChangeRoleDecide
  <2>2. ASSUME NEW u \in Users, RemoveDecide(w, u) PROVE IInv'
    BY <2>2, MembershipDecides, DecidedStep DEF RemoveDecide
  <2> QED BY <1>3, <2>1, <2>2, AdminChecks, DecidedStep, RoleCommits DEF Membership
<1>4. ASSUME NEW w \in Requests, Inviting(w) PROVE IInv'
  <2>1. ASSUME NEW v \in Invitations, AcceptDecide(w, v) \/ DeclineCheck(w, v) PROVE IInv'
    BY <2>1, AcceptDecides, CloseChecks, DecidedStep
  <2>2. ASSUME NEW a \in Users, NEW v \in Invitations, CancelCheck(w, a, v) PROVE IInv'
    BY <2>2, CloseChecks, DecidedStep
  <2> QED BY <1>4, <2>1, <2>2, InviteChecks, DecidedStep, InviteCommits, AcceptCommits,
             CloseCommits DEF Inviting
<1>5. ASSUME NEW w \in Requests, Moderating(w) PROVE IInv'
  BY <1>5, ModerateChecks, ReinstateDecides, DecidedStep, ModerateCommits, ReinstateCommits
     DEF Moderating
<1>6. ASSUME NEW w \in Requests, Deidentifying(w) PROVE IInv'
  BY <1>6, DeidentifyLocks, DeidentifyChecks, DeidentifyResolves, DecidedStep,
     DeidentifyCommits DEF Deidentifying
<1>7. ASSUME NEW w \in Requests, Abandon(w) PROVE IInv'
  BY <1>7, Abandons, DecidedStep
<1>8. ASSUME NEW i \in Institutions, SuspendInstitution(i) PROVE IInv'
  BY <1>8, SuspendInstitutionKeeps
<1> QED BY <1>1, <1>2, <1>3, <1>4, <1>5, <1>6, <1>7, <1>8 DEF Next

-----------------------------------------------------------------------------
(* Theorems                                                                *)

\* Every variable keeps its type, for any number of users, institutions,
\* invitations and handlers.
THEOREM OwnershipTypeCorrect == Spec => []TypeOK
<1>1. IInv => TypeOK BY DEF IInv
<1> QED BY <1>1, InitInv, NextInv, PTL DEF Spec

\* The ownership lock is enough: the last-owner guards of a demotion, a removal
\* and a de-identification leave every institution that was founded as a full
\* one with an active owner, however they overlap.
THEOREM FoundedFullStaysOwned == Spec => []FoundedFullIsOwned
<1>1. IInv => FoundedFullIsOwned BY DEF IInv
<1> QED BY <1>1, InitInv, NextInv, PTL DEF Spec

\* A personal institution has its owner or is suspended: the reinstatement's
\* count and the de-identification's suspension exclude each other.
THEOREM PersonalStaysOwnedOrSuspended == Spec => []PersonalOwnedOrSuspended
<1>1. IInv => PersonalOwnedOrSuspended BY DEF IInv
<1> QED BY <1>1, InitInv, NextInv, PTL DEF Spec

\* The cap lock is enough: no number of overlapping creations and upgrades takes
\* a recruiter past the caps, whatever MAX_INSTITUTIONS_PER_RECRUITER is.
THEOREM FoundersStayWithinCap == Spec => []FoundersWithinCap
<1>1. IInv => FoundersWithinCap BY DEF IInv
<1> QED BY <1>1, InitInv, NextInv, PTL DEF Spec

\* The row lock is enough: a de-identified account is left no membership by what
\* was decided about it before, and no operator unsuspends it.
THEOREM GoneAccountsHoldNothing == Spec => []GoneAccountHoldsNothing
<1>1. IInv => GoneAccountHoldsNothing BY DEF IInv
<1> QED BY <1>1, InitInv, NextInv, PTL DEF Spec

\* No invitation is accepted twice, although the other answers to it are written
\* by id over whatever is there.
THEOREM InvitationsAcceptedOnce == Spec => []AcceptedOnce
<1>1. IInv => AcceptedOnce BY DEF IInv
<1> QED BY <1>1, InitInv, NextInv, PTL DEF Spec

-----------------------------------------------------------------------------
(* What an upgrade under the ownership lock would guarantee                *)

\* A de-identification past its check leaves every full institution another owner.
AnotherOwnerStays ==
  \A x \in Requests : tx[x].op \in {"checked", "resolved"} =>
    \A i \in Institutions :
      institution[i].type = "full" /\ member[i][tx[x].user] = Owner =>
        \E v \in Users \ {tx[x].user} : member[i][v] = Owner

\* The check itself finds it so, and the statement after it changes nothing.
LEMMA ChecksFindAnotherOwner ==
  ASSUME IInv, AnotherOwnerStays, NEW w \in Requests, Decided(w),
         tx'[w].op \in {"checked", "resolved"} => DeidentifyCheck(w) \/ DeidentifyPersonal(w)
  PROVE  AnotherOwnerStays'
<1>1. tx \in [Requests -> TxType] /\ tx[w] \in TxType BY DEF IInv, TypeOK
<1>2. \A x \in Requests \ {w} : tx'[x] = tx[x] BY <1>1 DEF Decided
<1>3. UNCHANGED <<member, institution>> BY DEF Decided, rows
<1>4. ASSUME DeidentifyCheck(w)
      PROVE  /\ tx'[w].user = tx[w].user
             /\ \A i \in Institutions :
                  institution[i].type = "full" /\ member[i][tx[w].user] = Owner =>
                    \E v \in Users \ {tx[w].user} : member[i][v] = Owner
  <2>1. tx'[w] = [tx[w] EXCEPT !.op = "checked", !.row = tx[w].user]
    BY <1>1, <1>4 DEF DeidentifyCheck, Proceed
  <2>2. tx'[w].user = tx[w].user BY <1>1, <2>1 DEF TxType
  <2>3. tx[w].user \in Users BY <1>4 DEF DeidentifyCheck, IInv, HandlerHolds
  <2>4. ASSUME NEW i \in Institutions,
               institution[i].type = "full", member[i][tx[w].user] = Owner
        PROVE  \E v \in Users \ {tx[w].user} : member[i][v] = Owner
    BY <1>4, <2>3, <2>4 DEF DeidentifyCheck, LastOwnerOf, Owned, Owners
  <2> QED BY <2>2, <2>4
<1>5. ASSUME DeidentifyPersonal(w)
      PROVE  tx'[w].user = tx[w].user /\ tx[w].op = "checked"
  <2>1. PICK i : tx'[w] = [tx[w] EXCEPT !.op = "resolved", !.inst = i]
    BY <1>1, <1>5 DEF DeidentifyPersonal, Proceed
  <2> QED BY <1>1, <1>5, <2>1 DEF DeidentifyPersonal, TxType
<1> QED BY <1>2, <1>3, <1>4, <1>5 DEF AnotherOwnerStays

\* No commit of another handler takes it away, an upgrade under the lock included.
LEMMA CommitsLeaveAnotherOwner ==
  ASSUME IInv, AnotherOwnerStays, NEW w \in Requests, Committed(w),
         \A i \in Institutions :
           institution[i].type = "personal" /\ institution'[i].type = "full" =>
             OwnershipFree(w, {i})
  PROVE  AnotherOwnerStays'
<1> SUFFICES ASSUME NEW x \in Requests, tx'[x].op \in {"checked", "resolved"},
                    NEW i \in Institutions, institution'[i].type = "full",
                    member'[i][tx'[x].user] = Owner
             PROVE  \E v \in Users \ {tx'[x].user} : member'[i][v] = Owner
  BY DEF AnotherOwnerStays
<1>1. x # w
  <2>1. tx'[w].op = "idle" BY DEF Committed, End, IInv, TypeOK, Idle
  <2> QED BY <2>1
<1>2. Undisturbed(x) /\ tx'[x] = tx[x] BY <1>1 DEF Committed, Undisturbed
<1> DEFINE u == tx[x].user
<1>3. u \in Users /\ tx[x].row = u /\ MemberOf(u) \subseteq tx[x].own
  BY <1>2 DEF IInv, HandlerHolds, CheckHolds
<1>4. member[i][u] # None BY <1>2, <1>3 DEF Undisturbed, Owner, None
<1>5. i \in tx[x].own BY <1>3, <1>4 DEF MemberOf
<1>6. member[i][u] = Owner BY <1>2, <1>3, <1>4, <1>5 DEF Undisturbed
<1>7. institution[i].type \in Kinds
  BY <1>3, <1>4 DEF IInv, TypesAreGiven, TypeOK
<1>8. institution[i].type = "full"
  <2>1. ~OwnershipFree(w, {i}) BY <1>1, <1>5 DEF OwnershipFree
  <2> QED BY <1>7, <2>1 DEF Kinds
<1>9. PICK v \in Users \ {u} : member[i][v] = Owner
  BY <1>2, <1>6, <1>8 DEF AnotherOwnerStays
<1>10. member'[i][v] = Owner BY <1>2, <1>5, <1>9 DEF Undisturbed, Owner, None
<1> QED BY <1>2, <1>9, <1>10

\* A commit leaves every institution an owner, or suspended, if a de-identification
\* leaves another owner to the full ones.
LEMMA CommitsLeaveOwners ==
  ASSUME IInv, AnotherOwnerStays, OwnedOrSuspended, NEW w \in Requests,
         \/ CreateCommit(w) \/ UpgradeCommit(w) \/ RoleCommit(w) \/ AcceptCommit(w)
         \/ ReinstateCommit(w) \/ DeidentifyCommit(w)
  PROVE  OwnedOrSuspended'
<1> TypeOK BY DEF IInv
<1> SUFFICES ASSUME NEW i \in Institutions, institution'[i].type # None,
                    ~institution'[i].suspended
             PROVE  \E v \in Users : member'[i][v] = Owner
  BY DEF OwnedOrSuspended, Owners
<1>1. institution[i].type # None /\ ~institution[i].suspended =>
        \E v \in Users : member[i][v] = Owner
  BY DEF OwnedOrSuspended, Owners
<1>2. CASE CreateCommit(w)
  <2>1. tx[w].user \in Users BY <1>2 DEF CreateCommit, IInv, HandlerHolds, CreateHolds
  <2>2. PICK j \in Institutions :
          /\ institution[j].type = None
          /\ institution' = [institution EXCEPT
               ![j] = [founded |-> tx[w].word, type |-> tx[w].word, suspended |-> FALSE]]
          /\ member' = [member EXCEPT ![j][tx[w].user] = Owner]
    BY <1>2 DEF CreateCommit, SetRole
  <2>3. i = j => member'[i][tx[w].user] = Owner BY <2>1, <2>2 DEF TypeOK
  <2>4. i # j => member'[i] = member[i] /\ institution'[i] = institution[i]
    BY <2>2 DEF TypeOK
  <2> QED BY <1>1, <2>1, <2>3, <2>4
<1>3. CASE UpgradeCommit(w)
  <2>1. /\ tx[w].inst \in Institutions /\ institution[tx[w].inst].type # None
    BY <1>3 DEF UpgradeCommit, IInv, HandlerHolds, UpgradeHolds
  <2>2. member' = member /\ institution' = [institution EXCEPT ![tx[w].inst].type = "full"]
    BY <1>3 DEF UpgradeCommit
  <2>3. institution[i].type # None /\ institution'[i].suspended = institution[i].suspended
    BY <2>1, <2>2 DEF TypeOK
  <2> QED BY <1>1, <2>2, <2>3
<1>4. CASE RoleCommit(w)
  <2>1. /\ tx[w].user \in Users /\ tx[w].inst \in Institutions
        /\ member[tx[w].inst][tx[w].user] = Owner /\ tx[w].word # Owner =>
             \E v \in Users \ {tx[w].user} : member[tx[w].inst][v] = Owner
    BY <1>4 DEF RoleCommit, IInv, HandlerHolds, RoleHolds
  <2>2. institution' = institution
    BY <1>4 DEF RoleCommit
  <2>3. \A j \in Institutions, v \in Users :
          member'[j][v] = IF j = tx[w].inst /\ v = tx[w].user THEN tx[w].word ELSE member[j][v]
    BY <1>4, <2>1 DEF RoleCommit, SetRole, TypeOK
  <2> QED BY <1>1, <2>1, <2>2, <2>3
<1>5. CASE AcceptCommit(w)
  <2>1. /\ tx[w].user \in Users /\ tx[w].inst \in Institutions
        /\ member[tx[w].inst][tx[w].user] = None
    BY <1>5 DEF AcceptCommit, IInv, HandlerHolds, AcceptHolds
  <2>2. institution' = institution BY <1>5 DEF AcceptCommit
  <2>3. \A j \in Institutions, v \in Users :
          member[j][v] # None => member'[j][v] = member[j][v]
    BY <1>5, <2>1 DEF AcceptCommit, SetRole, TypeOK
  <2> QED BY <1>1, <2>2, <2>3 DEF Owner, None
<1>6. CASE ReinstateCommit(w)
  <2>1. tx[w].inst \in Institutions /\ Owners(tx[w].inst) # {}
    BY <1>6 DEF ReinstateCommit, IInv, HandlerHolds
  <2>2. member' = member
        /\ institution' = [institution EXCEPT ![tx[w].inst].suspended = FALSE]
    BY <1>6 DEF ReinstateCommit
  <2>3. i # tx[w].inst => institution'[i] = institution[i] BY <2>2 DEF TypeOK
  <2> QED BY <1>1, <2>1, <2>2, <2>3 DEF Owners
<1>7. CASE DeidentifyCommit(w)
  <2>1. PICK u \in Users : u = tx[w].user BY <1>7 DEF DeidentifyCommit, IInv, HandlerHolds
  <2>2. Owned(u, "personal") \subseteq {tx[w].inst}
    BY <1>7, <2>1 DEF DeidentifyCommit, IInv, HandlerHolds
  <2>3. member' = [j \in Institutions |-> [member[j] EXCEPT ![u] = None]]
        /\ institution' = IF tx[w].inst = NoInstitution THEN institution
                          ELSE [institution EXCEPT ![tx[w].inst].suspended = TRUE]
    BY <1>7, <2>1 DEF DeidentifyCommit
  <2>4. /\ \A v \in Users \ {u} : member'[i][v] = member[i][v]
        /\ institution'[i].type = institution[i].type
        /\ ~institution[i].suspended /\ i # tx[w].inst
    BY <2>3, SentinelsAssumption DEF TypeOK
  <2>5. institution[i].type \in {"personal", "full"} BY <2>4 DEF TypeOK, Kinds
  <2>6. member[i][u] = Owner => institution[i].type = "full"
    BY <2>2, <2>4, <2>5 DEF Owned
  <2>7. member[i][u] = Owner => \E v \in Users \ {u} : member[i][v] = Owner
    BY <1>7, <2>1, <2>6 DEF DeidentifyCommit, AnotherOwnerStays
  <2> QED BY <1>1, <2>4, <2>7
<1> QED BY <1>2, <1>3, <1>4, <1>5, <1>6, <1>7

\* The two facts together, which every step of a handler keeps.
OwnersStay == AnotherOwnerStays /\ OwnedOrSuspended

LEMMA DecisionsKeepOwners ==
  ASSUME IInv, OwnersStay, NEW w \in Requests, Decided(w),
         tx'[w].op \in {"checked", "resolved"} => DeidentifyCheck(w) \/ DeidentifyPersonal(w)
  PROVE  OwnersStay'
<1>1. OwnedOrSuspended' BY DEF OwnersStay, Decided, rows, OwnedOrSuspended, Owners
<1> QED BY <1>1, ChecksFindAnotherOwner DEF OwnersStay

\* Whatever proceeds to another word than a de-identification's keeps them.
LEMMA OtherDecisionsKeepOwners ==
  ASSUME IInv, OwnersStay, NEW w \in Requests, Decided(w), NEW r, Proceed(w, r),
         r.op \notin {"checked", "resolved"}
  PROVE  OwnersStay'
<1>1. tx'[w] = r BY DEF Proceed, IInv, TypeOK
<1> QED BY <1>1, DecisionsKeepOwners

\* So does a commit that writes neither memberships nor institutions.
LEMMA OtherCommitsKeepOwners ==
  ASSUME IInv, OwnersStay, NEW w \in Requests, Committed(w),
         UNCHANGED <<member, institution>>
  PROVE  OwnersStay'
<1>1. OwnedOrSuspended' BY DEF OwnersStay, OwnedOrSuspended, Owners
<1>2. AnotherOwnerStays' BY CommitsLeaveAnotherOwner DEF OwnersStay
<1> QED BY <1>1, <1>2 DEF OwnersStay

\* And one that does, if it upgrades only under the ownership lock.
LEMMA OwningCommitsKeepOwners ==
  ASSUME IInv, OwnersStay, NEW w \in Requests, Committed(w),
         \/ CreateCommit(w) \/ RoleCommit(w) \/ AcceptCommit(w)
         \/ ReinstateCommit(w) \/ DeidentifyCommit(w)
         \/ UpgradeCommit(w) /\ OwnershipFree(w, {tx[w].inst})
  PROVE  OwnersStay'
<1> TypeOK BY DEF IInv
<1>1. OwnedOrSuspended' BY CommitsLeaveOwners DEF OwnersStay
<1>2. ASSUME NEW i \in Institutions,
             institution[i].type = "personal", institution'[i].type = "full"
      PROVE  OwnershipFree(w, {i})
  <2>1. CASE CreateCommit(w) BY <1>2, <2>1 DEF CreateCommit, TypeOK, None
  <2>2. CASE RoleCommit(w) \/ AcceptCommit(w) BY <1>2, <2>2 DEF RoleCommit, AcceptCommit
  <2>3. CASE ReinstateCommit(w) BY <1>2, <2>3 DEF ReinstateCommit, TypeOK
  <2>4. CASE DeidentifyCommit(w) BY <1>2, <2>4 DEF DeidentifyCommit, TypeOK
  <2>5. CASE UpgradeCommit(w) /\ OwnershipFree(w, {tx[w].inst})
    BY <1>2, <2>5 DEF UpgradeCommit, TypeOK
  <2> QED BY <2>1, <2>2, <2>3, <2>4, <2>5
<1>3. AnotherOwnerStays' BY <1>2, CommitsLeaveAnotherOwner DEF OwnersStay
<1> QED BY <1>1, <1>3 DEF OwnersStay

LEMMA StepsKeepOwners ==
  ASSUME IInv, OwnersStay, [Next]_vars,
         [\A w \in Requests : UpgradeCommit(w) => OwnershipFree(w, {tx[w].inst})]_vars
  PROVE  OwnersStay'
<1>1. CASE UNCHANGED vars
  BY <1>1 DEF vars, OwnersStay, AnotherOwnerStays, OwnedOrSuspended, Owners
<1>2. ASSUME NEW w \in Requests, Founding(w) PROVE OwnersStay'
  <2>1. CASE \E u \in Users, kind \in Kinds : CreateDecide(w, u, kind)
    BY <2>1, CreateDecides, OtherDecisionsKeepOwners DEF CreateDecide, Idle
  <2>2. CASE \E u \in Users, i \in Institutions : UpgradeDecide(w, u, i)
    BY <2>2, UpgradeDecides, OtherDecisionsKeepOwners DEF UpgradeDecide, Idle
  <2>3. CASE CreateCommit(w) BY <2>3, CreateCommits, OwningCommitsKeepOwners
  <2>4. CASE UpgradeCommit(w)
    BY <2>4, <1>1, UpgradeCommits, OwningCommitsKeepOwners
  <2> QED BY <1>2, <2>1, <2>2, <2>3, <2>4 DEF Founding
<1>3. ASSUME NEW w \in Requests, Membership(w) PROVE OwnersStay'
  <2>1. ASSUME NEW u \in Users, NEW role \in Roles \cup {None}, MembershipDecide(w, u, role)
        PROVE  OwnersStay'
    <3>1. Decided(w) BY <2>1, MembershipDecides
    <3>2. tx'[w].op = "role"
      BY <2>1 DEF MembershipDecide, Proceed, IInv, TypeOK, TxType
    <3> QED BY <3>1, <3>2, DecisionsKeepOwners
  <2>2. CASE \E a \in Users, i \in Institutions : AdminCheck(w, a, i)
    BY <2>2, AdminChecks, OtherDecisionsKeepOwners DEF AdminCheck, Idle
  <2>3. CASE RoleCommit(w) BY <2>3, RoleCommits, OwningCommitsKeepOwners
  <2> QED BY <1>3, <2>1, <2>2, <2>3 DEF Membership, ChangeRoleDecide, RemoveDecide
<1>4. ASSUME NEW w \in Requests, Inviting(w) PROVE OwnersStay'
  <2>1. ASSUME NEW a \in Users, NEW u \in Users, NEW i \in Institutions, NEW role \in Roles,
               InviteCheck(w, a, i, u, role)
        PROVE  OwnersStay'
    BY <2>1, InviteChecks, OtherDecisionsKeepOwners DEF InviteCheck, Idle
  <2>2. ASSUME NEW v \in Invitations, AcceptDecide(w, v) PROVE OwnersStay'
    BY <2>2, AcceptDecides, OtherDecisionsKeepOwners DEF AcceptDecide, Idle
  <2>3. ASSUME NEW v \in Invitations,
               DeclineCheck(w, v) \/ \E a \in Users : CancelCheck(w, a, v)
        PROVE  OwnersStay'
    <3>1. Decided(w) BY <2>3, CloseChecks
    <3>2. Proceed(w, [Idle EXCEPT !.op = "close", !.inv = v])
      BY <2>3 DEF DeclineCheck, CancelCheck
    <3> QED BY <3>1, <3>2, OtherDecisionsKeepOwners DEF Idle
  <2>4. CASE InviteCommit(w)
    BY <2>4, InviteCommits, OtherCommitsKeepOwners DEF InviteCommit
  <2>5. CASE AcceptCommit(w) BY <2>5, AcceptCommits, OwningCommitsKeepOwners
  <2>6. CASE CloseCommit(w) BY <2>6, CloseCommits, OtherCommitsKeepOwners DEF CloseCommit
  <2> QED BY <1>4, <2>1, <2>2, <2>3, <2>4, <2>5, <2>6 DEF Inviting
<1>5. ASSUME NEW w \in Requests, Moderating(w) PROVE OwnersStay'
  <2>1. ASSUME NEW u \in Users, ModerateCheck(w, u) PROVE OwnersStay'
    <3>1. PICK verb \in {"suspend", "unsuspend"} :
            Proceed(w, [Idle EXCEPT !.user = u, !.op = verb])
      BY <2>1 DEF ModerateCheck
    <3> QED BY <2>1, <3>1, ModerateChecks, OtherDecisionsKeepOwners DEF Idle
  <2>2. CASE ModerateCommit(w)
    BY <2>2, ModerateCommits, OtherCommitsKeepOwners DEF ModerateCommit
  <2>3. CASE \E i \in Institutions : ReinstateDecide(w, i)
    BY <2>3, ReinstateDecides, OtherDecisionsKeepOwners DEF ReinstateDecide, Idle
  <2>4. CASE ReinstateCommit(w) BY <2>4, ReinstateCommits, OwningCommitsKeepOwners
  <2> QED BY <1>5, <2>1, <2>2, <2>3, <2>4 DEF Moderating
<1>6. ASSUME NEW w \in Requests, Deidentifying(w) PROVE OwnersStay'
  <2>1. CASE \E u \in Users : DeidentifyLock(w, u)
    BY <2>1, DeidentifyLocks, OtherDecisionsKeepOwners DEF DeidentifyLock, Idle
  <2>2. CASE DeidentifyCheck(w) BY <2>2, DeidentifyChecks, DecisionsKeepOwners
  <2>3. CASE DeidentifyPersonal(w) BY <2>3, DeidentifyResolves, DecisionsKeepOwners
  <2>4. CASE DeidentifyCommit(w) BY <2>4, DeidentifyCommits, OwningCommitsKeepOwners
  <2> QED BY <1>6, <2>1, <2>2, <2>3, <2>4 DEF Deidentifying
<1>7. ASSUME NEW w \in Requests, Abandon(w) PROVE OwnersStay'
  BY <1>7, Abandons, OtherDecisionsKeepOwners DEF Abandon, End, Proceed, Idle
<1>8. ASSUME NEW i \in Institutions, SuspendInstitution(i) PROVE OwnersStay'
  <2>1. /\ UNCHANGED <<member, tx>>
        /\ \A j \in Institutions :
             /\ institution'[j].type = institution[j].type
             /\ institution[j].suspended => institution'[j].suspended
    BY <1>8 DEF SuspendInstitution, IInv, TypeOK
  <2> QED BY <2>1 DEF OwnersStay, AnotherOwnerStays, OwnedOrSuspended, Owners
<1> QED BY <1>1, <1>2, <1>3, <1>4, <1>5, <1>6, <1>7, <1>8 DEF Next

\* Where an upgrade waits for the ownership lock of its institution, as every other
\* handler that moves owners or kinds does, no institution is left without an owner
\* unless it is suspended: that wait is all that owner-membership-lock.ts lacks.
THEOREM LockedUpgradesKeepOwners == Spec /\ UpgradesWaitForTheLock => []OwnedOrSuspended
<1> DEFINE Waits == \A w \in Requests : UpgradeCommit(w) => OwnershipFree(w, {tx[w].inst})
<1>1. Init => OwnersStay
  BY DEF Init, OwnersStay, AnotherOwnerStays, OwnedOrSuspended, Idle
<1>2. IInv /\ OwnersStay /\ [Next]_vars /\ [Waits]_vars => OwnersStay'
  BY StepsKeepOwners
<1>3. OwnersStay => OwnedOrSuspended BY DEF OwnersStay
<1> HIDE DEF Waits
<1>4. QED
  BY <1>1, <1>2, <1>3, InitInv, NextInv, PTL DEF Spec, UpgradesWaitForTheLock, Waits
=============================================================================
