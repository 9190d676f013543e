------------------------- MODULE LaneClaims_proofs -------------------------
(***************************************************************************)
(* The manual payment lane implements PaymentPromise: every step of a      *)
(* handler, of a verdict or of the sweep is a step of the promise or a     *)
(* stutter, for every set of entries and workers.  And a price set beside  *)
(* the lane is never attached to a registration that was taken for free.   *)
(***************************************************************************)
EXTENDS CompetitionPricing, ManualPaymentLane_proofs

\* A step that moves a ledger moves one entry's, creates no payment, and leaves
\* the rows alone unless that entry lapses.
LEMMA OneEntryMoves ==
  ASSUME IInv, [Next]_vars
  PROVE  \/ UNCHANGED <<proof, attempts, events, accrued>>
         \/ /\ due' = due
            /\ \E e \in Entries :
                 /\ \A f \in Entries \ {e} : SameLedger(f)
                 /\ row' = row \/ Lapsed(e)
  <1> TypeOK /\ LockedReadsStable /\ SweepCarriesOverdue BY DEF IInv
  <1>1. ASSUME NEW w \in Workers,
               SubmitCommit(w) \/ VerifyCommit(w) \/ ReopenCommit(w) \/ ExpireCommit(w)
        PROVE  /\ due' = due
               /\ \E e \in Entries :
                    /\ \A f \in Entries \ {e} : SameLedger(f)
                    /\ row' = row \/ Lapsed(e)
    <2> DEFINE e == tx[w].e
    <2>1. e \in Entries BY <1>1, CommitLeaves
    <2>2. ASSUME NEW f \in Entries, f # e PROVE SameLedger(f)
      BY <1>1, <2>1, <2>2 DEF SubmitCommit, VerifyCommit, ReopenCommit, ExpireCommit,
         RecordProofAttempt, SameLedger, TypeOK
    <2>3. due' = due
      BY <1>1 DEF SubmitCommit, VerifyCommit, ReopenCommit, ExpireCommit
    <2>4. CASE ExpireCommit(w)
      <3>1. Status(e) = "pending" /\ proof[e].status # "pending_review" /\ Overdue(e)
        BY <2>4 DEF LockedReadsStable, SweepCarriesOverdue, ExpireCommit
      <3>2. Lapsed(e) BY <2>1, <2>4, <3>1 DEF ExpireCommit, Lapsed, TypeOK
      <3> QED BY <2>1, <2>2, <2>3, <3>2
    <2>5. CASE ~ExpireCommit(w)
      <3>1. row' = row BY <1>1, <2>5 DEF SubmitCommit, VerifyCommit, ReopenCommit
      <3> QED BY <2>1, <2>2, <2>3, <3>1
    <2> QED BY <2>4, <2>5
  <1>2. CASE VerdictStep
    <2> PICK e \in Entries : \/ \E allowed \in BOOLEAN : RejectManualPaymentProof(e, allowed)
                            \/ VoidManualPaymentProof(e)
      BY <1>2 DEF VerdictStep
    <2>1. ASSUME NEW f \in Entries, f # e PROVE SameLedger(f)
      BY <2>1 DEF RejectManualPaymentProof, VoidManualPaymentProof, RecordProofAttempt,
         SameLedger, TypeOK
    <2>2. due' = due /\ row' = row
      BY DEF RejectManualPaymentProof, VoidManualPaymentProof
    <2> QED BY <2>1, <2>2
  <1> QED BY <1>1, <1>2, LedgerEffects

\* An entry whose ledger and due date stand still is at the same stage.
LEMMA SameStage ==
  ASSUME NEW e \in Entries, SameLedger(e), due'[e] = due[e]
  PROVE  Stage(e)' = Stage(e)
  BY DEF SameLedger, Stage, Status

LEMMA StageTypes ==
  ASSUME TypeOK
  PROVE  /\ stageOf \in [Entries -> Promise!Stages]
         /\ registeredOf \in [Entries -> BOOLEAN]
  BY DEF stageOf, registeredOf, Stage, Promise!Stages

\* Rows that are cancelled end registrations and begin none.
LEMMA CancelsEnd ==
  ASSUME TypeOK, due' = due, NEW R, CancelRows(R)
  PROVE  Promise!Ending({e \in Entries : row'[Anchor(e)] # "confirmed"})
  <1> DEFINE P == {e \in Entries : row'[Anchor(e)] # "confirmed"}
  <1>1. ASSUME NEW e \in Entries
        PROVE  (row'[Anchor(e)] = "confirmed") <=> (row[Anchor(e)] = "confirmed" /\ e \notin P)
    BY <1>1, AnchorIsARow DEF CancelRows
  <1>2. \A e : Anchor(e)' = Anchor(e) BY DEF Anchor
  <1>3. \A e \in Entries : registeredOf'[e] = (registeredOf[e] /\ e \notin P)
    BY <1>1, <1>2 DEF registeredOf
  <1> QED BY <1>3 DEF Promise!Ending, registeredOf

LEMMA PromiseInit == Init => Promise!PInit
  BY AnchorIsARow DEF Init, Promise!PInit, stageOf, registeredOf, Stage

\* A step of one entry's ledger moves one payment and, but for a lapse, no fee
\* of another.
LEMMA StageMoves ==
  ASSUME TypeOK, due' = due, NEW e \in Entries, \A f \in Entries \ {e} : SameLedger(f),
         NEW s, Stage(e)' = s
  PROVE  stageOf' = [stageOf EXCEPT ![e] = s]
  <1>1. \A f \in Entries \ {e} : Stage(f)' = Stage(f) BY SameStage
  <1> QED BY <1>1 DEF stageOf

LEMMA FeesMove ==
  ASSUME TypeOK, TypeOK', NEW e \in Entries, \A f \in Entries \ {e} : SameLedger(f)
  PROVE  /\ accrued' = [accrued EXCEPT ![e] = accrued'[e]]
         /\ accrued'[e] = accrued[e] => accrued' = accrued
  <1>1. \A f \in Entries \ {e} : accrued'[f] = accrued[f] BY DEF SameLedger
  <1> QED BY <1>1 DEF TypeOK

LEMMA RegistrationsStand ==
  ASSUME due' = due, \A e \in Entries : due[e] # 0 => row'[Anchor(e)] = row[Anchor(e)]
  PROVE  registeredOf' = registeredOf
  <1>1. \A e : Anchor(e)' = Anchor(e) BY DEF Anchor
  <1> QED BY <1>1 DEF registeredOf

\* A registration opens the payment of its entry.
LEMMA RegisterOpens ==
  ASSUME IInv, [Next]_vars, NEW w \in Workers, RegisterCommit(w)
  PROVE  \E e \in Entries : Promise!Open(e)
  <1> PICK e : e = tx[w].e OBVIOUS
  <1> TypeOK BY DEF IInv
  <1>1. e \in Entries /\ due[e] = 0
    BY OnAnEntry DEF RegisterCommit, InsertRegistration, EntryOps, IInv, OneRequestRegisters
  <1>2. proof[e].status = "none" /\ events[e] = {}
    BY <1>1 DEF IInv, UnpaidEntriesAreNew
  <1>3. DueAt # 0 BY DueAtIsADate DEF TypeOK
  <1>4. /\ due' = [due EXCEPT ![e] = DueAt]
        /\ row' = [r \in Rows |-> IF r \in RowsOf({e}) THEN "confirmed" ELSE row[r]]
        /\ UNCHANGED <<proof, attempts, events, accrued>>
    BY DEF RegisterCommit, InsertRegistration
  <1>5. Stage(e) = "none" BY <1>1 DEF Stage
  <1>6. Stage(e)' = "unpaid" BY <1>1, <1>2, <1>3, <1>4 DEF Stage, Status, TypeOK
  <1>7. ASSUME NEW f \in Entries, f # e PROVE Stage(f)' = Stage(f)
    <2>1. due'[f] = due[f] BY <1>4, <1>7 DEF TypeOK
    <2>2. SameLedger(f) BY <1>4 DEF SameLedger
    <2> QED BY <2>1, <2>2, SameStage
  <1>8. stageOf' = [stageOf EXCEPT ![e] = "unpaid"] BY <1>6, <1>7 DEF stageOf
  <1>9. registeredOf' = [registeredOf EXCEPT ![e] = TRUE]
    <2>1. \A f : Anchor(f)' = Anchor(f) BY DEF Anchor
    <2>2. row'[Anchor(e)] = "confirmed" BY <1>1, <1>4, AnchorIsARow
    <2>3. ASSUME NEW f \in Entries, f # e
          PROVE  row'[Anchor(f)] = row[Anchor(f)] /\ due'[f] = due[f]
      BY <1>4, <2>3, AnchorIsARow DEF RowsOf, Anchor, TypeOK
    <2>4. due'[e] # 0 BY <1>1, <1>3, <1>4 DEF TypeOK
    <2> QED BY <2>1, <2>2, <2>3, <2>4 DEF registeredOf
  <1> QED BY <1>1, <1>4, <1>5, <1>8, <1>9 DEF Promise!Open, Promise!Move, stageOf

LEMMA PromiseNext == IInv /\ [Next]_vars => [Promise!PNext]_(Promise!pvars)
  <1> SUFFICES ASSUME IInv, [Next]_vars PROVE [Promise!PNext]_(Promise!pvars) OBVIOUS
  <1> TypeOK /\ TypeOK' BY TypeNext DEF IInv
  <1> DEFINE P == {e \in Entries : row'[Anchor(e)] # "confirmed"}
  <1>1. P \in SUBSET Entries OBVIOUS
  <1>2. CASE UNCHANGED <<proof, attempts, events, accrued>>
    <2>1. ASSUME due' = due PROVE stageOf' = stageOf
      <3>1. \A e \in Entries : Stage(e)' = Stage(e) BY <1>2, <2>1, SameStage DEF SameLedger
      <3> QED BY <3>1 DEF stageOf
    <2>2. CASE UNCHANGED <<row, due>>
      BY <1>2, <2>1, <2>2, RegistrationsStand DEF Promise!pvars
    <2>3. CASE \E w \in Workers : RegisterCommit(w)
      BY <2>3, RegisterOpens DEF Promise!PNext
    <2>4. ASSUME NEW R, CancelRows(R), due' = due PROVE Promise!PNext
      <3>1. Promise!Ending(P) BY <2>4, CancelsEnd
      <3> QED BY <1>1, <1>2, <2>1, <2>4, <3>1 DEF Promise!PNext, Promise!Withdraw
    <2> QED BY <2>2, <2>3, <2>4, RowEffects
  <1>3. ASSUME due' = due, NEW e \in Entries, \A f \in Entries \ {e} : SameLedger(f),
               row' = row \/ Lapsed(e)
        PROVE  [Promise!PNext]_(Promise!pvars)
    <2>1. \/ SameLedger(e) \/ Submitted(e) \/ Verified(e) \/ Reopened(e)
          \/ Returned(e) \/ Lapsed(e)
      BY EntryEffects DEF IInv
    <2>2. /\ stageOf[e] = Stage(e)
          /\ registeredOf[e] <=> due[e] # 0 /\ row[Anchor(e)] = "confirmed"
      BY DEF stageOf, registeredOf
    <2>3. ASSUME events'[e] = events[e] PROVE Status(e)' = Status(e) BY <2>3 DEF Status
    <2>4. \A n : Succeeded(n).type = "succeeded" BY DEF Succeeded
    <2>5. (proof[e].status = "verified") <=> (Status(e) = "succeeded")
      BY DEF IInv, LedgersAgree
    <2>6. CASE Lapsed(e)
      <3>1. due[e] # 0 /\ Status(e) = "pending" /\ proof[e].status # "pending_review"
        BY <2>6 DEF Lapsed, Overdue
      <3>2. Stage(e) \in {"unpaid", "returned"} BY <3>1 DEF Stage
      <3>3. \A v \in events'[e] : v.type # "succeeded"
        BY <2>6, <3>1 DEF Lapsed, Status, Expired
      <3>4. Expired \in events'[e] /\ Expired.type = "expired" BY <2>6 DEF Lapsed, Expired
      <3>5. Status(e)' = "expired" BY <3>3, <3>4 DEF Status
      <3>6. Stage(e)' = "expired" BY <1>3, <3>1, <3>5 DEF Stage
      <3>7. stageOf' = [stageOf EXCEPT ![e] = "expired"] BY <1>3, <3>6, StageMoves
      <3>8. accrued' = accrued BY <1>3, <2>6, FeesMove DEF Lapsed
      <3>9. CancelRows(ExpiredRows(e)) BY <2>6 DEF Lapsed
      <3>10. Promise!Ending(P) BY <1>3, <3>9, CancelsEnd
      <3>11. Anchor(e) \in Rows /\ Anchor(e) \in ExpiredRows(e)
        BY AnchorIsARow DEF ExpiredRows, RowsOf, Group
      <3>12. e \in P BY <3>9, <3>11 DEF CancelRows, Confirmed
      <3> HIDE DEF P
      <3> QED BY <1>1, <2>2, <3>2, <3>7, <3>8, <3>10, <3>12
              DEF Promise!PNext, Promise!Lapse, Promise!Move
    <2>7. CASE row' = row
      <3>1. registeredOf' = registeredOf BY <1>3, <2>7, RegistrationsStand
      <3>2. CASE SameLedger(e)
        <4>1. Stage(e)' = Stage(e) BY <1>3, <3>2, SameStage
        <4>2. stageOf' = [stageOf EXCEPT ![e] = Stage(e)] BY <1>3, <4>1, StageMoves
        <4>3. stageOf' = stageOf BY <2>2, <4>2 DEF stageOf
        <4>4. accrued' = accrued BY <1>3, <3>2, FeesMove DEF SameLedger
        <4> QED BY <3>1, <4>3, <4>4 DEF Promise!pvars
      <3>3. CASE Submitted(e) \/ Reopened(e)
        <4>1. /\ due[e] # 0 /\ Status(e) = "pending" /\ row[Anchor(e)] = "confirmed"
              /\ events'[e] = events[e] /\ accrued'[e] = accrued[e]
              /\ proof[e].status \in {"none", "rejected", "voided"}
              /\ proof'[e].status = "pending_review"
          BY <3>3 DEF Submitted, Reopened, LaneOpen
        <4>2. Stage(e) \in {"unpaid", "returned"} BY <4>1 DEF Stage
        <4>3. Stage(e)' = "under_review" BY <1>3, <2>3, <4>1 DEF Stage
        <4>4. stageOf' = [stageOf EXCEPT ![e] = "under_review"] BY <1>3, <4>3, StageMoves
        <4>5. accrued' = accrued BY <1>3, <4>1, FeesMove
        <4> QED BY <2>2, <3>1, <4>1, <4>2, <4>4, <4>5
                DEF Promise!PNext, Promise!Evidence, Promise!Move
      <3>4. CASE Verified(e)
        <4>1. /\ due[e] # 0 /\ Status(e) = "pending" /\ row[Anchor(e)] = "confirmed"
              /\ proof[e].status = "pending_review"
              /\ events'[e] = events[e] \cup {Succeeded(proof[e].count)}
          BY <3>4 DEF Verified, LaneOpen
        <4>2. accrued'[e] = 1
          BY <3>4 DEF Verified, IInv, LedgersAgree
        <4>3. Stage(e) = "under_review" BY <4>1 DEF Stage
        <4>4. Status(e)' = "succeeded" BY <2>4, <4>1 DEF Status
        <4>5. Stage(e)' = "paid" BY <1>3, <4>1, <4>4 DEF Stage
        <4>6. stageOf' = [stageOf EXCEPT ![e] = "paid"] BY <1>3, <4>5, StageMoves
        <4>7. accrued' = [accrued EXCEPT ![e] = 1] BY <1>3, <4>2, FeesMove
        <4> QED BY <2>2, <3>1, <4>1, <4>3, <4>6, <4>7
                DEF Promise!PNext, Promise!Accept, Promise!Move
      <3>5. CASE Returned(e)
        <4>1. /\ events'[e] = events[e] /\ accrued'[e] = accrued[e]
              /\ proof[e].status \in {"pending_review", "rejected"}
              /\ proof'[e].status \in {"rejected", "voided"}
          BY <3>5 DEF Returned
        <4>2. due[e] # 0 BY <4>1 DEF IInv, UnpaidEntriesAreNew
        <4>3. accrued' = accrued BY <1>3, <4>1, FeesMove
        <4>4. CASE Status(e) # "pending" \/ proof[e].status = "rejected"
          <5>1. Stage(e)' = Stage(e) BY <1>3, <2>3, <4>1, <4>2, <4>4 DEF Stage, Status
          <5>2. stageOf' = [stageOf EXCEPT ![e] = Stage(e)] BY <1>3, <5>1, StageMoves
          <5>3. stageOf' = stageOf BY <2>2, <5>2 DEF stageOf
          <5> QED BY <3>1, <4>3, <5>3 DEF Promise!pvars
        <4>5. CASE Status(e) = "pending" /\ proof[e].status = "pending_review"
          <5>1. Stage(e) = "under_review" BY <4>2, <4>5 DEF Stage
          <5>2. Stage(e)' = "returned" BY <1>3, <2>3, <4>1, <4>2, <4>5 DEF Stage
          <5>3. stageOf' = [stageOf EXCEPT ![e] = "returned"] BY <1>3, <5>2, StageMoves
          <5> QED BY <2>2, <3>1, <4>3, <5>1, <5>3
                  DEF Promise!PNext, Promise!Return, Promise!Move
        <4> QED BY <4>1, <4>4, <4>5
      <3> QED BY <2>1, <2>6, <3>2, <3>3, <3>4, <3>5
    <2> QED BY <1>3, <2>6, <2>7
  <1> QED BY <1>2, <1>3, OneEntryMoves

\* The lane keeps the promise: PaymentPromise is implemented by the handlers,
\* the verdicts and the sweep under the mapping of LaneClaims.
THEOREM LaneKeepsThePromise == Spec => KeepsThePromise
  BY PromiseInit, PromiseNext, Inductive, PTL DEF Spec, KeepsThePromise, Promise!PSpec

-----------------------------------------------------------------------------
(* The price beside the lane                                               *)

\* A lane step that leaves a worker inside a participation transaction is its
\* own entry, with the lock, or finds and leaves it there.
LEMMA ParticipationEffects ==
  ASSUME TypeOK, PricingLocksHeld, Next, NEW v \in Workers, tx'[v].op \in ParticipationOps
  PROVE  /\ partLock' = v
         /\ tx'[v] = tx[v] \/ (tx'[v].op = "unpublish" /\ UnpublishCheck(v))
  <1>1. /\ Idle.op = "idle" /\ \A o, e : On(o, e).op = o
        /\ \A T : Sweeping(T).op \in {"idle", "sweep"}
        /\ \A T, e : Expiring(T, e).op = "expire"
    BY DEF Idle, On, Sweeping, Expiring
  <1>2. ASSUME NEW w \in Workers, NEW t, tx' = [tx EXCEPT ![w] = t],
               t.op \notin ParticipationOps,
               partLock' = partLock \/ partLock = w \/ tx[w].op \in ParticipationOps
        PROVE  partLock' = partLock /\ partLock' = v /\ tx'[v] = tx[v]
    <2>1. tx'[w] = t BY <1>2 DEF TypeOK
    <2>2. v # w BY <1>2, <2>1
    <2>3. tx'[v] = tx[v] BY <1>2, <2>2 DEF TypeOK
    <2>4. partLock = v BY <2>3 DEF PricingLocksHeld
    <2> QED BY <1>2, <2>2, <2>3, <2>4 DEF PricingLocksHeld
  <1>3. LockingOps \cap ParticipationOps = {} /\ EntryOps \cap ParticipationOps = {}
    BY DEF LockingOps, EntryOps, ParticipationOps
  <1>4. ASSUME NEW w \in Workers, End(w),
               partLock' = partLock \/ partLock = w \/ tx[w].op \in ParticipationOps
        PROVE  partLock' = v /\ tx'[v] = tx[v]
    BY <1>1, <1>2, <1>4 DEF End, ParticipationOps
  <1>5. ASSUME NEW w \in Workers, NEW t, Begin(w, t), t.op \notin ParticipationOps,
               partLock' = partLock
        PROVE  partLock' = v /\ tx'[v] = tx[v]
    BY <1>2, <1>5 DEF Begin
  <1>6. ASSUME NEW w \in Workers, NEW T, tx' = [tx EXCEPT ![w] = Sweeping(T)],
               partLock' = partLock \/ partLock = w
        PROVE  partLock' = v /\ tx'[v] = tx[v]
    <2>1. Sweeping(T).op \notin ParticipationOps BY <1>1 DEF ParticipationOps
    <2> QED BY <1>2, <1>6, <2>1
  <1>7. ASSUME UNCHANGED tx, partLock' = partLock PROVE partLock' = v /\ tx'[v] = tx[v]
    BY <1>7 DEF PricingLocksHeld
  <1>8. ASSUME NEW w \in Workers, RequestStep(w)
        PROVE  /\ partLock' = v
               /\ tx'[v] = tx[v] \/ (tx'[v].op = "unpublish" /\ UnpublishCheck(v))
    <2>1. CASE \E e \in Entries : RegisterCheck(w, e) \/ CancelTeamCheck(w, e)
      <3>1. \A o, e : o \in EntryOps => On(o, e).op \notin ParticipationOps BY <1>1, <1>3
      <3> QED BY <1>5, <2>1, <3>1 DEF RegisterCheck, CancelTeamCheck, EntryOps, locks
    <2>2. CASE \E e \in Entries, m \in Students : CancelRowCheck(w, e, m)
      <3> PICK e \in Entries, m \in Students : CancelRowCheck(w, e, m) BY <2>2
      <3>1. [On("cancelRow", e) EXCEPT !.m = m].op = "cancelRow" BY DEF On, Idle
      <3> QED BY <1>5, <3>1 DEF CancelRowCheck, ParticipationOps, locks
    <2>3. CASE \E e \in Entries : SubmitLock(w, e) \/ VerifyLock(w, e) \/ ReopenLock(w, e)
      <3>1. \A o, e : o \in EntryOps => On(o, e).op \notin ParticipationOps BY <1>1, <1>3
      <3> QED BY <1>5, <2>3, <3>1 DEF SubmitLock, VerifyLock, ReopenLock,
              RequireOpenManualLane, EntryOps, LockingOps
    <2>4. CASE \/ RegisterCommit(w) \/ CancelRowCommit(w) \/ CancelTeamCommit(w)
               \/ SubmitCommit(w) \/ VerifyCommit(w) \/ ReopenCommit(w) \/ UnpublishCommit(w)
      BY <1>4, <2>4 DEF RegisterCommit, InsertRegistration, CancelRowCommit,
         CancelTeamCommit, SubmitCommit, VerifyCommit, ReopenCommit, UnpublishCommit,
         ParticipationOps, locks
    <2>5. CASE UnpublishCheck(w)
      <3>1. [Idle EXCEPT !.op = "unpublish"].op = "unpublish" BY DEF Idle
      <3>2. tx'[w].op = "unpublish" BY <2>5, <3>1 DEF UnpublishCheck, Begin, TypeOK
      <3>3. v # w => tx'[v] = tx[v] BY <2>5 DEF UnpublishCheck, Begin, TypeOK
      <3>4. v # w => partLock = v BY <3>3 DEF PricingLocksHeld
      <3>5. v = w BY <2>5, <3>4, ActorsAssumption DEF UnpublishCheck
      <3> QED BY <2>5, <3>2, <3>5 DEF UnpublishCheck
    <2> QED BY <1>8, <2>1, <2>2, <2>3, <2>4, <2>5 DEF RequestStep
  <1>9. ASSUME NEW w \in Workers, SweeperStep(w) PROVE partLock' = v /\ tx'[v] = tx[v]
    <2>1. CASE SweepSelect(w)
      <3>1. \A T : Sweeping(T).op \notin ParticipationOps BY <1>1 DEF ParticipationOps
      <3> QED BY <1>5, <2>1, <3>1 DEF SweepSelect, locks
    <2>2. CASE (\E e \in Entries : ExpireDecline(w, e)) \/ ExpireCommit(w)
      BY <1>6, <2>2 DEF ExpireDecline, ExpireCommit, locks
    <2>3. CASE \E e \in Entries : ExpireLock(w, e)
      <3>1. \A T, e : Expiring(T, e).op \notin ParticipationOps BY <1>1 DEF ParticipationOps
      <3> QED BY <1>2, <2>3, <3>1 DEF ExpireLock
    <2> QED BY <1>9, <2>1, <2>2, <2>3 DEF SweeperStep
  <1>10. ASSUME NEW w \in Workers, Abort(w) PROVE partLock' = v /\ tx'[v] = tx[v]
    <2>1. CASE End(w)
      <3>1. partLock' = partLock \/ partLock = w BY <1>10 DEF Abort
      <3> QED BY <1>4, <2>1, <3>1
    <2>2. CASE ~End(w)
      <3>1. partLock' = partLock \/ partLock = w BY <1>10 DEF Abort
      <3> QED BY <1>6, <1>10, <2>2, <3>1 DEF Abort
    <2> QED BY <2>1, <2>2
  <1>11. CASE VerdictStep \/ CompetitionStep \/ Tick
    BY <1>7, <1>11 DEF VerdictStep, RejectManualPaymentProof, VoidManualPaymentProof,
       CompetitionStep, CancelCompetitionAsOps, CancelForInsufficientParticipation,
       Publish, Tick, locks
  <1>12. Requests \subseteq Workers /\ Sweepers \subseteq Workers BY DEF Workers
  <1> QED BY <1>8, <1>9, <1>10, <1>11, <1>12 DEF Next

\* A team goes back to forming only when every row of its group is cancelled.
LEMMA TeamEffects ==
  ASSUME TypeOK, Next
  PROVE  \/ team' = team
         \/ \E w \in Workers : InsertRegistration(w)
         \/ \E w \in Workers : CancelTeamCommit(w)
  <1>1. ASSUME NEW w \in Workers, RequestStep(w)
        PROVE  team' = team \/ InsertRegistration(w) \/ CancelTeamCommit(w)
    BY <1>1 DEF RequestStep, RegisterCheck, RegisterCommit, CancelRowCheck, CancelRowCommit,
       CancelTeamCheck, SubmitLock, VerifyLock, ReopenLock, RequireOpenManualLane,
       SubmitCommit, VerifyCommit, ReopenCommit, UnpublishCheck, UnpublishCommit
  <1>2. ASSUME NEW w \in Workers, SweeperStep(w) PROVE team' = team
    BY <1>2 DEF SweeperStep, SweepSelect, ExpireDecline, ExpireLock, ExpireCommit
  <1>3. ASSUME VerdictStep \/ CompetitionStep \/ Tick \/ \E w \in Workers : Abort(w)
        PROVE  team' = team
    BY <1>3 DEF VerdictStep, RejectManualPaymentProof, VoidManualPaymentProof,
       CompetitionStep, CancelCompetitionAsOps, CancelForInsufficientParticipation,
       Publish, Tick, Abort
  <1>4. Requests \subseteq Workers /\ Sweepers \subseteq Workers BY DEF Workers
  <1> QED BY <1>1, <1>2, <1>3, <1>4 DEF Next

\* The live rows of a team stay those of one submission: a team that submits was
\* forming, and a forming team has none.
LEMMA RegistrationKeepsTeams ==
  ASSUME TypeOK, FormingTeamsAreOut, OneLiveSubmission, NEW w \in Workers,
         InsertRegistration(w)
  PROVE  FormingTeamsAreOut' /\ OneLiveSubmission'
  <1> DEFINE e == tx[w].e
  <1>1. e \in Entries BY OnAnEntry DEF InsertRegistration, EntryOps
  <1>2. ASSUME NEW r \in Rows, row'[r] = "confirmed" PROVE r[1] = e \/ row[r] = "confirmed"
    BY <1>2 DEF InsertRegistration, RowsOf
  <1>3. ASSUME NEW r \in Rows, row[r] = "confirmed", TeamOf[r[1]] # NoTeam
        PROVE  TeamOf[r[1]] # TeamOf[e]
    BY <1>3 DEF InsertRegistration, FormingTeamsAreOut, Confirmed
  <1>4. \A r \in Rows : r[1] \in Entries BY DEF Rows
  <1>5. \A f \in Entries : TeamOf[f] # NoTeam => TeamOf[f] \in Teams
    BY EntriesAssumption
  <1>6. ASSUME NEW r \in Rows, row'[r] = "confirmed", TeamOf[r[1]] # NoTeam
        PROVE  team'[TeamOf[r[1]]] = "submitted"
    <2>1. CASE r[1] = e BY <1>1, <1>5, <1>6, <2>1 DEF InsertRegistration
    <2>2. CASE row[r] = "confirmed"
      <3>1. team[TeamOf[r[1]]] = "submitted"
        BY <1>6, <2>2 DEF FormingTeamsAreOut, Confirmed
      <3> QED BY <1>4, <1>5, <1>6, <3>1 DEF InsertRegistration
    <2> QED BY <1>2, <1>6, <2>1, <2>2
  <1>7. ASSUME NEW r \in Rows, row'[r] = "confirmed", NEW s \in Rows, row'[s] = "confirmed",
               s[1] \in Group(r[1])
        PROVE  r[1] = s[1]
    <2> SUFFICES ASSUME r[1] # s[1] PROVE FALSE OBVIOUS
    <2>1. TeamOf[r[1]] = TeamOf[s[1]] /\ TeamOf[r[1]] # NoTeam BY <1>7 DEF Group
    <2>2. r[1] = e => row[s] = "confirmed" BY <1>2, <1>7
    <2>3. s[1] = e => row[r] = "confirmed" BY <1>2, <1>7
    <2>4. r[1] # e /\ s[1] # e BY <1>3, <2>1, <2>2, <2>3
    <2>5. row[r] = "confirmed" /\ row[s] = "confirmed" BY <1>2, <1>7, <2>4
    <2> QED BY <1>7, <2>5 DEF OneLiveSubmission, Confirmed
  <1>8. FormingTeamsAreOut' BY <1>6 DEF FormingTeamsAreOut, Confirmed
  <1>9. OneLiveSubmission' BY <1>7 DEF OneLiveSubmission, Confirmed, Group
  <1> QED BY <1>8, <1>9

\* A lane step keeps them too: rows are cancelled, and a team that forms again
\* has had every row of its group cancelled.
LEMMA LaneKeepsTeams ==
  ASSUME TypeOK, FormingTeamsAreOut, OneLiveSubmission, Next
  PROVE  FormingTeamsAreOut' /\ OneLiveSubmission'
  <1>1. CASE \E w \in Workers : InsertRegistration(w) BY <1>1, RegistrationKeepsTeams
  <1>2. CASE ~\E w \in Workers : InsertRegistration(w)
    <2>1. ASSUME NEW r \in Rows, row'[r] = "confirmed" PROVE row[r] = "confirmed"
      BY <1>2, <2>1, ConfirmedOnce DEF RegisterCommit
    <2>2. ASSUME NEW r \in Rows, row'[r] = "confirmed", TeamOf[r[1]] # NoTeam
          PROVE  team'[TeamOf[r[1]]] = "submitted"
      <3>1. team[TeamOf[r[1]]] = "submitted"
        BY <2>1, <2>2 DEF FormingTeamsAreOut, Confirmed
      <3>2. r[1] \in Entries /\ TeamOf[r[1]] \in Teams BY <2>2, EntriesAssumption DEF Rows
      <3>3. ASSUME NEW w \in Workers, CancelTeamCommit(w), TeamOf[r[1]] = TeamOf[tx[w].e]
            PROVE  FALSE
        <4>1. r \in RowsOf(Group(tx[w].e)) BY <2>2, <3>2, <3>3 DEF RowsOf, Group
        <4> QED BY <2>2, <3>3, <4>1 DEF CancelTeamCommit, CancelRows, Confirmed
      <3>4. ASSUME NEW w \in Workers, CancelTeamCommit(w)
            PROVE  team'[TeamOf[r[1]]] = team[TeamOf[r[1]]]
        BY <3>2, <3>3, <3>4 DEF CancelTeamCommit, TypeOK
      <3> QED BY <1>2, <3>1, <3>4, TeamEffects
    <2>3. FormingTeamsAreOut' BY <2>2 DEF FormingTeamsAreOut, Confirmed
    <2>4. OneLiveSubmission' BY <2>1 DEF OneLiveSubmission, Confirmed, Group
    <2> QED BY <2>3, <2>4
  <1> QED BY <1>1, <1>2

\* No step of the lane moves the price.
LEMMA LaneKeepsThePrice ==
  ASSUME TypeOK, Next
  PROVE  Priced' = Priced
  <1>1. ASSUME NEW w \in Workers, RequestStep(w) PROVE Priced' = Priced
    BY <1>1 DEF RequestStep, RegisterCheck, RegisterCommit, InsertRegistration,
       CancelRowCheck, CancelRowCommit, CancelTeamCheck, CancelTeamCommit, SubmitLock,
       VerifyLock, ReopenLock, RequireOpenManualLane, SubmitCommit, VerifyCommit,
       ReopenCommit, UnpublishCheck, UnpublishCommit, Priced, TypeOK
  <1>2. ASSUME NEW w \in Workers, SweeperStep(w) PROVE Priced' = Priced
    BY <1>2 DEF SweeperStep, SweepSelect, ExpireDecline, ExpireLock, ExpireCommit, Priced
  <1>3. ASSUME VerdictStep \/ CompetitionStep \/ Tick \/ \E w \in Workers : Abort(w)
        PROVE  Priced' = Priced
    BY <1>3 DEF VerdictStep, RejectManualPaymentProof, VoidManualPaymentProof,
       CompetitionStep, CancelCompetitionAsOps, CancelForInsufficientParticipation,
       Publish, Tick, Abort, Priced, TypeOK
  <1>4. Requests \subseteq Workers /\ Sweepers \subseteq Workers BY DEF Workers
  <1> QED BY <1>1, <1>2, <1>3, <1>4 DEF Next

\* A lane step keeps the price's promise and every decision that rests on it:
\* rows it adds owe a payment, and while a price is being set it adds none.
LEMMA LaneKeepsPrices ==
  ASSUME PricingInv, Next
  PROVE  FreeStaysFree' /\ ChargesAreSound' /\ PricingLocksHeld'
  <1> TypeOK /\ PricingLocksHeld /\ ChargesAreSound /\ FreeStaysFree BY DEF PricingInv
  <1>1. ASSUME NEW r \in Rows, row'[r] = "confirmed"
        PROVE  \/ row[r] = "confirmed" /\ (due[r[1]] # 0 => due'[r[1]] # 0)
               \/ \E w \in Workers : RegisterCommit(w) /\ due'[r[1]] # 0
    <2>1. r[1] \in Entries BY DEF Rows
    <2>2. ASSUME NEW w \in Workers, RegisterCommit(w)
          PROVE  due'[tx[w].e] # 0 /\ (due[r[1]] # 0 => due'[r[1]] # 0)
      <3>1. DueAt \in Nat \ {0} BY DueAtIsADate DEF TypeOK
      <3>2. tx[w].e \in Entries
        BY <2>2, OnAnEntry DEF RegisterCommit, InsertRegistration, EntryOps
      <3> QED BY <2>1, <2>2, <3>1, <3>2 DEF RegisterCommit, TypeOK
    <2>3. due' = due \/ \E w \in Workers : RegisterCommit(w) BY RowEffects
    <2> QED BY <1>1, <2>2, <2>3, ConfirmedOnce
  <1>2. FreeStaysFree' BY <1>1, LaneKeepsThePrice DEF FreeStaysFree, Confirmed
  <1>3. PricingLocksHeld' BY ParticipationEffects DEF PricingLocksHeld
  <1>4. ASSUME NEW v \in Workers, tx'[v].op = "charge", NEW r \in Rows, row'[r] = "confirmed"
        PROVE  due'[r[1]] # 0
    <2>1. tx[v].op = "charge" /\ partLock = v
      BY <1>4, ParticipationEffects DEF ParticipationOps, PricingLocksHeld
    <2>2. due[r[1]] # 0 \/ row[r] # "confirmed" BY <2>1 DEF ChargesAreSound, Confirmed
    <2>3. ~\E w \in Workers : RegisterCommit(w)
      BY <2>1, ActorsAssumption DEF RegisterCommit, InsertRegistration
    <2> QED BY <1>1, <1>4, <2>2, <2>3
  <1>5. ChargesAreSound' BY <1>4 DEF ChargesAreSound, Confirmed
  <1> QED BY <1>2, <1>3, <1>5

LEMMA PricingInvInit == Init => PricingInv
  <1> SUFFICES ASSUME Init PROVE PricingInv OBVIOUS
  <1>1. \A w \in Workers : tx[w].op = "idle" BY DEF Init, Idle
  <1>2. Confirmed(Rows) = {} BY DEF Init, Confirmed
  <1> QED BY <1>1, <1>2, TypeInit
          DEF PricingInv, PricingLocksHeld, ChargesAreSound,
              FormingTeamsAreOut, OneLiveSubmission, FreeStaysFree, ParticipationOps

\* A free registration and the two halves of a price change touch no ledger, no due
\* date and no row lock, and the rows they add are of an entry that owes nothing.
LEMMA BesideEffects ==
  ASSUME TypeOK, OneRequestRegisters, NEW w \in Requests,
         \/ RegisterFree(w) \/ SetFeeCommit(w)
         \/ \E charge \in BOOLEAN : SetFeeLock(w, charge)
  PROVE  /\ UNCHANGED <<now, lane, rowLock>>
         /\ \E t \in TxTypes : /\ tx' = [tx EXCEPT ![w] = t]
                              /\ t.op \notin EntryOps \cup {"unpublish"} /\ t.todo = {}
         /\ \A r \in Rows :
              row'[r] = row[r] \/ (row'[r] = "confirmed" /\ due[r[1]] = 0)
  <1> w \in Workers BY DEF Workers
  <1>1. Idle \in TxTypes /\ Idle.op \notin EntryOps \cup {"unpublish"} /\ Idle.todo = {}
    BY IdleTypes DEF Idle, EntryOps, LockingOps
  <1>2. CASE RegisterFree(w)
    <2>1. UNCHANGED <<now, lane, rowLock>> /\ tx' = [tx EXCEPT ![w] = Idle]
      BY <1>2 DEF RegisterFree, InsertRegistration, lane, locks, End
    <2>2. due[tx[w].e] = 0
      BY <1>2 DEF RegisterFree, InsertRegistration, OneRequestRegisters
    <2>3. ASSUME NEW r \in Rows
          PROVE  row'[r] = row[r] \/ (row'[r] = "confirmed" /\ due[r[1]] = 0)
      BY <1>2, <2>2 DEF RegisterFree, InsertRegistration, RowsOf
    <2> QED BY <1>1, <2>1, <2>3
  <1>3. CASE SetFeeCommit(w)
    BY <1>1, <1>3 DEF SetFeeCommit, End, lane
  <1>4. ASSUME NEW charge \in BOOLEAN, SetFeeLock(w, charge)
        PROVE  /\ UNCHANGED <<now, row, lane, rowLock>>
               /\ \E t \in TxTypes : /\ tx' = [tx EXCEPT ![w] = t]
                                    /\ t.op \notin EntryOps \cup {"unpublish"}
                                    /\ t.todo = {}
    <2> DEFINE t == [Idle EXCEPT !.op = IF charge THEN "charge" ELSE "clear"]
    <2>1. t \in TxTypes /\ t.op \notin EntryOps \cup {"unpublish"} /\ t.todo = {}
      BY DEF TxTypes, Idle, Ops, ParticipationOps, EntryOps, LockingOps
    <2>2. UNCHANGED <<now, row, lane, rowLock>> /\ tx' = [tx EXCEPT ![w] = t]
      BY <1>4 DEF SetFeeLock, Begin
    <2> HIDE DEF t
    <2> QED BY <2>1, <2>2
  <1> QED BY <1>2, <1>3, <1>4

\* A free registration is added only while no price is being set.
LEMMA FreeRegistrationKeeps ==
  ASSUME PricingInv, NEW w \in Requests, RegisterFree(w)
  PROVE  PricingInv'
  <1> w \in Workers BY DEF Workers
  <1> TypeOK /\ PricingLocksHeld BY DEF PricingInv
  <1>1. TypeOK'
    <2>1. tx' \in [Workers -> TxTypes]
      BY EndTypes DEF TypeOK, RegisterFree, InsertRegistration
    <2> QED BY <2>1 DEF TypeOK, RegisterFree, InsertRegistration, locks
  <1>2. FormingTeamsAreOut' /\ OneLiveSubmission'
    BY RegistrationKeepsTeams DEF PricingInv, RegisterFree
  <1>3. ASSUME NEW v \in Workers PROVE tx'[v].op \notin ParticipationOps
    <2>1. tx[v].op \notin ParticipationOps
      BY ActorsAssumption DEF PricingLocksHeld, RegisterFree, InsertRegistration
    <2>2. Idle.op \notin ParticipationOps BY DEF Idle, ParticipationOps
    <2> QED BY <2>1, <2>2 DEF RegisterFree, InsertRegistration, End, TypeOK
  <1>4. PricingLocksHeld' /\ ChargesAreSound'
    BY <1>3 DEF PricingLocksHeld, ChargesAreSound, ParticipationOps
  <1>5. ~Priced' BY DEF RegisterFree, InsertRegistration, Priced
  <1> QED BY <1>1, <1>2, <1>4, <1>5 DEF PricingInv, FreeStaysFree

\* What the price is decided on: every live registration owes a payment.
LEMMA FeeDecisionKeeps ==
  ASSUME PricingInv, NEW w \in Requests, NEW charge \in BOOLEAN, SetFeeLock(w, charge)
  PROVE  PricingInv'
  <1> w \in Workers BY DEF Workers
  <1> TypeOK /\ PricingLocksHeld /\ OneLiveSubmission BY DEF PricingInv
  <1> DEFINE o == IF charge THEN "charge" ELSE "clear"
  <1> DEFINE t == [Idle EXCEPT !.op = o]
  <1>1. t \in TxTypes /\ t.op = o
    BY DEF TxTypes, Idle, Ops, ParticipationOps, EntryOps, LockingOps
  <1>2. tx' = [tx EXCEPT ![w] = t] BY DEF SetFeeLock, Begin
  <1> HIDE DEF t
  <1>3. TypeOK'
    <2>1. tx' \in [Workers -> TxTypes] BY <1>1, <1>2 DEF TypeOK
    <2> QED BY <2>1 DEF TypeOK, SetFeeLock, lane
  <1>4. row' = row /\ due' = due /\ team' = team /\ Priced' = Priced /\ partLock' = w
    BY DEF SetFeeLock, lane, Priced
  <1>5. \A v \in Workers : v # w => tx'[v] = tx[v] /\ tx[v].op \notin ParticipationOps
    BY <1>2, ActorsAssumption DEF TypeOK, SetFeeLock, PricingLocksHeld
  <1>6. PricingLocksHeld' BY <1>4, <1>5 DEF PricingLocksHeld
  <1>7. ASSUME charge, NEW r \in Rows, row[r] = "confirmed" PROVE due[r[1]] # 0
    <2>1. r[1] \in Entries /\ r \in RowsOf(Group(r[1])) BY DEF Rows, RowsOf, Group
    <2>2. r \in Confirmed(RowsOf(Group(r[1]))) BY <1>7, <2>1 DEF Confirmed
    <2>3. PICK f \in Group(r[1]) : row[Anchor(f)] = "confirmed" /\ due[f] # 0
      BY <1>7, <2>1, <2>2 DEF SetFeeLock, HasActiveFree
    <2>4. f \in Entries /\ Anchor(f) \in Rows /\ Anchor(f)[1] = f
      BY AnchorIsARow DEF Group, Anchor
    <2>5. r[1] = f BY <1>7, <2>3, <2>4 DEF OneLiveSubmission, Confirmed
    <2> QED BY <2>3, <2>5
  <1>8. ChargesAreSound'
    <2>1. ASSUME NEW v \in Workers, tx'[v].op = "charge", NEW r \in Rows, row'[r] = "confirmed"
          PROVE  due'[r[1]] # 0
      <3>1. v = w BY <1>5, <2>1 DEF ParticipationOps
      <3>2. charge BY <1>1, <1>2, <2>1, <3>1 DEF TypeOK
      <3> QED BY <1>4, <1>7, <2>1, <3>2
    <2> QED BY <2>1 DEF ChargesAreSound, Confirmed
  <1>9. FormingTeamsAreOut' /\ OneLiveSubmission' /\ FreeStaysFree'
    BY <1>4 DEF PricingInv, FormingTeamsAreOut, OneLiveSubmission, FreeStaysFree,
       Confirmed, Group
  <1> QED BY <1>3, <1>4, <1>6, <1>8, <1>9 DEF PricingInv

LEMMA FeeWriteKeeps ==
  ASSUME PricingInv, NEW w \in Requests, SetFeeCommit(w)
  PROVE  PricingInv'
  <1> w \in Workers BY DEF Workers
  <1> TypeOK /\ PricingLocksHeld BY DEF PricingInv
  <1>1. TypeOK'
    <2>1. tx' \in [Workers -> TxTypes] BY EndTypes DEF TypeOK, SetFeeCommit
    <2> QED BY <2>1 DEF TypeOK, SetFeeCommit, lane
  <1>2. row' = row /\ due' = due /\ team' = team BY DEF SetFeeCommit, lane
  <1>3. ASSUME NEW v \in Workers PROVE tx'[v].op \notin ParticipationOps
    <2>1. partLock = w BY DEF SetFeeCommit, PricingLocksHeld, ParticipationOps
    <2>2. v # w => tx[v].op \notin ParticipationOps BY <2>1 DEF PricingLocksHeld
    <2>3. Idle.op \notin ParticipationOps BY DEF Idle, ParticipationOps
    <2> QED BY <2>2, <2>3 DEF SetFeeCommit, End, TypeOK
  <1>4. PricingLocksHeld' /\ ChargesAreSound'
    BY <1>3 DEF PricingLocksHeld, ChargesAreSound, ParticipationOps
  <1>5. Priced' = (tx[w].op = "charge") BY DEF SetFeeCommit, Priced, TypeOK
  <1>6. FreeStaysFree'
    BY <1>2, <1>5 DEF PricingInv, ChargesAreSound, FreeStaysFree, Confirmed
  <1>7. FormingTeamsAreOut' /\ OneLiveSubmission'
    BY <1>2 DEF PricingInv, FormingTeamsAreOut, OneLiveSubmission, Confirmed, Group
  <1> QED BY <1>1, <1>4, <1>5, <1>6, <1>7 DEF PricingInv

LEMMA PricingInvNext == PricingInv /\ [PricingNext]_vars => PricingInv'
  <1> SUFFICES ASSUME PricingInv, [PricingNext]_vars PROVE PricingInv' OBVIOUS
  <1>1. CASE Next
    <2>1. TypeOK' BY <1>1, TypeNext DEF PricingInv
    <2>2. FormingTeamsAreOut' /\ OneLiveSubmission'
      BY <1>1, LaneKeepsTeams DEF PricingInv
    <2> QED BY <1>1, <2>1, <2>2, LaneKeepsPrices DEF PricingInv
  <1>2. CASE UNCHANGED vars
    <2>1. TypeOK' BY <1>2, TypeNext DEF PricingInv
    <2>2. UNCHANGED <<competition, row, team, due, tx, partLock>> BY <1>2 DEF vars
    <2> QED BY <2>1, <2>2
            DEF PricingInv, Priced, PricingLocksHeld, ChargesAreSound, FormingTeamsAreOut,
                OneLiveSubmission, FreeStaysFree, Confirmed, Group
  <1> QED BY <1>1, <1>2, FreeRegistrationKeeps, FeeDecisionKeeps, FeeWriteKeeps DEF PricingNext

-----------------------------------------------------------------------------
(* The lane beside the price                                               *)

\* What the lane guarantees it guarantees while prices are set and cleared.
LEMMA BesideKeepsTheLane ==
  ASSUME IInv, TypeOK', NEW w \in Requests,
         \/ RegisterFree(w) \/ SetFeeCommit(w)
         \/ \E charge \in BOOLEAN : SetFeeLock(w, charge)
  PROVE  IInv'
  <1> w \in Workers BY DEF Workers
  <1> TypeOK BY DEF IInv
  <1>1. UNCHANGED <<now, due, proof, attempts, events, accrued, rowLock>>
    BY BesideEffects DEF IInv, lane
  <1>2. PICK t \in TxTypes :
          tx' = [tx EXCEPT ![w] = t] /\ t.op \notin EntryOps /\ t.todo = {}
    BY BesideEffects DEF IInv
  <1>3. ASSUME NEW r \in Rows
        PROVE  row'[r] = row[r] \/ (row'[r] = "confirmed" /\ due[r[1]] = 0)
    BY BesideEffects DEF IInv
  <1>4. ASSUME NEW v \in Workers
        PROVE  tx'[v] = tx[v] \/ (tx'[v].op \notin EntryOps /\ tx'[v].todo = {})
    BY <1>2 DEF TypeOK
  <1>5. \A e \in Entries : Status(e)' = Status(e) BY <1>1 DEF Status
  <1>6. LocksHeld' BY <1>1, <1>4 DEF IInv, LocksHeld, EntryOps
  <1>7. UnpaidEntriesAreNew'
    <2>1. ASSUME NEW e \in Entries, NEW r \in RowsOf({e}), row'[r] = "absent"
          PROVE  due'[e] = 0
      BY <1>1, <1>3, <2>1 DEF IInv, UnpaidEntriesAreNew, RowsOf
    <2> QED BY <1>1, <2>1 DEF IInv, UnpaidEntriesAreNew, RowsOf
  <1>8. OneRequestRegisters' BY <1>1, <1>4 DEF IInv, OneRequestRegisters, EntryOps
  <1>9. SweepCarriesOverdue'
    BY <1>1, <1>4 DEF IInv, SweepCarriesOverdue, Overdue, EntryOps, LockingOps
  <1>10. LockedReadsStable'
    <2>1. ASSUME NEW e \in Entries, LaneOpen(e) PROVE LaneOpen(e)'
      <3>1. Anchor(e) \in Rows /\ Anchor(e)[1] = e BY AnchorIsARow DEF Anchor
      <3> QED BY <1>1, <1>3, <1>5, <2>1, <3>1 DEF LaneOpen, Anchor
    <2>2. \A v \in Workers : tx[v].op \in EntryOps => tx[v].e \in Entries BY OnAnEntry
    <2>3. {"submit", "verify", "reopen", "expire"} \subseteq EntryOps
      BY DEF EntryOps, LockingOps
    <2>4. ASSUME NEW v \in Workers, tx'[v].op \in {"submit", "verify", "reopen"}
          PROVE  LaneOpen(tx[v].e)' /\ tx'[v] = tx[v]
      <3>1. tx'[v] = tx[v] BY <1>4, <2>3, <2>4
      <3>2. LaneOpen(tx[v].e) /\ tx[v].e \in Entries
        BY <2>2, <2>3, <2>4, <3>1 DEF IInv, LockedReadsStable
      <3>3. PICK e \in Entries : e = tx[v].e /\ LaneOpen(e) BY <3>2
      <3>4. LaneOpen(e)' BY <2>1, <3>3
      <3> QED BY <3>1, <3>3, <3>4 DEF LaneOpen, Status, Anchor
    <2>5. ASSUME NEW v \in Workers, tx'[v].op = "expire"
          PROVE  Status(tx[v].e)' = "pending" /\ proof'[tx'[v].e].status # "pending_review"
      <3>1. tx'[v] = tx[v] BY <1>4, <2>3, <2>5
      <3>2. Status(tx[v].e) = "pending" /\ proof[tx[v].e].status # "pending_review"
        BY <2>5, <3>1 DEF IInv, LockedReadsStable
      <3> QED BY <1>1, <3>1, <3>2 DEF Status
    <2> QED BY <2>4, <2>5 DEF LockedReadsStable
  <1>11. LedgersAgree' /\ PaidXorExpired' /\ AttemptsContiguous'
    BY <1>1, <1>5 DEF IInv, LedgersAgree, PaidXorExpired, AttemptsContiguous
  <1>12. ExpiryEndsTheGroup'
    <2> SUFFICES ASSUME NEW e \in Entries, Expired \in events'[e],
                        NEW r \in RowsOf({e}), row'[r] = "confirmed"
                 PROVE  FALSE
      BY DEF ExpiryEndsTheGroup, Confirmed, Expired, RowsOf
    <2>1. r \in Rows /\ r[1] = e BY DEF RowsOf
    <2>2. due[e] # 0 BY <1>1 DEF IInv, UnpaidEntriesAreNew
    <2>3. row[r] = "confirmed" BY <1>3, <2>1, <2>2
    <2> QED BY <1>1, <2>1, <2>3 DEF IInv, ExpiryEndsTheGroup, Confirmed
  <1> QED BY <1>6, <1>7, <1>8, <1>9, <1>10, <1>11, <1>12 DEF IInv

PricedInv == IInv /\ PricingInv

LEMMA PricedInvInductive == PricingSpec => []PricedInv
  <1>1. Init => PricedInv BY IInvInit, PricingInvInit DEF PricedInv
  <1>2. PricedInv /\ [PricingNext]_vars => PricedInv'
    <2> SUFFICES ASSUME PricedInv, [PricingNext]_vars PROVE PricedInv' OBVIOUS
    <2>1. PricingInv' BY PricingInvNext DEF PricedInv
    <2>2. TypeOK' BY <2>1 DEF PricingInv
    <2>3. IInv' BY <2>2, IInvNext, BesideKeepsTheLane DEF PricedInv, PricingNext
    <2> QED BY <2>1, <2>3 DEF PricedInv
  <1> QED BY <1>1, <1>2, PTL DEF PricingSpec

\* A step beside the lane moves no ledger and no payer's registration.
LEMMA BesideIsStill ==
  ASSUME IInv, NEW w \in Requests,
         \/ RegisterFree(w) \/ SetFeeCommit(w)
         \/ \E charge \in BOOLEAN : SetFeeLock(w, charge)
  PROVE  /\ UNCHANGED <<due, proof, attempts, events, accrued>>
         /\ UNCHANGED Promise!pvars
  <1> TypeOK BY DEF IInv
  <1>1. UNCHANGED <<due, proof, attempts, events, accrued>>
    BY BesideEffects DEF IInv, lane
  <1>2. ASSUME NEW e \in Entries, due[e] # 0 PROVE row'[Anchor(e)] = row[Anchor(e)]
    <2>1. Anchor(e) \in Rows /\ Anchor(e)[1] = e BY AnchorIsARow DEF Anchor
    <2> QED BY <1>2, <2>1, BesideEffects DEF IInv
  <1>3. registeredOf' = registeredOf BY <1>1, <1>2, RegistrationsStand
  <1>4. \A e \in Entries : Stage(e)' = Stage(e) BY <1>1, SameStage DEF SameLedger
  <1>5. stageOf' = stageOf BY <1>4 DEF stageOf
  <1> QED BY <1>1, <1>3, <1>5 DEF Promise!pvars

\* However prices are set and cleared beside the lane, and whoever registers for
\* free, the ledgers of a payment agree, it never settles twice, its verdicts are
\* numbered without a gap and what a handler read under the lock still holds.
THEOREM PricedLaneIsSound ==
  PricingSpec => [](LedgersAgree /\ PaidXorExpired /\ AttemptsContiguous /\ LockedReadsStable)
  <1>1. PricedInv => LedgersAgree /\ PaidXorExpired /\ AttemptsContiguous /\ LockedReadsStable
    BY DEF PricedInv, IInv
  <1> QED BY <1>1, PricedInvInductive, PTL

\* An expiry ends its whole group, free submissions of the same team included.
THEOREM PricedExpiryEndsTheGroup == PricingSpec => []ExpiryEndsTheGroup
  <1>1. PricedInv => ExpiryEndsTheGroup BY DEF PricedInv, IInv
  <1> QED BY <1>1, PricedInvInductive, PTL

\* Beside a changing price too a cancelled registration never becomes paid.
THEOREM PricedNoPaymentForTheCancelled == PricingSpec => PaidOnlyWhileRegistered
  <1>1. PricedInv /\ [PricingNext]_vars =>
          [\A e \in Entries :
             Status(e) # "succeeded" /\ Status(e)' = "succeeded" =>
               row[Anchor(e)] = "confirmed" /\ row'[Anchor(e)] = "confirmed"]_vars
    <2> SUFFICES ASSUME PricedInv, [PricingNext]_vars, NEW e \in Entries,
                        Status(e) # "succeeded", Status(e)' = "succeeded"
                 PROVE  row[Anchor(e)] = "confirmed" /\ row'[Anchor(e)] = "confirmed"
      OBVIOUS
    <2>1. CASE [Next]_vars BY <2>1, PaidStep DEF PricedInv
    <2>2. CASE ~[Next]_vars
      <3>1. UNCHANGED events BY <2>2, BesideIsStill DEF PricingNext, PricedInv
      <3> QED BY <3>1 DEF Status
    <2> QED BY <2>1, <2>2
  <1> QED BY <1>1, PricedInvInductive, PTL DEF PricingSpec, PaidOnlyWhileRegistered

\* No price change makes a payment expire that is not overdue or is under review.
THEOREM PricedExpiryIsDeserved == PricingSpec => ExpiresOnlyUnevidenced
  <1>1. PricedInv /\ [PricingNext]_vars =>
          [\A e \in Entries :
             Expired \notin events[e] /\ Expired \in events'[e] =>
               Overdue(e) /\ proof[e].status # "pending_review"]_vars
    <2> SUFFICES ASSUME PricedInv, [PricingNext]_vars, NEW e \in Entries,
                        Expired \notin events[e], Expired \in events'[e]
                 PROVE  Overdue(e) /\ proof[e].status # "pending_review"
      OBVIOUS
    <2>1. CASE [Next]_vars BY <2>1, ExpiryStep DEF PricedInv
    <2>2. CASE ~[Next]_vars
      <3>1. UNCHANGED events BY <2>2, BesideIsStill DEF PricingNext, PricedInv
      <3> QED BY <3>1
    <2> QED BY <2>1, <2>2
  <1> QED BY <1>1, PricedInvInductive, PTL DEF PricingSpec, ExpiresOnlyUnevidenced

\* Nor does one unsettle a payment, its fee or its verdicts.
THEOREM PricedSettledForGood == PricingSpec => SettlementIsFinal
  <1>1. PricedInv /\ [PricingNext]_vars =>
          [\A e \in Entries :
             /\ Status(e) # "pending" => Status(e)' = Status(e) /\ accrued'[e] = accrued[e]
             /\ attempts[e] \subseteq attempts'[e]]_vars
    <2> SUFFICES ASSUME PricedInv, [PricingNext]_vars, NEW e \in Entries
                 PROVE  /\ Status(e) # "pending" =>
                             Status(e)' = Status(e) /\ accrued'[e] = accrued[e]
                        /\ attempts[e] \subseteq attempts'[e]
      OBVIOUS
    <2>1. CASE [Next]_vars BY <2>1, SettledStep DEF PricedInv
    <2>2. CASE ~[Next]_vars
      <3>1. UNCHANGED <<events, accrued, attempts>>
        BY <2>2, BesideIsStill DEF PricingNext, PricedInv
      <3> QED BY <3>1 DEF Status
    <2> QED BY <2>1, <2>2
  <1> QED BY <1>1, PricedInvInductive, PTL DEF PricingSpec, SettlementIsFinal

\* The lane keeps its promise to whoever owes a payment beside those who owe none.
THEOREM PricedLaneKeepsThePromise == PricingSpec => KeepsThePromise
  <1>1. PricedInv /\ [PricingNext]_vars => [Promise!PNext]_(Promise!pvars)
    BY PromiseNext, BesideIsStill DEF PricedInv, PricingNext
  <1> QED BY <1>1, PromiseInit, PricedInvInductive, PTL
          DEF PricingSpec, KeepsThePromise, Promise!PSpec

\* What remains of the claim that SweepSparesEvidence finds broken: evidence under
\* review is only ever swept away with another submission of the same team, so a
\* competition whose teams submit once, and every individual, is spared.
THEOREM SweepSparesSoleSubmissions ==
  (\A e \in Entries : Group(e) = {e}) => (PricingSpec => SweepSparesEvidence)
  <1> SUFFICES ASSUME \A e \in Entries : Group(e) = {e}
               PROVE  PricingSpec => SweepSparesEvidence
    OBVIOUS
  <1>1. PricedInv /\ [PricingNext]_vars =>
          [\A w \in Sweepers : ExpireCommit(w) =>
             \A r \in Confirmed(Rows) :
               row'[r] = "cancelled" => proof[r[1]].status # "pending_review"]_vars
    <2> SUFFICES ASSUME PricedInv, NEW w \in Sweepers, ExpireCommit(w),
                        NEW r \in Confirmed(Rows), row'[r] = "cancelled"
                 PROVE  proof[r[1]].status # "pending_review"
      OBVIOUS
    <2>1. TypeOK /\ LockedReadsStable BY DEF PricedInv, IInv
    <2>2. tx[w].op = "expire" /\ tx[w].e \in Entries /\ w \in Workers
      BY <2>1, OnAnEntry DEF ExpireCommit, EntryOps, LockingOps, Workers
    <2>3. r \in ExpiredRows(tx[w].e)
      BY DEF ExpireCommit, CancelRows, Confirmed
    <2>4. r[1] = tx[w].e BY <2>2, <2>3 DEF ExpiredRows, RowsOf
    <2> QED BY <2>1, <2>2, <2>4 DEF LockedReadsStable
  <1> QED BY <1>1, PricedInvInductive, PTL DEF PricingSpec, SweepSparesEvidence

\* What UnpublishSparesEvidence would need of the code: an upload or a resubmission
\* that waits for the unpublish under way, as its registration has waited.
UploadsWaitForUnpublish ==
  [][\A v, w \in Workers :
       SubmitCommit(w) \/ ReopenCommit(w) => tx[v].op # "unpublish"]_vars

\* What an unpublish read under the participation lock, as long as that is so.
UnpublishReadsStay ==
  \A v \in Workers : tx[v].op = "unpublish" => ~HasCompetitionPaymentInFlight

\* Money comes in flight only through an upload or a resubmission.
LEMMA MoneyTakesOff ==
  ASSUME PricedInv, [PricingNext]_vars, HasCompetitionPaymentInFlight',
         ~HasCompetitionPaymentInFlight
  PROVE  \E w \in Workers : SubmitCommit(w) \/ ReopenCommit(w)
  <1> TypeOK BY DEF PricedInv, IInv
  <1> PICK e \in Entries : proof'[e].status \in {"pending_review", "verified"}
    BY DEF HasCompetitionPaymentInFlight
  <1>1. proof[e].status \notin {"pending_review", "verified"}
    BY DEF HasCompetitionPaymentInFlight
  <1>2. [Next]_vars
    <2>1. proof' # proof BY <1>1
    <2> QED BY <2>1, BesideEffects DEF PricingNext, PricedInv, IInv, lane
  <1>3. ASSUME VerdictStep PROVE FALSE
    <2> PICK f \in Entries : \/ \E allowed \in BOOLEAN : RejectManualPaymentProof(f, allowed)
                            \/ VoidManualPaymentProof(f)
      BY <1>3 DEF VerdictStep
    <2>1. proof'[e] = proof[e] \/ proof'[e].status \in {"rejected", "voided"}
      BY DEF RejectManualPaymentProof, VoidManualPaymentProof, TypeOK, Proofs
    <2> QED BY <1>1, <2>1
  <1>4. ASSUME NEW w \in Workers, VerifyCommit(w) \/ ExpireCommit(w) PROVE FALSE
    <2>1. proof'[e] = proof[e] \/ proof[e].status = "pending_review"
      BY <1>4 DEF VerifyCommit, ExpireCommit, TypeOK
    <2> QED BY <1>1, <2>1
  <1> QED BY <1>1, <1>2, <1>3, <1>4, LedgerEffects

\* The guard of an unpublish lacks exactly that: with uploads that wait for it, what
\* UnpublishSparesEvidence finds broken would be kept, whatever else runs beside it.
THEOREM WaitingUploadsSpareEvidence ==
  PricingSpec /\ UploadsWaitForUnpublish => UnpublishSparesEvidence
  <1> DEFINE Waits == \A v, w \in Workers :
               SubmitCommit(w) \/ ReopenCommit(w) => tx[v].op # "unpublish"
             Spares == \A w \in Requests :
               UnpublishCommit(w) => ~HasCompetitionPaymentInFlight
  <1>1. Init => UnpublishReadsStay
    <2>1. Idle.op = "idle" BY DEF Idle
    <2> QED BY <2>1 DEF Init, UnpublishReadsStay
  <1>2. UnpublishReadsStay /\ PricedInv /\ [PricingNext]_vars /\ [Waits]_vars
          => UnpublishReadsStay'
    <2> SUFFICES ASSUME UnpublishReadsStay, PricedInv, [PricingNext]_vars, [Waits]_vars,
                        NEW v \in Workers, tx'[v].op = "unpublish",
                        HasCompetitionPaymentInFlight'
                 PROVE  FALSE
      BY DEF UnpublishReadsStay
    <2>1. TypeOK /\ PricingLocksHeld BY DEF PricedInv, PricingInv
    <2>2. tx[v].op = "unpublish" \/ (UnpublishCheck(v) /\ ~UNCHANGED vars)
      <3>1. CASE Next BY <2>1, <3>1, ParticipationEffects DEF ParticipationOps, vars
      <3>2. CASE UNCHANGED vars BY <3>2 DEF vars
      <3>3. ASSUME NEW w \in Requests,
                   \/ RegisterFree(w) \/ SetFeeCommit(w)
                   \/ \E charge \in BOOLEAN : SetFeeLock(w, charge)
            PROVE  tx[v].op = "unpublish"
        <4> PICK t \in TxTypes : tx' = [tx EXCEPT ![w] = t] /\ t.op # "unpublish"
          BY <2>1, <3>3, BesideEffects DEF PricedInv, IInv
        <4> QED BY <2>1 DEF TypeOK
      <3> QED BY <3>1, <3>2, <3>3 DEF PricingNext
    <2>3. CASE UnpublishCheck(v)
      BY <2>3 DEF UnpublishCheck, HasCompetitionPaymentInFlight, lane
    <2>4. CASE tx[v].op = "unpublish"
      <3>1. ~HasCompetitionPaymentInFlight BY <2>4 DEF UnpublishReadsStay
      <3>2. PICK w \in Workers : SubmitCommit(w) \/ ReopenCommit(w)
        BY <3>1, MoneyTakesOff
      <3>3. ~UNCHANGED vars
        BY <3>1 DEF vars, HasCompetitionPaymentInFlight
      <3> QED BY <2>4, <3>2, <3>3
    <2> QED BY <2>2, <2>3, <2>4
  <1>3. UnpublishReadsStay /\ PricedInv /\ [PricingNext]_vars => [Spares]_vars
    BY DEF UnpublishReadsStay, UnpublishCommit, Workers
  <1> QED BY <1>1, <1>2, <1>3, PricedInvInductive, PTL
          DEF PricingSpec, UploadsWaitForUnpublish, UnpublishSparesEvidence

\* competition-fee-service.ts: a price is never attached to somebody who agreed
\* to none, for any number of requests, teams, submissions and sweeps.
THEOREM FreeEntrantsStayFree == PricingSpec => []FreeStaysFree
  <1>1. PricingInv => FreeStaysFree BY DEF PricingInv
  <1> QED BY PricingInvInit, PricingInvNext, <1>1, PTL DEF PricingSpec

-----------------------------------------------------------------------------
(* The lane as a writer of the books                                       *)

LEMMA KeysTellCallsApart ==
  ASSUME NEW e, NEW f, NEW s, NEW t
  PROVE  /\ PostedOf(e, s).key = PostedOf(f, t).key => e = f /\ s = t
         /\ PostedOf(e, s).payment = e
         /\ PostedOf(e, s).verdict <=> s = "succeeded"
  BY DEF PostedOf

\* What the books hold of the lane is the types of its events, entry by entry.
LEMMA Posted ==
  ASSUME TypeOK, NEW e \in Entries, NEW s \in {"succeeded", "expired"}
  PROVE  PostedOf(e, s) \in postedOf <=> \E v \in events[e] : v.type = s
  <1>1. PostedOf(e, s) \in LaneCalls BY DEF LaneCalls
  <1>2. PostedOf(e, s).payment = e BY KeysTellCallsApart
  <1>3. \A v : PostedOf(e, s) = PostedOf(e, v.type) => s = v.type BY KeysTellCallsApart
  <1> QED BY <1>1, <1>2, <1>3 DEF postedOf

LEMMA PostedAreCalls ==
  ASSUME NEW c \in postedOf
  PROVE  \E e \in Entries, s \in {"succeeded", "expired"} : c = PostedOf(e, s)
  BY DEF postedOf, LaneCalls

\* An event added to one ledger is one call posted.
LEMMA OneIsPosted ==
  ASSUME TypeOK, TypeOK', NEW e \in Entries, NEW type \in {"succeeded", "expired"},
         NEW v, v.type = type, events' = [events EXCEPT ![e] = @ \cup {v}]
  PROVE  postedOf' = postedOf \cup {PostedOf(e, type)}
  <1> DEFINE new == PostedOf(e, type)
  <1>1. /\ events'[e] = events[e] \cup {v}
        /\ \A f \in Entries : f # e => events'[f] = events[f]
    BY DEF TypeOK
  <1>2. LaneCalls' = LaneCalls /\ \A f, s : PostedOf(f, s)' = PostedOf(f, s)
    BY DEF LaneCalls, PostedOf
  <1>3. ASSUME NEW f \in Entries, NEW s \in {"succeeded", "expired"}
        PROVE  PostedOf(f, s) \in postedOf' <=>
                 PostedOf(f, s) \in postedOf \/ PostedOf(f, s) = new
    <2>1. PostedOf(f, s) \in postedOf' <=> \E u \in events'[f] : u.type = s
      <3>1. PostedOf(f, s) \in LaneCalls BY DEF LaneCalls
      <3>2. PostedOf(f, s).payment = f BY KeysTellCallsApart
      <3>3. \A u : PostedOf(f, s) = PostedOf(f, u.type) => s = u.type BY KeysTellCallsApart
      <3> QED BY <1>2, <3>1, <3>2, <3>3 DEF postedOf
    <2>2. PostedOf(f, s) \in postedOf <=> \E u \in events[f] : u.type = s BY Posted
    <2>3. PostedOf(f, s) = new <=> f = e /\ s = type BY KeysTellCallsApart
    <2> QED BY <1>1, <2>1, <2>2, <2>3
  <1>4. new \in LaneCalls BY DEF LaneCalls
  <1>5. postedOf \subseteq LaneCalls /\ postedOf' \subseteq LaneCalls BY <1>2 DEF postedOf
  <1>6. ASSUME NEW c \in LaneCalls PROVE c \in postedOf' <=> c \in postedOf \cup {new}
    <2> PICK f \in Entries, s \in {"succeeded", "expired"} : c = PostedOf(f, s)
      BY DEF LaneCalls
    <2> QED BY <1>3
  <1> QED BY <1>4, <1>5, <1>6

LEMMA OneFeeIsOwed ==
  ASSUME TypeOK, NEW e \in Entries, accrued[e] = 0, accrued' = [accrued EXCEPT ![e] = 1]
  PROVE  owedOf' = [owedOf EXCEPT ![e] = <<1>>]
  <1>1. accrued'[e] = 1 /\ \A f \in Entries : f # e => accrued'[f] = accrued[f] BY DEF TypeOK
  <1>2. [n \in 1 .. 1 |-> 1] = <<1>> OBVIOUS
  <1>3. owedOf'[e] = <<1>> BY <1>1, <1>2 DEF owedOf
  <1>4. \A f \in Entries : f # e => owedOf'[f] = owedOf[f] BY <1>1 DEF owedOf
  <1>5. /\ owedOf = [f \in Entries |-> owedOf[f]]
        /\ owedOf' = [f \in Entries |-> owedOf'[f]]
    BY DEF owedOf
  <1> QED BY <1>3, <1>4, <1>5

\* A payment that is pending has nothing in the books, and owes nothing.
LEMMA PendingOwesNothing ==
  ASSUME IInv, NEW e \in Entries, Status(e) = "pending"
  PROVE  /\ accrued[e] = 0 /\ owedOf[e] = <<>>
         /\ \A s : Book!Fresh(PostedOf(e, s))
  <1> TypeOK BY DEF IInv
  <1>1. \A v \in events[e] : v.type \notin {"succeeded", "expired"} BY DEF Status
  <1>2. accrued[e] = 0 BY DEF IInv, LedgersAgree
  <1>3. owedOf[e] = <<>> BY <1>2 DEF owedOf
  <1>4. ASSUME NEW s, NEW c \in postedOf, c.key = PostedOf(e, s).key PROVE FALSE
    <2> PICK f \in Entries, t \in {"succeeded", "expired"} : c = PostedOf(f, t)
      BY PostedAreCalls
    <2>1. f = e BY <1>4, KeysTellCallsApart
    <2> QED BY <1>1, <1>4, <2>1, Posted
  <1> QED BY <1>2, <1>3, <1>4 DEF Book!Fresh

LEMMA VerdictIsPosted ==
  ASSUME IInv, TypeOK', NEW w \in Workers, VerifyCommit(w)
  PROVE  Book!BNext
  <1> DEFINE e == tx[w].e  v == Succeeded(proof[e].count)  c == PostedOf(e, "succeeded")
  <1> TypeOK BY DEF IInv
  <1>1. e \in Entries BY CommitLeaves
  <1>2. due[e] # 0 /\ Status(e) = "pending"
    BY DEF IInv, LockedReadsStable, LaneOpen, VerifyCommit
  <1>3. accrued[e] = 0 /\ owedOf[e] = <<>> /\ Book!Fresh(c) BY <1>1, <1>2, PendingOwesNothing
  <1>4. c \in LaneCalls BY <1>1 DEF LaneCalls
  <1>5. postedOf' = postedOf \cup {c}
    <2>1. v.type = "succeeded" BY DEF Succeeded
    <2>2. events' = [events EXCEPT ![e] = @ \cup {v}] BY DEF VerifyCommit
    <2> HIDE DEF v, e
    <2> QED BY <1>1, <2>1, <2>2, OneIsPosted
  <1>6. owedOf' = [owedOf EXCEPT ![e] = <<1>>]
    <2>1. accrued' = [accrued EXCEPT ![e] = 1] BY <1>1, <1>3 DEF VerifyCommit, TypeOK
    <2> QED BY <1>1, <1>3, <2>1, OneFeeIsOwed
  <1>7. pricedOf' = pricedOf /\ pricedOf[e] # 0
    BY <1>1, <1>2 DEF VerifyCommit, pricedOf
  <1>8. c.payment = e /\ c.verdict BY KeysTellCallsApart
  <1>9. Book!Charge(c) BY <1>3, <1>6, <1>8 DEF Book!Charge, OneFee
  <1>10. Book!Post(c) BY <1>3, <1>5, <1>7, <1>8, <1>9 DEF Book!Post
  <1> QED BY <1>4, <1>10 DEF Book!BNext

LEMMA ExpiryIsPosted ==
  ASSUME IInv, TypeOK', NEW w \in Workers, ExpireCommit(w)
  PROVE  Book!BNext
  <1> DEFINE e == tx[w].e  c == PostedOf(e, "expired")
  <1> TypeOK BY DEF IInv
  <1>1. e \in Entries BY CommitLeaves
  <1>2. due[e] # 0 /\ Status(e) = "pending"
    BY DEF IInv, LockedReadsStable, SweepCarriesOverdue, Overdue, ExpireCommit
  <1>3. Book!Fresh(c) BY <1>1, <1>2, PendingOwesNothing
  <1>4. c \in LaneCalls BY <1>1 DEF LaneCalls
  <1>5. postedOf' = postedOf \cup {c}
    <2>1. Expired.type = "expired" BY DEF Expired
    <2>2. events' = [events EXCEPT ![e] = @ \cup {Expired}] BY DEF ExpireCommit
    <2> HIDE DEF e
    <2> QED BY <1>1, <2>1, <2>2, OneIsPosted
  <1>6. owedOf' = owedOf BY DEF ExpireCommit, owedOf
  <1>7. pricedOf' = pricedOf /\ pricedOf[e] # 0
    BY <1>1, <1>2 DEF ExpireCommit, pricedOf
  <1>8. c.payment = e /\ ~c.verdict
    <2>1. "expired" # "succeeded" OBVIOUS
    <2> QED BY <2>1, KeysTellCallsApart
  <1>9. Book!Charge(c) BY <1>6, <1>8 DEF Book!Charge
  <1>10. Book!Post(c) BY <1>3, <1>5, <1>7, <1>8, <1>9 DEF Book!Post
  <1> QED BY <1>4, <1>10 DEF Book!BNext

LEMMA RegistrationIsPriced ==
  ASSUME IInv, NEW w \in Workers, RegisterCommit(w)
  PROVE  Book!BNext
  <1> DEFINE e == tx[w].e
  <1> TypeOK BY DEF IInv
  <1>1. e \in Entries /\ due[e] = 0
    BY OnAnEntry DEF RegisterCommit, InsertRegistration, EntryOps, IInv, OneRequestRegisters
  <1>2. DueAt # 0 BY DueAtIsADate DEF TypeOK
  <1>3. due' = [due EXCEPT ![e] = DueAt] /\ UNCHANGED <<events, accrued>>
    BY DEF RegisterCommit, InsertRegistration
  <1>4. due'[e] = DueAt /\ \A f \in Entries : f # e => due'[f] = due[f]
    BY <1>1, <1>3 DEF TypeOK
  <1>5. pricedOf' = [pricedOf EXCEPT ![e] = 1]
    <2>1. pricedOf'[e] = 1 BY <1>1, <1>2, <1>4 DEF pricedOf
    <2>2. \A f \in Entries : f # e => pricedOf'[f] = pricedOf[f] BY <1>4 DEF pricedOf
    <2>3. /\ pricedOf = [f \in Entries |-> pricedOf[f]]
          /\ pricedOf' = [f \in Entries |-> pricedOf'[f]]
      BY DEF pricedOf
    <2> HIDE DEF e
    <2> QED BY <1>1, <2>1, <2>2, <2>3
  <1>6. pricedOf[e] = 0 BY <1>1 DEF pricedOf
  <1>7. UNCHANGED <<postedOf, owedOf>> BY <1>3 DEF postedOf, owedOf, LaneCalls, PostedOf
  <1>8. Book!Price(e, 1) BY <1>5, <1>6, <1>7 DEF Book!Price
  <1> QED BY <1>1, <1>8 DEF Book!BNext

LEMMA StillBooks ==
  ASSUME UNCHANGED <<due, events, accrued>>
  PROVE  UNCHANGED Book!bvars
  BY DEF Book!bvars, pricedOf, postedOf, owedOf, LaneCalls, PostedOf

LEMMA BookNext == IInv /\ [Next]_vars => [Book!BNext]_(Book!bvars)
  <1> SUFFICES ASSUME IInv, [Next]_vars PROVE [Book!BNext]_(Book!bvars) OBVIOUS
  <1> TypeOK /\ TypeOK' BY TypeNext DEF IInv
  <1>1. CASE \E w \in Workers : VerifyCommit(w) BY <1>1, VerdictIsPosted
  <1>2. CASE \E w \in Workers : ExpireCommit(w) BY <1>2, ExpiryIsPosted
  <1>3. CASE \E w \in Workers : RegisterCommit(w) BY <1>3, RegistrationIsPriced
  <1>4. ASSUME ~(\E w \in Workers : VerifyCommit(w)), ~(\E w \in Workers : ExpireCommit(w))
        PROVE  UNCHANGED <<events, accrued>>
    <2>1. ASSUME NEW w \in Workers, SubmitCommit(w) \/ ReopenCommit(w)
          PROVE  UNCHANGED <<events, accrued>>
      BY <2>1 DEF SubmitCommit, ReopenCommit
    <2>2. CASE VerdictStep
      BY <2>2 DEF VerdictStep, RejectManualPaymentProof, VoidManualPaymentProof
    <2> QED BY <1>4, <2>1, <2>2, LedgerEffects
  <1>5. ASSUME ~(\E w \in Workers : RegisterCommit(w)) PROVE due' = due
    BY <1>5, RowEffects
  <1> QED BY <1>1, <1>2, <1>3, <1>4, <1>5, StillBooks

\* createPayment, verifyManualPaymentProof and expireOnePayment, with every
\* interleaving of requests, sweeps and price changes, write to the books what
\* PaymentBook lets one caller at a time write: a payment once, each event once, a
\* success with its only fee.  PaymentLedger implements the same book for any callers.
THEOREM PricedLaneKeepsTheBook == PricingSpec => KeepsTheBook
  <1>1. Init => Book!BInit
    BY DEF Init, Book!BInit, pricedOf, postedOf, owedOf, LaneCalls, PostedOf
  <1>2. ASSUME IInv, NEW w \in Requests,
               \/ RegisterFree(w) \/ SetFeeCommit(w)
               \/ \E charge \in BOOLEAN : SetFeeLock(w, charge)
        PROVE  UNCHANGED Book!bvars
    BY <1>2, BesideIsStill, StillBooks
  <1>3. PricedInv /\ [PricingNext]_vars => [Book!BNext]_(Book!bvars)
    BY <1>2, BookNext DEF PricedInv, PricingNext
  <1> QED BY <1>1, <1>3, PricedInvInductive, PTL
          DEF PricingSpec, KeepsTheBook, Book!BSpec

=============================================================================
