---------------------- MODULE ManualPaymentLane_proofs ----------------------
(***************************************************************************)
(* Theorems about the manual payment lane, for every set of entries, teams *)
(* and workers, every clock bound and every configuration of the dates.    *)
(***************************************************************************)
EXTENDS ManualPaymentLane, TLAPS

-----------------------------------------------------------------------------
(* Lemmas about the helpers                                                *)

\* The anchor row of an entry is one of its rows, and belongs to no other entry.
LEMMA AnchorIsARow ==
  /\ \A e \in Entries : Anchor(e) \in Rows /\ Anchor(e) \in RowsOf({e})
  /\ \A e, f \in Entries : Anchor(e) = Anchor(f) => e = f
  BY EntriesAssumption DEF Anchor, Rows, RowsOf

\* A due date computed from a real clock is never the "no payment" value.
LEMMA DueAtIsADate == ASSUME now \in Nat PROVE DueAt \in Nat \ {0}
  BY TimesAssumption DEF DueAt

\* Cancelling rows keeps the row table a row table, and only confirmed rows move.
LEMMA CancelRowsTypes ==
  ASSUME NEW R, CancelRows(R), row \in [Rows -> {"absent", "confirmed", "cancelled"}]
  PROVE  row' \in [Rows -> {"absent", "confirmed", "cancelled"}]
  BY DEF CancelRows

\* What a worker may be doing after it ends, or after it takes the next payment.
LEMMA IdleTypes ==
  /\ Idle \in TxTypes
  /\ \A T \in SUBSET Entries : Sweeping(T) \in TxTypes
  /\ \A T \in SUBSET Entries, e \in Entries : Expiring(T, e) \in TxTypes
  /\ \A o \in Ops, e \in Entries : On(o, e) \in TxTypes
  BY DEF Idle, TxTypes, Sweeping, Expiring, On, Ops, ParticipationOps, EntryOps, LockingOps

LEMMA EndTypes ==
  ASSUME NEW w \in Workers, tx \in [Workers -> TxTypes], End(w)
  PROVE  tx' \in [Workers -> TxTypes]
  BY IdleTypes DEF End

LEMMA ReleaseTypes ==
  ASSUME NEW w \in Workers, rowLock \in [Entries -> Workers \cup {NoWorker}], Release(w)
  PROVE  rowLock' \in [Entries -> Workers \cup {NoWorker}]
  BY DEF Release

\* The two appends keep their tables well typed.
LEMMA AttemptTypes ==
  ASSUME attempts \in [Entries -> SUBSET Attempts], NEW e \in Entries, NEW n \in Nat,
         NEW verdict \in {"verified", "rejected", "voided"},
         RecordProofAttempt(e, n, verdict)
  PROVE  attempts' \in [Entries -> SUBSET Attempts]
  <1>1. [n |-> n, verdict |-> verdict] \in Attempts BY DEF Attempts
  <1>2. PICK a \in Attempts : attempts' = [attempts EXCEPT ![e] = @ \cup {a}]
    BY <1>1 DEF RecordProofAttempt
  <1>3. attempts[e] \cup {a} \in SUBSET Attempts BY <1>2
  <1> QED BY <1>2, <1>3

LEMMA EventTypes ==
  ASSUME events \in [Entries -> SUBSET EventRows], NEW e \in Entries,
         NEW v \in EventRows, events' = [events EXCEPT ![e] = @ \cup {v}]
  PROVE  events' \in [Entries -> SUBSET EventRows]
  <1>1. events[e] \cup {v} \in SUBSET EventRows OBVIOUS
  <1> QED BY <1>1

\* A proof that moves to another status, with another count, is still a proof.
LEMMA ProofTypes ==
  ASSUME proof \in [Entries -> Proofs], NEW e \in Entries, NEW n \in Nat,
         NEW s \in {"pending_review", "verified", "rejected", "voided"},
         \/ proof' = [proof EXCEPT ![e].status = s, ![e].count = n]
         \/ proof' = [proof EXCEPT ![e].status = s]
         \/ \E b \in BOOLEAN : proof' = [proof EXCEPT ![e].status = s, ![e].allowed = b]
  PROVE  /\ proof' \in [Entries -> Proofs]
         /\ proof'[e].status = s
         /\ \A f \in Entries : f # e => proof'[f] = proof[f]
  <1>1. PICK k \in Nat, b \in BOOLEAN :
          proof' = [proof EXCEPT ![e] = [status |-> s, count |-> k, allowed |-> b]]
    <2>1. proof[e].count \in Nat /\ proof[e].allowed \in BOOLEAN BY DEF Proofs
    <2>2. proof[e] = [status |-> proof[e].status, count |-> proof[e].count,
                      allowed |-> proof[e].allowed]
      BY DEF Proofs
    <2> QED BY <2>1, <2>2
  <1>2. [status |-> s, count |-> k, allowed |-> b] \in Proofs BY DEF Proofs
  <1> QED BY <1>1, <1>2

-----------------------------------------------------------------------------
(* Type correctness                                                        *)

LEMMA TypeInit == Init => TypeOK
  BY IdleTypes DEF Init, TypeOK, NoProof, Proofs, Workers

LEMMA TypeRegister ==
  ASSUME TypeOK, NEW w \in Workers,
         (\E e \in Entries : RegisterCheck(w, e)) \/ RegisterCommit(w)
  PROVE  TypeOK'
  <1>1. CASE \E e \in Entries : RegisterCheck(w, e)
    <2> PICK e \in Entries : RegisterCheck(w, e) BY <1>1
    <2>1. On("register", e) \in TxTypes BY IdleTypes DEF Ops, EntryOps
    <2> QED BY <2>1 DEF TypeOK, RegisterCheck, Begin, lane, locks
  <1>2. CASE RegisterCommit(w)
    <2>1. DueAt \in Nat BY DueAtIsADate DEF TypeOK
    <2>2. tx' \in [Workers -> TxTypes] BY <1>2, EndTypes DEF TypeOK, RegisterCommit, InsertRegistration
    <2> QED BY <1>2, <2>1, <2>2 DEF TypeOK, RegisterCommit, InsertRegistration, lane, locks
  <1> QED BY <1>1, <1>2

LEMMA TypeCancel ==
  ASSUME TypeOK, NEW w \in Workers,
         \/ \E e \in Entries, m \in Students : CancelRowCheck(w, e, m)
         \/ \E e \in Entries : CancelTeamCheck(w, e)
         \/ CancelRowCommit(w) \/ CancelTeamCommit(w)
  PROVE  TypeOK'
  <1>1. CASE \E e \in Entries, m \in Students : CancelRowCheck(w, e, m)
    <2> PICK e \in Entries, m \in Students : CancelRowCheck(w, e, m) BY <1>1
    <2>1. [On("cancelRow", e) EXCEPT !.m = m] \in TxTypes
      BY IdleTypes DEF TxTypes, On, Idle, Ops, ParticipationOps, EntryOps, LockingOps
    <2> QED BY <2>1 DEF TypeOK, CancelRowCheck, Begin, lane, locks
  <1>2. CASE \E e \in Entries : CancelTeamCheck(w, e)
    <2> PICK e \in Entries : CancelTeamCheck(w, e) BY <1>2
    <2>1. On("cancelTeam", e) \in TxTypes BY IdleTypes DEF Ops, EntryOps
    <2> QED BY <2>1 DEF TypeOK, CancelTeamCheck, Begin, lane, locks
  <1>3. CASE CancelRowCommit(w)
    <2>1. tx' \in [Workers -> TxTypes] BY <1>3, EndTypes DEF TypeOK, CancelRowCommit
    <2> QED BY <1>3, <2>1, CancelRowsTypes DEF TypeOK, CancelRowCommit, lane, locks
  <1>4. CASE CancelTeamCommit(w)
    <2>1. tx' \in [Workers -> TxTypes] BY <1>4, EndTypes DEF TypeOK, CancelTeamCommit
    <2> QED BY <1>4, <2>1, CancelRowsTypes DEF TypeOK, CancelTeamCommit, lane, locks
  <1> QED BY <1>1, <1>2, <1>3, <1>4

\* A worker on an operation that names an entry names a real one.
LEMMA OnAnEntry ==
  ASSUME TypeOK, NEW w \in Workers, tx[w].op \in EntryOps
  PROVE  tx[w].e \in Entries
  BY DEF TypeOK, TxTypes

LEMMA TypeLaneOpen ==
  ASSUME TypeOK, NEW w \in Workers, NEW e \in Entries, NEW o \in Ops,
         RequireOpenManualLane(w, e, o)
  PROVE  TypeOK'
  <1>1. On(o, e) \in TxTypes BY IdleTypes
  <1> QED BY <1>1 DEF TypeOK, RequireOpenManualLane, LockAnchor, Begin, lane

LEMMA TypeProof ==
  ASSUME TypeOK, NEW w \in Workers,
         \/ \E e \in Entries : SubmitLock(w, e) \/ VerifyLock(w, e) \/ ReopenLock(w, e)
         \/ SubmitCommit(w) \/ VerifyCommit(w) \/ ReopenCommit(w)
  PROVE  TypeOK'
  <1>1. CASE \E e \in Entries : SubmitLock(w, e) \/ VerifyLock(w, e) \/ ReopenLock(w, e)
    BY <1>1, TypeLaneOpen DEF SubmitLock, VerifyLock, ReopenLock, Ops, EntryOps, LockingOps
  <1> DEFINE e == tx[w].e
  <1>2. ASSUME tx[w].op \in LockingOps PROVE e \in Entries
    BY <1>2, OnAnEntry DEF EntryOps
  <1>3. ASSUME End(w), Release(w)
        PROVE  /\ tx' \in [Workers -> TxTypes]
               /\ rowLock' \in [Entries -> Workers \cup {NoWorker}]
    BY <1>3, EndTypes, ReleaseTypes DEF TypeOK
  <1>4. CASE SubmitCommit(w)
    <2>1. e \in Entries BY <1>2, <1>4 DEF SubmitCommit, LockingOps
    <2>2. proof' \in [Entries -> Proofs]
      BY <1>4, <2>1, ProofTypes, 0 \in Nat DEF TypeOK, SubmitCommit
    <2> QED BY <1>3, <1>4, <2>2 DEF TypeOK, SubmitCommit
  <1>5. CASE VerifyCommit(w)
    <2>1. e \in Entries BY <1>2, <1>5 DEF VerifyCommit, LockingOps
    <2>2. proof[e].count \in Nat BY <2>1 DEF TypeOK, Proofs
    <2>3. attempts' \in [Entries -> SUBSET Attempts]
      BY <1>5, <2>1, <2>2, AttemptTypes DEF TypeOK, VerifyCommit
    <2>4. Succeeded(proof[e].count) \in EventRows BY <2>2 DEF Succeeded, EventRows
    <2>5. events' \in [Entries -> SUBSET EventRows]
      BY <1>5, <2>1, <2>4, EventTypes DEF TypeOK, VerifyCommit
    <2>6. accrued' \in [Entries -> Nat] BY <1>5, <2>1 DEF TypeOK, VerifyCommit
    <2>7. proof' \in [Entries -> Proofs]
      BY <1>5, <2>1, <2>2, ProofTypes DEF TypeOK, VerifyCommit
    <2> QED BY <1>3, <1>5, <2>3, <2>5, <2>6, <2>7 DEF TypeOK, VerifyCommit
  <1>6. CASE ReopenCommit(w)
    <2>1. e \in Entries BY <1>2, <1>6 DEF ReopenCommit, LockingOps
    <2>2. proof[e].count + 1 \in Nat BY <2>1 DEF TypeOK, Proofs
    <2>3. proof' \in [Entries -> Proofs]
      BY <1>6, <2>1, <2>2, ProofTypes DEF TypeOK, ReopenCommit
    <2> QED BY <1>3, <1>6, <2>3 DEF TypeOK, ReopenCommit
  <1> QED BY <1>1, <1>4, <1>5, <1>6

LEMMA TypeVerdict ==
  ASSUME TypeOK, VerdictStep
  PROVE  TypeOK'
  <1> PICK e \in Entries : \/ \E allowed \in BOOLEAN : RejectManualPaymentProof(e, allowed)
                          \/ VoidManualPaymentProof(e)
    BY DEF VerdictStep
  <1>1. proof[e].count \in Nat BY DEF TypeOK, Proofs
  <1>2. CASE \E allowed \in BOOLEAN : RejectManualPaymentProof(e, allowed)
    <2> PICK allowed \in BOOLEAN : RejectManualPaymentProof(e, allowed) BY <1>2
    <2>1. attempts' \in [Entries -> SUBSET Attempts]
      BY <1>1, AttemptTypes DEF TypeOK, RejectManualPaymentProof
    <2>2. proof' \in [Entries -> Proofs]
      BY <1>1, ProofTypes DEF TypeOK, RejectManualPaymentProof
    <2> QED BY <2>1, <2>2 DEF TypeOK, RejectManualPaymentProof, locks
  <1>3. CASE VoidManualPaymentProof(e)
    <2>1. VoidAttempt(e) \in Nat BY <1>1 DEF VoidAttempt
    <2>2. attempts' \in [Entries -> SUBSET Attempts]
      BY <1>3, <2>1, AttemptTypes DEF TypeOK, VoidManualPaymentProof
    <2>3. proof' \in [Entries -> Proofs]
      BY <1>3, <2>1, ProofTypes DEF TypeOK, VoidManualPaymentProof
    <2> QED BY <1>3, <2>2, <2>3 DEF TypeOK, VoidManualPaymentProof, locks
  <1> QED BY <1>2, <1>3

LEMMA TypeSweep ==
  ASSUME TypeOK, NEW w \in Sweepers, SweeperStep(w)
  PROVE  TypeOK'
  <1> w \in Workers BY DEF Workers
  <1>1. \A T \in SUBSET Entries : [tx EXCEPT ![w] = Sweeping(T)] \in [Workers -> TxTypes]
    BY IdleTypes DEF TypeOK
  <1>2. tx[w].todo \in SUBSET Entries BY DEF TypeOK, TxTypes
  <1>3. CASE SweepSelect(w)
    <2>1. tx' \in [Workers -> TxTypes] BY <1>1, <1>3 DEF SweepSelect, Begin
    <2> QED BY <1>3, <2>1 DEF TypeOK, SweepSelect, lane, locks
  <1>4. CASE \E e \in Entries : ExpireDecline(w, e)
    <2>1. tx' \in [Workers -> TxTypes] BY <1>1, <1>2, <1>4 DEF ExpireDecline
    <2> QED BY <1>4, <2>1 DEF TypeOK, ExpireDecline, lane, locks
  <1>5. CASE \E e \in Entries : ExpireLock(w, e)
    <2> PICK e \in Entries : ExpireLock(w, e) BY <1>5
    <2>1. tx' \in [Workers -> TxTypes] BY <1>2, IdleTypes DEF ExpireLock, TypeOK
    <2> QED BY <2>1 DEF TypeOK, ExpireLock, LockAnchor, lane
  <1>6. CASE ExpireCommit(w)
    <2>1. tx' \in [Workers -> TxTypes] BY <1>1, <1>2, <1>6 DEF ExpireCommit
    <2>2. rowLock' \in [Entries -> Workers \cup {NoWorker}]
      BY <1>6, ReleaseTypes DEF TypeOK, ExpireCommit
    <2>3. row' \in [Rows -> {"absent", "confirmed", "cancelled"}]
      BY <1>6, CancelRowsTypes DEF TypeOK, ExpireCommit
    <2>4. events' \in [Entries -> SUBSET EventRows]
      <3>1. tx[w].e \in Entries BY <1>6, OnAnEntry DEF ExpireCommit, EntryOps, LockingOps
      <3>2. Expired \in EventRows BY DEF Expired, EventRows
      <3> QED BY <1>6, <3>1, <3>2, EventTypes DEF TypeOK, ExpireCommit
    <2> QED BY <1>6, <2>1, <2>2, <2>3, <2>4 DEF TypeOK, ExpireCommit
  <1> QED BY <1>3, <1>4, <1>5, <1>6 DEF SweeperStep

LEMMA TypeCompetition ==
  ASSUME TypeOK,
         \/ CompetitionStep
         \/ \E w \in Workers : UnpublishCheck(w) \/ UnpublishCommit(w)
  PROVE  TypeOK'
  <1>1. CASE CancelCompetitionAsOps
    BY <1>1, CancelRowsTypes DEF TypeOK, CancelCompetitionAsOps, lane, locks
  <1>2. CASE CancelForInsufficientParticipation
    BY <1>2, CancelRowsTypes DEF TypeOK, CancelForInsufficientParticipation, lane, locks
  <1>3. CASE Publish
    BY <1>3 DEF TypeOK, Publish, lane, locks
  <1>4. ASSUME NEW w \in Workers, UnpublishCheck(w) PROVE TypeOK'
    <2>1. [Idle EXCEPT !.op = "unpublish"] \in TxTypes
      BY IdleTypes DEF TxTypes, On, Idle, Ops, ParticipationOps, EntryOps, LockingOps
    <2> QED BY <1>4, <2>1 DEF TypeOK, UnpublishCheck, Begin, lane
  <1>5. ASSUME NEW w \in Workers, UnpublishCommit(w) PROVE TypeOK'
    <2>1. tx' \in [Workers -> TxTypes] BY <1>5, EndTypes DEF TypeOK, UnpublishCommit
    <2> QED BY <1>5, <2>1, CancelRowsTypes DEF TypeOK, UnpublishCommit, lane
  <1> QED BY <1>1, <1>2, <1>3, <1>4, <1>5 DEF CompetitionStep

LEMMA TypeAbort ==
  ASSUME TypeOK, NEW w \in Workers, Abort(w)
  PROVE  TypeOK'
  <1>1. tx' \in [Workers -> TxTypes]
    <2>1. tx[w].todo \ {tx[w].e} \in SUBSET Entries BY DEF TypeOK, TxTypes
    <2> QED BY <2>1, EndTypes, IdleTypes DEF TypeOK, Abort
  <1>2. rowLock' \in [Entries -> Workers \cup {NoWorker}] BY ReleaseTypes DEF TypeOK, Abort
  <1> QED BY <1>1, <1>2 DEF TypeOK, Abort, lane

LEMMA TypeNext == TypeOK /\ [Next]_vars => TypeOK'
  <1> SUFFICES ASSUME TypeOK, [Next]_vars PROVE TypeOK' OBVIOUS
  <1>1. ASSUME NEW w \in Requests, RequestStep(w) PROVE TypeOK'
    <2> w \in Workers BY DEF Workers
    <2> QED BY <1>1, TypeRegister, TypeCancel, TypeProof, TypeCompetition DEF RequestStep
  <1>2. CASE Tick BY <1>2 DEF TypeOK, Tick, lane, locks
  <1>3. CASE UNCHANGED vars BY <1>3 DEF TypeOK, vars
  <1> QED BY <1>1, <1>2, <1>3, TypeSweep, TypeAbort, TypeVerdict, TypeCompetition
          DEF Next

\* Every reachable state of the lane is well typed.
THEOREM TypeCorrect == Spec => []TypeOK
  BY TypeInit, TypeNext, PTL DEF Spec

-----------------------------------------------------------------------------
(* What a step can do to each part of the state                            *)

\* The ledgers move only when a locking transaction commits, or on a verdict.
LEMMA LedgerEffects ==
  ASSUME TypeOK, [Next]_vars
  PROVE  \/ UNCHANGED <<proof, attempts, events, accrued>>
         \/ \E w \in Workers : SubmitCommit(w) \/ VerifyCommit(w) \/ ReopenCommit(w)
                             \/ ExpireCommit(w)
         \/ VerdictStep
  <1>1. ASSUME NEW w \in Requests, RequestStep(w)
        PROVE  \/ UNCHANGED <<proof, attempts, events, accrued>>
               \/ SubmitCommit(w) \/ VerifyCommit(w) \/ ReopenCommit(w)
    BY <1>1 DEF RequestStep, RegisterCheck, RegisterCommit, InsertRegistration, CancelRowCheck, CancelRowCommit,
       CancelTeamCheck, CancelTeamCommit, SubmitLock, VerifyLock, ReopenLock,
       RequireOpenManualLane, UnpublishCheck, UnpublishCommit, lane
  <1>2. ASSUME NEW w \in Sweepers, SweeperStep(w)
        PROVE  UNCHANGED <<proof, attempts, events, accrued>> \/ ExpireCommit(w)
    BY <1>2 DEF SweeperStep, SweepSelect, ExpireDecline, ExpireLock, lane
  <1>3. ASSUME NEW w \in Workers, Abort(w)
        PROVE  UNCHANGED <<proof, attempts, events, accrued>>
    BY <1>3 DEF Abort, lane
  <1>4. CASE CompetitionStep
    BY <1>4 DEF CompetitionStep, CancelCompetitionAsOps, CancelForInsufficientParticipation,
       Publish, lane
  <1>5. CASE Tick BY <1>5 DEF Tick, lane
  <1>6. CASE UNCHANGED vars BY <1>6 DEF vars
  <1> QED BY <1>1, <1>2, <1>3, <1>4, <1>5, <1>6 DEF Next, Workers

\* Rows move only when an entry is registered or confirmed rows are cancelled,
\* and a worker that cancels holds no row lock once it has.
LEMMA RowEffects ==
  ASSUME TypeOK, [Next]_vars
  PROVE  \/ UNCHANGED <<row, due>>
         \/ \E w \in Workers : RegisterCommit(w)
         \/ /\ due' = due
            /\ \E R \in SUBSET Rows, w \in Workers \cup {NoWorker} :
                 /\ CancelRows(R) /\ Updatable(R, w)
                 /\ w \in Workers => tx'[w].op \notin LockingOps
  <1> DEFINE Cancels ==
        /\ due' = due
        /\ \E R \in SUBSET Rows, w \in Workers \cup {NoWorker} :
             /\ CancelRows(R) /\ Updatable(R, w)
             /\ w \in Workers => tx'[w].op \notin LockingOps
  <1>1. \A E : RowsOf(E) \in SUBSET Rows BY DEF RowsOf
  <1>2. \A w \in Workers : End(w) => tx'[w].op \notin LockingOps
    BY DEF TypeOK, End, Idle, LockingOps
  <1>3. ASSUME NEW w \in Workers, CancelRowCommit(w)
        PROVE  UNCHANGED <<row, due>> \/ Cancels
    <2> DEFINE r == <<tx[w].e, tx[w].m>>
    <2>1. CASE r \in Rows
      <3>1. {r} \in SUBSET Rows BY <2>1
      <3> QED BY <1>2, <1>3, <3>1 DEF CancelRowCommit, lane
    <2>2. CASE r \notin Rows
      <3>1. row' = row BY <1>3, <2>2 DEF CancelRowCommit, CancelRows, Confirmed, TypeOK
      <3> QED BY <1>3, <3>1 DEF CancelRowCommit, lane
    <2> QED BY <2>1, <2>2
  <1>4. ASSUME NEW w \in Workers, CancelTeamCommit(w) \/ UnpublishCommit(w) PROVE Cancels
    BY <1>1, <1>2, <1>4 DEF CancelTeamCommit, UnpublishCommit, lane
  <1>5. ASSUME NEW w \in Workers, ExpireCommit(w) PROVE Cancels
    <2>1. ExpiredRows(tx[w].e) \in SUBSET Rows BY <1>1 DEF ExpiredRows
    <2>2. \A T : Sweeping(T).op \notin LockingOps BY DEF Sweeping, Idle, LockingOps
    <2>3. tx'[w].op \notin LockingOps BY <1>5, <2>2 DEF ExpireCommit, TypeOK
    <2> QED BY <1>5, <2>1, <2>3 DEF ExpireCommit
  <1>6. ASSUME CancelCompetitionAsOps \/ CancelForInsufficientParticipation PROVE Cancels
    BY <1>6, ActorsAssumption
       DEF CancelCompetitionAsOps, CancelForInsufficientParticipation, lane
  <1> HIDE DEF Cancels
  <1>7. ASSUME NEW w \in Workers, RequestStep(w)
        PROVE  \/ UNCHANGED <<row, due>>
               \/ RegisterCommit(w) \/ Cancels
    BY <1>3, <1>4, <1>7 DEF RequestStep, RegisterCheck, CancelRowCheck, CancelTeamCheck,
       SubmitLock, VerifyLock, ReopenLock, RequireOpenManualLane, UnpublishCheck,
       SubmitCommit, VerifyCommit, ReopenCommit, lane
  <1>8. ASSUME NEW w \in Workers, SweeperStep(w)
        PROVE  UNCHANGED <<row, due>> \/ Cancels
    BY <1>5, <1>8 DEF SweeperStep, SweepSelect, ExpireDecline, ExpireLock, lane
  <1>9. ASSUME \/ \E w \in Workers : Abort(w)
               \/ VerdictStep \/ Publish \/ Tick \/ UNCHANGED vars
        PROVE  UNCHANGED <<row, due>>
    BY <1>9 DEF Abort, VerdictStep, RejectManualPaymentProof, VoidManualPaymentProof,
       Publish, Tick, lane, vars
  <1>10. UNCHANGED <<row, due>> \/ (\E w \in Workers : RegisterCommit(w)) \/ Cancels
    <2>1. Requests \subseteq Workers /\ Sweepers \subseteq Workers BY DEF Workers
    <2> QED BY <1>6, <1>7, <1>8, <1>9, <2>1 DEF Next, CompetitionStep
  <1> QED BY <1>10 DEF Cancels

\* One worker moves at a time.  It enters a locking transaction only by taking
\* the lock of the entry it names, with the reads made under that lock; a
\* registration only by its check; and a shortlist holds overdue payments.
LEMMA WorkerEffects ==
  ASSUME TypeOK, [Next]_vars
  PROVE  \/ UNCHANGED <<tx, rowLock>>
         \/ \E w \in Workers, t \in TxTypes :
              /\ tx' = [tx EXCEPT ![w] = t]
              /\ t.todo \subseteq tx[w].todo \cup {e \in Entries : Overdue(e)}
              /\ t.op = "register" => RegisterCheck(w, t.e)
              /\ \/ t.op \notin LockingOps /\ (rowLock' = rowLock \/ Release(w))
                 \/ /\ t.op \in LockingOps /\ LockAnchor(w, t.e)
                    /\ IF t.op = "expire" THEN Expirable(t.e) /\ t.e \in t.todo
                                          ELSE LaneOpen(t.e)
                    /\ UNCHANGED <<row, due, proof, events>>
  <1> DEFINE Leaves(w, t) ==
        t.op \notin LockingOps /\ (rowLock' = rowLock \/ Release(w))
  <1> DEFINE Enters(w, t) ==
        /\ t.op \in LockingOps /\ LockAnchor(w, t.e)
        /\ IF t.op = "expire" THEN Expirable(t.e) /\ t.e \in t.todo ELSE LaneOpen(t.e)
        /\ UNCHANGED <<row, due, proof, events>>
  <1> DEFINE Carries(w, t) ==
        /\ t.todo \subseteq tx[w].todo \cup {e \in Entries : Overdue(e)}
        /\ t.op = "register" => RegisterCheck(w, t.e)
  <1> DEFINE Moves(w) ==
        \E t \in TxTypes :
          tx' = [tx EXCEPT ![w] = t] /\ Carries(w, t) /\ (Leaves(w, t) \/ Enters(w, t))
  <1>1. ASSUME NEW w \in Workers, NEW t \in TxTypes, tx' = [tx EXCEPT ![w] = t],
               Carries(w, t), t.op \notin LockingOps, rowLock' = rowLock \/ Release(w)
        PROVE  Moves(w)
    BY <1>1
  <1>2. ASSUME NEW w \in Workers, End(w), rowLock' = rowLock \/ Release(w)
        PROVE  Moves(w)
    <2>1. Idle \in TxTypes /\ Idle.op \notin LockingOps /\ Carries(w, Idle)
      BY IdleTypes DEF Idle, LockingOps
    <2> QED BY <1>1, <1>2, <2>1 DEF End
  <1>3. ASSUME NEW w \in Workers, NEW T \in SUBSET Entries,
               T \subseteq tx[w].todo \cup {e \in Entries : Overdue(e)},
               tx' = [tx EXCEPT ![w] = Sweeping(T)], rowLock' = rowLock \/ Release(w)
        PROVE  Moves(w)
    <2>1. /\ Sweeping(T) \in TxTypes /\ Sweeping(T).op \notin LockingOps
          /\ Sweeping(T).op # "register" /\ Sweeping(T).todo \subseteq T
      BY IdleTypes DEF Sweeping, Idle, LockingOps
    <2> QED BY <1>1, <1>3, <2>1
  <1>4. ASSUME NEW w \in Workers, NEW e \in Entries, NEW o \in {"submit", "verify", "reopen"},
               RequireOpenManualLane(w, e, o)
        PROVE  Moves(w)
    <2>1. On(o, e) \in TxTypes BY IdleTypes DEF Ops, EntryOps, LockingOps
    <2>2. On(o, e).op = o /\ On(o, e).e = e /\ On(o, e).todo = {} BY DEF On, Idle
    <2>3. Enters(w, On(o, e)) /\ Carries(w, On(o, e))
      BY <1>4, <2>2 DEF RequireOpenManualLane, LockingOps, lane
    <2> QED BY <1>4, <2>1, <2>3 DEF RequireOpenManualLane, Begin
  <1>5. ASSUME NEW w \in Workers, NEW e \in Entries, ExpireLock(w, e) PROVE Moves(w)
    <2> DEFINE t == Expiring(tx[w].todo, e)
    <2>1. tx[w].todo \in SUBSET Entries BY DEF TypeOK, TxTypes
    <2>2. t \in TxTypes BY <2>1, IdleTypes
    <2>3. Enters(w, t) /\ Carries(w, t) BY <1>5 DEF ExpireLock, Expiring, LockingOps, lane
    <2> QED BY <1>5, <2>2, <2>3 DEF ExpireLock
  <1>6. ASSUME NEW w \in Workers, NEW e \in Entries, RegisterCheck(w, e) \/ CancelTeamCheck(w, e)
        PROVE  Moves(w)
    <2>1. PICK o \in {"register", "cancelTeam"} :
            Begin(w, On(o, e)) /\ (o = "register" => RegisterCheck(w, e)) /\ rowLock' = rowLock
      BY <1>6 DEF RegisterCheck, CancelTeamCheck, locks
    <2>2. On(o, e) \in TxTypes BY IdleTypes DEF Ops, EntryOps
    <2>3. /\ On(o, e).op = o /\ On(o, e).op \notin LockingOps
          /\ On(o, e).e = e /\ On(o, e).todo = {}
      BY DEF On, Idle, LockingOps
    <2>4. Carries(w, On(o, e)) BY <2>1, <2>3
    <2> QED BY <1>1, <2>1, <2>2, <2>3, <2>4 DEF Begin
  <1>7. ASSUME NEW w \in Workers, NEW e \in Entries, NEW m \in Students, CancelRowCheck(w, e, m)
        PROVE  Moves(w)
    <2> DEFINE t == [On("cancelRow", e) EXCEPT !.m = m]
    <2>1. t \in TxTypes /\ t.op \notin LockingOps /\ t.op # "register" /\ t.todo = {}
      BY DEF TxTypes, On, Idle, Ops, ParticipationOps, EntryOps, LockingOps
    <2> QED BY <1>1, <1>7, <2>1 DEF CancelRowCheck, Begin, locks
  <1>8. ASSUME NEW w \in Workers, UnpublishCheck(w) PROVE Moves(w)
    <2> DEFINE t == [Idle EXCEPT !.op = "unpublish"]
    <2>1. t \in TxTypes /\ t.op \notin LockingOps /\ t.op # "register" /\ t.todo = {}
      BY DEF TxTypes, Idle, Ops, ParticipationOps, EntryOps, LockingOps
    <2> QED BY <1>1, <1>8, <2>1 DEF UnpublishCheck, Begin
  <1> HIDE DEF Moves
  <1>9. ASSUME NEW w \in Workers, RequestStep(w) PROVE Moves(w)
    <2>1. CASE \E e \in Entries : SubmitLock(w, e) \/ VerifyLock(w, e) \/ ReopenLock(w, e)
      BY <1>4, <2>1 DEF SubmitLock, VerifyLock, ReopenLock
    <2>2. CASE \E e \in Entries : RegisterCheck(w, e) \/ CancelTeamCheck(w, e)
      BY <1>6, <2>2
    <2>3. CASE \/ RegisterCommit(w) \/ CancelRowCommit(w) \/ CancelTeamCommit(w)
               \/ SubmitCommit(w) \/ VerifyCommit(w) \/ ReopenCommit(w)
               \/ UnpublishCommit(w)
      BY <1>2, <2>3 DEF RegisterCommit, InsertRegistration, CancelRowCommit, CancelTeamCommit, SubmitCommit,
         VerifyCommit, ReopenCommit, UnpublishCommit, locks
    <2> QED BY <1>7, <1>8, <1>9, <2>1, <2>2, <2>3 DEF RequestStep
  <1>10. ASSUME NEW w \in Workers, SweeperStep(w) PROVE Moves(w)
    <2>1. tx[w].todo \in SUBSET Entries BY DEF TypeOK, TxTypes
    <2>2. CASE SweepSelect(w)
      <3> DEFINE T == {e \in Entries : Overdue(e)}
      <3>1. T \in SUBSET Entries /\ T \subseteq tx[w].todo \cup {e \in Entries : Overdue(e)}
        OBVIOUS
      <3>2. tx' = [tx EXCEPT ![w] = Sweeping(T)] /\ rowLock' = rowLock
        BY <2>2 DEF SweepSelect, Begin, locks
      <3> HIDE DEF T
      <3> QED BY <1>3, <3>1, <3>2
    <2>3. ASSUME NEW e \in Entries, ExpireDecline(w, e) PROVE Moves(w)
      <3>1. tx[w].todo \ {e} \in SUBSET Entries BY <2>1
      <3> QED BY <1>3, <2>3, <3>1 DEF ExpireDecline, locks
    <2>4. CASE ExpireCommit(w)
      <3>1. tx[w].todo \ {tx[w].e} \in SUBSET Entries BY <2>1
      <3> QED BY <1>3, <2>4, <3>1 DEF ExpireCommit
    <2> QED BY <1>5, <1>10, <2>2, <2>3, <2>4 DEF SweeperStep
  <1>11. ASSUME NEW w \in Workers, Abort(w) PROVE Moves(w)
    <2>1. tx[w].todo \ {tx[w].e} \in SUBSET Entries BY DEF TypeOK, TxTypes
    <2> QED BY <1>2, <1>3, <1>11, <2>1 DEF Abort
  <1>12. ASSUME VerdictStep \/ CompetitionStep \/ Tick \/ UNCHANGED vars
         PROVE  UNCHANGED <<tx, rowLock>>
    BY <1>12 DEF VerdictStep, RejectManualPaymentProof, VoidManualPaymentProof,
       CompetitionStep, CancelCompetitionAsOps, CancelForInsufficientParticipation,
       Publish, Tick, locks, vars
  <1>13. UNCHANGED <<tx, rowLock>> \/ \E w \in Workers : Moves(w)
    <2>1. Requests \subseteq Workers /\ Sweepers \subseteq Workers BY DEF Workers
    <2> QED BY <1>9, <1>10, <1>11, <1>12, <2>1 DEF Next
  <1> QED BY <1>13 DEF Moves

\* A due date, once set, stays set; it is set by the entry's registration.
LEMMA DueEffects ==
  ASSUME TypeOK, [Next]_vars, NEW e \in Entries
  PROVE  \/ due'[e] = due[e]
         \/ due'[e] # 0 /\ \E w \in Workers : RegisterCommit(w) /\ tx[w].e = e
  <1>1. CASE due' = due BY <1>1
  <1>2. ASSUME NEW w \in Workers, RegisterCommit(w)
        PROVE  due'[e] = due[e] \/ (due'[e] # 0 /\ tx[w].e = e)
    <2>1. DueAt # 0 BY DueAtIsADate DEF TypeOK
    <2> QED BY <1>2, <2>1 DEF RegisterCommit, InsertRegistration, TypeOK
  <1> QED BY <1>1, <1>2, RowEffects

-----------------------------------------------------------------------------
(* What a lock protects                                                    *)

\* A committing transaction leaves its locking operation.
LEMMA CommitLeaves ==
  ASSUME TypeOK, NEW w \in Workers,
         SubmitCommit(w) \/ VerifyCommit(w) \/ ReopenCommit(w) \/ ExpireCommit(w)
  PROVE  /\ tx[w].op \in LockingOps /\ tx[w].e \in Entries
         /\ tx'[w].op \notin LockingOps
  <1>1. tx[w].op \in LockingOps
    BY DEF SubmitCommit, VerifyCommit, ReopenCommit, ExpireCommit, LockingOps
  <1>2. Idle.op \notin LockingOps /\ \A T : Sweeping(T).op \notin LockingOps
    BY DEF Idle, Sweeping, LockingOps
  <1>3. tx'[w].op \notin LockingOps
    BY <1>2 DEF SubmitCommit, VerifyCommit, ReopenCommit, ExpireCommit, End, TypeOK
  <1> QED BY <1>1, <1>3, OnAnEntry DEF EntryOps

\* While a worker stays inside its locking transaction nobody else moves the
\* ledger of the entry it locked, files its proof or ends its registration.
LEMMA LockProtects ==
  ASSUME TypeOK, LocksHeld, [Next]_vars, NEW v \in Workers,
         tx[v].op \in LockingOps, tx'[v] = tx[v]
  PROVE  LET e == tx[v].e IN
         /\ events'[e] = events[e]
         /\ proof'[e].status = "pending_review" => proof[e].status = "pending_review"
         /\ row[Anchor(e)] = "confirmed" => row'[Anchor(e)] = "confirmed"
         /\ due[e] # 0 => due'[e] # 0
  <1> DEFINE e == tx[v].e
  <1>1. e \in Entries /\ rowLock[e] = v BY OnAnEntry DEF EntryOps, LocksHeld
  <1>2. ASSUME NEW w \in Workers,
               SubmitCommit(w) \/ VerifyCommit(w) \/ ReopenCommit(w) \/ ExpireCommit(w)
        PROVE  tx[w].e # e
    <2>1. rowLock[tx[w].e] = w /\ tx'[w].op \notin LockingOps
      BY <1>2, CommitLeaves DEF LocksHeld
    <2>2. v # w BY <2>1
    <2> QED BY <1>1, <2>1, <2>2
  <1> HIDE DEF e
  <1>3. /\ events'[e] = events[e]
        /\ proof'[e].status = "pending_review" => proof[e].status = "pending_review"
    <2>1. CASE UNCHANGED <<proof, attempts, events, accrued>> BY <2>1
    <2>2. ASSUME NEW w \in Workers,
                 SubmitCommit(w) \/ VerifyCommit(w) \/ ReopenCommit(w) \/ ExpireCommit(w)
          PROVE  events'[e] = events[e] /\ proof'[e] = proof[e]
      <3>1. tx[w].e # e BY <1>2, <2>2
      <3>2. CASE SubmitCommit(w) BY <1>1, <3>1, <3>2 DEF SubmitCommit, TypeOK
      <3>3. CASE VerifyCommit(w) BY <1>1, <3>1, <3>3 DEF VerifyCommit, TypeOK
      <3>4. CASE ReopenCommit(w) BY <1>1, <3>1, <3>4 DEF ReopenCommit, TypeOK
      <3>5. CASE ExpireCommit(w) BY <1>1, <3>1, <3>5 DEF ExpireCommit, TypeOK
      <3> QED BY <2>2, <3>2, <3>3, <3>4, <3>5
    <2>3. CASE VerdictStep
      <3> PICK f \in Entries : \/ \E allowed \in BOOLEAN : RejectManualPaymentProof(f, allowed)
                              \/ VoidManualPaymentProof(f)
        BY <2>3 DEF VerdictStep
      <3>1. events' = events
        BY DEF RejectManualPaymentProof, VoidManualPaymentProof
      <3>2. \/ \E b \in BOOLEAN : proof' = [proof EXCEPT ![f].status = "rejected", ![f].allowed = b]
            \/ \E n \in Nat : proof' = [proof EXCEPT ![f].status = "voided", ![f].count = n]
        <4>1. VoidAttempt(f) \in Nat BY DEF TypeOK, Proofs, VoidAttempt
        <4> QED BY <4>1 DEF RejectManualPaymentProof, VoidManualPaymentProof
      <3>3. /\ proof'[f].status \in {"rejected", "voided"}
            /\ \A g \in Entries : g # f => proof'[g] = proof[g]
        BY <3>2, ProofTypes, 0 \in Nat DEF TypeOK
      <3> QED BY <1>1, <3>1, <3>3
    <2> QED BY <2>1, <2>2, <2>3, LedgerEffects
  <1>4. ASSUME row[Anchor(e)] = "confirmed" PROVE row'[Anchor(e)] = "confirmed"
    <2>1. Anchor(e) \in Rows BY <1>1, AnchorIsARow
    <2>2. ASSUME NEW w \in Workers, RegisterCommit(w) PROVE row'[Anchor(e)] = "confirmed"
      BY <1>4, <2>1, <2>2 DEF RegisterCommit, InsertRegistration
    <2>3. ASSUME NEW R \in SUBSET Rows, NEW w \in Workers \cup {NoWorker},
                 CancelRows(R), Updatable(R, w), w \in Workers => tx'[w].op \notin LockingOps
          PROVE  row'[Anchor(e)] = "confirmed"
      <3>1. w # v BY <2>3, ActorsAssumption
      <3>2. Anchor(e) \notin Confirmed(R)
        BY <1>1, <2>3, <3>1, ActorsAssumption DEF Updatable
      <3> QED BY <1>4, <2>1, <2>3, <3>2 DEF CancelRows
    <2> QED BY <1>4, <2>2, <2>3, RowEffects
  <1>5. due[e] # 0 => due'[e] # 0 BY <1>1, DueEffects
  <1> QED BY <1>3, <1>4, <1>5 DEF e

-----------------------------------------------------------------------------
(* The inductive invariant, one lemma for each of its parts                *)

LEMMA LocksHeldNext == TypeOK /\ LocksHeld /\ [Next]_vars => LocksHeld'
  <1> SUFFICES ASSUME TypeOK, LocksHeld, [Next]_vars,
                      NEW v \in Workers, tx'[v].op \in LockingOps
               PROVE  rowLock'[tx'[v].e] = v
    BY DEF LocksHeld
  <1>1. CASE UNCHANGED <<tx, rowLock>> BY <1>1 DEF LocksHeld
  <1>2. ASSUME NEW w \in Workers, NEW t \in TxTypes, tx' = [tx EXCEPT ![w] = t],
               t.op \notin LockingOps, rowLock' = rowLock \/ Release(w)
        PROVE  rowLock'[tx'[v].e] = v
    <2>1. v # w /\ tx'[v] = tx[v] BY <1>2 DEF TypeOK
    <2>2. tx[v].e \in Entries /\ rowLock[tx[v].e] = v
      BY <2>1, OnAnEntry DEF LocksHeld, EntryOps
    <2> QED BY <1>2, <2>1, <2>2 DEF Release
  <1>3. ASSUME NEW w \in Workers, NEW t \in TxTypes, tx' = [tx EXCEPT ![w] = t],
               t.op \in LockingOps, LockAnchor(w, t.e)
        PROVE  rowLock'[tx'[v].e] = v
    <2>1. t.e \in Entries BY <1>3 DEF TxTypes, EntryOps
    <2>2. CASE v = w BY <1>3, <2>1, <2>2 DEF LockAnchor, TypeOK
    <2>3. CASE v # w
      <3>1. tx'[v] = tx[v] BY <1>3, <2>3 DEF TypeOK
      <3>2. tx[v].e \in Entries /\ rowLock[tx[v].e] = v
        BY <3>1, OnAnEntry DEF LocksHeld, EntryOps
      <3> QED BY <1>3, <2>1, <3>1, <3>2, ActorsAssumption DEF LockAnchor, TypeOK
    <2> QED BY <2>2, <2>3
  <1> QED BY <1>1, <1>2, <1>3, WorkerEffects

\* What a worker read under the lock is still so when it commits.
LEMMA LockedReadsNext ==
  TypeOK /\ LocksHeld /\ LockedReadsStable /\ [Next]_vars => LockedReadsStable'
  <1> SUFFICES ASSUME TypeOK, LocksHeld, LockedReadsStable, [Next]_vars,
                      NEW v \in Workers, NEW f, f = tx'[v].e, tx'[v].op \in LockingOps
               PROVE  /\ tx'[v].op # "expire" => LaneOpen(f)'
                      /\ tx'[v].op = "expire" => Status(f)' = "pending"
                                               /\ proof'[f].status # "pending_review"
    BY DEF LockedReadsStable, LockingOps, LaneOpen, Status, Anchor
  <1>1. Anchor(f)' = Anchor(f) BY DEF Anchor
  <1>2. CASE tx'[v] = tx[v]
    <2>1. /\ events'[f] = events[f]
          /\ proof'[f].status = "pending_review" => proof[f].status = "pending_review"
          /\ row[Anchor(f)] = "confirmed" => row'[Anchor(f)] = "confirmed"
          /\ due[f] # 0 => due'[f] # 0
      BY <1>2, LockProtects
    <2>2. Status(f)' = Status(f) BY <2>1 DEF Status
    <2>3. /\ tx[v].op # "expire" => LaneOpen(f)
          /\ tx[v].op = "expire" => Status(f) = "pending" /\ proof[f].status # "pending_review"
      BY <1>2 DEF LockedReadsStable, LockingOps
    <2>4. LaneOpen(f) => LaneOpen(f)' BY <1>1, <2>1, <2>2 DEF LaneOpen
    <2> QED BY <1>2, <2>1, <2>2, <2>3, <2>4
  <1>3. CASE tx'[v] # tx[v]
    <2>1. PICK w \in Workers, t \in TxTypes :
            /\ tx' = [tx EXCEPT ![w] = t]
            /\ \/ t.op \notin LockingOps
               \/ /\ IF t.op = "expire" THEN Expirable(t.e) ELSE LaneOpen(t.e)
                  /\ UNCHANGED <<row, due, proof, events>>
      BY <1>3, WorkerEffects
    <2>2. w = v /\ tx'[v] = t BY <1>3, <2>1 DEF TypeOK
    <2>3. /\ IF t.op = "expire" THEN Expirable(f) ELSE LaneOpen(f)
          /\ UNCHANGED <<row, due, proof, events>>
      BY <2>1, <2>2
    <2>4. (LaneOpen(f)' <=> LaneOpen(f)) /\ Status(f)' = Status(f)
      BY <1>1, <2>3 DEF LaneOpen, Status
    <2> QED BY <2>2, <2>3, <2>4 DEF Expirable
  <1> QED BY <1>2, <1>3

\* Everything a step can do to the ledger of one entry, and to its proof.
SameLedger(e) ==
  proof'[e] = proof[e] /\ attempts'[e] = attempts[e] /\ events'[e] = events[e] /\ accrued'[e] = accrued[e]

Submitted(e) ==
  /\ LaneOpen(e) /\ proof[e].status = "none"
  /\ proof'[e].status = "pending_review" /\ proof'[e].count = proof[e].count
  /\ attempts'[e] = attempts[e] /\ events'[e] = events[e] /\ accrued'[e] = accrued[e]

Verified(e) ==
  /\ LaneOpen(e) /\ proof[e].status = "pending_review"
  /\ proof'[e].status = "verified" /\ proof'[e].count = proof[e].count
  /\ attempts'[e] = attempts[e] \cup {[n |-> proof[e].count, verdict |-> "verified"]}
  /\ events'[e] = events[e] \cup {Succeeded(proof[e].count)}
  /\ accrued'[e] = IF accrued[e] = 0 THEN 1 ELSE accrued[e]
  /\ row' = row

Reopened(e) ==
  /\ LaneOpen(e) /\ proof[e].status \in {"rejected", "voided"}
  /\ proof'[e].status = "pending_review" /\ proof'[e].count = proof[e].count + 1
  /\ attempts'[e] = attempts[e] /\ events'[e] = events[e] /\ accrued'[e] = accrued[e]

Returned(e) ==
  /\ \/ proof[e].status = "pending_review" /\ proof'[e].count = proof[e].count
     \/ proof[e].status = "rejected" /\ proof'[e].count = proof[e].count + 1
  /\ proof'[e].status \in {"rejected", "voided"}
  /\ attempts'[e] = attempts[e] \cup {[n |-> proof'[e].count, verdict |-> proof'[e].status]}
  /\ events'[e] = events[e] /\ accrued'[e] = accrued[e]

Lapsed(e) ==
  /\ Status(e) = "pending" /\ proof[e].status # "pending_review" /\ Overdue(e)
  /\ proof'[e] = proof[e] /\ attempts'[e] = attempts[e] /\ accrued'[e] = accrued[e]
  /\ events'[e] = events[e] \cup {Expired}
  /\ CancelRows(ExpiredRows(e))

LEMMA EntryEffects ==
  ASSUME TypeOK, LockedReadsStable, SweepCarriesOverdue, [Next]_vars, NEW e \in Entries
  PROVE  \/ SameLedger(e) \/ Submitted(e) \/ Verified(e) \/ Reopened(e)
         \/ Returned(e) \/ Lapsed(e)
  <1>1. CASE UNCHANGED <<proof, attempts, events, accrued>> BY <1>1 DEF SameLedger
  <1>2. ASSUME NEW w \in Workers, SubmitCommit(w)
        PROVE  SameLedger(e) \/ Submitted(e)
    <2>1. CASE tx[w].e # e BY <1>2, <2>1 DEF SubmitCommit, SameLedger, TypeOK
    <2>2. CASE tx[w].e = e
      <3>1. LaneOpen(e) BY <1>2, <2>2 DEF LockedReadsStable, SubmitCommit
      <3>2. proof[e].status = "none" /\ proof' = [proof EXCEPT ![e].status = "pending_review"]
        BY <1>2, <2>2 DEF SubmitCommit
      <3>3. proof'[e].status = "pending_review" /\ proof'[e].count = proof[e].count
        BY <3>2 DEF TypeOK, Proofs
      <3> QED BY <1>2, <2>2, <3>1, <3>2, <3>3 DEF SubmitCommit, Submitted
    <2> QED BY <2>1, <2>2
  <1>3. ASSUME NEW w \in Workers, VerifyCommit(w)
        PROVE  SameLedger(e) \/ Verified(e)
    <2>1. CASE tx[w].e # e
      BY <1>3, <2>1 DEF VerifyCommit, RecordProofAttempt, SameLedger, TypeOK
    <2>2. CASE tx[w].e = e
      <3>1. LaneOpen(e) BY <1>3, <2>2 DEF LockedReadsStable, VerifyCommit
      <3>2. proof[e].status = "pending_review" /\ proof' = [proof EXCEPT ![e].status = "verified"]
        BY <1>3, <2>2 DEF VerifyCommit
      <3>3. proof'[e].status = "verified" /\ proof'[e].count = proof[e].count
        BY <3>2 DEF TypeOK, Proofs
      <3>4. attempts'[e] = attempts[e] \cup {[n |-> proof[e].count, verdict |-> "verified"]}
        BY <1>3, <2>2 DEF VerifyCommit, RecordProofAttempt, TypeOK
      <3>5. events'[e] = events[e] \cup {Succeeded(proof[e].count)}
        BY <1>3, <2>2 DEF VerifyCommit, TypeOK
      <3>6. accrued'[e] = IF accrued[e] = 0 THEN 1 ELSE accrued[e]
        BY <1>3, <2>2 DEF VerifyCommit, TypeOK
      <3> QED BY <1>3, <3>1, <3>2, <3>3, <3>4, <3>5, <3>6 DEF VerifyCommit, Verified
    <2> QED BY <2>1, <2>2
  <1>4. ASSUME NEW w \in Workers, ReopenCommit(w)
        PROVE  SameLedger(e) \/ Reopened(e)
    <2>1. CASE tx[w].e # e BY <1>4, <2>1 DEF ReopenCommit, SameLedger, TypeOK
    <2>2. CASE tx[w].e = e
      <3>1. LaneOpen(e) BY <1>4, <2>2 DEF LockedReadsStable, ReopenCommit
      <3>2. /\ Reopenable(e)
            /\ proof' = [proof EXCEPT ![e].status = "pending_review", ![e].count = @ + 1]
        BY <1>4, <2>2 DEF ReopenCommit
      <3>3. proof'[e].status = "pending_review" /\ proof'[e].count = proof[e].count + 1
        BY <3>2 DEF TypeOK, Proofs
      <3> QED BY <1>4, <2>2, <3>1, <3>2, <3>3 DEF ReopenCommit, Reopened, Reopenable
    <2> QED BY <2>1, <2>2
  <1>5. CASE VerdictStep
    <2> PICK f \in Entries : \/ \E allowed \in BOOLEAN : RejectManualPaymentProof(f, allowed)
                            \/ VoidManualPaymentProof(f)
      BY <1>5 DEF VerdictStep
    <2>1. CASE f # e
      BY <2>1 DEF RejectManualPaymentProof, VoidManualPaymentProof, RecordProofAttempt,
         SameLedger, TypeOK
    <2>2. ASSUME NEW allowed \in BOOLEAN, RejectManualPaymentProof(e, allowed) PROVE Returned(e)
      <3>1. /\ proof[e].status = "pending_review"
            /\ proof' = [proof EXCEPT ![e].status = "rejected", ![e].allowed = allowed]
        BY <2>2 DEF RejectManualPaymentProof
      <3>2. proof'[e].status = "rejected" /\ proof'[e].count = proof[e].count
        BY <3>1 DEF TypeOK, Proofs
      <3>3. attempts'[e] = attempts[e] \cup {[n |-> proof[e].count, verdict |-> "rejected"]}
        BY <2>2 DEF RejectManualPaymentProof, RecordProofAttempt, TypeOK
      <3> QED BY <2>2, <3>1, <3>2, <3>3 DEF RejectManualPaymentProof, Returned
    <2>3. ASSUME VoidManualPaymentProof(e) PROVE Returned(e)
      <3> DEFINE n == VoidAttempt(e)
      <3>1. /\ proof[e].status \in {"pending_review", "rejected"}
            /\ proof' = [proof EXCEPT ![e].status = "voided", ![e].count = n]
            /\ attempts' = [attempts EXCEPT ![e] = @ \cup {[n |-> n, verdict |-> "voided"]}]
        BY <2>3 DEF VoidManualPaymentProof, RecordProofAttempt
      <3>2. n = IF proof[e].status = "rejected" THEN proof[e].count + 1 ELSE proof[e].count
        BY DEF VoidAttempt
      <3> HIDE DEF n
      <3>3. proof'[e].status = "voided" /\ proof'[e].count = n
        BY <3>1 DEF TypeOK, Proofs
      <3>4. attempts'[e] = attempts[e] \cup {[n |-> n, verdict |-> "voided"]}
        BY <3>1 DEF TypeOK
      <3> QED BY <2>3, <3>1, <3>2, <3>3, <3>4 DEF VoidManualPaymentProof, Returned
    <2> QED BY <2>1, <2>2, <2>3
  <1>6. ASSUME NEW w \in Workers, ExpireCommit(w)
        PROVE  SameLedger(e) \/ Lapsed(e)
    <2>1. CASE tx[w].e # e BY <1>6, <2>1 DEF ExpireCommit, SameLedger, TypeOK
    <2>2. CASE tx[w].e = e
      <3>1. Status(e) = "pending" /\ proof[e].status # "pending_review" /\ Overdue(e)
        BY <1>6, <2>2 DEF LockedReadsStable, SweepCarriesOverdue, ExpireCommit
      <3> QED BY <1>6, <2>2, <3>1 DEF ExpireCommit, Lapsed, TypeOK
    <2> QED BY <2>1, <2>2
  <1> QED BY <1>1, <1>2, <1>3, <1>4, <1>5, <1>6, LedgerEffects

\* The lane is open only on a payment that exists; an unpaid entry lapses never.
LEMMA UnpaidNext ==
  /\ TypeOK /\ LockedReadsStable /\ SweepCarriesOverdue /\ OneRequestRegisters
  /\ UnpaidEntriesAreNew /\ [Next]_vars
  => UnpaidEntriesAreNew'
  <1> SUFFICES ASSUME TypeOK, LockedReadsStable, SweepCarriesOverdue, OneRequestRegisters,
                      UnpaidEntriesAreNew, [Next]_vars, NEW e \in Entries
               PROVE  /\ due'[e] = 0 => proof'[e].status = "none" /\ events'[e] = {}
                                       /\ accrued'[e] = 0
                      /\ proof'[e].status = "none" => proof'[e].count = 0
                      /\ \A r \in RowsOf({e}) : row'[r] = "absent" => due'[e] = 0
    BY DEF UnpaidEntriesAreNew, RowsOf
  <1>1. due'[e] = 0 => due[e] = 0 BY DueEffects
  <1>2. ASSUME due'[e] = 0
        PROVE  proof'[e].status = "none" /\ events'[e] = {} /\ accrued'[e] = 0
    <2>1. due[e] = 0 /\ proof[e].status = "none" /\ events[e] = {} /\ accrued[e] = 0
      BY <1>1, <1>2 DEF UnpaidEntriesAreNew
    <2>2. ~LaneOpen(e) /\ ~Overdue(e) BY <2>1 DEF LaneOpen, Overdue
    <2>3. SameLedger(e)
      BY <2>1, <2>2, EntryEffects DEF Submitted, Verified, Reopened, Returned, Lapsed
    <2> QED BY <2>1, <2>3 DEF SameLedger
  <1>3. ASSUME proof'[e].status = "none" PROVE proof'[e].count = 0
    <2>1. proof'[e] = proof[e]
      BY <1>3, EntryEffects DEF SameLedger, Submitted, Verified, Reopened, Returned, Lapsed
    <2> QED BY <1>3, <2>1 DEF UnpaidEntriesAreNew
  <1>4. ASSUME NEW r \in RowsOf({e}), row'[r] = "absent" PROVE due'[e] = 0
    <2>1. r \in Rows /\ r[1] = e BY DEF RowsOf
    <2>2. row[r] = "absent" => due[e] = 0 BY DEF UnpaidEntriesAreNew
    <2>3. ASSUME NEW w \in Workers, RegisterCommit(w) PROVE due'[e] = 0
      <3>1. tx[w].e # e /\ row[r] = "absent"
        BY <1>4, <2>1, <2>3 DEF RegisterCommit, InsertRegistration, RowsOf
      <3> QED BY <2>2, <2>3, <3>1 DEF RegisterCommit, TypeOK
    <2>4. ASSUME NEW R, CancelRows(R), due' = due PROVE due'[e] = 0
      BY <1>4, <2>1, <2>2, <2>4 DEF CancelRows, Confirmed
    <2> QED BY <1>4, <2>2, <2>3, <2>4, RowEffects
  <1> QED BY <1>2, <1>3, <1>4

\* A registration is checked on fresh rows, which belong to one request.
LEMMA OneRequestNext ==
  TypeOK /\ OneRequestRegisters /\ UnpaidEntriesAreNew /\ [Next]_vars => OneRequestRegisters'
  <1> SUFFICES ASSUME TypeOK, OneRequestRegisters, UnpaidEntriesAreNew, [Next]_vars,
                      NEW v \in Workers, NEW w \in Workers,
                      tx'[v].op = "register", tx'[w].op = "register"
               PROVE  due'[tx'[w].e] = 0 /\ (tx'[v].e = tx'[w].e => v = w)
    BY DEF OneRequestRegisters
  <1>1. CASE tx'[v] = tx[v] /\ tx'[w] = tx[w]
    <2> DEFINE e == tx[w].e
    <2>1. e \in Entries BY <1>1, OnAnEntry DEF EntryOps
    <2>2. due[e] = 0 /\ (tx[v].e = e => v = w) BY <1>1 DEF OneRequestRegisters
    <2>3. ASSUME NEW u \in Workers, RegisterCommit(u), tx[u].e = e PROVE FALSE
      <3>1. tx[u].op = "register" BY <2>3 DEF RegisterCommit, InsertRegistration
      <3>2. u = w BY <1>1, <2>3, <3>1 DEF OneRequestRegisters
      <3>3. tx'[u] = Idle BY <2>3 DEF RegisterCommit, InsertRegistration, End, TypeOK
      <3> QED BY <3>2, <3>3 DEF Idle
    <2>4. due'[e] = due[e] BY <2>1, <2>3, DueEffects
    <2> QED BY <1>1, <2>2, <2>4
  <1>2. ASSUME NEW u \in Workers, tx'[u] # tx[u], tx'[u].op = "register", NEW e, e = tx'[u].e
        PROVE  /\ due'[e] = 0
               /\ \A x \in Workers \ {u} :
                    tx'[x] = tx[x] /\ (tx[x].op = "register" => due'[tx[x].e] = 0 /\ tx[x].e # e)
    <2>1. PICK x \in Workers, t \in TxTypes :
            tx' = [tx EXCEPT ![x] = t] /\ (t.op = "register" => RegisterCheck(x, t.e))
      BY <1>2, WorkerEffects
    <2>2. x = u /\ tx'[u] = t BY <1>2, <2>1 DEF TypeOK
    <2>3. RegisterCheck(u, e) BY <1>2, <2>1, <2>2
    <2>4. e \in Entries BY <1>2, <2>2 DEF TxTypes, EntryOps
    <2>5. due' = due /\ Fresh(e) BY <2>3 DEF RegisterCheck, lane
    <2>6. due[e] = 0
      BY <2>4, <2>5, AnchorIsARow DEF Fresh, UnpaidEntriesAreNew
    <2>7. \A y \in Workers : tx[y].op = "register" => due[tx[y].e] = 0 /\ tx[y].e # e
      BY <2>5 DEF Fresh, OneRequestRegisters
    <2>8. \A y \in Workers \ {u} : tx'[y] = tx[y] BY <2>1, <2>2 DEF TypeOK
    <2> QED BY <2>5, <2>6, <2>7, <2>8
  <1>3. CASE tx'[w] # tx[w]
    <2>1. due'[tx'[w].e] = 0 BY <1>2, <1>3
    <2>2. v # w => tx'[v].e # tx'[w].e BY <1>2, <1>3
    <2> QED BY <2>1, <2>2
  <1>4. CASE tx'[v] # tx[v] /\ tx'[w] = tx[w]
    <2>1. v # w BY <1>4
    <2> QED BY <1>2, <1>4, <2>1
  <1> QED BY <1>1, <1>3, <1>4

\* Deadlines do not move, and the clock does not go back.
LEMMA OverdueStays ==
  ASSUME TypeOK, UnpaidEntriesAreNew, OneRequestRegisters, [Next]_vars,
         NEW e \in Entries, Overdue(e)
  PROVE  Overdue(e)'
  <1>1. now' \in Nat /\ now' >= now
    <2>1. now' = now \/ now' = now + 1
      <3>1. ASSUME NEW w \in Requests, RequestStep(w) PROVE now' = now
        BY <3>1 DEF RequestStep, RegisterCheck, RegisterCommit, InsertRegistration, CancelRowCheck,
           CancelRowCommit, CancelTeamCheck, CancelTeamCommit, SubmitLock, VerifyLock,
           ReopenLock, RequireOpenManualLane, SubmitCommit, VerifyCommit, ReopenCommit,
           UnpublishCheck, UnpublishCommit
      <3>2. ASSUME NEW w \in Sweepers, SweeperStep(w) PROVE now' = now
        BY <3>2 DEF SweeperStep, SweepSelect, ExpireDecline, ExpireLock, ExpireCommit
      <3>3. ASSUME VerdictStep \/ CompetitionStep \/ (\E w \in Workers : Abort(w))
            PROVE  now' = now
        BY <3>3 DEF VerdictStep, RejectManualPaymentProof, VoidManualPaymentProof,
           CompetitionStep, CancelCompetitionAsOps, CancelForInsufficientParticipation,
           Publish, Abort
      <3> QED BY <3>1, <3>2, <3>3 DEF Next, Tick, vars
    <2> QED BY <2>1 DEF TypeOK
  <1>2. due'[e] = due[e]
    <2>1. ASSUME NEW w \in Workers, RegisterCommit(w), tx[w].e = e PROVE FALSE
      BY <2>1 DEF RegisterCommit, InsertRegistration, OneRequestRegisters, Overdue
    <2> QED BY <2>1, DueEffects
  <1> QED BY <1>1, <1>2 DEF Overdue, TypeOK

LEMMA SweepCarriesNext ==
  TypeOK /\ SweepCarriesOverdue /\ UnpaidEntriesAreNew /\ OneRequestRegisters /\ [Next]_vars
  => SweepCarriesOverdue'
  <1> SUFFICES ASSUME TypeOK, SweepCarriesOverdue, UnpaidEntriesAreNew, OneRequestRegisters,
                      [Next]_vars, NEW v \in Workers
               PROVE  /\ \A e \in tx'[v].todo : Overdue(e)'
                      /\ tx'[v].op = "expire" => tx'[v].e \in tx'[v].todo
    BY DEF SweepCarriesOverdue, Overdue
  <1>1. tx[v].todo \subseteq Entries BY DEF TypeOK, TxTypes
  <1>2. \A e \in Entries : Overdue(e) => Overdue(e)' BY OverdueStays
  <1>3. CASE tx'[v] = tx[v] BY <1>1, <1>2, <1>3 DEF SweepCarriesOverdue
  <1>4. CASE tx'[v] # tx[v]
    <2>1. PICK w \in Workers, t \in TxTypes :
            /\ tx' = [tx EXCEPT ![w] = t]
            /\ t.todo \subseteq tx[w].todo \cup {e \in Entries : Overdue(e)}
            /\ t.op = "expire" => t.e \in t.todo
      BY <1>4, WorkerEffects DEF LockingOps
    <2>2. w = v /\ tx'[v] = t BY <1>4, <2>1 DEF TypeOK
    <2>3. \A e \in t.todo : e \in Entries /\ Overdue(e)
      BY <1>1, <2>1, <2>2 DEF SweepCarriesOverdue
    <2> QED BY <1>2, <2>1, <2>2, <2>3
  <1> QED BY <1>3, <1>4

\* The three ledgers of a verdict move together or not at all.
LEMMA LedgersNext ==
  /\ TypeOK /\ LockedReadsStable /\ SweepCarriesOverdue /\ [Next]_vars
  /\ LedgersAgree /\ PaidXorExpired
  => LedgersAgree' /\ PaidXorExpired'
  <1> SUFFICES ASSUME TypeOK, LockedReadsStable, SweepCarriesOverdue, [Next]_vars,
                      LedgersAgree, PaidXorExpired, NEW e \in Entries
               PROVE  /\ (proof'[e].status = "verified") <=> (Status(e)' = "succeeded")
                      /\ (proof'[e].status = "verified") <=> (accrued'[e] = 1)
                      /\ accrued'[e] \in {0, 1}
                      /\ proof'[e].status = "verified" =>
                           /\ [n |-> proof'[e].count, verdict |-> "verified"] \in attempts'[e]
                           /\ {v \in events'[e] : v.type = "succeeded"}
                                = {Succeeded(proof'[e].count)}
                      /\ ~((\E v \in events'[e] : v.type = "succeeded") /\ Expired \in events'[e])
    BY DEF LedgersAgree, PaidXorExpired, Status, Succeeded, Expired
  <1>1. /\ (proof[e].status = "verified") <=> (Status(e) = "succeeded")
        /\ (proof[e].status = "verified") <=> (accrued[e] = 1)
        /\ accrued[e] \in {0, 1}
        /\ proof[e].status = "verified" =>
             /\ [n |-> proof[e].count, verdict |-> "verified"] \in attempts[e]
             /\ {v \in events[e] : v.type = "succeeded"} = {Succeeded(proof[e].count)}
        /\ ~((\E v \in events[e] : v.type = "succeeded") /\ Expired \in events[e])
    BY DEF LedgersAgree, PaidXorExpired
  <1>2. ASSUME events'[e] = events[e] PROVE Status(e)' = Status(e) BY <1>2 DEF Status
  <1>3. Status(e) = "pending" => \A v \in events[e] : v.type # "succeeded" /\ v # Expired
    BY DEF Status, Expired
  <1>4. CASE SameLedger(e) BY <1>1, <1>2, <1>4 DEF SameLedger
  <1>5. CASE Submitted(e) \/ Reopened(e) \/ Returned(e)
    <2>1. /\ events'[e] = events[e] /\ accrued'[e] = accrued[e]
          /\ proof[e].status # "verified" /\ proof'[e].status # "verified"
      BY <1>5 DEF Submitted, Reopened, Returned
    <2> QED BY <1>1, <1>2, <2>1
  <1>6. CASE Verified(e)
    <2>1. proof'[e].status = "verified" /\ accrued'[e] = 1 BY <1>1, <1>6 DEF Verified
    <2>2. [n |-> proof'[e].count, verdict |-> "verified"] \in attempts'[e]
      BY <1>6 DEF Verified
    <2>3. \A v \in events[e] : v.type # "succeeded" /\ v # Expired
      BY <1>3, <1>6 DEF Verified, LaneOpen
    <2>4. events'[e] = events[e] \cup {Succeeded(proof'[e].count)} BY <1>6 DEF Verified
    <2>5. \A n : Succeeded(n).type = "succeeded" /\ Succeeded(n) # Expired
      BY DEF Succeeded, Expired
    <2>6. Status(e)' = "succeeded" BY <2>4, <2>5 DEF Status
    <2>7. {v \in events'[e] : v.type = "succeeded"} = {Succeeded(proof'[e].count)}
      BY <2>3, <2>4, <2>5
    <2>8. Expired \notin events'[e] BY <2>3, <2>4, <2>5
    <2> QED BY <2>1, <2>2, <2>6, <2>7, <2>8
  <1>7. CASE Lapsed(e)
    <2>1. \A v \in events[e] : v.type # "succeeded" BY <1>3, <1>7 DEF Lapsed
    <2>2. \A v \in events'[e] : v.type # "succeeded" BY <1>7, <2>1 DEF Lapsed, Expired
    <2>3. Status(e)' # "succeeded" BY <2>2 DEF Status
    <2>4. proof'[e] = proof[e] /\ accrued'[e] = accrued[e] /\ Status(e) = "pending"
      BY <1>7 DEF Lapsed
    <2> QED BY <1>1, <2>2, <2>3, <2>4
  <1> QED BY <1>4, <1>5, <1>6, <1>7, EntryEffects

\* Filing attempt k adds k to the numbers filed, and repeats none if k is new.
LEMMA FiledNumbers ==
  ASSUME NEW S, NEW k, NEW x
  PROVE  LET T == S \cup {[n |-> k, verdict |-> x]} IN
         /\ {a.n : a \in T} = {a.n : a \in S} \cup {k}
         /\ k \notin {a.n : a \in S} /\ (\A a, b \in S : a.n = b.n => a = b)
              => \A a, b \in T : a.n = b.n => a = b
  <1> DEFINE new == [n |-> k, verdict |-> x]
             T == S \cup {new}
  <1>1. new.n = k OBVIOUS
  <1> HIDE DEF new
  <1>2. {a.n : a \in T} = {a.n : a \in S} \cup {k} BY <1>1
  <1>3. k \notin {a.n : a \in S} => \A a \in S : a.n # new.n BY <1>1
  <1>4. ASSUME k \notin {a.n : a \in S}, \A a, b \in S : a.n = b.n => a = b,
               NEW a \in T, NEW b \in T, a.n = b.n
        PROVE  a = b
    BY <1>3, <1>4
  <1> QED BY <1>2, <1>4 DEF new

\* Every verdict files the next number.
LEMMA AttemptsNext ==
  /\ TypeOK /\ LockedReadsStable /\ SweepCarriesOverdue /\ UnpaidEntriesAreNew /\ [Next]_vars
  /\ AttemptsContiguous
  => AttemptsContiguous'
  <1> DEFINE Numbers(s, c) ==
        IF s = "none" THEN {} ELSE IF s = "pending_review" THEN 0 .. (c - 1) ELSE 0 .. c
  <1> SUFFICES ASSUME TypeOK, LockedReadsStable, SweepCarriesOverdue, UnpaidEntriesAreNew,
                      [Next]_vars, AttemptsContiguous, NEW e \in Entries
               PROVE  /\ \A a, b \in attempts'[e] : a.n = b.n => a = b
                      /\ {a.n : a \in attempts'[e]} = Numbers(proof'[e].status, proof'[e].count)
    BY DEF AttemptsContiguous
  <1>1. /\ \A a, b \in attempts[e] : a.n = b.n => a = b
        /\ {a.n : a \in attempts[e]} = Numbers(proof[e].status, proof[e].count)
    BY DEF AttemptsContiguous
  <1>2. proof[e].count \in Nat BY DEF TypeOK, Proofs
  <1>3. CASE SameLedger(e) BY <1>1, <1>3 DEF SameLedger
  <1>4. CASE Submitted(e)
    <2>1. proof[e].count = 0 BY <1>4 DEF Submitted, UnpaidEntriesAreNew
    <2>2. Numbers("none", 0) = {} /\ Numbers("pending_review", 0) = {} OBVIOUS
    <2>3. Numbers(proof[e].status, proof[e].count) = Numbers(proof'[e].status, proof'[e].count)
      BY <1>4, <2>1, <2>2 DEF Submitted
    <2> QED BY <1>1, <1>4, <2>3 DEF Submitted
  <1>5. CASE Reopened(e)
    <2>1. Numbers(proof[e].status, proof[e].count) = 0 .. proof[e].count
      BY <1>5 DEF Reopened
    <2>2. Numbers(proof'[e].status, proof'[e].count) = 0 .. ((proof[e].count + 1) - 1)
      BY <1>5 DEF Reopened
    <2>3. (proof[e].count + 1) - 1 = proof[e].count BY <1>2
    <2> QED BY <1>1, <1>5, <2>1, <2>2, <2>3 DEF Reopened
  <1>6. ASSUME NEW k \in Nat, NEW x,
               attempts'[e] = attempts[e] \cup {[n |-> k, verdict |-> x]},
               {a.n : a \in attempts[e]} = 0 .. (k - 1),
               proof'[e].count = k, proof'[e].status \notin {"none", "pending_review"}
        PROVE  /\ \A a, b \in attempts'[e] : a.n = b.n => a = b
               /\ {a.n : a \in attempts'[e]} = Numbers(proof'[e].status, proof'[e].count)
    <2>1. k \notin 0 .. (k - 1) /\ (0 .. (k - 1)) \cup {k} = 0 .. k BY <1>6
    <2>2. {a.n : a \in attempts'[e]} = {a.n : a \in attempts[e]} \cup {k}
      BY <1>6, FiledNumbers
    <2>3. \A a, b \in attempts'[e] : a.n = b.n => a = b
      BY <1>1, <1>6, <2>1, FiledNumbers
    <2>4. Numbers(proof'[e].status, proof'[e].count) = 0 .. k BY <1>6
    <2> QED BY <1>6, <2>1, <2>2, <2>3, <2>4
  <1>7. CASE Verified(e)
    <2>1. Numbers(proof[e].status, proof[e].count) = 0 .. (proof[e].count - 1)
      BY <1>7 DEF Verified
    <2> QED BY <1>1, <1>2, <1>6, <1>7, <2>1 DEF Verified
  <1>8. CASE Returned(e)
    <2> DEFINE k == proof'[e].count
    <2>1. k \in Nat BY <1>2, <1>8 DEF Returned
    <2>2. Numbers(proof[e].status, proof[e].count) = 0 .. (k - 1)
      <3>1. CASE proof[e].status = "pending_review" BY <1>8, <3>1 DEF Returned
      <3>2. CASE proof[e].status = "rejected"
        <4>1. k = proof[e].count + 1 BY <1>8, <3>2 DEF Returned
        <4>2. k - 1 = proof[e].count BY <1>2, <4>1
        <4> QED BY <3>2, <4>2
      <3> QED BY <1>8, <3>1, <3>2 DEF Returned
    <2>3. /\ proof'[e].status \notin {"none", "pending_review"}
          /\ attempts'[e] = attempts[e] \cup {[n |-> k, verdict |-> proof'[e].status]}
      BY <1>8 DEF Returned
    <2> QED BY <1>1, <1>6, <2>1, <2>2, <2>3
  <1>9. CASE Lapsed(e) BY <1>1, <1>9 DEF Lapsed
  <1> QED BY <1>3, <1>4, <1>5, <1>7, <1>8, <1>9, EntryEffects

\* A row becomes confirmed only by its own entry's registration.
LEMMA ConfirmedOnce ==
  ASSUME TypeOK, [Next]_vars, NEW r \in Rows, row'[r] = "confirmed"
  PROVE  row[r] = "confirmed" \/ \E w \in Workers : RegisterCommit(w) /\ tx[w].e = r[1]
  <1>1. ASSUME NEW w \in Workers, RegisterCommit(w)
        PROVE  row[r] = "confirmed" \/ tx[w].e = r[1]
    BY <1>1 DEF RegisterCommit, InsertRegistration, RowsOf
  <1>2. ASSUME NEW R, CancelRows(R) PROVE row[r] = "confirmed"
    BY <1>2 DEF CancelRows
  <1> QED BY <1>1, <1>2, RowEffects

\* An expiry ends every row of its entry, and none of them comes back.
LEMMA ExpiryNext ==
  /\ TypeOK /\ LockedReadsStable /\ SweepCarriesOverdue /\ UnpaidEntriesAreNew
  /\ OneRequestRegisters /\ [Next]_vars /\ ExpiryEndsTheGroup
  => ExpiryEndsTheGroup'
  <1> SUFFICES ASSUME TypeOK, LockedReadsStable, SweepCarriesOverdue, UnpaidEntriesAreNew,
                      OneRequestRegisters, [Next]_vars, ExpiryEndsTheGroup,
                      NEW e \in Entries, Expired \in events'[e],
                      NEW r \in RowsOf({e}), row'[r] = "confirmed"
               PROVE  FALSE
    BY DEF ExpiryEndsTheGroup, Confirmed, Expired, RowsOf
  <1>1. r \in Rows /\ r[1] = e BY DEF RowsOf
  <1>2. CASE Expired \in events[e]
    <2>1. row[r] # "confirmed" BY <1>2 DEF ExpiryEndsTheGroup, Confirmed
    <2>2. PICK w \in Workers : RegisterCommit(w) /\ tx[w].e = e
      BY <1>1, <2>1, ConfirmedOnce
    <2>3. due[e] = 0 BY <2>2 DEF RegisterCommit, InsertRegistration, OneRequestRegisters
    <2> QED BY <1>2, <2>3 DEF UnpaidEntriesAreNew
  <1>3. CASE Expired \notin events[e]
    <2>1. \A n : Succeeded(n) # Expired BY DEF Succeeded, Expired
    <2>2. Lapsed(e)
      BY <1>3, <2>1, EntryEffects
         DEF SameLedger, Submitted, Verified, Reopened, Returned
    <2>3. r \in ExpiredRows(e) BY <1>1 DEF ExpiredRows, RowsOf, Group
    <2> QED BY <1>1, <2>2, <2>3 DEF Lapsed, CancelRows, Confirmed
  <1> QED BY <1>2, <1>3

LEMMA IInvInit == Init => IInv
  <1> SUFFICES ASSUME Init PROVE IInv OBVIOUS
  <1>1. Idle.op = "idle" /\ Idle.todo = {} BY DEF Idle
  <1>2. \A w \in Workers : tx[w] = Idle BY DEF Init
  <1>3. /\ LocksHeld /\ OneRequestRegisters /\ SweepCarriesOverdue /\ LockedReadsStable
    BY <1>1, <1>2 DEF LocksHeld, OneRequestRegisters, SweepCarriesOverdue,
       LockedReadsStable, LockingOps
  <1>4. /\ UnpaidEntriesAreNew /\ LedgersAgree /\ PaidXorExpired /\ AttemptsContiguous
        /\ ExpiryEndsTheGroup
    BY DEF Init, NoProof, UnpaidEntriesAreNew, LedgersAgree, PaidXorExpired,
       AttemptsContiguous, ExpiryEndsTheGroup, Status, RowsOf, Confirmed
  <1> QED BY <1>3, <1>4, TypeInit DEF IInv

LEMMA IInvNext == IInv /\ [Next]_vars => IInv'
  BY TypeNext, LocksHeldNext, UnpaidNext, OneRequestNext, SweepCarriesNext,
     LockedReadsNext, LedgersNext, AttemptsNext, ExpiryNext DEF IInv

LEMMA Inductive == Spec => []IInv
  BY IInvInit, IInvNext, PTL DEF Spec

-----------------------------------------------------------------------------
(* The results                                                             *)

\* The proof, the ledger, the fee and the verdict history of a payment agree in
\* every reachable state, whatever requests and sweeps overlap.
THEOREM LedgersStayInAgreement == Spec => []LedgersAgree
  <1>1. IInv => LedgersAgree BY DEF IInv
  <1> QED BY <1>1, Inductive, PTL

\* No payment is both paid and expired.
THEOREM NeverPaidAndExpired == Spec => []PaidXorExpired
  <1>1. IInv => PaidXorExpired BY DEF IInv
  <1> QED BY <1>1, Inductive, PTL

\* The verdict history has no gap and no duplicate, so no verdict is ever
\* refused by the unique index on (proof, attempt).
THEOREM AttemptsStayContiguous == Spec => []AttemptsContiguous
  <1>1. IInv => AttemptsContiguous BY DEF IInv
  <1> QED BY <1>1, Inductive, PTL

\* An expired payment leaves no confirmed registration behind.
THEOREM ExpiryAlwaysEndsTheGroup == Spec => []ExpiryEndsTheGroup
  <1>1. IInv => ExpiryEndsTheGroup BY DEF IInv
  <1> QED BY <1>1, Inductive, PTL

\* The anchor row's FOR UPDATE makes every re-read under it a read of the
\* present when the transaction commits.
THEOREM LockedReadsStayTrue == Spec => []LockedReadsStable
  <1>1. IInv => LockedReadsStable BY DEF IInv
  <1> QED BY <1>1, Inductive, PTL

\* A step makes a payment succeed only while its payer is registered.
LEMMA PaidStep ==
  ASSUME IInv, [Next]_vars, NEW e \in Entries,
         Status(e) # "succeeded", Status(e)' = "succeeded"
  PROVE  row[Anchor(e)] = "confirmed" /\ row'[Anchor(e)] = "confirmed"
  <1>1. \/ SameLedger(e) \/ Submitted(e) \/ Verified(e) \/ Reopened(e)
        \/ Returned(e) \/ Lapsed(e)
    BY EntryEffects DEF IInv
  <1>2. CASE SameLedger(e) \/ Submitted(e) \/ Reopened(e) \/ Returned(e)
    <2>1. events'[e] = events[e] BY <1>2 DEF SameLedger, Submitted, Reopened, Returned
    <2> QED BY <2>1 DEF Status
  <1>3. CASE Verified(e) BY <1>3 DEF Verified, LaneOpen
  <1>4. CASE Lapsed(e) BY <1>4 DEF Lapsed, Status, Expired
  <1> QED BY <1>1, <1>2, <1>3, <1>4

\* A cancelled registration never becomes paid.
THEOREM NoPaymentForTheCancelled == Spec => PaidOnlyWhileRegistered
  <1>1. IInv /\ [Next]_vars =>
          [\A e \in Entries :
             Status(e) # "succeeded" /\ Status(e)' = "succeeded" =>
               row[Anchor(e)] = "confirmed" /\ row'[Anchor(e)] = "confirmed"]_vars
    BY PaidStep
  <1> QED BY <1>1, Inductive, PTL DEF Spec, PaidOnlyWhileRegistered

\* A step expires a payment only past its deadline and without evidence.
LEMMA ExpiryStep ==
  ASSUME IInv, [Next]_vars, NEW e \in Entries, Expired \notin events[e], Expired \in events'[e]
  PROVE  Overdue(e) /\ proof[e].status # "pending_review"
  <1>1. \/ SameLedger(e) \/ Submitted(e) \/ Verified(e) \/ Reopened(e)
        \/ Returned(e) \/ Lapsed(e)
    BY EntryEffects DEF IInv
  <1>2. \A n : Succeeded(n) # Expired BY DEF Succeeded, Expired
  <1>3. Lapsed(e)
    BY <1>1, <1>2 DEF SameLedger, Submitted, Verified, Reopened, Returned
  <1> QED BY <1>3 DEF Lapsed

\* The sweep expires only what is overdue, and nothing that awaits a verdict.
THEOREM ExpiryIsDeserved == Spec => ExpiresOnlyUnevidenced
  <1>1. IInv /\ [Next]_vars =>
          [\A e \in Entries :
             Expired \notin events[e] /\ Expired \in events'[e] =>
               Overdue(e) /\ proof[e].status # "pending_review"]_vars
    BY ExpiryStep
  <1> QED BY <1>1, Inductive, PTL DEF Spec, ExpiresOnlyUnevidenced

\* A step leaves what has settled, and erases no verdict.
LEMMA SettledStep ==
  ASSUME IInv, [Next]_vars, NEW e \in Entries
  PROVE  /\ Status(e) # "pending" => Status(e)' = Status(e) /\ accrued'[e] = accrued[e]
         /\ attempts[e] \subseteq attempts'[e]
  <1>1. \/ SameLedger(e) \/ Submitted(e) \/ Verified(e) \/ Reopened(e)
        \/ Returned(e) \/ Lapsed(e)
    BY EntryEffects DEF IInv
  <1>2. CASE SameLedger(e) \/ Submitted(e) \/ Reopened(e) \/ Returned(e)
    <2>1. events'[e] = events[e] /\ accrued'[e] = accrued[e]
          /\ attempts[e] \subseteq attempts'[e]
      BY <1>2 DEF SameLedger, Submitted, Reopened, Returned
    <2> QED BY <2>1 DEF Status
  <1>3. CASE Verified(e) BY <1>3 DEF Verified, LaneOpen
  <1>4. CASE Lapsed(e) BY <1>4 DEF Lapsed
  <1> QED BY <1>1, <1>2, <1>3, <1>4

\* A settled payment stays settled, its fee with it, and no verdict is erased.
THEOREM SettledForGood == Spec => SettlementIsFinal
  <1>1. IInv /\ [Next]_vars =>
          [\A e \in Entries :
             /\ Status(e) # "pending" => Status(e)' = Status(e) /\ accrued'[e] = accrued[e]
             /\ attempts[e] \subseteq attempts'[e]]_vars
    BY SettledStep
  <1> QED BY <1>1, Inductive, PTL DEF Spec, SettlementIsFinal

=============================================================================
