------------------------- MODULE ManualPaymentLane -------------------------
(***************************************************************************)
(* The manual payment lane of one priced competition: registrations, the   *)
(* payment each one owes, the bukti transfer (proof) filed against it, the *)
(* append-only event ledger, the fee accrual and the hourly expiry sweep.  *)
(*                                                                         *)
(* Request handlers and sweeps run concurrently against Postgres at READ   *)
(* COMMITTED.  A handler that reads outside its transaction is a Check     *)
(* action followed by a Commit action, so everything may happen between    *)
(* the two; a handler that takes the anchor registration FOR UPDATE is a   *)
(* Lock action (the reads under the lock) followed by a Commit action that *)
(* releases it; a handler that is one compare-and-set is one action.       *)
(***************************************************************************)
EXTENDS Integers, FiniteSets

CONSTANTS
  Requests,          \* web request handlers that may be running
  Sweepers,          \* worker processes running the expiry sweep
  Entries,           \* registrations as submitted: one individual or one team
  Students,
  Teams,
  NoTeam,            \* TeamOf of an individual entry
  NoWorker,          \* the holder of a free lock
  NoEntry,           \* the entry of a worker that is on none
  NoStudent,
  TeamOf,            \* TeamOf[e]: the team that submits e, or NoTeam
  MembersOf,         \* MembersOf[e]: the students e inserts one row for
  CaptainOf,         \* CaptainOf[e]: the payer, whose row anchors the payment
  PaymentWindow,     \* payment_window_days
  RegistrationEnd,   \* registrationEndAt
  ConfirmationAt,    \* participantConfirmationAt
  CutoffAt,          \* eventStartAt - cancellationCutoffDays
  MaxTime,           \* bound on the clock
  MaxResubmissions   \* bound on resubmission_count

Workers == Requests \cup Sweepers

ASSUME ActorsAssumption ==
  /\ Requests \cap Sweepers = {}
  /\ NoWorker \notin Workers
  /\ NoEntry \notin Entries
  /\ NoTeam \notin Teams
  /\ NoStudent \notin Students

ASSUME EntriesAssumption ==
  /\ TeamOf \in [Entries -> Teams \cup {NoTeam}]
  /\ MembersOf \in [Entries -> SUBSET Students]
  /\ CaptainOf \in [Entries -> Students]
  /\ \A e \in Entries : CaptainOf[e] \in MembersOf[e]

ASSUME TimesAssumption ==
  /\ PaymentWindow \in Nat \ {0}
  /\ RegistrationEnd \in Nat \ {0}
  /\ ConfirmationAt \in Nat
  /\ CutoffAt \in Nat
  /\ MaxTime \in Nat
  /\ MaxResubmissions \in Nat

VARIABLES
  now,          \* the clock every handler reads
  competition,  \* competitions.status, and whether it is cancelled and charges
  row,          \* competition_registrations.status of every row
  team,         \* teams.status
  due,          \* finance_payments.due_at of the entry's payment; 0 = no row
  proof,        \* finance_manual_payment_proofs, one per payment
  attempts,     \* finance_manual_payment_proof_attempts of the proof
  events,       \* finance_payment_events of the payment
  accrued,      \* number of "accrued" rows in finance_fee_accruals
  tx,           \* what each worker is doing
  rowLock,      \* holder of the FOR UPDATE lock on the entry's anchor row
  partLock      \* holder of the competition participation advisory lock

vars == <<now, competition, row, team, due, proof, attempts, events, accrued,
          tx, rowLock, partLock>>

-----------------------------------------------------------------------------
(* Rows, payment groups and the fold                                       *)

Rows == {r \in Entries \X Students : r[2] \in MembersOf[r[1]]}

Anchor(e) == <<e, CaptainOf[e]>>

\* The rows sharing this entry's payment: the team's, of every submission.
Group(e) == {f \in Entries : f = e \/ (TeamOf[f] = TeamOf[e] /\ TeamOf[e] # NoTeam)}

RowsOf(E) == {r \in Rows : r[1] \in E}

Confirmed(R) == {r \in R : row[r] = "confirmed"}

NoProof == [status |-> "none", count |-> 0, allowed |-> TRUE]

Succeeded(n) == [type |-> "succeeded", attempt |-> n]
Expired == [type |-> "expired", attempt |-> 0]

\* The fold of a ledger holding only the two event types this lane appends.
Status(e) ==
  IF \E v \in events[e] : v.type = "succeeded" THEN "succeeded"
  ELSE IF \E v \in events[e] : v.type = "expired" THEN "expired"
  ELSE "pending"

HasSubmittedPaymentProof(e) == \E f \in Group(e) : proof[f].status # "none"

HasCompetitionPaymentInFlight ==
  \E e \in Entries : proof[e].status \in {"pending_review", "verified"}

Overdue(e) == due[e] # 0 /\ due[e] < now

\* Mutants of LaneOpen: a path that skips the registration, and one that skips
\* every condition but the payment's existence.
LaneOpenIgnoringRegistration(e) == due[e] # 0 /\ Status(e) = "pending"
LaneOpenUnchecked(e) == due[e] # 0

\* The conditions requireOpenManualLane checks under the lock.
LaneOpen(e) == due[e] # 0 /\ row[Anchor(e)] = "confirmed" /\ Status(e) = "pending"

\* Mutants of Expirable: the shortlist trusted without the fold, without the
\* proof, or suspended by a proof in any state.
ExpirableUnfolded(e) == proof[e].status # "pending_review"
ExpirableUnsuspended(e) == Status(e) = "pending"
ExpirableWithoutProof(e) == proof[e].status = "none" /\ Status(e) = "pending"

\* What expireOnePayment re-reads under the lock before it writes.
Expirable(e) == proof[e].status # "pending_review" /\ Status(e) = "pending"

\* Mutant of ExpiredRows: the payer's row alone.
ExpiredAnchorOnly(e) == {Anchor(e)}

\* resolveGroupRegistrationIds: an expiry ends the whole payment group.
ExpiredRows(e) == RowsOf(Group(e))

\* Mutant of VoidAttempt: always the next number.
VoidAttemptAlwaysNext(e) == proof[e].count + 1

\* The attempt number a void files: a rejection already took its own.
VoidAttempt(e) ==
  IF proof[e].status = "rejected" THEN proof[e].count + 1 ELSE proof[e].count

RegistrationOpen ==
  competition.status = "published" /\ ~competition.cancelled /\ now < RegistrationEnd

CancellationOpen == now < ConfirmationAt /\ now <= CutoffAt

DueAt == IF RegistrationEnd < now + PaymentWindow THEN RegistrationEnd
         ELSE now + PaymentWindow

-----------------------------------------------------------------------------
(* Workers, transactions and locks                                         *)

LockingOps == {"submit", "verify", "reopen", "expire"}

EntryOps == LockingOps \cup {"register", "cancelRow", "cancelTeam"}

\* The operations that hold the participation lock between their reads and
\* their write; "charge" and "clear" set a price (CompetitionPricing).
ParticipationOps == {"unpublish", "charge", "clear"}

Ops == EntryOps \cup ParticipationOps \cup {"idle", "sweep"}

Idle == [op |-> "idle", e |-> NoEntry, m |-> NoStudent, todo |-> {}]

On(o, e) == [Idle EXCEPT !.op = o, !.e = e]

Sweeping(T) == IF T = {} THEN Idle ELSE [Idle EXCEPT !.op = "sweep", !.todo = T]

Expiring(T, e) == [op |-> "expire", e |-> e, m |-> NoStudent, todo |-> T]

Begin(w, t) == tx[w] = Idle /\ tx' = [tx EXCEPT ![w] = t]

End(w) == tx' = [tx EXCEPT ![w] = Idle]

\* Mutant of LockAnchor: the SELECT without its FOR UPDATE.
LockAnchorNot(w, e) == UNCHANGED rowLock

\* SELECT ... FOR UPDATE on the anchor row, waiting for its holder.
LockAnchor(w, e) ==
  /\ rowLock[e] = NoWorker
  /\ rowLock' = [rowLock EXCEPT ![e] = w]

Release(w) == rowLock' = [e \in Entries |-> IF rowLock[e] = w THEN NoWorker ELSE rowLock[e]]

\* An UPDATE waits for every row it matches that another transaction locked.
Updatable(R, w) ==
  \A e \in Entries : Anchor(e) \in Confirmed(R) => rowLock[e] \in {NoWorker, w}

CancelRows(R) ==
  row' = [r \in Rows |-> IF r \in Confirmed(R) THEN "cancelled" ELSE row[r]]

Init ==
  /\ now = 0
  /\ competition = [status |-> "published", cancelled |-> FALSE, priced |-> TRUE]
  /\ row = [r \in Rows |-> "absent"]
  /\ team = [t \in Teams |-> "forming"]
  /\ due = [e \in Entries |-> 0]
  /\ proof = [e \in Entries |-> NoProof]
  /\ attempts = [e \in Entries |-> {}]
  /\ events = [e \in Entries |-> {}]
  /\ accrued = [e \in Entries |-> 0]
  /\ tx = [w \in Workers |-> Idle]
  /\ rowLock = [e \in Entries |-> NoWorker]
  /\ partLock = NoWorker

lane == <<due, proof, attempts, events, accrued>>
locks == <<rowLock, partLock>>

-----------------------------------------------------------------------------
(* Registering: createIndividualRegistration, submitTeamRegistration       *)

\* The row ids are fresh: no row carries them and no other request holds them.
Fresh(e) ==
  /\ \A r \in RowsOf({e}) : row[r] = "absent"
  /\ \A v \in Workers : tx[v].op = "register" => tx[v].e # e

IndividualMayRegister(e) ==
  /\ TeamOf[e] = NoTeam
  /\ \A r \in Rows : r[2] \in MembersOf[e] => row[r] = "absent"

TeamMayRegister(e) ==
  /\ TeamOf[e] # NoTeam
  /\ team[TeamOf[e]] = "forming"
  /\ \A r \in Confirmed(Rows) : r[2] \notin MembersOf[e]

RegisterCheck(w, e) ==
  /\ RegistrationOpen
  /\ Fresh(e)
  /\ IndividualMayRegister(e) \/ TeamMayRegister(e)
  /\ Begin(w, On("register", e))
  /\ UNCHANGED <<now, competition, row, team, lane, locks>>

\* The rows of an entry and the team's transition: the unique index refuses a
\* second live row, the compare-and-set a team no longer forming.
InsertRegistration(w) == LET e == tx[w].e IN
  /\ tx[w].op = "register"
  /\ partLock = NoWorker
  /\ RegistrationOpen
  /\ \A r \in Confirmed(Rows) : r[2] \notin MembersOf[e]
  /\ TeamOf[e] # NoTeam => team[TeamOf[e]] = "forming"
  /\ row' = [r \in Rows |-> IF r \in RowsOf({e}) THEN "confirmed" ELSE row[r]]
  /\ team' = [t \in Teams |-> IF t = TeamOf[e] THEN "submitted" ELSE team[t]]
  /\ End(w)
  /\ UNCHANGED <<now, competition, proof, attempts, events, accrued, locks>>

\* The registration and the payment it owes, in one transaction that reads the
\* price.  In this module's own specification the price stays; CompetitionPricing
\* sets and clears it.
RegisterCommit(w) ==
  /\ competition.priced
  /\ InsertRegistration(w)
  /\ due' = [due EXCEPT ![tx[w].e] = DueAt]

-----------------------------------------------------------------------------
(* Candidate cancellation: cancelRegistration, cancelTeamRegistration      *)

CancelRowCheck(w, e, m) ==
  /\ m \in MembersOf[e]
  /\ row[<<e, m>>] = "confirmed"
  /\ ~HasSubmittedPaymentProof(e)
  /\ CancellationOpen
  /\ Begin(w, [On("cancelRow", e) EXCEPT !.m = m])
  /\ UNCHANGED <<now, competition, row, team, lane, locks>>

CancelRowCommit(w) == LET r == <<tx[w].e, tx[w].m>> IN
  /\ tx[w].op = "cancelRow"
  /\ partLock = NoWorker
  /\ CancellationOpen
  /\ row[r] = "confirmed"
  /\ Updatable({r}, w)
  /\ CancelRows({r})
  /\ End(w)
  /\ UNCHANGED <<now, competition, team, lane, locks>>

\* The team is named by one of its entries, as the captain's page names it.
CancelTeamCheck(w, e) ==
  /\ TeamOf[e] # NoTeam
  /\ team[TeamOf[e]] = "submitted"
  /\ row[Anchor(e)] # "absent"
  /\ ~HasSubmittedPaymentProof(e)
  /\ CancellationOpen
  /\ Begin(w, On("cancelTeam", e))
  /\ UNCHANGED <<now, competition, row, team, lane, locks>>

CancelTeamCommit(w) == LET R == RowsOf(Group(tx[w].e)) IN
  /\ tx[w].op = "cancelTeam"
  /\ partLock = NoWorker
  /\ CancellationOpen
  /\ Updatable(R, w)
  /\ team[TeamOf[tx[w].e]] = "submitted"
  /\ CancelRows(R)
  /\ team' = [team EXCEPT ![TeamOf[tx[w].e]] = "forming"]
  /\ End(w)
  /\ UNCHANGED <<now, competition, lane, locks>>

-----------------------------------------------------------------------------
(* Writes that can create money: requireOpenManualLane, then the write     *)

\* The lock, and the registration and the fold read under it.
RequireOpenManualLane(w, e, o) ==
  /\ LockAnchor(w, e)
  /\ LaneOpen(e)
  /\ Begin(w, On(o, e))
  /\ UNCHANGED <<now, competition, row, team, lane, partLock>>

SubmitLock(w, e) == RequireOpenManualLane(w, e, "submit")

\* INSERT ... ON CONFLICT (payment_id) DO NOTHING; no row returned is a refusal.
SubmitCommit(w) == LET e == tx[w].e IN
  /\ tx[w].op = "submit"
  /\ proof[e].status = "none"
  /\ proof' = [proof EXCEPT ![e].status = "pending_review"]
  /\ End(w)
  /\ Release(w)
  /\ UNCHANGED <<now, competition, row, team, due, attempts, events, accrued, partLock>>

VerifyLock(w, e) ==
  /\ proof[e].status = "pending_review"
  /\ RequireOpenManualLane(w, e, "verify")

\* The attempt the closing proof files; the unique index refuses a second one.
RecordProofAttempt(e, n, verdict) ==
  /\ \A a \in attempts[e] : a.n # n
  /\ attempts' = [attempts EXCEPT ![e] = @ \cup {[n |-> n, verdict |-> verdict]}]

\* Mutant of VerifyCommit: a refused compare-and-set does not stop the money.
VerifyCommitEventFirst(w) == LET e == tx[w].e  open == proof[e].status = "pending_review" IN
  /\ tx[w].op = "verify"
  /\ proof' = IF open THEN [proof EXCEPT ![e].status = "verified"] ELSE proof
  /\ IF open THEN RecordProofAttempt(e, proof[e].count, "verified") ELSE UNCHANGED attempts
  /\ events' = [events EXCEPT ![e] = @ \cup {Succeeded(proof[e].count)}]
  /\ accrued' = IF open THEN [accrued EXCEPT ![e] = 1] ELSE accrued
  /\ End(w)
  /\ Release(w)
  /\ UNCHANGED <<now, competition, row, team, due, partLock>>

VerifyCommit(w) == LET e == tx[w].e IN
  /\ tx[w].op = "verify"
  /\ proof[e].status = "pending_review"
  /\ proof' = [proof EXCEPT ![e].status = "verified"]
  /\ RecordProofAttempt(e, proof[e].count, "verified")
  /\ events' = [events EXCEPT ![e] = @ \cup {Succeeded(proof[e].count)}]
  /\ accrued' = [accrued EXCEPT ![e] = IF @ = 0 THEN 1 ELSE @]
  /\ End(w)
  /\ Release(w)
  /\ UNCHANGED <<now, competition, row, team, due, partLock>>

Reopenable(e) ==
  \/ proof[e].status = "rejected" /\ proof[e].allowed
  \/ proof[e].status = "voided"

ReopenLock(w, e) ==
  /\ proof[e].status # "none"
  /\ RequireOpenManualLane(w, e, "reopen")

ReopenCommit(w) == LET e == tx[w].e IN
  /\ tx[w].op = "reopen"
  /\ Reopenable(e)
  /\ proof[e].count < MaxResubmissions
  /\ proof' = [proof EXCEPT ![e].status = "pending_review", ![e].count = @ + 1]
  /\ End(w)
  /\ Release(w)
  /\ UNCHANGED <<now, competition, row, team, due, attempts, events, accrued, partLock>>

-----------------------------------------------------------------------------
(* Writes that only close an attempt: one compare-and-set, no lane check   *)

RejectManualPaymentProof(e, allowed) ==
  /\ proof[e].status = "pending_review"
  /\ proof' = [proof EXCEPT ![e].status = "rejected", ![e].allowed = allowed]
  /\ RecordProofAttempt(e, proof[e].count, "rejected")
  /\ UNCHANGED <<now, competition, row, team, due, events, accrued, tx, locks>>

VoidManualPaymentProof(e) == LET n == VoidAttempt(e) IN
  /\ proof[e].status \in {"pending_review", "rejected"}
  /\ n <= MaxResubmissions
  /\ proof' = [proof EXCEPT ![e].status = "voided", ![e].count = n]
  /\ RecordProofAttempt(e, n, "voided")
  /\ UNCHANGED <<now, competition, row, team, due, events, accrued, tx, locks>>

-----------------------------------------------------------------------------
(* The expiry sweep: selectOverduePayments, then one transaction a payment *)

SweepSelect(w) ==
  /\ \E e \in Entries : Overdue(e)
  /\ Begin(w, Sweeping({e \in Entries : Overdue(e)}))
  /\ UNCHANGED <<now, competition, row, team, lane, locks>>

\* The transaction declines: a proof awaits review, or the payment has settled.
ExpireDecline(w, e) ==
  /\ tx[w].op = "sweep" /\ e \in tx[w].todo
  /\ rowLock[e] = NoWorker
  /\ ~Expirable(e)
  /\ tx' = [tx EXCEPT ![w] = Sweeping(tx[w].todo \ {e})]
  /\ UNCHANGED <<now, competition, row, team, lane, locks>>

ExpireLock(w, e) ==
  /\ tx[w].op = "sweep" /\ e \in tx[w].todo
  /\ LockAnchor(w, e)
  /\ Expirable(e)
  /\ tx' = [tx EXCEPT ![w] = Expiring(tx[w].todo, e)]
  /\ UNCHANGED <<now, competition, row, team, lane, partLock>>

ExpireCommit(w) == LET e == tx[w].e IN
  /\ tx[w].op = "expire"
  /\ Updatable(ExpiredRows(e), w)
  /\ events' = [events EXCEPT ![e] = @ \cup {Expired}]
  /\ CancelRows(ExpiredRows(e))
  /\ tx' = [tx EXCEPT ![w] = Sweeping(tx[w].todo \ {e})]
  /\ Release(w)
  /\ UNCHANGED <<now, competition, team, due, proof, attempts, accrued, partLock>>

-----------------------------------------------------------------------------
(* The competition withdrawn, cancelled or published again                 *)

UnpublishCheck(w) ==
  /\ partLock = NoWorker
  /\ competition.status = "published" /\ ~competition.cancelled
  /\ now < ConfirmationAt
  /\ ~HasCompetitionPaymentInFlight
  /\ Begin(w, [Idle EXCEPT !.op = "unpublish"])
  /\ partLock' = w
  /\ UNCHANGED <<now, competition, row, team, lane, rowLock>>

UnpublishCommit(w) ==
  /\ tx[w].op = "unpublish"
  /\ competition.status = "published"
  /\ Updatable(Rows, w)
  /\ competition' = [competition EXCEPT !.status = "draft"]
  /\ CancelRows(Rows)
  /\ End(w)
  /\ partLock' = NoWorker
  /\ UNCHANGED <<now, team, lane, rowLock>>

\* An operator cancels past the in-flight guard: cancelCompetitionAsOps.
CancelCompetitionAsOps ==
  /\ partLock = NoWorker
  /\ competition.status = "published"
  /\ Updatable(Rows, NoWorker)
  /\ competition' = [competition EXCEPT !.status = "draft"]
  /\ CancelRows(Rows)
  /\ UNCHANGED <<now, team, lane, tx, locks>>

\* The organiser's terminal decision after the confirmation moment.
CancelForInsufficientParticipation ==
  /\ partLock = NoWorker
  /\ competition.status = "published" /\ ~competition.cancelled
  /\ now >= ConfirmationAt
  /\ Updatable(Rows, NoWorker)
  /\ competition' = [competition EXCEPT !.cancelled = TRUE]
  /\ CancelRows(Rows)
  /\ UNCHANGED <<now, team, lane, tx, locks>>

Publish ==
  /\ competition.status = "draft"
  /\ competition' = [competition EXCEPT !.status = "published"]
  /\ UNCHANGED <<now, row, team, lane, tx, locks>>

-----------------------------------------------------------------------------
\* A refusal, an error or a dead process: the transaction rolls back and its
\* locks are released.  A sweep logs the payment and carries on, or dies too.
Abort(w) ==
  /\ tx[w] # Idle
  /\ \/ End(w)
     \/ /\ tx[w].op = "expire"
        /\ tx' = [tx EXCEPT ![w] = Sweeping(tx[w].todo \ {tx[w].e})]
  /\ Release(w)
  /\ partLock' = IF partLock = w THEN NoWorker ELSE partLock
  /\ UNCHANGED <<now, competition, row, team, lane>>

Tick ==
  /\ now < MaxTime
  /\ now' = now + 1
  /\ UNCHANGED <<competition, row, team, lane, tx, locks>>

RequestStep(w) ==
  \/ \E e \in Entries : RegisterCheck(w, e)
  \/ RegisterCommit(w)
  \/ \E e \in Entries, m \in Students : CancelRowCheck(w, e, m)
  \/ CancelRowCommit(w)
  \/ \E e \in Entries : CancelTeamCheck(w, e)
  \/ CancelTeamCommit(w)
  \/ \E e \in Entries : SubmitLock(w, e)
  \/ SubmitCommit(w)
  \/ \E e \in Entries : VerifyLock(w, e)
  \/ VerifyCommit(w)
  \/ \E e \in Entries : ReopenLock(w, e)
  \/ ReopenCommit(w)
  \/ UnpublishCheck(w)
  \/ UnpublishCommit(w)

SweeperStep(w) ==
  \/ SweepSelect(w)
  \/ \E e \in Entries : ExpireDecline(w, e)
  \/ \E e \in Entries : ExpireLock(w, e)
  \/ ExpireCommit(w)

VerdictStep ==
  \E e \in Entries :
    \/ \E allowed \in BOOLEAN : RejectManualPaymentProof(e, allowed)
    \/ VoidManualPaymentProof(e)

CompetitionStep ==
  \/ CancelCompetitionAsOps
  \/ CancelForInsufficientParticipation
  \/ Publish

Next ==
  \/ \E w \in Requests : RequestStep(w)
  \/ \E w \in Sweepers : SweeperStep(w)
  \/ \E w \in Workers : Abort(w)
  \/ VerdictStep
  \/ CompetitionStep
  \/ Tick

Spec == Init /\ [][Next]_vars

-----------------------------------------------------------------------------
(* Properties                                                              *)

TxTypes ==
  {t \in [op : Ops, e : Entries \cup {NoEntry}, m : Students \cup {NoStudent},
          todo : SUBSET Entries] :
     t.op \in EntryOps => t.e \in Entries}

Attempts == [n : Nat, verdict : {"verified", "rejected", "voided"}]

Proofs ==
  [status : {"none", "pending_review", "verified", "rejected", "voided"},
   count : Nat, allowed : BOOLEAN]

EventRows == [type : {"succeeded", "expired"}, attempt : Nat]

\* Every table and every worker holds values of its own kind.
TypeOK ==
  /\ now \in Nat
  /\ competition \in [status : {"published", "draft"}, cancelled : BOOLEAN, priced : BOOLEAN]
  /\ row \in [Rows -> {"absent", "confirmed", "cancelled"}]
  /\ team \in [Teams -> {"forming", "submitted"}]
  /\ due \in [Entries -> Nat]
  /\ proof \in [Entries -> Proofs]
  /\ attempts \in [Entries -> SUBSET Attempts]
  /\ events \in [Entries -> SUBSET EventRows]
  /\ accrued \in [Entries -> Nat]
  /\ tx \in [Workers -> TxTypes]
  /\ rowLock \in [Entries -> Workers \cup {NoWorker}]
  /\ partLock \in Workers \cup {NoWorker}

\* A verdict that accepts money writes three tables, and no interleaving of
\* verifications, retries, rejections and voids makes them disagree: a proof is
\* verified exactly when the ledger folds to succeeded, exactly when one fee is
\* owed, and the attempt that earned it is the proof's last.
LedgersAgree ==
  \A e \in Entries :
    /\ (proof[e].status = "verified") <=> (Status(e) = "succeeded")
    /\ (proof[e].status = "verified") <=> (accrued[e] = 1)
    /\ accrued[e] \in {0, 1}
    /\ proof[e].status = "verified" =>
         /\ [n |-> proof[e].count, verdict |-> "verified"] \in attempts[e]
         /\ {v \in events[e] : v.type = "succeeded"} = {Succeeded(proof[e].count)}

\* The fold hides an expired event behind a succeeded one; the lane never
\* relies on that.  No ledger holds both: the sweep and the verdict serialise
\* on the anchor row and each re-reads what the other wrote.
PaidXorExpired ==
  \A e \in Entries :
    ~((\E v \in events[e] : v.type = "succeeded") /\ Expired \in events[e])

\* The verdict history is complete: attempt numbers run from 0 without a gap,
\* each closed once, and the open attempt is the next number, so the unique
\* index (proof, attempt) never refuses a verdict.
AttemptsContiguous ==
  \A e \in Entries :
    /\ \A a, b \in attempts[e] : a.n = b.n => a = b
    /\ {a.n : a \in attempts[e]} =
         IF proof[e].status = "none" THEN {}
         ELSE IF proof[e].status = "pending_review" THEN 0 .. (proof[e].count - 1)
         ELSE 0 .. proof[e].count

\* A payment group ends together: once a payment has expired none of the rows
\* it was owed for is confirmed, whoever was cancelling them meanwhile.
ExpiryEndsTheGroup ==
  \A e \in Entries : Expired \in events[e] => Confirmed(RowsOf({e})) = {}

\* What a handler read under the row lock is still true when it writes.
LockedReadsStable ==
  \A w \in Workers :
    /\ tx[w].op \in {"submit", "verify", "reopen"} => LaneOpen(tx[w].e)
    /\ tx[w].op = "expire" =>
         Status(tx[w].e) = "pending" /\ proof[tx[w].e].status # "pending_review"

\* The strengthening that makes the invariants above inductive.  A worker inside
\* a locking transaction holds its anchor row; an entry without a payment has
\* left no trace in the ledgers, as one without rows has none; one request at most
\* registers an entry; a sweep only carries payments that are past their deadline.
LocksHeld == \A w \in Workers : tx[w].op \in LockingOps => rowLock[tx[w].e] = w

UnpaidEntriesAreNew ==
  \A e \in Entries :
    /\ due[e] = 0 => proof[e].status = "none" /\ events[e] = {} /\ accrued[e] = 0
    /\ proof[e].status = "none" => proof[e].count = 0
    /\ \A r \in RowsOf({e}) : row[r] = "absent" => due[e] = 0

OneRequestRegisters ==
  \A v, w \in Workers :
    tx[v].op = "register" /\ tx[w].op = "register" =>
      due[tx[w].e] = 0 /\ (tx[v].e = tx[w].e => v = w)

SweepCarriesOverdue ==
  \A w \in Workers :
    /\ \A e \in tx[w].todo : Overdue(e)
    /\ tx[w].op = "expire" => tx[w].e \in tx[w].todo

IInv ==
  /\ TypeOK
  /\ LocksHeld /\ UnpaidEntriesAreNew /\ OneRequestRegisters /\ SweepCarriesOverdue
  /\ LockedReadsStable /\ LedgersAgree /\ PaidXorExpired
  /\ AttemptsContiguous /\ ExpiryEndsTheGroup

\* A cancelled registration cannot become paid: the ledger gains a succeeded
\* event only while the anchor row is confirmed.
PaidOnlyWhileRegistered ==
  [][\A e \in Entries :
       Status(e) # "succeeded" /\ Status(e)' = "succeeded" =>
         row[Anchor(e)] = "confirmed" /\ row'[Anchor(e)] = "confirmed"]_vars

\* A payment is expired only past its deadline, and never while a proof of it
\* awaits review, however the upload and the sweep interleave.
ExpiresOnlyUnevidenced ==
  [][\A e \in Entries :
       Expired \notin events[e] /\ Expired \in events'[e] =>
         Overdue(e) /\ proof[e].status # "pending_review"]_vars

\* A settled payment is settled for good, and history is never rewritten.
SettlementIsFinal ==
  [][\A e \in Entries :
       /\ Status(e) # "pending" => Status(e)' = Status(e) /\ accrued'[e] = accrued[e]
       /\ attempts[e] \subseteq attempts'[e]]_vars

=============================================================================
