# Lomba Kita: a TLA+ model of the competition platform's server

Lomba Kita is a Next.js application on Postgres, Redis and object storage.
Institutions publish competitions; candidates register, alone or as a team; a
priced competition is paid by bank transfer, of which the payer uploads a
photograph (the *bukti transfer*, "proof" below); the institution or an operator
accepts or returns it; a worker process expires what nobody paid.  All of the
state is in Postgres.  Handlers run concurrently in several web processes, the
worker runs beside them, and transactions run at READ COMMITTED, so what keeps
the tables consistent is a handful of row locks, one advisory lock, partial
unique indexes and compare-and-set updates.  That is what this project models.

Source paths below are relative to `src/src/server/` unless they start with `src/`.

## Inventory

| Component | State | Operations | What makes it hard | What makes it correct |
|---|---|---|---|---|
| Manual payment lane (`finance/manual-payment-proof-service.ts`, `payment-expiry-service.ts`, `paid-registration.ts`, `ops-payment-service.ts`) | proofs, attempts, events, fee accruals, `due_at` | submit, verify, reject, reopen, void, sweep | uploads, verdicts and sweeps race; three tables written per verdict; a sweep that fails half way | the tables agree; never paid and expired; paid only while registered; overdue payments resolve |
| Registrations (`registrations/`) | `competition_registrations` | register, self-cancel | checks before the transaction | one live row per student; no cancellation under evidence |
| Team registrations (`teams/team-registration-service.ts`) | the same rows, `teams.status` | submit, withdraw | a team pays once for many rows and may submit twice | the group stands and falls together |
| Team lifecycle (`teams/team-service.ts`) | teams, memberships, invitations | create, rename, disband, invite, cancel, accept, decline, remove | almost no operation locks or compares-and-sets | one team per candidate, size at most the maximum, whoever is registered is a member |
| Competition lifecycle (`competitions/competition-service.ts`, `competition-participation-service.ts`) | `competitions.status`, `cancelled_at`, `will_proceed_confirmed_at` | create, edit, publish, unpublish, archive, cancel, confirm | in-flight guards, fee edits under registrations | no withdrawal under money in flight; a priced competition can charge |
| Payment ledger (`finance/payment-service.ts`, `idempotency-key.ts`, `fee-accrual-service.ts`, `src/src/lib/finance/payment-state.ts`) | payments, events, accruals | create, append, fold, accrue, reverse | replays, rolled-back first deliveries, out-of-order events | one event per key, none lost; a fee exactly with its verdict; a fold that keeps its precedence |
| Fee rules (`finance/fee-rule-service.ts`, `src/src/lib/finance/fee.ts`) | fee rules | create, resolve, compute | rules written into the past, minima above small payments | a payment owes the fee it was priced at, within what it received |
| Pricing and fee disclosure (`competitions/competition-fee-service.ts`, `finance/charging-readiness.ts`) | `competitions.fee_amount`, acknowledgements | set, clear, acknowledge, check | a price set while people register for nothing | nobody owes what they did not agree to; the fee charged is the one disclosed |
| Payment notices (`finance/payment-notifications.ts`, `async/`, `notifications/`, `email/`) | jobs and their idempotency keys, inbox rows | enqueue, take, mail, fail, retry, stall | enqueued after the commit, in any order; a key computed from what is read by then; a mail that fails half way through its recipients | what is announced happened; nothing ends unseen; a job comes to an end |
| Auth (`auth/`) | users, tokens, sessions, MFA factors | login, revoke, reset, verify, enrol, challenge | stateless session tokens, single-use tokens | a revoked session is dead; a token works once |
| Institution ownership (`institution-members/`, `institution-invitations/`, `institution-workspace/`) | institutions, memberships, invitations | create, upgrade, invite, accept, decline, cancel, change role, remove | three locks that different handlers take in part; counts of owners and of institutions under them | an institution keeps an owner; the cap holds; an invitation is accepted once |
| Institution verification (`institution-verification/`) | submissions | submit, decide | two operators decide at once | one live decision |
| Moderation and accounts (`moderation/`, `accounts/`) | `suspended_at`, everything of a user | suspend, unsuspend, reinstate, de-identify | rows granted while an account goes | an account that is gone holds nothing |
| Submissions (`submissions/`, `async/jobs/retention-purge.ts`) | `competition_submissions`, objects in the bucket | grant a link, record, replace, finalize, sweep, purge, blank | rows and objects share no transaction; sweeps and erasures beside uploads; teammates | a finalized entry is locked and has its bytes; the abandoned goes |
| Recruiters, featured placements, participants and results, registration documents | one row each, files' metadata | decide, place, review, publish, upload | decisions racing, uploads against reviews | one live decision; what is final does not change |
| Rate limiting (`redis/`) | counters | consume | the window's boundary | the limit holds |
| Pages, API routes, scripts, read-only queries, storage, e-mail | none | | | |

### How they interact

* A *registration* of a priced competition creates the payment in the same
  transaction; its anchor is the registrant's row, or the captain's for a team.
* A *proof* belongs to one payment for ever (unique index): the revision loop
  reopens the row, and each verdict closes an attempt in a second table.
* A *verdict* of acceptance writes, in one transaction, the proof, the attempt,
  a `succeeded` event and the fee accrual.  Whether a payment is paid is not
  stored: it is folded from its events.
* The *sweep* reads a shortlist of overdue payments and then takes them one at a
  time, each in its own transaction, cancelling every row of the payment's group.
* *Two locks.*  Handlers that can create money, and the sweep, take the anchor
  registration `FOR UPDATE`.  Handlers that change who participates take the
  competition's participation advisory lock.  No handler takes both, so the two
  families meet only in the row locks an `UPDATE` takes.
* A *decision* about a proof is announced after its transaction: the handler reads
  the facts again and adds a job to the queue; a worker writes inbox rows and mails.
* *Ownership* has three locks of its own: an advisory lock per institution, one per
  founder's cap, and the user's row.  De-identification takes the first for every
  institution of the account and the last for the account.
* A *team's registration* is a row per member.  The team service inserts and withdraws
  them together, but a member cancels their own as any registrant does, and the sweep
  and every withdrawal of the competition cancel them all; none of these touches the
  team, which stays `submitted`.
* An *entry* is a row that names a key; the bytes are put by the browser under a
  presigned link.  Nothing but times tells an upload under way from an abandoned one.

## Modules

| Module | Models |
|---|---|
| `ManualPaymentLane` | The lane of one priced competition: registration, team submission, both withdrawals, the five proof operations, the sweep, and publishing, unpublishing and cancelling as they act on rows. Properties and the inductive invariant. |
| `PaymentPromise` | Abstract specification: six stages of a payment, a fee and a live registration. |
| `PaymentBook` | Abstract specification: what the books promise whoever writes to them: an event under a key of its own, a verdict's with its one fee. |
| `LaneClaims` | The refinement mappings from the lane to the promise and to the book, fairness and progress, and two claims of the code's comments. |
| `CompetitionPricing` | The lane of a competition whose price is set and cleared beside it; registrations that owe nothing. |
| `TeamLifecycle` | Creation, invitation, acceptance, declining, removal, disbanding, submission and withdrawal of teams, each handler split at its unlocked read, and what cancels a team's rows without it. Properties and the inductive invariant. |
| `TeamClaims` | Promises of the team code's comments, what of each is left when handlers overlap, the inductive invariant under which handlers that do not overlap keep them, and what handlers that do overlap would have to repeat when they write. |
| `PaymentLedger` | Fee rules, the pricing of a payment, `appendPaymentEvent`, `recordFeeAccrual` and its reversal, under concurrent and repeated delivery; its mapping to `PaymentBook`. Properties and the inductive invariant. |
| `LedgerStatus` | The fold of a ledger with refunds and corrections, on top of `PaymentLedger`. |
| `InstitutionOwnership` | Founding, upgrading, invitations, role changes and removals, moderation and de-identification, under their three locks. Properties and the inductive invariant. |
| `PaymentNotices` | The decisions on one proof, their notices, the job queue, the worker and its failures. Properties and the inductive invariant. |
| `Submissions` | Links, objects and entries of one competition, the sweep beside the uploads, the retention purge and de-identification. Properties and the inductive invariant. |
| `ManualPaymentLane_proofs`, `LaneClaims_proofs` (with the pricing), `TeamLifecycle_proofs` (with the claims), `PaymentLedger_proofs`, `LedgerStatus_proofs`, `InstitutionOwnership_proofs`, `PaymentNotices_proofs`, `Submissions_proofs` | The theorems and their proofs. |
| `MCLaneSolo`, `MCLaneTeam`, `MCTeam`, `MCLedger`, `MCOwnership`, `MCNotices`, `MCSubmissions` | Instances for TLC; each `.cfg` is one run. |

The lane composes registration, team submission, competition and ledger because
their handlers meet in the same rows and locks.  Teams and ledger have modules of
their own, in which what the lane takes for granted (a fixed roster; an event that
is appended once; a fee that is one number) is itself the subject.  Pricing is
composed with the lane because it shares its participation lock; notices,
ownership and submissions touch rows of their own.

### From the code to the models

**Transactions.**  All modules follow one rule.  What a handler reads outside
its transaction, or inside it without a lock, is a `...Check` action that stores
what was decided in `tx[w]`; what it writes is a `...Commit` action whose guards
are only what the database still enforces: a `WHERE` clause of the update, a
unique index, a check repeated inside the transaction.  A `SELECT ... FOR UPDATE`
is a `...Lock` action that takes the lock, reads under it and leaves the lock to
the commit.  A handler whose only guard is its compare-and-set
(`RejectManualPaymentProof`, `VoidManualPaymentProof`) is one action.  `Abort` is
an error, a refusal, a lost connection or a dead process: the transaction rolls
back and its locks are released.  A check's several reads are collapsed into one
moment; what separates the check from its commit is what the properties are about.

**The lane.**  `row` is `competition_registrations.status` of every row that a
submission may insert; an *entry* is one submission with its payment: an
individual's, or one of a team's, which may withdraw and submit again.  `due`
is `finance_payments.due_at`, with 0 for no payment.  `proof`, `attempts`,
`events` and `accrued` are the four tables a verdict touches.  `rowLock` is the
`FOR UPDATE` lock on the anchor row, `partLock` the competition's participation
lock.  Whether a payment is paid is `Status`, folded from `events` as the code
folds it.  `Updatable` is the wait of an `UPDATE` for every row it matches, which
is how a cancellation meets an open verdict.

**Teams.**  `membership` and `invitation` are tables whose rows are inserted
under unused ids; `lapsed` is an `expires_at` in the past.  `accounts` are the
verified ones: `Signup` runs `claimPendingInvitationsForUser` in its transaction.
`LapsedRollBack` is `acceptTeamInvitationForUser` on an expired invitation: its
update is rolled back by its own refusal, so the action changes nothing.
`registered[t]` are the students of the team's live rows.  `SubmitCommit` and `Withdraw`
write it with the team; `CancelOwn` is `cancelRegistration`, which asks nothing of the
row's type, `ExpireGroup` the sweep's cancellation, and `CancelEveryRow` unpublishing and
the two cancellations of a competition.  These leave `team` and `membership` alone.  Their
own refusals (evidence under review, a window that is shut, an amount that is not due) are
the lane's subject and are left out here, so that each may come at any time.  `open` is
what the team's handlers ask of the competition: published, not cancelled, before the
end of registration.  `Publish` opens it again, for a draft that is published a second
time (`competitions/competition-service.ts:888`) or an end that is moved (`:564`); a
cancelled competition never opens again in the code and may in the model, which
allows more.

**The ledger.**  A call of `appendPaymentEvent` is the row it would insert;
`verdict` marks the calls of `verifyManualPaymentProof`, which go on to
`recordFeeAccrual` in the same transaction.  `KeyIsFree` is the unique index as
Postgres enforces it: the insert waits while another open transaction holds the
key.  Then either that one rolled back and this one inserts, or it committed and
this one is compared with what it recorded (`Replays`, `RefuseKey`).  `payment[p]`
is the rule the payment was priced by, which `recordFeeAccrual` loads by id.
A rule's minimum, maximum and end may be null: 0, or a value never reached.
`acked` is no table: it is what callers were told.  Today only verification and
the sweep append; the functions are written and commented for gateways, refunds
and corrections as well, and the module holds them to that.

**Pricing.**  `competition.priced` is `fee_amount > 0`; amounts and currencies are left
out, and
what charging requires of an institution (instructions, acknowledgement) is a
refusal.  `RegisterCommit` inserts rows with a payment while the
competition charges, `RegisterFree` the same rows without one.
`setCompetitionFee` holds the participation lock from its classification
(`SetFeeLock`) to its write (`SetFeeCommit`); the classification counts payment
groups with a live row and no live priced anchor (`HasActiveFree`).  Uploads do not
take that lock, so a price may be cleared past a proof that committed after the
in-flight check, the gap unpublishing has too.  Clearing a price leaves open
payments behind, which the sweep still expires with their group.

**Ownership.**  `tx[w]` holds what a handler has read and the locks it has:
`own`, institutions under the ownership lock; `row`, the user's row; `cap`, the
founder's cap lock.  No handler takes all three, so each is an optional `...Check`
without a lock, a `...Decide` that waits for its locks and reads under them, and a
`...Commit`.  De-identification is four steps (`DeidentifyLock`, `...Check`,
`...Personal`, `...Commit`): it locks what it read the account to be a member of,
then the row, asks again whether that set still stands, asks for institutions it
would orphan and then, in another statement, for the personal one to suspend.  The
ownership locks of several institutions are taken in one step (the code takes them
in ascending order, which excludes deadlock).  Refusals on account of published
competitions and of forming teams are `Abandon`; an invitation's expiry, which a
throw rolls back, claims by address and the other tables a de-identification scrubs are
left out; what it does to entries and their files is in `Submissions`.  Declined and cancelled are both `closed`.
`granted` and `accepted` are history.

**Notices.**  `proof` is the state a decision changes; `note[k]` is where the notice
of decision `k` is: due, queued under a job id, dropped as a duplicate, or lost.
`JobOf` is the idempotency key: a submission's carries its own attempt, an outcome's
the attempt read when the facts are loaded.  `jobs` is the queue's hash of each id:
`made` are the attempts counted against `ASYNC_JOB_DEFAULT_OPTIONS.attempts`,
`stalls` against `maxStalledCount`, `todo` the recipients the present run has not
come to, `posted` and `mailed` who has been reached in any run, `reports` what was
captured.  BullMQ and Redis are modelled by what the code relies on.  The inbox is a
set of recipients; recipients do not change; a frozen worker that goes on mailing
after its job was given away is left out.

**Submissions.**  `link[k]` is when a presigned URL was minted, `put[k]` the object's
`lastModified`, `bytes` the keys with an object, `entry[r]` the row with its key, when
it was recorded, by whom, and when finalized.  `tx[w]` is what a request, a purge or an
erasure is about to do: a sweep, a replaced file, a purge or an erasure deletes its
`doomed` keys one at a time, and any of them may die in between (`Abort`).  Two reads of one sweep, or of one purge,
are one moment.  `RecordCheck` confirms the object and reads the entry to be
replaced, `RecordCommit` is the upsert with its own `WHERE`.  `calls[k]` counts how
often a key was sent to be recorded, for the client may resend the request; the
browser puts once per link (`src/src/components/submissions/submission-shell.tsx`).
De-identification is a rehearsal, rolled back, that names the files of the entries the
account was the last to record (`RehearseErasure`), the deletion of these files, and the
same writes for good (`EraseRows`): the account is deactivated and every entry it was the
last to record has its key overwritten, finalized or not, whatever was recorded since the
rehearsal.  `account` is `leaving` from the first rehearsal on; no column says so and no
action but the erasure's asks for it.  Access, cancelled registrations, versions and file
metadata are left out.

## Runs

The longest runs take about two and a half minutes with two workers.  Where a run
disables the deadlock check, the system may really stop: the clock is bounded and
nobody must act again.

| Run | Bounds | What it shows |
|---|---|---|
| `lane_solo` | 1 individual entry, 2 requests, 1 sweep, clock 0..3, 2 resubmissions, with fairness; 10,292 states | The tables agree through every interleaving of uploads, verdicts, revisions, cancellations and sweeps; settlement is final; the lane implements `PaymentPromise` and writes to `PaymentBook` as one caller would; an overdue payment settles or is under review, though sweeps abort, die and wait. |
| `lane_team` | 2 submissions of one team of 2, 2 requests, 1 sweep, no resubmission, a price that is set and cleared; 357,716 states | A payment expires only past its deadline and without evidence under review, and with it the whole group; no price is attached to a registration taken for free. |
| `team_rosters` | 2 teams, 3 users, 2 overlapping handlers, 2 invitations, 2 memberships, minimum and maximum 2; 777,026 states | What overlapping handlers leave of the promises: the captain is in every roster and every submission, live rows come about together and otherwise fall away, disbanding is final; and each promise they do break (seats, one team per candidate, registered members, disbanded teams, signups) is broken by a write over a stale reading, and by no more of them than there are handlers that overlap. |
| `ledger` | 2 payments, 2 fee rules, 7 calls, 2 requests, clock 1..2; 934,000 states | The tables implement `PaymentBook` however calls overlap and retry; no event is acknowledged and lost; each verdict owes its fee once, by the terms its payment snapshotted; the precedence of the fold under every order of recording. |
| `ownership` | 2 users, 2 institutions, 1 invitation, 2 handlers, one full and one personal institution per founder; 2,329,165 states | A full institution keeps an owner, a personal one its own or it stays suspended, caps hold, a de-identified account holds nothing, an invitation is accepted once. |
| `notices` | 1 proof with 1 resubmission, 2 members, 1 reviewer, 2 attempts per job, 1 stall, the job of a second refusal followed; 424,240 states | What is announced is what happened; a duplicate is dropped only when overtaken; no job ends unseen and each ends. |
| `submissions` | 1 registration, 2 keys, 2 accounts with a request each, 1 purge, 1 erasure of either, link life 1, window to 2, purge from 3, clock 1..4, 2 calls per key; 713,636 states | A file recorded in time by an account that stays keeps its bytes while its entry may count; a finalized entry is locked, but for the erasure of the account that recorded it and a purge that read it before; what was abandoned is reclaimed though purges die half way. |
| `claim_sweep_spares`, `claim_unpublish`, `claim_disband_submit`, `claim_last_owner`, `claim_finalized_purged` | as above, `claim_disband_submit` with 2 users and 1 invitation | Five comments that the code does not keep; see Findings. |

**Why these bounds are enough.**  Two requests are what every race here needs:
one that read and one that commits meanwhile; the sweep is a third worker.  The
clock passes the end of registration, then the due date, then the cancellation
cutoff and the confirmation moment, so every window is seen open and shut, and in
`lane_team` a payment may fall due before registration ends or with it.  Two resubmissions reach an
attempt that follows both a rejection and a void.  A second submission of a team
is what tells a payment's rows from its team's rows.  In `team_rosters` a team of two
is full with its captain and one invitation, so two handlers overfill it; two
teams and three users let one founder accept elsewhere, and two memberships are a
captain and a member of one team or the captains of two.  Its minimum is its maximum, so that a
submission with one member too few or too many is seen.

The seven calls of `ledger` are a verdict, its retry, a second attempt's verdict, a key
already spent on another payment, a failure and an expiry recorded in the opposite
order to the one in which they occurred, a refund of all that was captured and a
correction upwards; the two rules are a global one and one of the institution that
may be backdated before it and whose minimum exceeds the smaller payment.  Two users
and two institutions let each owner remove the other, and let one account hold an
institution alone and another jointly; the caps of one are reached by the second
founding.  In `notices` one resubmission makes two refusals of which the later read
may give both one key; the runs of the other jobs are the same, so one is followed,
through a failure, a retry, a stall and the stall check's refusal.  In `submissions`
one registration has two keys and two members, so that either replaces the other's entry
and is erased under it; what a purge does beside another registration is left to the
proofs, which allow any number.  The times are the least at which a link dies inside
the window, the window closes before the purge, and the purge may run twice.

Bounds of the models are `MaxTime`, `MaxResubmissions`, `LastAttempt`, `Followed` and
`MaxCalls` and, for rows, the sets of ids.  The proofs assume no values for them.

### Fairness

In `lane_solo` (`Fairness` in `LaneClaims`):

* `WF` of `SweepSelect`: the worker registers an hourly job with a single attempt,
  and "the next hour is the retry" (`async/payment-expiry-scheduler.ts:46`);
* `SF` of each payment's `ExpireLock`, `ExpireDecline` and `ExpireCommit`: the
  sweep walks its whole shortlist, and Postgres queues waiters for a row lock, so
  one that waits again and again is served;
* `WF` of `Abort` for requests: a transaction that holds a lock ends, by its commit
  or by its connection's end.  It obliges nobody to upload, verify or cancel;
* `<>[][~SweepFails(w)]_vars`: a sweep does not fail for ever.  `sweepExpiredPayments`
  logs a failed payment and goes on, and a payment that fails in every hour is a
  fault that someone is called for.

In `notices`, `WF` of `Work(j)`: a worker runs and its run comes to an end, by a mail,
by a failure or by completing.  Stalls are not assumed away: the queue itself bounds
them.  In `submissions`, `WF` of the purge's steps and `<>[][~Abort(p)]_vars`: the job
runs daily, and a competition whose purge fails is logged and "the next scheduled run
picks it up again" (`async/jobs/retention-purge.ts:38`).

No fairness is assumed of candidates, organisers or operators, and no property says
that a proof under review is ever decided: the code promises none.

## Proofs

Eight modules hold the theorems, and `tlapm` proves every obligation of each.  The
theorems hold for any number of requests, sweeps, entries, teams, users, payments,
rules, calls, institutions, jobs, registrations and files, from the named
assumptions of the modules: model values are distinct, captains are members,
sizes and times are naturals, and for the ledger that rows have their columns'
types (`RowsAssumption`) and that keys come from the minters (`CallsAssumption`:
a verdict's key is never minted for anything else), for ownership that there are
finitely many institutions and that the personal cap is one, for submissions that the
purge starts no earlier than the last link of the window dies.  The type invariants,
and that no key of the ledger is spent twice (`KeysAreSpentOnce`), are proved and no
longer a run's.

| Theorem | States |
|---|---|
| `TypeCorrect`, `LedgersStayInAgreement`, `NeverPaidAndExpired`, `AttemptsStayContiguous`, `ExpiryAlwaysEndsTheGroup`, `LockedReadsStayTrue` | `[]` of the lane's invariants |
| `NoPaymentForTheCancelled`, `ExpiryIsDeserved`, `SettledForGood` | the lane's action properties |
| `LaneKeepsThePromise` | the lane implements `PaymentPromise` under the mapping of `LaneClaims` |
| `FreeEntrantsStayFree` | a competition that charges has no live registration that owes nothing |
| `PricedLaneIsSound`, `PricedNoPaymentForTheCancelled`, `PricedExpiryEndsTheGroup`, `PricedExpiryIsDeserved`, `PricedSettledForGood` | the lane's own properties, beside a price that is set and cleared |
| `PricedLaneKeepsThePromise`, `PricedLaneKeepsTheBook` | the same lane implements `PaymentPromise` and `PaymentBook` |
| `SweepSparesSoleSubmissions`, `WaitingUploadsSpareEvidence` | what is true of two refuted comments, see "The reach of the refuted comments" |
| `TeamTypeCorrect`, `CaptainsAnchor`, `RegistrationsComeTogether`, `DisbandingIsFinal` | what neither overlapping team handlers nor cancelled rows can break |
| `SecondTeamsAreStale`, `StrangersAreStale` | two promises overlapping handlers do break are broken by stale writes alone |
| `SerialCandidatesHaveOneTeam`, `SerialDisbandingEmpties`, `SerialDisbandingUnregisters`, `SerialRegisteredAreMembers`, `SerialSignupsClaim`, `SerialCapacityHolds` | what team handlers keep as long as no two overlap |
| `FreshReadingsKeepThePromises`, `FreshReadingsKeepCapacity`, `GuardedDisbandUnregisters` | what they would keep though they overlap, on conditions |
| `FeeWithinGross` | `computePlatformFee` lies in `0 .. gross` for every rule |
| `LedgerTypeCorrect`, `KeysAreSpentOnce`, `NothingIsLost`, `VerdictAndFeeAreOne`, `FeesAreOwedOnce` | `[]` of the ledger's invariants |
| `LedgerIsOneBook` | the ledger implements `PaymentBook` |
| `CorrectionsAreNeutral`, `LastOutcomeIsTheStatus`, `SuccessStands` | the precedence of the fold, for any number of events |
| `OwnershipTypeCorrect`, `FoundedFullStaysOwned`, `PersonalStaysOwnedOrSuspended`, `FoundersStayWithinCap`, `GoneAccountsHoldNothing`, `InvitationsAcceptedOnce` | `[]` of ownership's invariants |
| `LockedUpgradesKeepOwners` | what ownership would keep if an upgrade took the ownership lock |
| `NoticesTypeCorrect`, `NoticesTellWhatHappened`, `NoticesAreToldApart`, `JobsEndInView` | `[]` of the notices' invariants |
| `SubmissionTypeCorrect`, `PromptUploadsKeepTheirBytes`, `FinalizedEntriesAreLocked` | what sweeps, purges, erasures and overlapping uploads cannot take from an entry, and what they can |

**The lane.**  None of its invariants is inductive alone.  That a ledger never
holds both outcomes rests on what a handler read under the lock being still true
when it writes (`LockedReadsStable`), which rests on the handler holding the lock
(`LocksHeld`), on writers without the lock touching only proofs under review, and
on entries without a payment having left no trace (`UnpaidEntriesAreNew`).  That
the payment of a cancelled registration is never accepted needs `Updatable`: an
`UPDATE` waits for the verdict that holds the row.  `SweepCarriesOverdue` carries
the shortlist's deadline over to the commit, and `OneRequestRegisters` keeps two
requests from inserting the same fresh rows.  The refinement maps each step to a
step of the promise or a stutter, and uses the invariant to know the stage
and the fee a step starts from.

**One book, from both sides.**  `PaymentBook` is the books as a single writer would
keep them.  `LedgerIsOneBook` says that `PaymentLedger`, with its transactions, waits
on unique indexes, retries and aborts, is such a book: a commit is the one moment of
its call, and everything before it a stutter.  `AppendsAreSound` decides which step a
commit is: one that inserted finds its key unspent and posts, one that replays
confirms; `FeesAreSound` decides whether it charges.  `PricedLaneKeepsTheBook` says
that what the lane writes to `events` and `accrued`, where appending is one atomic
assignment, is also a behaviour of the book, with one price and one fee per payment.
Neither proof uses the other.  Together they say that the lane's short account of its
books and the ledger's long one keep to the same specification.
The lane's keys are a payment and an outcome, coarser than the code's, which carry
the attempt: that a payment never succeeds under two attempts is part of the result.

**Teams.**  The captain's membership is the row that removals spare
(`RemovalsSpareCaptains`), so a team that is not disbanded is led (`TeamsAreLed`)
and any roster read from it contains its captain and is sized when it is read
(`SubmissionsAreSized`).  A submission registers that roster and not the present
one, which is why it starts within bounds though the roster may have left them.  It
does not stay there: members cancel their own rows, the captain too.  What is invariant
is how rows come and go, `RegisteredTogether`; that there are none when a submission
adds its own is `RegisteredWereSubmitted`: the compare-and-set finds the team forming.

*Stale writes.*  `StaleWrite` is a commit whose handler no longer finds what its check
had read.  Without one, a step that fills a roster fills it with a user who is on no
team (`FreshStepsOnRosters`), and a submission registers members; so two of the promises
are broken by stale writes and by nothing else, for any number of handlers.

**The ledger.**  `AppendsAreSound` says what a transaction past its append knows:
it inserted a row no other transaction holds the key of and no committed event
has, or it found the event it replays.  `FeesAreSound` says the same of the
accrual, and `AccrualsArePriced` that a payment with rows was priced.  A commit
then adds a fresh key or nothing, and a fee where there was none; a reversal finds
exactly the fee.  The snapshot is written once, so the fee is the same at every
later moment.

**The fold.**  `foldPaymentEvents` recurses on sets of events, and the provers have no
induction to offer it.  Each fact about it (that the fold exists, that it remembers the
last outcome and whether anything succeeded, that corrections leave it alone) is shown
at a smallest set of events that would break it (`SmallestSet`): without its last event
the set is sound, and one event more (`AbsorbRemembers`) keeps it so.

**Pricing.**  Whoever holds the participation lock is alone (`PricingLocksHeld`), so
what a charge was decided on is true when it is written (`ChargesAreSound`).  That
the classification sees every free registrant needs `OneLiveSubmission`: a live row
of a team is of its latest submission, so that a paid row never speaks for a free
one.  A price adds steps to the lane's (registrations without a payment, the two
writes of a price), and the lane's invariant is inductive over them as well: a free
registration only confirms rows of an entry that never had a payment
(`UnpaidEntriesAreNew`), and a price writes none of the lane's variables.  Hence every
result about the lane holds of the lane beside its pricing, the two refinements
included.

**Serial teams.**  `OneHandlerAtATime` is the assumption; the invariant says that what
the handler under way has read still holds (`Holds`), which is what overlap destroys.
Rows are cancelled beside the handler: what remains true is that the registered are
members, not that members are registered.
The capacity is a count of members and of invitations: each step adds or removes one
element of a finite set and the theorems of `FiniteSetTheorems` do the rest.

**The reach of the refuted comments.**  Where a run finds a comment broken, a theorem
says how far it still holds: the property of the claim, from the specification and
one condition, which the code does not meet, on the step that breaks it.  Each
condition is an action formula that only restricts when a handler may write; the
specification with it is that of the repaired handler.  None is met by doing
nothing: conjoined to `Next` on the instances of the runs they leave TLC 420,010 of the
777,026 states of `team_rosters` under `WritesOnWhatItRead`, 770,906 under
`DisbandsTheForming` and 2,208,381 of those of `claim_last_owner` under
`UpgradesWaitForTheLock`, with the theorem's property true in all of them.

* *The sweep* (`SweepSparesSoleSubmissions`): no condition on the code, but one on the
  data: where every payment's group is its own entry, evidence under review is never
  swept away.  Individuals and teams that submit once are spared.
* *Unpublishing* (`WaitingUploadsSpareEvidence`): `UploadsWaitForUnpublish`.  Under it
  what the unpublish read under the participation lock stays true, because nothing
  but an upload or a resubmission brings money in flight (`MoneyTakesOff`).
* *Teams* (`FreshReadingsKeepThePromises`, `FreshReadingsKeepCapacity`):
  `WritesOnWhatItRead`, the weakest form of a lock or of a repeated condition.  The
  invariant of the serial proofs is inductive again, now with any number of handlers
  under way: what one handler has read need not hold while it waits, only when it
  writes.  `OneHandlerAtATime` is one way to have this, not the only one.
* *Disbanding* (`GuardedDisbandUnregisters`): `DisbandsTheForming` alone, whatever all
  other handlers do: the compare-and-set of the submission repeated in the disband.
* *Upgrading* (`LockedUpgradesKeepOwners`): `UpgradesWaitForTheLock`.  A
  de-identification past its check then leaves another owner to every full
  institution (`AnotherOwnerStays`), since the only step that could make one of its
  institutions full after the check waits for a lock it holds.

**Ownership.**  A count under the ownership lock is true at the commit because every
step that could lower it takes that lock, except a de-identification, which holds it
for every institution of the account; a membership granted while it waited is caught
by asking for the set again.  `FoundedFullIsOwned` is stated of institutions founded
as full: an upgraded one escapes, which is `claim_last_owner`, and nothing else does.

**Notices.**  The two outcomes exclude each other (`OutcomesExclude`) and every job
was announced by a decision under its own kind (`NotesNameTheirJob`,
`JobsWereAnnounced`).  A decision is announced once (`NoticesAreFresh`), so a
duplicate of a key is of two decisions, one of them read late.

**Submissions.**  A sweep carries a key only after its link has died, so what it takes
from an entry was recorded late (`SweepsAreLate`); a key sent once is in one hand
only (`OneCallRecords`), so the object deleted as replaced is no entry's again
(`ReplacedAreGone`); an erasure carries only what its own account recorded
(`ErasuresTakeTheirOwn`), and a key sent once is not recorded again by another; a purge
carries nothing finalized before its days (`PurgesAreLate`).  The model's guard that no request lives through the ninety days
of grace bounds what TLC visits; the proofs do not use it.

**Only model-checked.**  Progress (`OverdueIsResolved`, `EnqueuedIsSettled`,
`AbandonedIsReclaimed`), which is liveness under fairness; how far overlapping handlers
can take a team past its maximum, a disbanded team's leftovers and unclaimed invitations
(`OverfullOnlyWhenStale`, `LeftByOverlapOnly`, `UnclaimedByOverlapOnly`), the last two
being counts over all handlers at once; and that the five claims are violated, which is a
trace and not a theorem.

## Findings

Five comments disagree with what the code does.  Each has a run whose trace shows
how.

* **The sweep and a resubmitted team** (`claim_sweep_spares`).  The header of
  `finance/payment-expiry-service.ts` (line 32) says that a candidate who uploaded
  evidence in time "must never be cancelled because the organiser was slow".  A team
  that withdraws and submits again has two payments and one team id.
  `resolveGroupRegistrationIds` finds rows by that id, so the expiry of the first
  payment cancels the second submission too, with its proof under review.
* **Unpublishing past an upload** (`claim_unpublish`).  "UNPUBLISH IS BLOCKED WHILE
  MONEY IS IN FLIGHT" (`competitions/competition-service.ts:1049`), but the guard is
  a read and an upload takes another lock.
* **Disbanding over a submission** (`claim_disband_submit`).  The submission
  compares and sets, and says a concurrent disband is caught by it
  (`teams/team-registration-service.ts:270`); the disband sets by id alone.
* **An upgrade under a de-identification** (`claim_last_owner`).  The lock of
  `institution-members/owner-membership-lock.ts:22` is there to prevent "leaving an
  institution with no active owner, which nothing in the product can repair".  De-identification
  asks in two statements for the full institutions it would orphan and for the
  personal one to suspend (`accounts/account-deidentification-service.ts:463`, `:465`);
  an upgrade between them is in neither answer.
* **A purge over a finalized entry** (`claim_finalized_purged`).  "A FINALIZED submission
  is never touched" (`submissions/submission-service.ts:688`, and in other words
  `submissions/submission-constants.ts:42` and `async/jobs/retention-purge.ts:67`).
  Finalizing asks no window, and the purge deletes rows by the registrations it read
  before it deleted the objects: an entry finalized in between goes with them.

The same models, or the reading they took, show without a run of their own:

* *Registrations.*  Self-cancellation has the unpublish race: its evidence check is
  read before its transaction (`registrations/registration-service.ts:398`).  Two
  overlapping requests may register a candidate a second time after a cancelled
  registration, which the read before the transaction is meant to refuse (`:200`).
* *Teams.*  A member, the captain included, may cancel the one row that is theirs of a
  submitted team (`registrations/registration-service.ts:325`): the team stays
  `submitted` below its minimum or without its captain's row, and after the sweep has
  taken them all it stays `submitted` without any.  With two requests in `MCTeam`, each
  promise of `TeamClaims` is violated by a stale write: seats beyond the maximum (two invitations at once), one candidate in two teams
  (founding and accepting at once), a member left in a disbanded team, who can neither
  leave nor join another, a student registered with a team they were removed from,
  and an invitation that waits for a signup that has happened.  An expired invitation
  is to be "transitioned to `cancelled`" when it is accepted (`db/schema.ts:1351`), but
  the transaction that does so throws, and the invitation keeps its seat.
* *Pricing.*  A team whose captain cancelled only their own row reads as free, so a
  cleared price cannot be set again while its members are live.
* *Ownership.*  A promotion or an invitation to owner takes no cap lock and asks for no
  cap, so an account may own more institutions than creation allows.  An upgrade that
  commits after a de-identification rewrites the name it scrubbed.  Declining and
  cancelling write by id over an acceptance.
* *Notices.*  Two refusals may share a key, of which one is dropped, though the key
  carries the attempt so as not to "silently drop the second" (`async/enqueue.ts:367`).
  Every run of a job writes its inbox rows again before it mails, though
  `async/jobs/payment-proof-submitted.ts:74` says a retry does not duplicate them.
  A job that fails by stalling alone is logged as
  scheduled for a retry and not captured.
* *Submissions.*  A purge that dies after the objects leaves rows that may still be
  finalized, without bytes.  A record call sent twice may revive a key whose object has
  been deleted as replaced, and a second call that names the same file otherwise deletes
  an object a row names.  Objects that no row ever named are only found while the
  competition has an unfinalized row.  An entry recorded between the rehearsal of a
  de-identification and its commit is blanked with its object left behind, beside the two
  survivors `accounts/account-deidentification-service.ts:402` names; one that fails
  after its objects leaves an account that may still sign in and finalize an entry without
  a file.
* *Registration documents* (not modelled).  No unique index covers a document's key,
  so a repeated confirmation makes two rows of one object; removing a file reads the
  request's status before its transaction, so a file may go after an acceptance.

## Hazards without a property

`PROJECT.json` lists every hazard with its properties.  Three have none, each for
its own reason: row locks taken in different orders by an expiry and a bulk cancellation,
which Postgres resolves by aborting one (the model waits for all rows at once and has
`Abort`); the write of an expired invitation that its own refusal rolls back; and a notice
lost between the commit and the queue, which the code accepts.
Nothing is promised of a revocation that overwrites an acceptance, and the rounding of
`gross * basisPoints` beyond 2^53 is reached only above Rp 900 billion (the model's
product is exact); neither is listed.

## What is left out

* **Data the properties do not tell apart**: names, files, storage keys, reasons,
  currencies, actors, messages; eligibility, verification of the candidate and of
  the institution; the instruction snapshot; the notifications other than the
  two of a manual payment, which follow the same handler.
* **In the lane**: a registration end that is null (every competition here has one);
  the lookup of the fee rule (`PaymentLedger` has it); rosters that change
  (`TeamLifecycle` has them); the rename of a team, and team names.
* **In teams**: what a competition must be for a team to act is one flag, which closes
  and opens again; the sizes are fixed, though a draft's may be edited between an
  unpublishing and the next publication; de-identification, which removes the
  invitations of an account (`accounts/account-deidentification-service.ts:993`) and
  refuses the captain of a forming team; the checks of the handlers that cancel rows,
  which the lane has.
* **In submissions**: who may act for a registration, cancelled registrations, and what
  an erasure does to other tables.
* **In the ledger**: `recorded_at` and `id`, for whose tie-break the key stands;
  a null amount counts as 0; split fees of the gateway lane, which has no caller.
* **Components not modelled** are listed in `PROJECT.json` with the reason: they are
  read-only, pure input and output, generated, or a single conditional write of one
  row, about which no interleaving says more than the statement itself.  Sessions,
  tokens and MFA are of this kind: a token is consumed by one conditional update, and
  the factor's row is locked by every handler of it.

## What could come next

1. Edits of a published competition: `updatePublishedCompetition` reads a snapshot and
   writes without a lock, and `updateCompetitionDraft` writes by id what it read as a
   draft.
2. Registration documents, on the pattern of `Submissions`: requests, files, reviews
   and their purge.
3. What an inbox promises its reader, as an abstract specification of `PaymentNotices`.
4. Results and reviews against archiving and cancellation.

A repaired comment or a repaired handler makes a claim run obsolete; its property then
joins the run of the module it is about.
