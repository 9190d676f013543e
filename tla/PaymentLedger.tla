--------------------------- MODULE PaymentLedger ---------------------------
(***************************************************************************)
(* The append-only books: payment events under their idempotency keys, and *)
(* the fees that accrue on verified payments and may be reversed once.     *)
(*                                                                         *)
(* The functions promise what they promise to any caller, so any call may  *)
(* be made at any time, by several requests at once and again after it was *)
(* acknowledged or lost.  A call runs in a transaction: what it inserted   *)
(* is unseen until it commits, and an insert under a key that another      *)
(* transaction has just inserted waits for that transaction to end.        *)
(***************************************************************************)
EXTENDS Integers, Sequences

CONSTANTS
  Requests,
  Payments,
  Calls,          \* calls of appendPaymentEvent, and the rows they insert
  Rules,          \* rows createFeeRule may write
  Institution,    \* Institution[p]: whom p pays
  Global,         \* the institution of a global fee rule
  Gross,          \* Gross[p]: grossAmount
  NoRule, NoCall,
  MaxTime         \* bound on the clock

Types == {"initiated", "succeeded", "failed", "expired", "refunded", "corrected"}

\* verdict: the call is verifyManualPaymentProof's, which goes on to the fee.
CallRows ==
  [key : Nat, payment : Payments, type : Types, amount : Int, at : Nat, verdict : BOOLEAN]

Scopes == {Global} \cup {Institution[p] : p \in Payments}

BASIS_POINTS_DENOMINATOR == 10000
Rates == 0 .. BASIS_POINTS_DENOMINATOR - 1

\* An end, a minimum or a maximum that is null is 0 or a value never reached.
RuleRows ==
  [id : Nat, institution : Scopes,
   from : Nat, to : Nat, basisPoints : Rates, flat : Nat, least : Nat, most : Nat]

ASSUME RowsAssumption ==
  /\ Calls \subseteq CallRows
  /\ Rules \subseteq RuleRows
  /\ Gross \in [Payments -> Nat]
  /\ NoRule \notin Rules /\ NoCall \notin Calls
  /\ MaxTime \in Nat

\* assertEventInput and the key minters: only a correction is negative, and the
\* key of a verdict is never minted for anything else.
ASSUME CallsAssumption ==
  /\ \A c \in Calls : c.amount < 0 => c.type = "corrected"
  /\ \A c \in Calls : c.verdict => c.type = "succeeded"
  /\ \A c, d \in Calls : c.key = d.key => c.verdict = d.verdict

VARIABLES
  now,
  written,   \* written[r]: finance_fee_rules.created_at; 0 = no row
  payment,   \* the rule each payment was priced by, snapshotted; NoRule = no row
  events,    \* finance_payment_events
  accruals,  \* finance_fee_accruals of each payment, in order
  acked,     \* calls whose caller was told the event is recorded
  tx         \* what each request is doing

vars == <<now, written, payment, events, accruals, acked, tx>>

-----------------------------------------------------------------------------
(* Fee rules                                                               *)

Lesser(a, b) == IF a < b THEN a ELSE b
Greater(a, b) == IF a < b THEN b ELSE a

\* Exact while the product stays below 2^53, as it does below Rp 900 billion.
Proportional(g, basisPoints) == (g * basisPoints) \div BASIS_POINTS_DENOMINATOR

computePlatformFee(g, r) ==
  Lesser(Lesser(Greater(Proportional(g, r.basisPoints) + r.flat, r.least), r.most), g)

InForce(i, at) ==
  {r \in Rules : /\ written[r] # 0
                 /\ r.institution \in {i, Global}
                 /\ r.from <= at /\ at < r.to}

\* The ORDER BY of resolveFeeRule.
Outranks(r, s) ==
  \/ r.institution # Global /\ s.institution = Global
  \/ /\ r.institution = s.institution
     /\ \/ r.from > s.from
        \/ r.from = s.from /\ written[r] > written[s]
        \/ r.from = s.from /\ written[r] = written[s] /\ r.id > s.id

Resolved(i, at) ==
  {r \in InForce(i, at) : \A s \in InForce(i, at) \ {r} : Outranks(r, s)}

\* Mutant of FeeRuleOf: re-resolved by date when the fee accrues.
FeeRuleOfToday(p) ==
  IF Resolved(Institution[p], now) = {} THEN payment[p]
  ELSE CHOOSE r \in Resolved(Institution[p], now) : TRUE

\* The rule the fee is computed by: loaded by the id the payment snapshotted.
FeeRuleOf(p) == payment[p]

-----------------------------------------------------------------------------
(* Accruals and transactions                                               *)

Accrual(p) ==
  [kind |-> "accrued", amount |-> computePlatformFee(Gross[p], FeeRuleOf(p))]

Has(p, kind) == \E n \in DOMAIN accruals[p] : accruals[p][n].kind = kind

Idle == [pc |-> "idle", call |-> NoCall, wrote |-> FALSE, owes |-> FALSE]

Step(w, t) == tx' = [tx EXCEPT ![w] = t]

At(w, pc) == tx[w].pc = pc

Goto(w, pc) == Step(w, [tx[w] EXCEPT !.pc = pc])

End(w) == Step(w, Idle)

\* A verdict goes on to recordFeeAccrual, any other call to its commit.
AfterAppend(c) == IF c.verdict THEN "fee" ELSE "commit"

Init ==
  /\ now = 1
  /\ written = [r \in Rules |-> 0]
  /\ payment = [p \in Payments |-> NoRule]
  /\ events = {}
  /\ accruals = [p \in Payments |-> <<>>]
  /\ acked = {}
  /\ tx = [w \in Requests |-> Idle]

books == <<events, accruals, acked>>

-----------------------------------------------------------------------------
(* Rules and payments                                                      *)

\* A rule may take effect in the past: nothing compares effectiveFrom with now.
CreateFeeRule(r) ==
  /\ written[r] = 0
  /\ r.to > r.from
  /\ written' = [written EXCEPT ![r] = now]
  /\ UNCHANGED <<now, payment, books, tx>>

CreatePayment(p) ==
  /\ payment[p] = NoRule
  /\ \E r \in Resolved(Institution[p], now) : payment' = [payment EXCEPT ![p] = r]
  /\ UNCHANGED <<now, written, books, tx>>

-----------------------------------------------------------------------------
(* appendPaymentEvent                                                      *)

\* The foreign key: a call on a payment that does not exist is refused.
AppendPaymentEvent(w, c) ==
  /\ tx[w] = Idle
  /\ payment[c.payment] # NoRule
  /\ Step(w, [Idle EXCEPT !.pc = "append", !.call = c])
  /\ UNCHANGED <<now, written, payment, books>>

\* Mutant of KeyIsFree: a read before the insert, blind to other transactions.
KeyIsFreeAsRead(w, k) == \A v \in events : v.key # k

\* The insert under the unique index, once whoever holds the key has ended.
KeyIsFree(w, k) ==
  /\ \A v \in events : v.key # k
  /\ \A v \in Requests : v # w /\ tx[v].wrote => tx[v].call.key # k

InsertEvent(w) == LET c == tx[w].call IN
  /\ At(w, "append")
  /\ KeyIsFree(w, c.key)
  /\ Step(w, [tx[w] EXCEPT !.pc = AfterAppend(c), !.wrote = TRUE])
  /\ UNCHANGED <<now, written, payment, books>>

\* Mutant of Replays: whatever owns the key is handed back.
ReplaysByKey(v, c) == v.key = c.key

\* The recorded event is the one this call claims to replay.
Replays(v, c) ==
  v.key = c.key /\ v.payment = c.payment /\ v.type = c.type /\ v.amount = c.amount

\* Mutant of ReplayEvent: an event not yet committed counts as recorded.
ReplayEventUncommitted(w) == LET c == tx[w].call IN
  /\ At(w, "append")
  /\ \/ \E v \in events : Replays(v, c)
     \/ \E v \in Requests : v # w /\ tx[v].wrote /\ Replays(tx[v].call, c)
  /\ Goto(w, AfterAppend(c))
  /\ UNCHANGED <<now, written, payment, books>>

ReplayEvent(w) == LET c == tx[w].call IN
  /\ At(w, "append")
  /\ \E v \in events : Replays(v, c)
  /\ Goto(w, AfterAppend(c))
  /\ UNCHANGED <<now, written, payment, books>>

\* payment_event_idempotency_key_conflict
RefuseKey(w) ==
  /\ At(w, "append")
  /\ \E v \in events : v.key = tx[w].call.key /\ ~Replays(v, tx[w].call)
  /\ End(w)
  /\ UNCHANGED <<now, written, payment, books>>

-----------------------------------------------------------------------------
(* recordFeeAccrual and recordFeeAccrualReversal                           *)

LoadAccruedRow(w) ==
  /\ At(w, "fee")
  /\ Goto(w, IF Has(tx[w].call.payment, "accrued") THEN "commit" ELSE "accrue")
  /\ UNCHANGED <<now, written, payment, books>>

AccrualIsFree(w, p) ==
  /\ ~Has(p, "accrued")
  /\ \A v \in Requests : v # w /\ tx[v].owes => tx[v].call.payment # p

RecordFeeAccrual(w) ==
  /\ At(w, "accrue")
  /\ AccrualIsFree(w, tx[w].call.payment)
  /\ Step(w, [tx[w] EXCEPT !.pc = "commit", !.owes = TRUE])
  /\ UNCHANGED <<now, written, payment, books>>

\* fee_accrual_already_recorded: the event goes with the transaction.
RefuseAccrual(w) ==
  /\ At(w, "accrue")
  /\ Has(tx[w].call.payment, "accrued")
  /\ End(w)
  /\ UNCHANGED <<now, written, payment, books>>

Reversible(p) == Has(p, "accrued") /\ ~Has(p, "reversed")

Reversal(p) == [kind |-> "reversed", amount |-> -Head(accruals[p]).amount]

\* The accrued row never changes, so its read and the insert are one step.
RecordFeeAccrualReversal(p) ==
  /\ Reversible(p)
  /\ accruals' = [accruals EXCEPT ![p] = Append(@, Reversal(p))]
  /\ UNCHANGED <<now, written, payment, events, acked, tx>>

-----------------------------------------------------------------------------
Commit(w) == LET c == tx[w].call  p == c.payment IN
  /\ At(w, "commit")
  /\ events' = IF tx[w].wrote THEN events \cup {c} ELSE events
  /\ accruals' = IF tx[w].owes
                 THEN [accruals EXCEPT ![p] = Append(@, Accrual(p))] ELSE accruals
  /\ acked' = acked \cup {c}
  /\ End(w)
  /\ UNCHANGED <<now, written, payment>>

\* An error of a later statement, a lost connection or a dead process.
Abort(w) ==
  /\ tx[w] # Idle
  /\ End(w)
  /\ UNCHANGED <<now, written, payment, books>>

Tick ==
  /\ now < MaxTime
  /\ now' = now + 1
  /\ UNCHANGED <<written, payment, books, tx>>

RequestStep(w) ==
  \/ \E c \in Calls : AppendPaymentEvent(w, c)
  \/ InsertEvent(w) \/ ReplayEvent(w) \/ RefuseKey(w)
  \/ LoadAccruedRow(w) \/ RecordFeeAccrual(w) \/ RefuseAccrual(w)
  \/ Commit(w) \/ Abort(w)

Next ==
  \/ \E w \in Requests : RequestStep(w)
  \/ \E r \in Rules : CreateFeeRule(r)
  \/ \E p \in Payments : CreatePayment(p) \/ RecordFeeAccrualReversal(p)
  \/ Tick

Spec == Init /\ [][Next]_vars

-----------------------------------------------------------------------------
(* Properties                                                              *)

Transactions ==
  {t \in [pc : {"idle", "append", "fee", "accrue", "commit"}, call : Calls \cup {NoCall},
          wrote : BOOLEAN, owes : BOOLEAN] : t.pc # "idle" => t.call \in Calls}

AccrualRows ==
  {r \in [kind : {"accrued", "reversed"}, amount : Int] :
     IF r.kind = "accrued" THEN r.amount >= 0 ELSE r.amount <= 0}

\* Every table and every request holds values of its own kind, an accrual with the
\* sign that finance_fee_accruals_amount_sign_chk demands.
TypeOK ==
  /\ now \in Nat
  /\ written \in [Rules -> Nat]
  /\ payment \in [Payments -> Rules \cup {NoRule}]
  /\ events \in SUBSET Calls
  /\ accruals \in [Payments -> Seq(AccrualRows)]
  /\ acked \in SUBSET Calls
  /\ tx \in [Requests -> Transactions]

\* One event per key, though a call is delivered several times at once.
OneEventPerKey == \A u, v \in events : u.key = v.key => u = v

\* A caller that was told its event is recorded finds it in the ledger, on its own
\* payment and with its own amount: no event is discarded as the replay of another.
AckedIsRecorded ==
  \A c \in acked : \E v \in events :
    v.key = c.key /\ v.payment = c.payment /\ v.type = c.type /\ v.amount = c.amount

\* The fee stands or falls with the verdict: a payment has accrued one exactly
\* when the event of a verdict on it is in the ledger.
VerdictsOweTheirFee ==
  \A p \in Payments :
    Has(p, "accrued") <=> \E v \in events : v.payment = p /\ v.verdict

\* What an institution owes for a payment is nothing or the fee, by the terms the
\* payment snapshotted and no rule written since, never more than it received, and
\* a reversal takes back exactly that: the total can never say the platform owes.
FeeOrNothing ==
  \A p \in Payments : accruals[p] # <<>> =>
    LET fee == computePlatformFee(Gross[p], payment[p]) IN
    /\ fee \in 0 .. Gross[p]
    /\ accruals[p] \in {<<[kind |-> "accrued", amount |-> fee]>>,
                        <<[kind |-> "accrued", amount |-> fee],
                          [kind |-> "reversed", amount |-> -fee]>>}

\* The strengthening that makes the invariants above inductive.  A transaction past
\* its append has inserted its event, which no one else holds or has recorded, or
\* has found the event it replays; one that owes the fee is the only one that does.
Appended(w) == tx[w].pc \in {"fee", "accrue", "commit"}

AppendsAreSound ==
  \A w \in Requests : LET c == tx[w].call IN
    /\ tx[w].pc # "idle" => payment[c.payment] # NoRule
    /\ tx[w].wrote => Appended(w) /\ \A v \in events : v.key # c.key
    /\ Appended(w) /\ ~tx[w].wrote => \E v \in events : Replays(v, c)
    /\ \A v \in Requests : v # w /\ tx[v].wrote /\ tx[w].wrote => tx[v].call.key # c.key

FeesAreSound ==
  \A w \in Requests : LET p == tx[w].call.payment IN
    /\ tx[w].pc \in {"fee", "accrue"} => tx[w].call.verdict
    /\ tx[w].owes => /\ tx[w].pc = "commit" /\ tx[w].call.verdict
                     /\ ~Has(p, "accrued")
    /\ tx[w].pc = "commit" /\ tx[w].call.verdict /\ ~tx[w].owes => Has(p, "accrued")
    /\ \A v \in Requests : v # w /\ tx[v].owes /\ tx[w].owes => tx[v].call.payment # p

AccrualsArePriced == \A p \in Payments : accruals[p] # <<>> => payment[p] # NoRule

IInv ==
  /\ TypeOK /\ AppendsAreSound /\ FeesAreSound /\ AccrualsArePriced
  /\ OneEventPerKey /\ AckedIsRecorded /\ VerdictsOweTheirFee /\ FeeOrNothing

-----------------------------------------------------------------------------
(* The promise of the books                                                *)

owedOf == [p \in Payments |-> [n \in DOMAIN accruals[p] |-> accruals[p][n].amount]]

FeeUnder(p, r) == computePlatformFee(Gross[p], r)

Book == INSTANCE PaymentBook WITH
  Terms <- Rules, NoTerms <- NoRule, Fee <- FeeUnder,
  terms <- payment, posted <- events, owed <- owedOf, told <- acked

\* However transactions overlap, retry and die, the books are those of a book that
\* takes one call at a time: each call has one moment, its commit, at which its event,
\* the fee of its verdict and its acknowledgement come about together.
IsOneBook == Book!BSpec

=============================================================================
