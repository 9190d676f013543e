------------------------ MODULE PaymentLedger_proofs ------------------------
(***************************************************************************)
(* The books stay sound for any number of requests, payments, rules and    *)
(* calls: what is acknowledged is recorded, once, and owes its fee, once.  *)
(***************************************************************************)
EXTENDS PaymentLedger, SequenceTheorems, TLAPS

-----------------------------------------------------------------------------
(* The fee                                                                 *)

LEMMA QuotientIsANumber ==
  ASSUME NEW n \in Nat, NEW d \in Nat, d > 0
  PROVE  n \div d \in Nat
OBVIOUS

LEMMA ProportionalIsANumber ==
  ASSUME NEW g \in Nat, NEW b \in Nat
  PROVE  Proportional(g, b) \in Nat
<1>1. g * b \in Nat OBVIOUS
<1>2. BASIS_POINTS_DENOMINATOR \in Nat /\ BASIS_POINTS_DENOMINATOR > 0
  BY DEF BASIS_POINTS_DENOMINATOR
<1> DEFINE n == g * b
<1> HIDE DEF n
<1>3. n \in Nat BY <1>1 DEF n
<1>4. n \div BASIS_POINTS_DENOMINATOR \in Nat BY <1>2, <1>3, QuotientIsANumber
<1> QED BY <1>4 DEF Proportional, n

\* computePlatformFee: whatever the rate, the flat part and the bounds, a fee is
\* between nothing and what was paid, so no institution owes on a sale it made.
THEOREM FeeWithinGross ==
  ASSUME NEW g \in Nat, NEW r \in RuleRows
  PROVE  computePlatformFee(g, r) \in 0 .. g
<1>1. r.basisPoints \in Nat
  <2>1. r.basisPoints \in Rates BY DEF RuleRows
  <2>2. \A b \in Rates : b \in Nat BY DEF Rates, BASIS_POINTS_DENOMINATOR
  <2> QED BY <2>1, <2>2
<1>2. r.flat \in Nat /\ r.least \in Nat /\ r.most \in Nat
  <2>1. r.flat \in Nat BY DEF RuleRows
  <2>2. r.least \in Nat BY DEF RuleRows
  <2>3. r.most \in Nat BY DEF RuleRows
  <2> QED BY <2>1, <2>2, <2>3
<1>3. Proportional(g, r.basisPoints) \in Nat BY <1>1, ProportionalIsANumber
<1> QED BY <1>2, <1>3 DEF computePlatformFee, Lesser, Greater

Fee(p) == computePlatformFee(Gross[p], payment[p])
Owed(p) == [kind |-> "accrued", amount |-> Fee(p)]
Reversed(p) == [kind |-> "reversed", amount |-> -Fee(p)]

\* The rows of a payment are none, its fee, or its fee and the reversal of it.
LEMMA Forms ==
  ASSUME FeeOrNothing, NEW p \in Payments
  PROVE  /\ accruals[p] \in {<<>>, <<Owed(p)>>, <<Owed(p), Reversed(p)>>}
         /\ Has(p, "accrued") <=> accruals[p] # <<>>
         /\ Has(p, "accrued") /\ ~Has(p, "reversed") => accruals[p] = <<Owed(p)>>
<1>1. accruals[p] \in {<<>>, <<Owed(p)>>, <<Owed(p), Reversed(p)>>}
  BY DEF FeeOrNothing, Owed, Reversed, Fee
<1>2. CASE accruals[p] = <<>> BY <1>2 DEF Has
<1>3. CASE accruals[p] = <<Owed(p)>>
  <2>1. 1 \in DOMAIN accruals[p] /\ accruals[p][1].kind = "accrued" BY <1>3 DEF Owed
  <2> QED BY <1>3, <2>1 DEF Has
<1>4. CASE accruals[p] = <<Owed(p), Reversed(p)>>
  <2>1. /\ 1 \in DOMAIN accruals[p] /\ accruals[p][1].kind = "accrued"
        /\ 2 \in DOMAIN accruals[p] /\ accruals[p][2].kind = "reversed"
    BY <1>4 DEF Owed, Reversed
  <2>2. accruals[p] # <<>> BY <1>4
  <2> QED BY <1>1, <2>1, <2>2 DEF Has
<1> QED BY <1>1, <1>2, <1>3, <1>4

-----------------------------------------------------------------------------
(* Types                                                                   *)

\* A step of one request replaces its transaction and leaves the others'.
LEMMA StepsOneRequest ==
  ASSUME TypeOK, NEW w \in Requests, NEW t \in Transactions, Step(w, t)
  PROVE  /\ tx' \in [Requests -> Transactions] /\ tx'[w] = t
         /\ \A v \in Requests : v # w => tx'[v] = tx[v]
BY DEF TypeOK, Step

LEMMA IdleIsATransaction == Idle \in Transactions
BY DEF Idle, Transactions

\* What each action of a request writes into its transaction.
LEMMA Moves ==
  ASSUME TypeOK, NEW w \in Requests, RequestStep(w)
  PROVE  \E t \in Transactions : Step(w, t)
<1>1. tx[w] \in Transactions BY DEF TypeOK
<1>2. ASSUME NEW c \in Calls, AppendPaymentEvent(w, c) PROVE \E t \in Transactions : Step(w, t)
  <2>1. [Idle EXCEPT !.pc = "append", !.call = c] \in Transactions BY DEF Idle, Transactions
  <2> QED BY <1>2, <2>1 DEF AppendPaymentEvent
<1>3. CASE InsertEvent(w)
  <2>1. [tx[w] EXCEPT !.pc = AfterAppend(tx[w].call), !.wrote = TRUE] \in Transactions
    BY <1>1, <1>3 DEF InsertEvent, At, AfterAppend, Transactions
  <2> QED BY <1>3, <2>1 DEF InsertEvent
<1>4. CASE ReplayEvent(w)
  <2>1. [tx[w] EXCEPT !.pc = AfterAppend(tx[w].call)] \in Transactions
    BY <1>1, <1>4 DEF ReplayEvent, At, AfterAppend, Transactions
  <2> QED BY <1>4, <2>1 DEF ReplayEvent, Goto
<1>5. CASE LoadAccruedRow(w)
  <2>1. /\ [tx[w] EXCEPT !.pc = "commit"] \in Transactions
        /\ [tx[w] EXCEPT !.pc = "accrue"] \in Transactions
    BY <1>1, <1>5 DEF LoadAccruedRow, At, Transactions
  <2> QED BY <1>5, <2>1 DEF LoadAccruedRow, Goto
<1>6. CASE RecordFeeAccrual(w)
  <2>1. [tx[w] EXCEPT !.pc = "commit", !.owes = TRUE] \in Transactions
    BY <1>1, <1>6 DEF RecordFeeAccrual, At, Transactions
  <2> QED BY <1>6, <2>1 DEF RecordFeeAccrual
<1>7. CASE RefuseKey(w) \/ RefuseAccrual(w) \/ Commit(w) \/ Abort(w)
  BY <1>7, IdleIsATransaction DEF RefuseKey, RefuseAccrual, Commit, Abort, End
<1> QED BY <1>2, <1>3, <1>4, <1>5, <1>6, <1>7 DEF RequestStep

-----------------------------------------------------------------------------
(* What steps leave and what they change                                   *)

\* A request that is doing something does it for a call on a payment that exists.
LEMMA Calling ==
  ASSUME IInv, NEW w \in Requests, tx[w].pc # "idle"
  PROVE  /\ tx[w].call \in Calls /\ tx[w].call.payment \in Payments
         /\ payment[tx[w].call.payment] # NoRule
<1>1. tx[w] \in Transactions BY DEF IInv, TypeOK
<1>2. tx[w].call \in Calls BY <1>1 DEF Transactions
<1>3. tx[w].call \in CallRows BY <1>2, RowsAssumption
<1>4. tx[w].call.payment \in Payments BY <1>3 DEF CallRows
<1> QED BY <1>2, <1>4 DEF IInv, AppendsAreSound

\* A payment's snapshot is written once.
LEMMA SnapshotsStay ==
  ASSUME IInv, [Next]_vars, NEW p \in Payments, payment[p] # NoRule
  PROVE  payment'[p] = payment[p]
<1>1. CASE UNCHANGED vars BY <1>1 DEF vars
<1>2. ASSUME NEW w \in Requests, RequestStep(w) PROVE payment' = payment
  BY <1>2 DEF RequestStep, AppendPaymentEvent, InsertEvent, ReplayEvent, RefuseKey,
    LoadAccruedRow, RecordFeeAccrual, RefuseAccrual, Commit, Abort
<1>3. ASSUME NEW q \in Payments, CreatePayment(q) PROVE payment'[p] = payment[p]
  BY <1>3 DEF CreatePayment, IInv, TypeOK
<1>4. CASE Tick \/ (\E r \in Rules : CreateFeeRule(r))
           \/ (\E q \in Payments : RecordFeeAccrualReversal(q))
  BY <1>4 DEF Tick, CreateFeeRule, RecordFeeAccrualReversal
<1> QED BY <1>1, <1>2, <1>3, <1>4 DEF Next

LEMMA Prices ==
  ASSUME IInv, NEW p \in Payments, payment[p] # NoRule
  PROVE  /\ Fee(p) \in 0 .. Gross[p]
         /\ Owed(p) \in AccrualRows /\ Reversed(p) \in AccrualRows
<1>1. payment[p] \in RuleRows /\ Gross[p] \in Nat
  BY RowsAssumption DEF IInv, TypeOK
<1>2. Fee(p) \in 0 .. Gross[p] BY <1>1, FeeWithinGross DEF Fee
<1>3. Fee(p) \in Nat BY <1>1, <1>2
<1> QED BY <1>2, <1>3 DEF Owed, Reversed, AccrualRows

\* What a commit adds to the books.
LEMMA Commits ==
  ASSUME IInv, NEW w \in Requests, Commit(w)
  PROVE  LET c == tx[w].call  p == c.payment IN
         /\ c \in Calls /\ p \in Payments /\ payment[p] # NoRule
         /\ tx[w].wrote => events' = events \cup {c} /\ \A v \in events : v.key # c.key
         /\ ~tx[w].wrote => events' = events /\ \E v \in events : Replays(v, c)
         /\ tx[w].owes => /\ c.verdict /\ accruals[p] = <<>>
                          /\ accruals' = [accruals EXCEPT ![p] = <<Owed(p)>>]
         /\ ~tx[w].owes => accruals' = accruals
         /\ acked' = acked \cup {c}
         /\ tx'[w] = Idle /\ \A v \in Requests : v # w => tx'[v] = tx[v]
<1> DEFINE c == tx[w].call  p == c.payment
<1>1. tx[w].pc = "commit" BY DEF Commit, At
<1>2. c \in Calls /\ p \in Payments /\ payment[p] # NoRule BY <1>1, Calling
<1>3. /\ tx[w].wrote => \A v \in events : v.key # c.key
      /\ ~tx[w].wrote => \E v \in events : Replays(v, c)
  BY <1>1 DEF IInv, AppendsAreSound, Appended
<1>4. tx[w].owes => c.verdict /\ ~Has(p, "accrued") BY DEF IInv, FeesAreSound
<1>5. tx[w].owes => accruals[p] = <<>> BY <1>2, <1>4, Forms DEF IInv
<1>6. Accrual(p) = Owed(p) BY DEF Accrual, Owed, Fee, FeeRuleOf
<1>7. Append(<<>>, Owed(p)) = <<Owed(p)>> BY DEF Owed
<1>8. tx[w].owes => accruals' = [accruals EXCEPT ![p] = <<Owed(p)>>]
  BY <1>2, <1>5, <1>6, <1>7 DEF Commit, IInv, TypeOK
<1>9. tx'[w] = Idle /\ \A v \in Requests : v # w => tx'[v] = tx[v]
  BY IdleIsATransaction, StepsOneRequest DEF Commit, End, IInv
<1> QED BY <1>2, <1>3, <1>4, <1>5, <1>8, <1>9 DEF Commit

LEMMA AppendToOne ==
  ASSUME NEW S, NEW a \in S, NEW b \in S
  PROVE  Append(<<a>>, b) = <<a, b>>
<1>1. <<a>> \in Seq(S) /\ <<a, b>> \in Seq(S) OBVIOUS
<1>2. Append(<<a>>, b) \in Seq(S) BY <1>1
<1>3. Len(Append(<<a>>, b)) = Len(<<a, b>>) BY <1>1
<1>4. \A n \in 1 .. 2 : Append(<<a>>, b)[n] = <<a, b>>[n] BY <1>1
<1> QED BY <1>1, <1>2, <1>3, <1>4, SeqEqual

LEMMA Reverses ==
  ASSUME IInv, NEW p \in Payments, RecordFeeAccrualReversal(p)
  PROVE  /\ accruals[p] = <<Owed(p)>> /\ payment[p] # NoRule
         /\ accruals' = [accruals EXCEPT ![p] = <<Owed(p), Reversed(p)>>]
<1>1. accruals[p] = <<Owed(p)>>
  BY Forms DEF RecordFeeAccrualReversal, Reversible, IInv
<1>2. payment[p] # NoRule BY <1>1 DEF IInv, AccrualsArePriced
<1>3. Head(accruals[p]).amount = Fee(p) BY <1>1 DEF Owed
<1>4. Append(<<Owed(p)>>, Reversed(p)) = <<Owed(p), Reversed(p)>>
  BY <1>2, Prices, AppendToOne
<1>5. Append(accruals[p], Reversal(p)) = <<Owed(p), Reversed(p)>>
  BY <1>1, <1>3, <1>4 DEF Reversed, Reversal
<1> QED BY <1>1, <1>2, <1>5 DEF RecordFeeAccrualReversal, IInv, TypeOK

\* Between commits the books of a request's step are untouched.
LEMMA QuietSteps ==
  ASSUME NEW w \in Requests, RequestStep(w)
  PROVE  /\ UNCHANGED <<now, written, payment>>
         /\ Commit(w) \/ UNCHANGED books
BY DEF RequestStep, AppendPaymentEvent, InsertEvent, ReplayEvent, RefuseKey,
  LoadAccruedRow, RecordFeeAccrual, RefuseAccrual, Abort, Commit

LEMMA TypeStep ==
  ASSUME IInv, [Next]_vars
  PROVE  TypeOK'
<1> USE DEF TypeOK
<1>1. TypeOK BY DEF IInv
<1>2. CASE UNCHANGED vars BY <1>1, <1>2 DEF vars
<1>3. ASSUME NEW w \in Requests, RequestStep(w) PROVE TypeOK'
  <2>1. tx' \in [Requests -> Transactions] BY <1>1, <1>3, Moves, StepsOneRequest
  <2>2. /\ events' \in SUBSET Calls /\ acked' \in SUBSET Calls
        /\ accruals' \in [Payments -> Seq(AccrualRows)]
    <3>1. CASE UNCHANGED books BY <1>1, <3>1 DEF books
    <3>2. CASE Commit(w)
      <4> DEFINE p == tx[w].call.payment
      <4>1. payment[p] # NoRule /\ p \in Payments BY <3>2, Commits
      <4>2. <<Owed(p)>> \in Seq(AccrualRows) BY <4>1, Prices
      <4>3. accruals' \in {accruals, [accruals EXCEPT ![p] = <<Owed(p)>>]} BY <3>2, Commits
      <4>4. accruals' \in [Payments -> Seq(AccrualRows)] BY <1>1, <4>2, <4>3
      <4>5. events' \in {events, events \cup {tx[w].call}} BY <3>2, Commits
      <4>6. acked' = acked \cup {tx[w].call} /\ tx[w].call \in Calls BY <3>2, Commits
      <4> QED BY <1>1, <4>4, <4>5, <4>6
    <3> QED BY <1>3, <3>1, <3>2, QuietSteps
  <2> QED BY <1>1, <1>3, <2>1, <2>2, QuietSteps
<1>4. ASSUME NEW r \in Rules, CreateFeeRule(r) PROVE TypeOK'
  BY <1>1, <1>4 DEF CreateFeeRule, books
<1>5. ASSUME NEW p \in Payments, CreatePayment(p) PROVE TypeOK'
  BY <1>1, <1>5 DEF CreatePayment, Resolved, InForce, books
<1>6. ASSUME NEW p \in Payments, RecordFeeAccrualReversal(p) PROVE TypeOK'
  <2>1. payment[p] # NoRule BY <1>6, Reverses
  <2>2. <<Owed(p), Reversed(p)>> \in Seq(AccrualRows) BY <2>1, Prices
  <2>3. accruals' \in [Payments -> Seq(AccrualRows)] BY <1>1, <1>6, <2>2, Reverses
  <2> QED BY <1>1, <1>6, <2>3 DEF RecordFeeAccrualReversal
<1>7. CASE Tick BY <1>1, <1>7 DEF Tick, books
<1> QED BY <1>2, <1>3, <1>4, <1>5, <1>6, <1>7 DEF Next

-----------------------------------------------------------------------------
(* Each part of the invariant                                              *)

LEMMA EventsStep ==
  ASSUME IInv, [Next]_vars
  PROVE  OneEventPerKey' /\ AckedIsRecorded'
<1> USE DEF OneEventPerKey, AckedIsRecorded
<1>1. OneEventPerKey /\ AckedIsRecorded BY DEF IInv
<1>2. CASE UNCHANGED <<events, acked>> BY <1>1, <1>2
<1>3. ASSUME NEW w \in Requests, Commit(w) PROVE OneEventPerKey' /\ AckedIsRecorded'
  <2> DEFINE c == tx[w].call
  <2>1. acked' = acked \cup {c} BY <1>3, Commits
  <2>2. CASE tx[w].wrote
    <3>1. events' = events \cup {c} /\ \A v \in events : v.key # c.key BY <1>3, <2>2, Commits
    <3> QED BY <1>1, <2>1, <3>1
  <2>3. CASE ~tx[w].wrote
    <3>1. events' = events /\ \E v \in events : Replays(v, c) BY <1>3, <2>3, Commits
    <3> QED BY <1>1, <2>1, <3>1 DEF Replays
  <2> QED BY <2>2, <2>3
<1>4. ASSUME NEW w \in Requests, RequestStep(w) PROVE OneEventPerKey' /\ AckedIsRecorded'
  BY <1>2, <1>3, <1>4, QuietSteps DEF books
<1> QED BY <1>2, <1>4 DEF Next, vars, books, CreateFeeRule, CreatePayment,
      RecordFeeAccrualReversal, Tick

\* The rows of a payment change only when a commit adds its fee or a reversal the
\* negation of it.
LEMMA RowsChange ==
  ASSUME IInv, [Next]_vars, NEW p \in Payments
  PROVE  \/ accruals'[p] = accruals[p]
         \/ /\ accruals[p] = <<>> /\ accruals'[p] = <<Owed(p)>> /\ payment[p] # NoRule
            /\ \E w \in Requests : Commit(w) /\ tx[w].owes /\ tx[w].call.payment = p
         \/ /\ accruals[p] = <<Owed(p)>> /\ accruals'[p] = <<Owed(p), Reversed(p)>>
            /\ payment[p] # NoRule
<1>1. accruals \in [Payments -> Seq(AccrualRows)] BY DEF IInv, TypeOK
<1>2. CASE UNCHANGED accruals BY <1>2
<1>3. ASSUME NEW w \in Requests, Commit(w), tx[w].owes, tx[w].call.payment = p
      PROVE  accruals[p] = <<>> /\ accruals'[p] = <<Owed(p)>> /\ payment[p] # NoRule
  <2>1. /\ payment[p] # NoRule /\ accruals[p] = <<>>
        /\ accruals' = [accruals EXCEPT ![p] = <<Owed(p)>>] BY <1>3, Commits
  <2> QED BY <1>1, <2>1
<1>4. ASSUME NEW w \in Requests, Commit(w), ~tx[w].owes \/ tx[w].call.payment # p
      PROVE  accruals'[p] = accruals[p]
  <2> DEFINE q == tx[w].call.payment
  <2>1. \/ accruals' = accruals
        \/ q # p /\ accruals' = [accruals EXCEPT ![q] = <<Owed(q)>>] BY <1>4, Commits
  <2> QED BY <1>1, <2>1
<1>5. ASSUME NEW q \in Payments, RecordFeeAccrualReversal(q)
      PROVE  \/ accruals'[p] = accruals[p]
             \/ /\ accruals[p] = <<Owed(p)>> /\ accruals'[p] = <<Owed(p), Reversed(p)>>
                /\ payment[p] # NoRule
  <2>1. /\ accruals[q] = <<Owed(q)>> /\ payment[q] # NoRule
        /\ accruals' = [accruals EXCEPT ![q] = <<Owed(q), Reversed(q)>>] BY <1>5, Reverses
  <2> QED BY <1>1, <2>1
<1>6. ASSUME NEW w \in Requests, RequestStep(w) PROVE UNCHANGED accruals \/ Commit(w)
  BY <1>6, QuietSteps DEF books
<1> QED BY <1>2, <1>3, <1>4, <1>5, <1>6 DEF Next, vars, books, CreateFeeRule,
      CreatePayment, Tick

LEMMA FeesStep ==
  ASSUME IInv, [Next]_vars
  PROVE  FeeOrNothing' /\ AccrualsArePriced'
<1> SUFFICES ASSUME NEW p \in Payments, accruals'[p] # <<>>
             PROVE  /\ payment'[p] # NoRule
                    /\ Fee(p)' \in 0 .. Gross[p]
                    /\ accruals'[p] \in {<<Owed(p)'>>, <<Owed(p)', Reversed(p)'>>}
  BY DEF FeeOrNothing, AccrualsArePriced, Fee, Owed, Reversed
<1>1. payment[p] # NoRule /\ accruals'[p] \in {<<Owed(p)>>, <<Owed(p), Reversed(p)>>}
  BY RowsChange, Forms DEF IInv, AccrualsArePriced
<1>2. payment'[p] = payment[p] BY <1>1, SnapshotsStay
<1>3. Fee(p)' = Fee(p) BY <1>2 DEF Fee
<1>4. Owed(p)' = Owed(p) /\ Reversed(p)' = Reversed(p) BY <1>3 DEF Owed, Reversed
<1>5. Fee(p) \in 0 .. Gross[p] BY <1>1, Prices
<1> QED BY <1>1, <1>2, <1>3, <1>4, <1>5

\* Whether a payment has accrued its fee is whether it has rows at all, and stays so.
LEMMA AccrualsStay ==
  ASSUME IInv, [Next]_vars, NEW p \in Payments
  PROVE  /\ Has(p, "accrued") <=> accruals[p] # <<>>
         /\ Has(p, "accrued")' <=> accruals'[p] # <<>>
         /\ Has(p, "accrued") => Has(p, "accrued")'
<1>1. Has(p, "accrued") <=> accruals[p] # <<>> BY Forms DEF IInv
<1>2. CASE accruals'[p] = accruals[p] BY <1>1, <1>2 DEF Has
<1>3. CASE accruals'[p] = <<Owed(p)>>
  <2>1. 1 \in DOMAIN accruals'[p] /\ accruals'[p][1].kind = "accrued" BY <1>3 DEF Owed
  <2> QED BY <1>1, <1>3, <2>1 DEF Has
<1>4. CASE accruals'[p] = <<Owed(p), Reversed(p)>>
  <2>1. 1 \in DOMAIN accruals'[p] /\ accruals'[p][1].kind = "accrued" BY <1>4 DEF Owed
  <2>2. accruals'[p] # <<>> BY <1>4
  <2> QED BY <1>1, <2>1, <2>2 DEF Has
<1> QED BY <1>2, <1>3, <1>4, RowsChange

\* A new event is the call of the request that committed it.
LEMMA EventsChange ==
  ASSUME IInv, [Next]_vars
  PROVE  /\ events \subseteq events'
         /\ \A v \in events' \ events : \E w \in Requests :
              Commit(w) /\ tx[w].wrote /\ v = tx[w].call
<1>1. CASE UNCHANGED events BY <1>1
<1>2. ASSUME NEW w \in Requests, Commit(w)
      PROVE  \/ UNCHANGED events
             \/ events' = events \cup {tx[w].call} /\ tx[w].wrote
  BY <1>2, Commits
<1>3. ASSUME NEW w \in Requests, RequestStep(w) PROVE UNCHANGED events \/ Commit(w)
  BY <1>3, QuietSteps DEF books
<1> QED BY <1>1, <1>2, <1>3 DEF Next, vars, books, CreateFeeRule, CreatePayment,
      RecordFeeAccrualReversal, Tick

LEMMA VerdictsStep ==
  ASSUME IInv, [Next]_vars
  PROVE  VerdictsOweTheirFee'
<1> SUFFICES ASSUME NEW p \in Payments
             PROVE  Has(p, "accrued")' <=> \E v \in events' : v.payment = p /\ v.verdict
  BY DEF VerdictsOweTheirFee
<1>1. Has(p, "accrued") <=> \E v \in events : v.payment = p /\ v.verdict
  BY DEF IInv, VerdictsOweTheirFee
<1>2. ASSUME NEW v \in events', v.payment = p, v.verdict PROVE Has(p, "accrued")'
  <2>1. CASE v \in events BY <1>1, <1>2, <2>1, AccrualsStay
  <2>2. ASSUME NEW w \in Requests, Commit(w), v = tx[w].call PROVE Has(p, "accrued")'
    <3>1. tx[w].pc = "commit" BY <2>2 DEF Commit, At
    <3>2. CASE ~tx[w].owes
      BY <1>2, <2>2, <3>1, <3>2, AccrualsStay DEF IInv, FeesAreSound
    <3>3. CASE tx[w].owes
      <4>1. accruals' = [accruals EXCEPT ![p] = <<Owed(p)>>] BY <1>2, <2>2, <3>3, Commits
      <4>2. accruals'[p] = <<Owed(p)>> BY <4>1 DEF IInv, TypeOK
      <4>3. accruals'[p] # <<>> BY <4>2
      <4>4. Has(p, "accrued")' <=> accruals'[p] # <<>> BY AccrualsStay
      <4> QED BY <4>3, <4>4
    <3> QED BY <3>2, <3>3
  <2> QED BY <2>1, <2>2, EventsChange
<1>3. ASSUME Has(p, "accrued")' PROVE \E v \in events' : v.payment = p /\ v.verdict
  <2>1. CASE Has(p, "accrued") BY <1>1, <2>1, EventsChange
  <2>2. CASE ~Has(p, "accrued")
    <3>1. PICK w \in Requests : Commit(w) /\ tx[w].owes /\ tx[w].call.payment = p
      <4>1. accruals[p] = <<>> /\ accruals'[p] # <<>> BY <1>3, <2>2, AccrualsStay
      <4>2. accruals[p] # <<Owed(p)>> BY <4>1
      <4> QED BY <4>1, <4>2, RowsChange
    <3> DEFINE c == tx[w].call
    <3>2. c \in Calls /\ c.verdict BY <3>1, Commits
    <3>3. CASE tx[w].wrote BY <3>1, <3>2, <3>3, Commits
    <3>4. CASE ~tx[w].wrote
      <4>1. PICK v \in events : Replays(v, c) BY <3>1, <3>4, Commits
      <4>2. v \in Calls BY DEF IInv, TypeOK
      <4>3. v.payment = p /\ v.verdict
        BY <3>1, <3>2, <4>1, <4>2, CallsAssumption DEF Replays, CallRows
      <4> QED BY <4>3, EventsChange
    <3> QED BY <3>3, <3>4
  <2> QED BY <2>1, <2>2
<1> QED BY <1>2, <1>3

-----------------------------------------------------------------------------
(* Transactions under way                                                  *)

\* What IInv says of one request, and of two of them.
Sound(w) ==
  LET c == tx[w].call IN
  /\ tx[w].pc # "idle" => payment[c.payment] # NoRule
  /\ tx[w].wrote => Appended(w) /\ \A v \in events : v.key # c.key
  /\ Appended(w) /\ ~tx[w].wrote => \E v \in events : Replays(v, c)
  /\ tx[w].pc \in {"fee", "accrue"} => c.verdict
  /\ tx[w].owes => tx[w].pc = "commit" /\ c.verdict /\ ~Has(c.payment, "accrued")
  /\ tx[w].pc = "commit" /\ c.verdict /\ ~tx[w].owes => Has(c.payment, "accrued")

Apart(v, w) ==
  /\ tx[v].wrote /\ tx[w].wrote => tx[v].call.key # tx[w].call.key
  /\ tx[v].owes /\ tx[w].owes => tx[v].call.payment # tx[w].call.payment

AllSound == \A w \in Requests : Sound(w) /\ \A v \in Requests : v # w => Apart(v, w)

LEMMA SoundnessByRequest == AllSound <=> AppendsAreSound /\ FeesAreSound
BY DEF AllSound, Sound, Apart, AppendsAreSound, FeesAreSound

\* A request that does nothing keeps what it found: others commit other keys and
\* the fees of other payments.
LEMMA Bystander ==
  ASSUME IInv, [Next]_vars, NEW w \in Requests, tx'[w] = tx[w]
  PROVE  Sound(w)'
<1> DEFINE c == tx[w].call  p == c.payment
<1>1. Sound(w) /\ \A v \in Requests : v # w => Apart(v, w)
  BY SoundnessByRequest DEF IInv, AllSound
<1>2. tx[w].pc # "idle" => p \in Payments /\ payment[p] # NoRule BY Calling
<1>3. tx[w].pc # "idle" => payment'[p] # NoRule BY <1>2, SnapshotsStay
<1>4. ASSUME NEW v \in Requests, Commit(v) PROVE v # w
  <2>1. tx'[v] = Idle BY <1>4, Commits
  <2>2. tx[v].pc = "commit" BY <1>4 DEF Commit, At
  <2>3. Idle.pc = "idle" BY DEF Idle
  <2> QED BY <2>1, <2>2, <2>3
<1>5. ASSUME tx[w].wrote, NEW v \in events' PROVE v.key # c.key
  <2>1. CASE v \in events BY <1>1, <1>5, <2>1 DEF Sound
  <2>2. ASSUME NEW u \in Requests, Commit(u), tx[u].wrote, v = tx[u].call
        PROVE  v.key # c.key
    BY <1>1, <1>4, <1>5, <2>2 DEF Apart
  <2> QED BY <2>1, <2>2, EventsChange
<1>6. ASSUME tx[w].pc # "idle", tx[w].owes PROVE ~Has(p, "accrued")'
  <2>1. ~Has(p, "accrued") BY <1>1, <1>6 DEF Sound
  <2>2. accruals[p] = <<>> /\ accruals[p] # <<Owed(p)>>
    <3>1. accruals[p] = <<>> BY <1>2, <1>6, <2>1, AccrualsStay
    <3> QED BY <3>1
  <2>3. ~\E u \in Requests : Commit(u) /\ tx[u].owes /\ tx[u].call.payment = p
    BY <1>1, <1>4, <1>6 DEF Apart
  <2>4. accruals'[p] = accruals[p] BY <1>2, <1>6, <2>2, <2>3, RowsChange
  <2> QED BY <1>2, <1>6, <2>2, <2>4, AccrualsStay
<1>7. tx[w].pc # "idle" /\ Has(p, "accrued") => Has(p, "accrued")'
  BY <1>2, AccrualsStay
<1>8. Appended(w)' <=> Appended(w) BY DEF Appended
<1>9. Appended(w) => tx[w].pc # "idle" BY DEF Appended
<1>10. \A v : Replays(v, c)' <=> Replays(v, tx[w].call) BY DEF Replays
<1>11. (Has(tx[w].call.payment, "accrued"))' <=> Has(p, "accrued")' BY DEF Has
<1> QED BY <1>1, <1>3, <1>5, <1>6, <1>7, <1>8, <1>9, <1>10, <1>11, EventsChange
      DEF Sound

\* The request that moves finds what it writes down, and takes no key or fee that
\* another has taken.
LEMMA Actor ==
  ASSUME IInv, NEW w \in Requests, RequestStep(w)
  PROVE  /\ Sound(w)'
         /\ \A v \in Requests : v # w =>
              tx'[v] = tx[v] /\ Apart(v, w)' /\ Apart(w, v)'
<1> DEFINE c == tx[w].call  p == c.payment
<1>1. TypeOK /\ tx \in [Requests -> Transactions] /\ tx[w] \in Transactions
  BY DEF IInv, TypeOK
<1>2. \A v \in Requests : v # w => tx'[v] = tx[v] BY <1>1, Moves, StepsOneRequest
<1>3. /\ Sound(w)
      /\ \A v \in Requests : v # w => Apart(v, w) /\ Apart(w, v)
  BY SoundnessByRequest DEF IInv, AllSound
<1>4. ASSUME NEW t, Step(w, t) PROVE tx'[w] = t BY <1>1, <1>4 DEF Step
<1>5. CASE tx'[w] = Idle
  BY <1>2, <1>5 DEF Sound, Apart, Appended, Idle
<1>6. CASE RefuseKey(w) \/ RefuseAccrual(w) \/ Commit(w) \/ Abort(w)
  <2>1. tx'[w] = Idle BY <1>4, <1>6 DEF RefuseKey, RefuseAccrual, Commit, Abort, End
  <2> QED BY <1>5, <2>1
<1>7. ASSUME NEW d \in Calls, AppendPaymentEvent(w, d)
      PROVE  Sound(w)' /\ \A v \in Requests : v # w => Apart(v, w)' /\ Apart(w, v)'
  <2>1. tx'[w] = [Idle EXCEPT !.pc = "append", !.call = d] BY <1>4, <1>7 DEF AppendPaymentEvent
  <2>2. /\ tx'[w].pc = "append" /\ tx'[w].call = d
        /\ tx'[w].wrote = FALSE /\ tx'[w].owes = FALSE BY <2>1 DEF Idle
  <2>3. payment'[d.payment] # NoRule BY <1>7 DEF AppendPaymentEvent
  <2> QED BY <1>2, <2>2, <2>3 DEF Sound, Apart, Appended
<1>8. ASSUME At(w, "append"), UNCHANGED <<payment, books>>,
             tx'[w].pc = AfterAppend(c), tx'[w].call = c, tx'[w].owes = tx[w].owes,
             \/ tx'[w].wrote /\ KeyIsFree(w, c.key)
             \/ tx'[w].wrote = tx[w].wrote /\ \E v \in events : Replays(v, c)
      PROVE  Sound(w)' /\ \A v \in Requests : v # w => Apart(v, w)' /\ Apart(w, v)'
  <2>1. ~tx[w].wrote /\ ~tx[w].owes BY <1>3, <1>8 DEF At, Sound, Appended
  <2>2. ~tx'[w].owes BY <1>8, <2>1
  <2>3. payment'[tx'[w].call.payment] # NoRule BY <1>3, <1>8 DEF At, Sound
  <2>4. \/ tx'[w].wrote /\ \A v \in events' : v.key # tx'[w].call.key
        \/ ~tx'[w].wrote /\ \E v \in events' : Replays(v, tx'[w].call)
    BY <1>8, <2>1 DEF KeyIsFree, books
  <2>5. /\ tx'[w].pc \in {"fee", "commit"}
        /\ tx'[w].pc = "fee" <=> tx'[w].call.verdict
    BY <1>8 DEF AfterAppend
  <2>6. Sound(w)' BY <2>2, <2>3, <2>4, <2>5 DEF Sound, Appended, Replays
  <2>7. \A v \in Requests : v # w /\ tx'[v].wrote /\ tx'[w].wrote =>
          tx'[v].call.key # tx'[w].call.key
    BY <1>2, <1>8, <2>1 DEF KeyIsFree
  <2> QED BY <2>2, <2>6, <2>7 DEF Apart
<1>9. CASE InsertEvent(w)
  <2>1. tx'[w] = [tx[w] EXCEPT !.pc = AfterAppend(c), !.wrote = TRUE]
    BY <1>4, <1>9 DEF InsertEvent
  <2>2. /\ tx'[w].pc = AfterAppend(c) /\ tx'[w].call = c
        /\ tx'[w].wrote /\ tx'[w].owes = tx[w].owes BY <1>1, <2>1 DEF Transactions
  <2> QED BY <1>2, <1>8, <1>9, <2>2 DEF InsertEvent
<1>10. CASE ReplayEvent(w)
  <2>1. tx'[w] = [tx[w] EXCEPT !.pc = AfterAppend(c)] BY <1>4, <1>10 DEF ReplayEvent, Goto
  <2>2. /\ tx'[w].pc = AfterAppend(c) /\ tx'[w].call = c
        /\ tx'[w].wrote = tx[w].wrote /\ tx'[w].owes = tx[w].owes
    BY <1>1, <2>1 DEF Transactions
  <2> QED BY <1>2, <1>8, <1>10, <2>2 DEF ReplayEvent
<1>11. ASSUME tx[w].pc \in {"fee", "accrue"}, UNCHANGED <<payment, books>>,
              tx'[w].call = c, tx'[w].wrote = tx[w].wrote,
              \/ ~tx'[w].owes /\ tx'[w].pc = IF Has(p, "accrued") THEN "commit" ELSE "accrue"
              \/ tx'[w].owes /\ tx'[w].pc = "commit" /\ AccrualIsFree(w, p)
       PROVE  Sound(w)' /\ \A v \in Requests : v # w => Apart(v, w)' /\ Apart(w, v)'
  <2>1. c.verdict /\ payment[p] # NoRule BY <1>3, <1>11 DEF Sound
  <2>2. /\ tx[w].wrote => \A v \in events : v.key # c.key
        /\ ~tx[w].wrote => \E v \in events : Replays(v, c)
    BY <1>3, <1>11 DEF Sound, Appended
  <2>3. tx'[w].owes => ~Has(p, "accrued") BY <1>11 DEF AccrualIsFree
  <2>4. tx'[w].pc \in {"accrue", "commit"} BY <1>11
  <2>5. Has(p, "accrued")' <=> Has(p, "accrued") BY <1>11 DEF Has, books
  <2>6. Has(tx[w].call.payment, "accrued")' <=> Has(p, "accrued")' BY <1>11 DEF Has
  <2>7. events' = events /\ payment' = payment BY <1>11 DEF books
  <2>8. Sound(w)'
    BY <1>11, <2>1, <2>2, <2>3, <2>4, <2>5, <2>6, <2>7 DEF Sound, Appended, Replays
  <2>9. \A v \in Requests : v # w /\ tx'[v].owes /\ tx'[w].owes =>
          tx'[v].call.payment # tx'[w].call.payment
    BY <1>2, <1>11 DEF AccrualIsFree
  <2>10. \A v \in Requests : v # w /\ tx'[v].wrote /\ tx'[w].wrote =>
           tx'[v].call.key # tx'[w].call.key
    BY <1>2, <1>3, <1>11 DEF Apart
  <2> QED BY <2>8, <2>9, <2>10 DEF Apart
<1>12. CASE LoadAccruedRow(w)
  <2>1. tx'[w] = [tx[w] EXCEPT !.pc = IF Has(p, "accrued") THEN "commit" ELSE "accrue"]
    BY <1>4, <1>12 DEF LoadAccruedRow, Goto
  <2>2. /\ tx'[w].pc = IF Has(p, "accrued") THEN "commit" ELSE "accrue"
        /\ tx'[w].call = c /\ tx'[w].wrote = tx[w].wrote /\ tx'[w].owes = tx[w].owes
    BY <1>1, <2>1 DEF Transactions
  <2>3. ~tx[w].owes BY <1>3, <1>12 DEF LoadAccruedRow, At, Sound
  <2> QED BY <1>2, <1>11, <1>12, <2>2, <2>3 DEF LoadAccruedRow, At
<1>13. CASE RecordFeeAccrual(w)
  <2>1. tx'[w] = [tx[w] EXCEPT !.pc = "commit", !.owes = TRUE]
    BY <1>4, <1>13 DEF RecordFeeAccrual
  <2>2. /\ tx'[w].pc = "commit" /\ tx'[w].call = c
        /\ tx'[w].wrote = tx[w].wrote /\ tx'[w].owes BY <1>1, <2>1 DEF Transactions
  <2> QED BY <1>2, <1>11, <1>13, <2>2 DEF RecordFeeAccrual, At
<1> QED BY <1>2, <1>6, <1>7, <1>9, <1>10, <1>12, <1>13 DEF RequestStep

LEMMA TransactionsStep ==
  ASSUME IInv, [Next]_vars
  PROVE  AppendsAreSound' /\ FeesAreSound'
<1> SUFFICES AllSound'
  BY DEF AllSound, Sound, Apart, AppendsAreSound, FeesAreSound
<1>1. AllSound BY SoundnessByRequest DEF IInv
<1>2. CASE UNCHANGED tx
  <2>1. \A w \in Requests : Sound(w)' BY <1>2, Bystander
  <2> QED BY <1>1, <1>2, <2>1 DEF AllSound, Apart
<1>3. ASSUME NEW u \in Requests, RequestStep(u) PROVE AllSound'
  <2>1. /\ Sound(u)'
        /\ \A v \in Requests : v # u => tx'[v] = tx[v] /\ Apart(v, u)' /\ Apart(u, v)'
    BY <1>3, Actor
  <2>2. \A w \in Requests : w # u => Sound(w)' BY <2>1, Bystander
  <2>3. ASSUME NEW v \in Requests, NEW w \in Requests, v # w, v # u, w # u
        PROVE  Apart(v, w)'
    BY <1>1, <2>1, <2>3 DEF AllSound, Apart
  <2> QED BY <2>1, <2>2, <2>3 DEF AllSound
<1> QED BY <1>2, <1>3 DEF Next, vars, CreateFeeRule, CreatePayment,
      RecordFeeAccrualReversal, Tick

-----------------------------------------------------------------------------
(* The invariant and what it gives                                         *)

LEMMA InitInv == Init => IInv
<1> SUFFICES ASSUME Init PROVE IInv OBVIOUS
<1>1. TypeOK BY IdleIsATransaction DEF Init, TypeOK
<1>2. AppendsAreSound /\ FeesAreSound
  BY DEF Init, Idle, AppendsAreSound, FeesAreSound, Appended
<1>3. AccrualsArePriced /\ FeeOrNothing BY DEF Init, AccrualsArePriced, FeeOrNothing
<1>4. OneEventPerKey /\ AckedIsRecorded BY DEF Init, OneEventPerKey, AckedIsRecorded
<1>5. VerdictsOweTheirFee BY DEF Init, VerdictsOweTheirFee, Has
<1> QED BY <1>1, <1>2, <1>3, <1>4, <1>5 DEF IInv

LEMMA NextInv == IInv /\ [Next]_vars => IInv'
BY TypeStep, TransactionsStep, FeesStep, EventsStep, VerdictsStep DEF IInv

\* The tables and the transactions hold values of their own kind.
THEOREM LedgerTypeCorrect == Spec => []TypeOK
<1>1. IInv => TypeOK BY DEF IInv
<1> QED BY <1>1, InitInv, NextInv, PTL DEF Spec

\* assertEventInput, appendPaymentEvent: however often and at once a call is
\* delivered, its key owns one event.
THEOREM KeysAreSpentOnce == Spec => []OneEventPerKey
<1>1. IInv => OneEventPerKey BY DEF IInv
<1> QED BY <1>1, InitInv, NextInv, PTL DEF Spec

\* appendPaymentEvent: whoever is told that its event is recorded, or was before,
\* finds an event of its own payment, type and amount in the ledger.
THEOREM NothingIsLost == Spec => []AckedIsRecorded
<1>1. IInv => AckedIsRecorded BY DEF IInv
<1> QED BY <1>1, InitInv, NextInv, PTL DEF Spec

\* verifyManualPaymentProof, recordFeeAccrual: the verdict's event and its fee are
\* in the books together or not at all, whatever fails between them.
THEOREM VerdictAndFeeAreOne == Spec => []VerdictsOweTheirFee
<1>1. IInv => VerdictsOweTheirFee BY DEF IInv
<1> QED BY <1>1, InitInv, NextInv, PTL DEF Spec

\* recordFeeAccrual, recordFeeAccrualReversal: for any rules, written and backdated
\* at any time, a payment owes nothing or its own fee, once, and at most what it
\* received, and a reversal takes back exactly that fee, once.
THEOREM FeesAreOwedOnce == Spec => []FeeOrNothing
<1>1. IInv => FeeOrNothing BY DEF IInv
<1> QED BY <1>1, InitInv, NextInv, PTL DEF Spec

-----------------------------------------------------------------------------
(* One book                                                                *)

\* The rows of a payment seen as amounts: none, its fee, or its fee and minus it.
LEMMA Amounts ==
  ASSUME IInv, NEW p \in Payments
  PROVE  /\ accruals[p] = <<>> <=> owedOf[p] = <<>>
         /\ accruals[p] = <<Owed(p)>> => owedOf[p] = <<Fee(p)>>
         /\ accruals[p] = <<Owed(p), Reversed(p)>> => owedOf[p] = <<Fee(p), -Fee(p)>>
<1>1. owedOf[p] = [n \in DOMAIN accruals[p] |-> accruals[p][n].amount] BY DEF owedOf
<1>2. accruals[p] = <<>> => owedOf[p] = <<>> BY <1>1
<1>3. accruals[p] = <<Owed(p)>> => owedOf[p] = <<Fee(p)>> BY <1>1 DEF Owed
<1>4. accruals[p] = <<Owed(p), Reversed(p)>> => owedOf[p] = <<Fee(p), -Fee(p)>>
  BY <1>1 DEF Owed, Reversed
<1>5. accruals[p] \in {<<>>, <<Owed(p)>>, <<Owed(p), Reversed(p)>>} BY Forms DEF IInv
<1>6. <<>> # <<Fee(p)>> /\ <<>> # <<Fee(p), -Fee(p)>> OBVIOUS
<1> QED BY <1>2, <1>3, <1>4, <1>5, <1>6

\* Writing the rows of one payment writes its amounts and no other's.
LEMMA OneIsOwed ==
  ASSUME IInv, IInv', NEW p \in Payments, NEW s, accruals' = [accruals EXCEPT ![p] = s]
  PROVE  owedOf' = [owedOf EXCEPT ![p] = [n \in DOMAIN s |-> s[n].amount]]
<1>1. accruals \in [Payments -> Seq(AccrualRows)] BY DEF IInv, TypeOK
<1>2. accruals'[p] = s /\ \A q \in Payments : q # p => accruals'[q] = accruals[q] BY <1>1
<1> DEFINE amounts == [n \in DOMAIN s |-> s[n].amount]
<1>3. owedOf'[p] = amounts BY <1>2 DEF owedOf
<1>4. ASSUME NEW q \in Payments, q # p PROVE owedOf'[q] = owedOf[q]
  <2>1. accruals'[q] = accruals[q] BY <1>2, <1>4
  <2> QED BY <2>1 DEF owedOf
<1> HIDE DEF amounts
<1>5. /\ owedOf = [q \in Payments |-> owedOf[q]]
      /\ owedOf' = [q \in Payments |-> owedOf'[q]]
  BY DEF owedOf
<1>6. owedOf' = [owedOf EXCEPT ![p] = amounts] BY <1>3, <1>4, <1>5
<1> QED BY <1>6 DEF amounts

\* A commit that wrote its event posts it, with the fee if it is a verdict's; one
\* that found its event there changes nothing but what its caller knows.
LEMMA CommitIsAMoment ==
  ASSUME IInv, IInv', NEW w \in Requests, Commit(w)
  PROVE  Book!Post(tx[w].call) \/ Book!Confirm(tx[w].call)
<1> DEFINE c == tx[w].call  p == c.payment
<1>1. c \in Calls /\ p \in Payments /\ payment[p] # NoRule BY Commits
<1>2. payment' = payment /\ acked' = acked \cup {c} BY DEF Commit
<1>3. Has(p, "accrued") <=> owedOf[p] # <<>> BY <1>1, Forms, Amounts DEF IInv
<1>4. tx[w].owes => owedOf' = [owedOf EXCEPT ![p] = <<Fee(p)>>]
  <2>1. tx[w].owes => accruals' = [accruals EXCEPT ![p] = <<Owed(p)>>] BY Commits
  <2>2. [n \in DOMAIN <<Owed(p)>> |-> <<Owed(p)>>[n].amount] = <<Fee(p)>> BY DEF Owed
  <2> QED BY <1>1, <2>1, <2>2, OneIsOwed
<1>5. ~tx[w].owes => owedOf' = owedOf
  <2>1. ~tx[w].owes => accruals' = accruals BY Commits
  <2> QED BY <2>1 DEF owedOf
<1>6. tx[w].owes <=> c.verdict /\ owedOf[p] = <<>>
  <2>1. tx[w].pc = "commit" BY DEF Commit, At
  <2>2. tx[w].owes \in BOOLEAN BY DEF IInv, TypeOK, Transactions
  <2> QED BY <1>3, <2>1, <2>2 DEF IInv, FeesAreSound
<1>7. CASE tx[w].wrote
  <2>1. events' = events \cup {c} /\ Book!Fresh(c) BY <1>7, Commits DEF Book!Fresh
  <2>2. Book!Charge(c)
    BY <1>4, <1>5, <1>6 DEF Book!Charge, FeeUnder, Fee
  <2> QED BY <1>1, <1>2, <2>1, <2>2 DEF Book!Post
<1>8. CASE ~tx[w].wrote
  <2>1. events' = events BY <1>8, Commits
  <2>2. PICK v \in events : Replays(v, c) BY <1>8, Commits
  <2>3. v \in Calls BY DEF IInv, TypeOK
  <2>4. c.verdict => v.verdict /\ v.payment = p
    BY <1>1, <2>2, <2>3, CallsAssumption, RowsAssumption DEF Replays, CallRows
  <2>5. c.verdict => Has(p, "accrued") BY <1>1, <2>4 DEF IInv, VerdictsOweTheirFee
  <2>6. owedOf' = owedOf BY <1>3, <1>5, <1>6, <2>5
  <2> QED BY <1>2, <2>1, <2>2, <2>6 DEF Book!Confirm
<1> QED BY <1>7, <1>8

LEMMA ReversalTakesBack ==
  ASSUME IInv, IInv', NEW p \in Payments, RecordFeeAccrualReversal(p)
  PROVE  Book!TakeBack(p)
<1>1. /\ accruals[p] = <<Owed(p)>> /\ payment[p] # NoRule
      /\ accruals' = [accruals EXCEPT ![p] = <<Owed(p), Reversed(p)>>]
  BY Reverses
<1>2. owedOf[p] = <<Fee(p)>> BY <1>1, Amounts
<1>3. Fee(p) \in Int
  <2>1. Gross[p] \in Nat BY RowsAssumption
  <2> QED BY <1>1, <2>1, Prices
<1>4. Append(<<Fee(p)>>, -Fee(p)) = <<Fee(p), -Fee(p)>>
  <2>1. -Fee(p) \in Int BY <1>3
  <2> QED BY <1>3, <2>1, AppendToOne
<1>5. [n \in DOMAIN <<Owed(p), Reversed(p)>> |-> <<Owed(p), Reversed(p)>>[n].amount]
        = <<Fee(p), -Fee(p)>>
  BY DEF Owed, Reversed
<1>6. owedOf' = [owedOf EXCEPT ![p] = <<Fee(p), -Fee(p)>>]
  <2> DEFINE s == <<Owed(p), Reversed(p)>>
  <2> HIDE DEF s
  <2>1. accruals' = [accruals EXCEPT ![p] = s] BY <1>1 DEF s
  <2>2. owedOf' = [owedOf EXCEPT ![p] = [n \in DOMAIN s |-> s[n].amount]] BY <2>1, OneIsOwed
  <2>3. [n \in DOMAIN s |-> s[n].amount] = <<Fee(p), -Fee(p)>> BY <1>5 DEF s
  <2> QED BY <2>2, <2>3
<1>7. Len(owedOf[p]) = 1 /\ -Head(owedOf[p]) = -Fee(p) BY <1>2
<1> QED BY <1>2, <1>4, <1>6, <1>7 DEF RecordFeeAccrualReversal, Book!TakeBack, owedOf

LEMMA StepsMap ==
  ASSUME IInv, IInv', [Next]_vars
  PROVE  [Book!BNext]_(Book!bvars)
<1> DEFINE still == UNCHANGED <<payment, events, owedOf, acked>>
<1>1. CASE UNCHANGED <<payment, books>> BY <1>1 DEF books, owedOf, Book!bvars
<1>2. ASSUME NEW w \in Requests, Commit(w) PROVE Book!BNext
  <2>1. tx[w].call \in Calls BY <1>2, Commits
  <2> QED BY <1>2, <2>1, CommitIsAMoment DEF Book!BNext
<1>3. ASSUME NEW w \in Requests, RequestStep(w) PROVE [Book!BNext]_(Book!bvars)
  BY <1>1, <1>2, <1>3, QuietSteps
<1>4. ASSUME NEW p \in Payments, CreatePayment(p) PROVE Book!BNext
  <2>1. PICK r \in Resolved(Institution[p], now) : payment' = [payment EXCEPT ![p] = r]
    BY <1>4 DEF CreatePayment
  <2>2. r \in Rules BY <2>1 DEF Resolved, InForce
  <2>3. Book!Price(p, r) BY <1>4, <2>1 DEF CreatePayment, books, owedOf, Book!Price
  <2> QED BY <2>2, <2>3 DEF Book!BNext
<1>5. ASSUME NEW p \in Payments, RecordFeeAccrualReversal(p) PROVE Book!BNext
  BY <1>5, ReversalTakesBack DEF Book!BNext
<1> QED BY <1>1, <1>3, <1>4, <1>5 DEF Next, vars, books, CreateFeeRule, Tick

\* appendPaymentEvent, recordFeeAccrual and recordFeeAccrualReversal, called by any
\* number of requests at once, retried and cut off anywhere, are a book that takes
\* one call at a time: an event, the fee of its verdict and the acknowledgement of
\* both come about in one step, and a replayed call changes nothing.
THEOREM LedgerIsOneBook == Spec => IsOneBook
<1>1. Init => Book!BInit
  BY DEF Init, Book!BInit, owedOf
<1> QED BY <1>1, InitInv, NextInv, StepsMap, PTL DEF Spec, IsOneBook, Book!BSpec

=============================================================================
