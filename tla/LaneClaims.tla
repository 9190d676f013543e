---------------------------- MODULE LaneClaims ----------------------------
(***************************************************************************)
(* What the manual lane promises (PaymentPromise, through a refinement     *)
(* mapping), its progress, and the claims its comments make that the code  *)
(* does not keep.                                                          *)
(***************************************************************************)
EXTENDS ManualPaymentLane

\* The stage a payer would be told their payment is at.
Stage(e) ==
  IF due[e] = 0 THEN "none"
  ELSE IF Status(e) = "succeeded" THEN "paid"
  ELSE IF Status(e) = "expired" THEN "expired"
  ELSE IF proof[e].status = "pending_review" THEN "under_review"
  ELSE IF proof[e].status = "none" THEN "unpaid"
  ELSE "returned"

stageOf == [e \in Entries |-> Stage(e)]

\* A registration taken for free has no payment and is nobody's promise.
registeredOf == [e \in Entries |-> due[e] # 0 /\ row[Anchor(e)] = "confirmed"]

Promise == INSTANCE PaymentPromise WITH
  Payments <- Entries, stage <- stageOf, fee <- accrued, registered <- registeredOf

\* Every behaviour of the handlers, the verdicts and the sweep is one of the
\* stage machine: no interleaving reaches a stage out of turn.
KeepsThePromise == Promise!PSpec

\* An event of the lane as a call of the books.  Its key is coarser than the code's:
\* a payment succeeds under one attempt only, and expires once.
PostedOf(e, type) == [key |-> <<e, type>>, payment |-> e, verdict |-> type = "succeeded"]

LaneCalls == {PostedOf(e, type) : e \in Entries, type \in {"succeeded", "expired"}}

postedOf ==
  {c \in LaneCalls : \E v \in events[c.payment] : c = PostedOf(c.payment, v.type)}

\* Every payment has a price of its own, and a price has the one fee 1.
pricedOf == [e \in Entries |-> IF due[e] = 0 THEN 0 ELSE 1]
owedOf == [e \in Entries |-> [n \in 1 .. accrued[e] |-> 1]]

OneFee(e, t) == 1
Same(v, c) == v = c

Book == INSTANCE PaymentBook WITH
  Payments <- Entries, Calls <- LaneCalls, Terms <- {1}, NoTerms <- 0,
  Fee <- OneFee, Replays <- Same,
  terms <- pricedOf, posted <- postedOf, owed <- owedOf, told <- postedOf

\* What the lane writes to the books is what one writer at a time could have written
\* to PaymentBook: every event once, on a payment that exists, a success with its fee.
KeepsTheBook == Book!BSpec

\* A worker process dies, or its transaction on a payment rolls back.
SweepFails(w) == Abort(w) /\ ~\E e \in Entries : ExpireDecline(w, e)

\* The next hourly run is the retry: sweeps keep being scheduled and a sweep
\* does not fail for ever; a transaction waits its turn for a row lock, and one
\* that holds a lock ends.  Nobody is obliged to upload, verify or cancel.
Fairness ==
  /\ \A w \in Requests : WF_vars(Abort(w))
  /\ \A w \in Sweepers :
       /\ WF_vars(SweepSelect(w))
       /\ SF_vars(ExpireCommit(w))
       /\ \A e \in Entries : SF_vars(ExpireDecline(w, e)) /\ SF_vars(ExpireLock(w, e))
       /\ <>[][~SweepFails(w)]_vars

FairSpec == Spec /\ Fairness

\* A payment past its deadline does not stay open: it settles, or a proof of
\* it is filed for review, though sweeps fail, die and meet locked rows.
OverdueIsResolved ==
  \A e \in Entries :
    Overdue(e) ~> (Status(e) # "pending" \/ proof[e].status = "pending_review")

-----------------------------------------------------------------------------
(* Claims of the comments                                                  *)

\* payment-expiry-service.ts: a candidate who transferred real money and is
\* waiting on an organiser must never be cancelled because of the wait.
SweepSparesEvidence ==
  [][\A w \in Sweepers : ExpireCommit(w) =>
       \A r \in Confirmed(Rows) :
         row'[r] = "cancelled" => proof[r[1]].status # "pending_review"]_vars

\* competition-service.ts: unpublish is blocked while money is in flight.
UnpublishSparesEvidence ==
  [][\A w \in Requests : UnpublishCommit(w) => ~HasCompetitionPaymentInFlight]_vars

===========================================================================
