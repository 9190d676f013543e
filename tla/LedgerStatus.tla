---------------------------- MODULE LedgerStatus ----------------------------
(***************************************************************************)
(* What the ledger says of a payment: the fold of its events.  There is no *)
(* status column, so events that arrive late, twice or out of order must   *)
(* fold to the right answer at every moment.                               *)
(***************************************************************************)
EXTENDS PaymentLedger

\* Mutant of comparePaymentEvents: the order of recording before that of occurring.
comparePaymentEventsByRecord(u, v) == u.key < v.key

\* occurred_at, then recorded_at and id, for which the key stands: a transaction's
\* recorded_at is its start, so among events of one instant any order is possible.
comparePaymentEvents(u, v) == u.at < v.at \/ (u.at = v.at /\ u.key < v.key)

Nothing == [succeeded |-> FALSE, outcome |-> "pending", captured |-> 0, refunded |-> 0]

\* Mutant of AbsorbEvent: a correction restates what was captured.
AbsorbEventCorrecting(f, v) ==
  CASE v.type = "succeeded" -> [f EXCEPT !.succeeded = TRUE, !.captured = @ + v.amount]
    [] v.type = "corrected" -> [f EXCEPT !.captured = @ + v.amount]
    [] v.type = "refunded" -> [f EXCEPT !.refunded = @ + v.amount]
    [] v.type \in {"failed", "expired"} -> [f EXCEPT !.outcome = v.type]
    [] OTHER -> f

\* Mutant of AbsorbEvent: the last outcome wins, a success included.
AbsorbEventLastWins(f, v) ==
  CASE v.type = "succeeded" -> [f EXCEPT !.succeeded = TRUE, !.captured = @ + v.amount]
    [] v.type = "refunded" -> [f EXCEPT !.refunded = @ + v.amount]
    [] v.type \in {"failed", "expired"} -> [f EXCEPT !.outcome = v.type, !.succeeded = FALSE]
    [] OTHER -> f

AbsorbEvent(f, v) ==
  CASE v.type = "succeeded" -> [f EXCEPT !.succeeded = TRUE, !.captured = @ + v.amount]
    [] v.type = "refunded" -> [f EXCEPT !.refunded = @ + v.amount]
    [] v.type \in {"failed", "expired"} -> [f EXCEPT !.outcome = v.type]
    [] OTHER -> f

\* The event that the sort puts last.
LastOf(S) == CHOOSE v \in S : \A u \in S \ {v} : comparePaymentEvents(u, v)

\* The events absorbed in canonical order: the last one after all the others.
foldPaymentEvents(E) ==
  LET fold[S \in SUBSET E] ==
        IF S = {} THEN Nothing ELSE AbsorbEvent(fold[S \ {LastOf(S)}], LastOf(S))
  IN  fold[E]

resolveStatus(f) ==
  IF ~f.succeeded THEN f.outcome
  ELSE IF f.captured > 0 /\ f.refunded >= f.captured THEN "refunded" ELSE "succeeded"

Of(p) == {v \in events : v.payment = p}

Status(p) == resolveStatus(foldPaymentEvents(Of(p)))

-----------------------------------------------------------------------------
\* A payment that took money did take it: nothing that is recorded later, whenever
\* it occurred, makes it pending, failed or expired again.
SuccessIsNotUndone ==
  [][events' # events =>
       \A p \in Payments :
         Status(p) \in {"succeeded", "refunded"} => Status(p)' \in {"succeeded", "refunded"}]_vars

\* A correction restates figures and never moves the status, before or after the
\* events it corrects.
CorrectionsMoveNoStatus ==
  \A p \in Payments :
    Status(p) = resolveStatus(foldPaymentEvents({v \in Of(p) : v.type # "corrected"}))

\* While nothing has succeeded the outcome that occurred last stands, in whatever
\* order the deliveries arrived.
LastOutcomeStands ==
  \A p \in Payments : Status(p) \in {"failed", "expired"} =>
    \E v \in Of(p) :
      /\ v.type = Status(p)
      /\ \A u \in Of(p) : u.type \in {"failed", "expired"} => u.at <= v.at

=============================================================================
