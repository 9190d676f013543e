------------------------------ MODULE MCLedger ------------------------------
(* Two payments of one institution, two fee rules and a handful of calls.  *)
EXTENDS LedgerStatus, TLC

CONSTANTS p1, p2, i1

LedgerInstitution == [p \in Payments |-> i1]
LedgerGross == [p \in Payments |-> IF p = p1 THEN 3 ELSE 1]

\* A global rule, and the institution's own, which may be backdated before it and
\* whose minimum exceeds the smaller payment.
LedgerRules ==
  {[id |-> 1, institution |-> Global, from |-> 0, to |-> 9, basisPoints |-> 5000,
    flat |-> 0, least |-> 0, most |-> 9],
   [id |-> 2, institution |-> i1, from |-> 1, to |-> 9, basisPoints |-> 0,
    flat |-> 1, least |-> 2, most |-> 9]}

Event(k, p, type, amount, at) ==
  [key |-> k, payment |-> p, type |-> type, amount |-> amount, at |-> at, verdict |-> FALSE]

Verdict(k, p, at) ==
  [key |-> k, payment |-> p, type |-> "succeeded", amount |-> Gross[p], at |-> at,
   verdict |-> TRUE]

\* A verdict and its retries, a second attempt's verdict, a verdict on the other
\* payment under the first one's key, a failure, an expiry that occurred before it
\* and is recorded under a later key, a full refund and a correction upwards.
LedgerCalls ==
  {Verdict(1, p1, 1), Verdict(2, p1, 2), Verdict(1, p2, 1),
   Event(3, p1, "failed", 0, 2), Event(4, p1, "expired", 0, 1),
   Event(5, p1, "refunded", 3, 2), Event(6, p1, "corrected", 3, 1)}

Symmetry == Permutations(Requests)

=============================================================================
