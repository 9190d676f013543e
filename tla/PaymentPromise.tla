-------------------------- MODULE PaymentPromise --------------------------
(***************************************************************************)
(* What the manual lane promises a payer and an institution, without       *)
(* locks, requests, attempt numbers or ledgers.  A payment moves between    *)
(* six stages.  Money is accepted only from a payer still registered and   *)
(* only from evidence under review; a payment lapses only while nothing is *)
(* under review, and its registration ends with it; the fee is owed        *)
(* exactly once the money is accepted.                                     *)
(***************************************************************************)
EXTENDS Naturals

CONSTANT Payments

VARIABLES
  stage,       \* where the payment stands
  fee,         \* fees the institution owes for it
  registered   \* whether the payer's registration is alive

pvars == <<stage, fee, registered>>

Stages == {"none", "unpaid", "under_review", "returned", "paid", "expired"}

PInit ==
  /\ stage = [p \in Payments |-> "none"]
  /\ fee = [p \in Payments |-> 0]
  /\ registered = [p \in Payments |-> FALSE]

Move(p, from, to) ==
  /\ stage[p] \in from
  /\ stage' = [stage EXCEPT ![p] = to]

Open(p) ==
  /\ Move(p, {"none"}, "unpaid")
  /\ registered' = [registered EXCEPT ![p] = TRUE]
  /\ UNCHANGED fee

Evidence(p) ==
  /\ registered[p]
  /\ Move(p, {"unpaid", "returned"}, "under_review")
  /\ UNCHANGED <<fee, registered>>

Accept(p) ==
  /\ registered[p]
  /\ Move(p, {"under_review"}, "paid")
  /\ fee' = [fee EXCEPT ![p] = 1]
  /\ UNCHANGED registered

Return(p) ==
  /\ Move(p, {"under_review"}, "returned")
  /\ UNCHANGED <<fee, registered>>

\* Registrations end; none begins and no payment moves.
Ending(P) == registered' = [p \in Payments |-> registered[p] /\ p \notin P]

Lapse(p, P) ==
  /\ Move(p, {"unpaid", "returned"}, "expired")
  /\ p \in P
  /\ Ending(P)
  /\ UNCHANGED fee

Withdraw(P) ==
  /\ Ending(P)
  /\ UNCHANGED <<stage, fee>>

PNext ==
  \/ \E p \in Payments : Open(p) \/ Evidence(p) \/ Accept(p) \/ Return(p)
  \/ \E p \in Payments, P \in SUBSET Payments : Lapse(p, P)
  \/ \E P \in SUBSET Payments : Withdraw(P)

PSpec == PInit /\ [][PNext]_pvars

===========================================================================
