---------------------------- MODULE PaymentBook ----------------------------
(***************************************************************************)
(* What the payment books promise whoever writes to them, without          *)
(* transactions, unique indexes or retries.  A call is posted at one       *)
(* moment or not at all: its event enters the book under a key of its own, *)
(* a verdict's with the fee that its payment was priced at, and the caller *)
(* is told so.  A call whose event is there already is only told so.  A    *)
(* fee is taken back once and whole.                                       *)
(***************************************************************************)
EXTENDS Integers, Sequences

CONSTANTS
  Payments,
  Calls,           \* records with a key, a payment and whether it is a verdict
  Terms,           \* what a payment may be priced by
  NoTerms,
  Fee(_, _),       \* Fee(p, t): the fee of p under the terms t
  Replays(_, _)    \* Replays(v, c): c asks for the event that v posted

VARIABLES
  terms,   \* the terms each payment was priced by; NoTerms = no payment
  posted,  \* the events in the book
  owed,    \* owed[p]: the fee p accrued and what was taken back, in order
  told     \* calls whose caller was told that the event is in the book

bvars == <<terms, posted, owed, told>>

BInit ==
  /\ terms = [p \in Payments |-> NoTerms]
  /\ posted = {}
  /\ owed = [p \in Payments |-> <<>>]
  /\ told = {}

Price(p, t) ==
  /\ terms[p] = NoTerms
  /\ terms' = [terms EXCEPT ![p] = t]
  /\ UNCHANGED <<posted, owed, told>>

Fresh(c) == \A v \in posted : v.key # c.key

\* A second verdict on a payment is an event and no second fee.
Charge(c) ==
  LET p == c.payment IN
  owed' = IF c.verdict /\ owed[p] = <<>>
          THEN [owed EXCEPT ![p] = <<Fee(p, terms[p])>>] ELSE owed

Post(c) ==
  /\ terms[c.payment] # NoTerms
  /\ Fresh(c)
  /\ posted' = posted \cup {c}
  /\ Charge(c)
  /\ told' = told \cup {c}
  /\ UNCHANGED terms

Confirm(c) ==
  /\ \E v \in posted : Replays(v, c)
  /\ told' = told \cup {c}
  /\ UNCHANGED <<terms, posted, owed>>

TakeBack(p) ==
  /\ Len(owed[p]) = 1
  /\ owed' = [owed EXCEPT ![p] = Append(@, -Head(@))]
  /\ UNCHANGED <<terms, posted, told>>

BNext ==
  \/ \E p \in Payments, t \in Terms : Price(p, t)
  \/ \E c \in Calls : Post(c) \/ Confirm(c)
  \/ \E p \in Payments : TakeBack(p)

BSpec == BInit /\ [][BNext]_bvars

=============================================================================
