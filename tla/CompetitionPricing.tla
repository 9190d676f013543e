------------------------- MODULE CompetitionPricing -------------------------
(***************************************************************************)
(* The lane of a competition whose organiser may set and clear its price.  *)
(* Every registration reads the price in its own transaction, under the    *)
(* participation lock, and owes a payment or none; setCompetitionFee takes *)
(* the same lock from its classification to its write.  Uploads, verdicts  *)
(* and sweeps go on beside it: they know the payment and not the price.    *)
(***************************************************************************)
EXTENDS LaneClaims

\* hasActiveFreeRegistrations: a payment group with a live row and no live row
\* that anchors a priced payment.
HasActiveFree ==
  \E e \in Entries :
    /\ Confirmed(RowsOf(Group(e))) # {}
    /\ \A f \in Group(e) : row[Anchor(f)] = "confirmed" => due[f] = 0

\* isPaidCompetition: fee_amount > 0.
Priced == competition.priced

\* A free competition's registration: no payment row at all, not one of zero.
RegisterFree(w) ==
  /\ ~Priced
  /\ InsertRegistration(w)
  /\ UNCHANGED due

\* Mutant of SetFeeLock: the classification reads without the lock.
SetFeeUnlocked(w, charge) ==
  /\ Priced # charge
  /\ ~HasCompetitionPaymentInFlight
  /\ charge => ~HasActiveFree
  /\ Begin(w, [Idle EXCEPT !.op = IF charge THEN "charge" ELSE "clear"])
  /\ UNCHANGED <<now, competition, row, team, lane, locks>>

\* Under the lock: no price moves while money is in flight, and none is set
\* over a live registration that was taken for free.
SetFeeLock(w, charge) ==
  /\ partLock = NoWorker
  /\ Priced # charge
  /\ ~HasCompetitionPaymentInFlight
  /\ charge => ~HasActiveFree
  /\ Begin(w, [Idle EXCEPT !.op = IF charge THEN "charge" ELSE "clear"])
  /\ partLock' = w
  /\ UNCHANGED <<now, competition, row, team, lane, rowLock>>

SetFeeCommit(w) ==
  /\ tx[w].op \in {"charge", "clear"}
  /\ competition' = [competition EXCEPT !.priced = (tx[w].op = "charge")]
  /\ End(w)
  /\ partLock' = NoWorker
  /\ UNCHANGED <<now, row, team, lane, rowLock>>

PricingNext ==
  \/ Next
  \/ \E w \in Requests :
       \/ RegisterFree(w)
       \/ \E charge \in BOOLEAN : SetFeeLock(w, charge)
       \/ SetFeeCommit(w)

PricingSpec == Init /\ [][PricingNext]_vars

-----------------------------------------------------------------------------
\* No price is attached to somebody who agreed to none: every live registration
\* of a competition that charges owes a payment of its own submission, whatever
\* registrations, withdrawals and sweeps run beside the organiser's decision.
FreeStaysFree ==
  Priced => \A r \in Confirmed(Rows) : due[r[1]] # 0

\* The strengthening that makes it inductive: whoever holds the participation
\* lock is alone, what a price was decided on is still true when it is written,
\* a forming team has no live row, and the live rows of a team are of one
\* submission, so that a paid one never speaks for a free one.
PricingLocksHeld ==
  \A w \in Workers : tx[w].op \in ParticipationOps => partLock = w

ChargesAreSound ==
  \A w \in Workers :
    tx[w].op = "charge" => \A r \in Confirmed(Rows) : due[r[1]] # 0

FormingTeamsAreOut ==
  \A r \in Confirmed(Rows) : TeamOf[r[1]] # NoTeam => team[TeamOf[r[1]]] = "submitted"

OneLiveSubmission ==
  \A r, s \in Confirmed(Rows) : s[1] \in Group(r[1]) => r[1] = s[1]

PricingInv ==
  /\ TypeOK
  /\ PricingLocksHeld /\ ChargesAreSound /\ FormingTeamsAreOut /\ OneLiveSubmission
  /\ FreeStaysFree

=============================================================================
