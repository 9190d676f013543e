------------------------ MODULE LedgerStatus_proofs ------------------------
(***************************************************************************)
(* That the status is what the comments of payment-state.ts say, for any   *)
(* finite set of events and any order of recording.  The fold recurses on  *)
(* sets of events and the provers have no induction to offer it, so each   *)
(* fact about it is shown at a smallest set of events that would break it. *)
(***************************************************************************)
EXTENDS LedgerStatus, PaymentLedger_proofs, FiniteSetTheorems, WellFoundedInduction

\* What the ledger of one payment is to the fold: finitely many rows, each under
\* a key of its own.
Foldable(E) ==
  /\ E \subseteq CallRows
  /\ IsFiniteSet(E)
  /\ \A u, v \in E : u.key = v.key => u = v

\* The function that foldPaymentEvents(E) is the last value of.
IsFold(f, E) ==
  f = [S \in SUBSET E |->
         IF S = {} THEN Nothing ELSE AbsorbEvent(f[S \ {LastOf(S)}], LastOf(S))]

Fold(E) == CHOOSE f : IsFold(f, E)

-----------------------------------------------------------------------------
(* Smallest sets, and the last of a set                                    *)

\* Among sets of events of a finite ledger there is a smallest.
LEMMA SmallestSet ==
  ASSUME NEW E, IsFiniteSet(E), NEW Bad, Bad \subseteq SUBSET E, Bad # {}
  PROVE  \E T \in Bad : \A S \in SUBSET T : S # T => S \notin Bad
<1>1. SUBSET E \subseteq FiniteSubsetsOf(E)
  BY FS_Subset DEF FiniteSubsetsOf
<1>2. IsWellFoundedOn(StrictSubsetOrdering(E), FiniteSubsetsOf(E))
  BY FS_StrictSubsetOrderingWellFounded
<1>3. PICK T \in Bad : \A S \in Bad : ~(<<S, T>> \in StrictSubsetOrdering(E))
  BY <1>1, <1>2, WFMin
<1>4. \A S \in SUBSET T : S # T => S \notin Bad
  BY <1>3 DEF StrictSubsetOrdering
<1> QED
  BY <1>4

LEMMA SubsetsAreFoldable ==
  ASSUME NEW E, Foldable(E), NEW S \in SUBSET E
  PROVE  Foldable(S)
BY FS_Subset DEF Foldable

\* comparePaymentEvents orders events with keys of their own.
LEMMA CompareIsTotal ==
  ASSUME NEW u \in CallRows, NEW v \in CallRows
  PROVE  /\ comparePaymentEvents(u, v) => ~comparePaymentEvents(v, u)
         /\ u.key # v.key => comparePaymentEvents(u, v) \/ comparePaymentEvents(v, u)
BY DEF comparePaymentEvents, CallRows

LEMMA CompareIsTransitive ==
  ASSUME NEW u \in CallRows, NEW v \in CallRows, NEW w \in CallRows,
         comparePaymentEvents(u, v), comparePaymentEvents(v, w)
  PROVE  comparePaymentEvents(u, w)
BY DEF comparePaymentEvents, CallRows

\* The last of a set is whatever comes after all the others.
LEMMA LastIsUnique ==
  ASSUME NEW S, S \subseteq CallRows, NEW v \in S,
         \A u \in S \ {v} : comparePaymentEvents(u, v)
  PROVE  LastOf(S) = v
<1>1. \A w \in S : (\A u \in S \ {w} : comparePaymentEvents(u, w)) => w = v
  BY CompareIsTotal
<1> QED
  BY <1>1 DEF LastOf

\* A ledger that is not empty has a last event.
LEMMA LastExists ==
  ASSUME NEW E, Foldable(E), E # {}
  PROVE  /\ LastOf(E) \in E
         /\ \A u \in E \ {LastOf(E)} : comparePaymentEvents(u, LastOf(E))
<1> DEFINE HasLast(S) == \E v \in S : \A u \in S \ {v} : comparePaymentEvents(u, v)
           Bad == {S \in SUBSET E : S # {} /\ ~HasLast(S)}
<1>1. Bad = {}
  <2> SUFFICES ASSUME Bad # {} PROVE FALSE
    OBVIOUS
  <2>1. PICK T \in Bad : \A S \in SUBSET T : S # T => S \notin Bad
    <3>1. Bad \subseteq SUBSET E /\ IsFiniteSet(E)
      BY DEF Foldable
    <3> HIDE DEF Bad
    <3> QED
      BY <3>1, SmallestSet
  <2>2. PICK v \in T : TRUE
    OBVIOUS
  <2>3. CASE T = {v}
    BY <2>3
  <2>4. CASE T # {v}
    <3> DEFINE S == T \ {v}
    <3>1. S \in SUBSET E /\ S # {} /\ S # T /\ S \in SUBSET T
      BY <2>2, <2>4
    <3>2. HasLast(S)
      BY <2>1, <3>1
    <3>3. PICK w \in S : \A u \in S \ {w} : comparePaymentEvents(u, w)
      BY <3>2
    <3>4. v \in CallRows /\ w \in CallRows /\ T \subseteq CallRows /\ v.key # w.key
      BY <2>2, <3>1, <3>3 DEF Foldable
    <3>5. CASE comparePaymentEvents(v, w)
      BY <3>3, <3>5
    <3>6. CASE comparePaymentEvents(w, v)
      <4>1. \A u \in T \ {v} : comparePaymentEvents(u, v)
        BY <3>3, <3>4, <3>6, CompareIsTransitive
      <4> QED
        BY <4>1, <2>2
    <3> QED
      BY <3>4, <3>5, <3>6, CompareIsTotal
  <2> QED
    BY <2>3, <2>4
<1>2. HasLast(E)
  BY <1>1
<1> QED
  BY <1>2 DEF LastOf

-----------------------------------------------------------------------------
(* The fold exists                                                         *)

\* The last of a ledger is the last of each part of it that holds it, so its fold
\* is the fold of the others, and that followed by the last.
LEMMA FoldExtends ==
  ASSUME NEW E, Foldable(E), E # {},
         NEW g, IsFold(g, E \ {LastOf(E)})
  PROVE  \E f : IsFold(f, E)
<1> DEFINE v == LastOf(E)
           f == [S \in SUBSET E |-> IF v \in S THEN AbsorbEvent(g[S \ {v}], v) ELSE g[S]]
<1>1. v \in E /\ \A u \in E \ {v} : comparePaymentEvents(u, v)
  BY LastExists
<1>2. ASSUME NEW S \in SUBSET E
      PROVE  f[S] = IF S = {} THEN Nothing
                    ELSE AbsorbEvent(f[S \ {LastOf(S)}], LastOf(S))
  <2>1. CASE v \in S
    <3>1. LastOf(S) = v
      BY <1>1, <2>1, LastIsUnique DEF Foldable
    <3>2. S \ {v} \in SUBSET E /\ v \notin S \ {v}
      OBVIOUS
    <3>3. f[S \ {v}] = g[S \ {v}]
      BY <3>2
    <3> QED
      BY <2>1, <3>1, <3>3
  <2>2. CASE v \notin S
    <3>1. S \in SUBSET (E \ {v})
      BY <2>2
    <3>2. g[S] = IF S = {} THEN Nothing
                 ELSE AbsorbEvent(g[S \ {LastOf(S)}], LastOf(S))
      BY <3>1 DEF IsFold
    <3>3. f[S] = g[S] /\ f[S \ {LastOf(S)}] = g[S \ {LastOf(S)}]
      BY <2>2
    <3> QED
      BY <3>2, <3>3
  <2> QED
    BY <2>1, <2>2
<1>3. f = [S \in SUBSET E |->
             IF S = {} THEN Nothing ELSE AbsorbEvent(f[S \ {LastOf(S)}], LastOf(S))]
  <2> HIDE DEF v
  <2> QED
    BY <1>2
<1> HIDE DEF f
<1> QED
  BY <1>3 DEF IsFold

LEMMA FoldExists ==
  ASSUME NEW E, Foldable(E)
  PROVE  IsFold(Fold(E), E)
<1> DEFINE Bad == {S \in SUBSET E : ~\E f : IsFold(f, S)}
<1>1. Bad = {}
  <2> SUFFICES ASSUME Bad # {} PROVE FALSE
    OBVIOUS
  <2>1. PICK T \in Bad : \A S \in SUBSET T : S # T => S \notin Bad
    <3>1. Bad \subseteq SUBSET E /\ IsFiniteSet(E)
      BY DEF Foldable
    <3> HIDE DEF Bad
    <3> QED
      BY <3>1, SmallestSet
  <2>2. CASE T = {}
    <3>1. IsFold([S \in SUBSET {} |-> Nothing], {})
      BY DEF IsFold
    <3> QED
      BY <2>2, <3>1
  <2>3. CASE T # {}
    <3> DEFINE S == T \ {LastOf(T)}
    <3>1. Foldable(T)
      BY SubsetsAreFoldable
    <3>2. S \in SUBSET T /\ S # T
      BY <2>3, <3>1, LastExists
    <3>3. PICK g : IsFold(g, S)
      BY <2>1, <3>2
    <3>4. \E f : IsFold(f, T)
      BY <2>3, <3>1, <3>3, FoldExtends
    <3> QED
      BY <3>4
  <2> QED
    BY <2>2, <2>3
<1>2. \E f : IsFold(f, E)
  BY <1>1
<1> QED
  BY <1>2 DEF Fold

\* The fold of nothing, and of a ledger with a last event.
LEMMA FoldUnfolds ==
  ASSUME NEW E, Foldable(E), NEW S \in SUBSET E
  PROVE  /\ S = {} => Fold(E)[S] = Nothing
         /\ S # {} =>
              /\ LastOf(S) \in S /\ S \ {LastOf(S)} \in SUBSET E /\ S \ {LastOf(S)} # S
              /\ \A u \in S \ {LastOf(S)} : comparePaymentEvents(u, LastOf(S))
              /\ Fold(E)[S] = AbsorbEvent(Fold(E)[S \ {LastOf(S)}], LastOf(S))
<1>1. Fold(E)[S] = IF S = {} THEN Nothing
                   ELSE AbsorbEvent(Fold(E)[S \ {LastOf(S)}], LastOf(S))
  BY FoldExists DEF IsFold
<1>2. S # {} => /\ LastOf(S) \in S
                /\ \A u \in S \ {LastOf(S)} : comparePaymentEvents(u, LastOf(S))
  BY SubsetsAreFoldable, LastExists
<1> QED
  BY <1>1, <1>2

LEMMA FoldIsLastValue ==
  ASSUME NEW E
  PROVE  foldPaymentEvents(E) = Fold(E)[E]
BY DEF foldPaymentEvents, Fold, IsFold

-----------------------------------------------------------------------------
(* What the fold remembers                                                 *)

Folded ==
  [succeeded : BOOLEAN, outcome : {"pending", "failed", "expired"},
   captured : Int, refunded : Int]

Succeeds(S) == \E v \in S : v.type = "succeeded"

\* An event of S of the given type after which no outcome in S occurred.
IsLastOutcome(S, type) ==
  \E v \in S : /\ v.type = type
               /\ \A u \in S : u.type \in {"failed", "expired"} => u.at <= v.at

Remembers(f, S) ==
  /\ f \in Folded
  /\ f.succeeded <=> Succeeds(S)
  /\ f.outcome # "pending" => IsLastOutcome(S, f.outcome)

LEMMA NothingRemembers == Remembers(Nothing, {})
BY DEF Remembers, Nothing, Folded, Succeeds, IsLastOutcome

\* Absorbing an event that comes after all the others.
LEMMA AbsorbRemembers ==
  ASSUME NEW S, S \subseteq CallRows, NEW v \in S,
         \A u \in S \ {v} : comparePaymentEvents(u, v),
         NEW f, Remembers(f, S \ {v})
  PROVE  Remembers(AbsorbEvent(f, v), S)
<1> DEFINE g == AbsorbEvent(f, v)
<1>1. /\ f \in Folded /\ f.succeeded \in BOOLEAN
      /\ f.outcome \in {"pending", "failed", "expired"}
      /\ f.captured \in Int /\ f.refunded \in Int
      /\ v.amount \in Int /\ v.type \in Types /\ v.at \in Nat
  BY DEF Remembers, Folded, CallRows
<1>2. g \in Folded
  <2>1. f.captured + v.amount \in Int /\ f.refunded + v.amount \in Int
    BY <1>1
  <2>2. CASE v.type = "succeeded"
    BY <1>1, <2>1, <2>2 DEF AbsorbEvent, Folded
  <2>3. CASE v.type = "refunded"
    BY <1>1, <2>1, <2>3 DEF AbsorbEvent, Folded
  <2>4. CASE v.type \in {"failed", "expired"}
    BY <1>1, <2>4 DEF AbsorbEvent, Folded
  <2>5. CASE v.type \notin {"succeeded", "refunded", "failed", "expired"}
    BY <1>1, <2>5 DEF AbsorbEvent
  <2> QED
    BY <2>2, <2>3, <2>4, <2>5
<1>3. g.succeeded <=> f.succeeded \/ v.type = "succeeded"
  BY <1>1 DEF AbsorbEvent, Folded
<1>4. g.succeeded <=> Succeeds(S)
  BY <1>3 DEF Succeeds, Remembers
<1>5. \A u \in S : u.at <= v.at
  BY DEF comparePaymentEvents, CallRows
<1>6. CASE v.type \in {"failed", "expired"}
  <2>1. g.outcome = v.type
    BY <1>1, <1>6 DEF AbsorbEvent, Folded
  <2> QED
    BY <1>2, <1>4, <1>5, <2>1 DEF Remembers, IsLastOutcome
<1>7. CASE v.type \notin {"failed", "expired"}
  <2>1. g.outcome = f.outcome
    BY <1>1, <1>7 DEF AbsorbEvent, Folded
  <2>2. f.outcome # "pending" => IsLastOutcome(S \ {v}, f.outcome)
    BY DEF Remembers
  <2>3. f.outcome # "pending" => IsLastOutcome(S, f.outcome)
    BY <1>7, <2>2 DEF IsLastOutcome
  <2> QED
    BY <1>2, <1>4, <2>1, <2>3 DEF Remembers
<1> QED
  BY <1>6, <1>7

LEMMA FoldRemembers ==
  ASSUME NEW E, Foldable(E)
  PROVE  Remembers(foldPaymentEvents(E), E)
<1> DEFINE Bad == {S \in SUBSET E : ~Remembers(Fold(E)[S], S)}
<1>1. Bad = {}
  <2> SUFFICES ASSUME Bad # {} PROVE FALSE
    OBVIOUS
  <2>1. PICK T \in Bad : \A S \in SUBSET T : S # T => S \notin Bad
    <3>1. Bad \subseteq SUBSET E /\ IsFiniteSet(E)
      BY DEF Foldable
    <3> HIDE DEF Bad
    <3> QED
      BY <3>1, SmallestSet
  <2>2. T \in SUBSET E /\ T \subseteq CallRows
    BY DEF Foldable
  <2>3. CASE T = {}
    BY <2>2, <2>3, FoldUnfolds, NothingRemembers
  <2>4. CASE T # {}
    <3> DEFINE S == T \ {LastOf(T)}
    <3>1. /\ LastOf(T) \in T /\ S \in SUBSET E /\ S # T
          /\ \A u \in S : comparePaymentEvents(u, LastOf(T))
          /\ Fold(E)[T] = AbsorbEvent(Fold(E)[S], LastOf(T))
      BY <2>2, <2>4, FoldUnfolds
    <3>2. Remembers(Fold(E)[S], S)
      BY <2>1, <3>1
    <3>3. Remembers(Fold(E)[T], T)
      BY <2>2, <3>1, <3>2, AbsorbRemembers
    <3> QED
      BY <3>3
  <2> QED
    BY <2>3, <2>4
<1>2. Remembers(Fold(E)[E], E)
  BY <1>1
<1> QED
  BY <1>2, FoldIsLastValue

-----------------------------------------------------------------------------
(* What the fold forgets                                                   *)

Uncorrected(S) == {v \in S : v.type # "corrected"}

\* Of a ledger and of what is left of it without its corrections the fold is the same.
LEMMA CorrectionsFoldAway ==
  ASSUME NEW E, Foldable(E)
  PROVE  foldPaymentEvents(E) = foldPaymentEvents(Uncorrected(E))
<1> DEFINE U == Uncorrected(E)
           Bad == {S \in SUBSET E : Fold(E)[S] # Fold(U)[Uncorrected(S)]}
<1>1. U \in SUBSET E /\ Foldable(U)
  BY SubsetsAreFoldable DEF Uncorrected
<1>2. Bad = {}
  <2> SUFFICES ASSUME Bad # {} PROVE FALSE
    OBVIOUS
  <2>1. PICK T \in Bad : \A S \in SUBSET T : S # T => S \notin Bad
    <3>1. Bad \subseteq SUBSET E /\ IsFiniteSet(E)
      BY DEF Foldable
    <3> HIDE DEF Bad
    <3> QED
      BY <3>1, SmallestSet
  <2>2. T \in SUBSET E /\ T \subseteq CallRows /\ Uncorrected(T) \in SUBSET U
    BY DEF Foldable, Uncorrected
  <2>3. CASE T = {}
    <3>1. Uncorrected(T) = {}
      BY <2>3 DEF Uncorrected
    <3>2. Fold(E)[T] = Nothing /\ Fold(U)[Uncorrected(T)] = Nothing
      BY <1>1, <2>2, <2>3, <3>1, FoldUnfolds
    <3> QED
      BY <3>2
  <2>4. CASE T # {}
    <3> DEFINE v == LastOf(T)
               S == T \ {v}
    <3>1. /\ v \in T /\ S \in SUBSET E /\ S # T /\ S \in SUBSET T
          /\ \A u \in S : comparePaymentEvents(u, v)
          /\ Fold(E)[T] = AbsorbEvent(Fold(E)[S], v)
      BY <2>2, <2>4, FoldUnfolds
    <3>2. Fold(E)[S] = Fold(U)[Uncorrected(S)]
      BY <2>1, <3>1
    <3>3. CASE v.type = "corrected"
      <4>1. Uncorrected(T) = Uncorrected(S)
        BY <3>1, <3>3 DEF Uncorrected
      <4>2. Fold(E)[T] = Fold(E)[S]
        BY <3>1, <3>3 DEF AbsorbEvent
      <4> QED
        BY <3>2, <4>1, <4>2
    <3>4. CASE v.type # "corrected"
      <4>1. /\ v \in Uncorrected(T) /\ Uncorrected(T) \ {v} = Uncorrected(S)
            /\ Uncorrected(T) \subseteq CallRows
        BY <2>2, <3>1, <3>4 DEF Uncorrected
      <4>2. \A u \in Uncorrected(T) \ {v} : comparePaymentEvents(u, v)
        BY <3>1, <4>1 DEF Uncorrected
      <4>3. LastOf(Uncorrected(T)) = v
        <5> HIDE DEF v
        <5> QED
          BY <4>1, <4>2, LastIsUnique
      <4>4. Fold(U)[Uncorrected(T)] = AbsorbEvent(Fold(U)[Uncorrected(S)], v)
        <5> DEFINE W == Uncorrected(T)
        <5>1. W \in SUBSET U /\ W # {} /\ Foldable(U) /\ LastOf(W) = v /\ W \ {v} = Uncorrected(S)
          BY <1>1, <2>2, <4>1, <4>3
        <5>2. Fold(U)[W] = AbsorbEvent(Fold(U)[W \ {v}], v)
          <6> HIDE DEF W, U, v, S
          <6> QED
            BY <5>1, FoldUnfolds
        <5> QED
          BY <5>1, <5>2
      <4> QED
        BY <3>1, <3>2, <4>4
    <3> QED
      BY <3>3, <3>4
  <2> QED
    BY <2>3, <2>4
<1>3. Fold(E)[E] = Fold(U)[Uncorrected(E)]
  BY <1>2
<1> QED
  BY <1>3, FoldIsLastValue

-----------------------------------------------------------------------------
(* The ledger of a payment is foldable                                     *)

\* Only a commit writes an event, and it writes one.
LEMMA NextAppends ==
  ASSUME [Next]_vars
  PROVE  events' = events \/ \E w \in Requests : events' = events \cup {tx[w].call}
<1>1. CASE UNCHANGED vars
  BY <1>1 DEF vars
<1>2. ASSUME NEW w \in Requests, RequestStep(w)
      PROVE  events' = events \/ events' = events \cup {tx[w].call}
  BY <1>2 DEF RequestStep, AppendPaymentEvent, InsertEvent, ReplayEvent, RefuseKey,
     LoadAccruedRow, RecordFeeAccrual, RefuseAccrual, Commit, Abort, books
<1>3. CASE \E r \in Rules : CreateFeeRule(r)
  BY <1>3 DEF CreateFeeRule, books
<1>4. CASE \E p \in Payments : CreatePayment(p) \/ RecordFeeAccrualReversal(p)
  BY <1>4 DEF CreatePayment, RecordFeeAccrualReversal, books
<1>5. CASE Tick
  BY <1>5 DEF Tick, books
<1> QED
  BY <1>1, <1>2, <1>3, <1>4, <1>5 DEF Next

BooksSound == IInv /\ IsFiniteSet(events)

LEMMA BooksStaySound == Spec => []BooksSound
<1>1. Init => BooksSound
  BY InitInv, FS_EmptySet DEF Init, BooksSound
<1>2. BooksSound /\ [Next]_vars => BooksSound'
  <2> SUFFICES ASSUME BooksSound, [Next]_vars PROVE IsFiniteSet(events')
    BY NextInv DEF BooksSound
  <2> QED
    BY NextAppends, FS_AddElement DEF BooksSound
<1> QED
  BY <1>1, <1>2, PTL DEF Spec

LEMMA LedgersAreFoldable ==
  ASSUME BooksSound, NEW p \in Payments
  PROVE  Foldable(Of(p))
<1>1. Of(p) \subseteq events /\ events \subseteq CallRows
  BY RowsAssumption DEF BooksSound, IInv, TypeOK, Of
<1>2. IsFiniteSet(Of(p))
  BY <1>1, FS_Subset DEF BooksSound
<1>3. \A u, v \in Of(p) : u.key = v.key => u = v
  BY <1>1 DEF BooksSound, IInv, OneEventPerKey
<1> QED
  BY <1>1, <1>2, <1>3 DEF Foldable

LEMMA StatusOfFold ==
  ASSUME NEW f \in Folded
  PROVE  /\ resolveStatus(f) \in {"succeeded", "refunded"} <=> f.succeeded
         /\ ~f.succeeded => resolveStatus(f) = f.outcome
BY DEF resolveStatus, Folded

\* A payment reads as paid exactly when its ledger holds a success.
StatusTellsSuccess ==
  \A p \in Payments : Status(p) \in {"succeeded", "refunded"} <=> Succeeds(Of(p))

-----------------------------------------------------------------------------
(* The theorems                                                            *)

\* A correction never moves the status of a payment, wherever it falls among the
\* other events: payment-state.ts, foldPaymentEvents.
THEOREM CorrectionsAreNeutral == Spec => []CorrectionsMoveNoStatus
<1>1. BooksSound => CorrectionsMoveNoStatus
  <2> SUFFICES ASSUME BooksSound, NEW p \in Payments
               PROVE  Status(p) = resolveStatus(foldPaymentEvents({v \in Of(p) : v.type # "corrected"}))
    BY DEF CorrectionsMoveNoStatus
  <2> QED
    BY LedgersAreFoldable, CorrectionsFoldAway DEF Status, Uncorrected
<1> QED
  BY <1>1, BooksStaySound, PTL

\* While nothing has succeeded, the status is the outcome that occurred last,
\* however late it was recorded: payment-state.ts, comparePaymentEvents.
THEOREM LastOutcomeIsTheStatus == Spec => []LastOutcomeStands
<1>1. BooksSound => LastOutcomeStands
  <2> SUFFICES ASSUME BooksSound, NEW p \in Payments,
                      Status(p) \in {"failed", "expired"}
               PROVE  IsLastOutcome(Of(p), Status(p))
    BY DEF LastOutcomeStands, IsLastOutcome
  <2> DEFINE f == foldPaymentEvents(Of(p))
  <2>1. Remembers(f, Of(p))
    BY LedgersAreFoldable, FoldRemembers
  <2>2. f \in Folded /\ (f.outcome # "pending" => IsLastOutcome(Of(p), f.outcome))
    BY <2>1 DEF Remembers
  <2>3. Status(p) = resolveStatus(f)
    BY DEF Status
  <2> HIDE DEF f
  <2>4. ~f.succeeded /\ Status(p) = f.outcome
    BY <2>2, <2>3, StatusOfFold
  <2> QED
    BY <2>2, <2>4
<1> QED
  BY <1>1, BooksStaySound, PTL

\* A payment that took money is never read as pending, failed or expired again:
\* payment-state.ts, resolveStatus.
THEOREM SuccessStands == Spec => SuccessIsNotUndone
<1>1. BooksSound => StatusTellsSuccess
  <2> SUFFICES ASSUME BooksSound, NEW p \in Payments
               PROVE  Status(p) \in {"succeeded", "refunded"} <=> Succeeds(Of(p))
    BY DEF StatusTellsSuccess
  <2>1. Remembers(foldPaymentEvents(Of(p)), Of(p))
    BY LedgersAreFoldable, FoldRemembers
  <2> QED
    BY <2>1, StatusOfFold DEF Status, Remembers
<1>2. StatusTellsSuccess /\ StatusTellsSuccess' /\ [Next]_vars =>
        [events' # events =>
           \A p \in Payments :
             Status(p) \in {"succeeded", "refunded"} => Status(p)' \in {"succeeded", "refunded"}]_vars
  <2> SUFFICES ASSUME StatusTellsSuccess, StatusTellsSuccess', [Next]_vars, NEW p \in Payments,
                      Status(p) \in {"succeeded", "refunded"}
               PROVE  Status(p)' \in {"succeeded", "refunded"}
    OBVIOUS
  <2>1. Succeeds(Of(p))
    BY DEF StatusTellsSuccess
  <2>2. Of(p) \subseteq Of(p)'
    BY NextAppends DEF Of
  <2>3. Succeeds(Of(p)')
    BY <2>1, <2>2 DEF Succeeds
  <2> QED
    BY <2>3 DEF StatusTellsSuccess, Succeeds
<1> QED
  BY <1>1, <1>2, BooksStaySound, PTL DEF Spec, SuccessIsNotUndone

=============================================================================
