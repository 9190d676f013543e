SPECIFICATION Spec
CONSTANTS
  Requests = {q1, q2}
  p1 = p1
  p2 = p2
  i1 = i1
  Payments = {p1, p2}
  Calls <- LedgerCalls
  Rules <- LedgerRules
  Institution <- LedgerInstitution
  Global = Global
  Gross <- LedgerGross
  NoRule = NoRule
  NoCall = NoCall
  MaxTime = 2
SYMMETRY Symmetry
INVARIANTS
  AckedIsRecorded
  VerdictsOweTheirFee
  FeeOrNothing
  CorrectionsMoveNoStatus
  LastOutcomeStands
PROPERTIES
  IsOneBook
  SuccessIsNotUndone
