SPECIFICATION FairSpec
CONSTANTS
  Requests = {q1, q2}
  Sweepers = {s1}
  e1 = e1
  e2 = e2
  c1 = c1
  Entries = {e1}
  Students = {c1}
  Teams = {}
  NoTeam = NoTeam
  NoWorker = NoWorker
  NoEntry = NoEntry
  NoStudent = NoStudent
  TeamOf <- SoloTeamOf
  MembersOf <- SoloMembersOf
  CaptainOf <- SoloCaptainOf
  PaymentWindow = 1
  RegistrationEnd = 1
  ConfirmationAt = 3
  CutoffAt = 2
  MaxTime = 3
  MaxResubmissions = 2
CHECK_DEADLOCK FALSE
INVARIANTS
  LedgersAgree
  PaidXorExpired
  AttemptsContiguous
  LockedReadsStable
PROPERTIES
  PaidOnlyWhileRegistered
  SettlementIsFinal
  KeepsThePromise
  KeepsTheBook
  OverdueIsResolved
