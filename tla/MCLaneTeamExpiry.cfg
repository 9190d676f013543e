SPECIFICATION PricingSpec
CONSTANTS
  Requests = {q1, q2}
  Sweepers = {s1}
  e1 = e1
  e2 = e2
  e3 = e3
  c1 = c1
  c2 = c2
  t1 = t1
  Entries = {e1, e2}
  Students = {c1, c2}
  Teams = {t1}
  NoTeam = NoTeam
  NoWorker = NoWorker
  NoEntry = NoEntry
  NoStudent = NoStudent
  TeamOf <- TeamTeamOf
  MembersOf <- TeamMembersOf
  CaptainOf <- TeamCaptainOf
  PaymentWindow = 1
  RegistrationEnd = 2
  ConfirmationAt = 3
  CutoffAt = 2
  MaxTime = 3
  MaxResubmissions = 0
SYMMETRY Symmetry
CHECK_DEADLOCK FALSE
PROPERTIES
  SweepSparesEvidence
