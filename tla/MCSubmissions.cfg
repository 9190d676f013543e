SPECIFICATION FairSpec
CONSTANTS
  Registrations = {team}
  Keys = {k1, k2}
  Accounts = {a1, a2}
  Requests = {u1, u2}
  Purges = {p1}
  Erasures = {e1}
  team = team
  k1 = k1
  k2 = k2
  u1 = u1
  u2 = u2
  a1 = a1
  a2 = a2
  None = None
  Erased = Erased
  KeyRegistration <- MCKeyRegistration
  AccountOf <- MCAccountOf
  LinkLife = 1
  WindowEnd = 2
  PurgeFrom = 3
  MaxTime = 4
  MaxCalls = 2
CHECK_DEADLOCK FALSE
INVARIANTS
  PromptEntriesHaveBytes
PROPERTIES
  FinalizedIsLocked
  AbandonedIsReclaimed
