SPECIFICATION Spec
CONSTANTS
  Requests = {q1, q2}
  Users = {u1, u2, u3}
  Teams = {t1, t2}
  Invitations = {i1, i2}
  Memberships = {m1, m2}
  NoTeam = NoTeam
  NoUser = NoUser
  NoId = NoId
  MinTeamSize = 2
  MaxTeamSize = 2
SYMMETRY Symmetry
CHECK_DEADLOCK FALSE
INVARIANTS
  CaptainAnchorsSubmission
  LeftByOverlapOnly
  UnclaimedByOverlapOnly
PROPERTIES
  RegisteredTogether
  DisbandedForGood
  OverfullOnlyWhenStale
  SecondTeamOnlyWhenStale
  StrangerOnlyWhenStale
