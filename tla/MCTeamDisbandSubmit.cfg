SPECIFICATION Spec
CONSTANTS
  Requests = {q1, q2}
  Users = {u1, u2}
  Teams = {t1}
  Invitations = {i1}
  Memberships = {m1, m2}
  NoTeam = NoTeam
  NoUser = NoUser
  NoId = NoId
  MinTeamSize = 2
  MaxTeamSize = 2
SYMMETRY Symmetry
CHECK_DEADLOCK FALSE
INVARIANTS
  DisbandedTeamIsUnregistered
