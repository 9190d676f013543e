SPECIFICATION Spec
CONSTANTS
  Requests = {q1, q2}
  Users = {u1, u2}
  Recruiters = {u1, u2}
  Institutions = {i1, i2}
  Invitations = {v1}
  Roles = {"institution_owner", "institution_staff"}
  MaxFull = 1
  MaxPersonal = 1
  NoUser = NoUser
  NoInstitution = NoInstitution
  NoInvitation = NoInvitation
SYMMETRY Symmetry
INVARIANTS
  OwnedOrSuspended
