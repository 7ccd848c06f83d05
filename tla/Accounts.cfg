SPECIFICATION Spec
CONSTANTS
  Emails <- MCEmails
  Domain <- MCDomain
  Allowed = {"org"}
  Exceptions = {"guest"}
  Subjects = {s1, s2}
  Requests = {r1, r2}
  RolesAsked = {"EMPLOYEE", "ADMIN"}
  MaxKeys = 9
  MaxBegun = 4
  None = None
SYMMETRY Symmetry
INVARIANTS TypeOK DeactivatedIsSignedOut AssignmentAwaitsAccount TokenSpentOnce
PROPERTIES AuthorityOnlyFromAuthority ElevationIsSpent
CHECK_DEADLOCK FALSE
