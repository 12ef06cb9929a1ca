SPECIFICATION AuthSpec
CONSTANTS
  Users = {admin, reader}
  DefaultUser = admin
  Requests = {r1, r2}
  MaxTokens = 3
  GivenRoles = {"READ_WRITE"}
  MaxRoleChanges = 1
SYMMETRY Symmetry
INVARIANTS
  AuthTypeOK
  OutdatedRolesAreOld
PROPERTIES
  LoginEndsEarlierSessions
  SessionsLive
CHECK_DEADLOCK FALSE
