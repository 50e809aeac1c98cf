SPECIFICATION Spec
CONSTANTS
  admin = admin
  user = user
  Email = {admin, user}
  Admin = admin
  Language = {"en"}
  Password = {"pw"}
  w1 = w1
  w2 = w2
  Worker = {w1, w2}
  MaxLogouts = 3
  MaxResets = 1
  MaxInvites = 2
SYMMETRY Workers
INVARIANTS
  SessionsEndOnlyByLogout
  LogoutsLast
  ResetTokenUsedOnce
  InviteMakesItsAccount
