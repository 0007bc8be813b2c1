SPECIFICATION Spec
CONSTANTS
  None = None
  Usernames = {u1, u2, u3}
  UnixUsers = {u1, u2}
  Requests = {r1, r2}
  Backends = {"Local", "Pam"}
  SessionLife = 1
  SessionIdle = 0
  SessionMax = 1
  InviteLife = 0
  InviteMax = 1
  ChallengeLife = 0
  MaxTokens = 3
  MaxTime = 1
SYMMETRY Symmetry
INVARIANTS
  TypeOK
  OneAdmin
  InvitedOnce
  SessionsBounded
  AnsweredOnce
  OwnPasskeys
PROPERTIES
  StaysReachable
