\* Two requests, the recovery task and an operator; a limit that changes.
SPECIFICATION FairSpec
CONSTANTS
  a1 = a1  a2 = a2  w1 = w1  w2 = w2  w3 = w3  admin = admin
  Accounts = {a1}
  Workers = {w1, w2}
  Admins = {admin}
  Recovery = Recovery
  NoAccount = NoAccount
  Limits = {1, 2}
  MaxLimit = 2
  FailureBound = 3
PROPERTIES
  FailedStaysOut
  ClaimIsLockFree
  FailedIsResolved
INVARIANTS
  TypeOK
  NoPhantomClaims
  UnderflowIsHealed
  NoLeakedCapacity
