\* The claim of accounts.rs:3, on the default limit of one.
SPECIFICATION Spec
CONSTANTS
  a1 = a1  a2 = a2  w1 = w1  w2 = w2  w3 = w3  admin = admin
  Accounts = {a1}
  Workers = {w1, w2}
  Admins = {}
  Recovery = Recovery
  NoAccount = NoAccount
  Limits = {1}
  MaxLimit = 1
  FailureBound = 3
INVARIANTS
  HolderLimit
