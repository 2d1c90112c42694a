\* The claim of completions.rs:3.
SPECIFICATION Spec
CONSTANTS
  client = client  task = task  a1 = a1  a2 = a2
  Requests = {client}
  Detached = {}
  Accounts = {a1}
  NoAccount = NoAccount
  Limit = 1
  MAX_ATTEMPTS = 3
  Feeds = 1
INVARIANTS
  SessionsAreCleanedUp
