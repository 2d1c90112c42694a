\* Liveness: one request that outlives the connections, all three attempts.
SPECIFICATION FairSpec
CONSTANTS
  client = client  task = task  a1 = a1  a2 = a2
  Requests = {task}
  Detached = {task}
  Accounts = {a1, a2}
  NoAccount = NoAccount
  Limit = 1
  MAX_ATTEMPTS = 3
  Feeds = 2
PROPERTIES
  StreamedIsDeleted
  EveryRequestEnds
  ShutdownEnds
