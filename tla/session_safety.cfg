\* A client and a spawned task, both on the one account.
SPECIFICATION Spec
CONSTANTS
  client = client  task = task  a1 = a1  a2 = a2
  Requests = {client, task}
  Detached = {task}
  Accounts = {a1}
  NoAccount = NoAccount
  Limit = 2
  MAX_ATTEMPTS = 2
  Feeds = 1
INVARIANTS
  TypeOK
  StreamsAreTracked
PROPERTIES
  NoCompletionOnDeleted
  AnswerIsNotCutOff
