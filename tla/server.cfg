\* Requests, updates of the configuration and logins, over stops, kills and restarts.
SPECIFICATION FairSpec
CONSTANTS
  r1 = r1
  r2 = r2
  u1 = u1
  u2 = u2
  a = a
  b = b
  o1 = o1
  o2 = o2
  Requests = {r1, r2}
  Timers = {r1, r2}
  Updates = {u1, u2}
  Ids = {a, b}
  Operators = {o1, o2}
  Limit = 1
  Generations = 3
  Detours = 1
  NoUpdate = NoUpdate
  PERSIST_INTERVAL = 2
  MAX_FAILURES = 2
  Logins = 5
  LastPeriod = 3
  Starts = 2
  Loads <- MCLoads
INVARIANTS
  SlotsMatchGuards
  PoolFollowsConfig
  CountedOnce
  NoSaveIsMissed
  GuessesAreBounded
PROPERTIES
  TearsOnlyByOverlap
  EveryoneIsServed
CHECK_DEADLOCK FALSE
