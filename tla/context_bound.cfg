\* The cache: two conversations, room for one.
SPECIFICATION FairSpec
CONSTANTS
  r1 = r1  t1 = t1  t2 = t2  k1 = k1  k2 = k2  k3 = k3
  Requests = {r1}
  Tasks = {t1, t2}
  Keys = {k1, k2, k3}
  Texts = {"a", "b", "c"}
  Histories <- OneHistory
  Configs <- OneConfig
  NoPlan = NoPlan
  MAX_CONTEXT_CACHE_ENTRIES = 1
  CHUNK = 1
  MAX_AGE = 1
INVARIANTS
  CacheIsBounded
PROPERTIES
  InFlightIsLeft
