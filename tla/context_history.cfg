\* What is sent: one conversation, edited and continued.
SPECIFICATION Spec
CONSTANTS
  r1 = r1  t1 = t1  t2 = t2  k1 = k1  k2 = k2  k3 = k3
  Requests = {r1}
  Tasks = {t1, t2}
  Keys = {k1}
  Texts = {"a", "b", "c"}
  Histories <- Edited
  Configs <- TwoConfigs
  NoPlan = NoPlan
  MAX_CONTEXT_CACHE_ENTRIES = 1
  CHUNK = 1
  MAX_AGE = 1
INVARIANTS
  TypeOK
  SentIsOwnHistory
  OneTaskPerPrefix
SYMMETRY Symmetry
