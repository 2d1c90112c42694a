\* Texts of one to three chunks, in every way the worker's bytes are cut;
\* two clients with one text; keys; two operators and three accounts.
SPECIFICATION GwSpec
CONSTANTS
  c1 = c1
  c2 = c2
  o1 = o1
  o2 = o2
  k1 = k1
  NoKey = NoKey
  Clients = {c1, c2}
  Operators = {o1, o2}
  Keys = {k1}
  Budget = 4
  Accounts = {1, 2, 3}
  Loads <- MCLoads
  Symbols <- MCSymbols
INVARIANTS
  AnswersAreFaithful
PROPERTIES
  DeletesWhatWasShown
CHECK_DEADLOCK FALSE
