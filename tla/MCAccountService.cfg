\* Two accounts, three callers, two logins.
SPECIFICATION AccountSpec
CONSTANTS
  Accounts = {a1, a2}
  TokenCalls = {c1, c2, c3}
  Logins = {l1, l2}
  None = None
SYMMETRY Symmetry
INVARIANTS
  OneRefreshAtATime
  AnswersAreCurrent
  LoginsHold
CHECK_DEADLOCK FALSE
