\* Commands that overlap on one database: new, resumed, continued and forked.
SPECIFICATION Spec
CONSTANTS
  Clients = {c1, c2, c3, c4}
  Ids = {1, 2, 3, 4}
  NoSession = NoSession
  NoTurn = NoTurn
  Selections <- Options
  ListLimit = 2
SYMMETRY Symmetry
INVARIANT TurnsKept
CHECK_DEADLOCK FALSE
