\* Both acceptance scripts, every order of the random session ids, two faults.
SPECIFICATION SmokeSpec
CONSTANTS
  Clients <- Children
  Ids = {1, 2, 3, 4}
  NoSession = NoSession
  NoTurn = NoTurn
  Selections = {}
  ListLimit = 50
  MaxFaults = 2
INVARIANTS
  HealthyScriptPasses
  NothingLeftBehind
PROPERTY ScriptEnds
CHECK_DEADLOCK FALSE
