SPECIFICATION FairRunnerSpec
CONSTANTS
  Calls = {k1, k2, k3}
  MaxRunID = 6
  Settings <- AnySetting
INVARIANTS
  AnsweredByOwnRun
  NobodyForgotten
PROPERTY EveryCallAnswered
