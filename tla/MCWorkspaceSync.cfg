SPECIFICATION FairSpec
CONSTANTS
  Sessions = {s1, s2}
  Active = {s1}
  Types = {known, new}
  KnownTypes = {known}
  MaxEvents = 2
  MaxFaults = 2
CHECK_DEADLOCK FALSE
INVARIANTS
  StreamJoinsHistory
  LoopIsAlone
PROPERTIES
  Replicates
  CatchesUp
