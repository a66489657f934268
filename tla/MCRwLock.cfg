SPECIFICATION FairSpec
CONSTANTS
  Clients = {c1, c2, c3}
  Objects = {o1, o2, o3}
  NoLock = NoLock
INVARIANTS
  MutualExclusion
  NoLostWakeup
  BookkeepingAgrees
PROPERTIES
  WriterPreference
  WriterServed
