SPECIFICATION Spec
CONSTANTS
  Requests = {q1, q2, q3}
  Modes <- AllModes
  ParentIDs = {1, 2}
  NoParent = NoParent
  Patches <- Archive
  MaxUpdated = 3
  MaxBoots = 2
SYMMETRY Symmetry
CHECK_DEADLOCK FALSE
INVARIANTS
  OwnMessagesInOneProcess
  ListingIsExact
  BusyMeansRunning
  AbortsAreOfRunningTurns
  DeletedStaysDeleted
  PagesShowTheListing
