SPECIFICATION Spec
CONSTANTS
  Requests = {q1, q2}
  Modes = {"config"}
  ParentIDs = {}
  NoParent = NoParent
  Patches = {}
  MaxUpdated = 2
  MaxBoots = 2
CHECK_DEADLOCK FALSE
INVARIANT OwnMessages
