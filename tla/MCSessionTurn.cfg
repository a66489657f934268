SPECIFICATION Spec
CONSTANTS
  k1 = k1
  k2 = k2
  k3 = k3
  Calls = {k1, k2, k3}
  NoCall = NoCall
  Inputs <- AllInputs
CHECK_DEADLOCK FALSE
INVARIANTS
  RequestsCarryResults
  AbortIsRecorded
  MessageShowsTools
  StoredTurnIsTheReturned
PROPERTY AbortStopsRequests
