SPECIFICATION PtySpec
CONSTANTS
  MaxTerminals = 2
  MaxSockets = 2
  MaxKeys = 3
  MaxOutput = 3
  Chunks = {1, 3}
  Cursors <- SomeCursors
  BufferLimit = 2
  IntLimit = 8
CHECK_DEADLOCK FALSE
INVARIANTS
  EndsOnce
PROPERTIES
  ReadsTheStream
