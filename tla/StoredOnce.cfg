SPECIFICATION Spec
CONSTANTS
  NoTurn = NoTurn
  NoSession = NoSession
  MaxTurn = 1
  MaxChunk = 1
  MaxLoad = 1
INVARIANT StoredOnce
CHECK_DEADLOCK FALSE
