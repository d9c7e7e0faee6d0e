SPECIFICATION Spec
CONSTANTS
  NoTurn = NoTurn
  NoSession = NoSession
  MaxTurn = 2
  MaxChunk = 1
  MaxLoad = 1
INVARIANTS
  SingleFlight
  LostOnlyIfRefused
  StreamingIsLive
PROPERTIES
  NoHoles
  SendRecovers
CHECK_DEADLOCK FALSE
