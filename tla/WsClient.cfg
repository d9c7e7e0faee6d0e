SPECIFICATION Spec
CONSTANTS
  r1 = r1
  r2 = r2
  c1 = c1
  NoClient = NoClient
  NoOne = NoOne
  NoRun = NoRun
  Request <- TwoRequests
  Client <- OneClient
  EndKind <- AllKinds
  MaxDelta = 1
  MaxBreaks = 2
INVARIANTS
  PendingIsOwnedOrAbandoned
  ForeignTextIsAbandoned
  AnswerIsOwn
PROPERTY CallsReturn
