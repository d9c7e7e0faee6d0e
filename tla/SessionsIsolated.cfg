SPECIFICATION PSpec
CONSTANTS
  r1 = r1
  r2 = r2
  NoClient = NoClient
  NoOne = NoOne
  NoRun = NoRun
  Request <- TwoRequests
  Client <- TwoRequests
  EndKind <- Answers
  MaxDelta = 1
  MaxBreaks = 1
INVARIANT SessionsIsolated
