SPECIFICATION WatchSpec
CONSTANTS
  Kin = {k1, k2}
  Stall = 2
  MaxLine = 2
PROPERTY ExitIsReported
