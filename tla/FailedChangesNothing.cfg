SPECIFICATION SecSpec
CONSTANTS
  Patterns = {}
  MaxSecVisits = 1
  MaxQueue = 2
  MaxActs = 3
PROPERTY FailedChangesNothing
CHECK_DEADLOCK FALSE
