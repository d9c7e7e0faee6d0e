SPECIFICATION GatewaySpec
CONSTANTS
  Task = {t1, t2}
  Rounds = 3
INVARIANT NoOrphan
CHECK_DEADLOCK FALSE
