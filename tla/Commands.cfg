SPECIFICATION CommandsSpec
CONSTANTS
  Gen = {g1, g2}
  Conn = {c1, c2}
  NoToken = none
  Ttl = 0
  Grace = 1
  N = 3
  Kin = {k1, k2}
  Stall = 2
  MaxLine = 2
  Task = {t1, t2}
  Rounds = 2
CHECK_DEADLOCK FALSE
INVARIANTS
  CommandsTypes
  OkIsAccepted
  OkIsVerified
  SslRestored
  KillIsReported
  OutputIsComplete
PROPERTIES
  ImplementsOneShot
  ServerEndsOrIsHeld
  ReadyIsGatewayOrSurvivor
  ConfigSafe
  CommandsEnd
