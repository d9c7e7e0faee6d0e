SPECIFICATION PagesSpec
CONSTANTS
  DepCount = 2
  Bundled = {2}
  RemoteCount = 1
  MaxVisits = 2
  MaxRuns = 2
  Hosts = {"h1", "h2"}
  BaseSteps = 1
  ServerSteps = 1
  PhoneVisits = 2
  PhoneRuns = 2
  Urls = {"u1", "u2"}
  Vpn = "u1"
  SameHost <- MCContains
  MaxServers = 1
  MaxOpens = 3
  MaxCalls = 2
  Locals = {"l"}
  Remotes = {"r"}
  CardVisits = 2
  MaxTasks = 1
CHECK_DEADLOCK FALSE
INVARIANTS
  BusyIsInFlight
  OnlineWasStarted
  SecretsFollow
  DeletedStaysDeleted
PROPERTIES
  PagesEnd
  HealthConverges
