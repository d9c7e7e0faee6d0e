SPECIFICATION PagesSpec
CONSTANTS
  Models = {"m"}
  MaxModelVisits = 2
  MaxModelCalls = 1
  MaxPulls = 1
  Routes = {"chat"}
  Langs = {"zh", "en"}
  Levels = {"medium", "high"}
  MaxLaunches = 2
  MaxMoves = 2
  Patterns = {"p"}
  MaxSecVisits = 2
  MaxQueue = 2
  MaxActs = 2
  Ids = {1, 2, 3}
  Inputs = {"a"}
  Targets = {"h"}
  MaxPriority = 40
  Machines = {"a", "b"}
  NoMachine = "none"
  MaxTexts = 1
  MaxChatVisits = 1
  MaxFlips = 1
  MaxSelections = 1
  MaxFlights = 1
  Gateways = {"a", "b"}
  MaxPages = 2
  MaxPicks = 1
  MaxHealth = 1
  MaxRepairs = 1
CHECK_DEADLOCK FALSE
INVARIANTS
  ShellIsTrue
  PanelsAreTrue
  OrderIsTotal
  ShownUnlessLost
PROPERTIES
  ChatFollows
