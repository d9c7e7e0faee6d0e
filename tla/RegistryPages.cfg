SPECIFICATION RecordsSpec
CONSTANTS
  ServerIds = {1}
  MaxJobs = 2
  MaxScans = 2
  Logged = {"a"}
  Amounts = {1, 4}
  Week = 2
  Month = 4
  PurgeDays = {2, 3}
  MaxNow = 4
  MaxRecords = 2
  MaxSelects = 1
  MaxLoads = 2
  MaxTokenVisits = 1
  Budgeted = {"a"}
  Names = {"gpt-4o", "gpt-4o-mini", "glm", "main"}
  Generic = {"main"}
  Includes <- MCIncludes
  Builtin <- MCBuiltin
  Offered <- MCOffered
  Usage <- MCUsage
  Rate = 7
  Limits = {0, 1, 2}
  Used <- MCUsed
  MaxEdits = 3
  Providers = {"zai", "openai"}
  Featured = {"zai"}
  Direct = {"zai", "openai"}
  Probed = {"zai", "openai"}
  HasCli = TRUE
  MaxSubmits = 1
  MaxScreens = 1
  MaxWipes = 1
CHECK_DEADLOCK FALSE
INVARIANTS
  McpIsSafe
  CostsAgree
  LockedIsInFlight
PROPERTIES
  UsageConverges
  PurgeKeepsSummary
