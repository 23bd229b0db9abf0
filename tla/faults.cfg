SPECIFICATION Spec
CONSTANTS
  Subjects = {"http", "chat", "chain", "installs", "memory", "sharing", "llm", "google", "knowledge", "backups", "restore"}
  Nothing = Nothing
  None = None
  NoKey = NoKey
  NoAccount = NoAccount
  Nobody = Nobody
  Agents = {"a", "b", "c"}
  Starts <- Others
  Ready = {"a", "b", "c"}
  Logins = {"c1", "c2"}
  Account <- TwoAccounts
  Scopes <- TwoScopes
  Users = {"u1"}
  Op <- Appends
  Owners = {"o1"}
  MaxTokens = 2
  Docs = {"d1", "d2"}
  MaxIngest = 2
  MaxPurge = 1
  Archives <- SixArchives
  Entries = {"e1", "e2", "e3"}
  Versions = {1, 2}
  Perms = {"few", "more"}
  InstallRequests = {"r"}
  Peak <- TwoEach
  Margin = 1
  MaxServing = 3
  OneOff = {"h2"}
  Runs = {"run1", "run2"}
  Cloud = {"openai"}
  PerRun = 3
  Daily = 3
  Modes = {"none", "when_relevant", "only_knowledge"}
  MaxRoots = 1
  MaxWire = 1
  RequestKeys = {"k1"}
  Messages = {"m1", "m2"}
  HttpRequests = {"r1", "r2", "r3"}
  Named <- LocalRoutes
  HttpFaults = {"crash"}
  Toggles = {"t1", "t2"}
  ChatFaults = {"lost", "expire", "crash", "unread"}
  StartKeys = {"k", "l"}
  MaxDepth = 2
  StartsPerRun = 1
  MaxAttempt = 2
  MaxRuns = 4
  Importers = {"i", "j"}
  MaxEdits = 2
  MaxCreated = 1
  Models = {"m1"}
  Holders = {"h1", "h2"}
  RunHolders = {"h1"}
  Generative = {"m1"}
  MaxCrashes = 1
  MaxTries = 1
  MemFaults = {"retry", "runtime", "server_exit", "lapse", "leader_error"}
  StoreFaults = {"error", "restart"}
  Requests <- BudgetRequests
  Req <- BudgetReq
  RunLimit = 3
  MaxEntries = 1
  LlmFaults = {"provider", "expire", "cancel", "restart"}
  Profiles = {}
  Tests = {}
  KeyUsers = {}
  Window = 1
  MaxTime = 0
  KnowFaults = {"crash", "lapse", "error", "timeout", "lost_upload", "purge_error"}
  BackupDocs = {"d1"}
  MaxName = 2
  Keep = 1
  BackupFaults = {"crash", "lapse", "pg", "purge"}
  RestoreFaults = {"crash", "pg"}
INVARIANTS DrainsAreSafe GatewayWithin RecordMeansDone StartsAsApproved  ConnectionTold
PROPERTIES KeepsTheRest
CHECK_DEADLOCK FALSE
