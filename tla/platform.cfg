SPECIFICATION Spec
CONSTANTS
  Subjects = {"http", "chat", "memory", "store", "llm", "keys"}
  Nothing = Nothing
  None = None
  NoKey = NoKey
  NoAccount = NoAccount
  Nobody = Nobody
  Agents = {}
  Starts <- Others
  Ready = {}
  Logins = {}
  Account <- TwoAccounts
  Scopes <- TwoScopes
  Users = {}
  Op <- Appends
  Owners = {}
  MaxTokens = 2
  Docs = {}
  MaxIngest = 2
  MaxPurge = 1
  Archives <- SixArchives
  Entries = {}
  Versions = {}
  Perms = {}
  InstallRequests = {}
  Peak <- TwoEach
  Margin = 1
  MaxServing = 3
  OneOff = {"h2"}
  Runs = {"run1", "run2"}
  Cloud = {"openai"}
  PerRun = 3
  Daily = 3
  Modes = {"none", "when_relevant", "only_knowledge"}
  MaxRoots = 1
  MaxWire = 1
  RequestKeys = {"k1"}
  Messages = {"m1", "m2"}
  HttpRequests = {"r1", "r2"}
  Named <- ProxiedRoutes
  HttpFaults = {}
  Toggles = {"t1", "t2", "t3"}
  ChatFaults = {}
  StartKeys = {}
  MaxDepth = 3
  StartsPerRun = 1
  MaxAttempt = 1
  MaxRuns = 4
  Importers = {}
  MaxEdits = 4
  MaxCreated = 2
  Models = {m1, m2}
  Holders = {"h2"}
  RunHolders = {}
  Generative = {m1, m2}
  MaxCrashes = 0
  MaxTries = 1
  MemFaults = {}
  StoreFaults = {"error", "restart"}
  Requests <- KeyRequests
  Req <- KeyReq
  RunLimit = 9
  MaxEntries = 2
  LlmFaults = {"provider", "abandon"}
  Profiles = {1, 2}
  Tests = {"t1"}
  KeyUsers = {"u1"}
  Window = 1
  MaxTime = 1
  KnowFaults = {}
  BackupDocs = {}
  MaxName = 0
  Keep = 1
  BackupFaults = {}
  RestoreFaults = {}
SYMMETRY Alike
INVARIANTS MemoryFits PaidOnce KeyedOnce ChatKept ShownIsUsable
CHECK_DEADLOCK FALSE
