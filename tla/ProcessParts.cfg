SPECIFICATION PartsSpec
CONSTANTS
  Threshold = 5
  CoolDown = 6
  Unit = 3
  Rate = 2
  Burst = 7
  MaxWindow = 7
  AllowLegacy = FALSE
  Secret = "dev-secret"
  Issuer = "kd39"
  Audience = "clients"
  Bytes = {0, 1, 63, 64, 255}
  MaxBytes = 4
  MaxNow = 1
  Admins = {a1, a2}
  Tokens <- MCTokens
  Updates <- MCUpdates
  Started <- MCStarted
  Threads = {t1, t2, t3}
  NumHooks = 2
  LogThreads = {l1, l2, l3}
  MainThread = l1
  Names = {"info", "warning", "verbose"}
  Severities = {2, 3}
  MaxDay = 2
  MaxRecords = 6
  MaxSize = 2
  MaxFiles = 1
  MaxRequests = 4
  MaxConcurrency = 3
  Ratios <- MCRatios
  Characters <- MCCharacters
  Words <- MCWords
  Separators <- MCSeparators
CHECK_DEADLOCK FALSE
INVARIANTS
  ClosedBelowThreshold
  AdmissionBound
  LastAskedInForce
  DecodedIsEncoded
  HooksNotCut
  ShutdownComplete
  RecordsKept
  LastSetWins
  PoolsStaffed
  ReportAddsUp
  TextIsName
PROPERTIES
  CoolDownFromLastFailure
  RepeatedSignalStops
  BenchReports
