SPECIFICATION Spec
CONSTANTS
  Tasks = {"t", "u"}
  Sql = {"a", "b"}
  Mongo = {"m", "n"}
  Applications <- OneKind
  MaxSessions = 2
  MaxSaves = 2
  MaxDepth = 2
  QueueNames = {"a", "b"}
  JobIds = {1, 2}
  Processes = {1, 2}
  UsedBy <- OneQueue
  MaxRecords = 4
  team = team stats = stats bill = bill user_ = user_ list = list plan = plan
  PropKinds <- SixProps
  Handlers = {"render", "raise", "errors", "redirect", "nothing"}
  SessionInside = {TRUE, FALSE}
  MaxVisits = 4
  MaxBuilds = 3
  Methods = {"GET", "POST"}
  RetryMethods = {"GET"}
  Codes = {200, 404, 503}
  RetryCodes = {503}
  MaxAttempts = 3
  MaxFrames = 2
  MaxAcks = 2
  Param = "{id}"
  Rest = "{rest:path}"
  Length <- SegmentLength
  RoutedApps <- TwoControllers
  Versionings <- VersioningOptions
  Wanted <- Wishes
  Actions = {"read", "manage"}
  Subjects = {"Article"}
  Chains <- GuardChains
  Handlings <- Handlers_
  RuleLists <- AbilityRules
  Claims <- TokenClaims
  Expiry = 1
  Leeway = 1
  MaxClock = 3
  Uploads = {"r1", "r2"}
  FileLists <- Sendings
  Interceptors <- EveryInterceptor
INVARIANTS TransactionsIsolated RecordsCurrent Acknowledged ExchangesSafe RequestsServed
PROPERTIES VisitsKept
CHECK_DEADLOCK FALSE
