SPECIFICATION Spec
CONSTANTS
  Documents <- Texts
  Schemas <- Registrations
  MetaFields = {"__typename"}
  Directives = {"skip", "include"}
  MaxComplexity = 5
  MaxItems = 2
  Loads = {1, 2}
  Keys = {"j", "k"}
  MaxVersion = 2
  MaxClears = 2
  Contenders = {1, 2, 3}
  ProcessOf <- Process
  Dialects = {"postgresql", "mysql", "sqlite"}
  PoolSize = 2
  Jobs = {"j1", "j2", "j3"}
  Foreground = {"j3"}
  Concurrency = 2
  MaxRuns = 2
INVARIANTS DocumentServed FreshAfterClear LockExcludes PermitsKept
PROPERTIES ServicesEnd
CHECK_DEADLOCK FALSE
