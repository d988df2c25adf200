SPECIFICATION Spec
CONSTANTS
  Reqs = {"r1", "r2", "r3"}
  Req <- ReqOf
  Global <- GlobalLayer
  OfController <- ControllerLayer
  OfHandler <- HandlerLayer
  ThrottleGuard = "throttle"
  CacheLayer = "cache"
  Catches <- CatchesOf
  Versioning <- HeaderVersioning
  RouteVersions = {}
  NoVersion = "none"
  HostPattern <- HostOf
  MaxClock = 2
  Routes <- RoutesOf
  Unset = Unset
  CacheKeys <- ItemKeys
  CacheTtl <- TtlOf
  CacheStore = "memory"
  Forever = Forever
  SessionIds = {"s1", "s2", "s3"}
  Rolling = FALSE
  MaxAge = 2
CHECK_DEADLOCK FALSE
INVARIANTS AtMostLimit FreshUnlessRaced SequentialSession PipelineKept
