SPECIFICATION Spec
CONSTANTS
  db = db svc = svc aux = aux req = req ctl = ctl pool = pool log = log fmt = fmt
  boot = boot t1 = t1 t2 = t2 t3 = t3 kid = kid r1 = r1 r2 = r2 NoReq = NoReq
  Tokens <- WebTokens
  Own <- WebOwn
  Deps <- WebDeps
  Async <- WebAsync
  FaultyTokens = {req, ctl}
  Tasks <- WebTasks
  SyncTasks = {t3}
  Goals <- WebGoals
  Requests = {r1, r2}
  ReqOf <- WebReqOf
  Preceding <- WebAfter
  SharesWith <- WebShares
  guard = guard term = term int = int
  NoSignal = NoSignal NoInstance = NoInstance Lifespan = lifespan
  Instances = {db, svc, guard}
  Found <- Founds
  Extras <- Enhancers
  Implements <- HooksOf
  Signals = {term, int}
  Prior <- Mixed
  Faulty <- Raising
  MaxSignals = 3
  Callers = {t1, t2, t3}
  FaultyHooks <- ContextRaising
  Created = TRUE
  main = main feat = feat core = core plug = plug
  conf = conf ctx = ctx repo = repo emit = emit
  first = first second = second save = save
  NoModule = NoModule None = None NotAlias = None
  Modules <- Mods
  Toks <- Tokens4
  Root = main
  Apps <- TwoProviders
  Replacements <- Mocks
  Graphs <- EqualImports
  Emitter = emit
  Commands = {save}
  Late <- Plugs
  Restarts = 0
INVARIANT ReraisedAfterHooks
CHECK_DEADLOCK FALSE
