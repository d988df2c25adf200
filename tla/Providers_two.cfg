SPECIFICATION SpecScope
CONSTANTS
  main = main feat = feat core = core plug = plug
  conf = conf ctx = ctx repo = repo emit = emit
  first = first second = second save = save
  NoModule = NoModule None = None NotAlias = None
  Modules <- Mods
  Toks <- Tokens4
  Root = main
  Apps <- TwoProviders
  Replacements <- Mocks
  Graphs <- EqualImports
  Emitter = emit
  Commands = {save}
  Late <- Plugs
  Restarts = 0
CHECK_DEADLOCK FALSE
INVARIANT ScopeIsReachability
