---------------------------- MODULE ProviderScope ---------------------------
(***************************************************************************)
(* fanest.core.container: which provider a token means in a module         *)
(* (_locate_provider) and how far its request scope bubbles                *)
(* (_effective_scope), with the two caches the search fills.               *)
(*                                                                         *)
(* An application is the providers, imports and exports of its modules.    *)
(* The searches thread the set seen, which the code mutates in place,      *)
(* through every call; a call is a step of a function over depths, given   *)
(* what the calls below it answer.                                         *)
(***************************************************************************)
EXTENDS Naturals, Sequences, FiniteSets

CONSTANTS
  Modules, Toks,
  Root,         \* the root module
  Apps,         \* the applications considered
  Replacements, \* the providers override() may install
  NoModule,     \* owner of a provider registered for the whole container
  None

Scopes == {"singleton", "request", "transient"}
Owners == Modules \cup {NoModule}

AnyProvider == [scope : Scopes, deps : Seq(Toks)]
Applications ==
  [local : [Modules -> [Toks -> AnyProvider \cup {None}]], imports : [Modules -> Seq(Modules)],
   exports : [Modules -> SUBSET Toks], globals : Seq(Modules)]

ASSUME ScopeAssumption == /\ NoModule \notin Modules /\ None \notin Owners
                          /\ Root \in Modules
                          /\ IsFiniteSet(Modules) /\ IsFiniteSet(Toks)
                          /\ Apps \subseteq Applications
                          /\ Replacements \subseteq AnyProvider /\ None \notin Replacements

VARIABLES
  app,          \* _module_providers (local), _module_imports, _module_exports and
                \* _global_modules (globals)
  shared,       \* _providers
  dependencies, \* _provider_dependency_cache, by token
  scopes        \* _scope_cache, by owner and token

scopeVars == <<app, shared, dependencies, scopes>>

-----------------------------------------------------------------------------
(* _locate_provider *)

\* Where nothing is left to search, the container's own provider is the answer.
Unfound(k, seen) ==
  [owner |-> IF shared[k] = None THEN None ELSE NoModule, seen |-> seen]

\* After m itself its imports, then the global modules, that export k, until one
\* finds it; below answers for each of them.
FindElsewhere(k, m, seen, below) ==
  LET ms == app.imports[m] \o app.globals
      asked(i) == k \in app.exports[ms[i]] /\ (i <= Len(app.imports[m]) \/ ms[i] # m)
      upTo[i \in 0 .. Len(ms)] ==
        IF i = 0 THEN [owner |-> None, seen |-> seen]
        ELSE LET found == upTo[i - 1]
             IN IF found.owner # None \/ ~asked(i) THEN found ELSE below[<<ms[i], found.seen>>]
      last == upTo[Len(ms)]
  IN IF last.owner # None THEN last ELSE Unfound(k, last.seen)

Find(k, m, seen, below) ==
  IF app.local[m][k] # None THEN [owner |-> m, seen |-> seen]
  ELSE IF m \in seen THEN [owner |-> None, seen |-> seen]
  ELSE FindElsewhere(k, m, seen \cup {m}, below)

\* A call inside another has seen one module more, so that none is deeper than
\* there are modules.
Locate(k) ==
  LET deep[n \in 0 .. Cardinality(Modules) + 1] ==
        [w \in Modules \X SUBSET Modules |->
           IF n = 0 THEN Unfound(k, w[2]) ELSE Find(k, w[1], w[2], deep[n - 1])]
  IN deep[Cardinality(Modules) + 1]

\* The owner of token k looked up from m; without a module the root is searched.
Owner(k, m) == Locate(k)[<<IF m = NoModule THEN Root ELSE m, {}>>].owner

\* The same, past what m provides itself (skip_local).
OwnerPast(k, m) == FindElsewhere(k, m, {m}, Locate(k)).owner

Provider(o, k) == IF o = NoModule THEN shared[k] ELSE app.local[o][k]

-----------------------------------------------------------------------------
(* _effective_scope: of a provider, as <<owner, token>>.  A visit is the scope *)
(* found last, the singletons seen, and the dependency cache.                *)

Slots == Owners \X Toks
Given == {n \in Slots : Provider(n[1], n[2]) # None}
Visits == [scope : Scopes, seen : SUBSET Slots, known : [Toks -> Seq(Toks) \cup {None}]]

\* _provider_dependencies: the list cached for the token, else the provider's.
DependenciesOf(o, k, known) == IF known[k] # None THEN known[k] ELSE Provider(o, k).deps

\* The dependencies of a singleton of o in turn, until one is request-scoped.
Bubbled(o, deps, visit, below) ==
  LET upTo[i \in 0 .. Len(deps)] ==
        IF i = 0 THEN visit
        ELSE LET before == upTo[i - 1]
                 owner == Owner(deps[i], o)
                 found == below[<<<<owner, deps[i]>>, before>>]
             IN IF before.scope = "request" \/ owner = None THEN before
                ELSE IF found.scope = "request" THEN found ELSE [found EXCEPT !.scope = "singleton"]
  IN upTo[Len(deps)]

ScopeFrom(n, visit, below) ==
  LET provider == Provider(n[1], n[2])
      deps == DependenciesOf(n[1], n[2], visit.known)
  IN IF provider.scope # "singleton" \/ n \in visit.seen THEN [visit EXCEPT !.scope = provider.scope]
     ELSE Bubbled(n[1], deps, [scope |-> "singleton", seen |-> visit.seen \cup {n},
                               known |-> [visit.known EXCEPT ![n[2]] = deps]], below)

Effective(o, k, known) ==
  LET given == Given
      deep[i \in 0 .. Cardinality(given) + 1] ==
        [w \in given \X Visits |-> IF i = 0 THEN w[2] ELSE ScopeFrom(w[1], w[2], deep[i - 1])]
  IN deep[Cardinality(given) + 1][<<<<o, k>>, [scope |-> "singleton", seen |-> {}, known |-> known]>>]

\* The answer for token k of owner o, and the caches after it: only an answer
\* that visited no other singleton is kept.
Answer(o, k) ==
  IF scopes[o][k] # None
  THEN [scope |-> scopes[o][k], seen |-> {}, known |-> dependencies]
  ELSE Effective(o, k, dependencies)

-----------------------------------------------------------------------------
NoScopes == [o \in Owners |-> [k \in Toks |-> None]]

\* _validate_module_exports: a module exports what it provides or what a module
\* it imports exports.
ExportsValid(a) ==
  \A m \in Modules : \A k \in a.exports[m] :
    \/ a.local[m][k] # None
    \/ \E i \in DOMAIN a.imports[m] : k \in a.exports[a.imports[m][i]]

ScopeInit ==
  /\ app \in {a \in Apps : ExportsValid(a)}
  /\ shared = [k \in Toks |-> None]
  /\ dependencies = [k \in Toks |-> None]
  /\ scopes = NoScopes

\* Resolving k from module m asks for the scope of the provider found.
Ask(k, m) ==
  LET o == Owner(k, m)
      answer == Answer(o, k)
  IN /\ o # None
     /\ dependencies' = answer.known
     /\ scopes' = IF Cardinality(answer.seen) <= 1
                  THEN [scopes EXCEPT ![o][k] = answer.scope] ELSE scopes
     /\ UNCHANGED <<app, shared>>

\* _invalidate_provider_cache.  Variant: only the token's own scope is dropped.
ScopesOfOthers(k) == [o \in Owners |-> [scopes[o] EXCEPT ![k] = None]]
ScopesWithout(k) == NoScopes

\* override(k, p): every module that has k gets p, and so does the container.
Override(k, p) ==
  /\ app' = [app EXCEPT !.local = [m \in Modules |->
               IF app.local[m][k] = None THEN app.local[m] ELSE [app.local[m] EXCEPT ![k] = p]]]
  /\ shared' = [shared EXCEPT ![k] = p]
  /\ dependencies' = [dependencies EXCEPT ![k] = None]
  /\ scopes' = ScopesWithout(k)

ScopeNext ==
  \/ \E k \in Toks, m \in Owners : Ask(k, m)
  \/ \E k \in Toks, p \in Replacements : Override(k, p)

ScopeSpec == ScopeInit /\ [][ScopeNext]_scopeVars

-----------------------------------------------------------------------------
(* References and properties *)

\* The modules that x sees and that export k.
Exporting(k, x) ==
  {y \in Modules : /\ k \in app.exports[y]
                   /\ \/ \E i \in DOMAIN app.imports[x] : app.imports[x][i] = y
                      \/ \E i \in DOMAIN app.globals : app.globals[i] = y}

\* The modules a search for k from m may end in: m, and through each module
\* reached that does not provide k itself the exporting ones it sees.
SearchSpace(k, m) ==
  LET space[n \in 0 .. Cardinality(Modules)] ==
        IF n = 0 THEN {m}
        ELSE LET near == space[n - 1]
             IN near \cup UNION {Exporting(k, x) : x \in {x \in near : app.local[x][k] = None}}
  IN space[Cardinality(Modules)]

\* A token is found exactly when some module of the search space provides it or
\* the container does, whatever cycles imports and re-exports make, and the
\* owner is such a module.  Once the token was overridden, what is found is the
\* replacement, even where a search ends early at the container's own copy.
LocateFindsVisible ==
  \A k \in Toks, m \in Modules :
    LET providers == {x \in SearchSpace(k, m) : app.local[x][k] # None}
        owner == Owner(k, m)
    IN IF shared[k] = None
       THEN IF providers # {} THEN owner \in providers ELSE owner = None
       ELSE owner \in providers \cup {NoModule} /\ Provider(owner, k) = shared[k]

\* The providers, as <<owner, token>>, that a request-scoped one is reached
\* from through singletons.
RequestBound ==
  LET nodes == Given
      bound[i \in 0 .. Cardinality(nodes)] ==
        IF i = 0 THEN {n \in nodes : Provider(n[1], n[2]).scope = "request"}
        ELSE LET near == bound[i - 1]
             IN near \cup {n \in nodes :
                  /\ Provider(n[1], n[2]).scope = "singleton"
                  /\ \E d \in DOMAIN Provider(n[1], n[2]).deps :
                       LET k == Provider(n[1], n[2]).deps[d] IN <<Owner(k, n[1]), k>> \in near}
  IN bound[Cardinality(nodes)]

\* Whatever was asked or overridden before, the scope the container answers is
\* the one the providers as they are now give: request scope bubbles to every
\* singleton consumer (CHANGELOG.md:106) and to no other.
ScopeIsReachability ==
  LET bound == RequestBound
  IN \A o \in Owners, k \in Toks : Provider(o, k) # None =>
       Answer(o, k).scope =
         (IF Provider(o, k).scope = "singleton" /\ <<o, k>> \in bound
          THEN "request" ELSE Provider(o, k).scope)

\* The same while no two modules provide one token with different providers,
\* which share an entry of the dependency cache.
ScopeBubbles ==
  (\A k \in Toks : Cardinality({app.local[m][k] : m \in Modules} \ {None}) <= 1)
    => ScopeIsReachability

\* A module finds what it and its imports provide, in the scope the providers
\* give it, after any sequence of questions and overrides (container.py:732).
ModulesResolve == LocateFindsVisible /\ ScopeBubbles

\* The container has the modules of K and no others, with all they import.
OnlyHas(K) ==
  /\ K \subseteq Modules
  /\ \A m \in K : \A i \in DOMAIN app.imports[m] : app.imports[m][i] \in K
  /\ \A i \in DOMAIN app.globals : app.globals[i] \in K
  /\ \A m \in Modules \ K : app.exports[m] = {}

\* register_module for modules that are not in K; global ones come last.
Adds(K) ==
  /\ \A m \in K : /\ app'.local[m] = app.local[m] /\ app'.imports[m] = app.imports[m]
                  /\ app'.exports[m] = app.exports[m]
  /\ Len(app.globals) <= Len(app'.globals)
  /\ \A i \in DOMAIN app.globals : app'.globals[i] = app.globals[i]
=============================================================================
