------------------------------ MODULE Bootstrap -----------------------------
(***************************************************************************)
(* fanest.core.factory: an application from its scanned modules.  The      *)
(* container is filled in scan order, the providers are resolved and their *)
(* on_module_init hooks run imports first, listeners and command handlers  *)
(* are registered on the way, and on_application_bootstrap runs last.  The *)
(* lifespan may run again after a shutdown, and LazyModuleLoader adds      *)
(* modules to the running application.                                     *)
(*                                                                         *)
(* A provider of the declared graph also says whether its class listens to *)
(* the event, which command it handles, the provider it is an alias of, and*)
(* the hook from which it emits the event.                                 *)
(***************************************************************************)
EXTENDS ProviderScope, Scanner

CONSTANTS
  Graphs,   \* the declared graphs considered
  Emitter,  \* the token of the EventEmitter and of the CommandBus
  Commands,
  Late,     \* the references a running application may load lazily
  Restarts  \* bound on the lifespans after the first

VARIABLES
  declared,  \* the modules as declared
  phase,     \* "scan", "rejected", "registered", "built", "boot", "hooks",
             \* "up", "failed", "crashed"
  records,   \* ModuleScanner.records: the references scanned, in order
  agenda,    \* the <<module, index of provider>> still to visit, then the
             \* instances whose on_application_bootstrap is still to run
  booted,    \* instances, as <<owner, token>>, in the order they were resolved
  listeners, \* the handlers of the event, as <<module, token>>
  handlers,  \* the handler of each command, as <<module, token>>
  heard,     \* history: who emitted, from which hook, and who was told
  restarts

bootVars == <<declared, phase, records, agenda, booted, listeners, handlers, heard, restarts>>

NoOne == <<NoModule, None>>

-----------------------------------------------------------------------------
(* Modules to a container *)

ScopeProvider(p) == [scope |-> p.scope, alias |-> p.alias,
                     marks |-> p.deps,
                     deps |-> IF p.alias = None THEN [i \in DOMAIN p.deps |-> p.deps[i].tok]
                              ELSE <<p.alias>>]

LocalOf(m) ==
  [k \in Toks |->
     LET at == {i \in DOMAIN ProvidersOf(declared, m) : ProvidersOf(declared, m)[i].tok = k}
     IN IF at = {} THEN None
        ELSE ScopeProvider(ProvidersOf(declared, m)[CHOOSE i \in at : \A j \in at : j <= i])]

\* register_module, for the modules of rs the container does not have yet.
GlobalsBefore(old, new) == new \o old
GlobalsAfter(old, new) == old \o new

Registered(rs) ==
  LET new == SelectSeq([i \in DOMAIN rs |-> rs[i].key], LAMBDA m : m \notin app.known)
      added == {new[i] : i \in DOMAIN new}
  IN [known   |-> app.known \cup added,
      local   |-> [m \in Modules |-> IF m \in added THEN LocalOf(m) ELSE app.local[m]],
      imports |-> [m \in Modules |-> IF m \in added
                                     THEN [i \in DOMAIN declared.imports[m] |-> declared.imports[m][i].key]
                                     ELSE app.imports[m]],
      exports |-> [m \in Modules |-> IF m \in added THEN Exported(declared, m) ELSE app.exports[m]],
      globals |-> GlobalsAfter(app.globals, SelectSeq(new, LAMBDA m : m \in declared.global))]

Empty == [known |-> {}, local |-> [m \in Modules |-> [k \in Toks |-> None]],
          imports |-> [m \in Modules |-> <<>>], exports |-> [m \in Modules |-> {}],
          globals |-> <<>>]

Sees(m) == Owner(Emitter, m) # None

-----------------------------------------------------------------------------
(* The order of the lifecycle *)

\* _record_import_key finds the record made from this very object; an equal
\* dynamic module falls through, and hashing it raises.
HasRecord(ref) == \E i \in DOMAIN records : records[i] = ref
Unhashable == \E m \in Keys(records) : \E i \in DOMAIN declared.imports[m] :
                ~HasRecord(declared.imports[m][i])

\* _lifecycle_records: a module after the modules it imports.  Variant: in
\* scan order.
RECURSIVE Visit(_, _)
Visit(ms, state) ==
  IF ms = <<>> THEN state
  ELSE LET m == Head(ms)
           below == Visit([i \in DOMAIN declared.imports[m] |-> declared.imports[m][i].key],
                          [state EXCEPT !.seen = @ \cup {m}])
       IN Visit(Tail(ms),
            IF m \in state.seen THEN state ELSE [below EXCEPT !.ordered = Append(@, m)])

InScanOrder(ms) == ms

Ordered(ms) == Visit(ms, [seen |-> {}, ordered |-> <<>>]).ordered

LifecycleRecords == Ordered([i \in DOMAIN records |-> records[i].key])

ProvidersIn(ms) ==
  FlattenSeq([i \in DOMAIN ms |-> [j \in DOMAIN ProvidersOf(declared, ms[i]) |-> <<ms[i], j>>]])

-----------------------------------------------------------------------------
(* Injection: a dependency with a mark, from module o *)

Located(d, o) ==
  CASE d.mark = "self" -> IF app.local[o][d.tok] # None THEN o ELSE None
    [] d.mark = "parent" -> OwnerPast(d.tok, o)
    [] OTHER -> Owner(d.tok, o)

\* _collect_instantiation_kwargs: the provider can be built when each
\* dependency can; no graph considered has a cycle of dependencies.
RECURSIVE Builds(_, _)
Builds(o, k) ==
  LET p == Provider(o, k)
  IN /\ \A i \in DOMAIN p.marks :
          LET d == p.marks[i] owner == Located(d, o)
          IN IF owner = None THEN d.mark = "optional" ELSE Builds(owner, d.tok)
     /\ p.alias # None => Owner(p.alias, o) # None /\ Builds(Owner(p.alias, o), p.alias)

\* The instance behind a token: an ExistingProvider gives that of another.
RECURSIVE InstanceOf(_, _)
InstanceOf(o, k) ==
  IF Provider(o, k).alias = None THEN <<o, k>>
  ELSE InstanceOf(Owner(Provider(o, k).alias, o), Provider(o, k).alias)

-----------------------------------------------------------------------------
BootInit ==
  /\ declared \in Graphs
  /\ phase = "scan" /\ records = <<>> /\ agenda = <<>> /\ booted = <<>>
  /\ listeners = <<>> /\ handlers = [c \in Commands |-> NoOne]
  /\ heard = <<>> /\ restarts = 0
  /\ app = Empty
  /\ shared = [k \in Toks |-> None]
  /\ dependencies = [k \in Toks |-> None]
  /\ scopes = NoScopes

\* ModuleScanner.scan
Scan ==
  /\ phase = "scan" /\ records = <<>>
  /\ LET found == Scanned(declared, <<[key |-> Root, obj |-> Root]>>, <<>>)
     IN /\ records' = found
        /\ phase' = IF Accepted(declared, found) THEN "scan" ELSE "rejected"
  /\ UNCHANGED <<scopeVars, declared, agenda, booted, listeners, handlers, heard, restarts>>

\* _build_context_container: the modules in scan order.
Build ==
  /\ phase = "scan" /\ records # <<>>
  /\ app' = Registered(records)
  /\ phase' = "registered"
  /\ UNCHANGED <<shared, dependencies, scopes, declared, records, agenda, booted, listeners,
                 handlers, heard, restarts>>

\* The classes that handle command c among ps, in modules that see the bus.
HandlersIn(ps, c) ==
  SelectSeq(ps, LAMBDA x : ProvidersOf(declared, x[1])[x[2]].command = c /\ Sees(x[1]))

\* _register_cqrs_handler_providers, before anything is resolved and in scan
\* order: the last handler of a command replaces the others.
RegisterHandlers ==
  /\ phase = "registered"
  /\ LET all == ProvidersIn([i \in DOMAIN records |-> records[i].key])
     IN handlers' = [c \in Commands |->
          IF HandlersIn(all, c) = <<>> THEN NoOne
          ELSE LET x == Last(HandlersIn(all, c)) IN <<x[1], ProvidersOf(declared, x[1])[x[2]].tok>>]
  /\ phase' = "built"
  /\ UNCHANGED <<scopeVars, declared, records, agenda, booted, listeners, heard, restarts>>

\* The lifespan starts, for the first time or again: _lifecycle_records.
StartUp ==
  /\ phase = "built" \/ (phase = "up" /\ restarts < Restarts)
  /\ restarts' = IF phase = "up" THEN restarts + 1 ELSE restarts
  /\ phase' = IF Unhashable THEN "crashed" ELSE "boot"
  /\ agenda' = IF Unhashable THEN <<>> ELSE ProvidersIn(LifecycleRecords)
  /\ booted' = <<>>
  /\ heard' = <<>>
  /\ UNCHANGED <<scopeVars, declared, records, listeners, handlers>>

\* emitter.on: a registration key that is there already is not added again.
Once(ls, l) == IF \E i \in DOMAIN ls : ls[i] = l THEN ls ELSE Append(ls, l)

\* _register_event_provider and _register_cqrs_handler_provider.
Listening(m, p) ==
  IF p.listens /\ p.alias = None /\ Sees(m) THEN Once(listeners, <<m, p.tok>>) ELSE listeners

Says(who, hook, to) == [by |-> who, from |-> hook, to |-> to]

\* _bootstrap_instances: the next provider is registered for what it listens
\* to, resolved unless it is not a singleton, and its on_module_init hook runs
\* if the instance is new.
BootNext ==
  /\ phase = "boot" /\ agenda # <<>>
  /\ LET m == Head(agenda)[1]
         p == ProvidersOf(declared, m)[Head(agenda)[2]]
         answer == Answer(m, p.tok)
         who == InstanceOf(m, p.tok)
         fresh == answer.scope = "singleton" /\ Builds(m, p.tok) /\ ~Contains(booted, who)
     IN /\ listeners' = Listening(m, p)
        /\ handlers' = IF p.command \in Commands /\ p.alias = None /\ Sees(m)
                       THEN [handlers EXCEPT ![p.command] = <<m, p.tok>>] ELSE handlers
        /\ dependencies' = answer.known
        /\ scopes' = IF Cardinality(answer.seen) <= 1
                     THEN [scopes EXCEPT ![m][p.tok] = answer.scope] ELSE scopes
        /\ booted' = IF fresh THEN Append(booted, who) ELSE booted
        /\ heard' = IF fresh /\ p.speaks = "on_module_init"
                    THEN Append(heard, Says(who, p.speaks, listeners')) ELSE heard
        /\ phase' = IF answer.scope = "singleton" /\ ~Builds(m, p.tok) THEN "failed" ELSE "boot"
  /\ agenda' = Tail(agenda)
  /\ UNCHANGED <<app, shared, declared, records, restarts>>

AllResolved ==
  /\ phase = "boot" /\ agenda = <<>>
  /\ phase' = "hooks"
  /\ agenda' = booted
  /\ UNCHANGED <<scopeVars, declared, records, booted, listeners, handlers, heard, restarts>>

SpeaksOf(who) ==
  LET ps == ProvidersOf(declared, who[1])
  IN ps[CHOOSE i \in DOMAIN ps : ps[i].tok = who[2]].speaks

\* on_application_bootstrap of the next instance.
HookNext ==
  /\ phase = "hooks"
  /\ IF agenda = <<>> THEN phase' = "up" /\ UNCHANGED <<agenda, heard>>
     ELSE /\ agenda' = Tail(agenda)
          /\ heard' = IF SpeaksOf(Head(agenda)) = "on_application_bootstrap"
                      THEN Append(heard, Says(Head(agenda), "on_application_bootstrap", listeners))
                      ELSE heard
          /\ UNCHANGED phase
  /\ UNCHANGED <<scopeVars, declared, records, booted, listeners, handlers, restarts>>

\* LazyModuleLoader.load: a scan of its own, which sees no module of the
\* running application, then register_module for the modules that are new.
Load(ref) ==
  /\ phase = "up"
  /\ LET found == Scanned(declared, <<ref>>, <<>>)
     IN /\ Accepted(declared, found)
        /\ ~(Keys(found) \subseteq app.known)
        /\ app' = Registered(found)
  /\ UNCHANGED <<shared, dependencies, scopes, bootVars>>

Boot ==
  \/ Scan \/ Build \/ RegisterHandlers \/ StartUp \/ BootNext \/ AllResolved \/ HookNext
  \/ \E ref \in Late : Load(ref)

BootSpec == BootInit /\ [][Boot]_<<scopeVars, bootVars>>

-----------------------------------------------------------------------------
(* Properties *)

\* The modules each module reaches through imports.
Reached ==
  LET near[n \in Nat] ==
        IF n = 0 THEN [m \in Modules |-> Imported(declared, m)]
        ELSE [m \in Modules |-> near[n - 1][m] \cup UNION {Imported(declared, x) : x \in near[n - 1][m]}]
  IN near[Cardinality(Modules)]

Acyclic == \A m \in Modules : m \notin Reached[m]

\* Modules export only modules they import.
ExportsImported ==
  \A m \in Modules : declared.exports[m] \cap Modules \subseteq Imported(declared, m)

\* What the scanner accepts the container can inject: without cycles of
\* imports, every dependency of every provider of a scanned module is found
\* where its InjectMarker says, so no bootstrap fails half-way on a missing
\* provider (scanner.py:203, container.py:610).
ScannedResolves ==
  Acyclic /\ ExportsImported =>
    /\ phase # "failed"
    /\ phase \in {"built", "boot", "hooks", "up"} =>
         \A m \in Keys(records) : \A i \in DOMAIN ProvidersOf(declared, m) :
           \A j \in DOMAIN ProvidersOf(declared, m)[i].deps :
             LET d == ProvidersOf(declared, m)[i].deps[j]
             IN d.mark = "optional" \/ Located(d, m) # None

\* A module's providers are initialised after those of every module it imports
\* (factory.py:706), whatever re-exports, shared imports and aliases there are.
InitAfterImports ==
  Acyclic => \A i, j \in DOMAIN booted :
    booted[i][1] \in Modules /\ booted[j][1] \in Reached[booted[i][1]] =>
      j < i \/ \E m \in Keys(records), k \in Toks :
                 /\ Provider(m, k) # None /\ Provider(m, k).alias # None
                 /\ InstanceOf(m, k) = booted[i]

\* An event emitted from on_application_bootstrap is heard by every listener of
\* every scanned module that sees the emitter, request-scoped ones included,
\* and by each of them once, in the first lifespan and after a restart.
AllHear ==
  \A e \in DOMAIN heard : heard[e].from = "on_application_bootstrap" =>
    \A m \in Keys(records) : \A i \in DOMAIN ProvidersOf(declared, m) :
      LET p == ProvidersOf(declared, m)[i]
      IN p.listens /\ p.alias = None /\ Sees(m) =>
           Cardinality({x \in DOMAIN heard[e].to : heard[e].to[x] = <<m, p.tok>>}) = 1

\* What the scan accepts starts, each module after what it imports, and hears
\* every event from then on.
ModulesStart == ScannedResolves /\ InitAfterImports /\ AllHear

\* Loading a module lazily changes nothing for the others: it only adds to a
\* container that has all its modules import, and a token one of them found is
\* still the same provider (lazy_loader.py:28).
LoadDisturbsNobody ==
  [][\A ref \in Late : Load(ref) =>
       /\ OnlyHas(app.known) /\ Adds(app.known)
       /\ \A m \in app.known, k \in Toks :
            Owner(k, m) \notin {None, NoModule} => Owner(k, m)' = Owner(k, m)]_<<scopeVars, bootVars>>

\* What the scanner accepts also starts: normalising imports in place is meant
\* to make identity matching work and to prevent a crash at lifespan startup
\* (scanner.py:118).
StartsUp == phase # "crashed"
=============================================================================
