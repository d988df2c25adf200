------------------------------- MODULE Scanner ------------------------------
(***************************************************************************)
(* fanest.core.scanner.ModuleScanner: the modules an application has, what *)
(* each of them exports and sees, and the graphs it refuses to start.      *)
(*                                                                         *)
(* A declared graph g gives, for every module key,                         *)
(*   g.imports[m]  the references it imports, in order, as [key, obj]: two *)
(*                 references with one key and different objects are       *)
(*                 dynamic modules that were built from equal arguments;   *)
(*   g.provides[m] its providers, gateways and controllers, in order;      *)
(*   g.uses[m]     the guards, pipes and other enhancer classes that its   *)
(*                 controllers and gateways name;                          *)
(*   g.exports[m]  the tokens and modules it exports; g.global.            *)
(* A provider has the token it provides, a scope, its dependencies         *)
(* [tok, mark], where mark is that of its InjectMarker, and the token it   *)
(* is an alias of (ExistingProvider).                                      *)
(***************************************************************************)
EXTENDS Sequences, SequencesExt, FiniteSets

CONSTANT NotAlias \* the alias of a provider that is none

Marks == {"any", "self", "parent", "optional"}

\* _module_implicit_providers: the enhancers a controller names become
\* providers of its module, unless the class itself already is one; another
\* provider of its token does not count.
ProvidersOf(g, m) ==
  LET named(u) == \A i \in DOMAIN g.provides[m] : g.provides[m][i] # u
  IN g.provides[m] \o SelectSeq(g.uses[m], named)

LocalTokens(g, m) == {ProvidersOf(g, m)[i].tok : i \in DOMAIN ProvidersOf(g, m)}

Imported(g, m) == {g.imports[m][i].key : i \in DOMAIN g.imports[m]}

\* scan: every module once, the first reference to it found, a module before
\* the modules it imports.
RECURSIVE Scanned(_, _, _)
Scanned(g, refs, found) ==
  IF refs = <<>> THEN found
  ELSE LET seen(r) == \E i \in DOMAIN found : found[i].key = r.key
           ref == Head(refs)
       IN Scanned(g, Tail(refs),
            IF seen(ref) THEN found
            ELSE Scanned(g, g.imports[ref.key], Append(found, ref)))

Keys(records) == {records[i].key : i \in DOMAIN records}

\* export_tokens: what a module exports, its module exports expanded; a cycle
\* of module exports adds nothing.
RECURSIVE ExportTokens(_, _, _)
ExportTokens(g, m, seen) ==
  IF m \in seen THEN {}
  ELSE {x \in g.exports[m] : x \notin DOMAIN g.exports}
       \cup UNION {ExportTokens(g, x, seen \cup {m}) : x \in g.exports[m] \cap DOMAIN g.exports}

Exported(g, m) == ExportTokens(g, m, {})

\* _parent_visible_tokens.
ParentVisible(g, known, m) ==
  UNION {Exported(g, x) : x \in Imported(g, m) \cup ((g.global \cap known) \ {m})}

\* _visible_tokens
Visible(g, known, m) == LocalTokens(g, m) \cup ParentVisible(g, known, m)

\* _validate_module_exports: a module exports modules that were scanned, what
\* it provides, or what a module it imports exports.
ExportsAccepted(g, known, m) ==
  g.exports[m] \subseteq known \cup LocalTokens(g, m)
                         \cup UNION {Exported(g, x) : x \in Imported(g, m)}

\* _validate_dependency
DependencyAccepted(g, known, m, d) ==
  CASE d.mark = "optional" -> TRUE
    [] d.mark = "self" -> d.tok \in LocalTokens(g, m)
    [] d.mark = "parent" -> d.tok \in ParentVisible(g, known, m)
    [] d.mark = "any" -> d.tok \in Visible(g, known, m)

\* _validate_target_dependencies; p is an alias of p.alias, or has p.deps.
TargetAccepted(g, known, m, p) ==
  /\ \A i \in DOMAIN p.deps : DependencyAccepted(g, known, m, p.deps[i])
  /\ p.alias \in Visible(g, known, m) \cup {NotAlias}

\* _validate_module_boundaries: a scan that raises registers nothing.
Accepted(g, records) ==
  \A m \in Keys(records) :
    /\ ExportsAccepted(g, Keys(records), m)
    /\ \A i \in DOMAIN ProvidersOf(g, m) :
         TargetAccepted(g, Keys(records), m, ProvidersOf(g, m)[i])
=============================================================================
