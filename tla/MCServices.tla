------------------------------ MODULE MCServices ----------------------------
(* Services that do not know each other, one after the other: a document of  *)
(* GraphQL, a data loader, the advisory lock of create_all(), and workers.   *)
EXTENDS Workers, GraphQL, DataLoader, AdvisoryLock

VARIABLE part

servicesVars == <<part, gqlVars, loaderVars, lockVars, workersVars>>

-----------------------------------------------------------------------------
Item_(is, key, name, sel, on) == [is |-> is, key |-> key, name |-> name, directives |-> {}, sel |-> sel, on |-> on]
F(key, name, sel) == Item_("field", key, name, sel, AnyType)
Spread(name, directives) == [Item_("spread", "", name, <<>>, AnyType) EXCEPT !.directives = directives]
Inline(on, sel) == Item_("inline", "", "", sel, on)
Id == F("id", "id", <<>>)
Fragments ==
  "user" :> [on |-> "User", sel |-> <<Id, Inline("Admin", <<F("level", "level", <<>>)>>)>>]
  @@ "loop" :> [on |-> "User", sel |-> <<F("me", "user", <<Spread("loop", {})>>)>>]
Op(name, op, sel) == [name |-> name, op |-> op, sel |-> sel]

RECURSIVE Under(_)
Under(sel) == {sel} \cup UNION {Under(sel[i].sel) : i \in DOMAIN sel}
Doc(operations) ==
  [operations |-> operations, fragments |-> Fragments, parses |-> TRUE,
   selections |-> UNION {Under(sel) : sel \in {<<>>} \cup {o.sel : o \in ToSet(operations)} \cup {f.sel : f \in Range(Fragments)}}]
Query(sel) == Doc(<<Op("", "query", sel)>>)
Ping == Query(<<>>)

\* Two fields of one key, of one resolver and of two; seven selections, four of
\* them through fragments; fragments that spread themselves, are skipped or do
\* not exist; two operations.
Texts ==
  {Query(<<F("a", "user", <<Spread("user", {})>>), F("b", "user", <<>>), F("t", "__typename", <<>>)>>),
   Query(<<F("a", "user", <<>>), F("a", "user", <<>>), F("c", "missing", <<>>)>>),
   Query(<<F("a", "user", <<>>), F("a", "other", <<>>)>>),
   Query(<<F("a", "user", <<F("x", "x", <<F("y", "y", <<Id, Id>>), Id>>)>>)>>),
   Query(<<Spread("loop", {})>>), Query(<<Spread("loop", {<<"skip", TRUE>>})>>), Query(<<Spread("none", {})>>),
   Query(<<Spread("user", {<<"unknown", TRUE>>})>>),
   Doc(<<Op("named", "subscription", <<F("a", "ticks", <<Id>>), F("b", "ticks", <<>>), F("c", "missing", <<>>)>>)>>),
   Doc(<<Op("", "query", <<Id>>), Op("named", "query", <<F("o", "other", <<>>)>>)>>),
   Doc(<<>>), Ping, [Ping EXCEPT !.parses = FALSE]}

Resolver(kind, name, of) == [kind |-> kind, owner |-> "Query", name |-> name, of |-> of]
Resolvers == {Resolver("query", "user", 1), Resolver("query", "other", 2), Resolver("subscription", "ticks", 3)}
Registrations == {Resolvers, {Resolver("query", "user", 1), Resolver("query", "user", 2)}}

\* The selections of a document that is expanded, counted in its text.
RECURSIVE Written(_, _)
Written(d, sel) ==
  FoldLeft(LAMBDA n, item : n + CASE ~Included(item) -> 0
                                  [] item.is = "field" -> 1 + Written(d, item.sel)
                                  [] item.is = "inline" -> Written(d, item.sel)
                                  [] OTHER -> Written(d, d.fragments[item.name].sel), 0, sel)
ASSUME AllCounted ==
  \A d \in Texts : \A o \in ToSet(d.operations) :
    LET e == FieldsOf(d, o.sel, {}) IN e.ok => Complexity(e.fields) = Written(d, o.sel)

Process == [c \in Contenders |-> IF c = 3 THEN 2 ELSE 1]

-----------------------------------------------------------------------------
Init ==
  /\ part \in {"graphql", "loader", "lock", "workers"}
  /\ GraphQLInit /\ LoaderInit /\ LockInit /\ WorkersInit
  /\ part = "graphql" \/ (doc = Ping /\ schema = Resolvers /\ asked = "" /\ transport = "http")
  /\ part = "lock" \/ dialect = "sqlite"

In(p, others) == part = p /\ UNCHANGED <<part, others>>
InLoader == In("loader", <<gqlVars, lockVars, workersVars>>)
InLock == In("lock", <<gqlVars, loaderVars, workersVars>>)
InWorkers == In("workers", <<gqlVars, loaderVars, lockVars>>)

Next ==
  \/ GraphQLNext /\ In("graphql", <<loaderVars, lockVars, workersVars>>)
  \/ LoaderNext /\ InLoader
  \/ LockNext /\ InLock
  \/ WorkersNext /\ InWorkers

Spec ==
  /\ Init /\ [][Next]_servicesVars
  /\ WF_servicesVars(DispatchStep /\ InLoader)
  /\ \A c \in Contenders : WF_servicesVars(Contend(c) /\ InLock) /\ SF_servicesVars(Lock(c) /\ InLock)
  /\ WF_servicesVars(ShutdownReturns /\ InWorkers)
  /\ \A j \in Jobs : WF_servicesVars(JobStep(j) /\ InWorkers)

-----------------------------------------------------------------------------
\* Nobody waits for ever: who loads, who locks, and who shuts the workers down.
ServicesEnd == LoadEnds /\ CreateAllEnds /\ ShutdownEnds
=============================================================================
