-------------------------------- MODULE MCWeb -------------------------------
(* What stands around a request and does not know each other, one after the  *)
(* other: transactions and queue backends, Inertia visits, the HTTP client,  *)
(* a gateway's messages, routes, guards, and file uploads.                   *)
EXTENDS Transactions, QueueBackends, Inertia, HttpClient, GatewayMessages, Routes,
        Authorization, Upload

CONSTANTS team, stats, bill, user_, list, plan

VARIABLE part

-----------------------------------------------------------------------------
\* Two services of one kind, of which a task uses both.
OneKind == {Sql, Mongo}

\* Every queue has ids of its own.
OneQueue == [i \in JobIds |-> IF i = 2 THEN {"b"} ELSE {"a"}]

\* A property of each kind.
SixProps == [p \in {team, stats, bill, user_, list, plan} |->
   CASE p = team -> "plain" [] p = stats -> "defer" [] p = bill -> "lazy" [] p = user_ -> "always"
     [] p = list -> "merge" [] p = plan -> "once"]

\* Static segments and parameters of one controller, in the order that sorting
\* must mend, with versions of their own or not; a second controller, for any
\* host and on the same path, has a static route that the first one lacks.
SegmentLength == [s \in {"users", "me", "meta", "v1", "v2", "{id}", "{rest:path}"} |->
   CASE s = "users" -> 5 [] s = "me" -> 2 [] s = "meta" -> 4 [] s \in {"v1", "v2"} -> 2 [] s = "{id}" -> 4 [] OTHER -> 11]
Handler(name, path, method, versions) == [name |-> name, path |-> path, method |-> method, versions |-> versions]
Controller(name, host, versions, handlers) ==
  [name |-> name, prefix |-> <<"users">>, host |-> host, versions |-> versions, handlers |-> handlers]
Own == {<<Handler("a", <<Rest>>, "ALL", {}), Handler("b", <<Param>>, "GET", {}),
          Handler("c", <<"me">>, "GET", v1), Handler("d", <<Param, "meta">>, "GET", v2)>> :
          v1, v2 \in {{}, {"v1"}, {"v1", "v2"}, {"neutral"}}}
TwoControllers ==
  {<<Controller("one", h, v, own),
     Controller("two", "", {}, <<Handler("a", <<"me">>, "GET", {"v2"}), Handler("b", <<>>, "GET", {})>>)>> :
     h \in {"", "eu"}, v \in {{}, {"v1"}}, own \in Own}
VersioningOptions == {v \in [type : {"none", "uri", "header"}, default : {"", "v1"}] : v.type = "none" => v.default = ""}
Wishes == {[path |-> p \o q, method |-> m, versions |-> v, host |-> h] : p \in {<<>>, <<"v1">>, <<"v2">>},
   q \in {<<"users">>, <<"users", "me">>, <<"users", "meta">>, <<"users", "me", "meta">>},
   m \in {"GET", "POST"}, v \in {{}, {"v1"}, {"v2"}, {"v1", "v2"}}, h \in {"eu", "us"}}

\* Guards in any order; roles and scopes on the handler, on its controller, on
\* both, or emptied by the handler.
Rule(action, subject, allowed, when) == [action |-> action, subject |-> subject, allowed |-> allowed, when |-> when]
Anything == {"draft", "published"}
AbilityRules == {<<>>, <<Rule("read", "Article", TRUE, Anything)>>,
   <<Rule("read", "Article", FALSE, Anything), Rule("read", All, TRUE, {"draft"})>>}
On_(need) == {[handler |-> Undeclared, controller |-> need], [handler |-> need, controller |-> {}],
              [handler |-> {}, controller |-> need], [handler |-> Undeclared, controller |-> Undeclared]}
Handlers_ == {[publicHandler |-> p[1], publicController |-> p[2], roles |-> r, scopes |-> s, policies |-> pol] :
   p \in {<<FALSE, FALSE>>, <<TRUE, FALSE>>, <<FALSE, TRUE>>}, r \in On_({"admin"}), s \in On_({"a", "b"}),
   pol \in {{}, {<<"read", "Article">>}}}
GuardChains == {<<"jwt", "roles", "scopes", "policies">>, <<"scopes", "passport", "roles">>, <<"roles">>, <<"policies", "jwt">>}
TokenClaims == [roles : {{}, {"admin"}}, scopes : {{"a"}, {"a", "b"}}, trusted : BOOLEAN]

\* Files that are too many, too large, refused, or of one name; interceptors of
\* every kind that store nothing, under names of their own, the client's or one name.
F_(field, size, allowed, name) == [field |-> field, size |-> size, allowed |-> allowed, name |-> name]
Sendings ==
  {<<>>, <<F_("a", 1, TRUE, "n")>>, <<F_("a", 1, TRUE, "n"), F_("a", 1, TRUE, "n")>>,
   <<F_("a", 1, TRUE, "n"), F_("a", 2, TRUE, "m")>>, <<F_("a", 1, TRUE, "m"), F_("b", 1, FALSE, "n")>>,
   <<F_("a", 1, TRUE, "n"), F_("b", 1, TRUE, "n")>>, <<F_("b", 1, TRUE, "n"), F_("b", 1, TRUE, "m")>>}
EveryInterceptor ==
  {[kind |-> k, fields |-> IF k = "fields" THEN <<"a", "b">> ELSE <<"a">>, max |-> m,
    limits |-> [files |-> 2, fields |-> f, size |-> 1], naming |-> n] :
   k \in {"file", "files", "fields", "any"}, m \in {1, 2}, f \in {1, 2}, n \in {"generated", "original", "fixed", "none"}}

-----------------------------------------------------------------------------
webVars == <<part, txVars, backendVars, inertiaVars, httpVars, messageVars, routeVars, authVars, uploadVars>>

Parts == {"transactions", "backends", "inertia", "http", "messages", "routes", "auth", "upload"}

Init ==
  /\ part \in Parts
  /\ TransactionsInit /\ (part = "transactions" \/ used = Sql)
  /\ BackendInit /\ (part = "backends" \/ kind = "memory")
  /\ InertiaInit /\ (part = "inertia" \/ inside)
  /\ HttpInit /\ MessagesInit
  /\ IF part = "routes" THEN RoutesInit
     ELSE /\ app = <<>> /\ versioning = [type |-> "none", default |-> ""]
          /\ routes = <<>> /\ done = 0 /\ wanted = NoWish /\ served = Unserved
  /\ IF part = "auth" THEN AuthInit
     ELSE /\ chain = <<>> /\ handling = (CHOOSE h \in Handlers_ : TRUE) /\ rules = <<>>
          /\ clock = 1 /\ issued = NoToken /\ at = 0 /\ user = NoUser /\ verdict = "none" /\ checkedAt = 0
  /\ UploadInit /\ (part = "upload" \/ interceptor = CHOOSE i \in Interceptors : TRUE)

\* part = p and every other part of Parts as it is.
Only(p) ==
  /\ part = p /\ UNCHANGED part
  /\ p = "transactions" \/ UNCHANGED txVars
  /\ p = "backends" \/ UNCHANGED backendVars
  /\ p = "inertia" \/ UNCHANGED inertiaVars
  /\ p = "http" \/ UNCHANGED httpVars
  /\ p = "messages" \/ UNCHANGED messageVars
  /\ p = "routes" \/ UNCHANGED routeVars
  /\ p = "auth" \/ UNCHANGED authVars
  /\ p = "upload" \/ UNCHANGED uploadVars

Next ==
  \/ part = "transactions" /\ TransactionsNext /\ Only("transactions")
  \/ part = "backends" /\ BackendNext /\ Only("backends")
  \/ part = "inertia" /\ InertiaNext /\ Only("inertia")
  \/ part = "http" /\ HttpNext /\ Only("http")
  \/ part = "messages" /\ MessagesNext /\ Only("messages")
  \/ part = "routes" /\ RoutesNext /\ Only("routes")
  \/ part = "auth" /\ AuthNext /\ Only("auth")
  \/ part = "upload" /\ UploadNext /\ Only("upload")

Spec == Init /\ [][Next]_webVars

-----------------------------------------------------------------------------
\* A request that leaves is sent as often as is safe, and one that comes in is
\* handled only if allowed.
ExchangesSafe == SentSafely /\ AccessGranted

\* A request is served by the right route, and its files are stored as sent.
RequestsServed == RouteServes /\ StoredAsSent
=============================================================================
