------------------------------- MODULE Routes -------------------------------
(***************************************************************************)
(* platform_fastapi: the routes FastApiAdapter registers for controllers,  *)
(* and which of them serves a request.  A path is a sequence of segments,  *)
(* of which Param stands for "{name}" and Rest for "{name:path}".          *)
(***************************************************************************)
EXTENDS Naturals, Sequences, FiniteSets, SequencesExt

CONSTANTS
  Param, Rest,
  Length,       \* of each segment, in characters
  RoutedApps,   \* sequences of controllers
  Versionings,  \* options: [type, default], type "none" without any
  Wanted        \* requests: [path, method, versions, host]

\* A segment of a request, or a version of a route, is no parameter; a controller
\* is registered once, its handlers have names of their own, and a neutral one has
\* no other version.
Plain == DOMAIN Length \ {Param, Rest}
ASSUME RoutesAssumption ==
  /\ \A segment \in DOMAIN Length : Length[segment] \in Nat
  /\ \A request \in Wanted : request.path \in Seq(Plain)
  /\ \A option \in Versionings : option.default \in Plain \cup {""}
  /\ \A controllers \in RoutedApps :
       /\ controllers \in Seq(ToSet(controllers))
       /\ \A i, j \in DOMAIN controllers : controllers[i].name = controllers[j].name => i = j
       /\ \A c \in ToSet(controllers) :
            /\ c.prefix \in Seq(DOMAIN Length) /\ c.handlers \in Seq(ToSet(c.handlers))
            /\ \A i, j \in DOMAIN c.handlers : c.handlers[i] = c.handlers[j] => i = j
            /\ \A of \in {c} \cup ToSet(c.handlers) :
                 IsFiniteSet(of.versions) /\ (of.versions = {"neutral"} \/ of.versions \subseteq Plain \ {"neutral"})
            /\ \A h \in ToSet(c.handlers) : h.path \in Seq(DOMAIN Length)

VARIABLES
  app,         \* the controllers of the application
  versioning,
  routes,      \* add_api_route() calls so far
  done,        \* controllers done
  wanted, served \* a request, and what served it

routeVars == <<app, versioning, routes, done, wanted, served>>

NoWish == [path |-> <<>>, method |-> "none", versions |-> {}, host |-> "none"]
Unserved == [status |-> 0, route |-> <<>>]

RoutesInit ==
  /\ app \in RoutedApps /\ versioning \in Versionings
  /\ routes = <<>> /\ done = 0 /\ wanted = NoWish /\ served = Unserved

-----------------------------------------------------------------------------
(* Registration *)

Dynamic(path) == {i \in DOMAIN path : path[i] \in {Param, Rest}}
TextLength(path) ==
  LET upTo[n \in 0 .. Len(path)] == IF n = 0 THEN 0 ELSE upTo[n - 1] + 1 + Length[path[n]]
  IN upTo[Len(path)]

\* _route_sort_key.  Variant: the longest first.
LongestFirst(a, b) == TextLength(a.path) > TextLength(b.path)
Before(a, b) ==
  \/ Cardinality(Dynamic(a.path)) < Cardinality(Dynamic(b.path))
  \/ /\ Cardinality(Dynamic(a.path)) = Cardinality(Dynamic(b.path))
     /\ TextLength(a.path) > TextLength(b.path)

\* sorted(): stable, on the order of the handlers' names.
Sorted(handlers) ==
  CHOOSE s \in SetToSeqs(ToSet(handlers)) :
    \A i, j \in DOMAIN s : i < j =>
      \/ Before(s[i], s[j])
      \/ ~Before(s[j], s[i]) /\ \E k, l \in DOMAIN handlers : k < l /\ handlers[k] = s[i] /\ handlers[l] = s[j]

ByUri == versioning.type \in {"none", "uri"}
Declared(controller, handler) == IF handler.versions # {} THEN handler.versions ELSE controller.versions

\* _route_versions and _versioned_path: one path for each version in the path.
PathsOf(controller, handler) ==
  LET declared == Declared(controller, handler)
      versions == IF declared = {} THEN IF versioning.default = "" THEN {"neutral"} ELSE {versioning.default}
                  ELSE declared
      full == controller.prefix \o handler.path
  IN IF ~ByUri \/ (versioning.type = "none" /\ declared = {}) THEN {full}
     ELSE {IF v = "neutral" THEN full ELSE <<v>> \o full : v \in versions}

RouteOf(controller, handler, path) ==
  [path |-> path, method |-> handler.method, controller |-> controller.name, own |-> handler.path,
   versions |-> Declared(controller, handler), host |-> controller.host]

RoutesOf(controller) ==
  FlattenSeq([i \in DOMAIN controller.handlers |->
    LET h == Sorted(controller.handlers)[i]
    IN SetToSeq({RouteOf(controller, h, p) : p \in PathsOf(controller, h)})])

\* _ensure_supported_versioned_route
Unsupported(new) ==
  ~ByUri /\ \E i \in DOMAIN new : new[i].versions # {} /\
    \E other \in ToSet(routes) \cup {new[j] : j \in 1..i-1} :
      other.versions # {} /\ other.path = new[i].path /\ other.method = new[i].method

\* register_controllers(); RuntimeError refuses the application.
Register ==
  /\ done < Len(app)
  /\ LET new == RoutesOf(app[done + 1])
     IN IF Unsupported(new)
        THEN served' = [status |-> 500, route |-> <<>>] /\ done' = Len(app) /\ UNCHANGED routes
        ELSE routes' = routes \o new /\ done' = done + 1 /\ UNCHANGED served
  /\ UNCHANGED <<app, versioning, wanted>>

-----------------------------------------------------------------------------
(* Requests *)

\* A route's path matches (external: Starlette's routing takes the first).
Matches(pattern, path) ==
  \/ /\ Len(pattern) = Len(path) /\ \A i \in DOMAIN path : pattern[i] \in {Param, path[i]}
  \/ /\ pattern # <<>> /\ Last(pattern) = Rest /\ Len(path) >= Len(pattern)
     /\ \A i \in 1..Len(pattern)-1 : pattern[i] \in {Param, path[i]}

First(request) ==
  SelectInSeq(routes, LAMBDA r : Matches(r.path, request.path) /\ r.method \in {"ALL", request.method})

\* _ensure_request_version
VersionServed(route, request) ==
  \/ ByUri
  \/ LET versions == IF route.versions = {} THEN {versioning.default} \ {""} ELSE route.versions
     IN versions = {} \/ "neutral" \in versions \/ versions \cap request.versions # {}

\* _ensure_host_matches; a controller without a host serves every one.
HostServed(route, request) == route.host \in {"", request.host}

Dispatch ==
  /\ done = Len(app) /\ served = Unserved
  /\ wanted' \in Wanted
  /\ LET i == First(wanted')
     IN served' = IF i = 0 THEN [status |-> 404, route |-> <<>>]
                  ELSE IF VersionServed(routes[i], wanted') /\ HostServed(routes[i], wanted')
                  THEN [status |-> 200, route |-> <<routes[i]>>]
                  ELSE [status |-> 404, route |-> <<>>]
  /\ UNCHANGED <<app, versioning, routes, done>>

Forget == wanted # NoWish /\ wanted' = NoWish /\ served' = Unserved /\ UNCHANGED <<app, versioning, routes, done>>

RoutesNext == Register \/ Dispatch \/ Forget

-----------------------------------------------------------------------------
\* A request for a static path of a controller is never taken by a route of
\* that controller with a parameter, whatever the order of the handlers and
\* their versions (adapter.py:219); and no handler serves a version it does not
\* declare, or a host it is not for.
RouteServes ==
  served.route # <<>> =>
    LET route == served.route[1]
    IN /\ \A r \in ToSet(routes) :
            /\ r.controller = route.controller /\ r.path = wanted.path
            /\ r.method \in {"ALL", wanted.method}
            => Dynamic(route.path) = {}
       /\ ~ByUri /\ route.versions \notin {{}, {"neutral"}} => wanted.versions \cap route.versions # {}
       /\ route.host \in {"", wanted.host}
=============================================================================
