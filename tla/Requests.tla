------------------------------- MODULE Requests -----------------------------
(***************************************************************************)
(* The way of an HTTP request through fanest: the session middleware, the   *)
(* endpoint of FastApiAdapter._endpoint with its guards, pipes,             *)
(* interceptors, handler and filters, and the response; with ThrottlerGuard *)
(* among the guards and CacheInterceptor among the interceptors.            *)
(*                                                                         *)
(* Every component may be a coroutine, so a step is one component.  data is *)
(* what handlers read and, on routes with @CacheEvict, write.               *)
(***************************************************************************)
EXTENDS Throttler

CONSTANTS
  Reqs,
  Req,        \* per request: [writes, evicts, key, throttle, session, cookie,
              \* fresh, marks, streams, malformed, versions, host]
  Global, OfController, OfHandler, \* [guards, pipes, interceptors, filters], sequences
  ThrottleGuard, CacheLayer,       \* the one guard and interceptor modelled in detail
  Catches,    \* per filter: the kinds of errors it catches
  Versioning, \* [uri, default]: VersioningOptions; NoVersion without a default
  RouteVersions, NoVersion,        \* the versions of the route, {} when it names none
  HostPattern                      \* segments of @Controller(host=...), <<>> without

VARIABLES
  at,       \* where each request is
  next,     \* the next component of that kind
  scope,    \* the request context that is in force: "none", "own", "left"
  error,    \* the kind of the error that is raised, NoError
  result,   \* the version of data it answers with, NoResult
  session,  \* [before, now]: scope["session"] as loaded, and as it is now
  passed,   \* history: guards that let it pass
  data,     \* version of the data
  left,     \* history: what the last request of each session left in it
  overlaps  \* history: sessions two requests used at once

requestVars == <<at, next, scope, error, result, session, passed, data, left, overlaps>>
vars == <<requestVars, throttleVars, entries, sessionVars, clock>>

NoError == "no_error"
NoResult == -1

\* _collect: filters from the inside out, everything else from the outside in.
\* Variant: a handler's own list hides those around it.
CollectedInner(kind) == IF OfHandler[kind] # <<>> THEN OfHandler[kind] ELSE OfController[kind]
Collected(kind) ==
  IF kind = "filters" THEN OfHandler[kind] \o OfController[kind] \o Global[kind]
  ELSE Global[kind] \o OfController[kind] \o OfHandler[kind]

\* Guards, and then pipes.
Checks == Collected("guards") \o Collected("pipes")
Interceptors == Collected("interceptors")
Filters == Collected("filters")

\* _load_session: an unsigned, malformed or missing cookie means a new id.
SessionOf(r) == IF Req[r].cookie = "signed" THEN Req[r].session ELSE Req[r].fresh
HadCookie(r) == Req[r].cookie # "none"

\* Components are told apart by their names; an id that _load_session makes is
\* nobody else's.
ASSUME RequestsAssumption ==
  /\ MaxClock \in Nat
  /\ \A layer \in {Global, OfController, OfHandler} :
       \A kind \in {"guards", "pipes", "interceptors", "filters"} : layer[kind] \in Seq(STRING)
  /\ \A k \in Throttled : Skips(k) \/ (Limit(k) \in Int /\ Ttl(k) \in Int)
  /\ MaxAge \in Int
  /\ \A r \in Reqs :
       /\ Req[r].throttle \in Throttled /\ Req[r].key \in CacheKeys
       /\ CacheTtl[Req[r].key.base] \in Int \cup {Forever}
       /\ SessionOf(r) \in SessionIds
       /\ Req[r].cookie # "signed" => \A q \in Reqs \ {r} : SessionOf(q) # SessionOf(r)

Init ==
  /\ clock = 0 /\ ThrottlerInit /\ CacheInit /\ SessionInit
  /\ at = [r \in Reqs |-> "idle"] /\ next = [r \in Reqs |-> 1]
  /\ scope = [r \in Reqs |-> "none"]
  /\ error = [r \in Reqs |-> NoError] /\ result = [r \in Reqs |-> NoResult]
  /\ session = [r \in Reqs |-> [before |-> {}, now |-> {}]]
  /\ passed = [r \in Reqs |-> {}]
  /\ data = 0 /\ left = [s \in SessionIds |-> {}] /\ overlaps = {}

-----------------------------------------------------------------------------
Goes(r, place) == at' = [at EXCEPT ![r] = place] /\ next' = [next EXCEPT ![r] = 1]
GoesOn(r) == next' = [next EXCEPT ![r] = @ + 1] /\ UNCHANGED at

\* An error leaves everything up to the filters.
Raise(r, kind) ==
  /\ error' = [error EXCEPT ![r] = kind]
  /\ Goes(r, "filters")

\* handle_validation_error: a request that does not validate gets a scope of its
\* own for the filters.
Invalid(r) ==
  /\ Req[r].malformed
  /\ scope' = [scope EXCEPT ![r] = "own"]
  /\ Raise(r, "validation")

\* FaNestSessionMiddleware.__call__: the session is loaded.
Arrive(r) ==
  /\ at[r] = "idle"
  /\ LET s == SessionOf(r)
     IN /\ LoadSession(s)
        /\ session' = [session EXCEPT ![r] = [before |-> LoadedSession(s), now |-> LoadedSession(s)]]
        /\ left' = IF SessionExpired(s) THEN [left EXCEPT ![s] = {}] ELSE left
        /\ overlaps' = IF \E q \in Reqs \ {r} : SessionOf(q) = s /\ at[q] \notin {"idle", "stream", "ended"}
                       THEN overlaps \cup {s} ELSE overlaps
  /\ \/ Invalid(r)
     \/ Goes(r, "resolve") /\ UNCHANGED <<error, scope>>
  /\ UNCHANGED <<result, passed, data, throttleVars, entries, clock>>

\* The scope begins, and the controller is resolved in it.  That happens before
\* the try: an error is not filtered, and the scope is left to the task.
Resolve(r) ==
  /\ at[r] = "resolve"
  /\ scope' = [scope EXCEPT ![r] = "own"]
  /\ \/ Goes(r, "match") /\ UNCHANGED error
     \/ Goes(r, "respond") /\ error' = [error EXCEPT ![r] = "app"]
  /\ UNCHANGED <<result, session, passed, data, left, overlaps, throttleVars, entries, sessionVars, clock>>

\* _ensure_request_version: URI versions are part of the path; a route without
\* versions has the default one.
VersionMatches(version) ==
  LET route == IF RouteVersions = {} /\ Versioning.default # NoVersion
               THEN {Versioning.default} ELSE RouteVersions
  IN Versioning.uri \/ route = {} \/ version \cap route # {}

\* _host_matches: a segment ":name" or "{name}" is any one.
HostMatches(r) ==
  HostPattern = <<>> \/
    /\ Len(HostPattern) = Len(Req[r].host)
    /\ \A i \in DOMAIN HostPattern : HostPattern[i] \in {":any", Req[r].host[i]}

Match(r) ==
  /\ at[r] = "match"
  /\ \E version \in Req[r].versions :
       IF VersionMatches(version) /\ HostMatches(r) THEN Goes(r, "checks") /\ UNCHANGED error
       ELSE Raise(r, "http")
  /\ UNCHANGED <<scope, result, session, passed, data, left, overlaps, throttleVars, entries,
                 sessionVars, clock>>

Passes(r, c) == GoesOn(r) /\ passed' = [passed EXCEPT ![r] = @ \cup {c}] /\ UNCHANGED error
Rejects(r) == \E kind \in {"http", "app"} : Raise(r, kind) /\ UNCHANGED passed

\* _run_guards and _run_pipes: the next one passes or raises.
Check(r) ==
  /\ at[r] = "checks" /\ next[r] <= Len(Checks)
  /\ LET c == Checks[next[r]]
         k == Req[r].throttle
     IN IF c # ThrottleGuard
        THEN (Passes(r, c) \/ Rejects(r)) /\ UNCHANGED throttleVars
        ELSE \/ Hit(k) /\ Passes(r, c)
             \/ Refuse(k) /\ Raise(r, "http") /\ UNCHANGED passed
             \/ CountHits(k, r) /\ UNCHANGED <<at, next, error, passed>>
             \/ AddHit(k, r) /\ Passes(r, c)
  /\ UNCHANGED <<scope, result, session, data, left, overlaps, entries, sessionVars, clock>>

\* The parameters are bound between the guards and the pipes: what a custom one
\* raises goes to the filters.
BindFails(r) ==
  /\ at[r] = "checks" /\ next[r] = Len(Collected("guards")) + 1
  /\ Raise(r, "app")
  /\ UNCHANGED <<scope, result, session, passed, data, left, overlaps, throttleVars, entries,
                 sessionVars, clock>>

Checked(r) ==
  /\ at[r] = "checks" /\ next[r] > Len(Checks)
  /\ Goes(r, "enter")
  /\ UNCHANGED <<scope, error, result, session, passed, data, left, overlaps, throttleVars,
                 entries, sessionVars, clock>>

-----------------------------------------------------------------------------
(* Interceptors and handler *)

\* CacheInterceptor.intercept() up to call_next(): a route that evicts does so
\* now, a GET looks its key up.
CacheHit(r) == ~Req[r].writes /\ Alive(Req[r].key)

LookUp(r) ==
  entries' = IF Req[r].evicts THEN Evicted(Req[r].key.base)
             ELSE IF Req[r].writes THEN entries ELSE Looked(Req[r].key)

\* dispatch(): the next interceptor runs up to its call_next(), or answers
\* itself, or raises.
Enter(r) ==
  /\ at[r] = "enter" /\ next[r] <= Len(Interceptors)
  /\ IF Interceptors[next[r]] = CacheLayer
     THEN /\ LookUp(r)
          /\ IF CacheHit(r)
             THEN /\ result' = [result EXCEPT ![r] = entries[Req[r].key].value]
                  /\ at' = [at EXCEPT ![r] = "leave"]
                  /\ next' = [next EXCEPT ![r] = @ - 1]
             ELSE GoesOn(r) /\ UNCHANGED result
          /\ UNCHANGED error
     ELSE /\ (GoesOn(r) /\ UNCHANGED error) \/ Raise(r, "app")
          /\ UNCHANGED <<entries, result>>
  /\ UNCHANGED <<scope, session, passed, data, left, overlaps, throttleVars, sessionVars, clock>>

\* What the handler does: it reads or writes the data, may change or empty its
\* session, and returns or raises.
Handle(r) ==
  /\ at[r] = "enter" /\ next[r] > Len(Interceptors)
  /\ data' = IF Req[r].writes THEN data + 1 ELSE data
  /\ \E now \in {session[r].now} \cup Req[r].marks :
       session' = [session EXCEPT ![r].now = now]
  /\ \/ /\ result' = [result EXCEPT ![r] = data']
        /\ at' = [at EXCEPT ![r] = "leave"]
        /\ next' = [next EXCEPT ![r] = Len(Interceptors)]
        /\ UNCHANGED error
     \/ Raise(r, "app") /\ UNCHANGED result
  /\ UNCHANGED <<scope, passed, left, overlaps, throttleVars, entries, sessionVars, clock>>

\* A request that evicted and has not written yet.
Evicting(base) ==
  \E q \in Reqs : /\ Req[q].evicts /\ Req[q].key.base = base
                  /\ at[q] = "enter"

\* The innermost interceptor that was entered goes on after call_next(): the
\* cache stores the answer to a GET, another may raise.
Leave(r) ==
  /\ at[r] = "leave" /\ next[r] > 0
  /\ \/ /\ next' = [next EXCEPT ![r] = @ - 1] /\ UNCHANGED <<at, error, result>>
        /\ entries' = IF Interceptors[next[r]] = CacheLayer /\ ~Req[r].writes /\ ~Req[r].evicts
                      THEN Filled(Req[r].key, result[r], result[r] # data \/ Evicting(Req[r].key.base))
                      ELSE entries
     \/ /\ Interceptors[next[r]] # CacheLayer /\ Raise(r, "app")
        /\ result' = [result EXCEPT ![r] = NoResult] /\ UNCHANGED entries
  /\ UNCHANGED <<scope, session, passed, data, left, overlaps, throttleVars, sessionVars, clock>>

\* The endpoint returns, and its scope ends.  A streaming response keeps the
\* instances for its body.
Return(r) ==
  /\ at[r] = "leave" /\ next[r] = 0
  /\ Goes(r, "respond")
  /\ scope' = [scope EXCEPT ![r] = "left"]
  /\ UNCHANGED <<error, result, session, passed, data, left, overlaps, throttleVars, entries,
                 sessionVars, clock>>

-----------------------------------------------------------------------------
(* Filters and response *)

\* _run_filters: the first filter that catches the error answers it, declines
\* with None, or raises; without one the error is raised again.
Filter(r) ==
  /\ at[r] = "filters"
  /\ IF next[r] > Len(Filters)
     THEN Goes(r, "respond") /\ scope' = [scope EXCEPT ![r] = "left"] /\ UNCHANGED error
     ELSE IF error[r] \notin Catches[Filters[next[r]]]
     THEN GoesOn(r) /\ UNCHANGED <<error, scope>>
     ELSE /\ Goes(r, "respond")
          /\ scope' = [scope EXCEPT ![r] = "left"]
          /\ \E after \in {NoError, error[r], "app"} : error' = [error EXCEPT ![r] = after]
  /\ UNCHANGED <<result, session, passed, data, left, overlaps, throttleVars, entries,
                 sessionVars, clock>>

\* _scope_bound_streaming_response: the body runs with the instances of the
\* request bound again.
StreamScope(r) == "own"

\* send_with_cookie: the response starts, and with it the session is saved.  An
\* error that FastAPI has no handler for is answered outside the middleware.
Respond(r) ==
  /\ at[r] = "respond"
  /\ IF error[r] = "app" THEN UNCHANGED <<sessionVars, left>>
     ELSE /\ SaveSession(SessionOf(r), session[r].before, session[r].now, HadCookie(r))
          /\ left' = [left EXCEPT ![SessionOf(r)] = session[r].now]
  /\ Goes(r, IF Req[r].streams /\ error[r] = NoError /\ result[r] # NoResult THEN "stream" ELSE "ended")
  /\ scope' = IF at'[r] = "stream" THEN [scope EXCEPT ![r] = StreamScope(r)] ELSE scope
  /\ UNCHANGED <<error, result, session, passed, data, overlaps, throttleVars, entries, clock>>

EndStream(r) ==
  /\ at[r] = "stream"
  /\ Goes(r, "ended")
  /\ scope' = [scope EXCEPT ![r] = "left"]
  /\ UNCHANGED <<error, result, session, passed, data, left, overlaps, throttleVars, entries,
                 sessionVars, clock>>

Tick ==
  /\ ClockTicks
  /\ UNCHANGED <<requestVars, throttleVars, entries, sessionVars>>

Step(r) ==
  \/ Arrive(r) \/ Resolve(r) \/ Match(r) \/ Check(r) \/ BindFails(r) \/ Checked(r) \/ Enter(r)
  \/ Handle(r) \/ Leave(r) \/ Return(r) \/ Filter(r) \/ Respond(r) \/ EndStream(r)

Next == Tick \/ \E r \in Reqs : Step(r)

Spec == Init /\ [][Next]_vars

-----------------------------------------------------------------------------
(* Properties *)

\* What the cache serves is what the handler would answer now, unless the data
\* changed, or an evicting request was under way, while it was computed
\* (CacheInterceptor.intercept, delete_prefix).
FreshUnlessRaced ==
  \A k \in CacheKeys : Alive(k) /\ ~entries[k].raced => entries[k].value = data

\* A session that requests use one after the other holds what the last of them
\* left in it, until it expires (FaNestSessionMiddleware, _cookie).
SequentialSession ==
  \A s \in SessionIds \ overlaps : SessionExpired(s) \/ stored[s] = left[s]

\* A handler runs only when every guard and pipe around it, the global ones, its
\* controller's and its own, let the request pass (_collect, _run_guards).
Guarded ==
  \A r \in Reqs : at[r] \in {"enter", "stream"} \/ result[r] # NoResult =>
    \A kind \in {"guards", "pipes"} :
      \A i \in 1 .. 3 : LET layer == <<Global, OfController, OfHandler>>[i][kind]
                        IN \A j \in DOMAIN layer : layer[j] \in passed[r]

\* Whatever runs for a request, the body of its stream included, runs in the
\* scope of that request, and the scope has ended when the request has, except
\* when its controller could not be resolved (adapter.py:553, 557).
ScopeHeld ==
  \A r \in Reqs :
    /\ at[r] \in {"match", "checks", "enter", "leave", "filters", "stream"} => scope[r] = "own"
    /\ at[r] = "ended" /\ scope[r] = "own" => error[r] = "app" /\ passed[r] = {} /\ result[r] = NoResult

\* No handler without its guards, and no route without its request's scope.
PipelineKept == Guarded /\ ScopeHeld
=============================================================================
