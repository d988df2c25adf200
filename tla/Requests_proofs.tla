----------------------------- MODULE Requests_proofs ------------------------
(***************************************************************************)
(* Requests, for any number of them, any layers of components and any       *)
(* keys, sessions and throttled routes.  The invariants of the pipeline,    *)
(* the sessions, the cache and the throttler are inductive each on its own, *)
(* given the types that all of them need.                                  *)
(***************************************************************************)
EXTENDS Requests, FiniteSetTheorems, TLAPS

-----------------------------------------------------------------------------
(* Types *)

Kinds == {"guards", "pipes", "interceptors", "filters"}
Places == {"idle", "resolve", "match", "checks", "enter", "leave", "filters", "respond", "stream", "ended"}
Errors == {NoError, "validation", "http", "app"}
Sessions == {{}} \cup UNION {Req[r].marks : r \in Reqs}
Hits == [no: Nat, at: Int]
CountedHits == [key: Throttled, by: Reqs, at: Int]

RequestTyped ==
  /\ at \in [Reqs -> Places] /\ next \in [Reqs -> Int] /\ scope \in [Reqs -> {"none", "own", "left"}]
  /\ error \in [Reqs -> Errors] /\ result \in [Reqs -> Int] /\ passed = [r \in Reqs |-> passed[r]]

SharedTyped ==
  /\ clock \in Nat /\ data \in Int
  /\ session \in [Reqs -> [before: Sessions, now: Sessions]]
  /\ stored \in [SessionIds -> Sessions] /\ expiry \in [SessionIds -> Int]
  /\ left \in [SessionIds -> Sessions] /\ overlaps \subseteq SessionIds
  /\ entries \in [CacheKeys -> [value: Int, expires: Int \cup {Forever}, raced: BOOLEAN]]

ThrottleTyped ==
  /\ hits \in [Throttled -> SUBSET Hits] /\ admitted \in [Throttled -> SUBSET Hits]
  /\ \A k \in Throttled : IsFiniteSet(admitted[k])
  /\ counted \subseteq CountedHits

RequestsTyped == RequestTyped /\ SharedTyped /\ ThrottleTyped

LEMMA LayersAreSequences ==
  \A kind \in Kinds : /\ Global[kind] \in Seq(STRING) /\ OfController[kind] \in Seq(STRING)
                      /\ OfHandler[kind] \in Seq(STRING) /\ Collected(kind) \in Seq(STRING)
<1>. SUFFICES ASSUME NEW kind \in Kinds
     PROVE  /\ Global[kind] \in Seq(STRING) /\ OfController[kind] \in Seq(STRING)
            /\ OfHandler[kind] \in Seq(STRING) /\ Collected(kind) \in Seq(STRING)
  OBVIOUS
<1>1. Global[kind] \in Seq(STRING) /\ OfController[kind] \in Seq(STRING) /\ OfHandler[kind] \in Seq(STRING)
  BY RequestsAssumption DEF Kinds
<1>2. Collected(kind) \in Seq(STRING)
  <2>1. CASE kind = "filters" BY <1>1, <2>1 DEF Collected
  <2>2. CASE kind # "filters" BY <1>1, <2>2 DEF Collected
  <2>3. QED BY <2>1, <2>2
<1>3. QED BY <1>1, <1>2

LEMMA ChecksAreSequences == Checks \in Seq(STRING) /\ Interceptors \in Seq(STRING) /\ Filters \in Seq(STRING)
BY LayersAreSequences DEF Kinds, Checks, Interceptors, Filters

LEMMA SessionsTyped ==
  ASSUME NEW s \in SessionIds, SharedTyped
  PROVE  LoadedSession(s) \in Sessions
BY DEF LoadedSession, Sessions, SharedTyped

LEMMA SaveTyped ==
  ASSUME NEW s \in SessionIds, SharedTyped, NEW before \in Sessions, NEW now \in Sessions, NEW had \in BOOLEAN,
         SaveSession(s, before, now, had)
  PROVE  stored' \in [SessionIds -> Sessions] /\ expiry' \in [SessionIds -> Int]
<1>1. {} \in Sessions BY DEF Sessions
<1>2. DeletedSession(s) => stored' \in [SessionIds -> Sessions] /\ expiry' \in [SessionIds -> Int]
  BY <1>1 DEF DeletedSession, SharedTyped, Never
<1>3. SavedSession(s, now) => stored' \in [SessionIds -> Sessions] /\ expiry' \in [SessionIds -> Int]
  <2>1. MaxAge \in Int /\ clock \in Int /\ Never \in Int BY RequestsAssumption DEF SharedTyped, Never
  <2>2. (IF MaxAge = Never THEN Never ELSE clock + MaxAge) \in Int BY <2>1
  <2>3. QED BY <1>2, <2>2 DEF SavedSession, SharedTyped
<1>4. UNCHANGED sessionVars => stored' \in [SessionIds -> Sessions] /\ expiry' \in [SessionIds -> Int]
  BY DEF sessionVars, SharedTyped
<1>5. QED BY <1>2, <1>3, <1>4 DEF SaveSession

\* Where a request is and what it carries.
LEMMA RequestTypedStep == ASSUME RequestsTyped, [Next]_vars PROVE RequestTyped'
<1>. USE DEF RequestsTyped, RequestTyped, Places, Errors, NoError, NoResult
<1>1. ASSUME NEW r \in Reqs, NEW place \in Places, Goes(r, place)
      PROVE  at' \in [Reqs -> Places] /\ next' \in [Reqs -> Int]
  BY <1>1 DEF Goes
<1>2. ASSUME NEW r \in Reqs, GoesOn(r) PROVE at' \in [Reqs -> Places] /\ next' \in [Reqs -> Int]
  BY <1>2 DEF GoesOn
<1>3. ASSUME NEW r \in Reqs, NEW kind \in Errors, Raise(r, kind)
      PROVE  at' \in [Reqs -> Places] /\ next' \in [Reqs -> Int] /\ error' \in [Reqs -> Errors]
  BY <1>1, <1>3 DEF Raise
<1>4. ASSUME NEW r \in Reqs, Arrive(r) PROVE RequestTyped'
  <2>1. CASE Invalid(r) BY <1>3, <1>4, <2>1 DEF Arrive, Invalid
  <2>2. CASE Goes(r, "resolve") /\ UNCHANGED <<error, scope>> BY <1>1, <1>4, <2>2 DEF Arrive
  <2>3. QED BY <1>4, <2>1, <2>2 DEF Arrive
<1>5. ASSUME NEW r \in Reqs, Resolve(r) PROVE RequestTyped' BY <1>1, <1>5 DEF Resolve
<1>6. ASSUME NEW r \in Reqs, Match(r) PROVE RequestTyped' BY <1>1, <1>3, <1>6 DEF Match
<1>7. ASSUME NEW r \in Reqs, Check(r) PROVE RequestTyped'
  <2>2. CASE Passes(r, Checks[next[r]]) BY <1>2, <1>7, <2>2 DEF Passes, Check
  <2>3. CASE Rejects(r) BY <1>3, <1>7, <2>3 DEF Rejects, Check
  <2>4. CASE Raise(r, "http") /\ UNCHANGED passed BY <1>3, <1>7, <2>4 DEF Check
  <2>5. CASE UNCHANGED <<at, next, error, passed>> BY <1>7, <2>5 DEF Check
  <2>6. QED BY <1>7, <2>2, <2>3, <2>4, <2>5 DEF Check
<1>8. ASSUME NEW r \in Reqs, BindFails(r) \/ Checked(r) \/ Return(r) \/ EndStream(r) PROVE RequestTyped'
  BY <1>1, <1>3, <1>8 DEF BindFails, Checked, Return, EndStream
<1>9. ASSUME NEW r \in Reqs, Enter(r) PROVE RequestTyped'
  <2>1. entries[Req[r].key].value \in Int BY RequestsAssumption DEF SharedTyped
  <2>2. CASE GoesOn(r) /\ UNCHANGED <<error, result>> BY <1>2, <1>9, <2>2 DEF Enter
  <2>3. CASE Raise(r, "app") /\ UNCHANGED result
    <3>1. at' \in [Reqs -> Places] /\ next' \in [Reqs -> Int] /\ error' \in [Reqs -> Errors]
      BY <1>3, <2>3
    <3>2. at' = [at EXCEPT ![r] = "filters"] BY <2>3 DEF Raise, Goes
    <3>3. QED BY <1>9, <2>3, <3>1, <3>2 DEF Enter
  <2>4. CASE /\ result' = [result EXCEPT ![r] = entries[Req[r].key].value]
             /\ at' = [at EXCEPT ![r] = "leave"] /\ next' = [next EXCEPT ![r] = @ - 1] /\ UNCHANGED error
    BY <1>9, <2>1, <2>4 DEF Enter
  <2>5. QED BY <1>9, <2>2, <2>3, <2>4 DEF Enter
<1>10. ASSUME NEW r \in Reqs, Handle(r) PROVE RequestTyped'
  <2>1. data' \in Int BY <1>10 DEF Handle, SharedTyped
  <2>2. UNCHANGED <<scope, passed>> BY <1>10 DEF Handle
  <2>3. CASE Raise(r, "app") /\ UNCHANGED result BY <1>3, <2>2, <2>3
  <2>4. CASE /\ result' = [result EXCEPT ![r] = data'] /\ at' = [at EXCEPT ![r] = "leave"]
             /\ next' = [next EXCEPT ![r] = Len(Interceptors)] /\ UNCHANGED error
    <3>1. Len(Interceptors) \in Int BY ChecksAreSequences
    <3>2. QED BY <2>1, <2>2, <2>4, <3>1
  <2>5. QED BY <1>10, <2>3, <2>4 DEF Handle
<1>11. ASSUME NEW r \in Reqs, Leave(r) PROVE RequestTyped'
  <2>1. UNCHANGED <<scope, passed>> BY <1>11 DEF Leave
  <2>2. CASE next' = [next EXCEPT ![r] = @ - 1] /\ UNCHANGED <<at, error, result>> BY <2>1, <2>2
  <2>3. CASE Raise(r, "app") /\ result' = [result EXCEPT ![r] = NoResult]
    <3>1. result' \in [Reqs -> Int] BY <2>3 DEF NoResult
    <3>2. at' \in [Reqs -> Places] /\ next' \in [Reqs -> Int] /\ error' \in [Reqs -> Errors]
      BY <1>3, <2>3
    <3>3. QED BY <2>1, <3>1, <3>2
  <2>4. QED BY <1>11, <2>2, <2>3 DEF Leave
<1>12. ASSUME NEW r \in Reqs, Filter(r) PROVE RequestTyped'
  <2>1. at' \in [Reqs -> Places] /\ next' \in [Reqs -> Int]
    <3>1. Goes(r, "respond") \/ GoesOn(r) BY <1>12 DEF Filter
    <3>2. QED BY <1>1, <1>2, <3>1
  <2>2. error' = error \/ \E after \in {NoError, error[r], "app"} : error' = [error EXCEPT ![r] = after]
    BY <1>12 DEF Filter
  <2>3. scope' = scope \/ scope' = [scope EXCEPT ![r] = "left"] BY <1>12 DEF Filter
  <2>4. UNCHANGED <<result, passed>> BY <1>12 DEF Filter
  <2>5. QED BY <2>1, <2>2, <2>3, <2>4
<1>13. ASSUME NEW r \in Reqs, Respond(r) PROVE RequestTyped'
  <2>1. at' \in [Reqs -> Places] /\ next' \in [Reqs -> Int] BY <1>1, <1>13 DEF Respond
  <2>2. QED BY <1>13, <2>1 DEF Respond, StreamScope
<1>14. CASE Tick \/ UNCHANGED vars BY <1>14 DEF Tick, vars, requestVars
<1>15. QED BY <1>4, <1>5, <1>6, <1>7, <1>8, <1>9, <1>10, <1>11, <1>12, <1>13, <1>14 DEF Next, Step
\* The steps that leave the stores alone, and those that leave the throttler alone.
Quiet(r) == Resolve(r) \/ Match(r) \/ Check(r) \/ BindFails(r) \/ Checked(r) \/ Return(r) \/ Filter(r) \/ EndStream(r)

LEMMA QuietKeeps ==
  ASSUME NEW r, Quiet(r)
  PROVE  UNCHANGED <<clock, data, session, stored, expiry, left, overlaps, entries>>
BY DEF Quiet, Resolve, Match, Check, BindFails, Checked, Return, Filter, EndStream, sessionVars

LEMMA OthersUnthrottled ==
  ASSUME NEW r, Step(r)
  PROVE  Check(r) \/ UNCHANGED throttleVars
BY DEF Step, Arrive, Resolve, Match, BindFails, Checked, Enter, Handle, Leave, Return, Filter, Respond, EndStream

LEMMA RespondTyped ==
  ASSUME SharedTyped, NEW r \in Reqs, Respond(r)
  PROVE  stored' \in [SessionIds -> Sessions] /\ expiry' \in [SessionIds -> Int]
<1>1. CASE error[r] = "app" BY <1>1 DEF Respond, sessionVars, SharedTyped
<1>2. CASE error[r] # "app"
  <2>1. SaveSession(SessionOf(r), session[r].before, session[r].now, HadCookie(r)) BY <1>2 DEF Respond
  <2>2. session[r].before \in Sessions /\ session[r].now \in Sessions BY DEF SharedTyped
  <2>3. SessionOf(r) \in SessionIds /\ HadCookie(r) \in BOOLEAN BY RequestsAssumption DEF HadCookie
  <2>4. QED BY <2>1, <2>2, <2>3, SaveTyped
<1>3. QED BY <1>1, <1>2

\* The stores, the data and the sessions.
LEMMA SharedTypedStep == ASSUME RequestsTyped, [Next]_vars PROVE SharedTyped'
<1>. USE DEF RequestsTyped, RequestTyped, SharedTyped
<1>a. {} \in Sessions BY DEF Sessions
<1>b. Missing \in [value: Int, expires: Int \cup {Forever}, raced: BOOLEAN] BY DEF Missing
<1>1. ASSUME NEW r \in Reqs, Arrive(r) PROVE SharedTyped'
  <2>. DEFINE s == SessionOf(r)
  <2>1. s \in SessionIds BY RequestsAssumption
  <2>2. LoadedSession(s) \in Sessions BY <2>1, SessionsTyped
  <2>. HIDE DEF s
  <2>3. stored' = [stored EXCEPT ![s] = LoadedSession(s)] BY <1>1 DEF Arrive, LoadSession, s
  <2>4. expiry' = expiry \/ expiry' = [expiry EXCEPT ![s] = Never] BY <1>1 DEF Arrive, LoadSession, s
  <2>5. session' = [session EXCEPT ![r] = [before |-> LoadedSession(s), now |-> LoadedSession(s)]]
    BY <1>1 DEF Arrive, s
  <2>6. left' = left \/ left' = [left EXCEPT ![s] = {}] BY <1>1 DEF Arrive, s
  <2>7. overlaps' = overlaps \/ overlaps' = overlaps \cup {s} BY <1>1 DEF Arrive, s
  <2>8. UNCHANGED <<clock, data, entries>> BY <1>1 DEF Arrive
  <2>9. stored' \in [SessionIds -> Sessions] /\ session' \in [Reqs -> [before: Sessions, now: Sessions]]
    BY <2>2, <2>3, <2>5
  <2>10. expiry' \in [SessionIds -> Int] BY <2>4 DEF Never
  <2>11. left' \in [SessionIds -> Sessions] BY <2>6, <1>a
  <2>12. overlaps' \subseteq SessionIds BY <2>7, <2>1
  <2>13. QED BY <2>8, <2>9, <2>10, <2>11, <2>12
<1>2. ASSUME NEW r \in Reqs, Quiet(r) PROVE SharedTyped' BY <1>2, QuietKeeps
<1>3. ASSUME NEW r \in Reqs, Enter(r) PROVE SharedTyped'
  <2>1. entries' \in [CacheKeys -> [value: Int, expires: Int \cup {Forever}, raced: BOOLEAN]]
    BY <1>3, <1>b DEF Enter, LookUp, Evicted, Looked
  <2>2. QED BY <1>3, <2>1 DEF Enter, sessionVars
<1>4. ASSUME NEW r \in Reqs, Handle(r) PROVE SharedTyped'
  <2>1. data' \in Int BY <1>4 DEF Handle
  <2>2. PICK now \in {session[r].now} \cup Req[r].marks : session' = [session EXCEPT ![r].now = now]
    BY <1>4 DEF Handle
  <2>3. now \in Sessions BY DEF Sessions
  <2>4. session' \in [Reqs -> [before: Sessions, now: Sessions]] BY <2>2, <2>3
  <2>5. QED BY <1>4, <2>1, <2>4 DEF Handle, sessionVars
<1>5. ASSUME NEW r \in Reqs, Leave(r) PROVE SharedTyped'
  <2>1. ASSUME NEW raced \in BOOLEAN
        PROVE  Filled(Req[r].key, result[r], raced) \in [CacheKeys -> [value: Int, expires: Int \cup {Forever}, raced: BOOLEAN]]
    <3>1. ExpiresAt(Req[r].key) \in Int \cup {Forever}
      <4>1. CacheTtl[Req[r].key.base] \in Int \cup {Forever} BY RequestsAssumption
      <4>2. QED BY <4>1 DEF ExpiresAt
    <3>2. QED BY <1>b, <3>1 DEF Filled
  <2>2. entries' \in [CacheKeys -> [value: Int, expires: Int \cup {Forever}, raced: BOOLEAN]]
    BY <1>5, <2>1 DEF Leave
  <2>3. QED BY <1>5, <2>2 DEF Leave, sessionVars
<1>6. ASSUME NEW r \in Reqs, Respond(r) PROVE SharedTyped'
  <2>1. session[r].now \in Sessions OBVIOUS
  <2>3. stored' \in [SessionIds -> Sessions] /\ expiry' \in [SessionIds -> Int]
    BY <1>6, RespondTyped DEF SharedTyped
  <2>4. left' \in [SessionIds -> Sessions] BY <1>6, <2>1 DEF Respond
  <2>5. QED BY <1>6, <2>3, <2>4 DEF Respond
<1>7. CASE Tick BY <1>7, RequestsAssumption DEF Tick, ClockTicks, requestVars, sessionVars
<1>8. CASE UNCHANGED vars BY <1>8 DEF vars, requestVars, sessionVars
<1>9. QED BY <1>1, <1>2, <1>3, <1>4, <1>5, <1>6, <1>7, <1>8 DEF Next, Step, Quiet

\* What the stores of the throttler keep.
LEMMA ThrottleTypedStep == ASSUME RequestsTyped, [Next]_vars PROVE ThrottleTyped'
<1>. USE DEF RequestsTyped, ThrottleTyped
<1>1. CASE UNCHANGED throttleVars BY <1>1 DEF throttleVars
<1>2. ASSUME NEW k \in Throttled PROVE InWindow(k) \subseteq hits[k] BY DEF InWindow
<1>3. ASSUME NEW k \in Throttled, NEW time \in Int PROVE Admission(k, time) \in Hits
  BY FS_CardinalityType DEF Admission, Hits
<1>4. ASSUME NEW k \in Throttled, NEW time \in Int, Admit(k, time)
      PROVE  /\ admitted' \in [Throttled -> SUBSET Hits]
             /\ \A m \in Throttled : IsFiniteSet(admitted'[m])
  <2>1. IsFiniteSet(admitted[k] \cup {Admission(k, time)}) BY FS_AddElement
  <2>2. QED BY <1>3, <1>4, <2>1 DEF Admit
<1>5. ASSUME NEW r \in Reqs, Check(r) PROVE ThrottleTyped'
  <2>. DEFINE k == Req[r].throttle
  <2>1. k \in Throttled /\ clock \in Int BY RequestsAssumption DEF SharedTyped
  <2>. HIDE DEF k
  <2>2. CASE Hit(k) BY <2>1, <2>2, <1>2, <1>3, <1>4 DEF Hit
  <2>3. CASE Refuse(k) BY <2>1, <2>3, <1>2 DEF Refuse
  <2>4. CASE CountHits(k, r) BY <2>1, <2>4, <1>2 DEF CountHits, CountedHits
  <2>5. CASE AddHit(k, r)
    <3>1. PICK c \in counted : /\ counted' = counted \ {c}
                               /\ hits' = [hits EXCEPT ![k] = @ \cup {Admission(k, c.at)}]
                               /\ Admit(k, c.at)
      BY <2>5 DEF AddHit
    <3>2. c.at \in Int BY DEF CountedHits
    <3>3. QED BY <2>1, <3>1, <3>2, <1>3, <1>4
  <2>6. QED BY <1>1, <1>5, <2>2, <2>3, <2>4, <2>5 DEF Check, k
<1>6. CASE Tick \/ UNCHANGED vars BY <1>1, <1>6 DEF Tick, vars
<1>7. QED BY <1>1, <1>5, <1>6, OthersUnthrottled DEF Next

LEMMA TypedInit == Init => RequestsTyped
<1>. SUFFICES ASSUME Init PROVE RequestsTyped OBVIOUS
<1>1. {} \in Sessions BY DEF Sessions
<1>2. RequestTyped BY DEF Init, RequestTyped, Places, Errors, NoError, NoResult
<1>3. SharedTyped BY <1>1 DEF Init, SharedTyped, SessionInit, CacheInit, Missing, Never
<1>4. ThrottleTyped BY FS_EmptySet DEF Init, ThrottleTyped, ThrottlerInit
<1>5. QED BY <1>2, <1>3, <1>4 DEF RequestsTyped

LEMMA TypedAlways == Spec => []RequestsTyped
<1>1. RequestsTyped /\ [Next]_vars => RequestsTyped'
  BY RequestTypedStep, SharedTypedStep, ThrottleTypedStep DEF RequestsTyped
<1>2. QED BY TypedInit, <1>1, PTL DEF Spec

-----------------------------------------------------------------------------
(* The pipeline *)

AllPassed(r) == \A i \in DOMAIN Checks : Checks[i] \in passed[r]

\* The components before the next one have passed, all of them once the request
\* is past the checks; what has no scope of its own has done nothing yet.
InPipeline(r) ==
  /\ at[r] \in {"idle", "resolve"} => passed[r] = {} /\ result[r] = NoResult
  /\ at[r] = "checks" => \A i \in DOMAIN Checks : i < next[r] => Checks[i] \in passed[r]
  /\ at[r] \in {"enter", "leave", "stream"} \/ result[r] # NoResult => AllPassed(r)
  /\ at[r] \in {"match", "checks", "enter", "leave", "filters", "stream"} => scope[r] = "own"
  /\ at[r] \in {"respond", "ended"} /\ scope[r] = "own" =>
       error[r] = "app" /\ passed[r] = {} /\ result[r] = NoResult

PipelineInv == \A r \in Reqs : InPipeline(r)

LEMMA LayersPassed ==
  ASSUME NEW P, \A i \in DOMAIN Checks : Checks[i] \in P,
         NEW kind \in {"guards", "pipes"}, NEW layer \in {Global, OfController, OfHandler}
  PROVE  \A j \in DOMAIN layer[kind] : layer[kind][j] \in P
<1>. DEFINE G == Global[kind]
            C == OfController[kind]
            H == OfHandler[kind]
<1>1. G \in Seq(STRING) /\ C \in Seq(STRING) /\ H \in Seq(STRING) BY LayersAreSequences DEF Kinds
<1>2. Collected(kind) = G \o C \o H BY DEF Collected
<1>3. Collected("guards") \in Seq(STRING) /\ Collected("pipes") \in Seq(STRING)
  BY LayersAreSequences DEF Kinds
<1>4. \A i \in DOMAIN Collected(kind) : Collected(kind)[i] \in P
  <2>1. CASE kind = "guards"
    <3>1. ASSUME NEW i \in DOMAIN Collected("guards")
          PROVE  i \in DOMAIN Checks /\ Checks[i] = Collected("guards")[i]
      BY <1>3 DEF Checks
    <3>2. QED BY <2>1, <3>1
  <2>2. CASE kind = "pipes"
    <3>1. ASSUME NEW i \in DOMAIN Collected("pipes")
          PROVE  LET n == Len(Collected("guards"))
                 IN n + i \in DOMAIN Checks /\ Checks[n + i] = Collected("pipes")[i]
      BY <1>3 DEF Checks
    <3>2. QED BY <2>2, <3>1
  <2>3. QED BY <2>1, <2>2
<1>. HIDE DEF G, C, H
<1>5. ASSUME NEW j \in DOMAIN G PROVE G[j] \in P
  <2>1. j \in DOMAIN (G \o C \o H) /\ (G \o C \o H)[j] = G[j] BY <1>1
  <2>2. QED BY <1>2, <1>4, <2>1
<1>6. ASSUME NEW j \in DOMAIN C PROVE C[j] \in P
  <2>1. LET i == Len(G) + j IN i \in DOMAIN (G \o C \o H) /\ (G \o C \o H)[i] = C[j] BY <1>1
  <2>2. QED BY <1>2, <1>4, <2>1
<1>7. ASSUME NEW j \in DOMAIN H PROVE H[j] \in P
  <2>1. LET i == Len(G) + Len(C) + j IN i \in DOMAIN (G \o C \o H) /\ (G \o C \o H)[i] = H[j] BY <1>1
  <2>2. QED BY <1>2, <1>4, <2>1
<1>8. QED BY <1>5, <1>6, <1>7 DEF G, C, H

\* A request that does not move stays where it was in the pipeline.
LEMMA StaysInPipeline ==
  ASSUME NEW r, InPipeline(r), at'[r] = at[r], next'[r] = next[r], scope'[r] = scope[r],
         error'[r] = error[r], result'[r] = result[r], passed'[r] = passed[r]
  PROVE  InPipeline(r)'
<1>1. AllPassed(r)' <=> AllPassed(r) BY DEF AllPassed
<1>2. QED BY <1>1 DEF InPipeline

\* A step of a request touches that request only.
LEMMA OnlyItself ==
  ASSUME NEW r \in Reqs, NEW q \in Reqs, q # r, RequestTyped, Step(r)
  PROVE  /\ at'[q] = at[q] /\ next'[q] = next[q] /\ scope'[q] = scope[q]
         /\ error'[q] = error[q] /\ result'[q] = result[q] /\ passed'[q] = passed[q]
<1>. USE DEF RequestTyped
<1>1. CASE Arrive(r) BY <1>1 DEF Arrive, Invalid, Raise, Goes
<1>2. CASE Resolve(r) \/ Match(r) BY <1>2 DEF Resolve, Match, Raise, Goes
<1>3. CASE Check(r) BY <1>3 DEF Check, Passes, Rejects, Raise, Goes, GoesOn
<1>4. CASE BindFails(r) \/ Checked(r) \/ Return(r) \/ EndStream(r)
  BY <1>4 DEF BindFails, Checked, Return, EndStream, Raise, Goes
<1>5. CASE Enter(r) BY <1>5 DEF Enter, Raise, Goes, GoesOn
<1>6. CASE Handle(r) BY <1>6 DEF Handle, Raise, Goes
<1>7. CASE Leave(r) BY <1>7 DEF Leave, Raise, Goes
<1>8. CASE Filter(r) BY <1>8 DEF Filter, Goes, GoesOn
<1>9. CASE Respond(r) BY <1>9 DEF Respond, Goes
<1>10. QED BY <1>1, <1>2, <1>3, <1>4, <1>5, <1>6, <1>7, <1>8, <1>9 DEF Step

LEMMA PipelineStep == ASSUME RequestsTyped, PipelineInv, [Next]_vars PROVE PipelineInv'
<1>. USE DEF RequestsTyped
<1>1. CASE Tick \/ UNCHANGED vars
  <2>1. UNCHANGED requestVars BY <1>1 DEF Tick, vars
  <2>2. UNCHANGED <<at, next, scope, error, result, passed>> BY <2>1 DEF requestVars
  <2>3. QED BY <2>2, StaysInPipeline DEF PipelineInv
<1>2. ASSUME NEW r \in Reqs, Step(r) PROVE InPipeline(r)'
  <2>0. InPipeline(r) BY DEF PipelineInv
  <2>a. passed'[r] = passed[r] => (AllPassed(r)' <=> AllPassed(r)) BY DEF AllPassed
  <2>. USE DEF RequestTyped, Places
  <2>1. CASE Arrive(r) BY <2>0, <2>1, <2>a DEF Arrive, Invalid, Raise, Goes, InPipeline
  <2>2. CASE Resolve(r) BY <2>0, <2>2, <2>a DEF Resolve, Goes, InPipeline
  <2>3. CASE Match(r)
    <3>1. (at'[r] = "checks" /\ next'[r] = 1) \/ at'[r] = "filters" BY <2>3 DEF Match, Raise, Goes
    <3>2. \A i \in DOMAIN Checks : ~(i < 1) BY ChecksAreSequences
    <3>3. QED BY <2>0, <2>3, <3>1, <3>2, <2>a DEF Match, InPipeline
  <2>4. CASE Check(r)
    <3>1. UNCHANGED <<scope, result>> /\ at[r] = "checks" BY <2>4 DEF Check
    <3>2. CASE Passes(r, Checks[next[r]])
      <4>1. /\ at'[r] = "checks" /\ next'[r] = next[r] + 1
            /\ passed'[r] = passed[r] \cup {Checks[next[r]]}
        BY <3>1, <3>2 DEF Passes, GoesOn
      <4>2. \A i \in DOMAIN Checks : i < next[r] + 1 => i < next[r] \/ i = next[r] BY ChecksAreSequences
      <4>3. AllPassed(r) => AllPassed(r)' BY <4>1 DEF AllPassed
      <4>4. QED BY <2>0, <3>1, <4>1, <4>2, <4>3 DEF InPipeline
    <3>3. CASE (\E kind \in Errors : Raise(r, kind)) /\ UNCHANGED passed
      BY <2>0, <3>1, <3>3, <2>a DEF Raise, Goes, InPipeline
    <3>4. CASE UNCHANGED <<at, next, error, passed>> BY <2>0, <3>1, <3>4, <2>a DEF InPipeline
    <3>5. QED BY <2>4, <3>2, <3>3, <3>4 DEF Check, Rejects, Errors
  <2>5. CASE BindFails(r) BY <2>0, <2>5, <2>a DEF BindFails, Raise, Goes, InPipeline
  <2>6. CASE Checked(r)
    <3>1. \A i \in DOMAIN Checks : i < next[r] BY <2>6, ChecksAreSequences DEF Checked
    <3>2. AllPassed(r) BY <2>0, <2>6, <3>1 DEF Checked, InPipeline, AllPassed
    <3>3. QED BY <2>0, <2>6, <3>2, <2>a DEF Checked, Goes, InPipeline
  <2>7. CASE Enter(r)
    <3>1. at'[r] \in {"enter", "leave", "filters"} BY <2>7 DEF Enter, Raise, Goes, GoesOn
    <3>2. QED BY <2>0, <2>7, <3>1, <2>a DEF Enter, InPipeline
  <2>8. CASE Handle(r)
    <3>1. at'[r] \in {"leave", "filters"} BY <2>8 DEF Handle, Raise, Goes
    <3>2. QED BY <2>0, <2>8, <3>1, <2>a DEF Handle, InPipeline
  <2>9. CASE Leave(r)
    <3>1. at[r] = "leave" /\ at'[r] \in {"leave", "filters"} BY <2>9 DEF Leave, Raise, Goes
    <3>2. QED BY <2>0, <2>9, <3>1, <2>a DEF Leave, InPipeline
  <2>10. CASE Return(r) BY <2>0, <2>10, <2>a DEF Return, Goes, InPipeline
  <2>11. CASE Filter(r)
    <3>1. (at'[r] = "filters" /\ scope'[r] = scope[r]) \/ (at'[r] = "respond" /\ scope'[r] = "left")
      BY <2>11 DEF Filter, Goes, GoesOn
    <3>2. QED BY <2>0, <2>11, <3>1, <2>a DEF Filter, InPipeline
  <2>12. CASE Respond(r)
    <3>1. \/ at'[r] = "stream" /\ scope'[r] = "own" /\ result[r] # NoResult
          \/ at'[r] = "ended" /\ scope'[r] = scope[r]
      BY <2>12 DEF Respond, Goes, StreamScope
    <3>2. QED BY <2>0, <2>12, <3>1, <2>a DEF Respond, InPipeline
  <2>13. CASE EndStream(r) BY <2>0, <2>13, <2>a DEF EndStream, Goes, InPipeline
  <2>14. QED
    BY <1>2, <2>1, <2>2, <2>3, <2>4, <2>5, <2>6, <2>7, <2>8, <2>9, <2>10, <2>11, <2>12, <2>13 DEF Step
<1>3. ASSUME NEW r \in Reqs, Step(r) PROVE PipelineInv'
  <2>1. ASSUME NEW q \in Reqs, q # r PROVE InPipeline(q)'
    BY <1>3, <2>1, OnlyItself, StaysInPipeline DEF PipelineInv
  <2>2. QED BY <1>2, <1>3, <2>1 DEF PipelineInv
<1>4. QED BY <1>1, <1>3 DEF Next

\* A handler runs only when all the guards and pipes around it have let the
\* request pass, and whatever runs for a request runs in its scope (_endpoint,
\* _run_guards, _run_pipes).
THEOREM PipelineAlways == Spec => []PipelineKept
<1>1. Init => PipelineInv
  BY DEF Init, PipelineInv, InPipeline, NoResult, NoError
<1>2. PipelineInv => PipelineKept
  <2>. SUFFICES ASSUME PipelineInv PROVE PipelineKept OBVIOUS
  <2>1. Guarded
    <3>. SUFFICES ASSUME NEW r \in Reqs, at[r] \in {"enter", "stream"} \/ result[r] # NoResult,
                         NEW kind \in {"guards", "pipes"}, NEW i \in 1 .. 3
         PROVE  LET layer == <<Global, OfController, OfHandler>>[i][kind]
                IN \A j \in DOMAIN layer : layer[j] \in passed[r]
      BY DEF Guarded
    <3>1. AllPassed(r) BY DEF PipelineInv, InPipeline
    <3>2. <<Global, OfController, OfHandler>>[i] \in {Global, OfController, OfHandler} OBVIOUS
    <3>3. QED BY <3>1, <3>2, LayersPassed DEF AllPassed
  <2>2. ScopeHeld BY DEF ScopeHeld, PipelineInv, InPipeline
  <2>3. QED BY <2>1, <2>2 DEF PipelineKept
<1>3. RequestsTyped /\ PipelineInv /\ [Next]_vars => PipelineInv' BY PipelineStep
<1>4. QED BY <1>1, <1>2, <1>3, TypedAlways, PTL DEF Spec

-----------------------------------------------------------------------------
(* Sessions *)

Active(r) == at[r] \notin {"idle", "stream", "ended"}

\* A session kept for less than a second is as good as none.
SessionsLive == MaxAge = Never \/ MaxAge > 0

\* A session that one request at a time uses is in the store as that request
\* loaded it; nobody has stored anything under an id that is yet to be given.
Undisturbed(s) ==
  /\ SessionExpired(s) \/ stored[s] = left[s]
  /\ \A r \in Reqs : Active(r) /\ SessionOf(r) = s =>
       /\ stored[s] = session[r].before
       /\ \A q \in Reqs : Active(q) /\ SessionOf(q) = s => q = r

NewIdsEmpty ==
  \A r \in Reqs : Req[r].cookie # "signed" =>
    /\ at[r] = "idle" => stored[SessionOf(r)] = {}
    /\ Active(r) => session[r].before = {}

SessionInv == NewIdsEmpty /\ \A s \in SessionIds \ overlaps : Undisturbed(s)

\* The steps between the loading and the saving of a session.
LEMMA BetweenKeeps ==
  ASSUME RequestsTyped, NEW r \in Reqs, Quiet(r) \/ Enter(r) \/ Handle(r) \/ Leave(r)
  PROVE  /\ UNCHANGED <<clock, stored, expiry, left, overlaps>>
         /\ \A q \in Reqs : /\ Active(q)' <=> Active(q)
                            /\ at'[q] = "idle" <=> at[q] = "idle"
                            /\ session'[q].before = session[q].before
<1>. USE DEF RequestsTyped, RequestTyped, SharedTyped, Places
<1>1. CASE Quiet(r)
  <2>1. UNCHANGED <<clock, session, stored, expiry, left, overlaps>> BY <1>1, QuietKeeps
  <2>2. ASSUME NEW q \in Reqs PROVE (Active(q)' <=> Active(q)) /\ (at'[q] = "idle" <=> at[q] = "idle")
    <3>1. CASE Resolve(r) \/ Match(r) BY <3>1 DEF Resolve, Match, Raise, Goes, Active
    <3>2. CASE Check(r) BY <3>2 DEF Check, Passes, Rejects, Raise, Goes, GoesOn, Active
    <3>3. CASE BindFails(r) \/ Checked(r) \/ Return(r) \/ EndStream(r)
      BY <3>3 DEF BindFails, Checked, Return, EndStream, Raise, Goes, Active
    <3>4. CASE Filter(r) BY <3>4 DEF Filter, Goes, GoesOn, Active
    <3>5. QED BY <1>1, <3>1, <3>2, <3>3, <3>4 DEF Quiet
  <2>3. QED BY <2>1, <2>2
<1>2. CASE Enter(r) \/ Leave(r)
  BY <1>2 DEF Enter, Leave, Raise, Goes, GoesOn, Active, sessionVars
<1>3. CASE Handle(r)
  <2>1. UNCHANGED <<clock, stored, expiry, left, overlaps>> BY <1>3 DEF Handle, sessionVars
  <2>2. \E now : session' = [session EXCEPT ![r].now = now] BY <1>3 DEF Handle
  <2>3. \A q \in Reqs : session'[q].before = session[q].before BY <2>2
  <2>4. at' = [at EXCEPT ![r] = "leave"] \/ at' = [at EXCEPT ![r] = "filters"] BY <1>3 DEF Handle, Raise, Goes
  <2>5. \A q \in Reqs : (Active(q)' <=> Active(q)) /\ (at'[q] = "idle" <=> at[q] = "idle")
    BY <1>3, <2>4 DEF Handle, Active
  <2>6. QED BY <2>1, <2>3, <2>5
<1>4. QED BY <1>1, <1>2, <1>3

LEMMA SessionStep == ASSUME SessionsLive, RequestsTyped, SessionInv, [Next]_vars PROVE SessionInv'
<1>1. CASE Tick
  <2>1. UNCHANGED <<at, session, stored, expiry, left, overlaps>> /\ clock' = clock + 1
    BY <1>1 DEF Tick, ClockTicks, requestVars, sessionVars
  <2>2. \A s \in SessionIds : SessionExpired(s) => SessionExpired(s)'
    BY <2>1 DEF SessionExpired, RequestsTyped, SharedTyped
  <2>3. \A r \in Reqs : Active(r)' <=> Active(r) BY <2>1 DEF Active
  <2>4. QED BY <2>1, <2>2, <2>3 DEF SessionInv, NewIdsEmpty, Undisturbed
<1>2. CASE UNCHANGED vars
  <2>1. UNCHANGED <<at, session, stored, expiry, left, overlaps, clock>> BY <1>2 DEF vars, requestVars, sessionVars
  <2>2. QED BY <2>1 DEF SessionInv, NewIdsEmpty, Undisturbed, SessionExpired, Active
<1>3. ASSUME NEW r \in Reqs, Quiet(r) \/ Enter(r) \/ Handle(r) \/ Leave(r) PROVE SessionInv'
  <2>1. /\ UNCHANGED <<clock, stored, expiry, left, overlaps>>
        /\ \A q \in Reqs : /\ Active(q)' <=> Active(q)
                           /\ at'[q] = "idle" <=> at[q] = "idle"
                           /\ session'[q].before = session[q].before
    BY <1>3, BetweenKeeps
  <2>2. QED BY <2>1 DEF SessionInv, NewIdsEmpty, Undisturbed, SessionExpired
<1>4. ASSUME NEW r \in Reqs, Arrive(r) PROVE SessionInv'
  <2>1. PICK s \in SessionIds : s = SessionOf(r) BY RequestsAssumption
  <2>2. /\ stored' = [stored EXCEPT ![s] = LoadedSession(s)]
        /\ expiry' = IF SessionExpired(s) THEN [expiry EXCEPT ![s] = Never] ELSE expiry
        /\ session' = [session EXCEPT ![r] = [before |-> LoadedSession(s), now |-> LoadedSession(s)]]
        /\ left' = IF SessionExpired(s) THEN [left EXCEPT ![s] = {}] ELSE left
        /\ overlaps' = IF \E q \in Reqs \ {r} : SessionOf(q) = s /\ Active(q)
                       THEN overlaps \cup {s} ELSE overlaps
        /\ UNCHANGED clock
    BY <1>4, <2>1 DEF Arrive, LoadSession, Active
  <2>3. at[r] = "idle" /\ (at' = [at EXCEPT ![r] = "filters"] \/ at' = [at EXCEPT ![r] = "resolve"])
    BY <1>4 DEF Arrive, Invalid, Raise, Goes
  <2>4. Active(r)' /\ at'[r] # "idle" /\ \A q \in Reqs \ {r} : (Active(q)' <=> Active(q)) /\ at'[q] = at[q]
    BY <2>3 DEF Active, RequestsTyped, RequestTyped
  <2>5. session'[r].before = LoadedSession(s) /\ \A q \in Reqs \ {r} : session'[q] = session[q]
    BY <2>2 DEF RequestsTyped, SharedTyped
  <2>6. stored'[s] = LoadedSession(s) /\ \A u \in SessionIds \ {s} : stored'[u] = stored[u]
    BY <2>2 DEF RequestsTyped, SharedTyped
  <2>7. NewIdsEmpty'
    <3>. SUFFICES ASSUME NEW q \in Reqs, Req[q].cookie # "signed"
         PROVE  /\ at'[q] = "idle" => stored'[SessionOf(q)] = {}
                /\ Active(q)' => session'[q].before = {}
      BY DEF NewIdsEmpty
    <3>1. CASE q = r
      <4>1. stored[s] = {} BY <2>1, <2>3, <3>1 DEF SessionInv, NewIdsEmpty
      <4>2. LoadedSession(s) = {} BY <4>1 DEF LoadedSession
      <4>3. QED BY <2>4, <2>5, <3>1, <4>2
    <3>2. CASE q # r
      <4>1. SessionOf(q) # s /\ SessionOf(q) \in SessionIds BY <2>1, <3>2, RequestsAssumption
      <4>2. QED BY <2>4, <2>5, <2>6, <3>2, <4>1 DEF SessionInv, NewIdsEmpty
    <3>3. QED BY <3>1, <3>2
  <2>8. ASSUME NEW u \in SessionIds \ overlaps' PROVE Undisturbed(u)'
    <3>1. u \notin overlaps BY <2>2
    <3>2. Undisturbed(u) BY <3>1 DEF SessionInv
    <3>3. CASE u # s
      <4>1. stored'[u] = stored[u] /\ left'[u] = left[u] /\ expiry'[u] = expiry[u] /\ clock' = clock
        BY <2>2, <3>3 DEF RequestsTyped, SharedTyped
      <4>2. SessionExpired(u)' <=> SessionExpired(u) BY <4>1 DEF SessionExpired
      <4>3. \A q \in Reqs : SessionOf(q) = u => q # r BY <2>1, <3>3
      <4>4. QED BY <2>4, <2>5, <3>2, <4>1, <4>2, <4>3 DEF Undisturbed
    <3>4. CASE u = s
      <4>1. ~\E q \in Reqs \ {r} : SessionOf(q) = s /\ Active(q) BY <2>2, <3>4
      <4>2. \A q \in Reqs : Active(q)' /\ SessionOf(q) = s => q = r BY <2>4, <4>1
      <4>3. stored'[s] = left'[s]
        BY <2>2, <2>6, <3>2, <3>4 DEF Undisturbed, LoadedSession, RequestsTyped, SharedTyped
      <4>4. QED BY <2>5, <2>6, <3>4, <4>2, <4>3 DEF Undisturbed
    <3>5. QED BY <3>3, <3>4
  <2>9. QED BY <2>7, <2>8 DEF SessionInv
<1>5. ASSUME NEW r \in Reqs, Respond(r) PROVE SessionInv'
  <2>1. PICK s \in SessionIds : s = SessionOf(r) BY RequestsAssumption
  <2>2. at[r] = "respond" /\ Active(r) BY <1>5 DEF Respond, Active
  <2>3. UNCHANGED <<session, overlaps, clock>> BY <1>5 DEF Respond
  <2>4. ~Active(r)' /\ at'[r] # "idle" /\ \A q \in Reqs \ {r} : (Active(q)' <=> Active(q)) /\ at'[q] = at[q]
    BY <1>5 DEF Respond, Goes, Active, RequestsTyped, RequestTyped
  <2>5. \A u \in SessionIds \ {s} : stored'[u] = stored[u] /\ left'[u] = left[u] /\ expiry'[u] = expiry[u]
    BY <1>5, <2>1 DEF Respond, SaveSession, DeletedSession, SavedSession, sessionVars, RequestsTyped, SharedTyped
  <2>6. NewIdsEmpty'
    <3>. SUFFICES ASSUME NEW q \in Reqs, Req[q].cookie # "signed"
         PROVE  /\ at'[q] = "idle" => stored'[SessionOf(q)] = {}
                /\ Active(q)' => session'[q].before = {}
      BY DEF NewIdsEmpty
    <3>1. CASE q = r BY <2>4, <3>1
    <3>2. CASE q # r
      <4>1. SessionOf(q) # s /\ SessionOf(q) \in SessionIds BY <2>1, <3>2, RequestsAssumption
      <4>2. QED BY <2>3, <2>4, <2>5, <3>2, <4>1 DEF SessionInv, NewIdsEmpty
    <3>3. QED BY <3>1, <3>2
  <2>7. ASSUME s \notin overlaps PROVE SessionExpired(s)' \/ stored'[s] = left'[s]
    <3>1. Undisturbed(s) BY <2>7 DEF SessionInv
    <3>2. stored[s] = session[r].before BY <2>1, <2>2, <3>1 DEF Undisturbed
    <3>3. CASE error[r] = "app"
      <4>1. UNCHANGED <<stored, expiry, left>> BY <1>5, <3>3 DEF Respond, sessionVars
      <4>2. QED BY <2>3, <3>1, <4>1 DEF Undisturbed, SessionExpired
    <3>4. CASE error[r] # "app"
      <4>. DEFINE before == session[r].before
                  now == session[r].now
      <4>1. SaveSession(s, before, now, HadCookie(r)) /\ left' = [left EXCEPT ![s] = now]
        BY <1>5, <2>1, <3>4 DEF Respond
      <4>. HIDE DEF before, now
      <4>2. left'[s] = now BY <4>1 DEF RequestsTyped, SharedTyped
      <4>3. CASE now = {} /\ ~HadCookie(r)
        <5>1. before = {} BY <2>2, <4>3 DEF SessionInv, NewIdsEmpty, HadCookie, before
        <5>2. stored' = stored BY <4>1, <4>3 DEF SaveSession, sessionVars
        <5>3. QED BY <3>2, <4>2, <4>3, <5>1, <5>2 DEF before
      <4>4. CASE ~Rolling /\ HadCookie(r) /\ now # {} /\ ~Changed(before, now)
        <5>1. stored' = stored /\ before = now BY <4>1, <4>4 DEF SaveSession, sessionVars, Changed
        <5>2. QED BY <3>2, <4>2, <5>1 DEF before
      <4>5. CASE now = {} /\ HadCookie(r)
        <5>1. DeletedSession(s) BY <4>1, <4>5 DEF SaveSession
        <5>2. QED BY <4>2, <4>5, <5>1 DEF DeletedSession, RequestsTyped, SharedTyped
      <4>6. CASE now # {} /\ ~(~Rolling /\ HadCookie(r) /\ ~Changed(before, now))
        <5>1. SavedSession(s, now) BY <4>1, <4>6 DEF SaveSession
        <5>2. ~(MaxAge # Never /\ MaxAge <= 0) BY RequestsAssumption DEF SessionsLive, Never
        <5>3. stored' = [stored EXCEPT ![s] = now] BY <5>1, <5>2 DEF SavedSession
        <5>4. QED BY <4>2, <5>3 DEF RequestsTyped, SharedTyped
      <4>7. QED BY <4>3, <4>4, <4>5, <4>6
    <3>5. QED BY <3>3, <3>4
  <2>8. ASSUME NEW u \in SessionIds \ overlaps' PROVE Undisturbed(u)'
    <3>1. u \notin overlaps BY <2>3
    <3>2. Undisturbed(u) BY <3>1 DEF SessionInv
    <3>3. CASE u # s
      <4>1. SessionExpired(u)' <=> SessionExpired(u) BY <2>3, <2>5, <3>3 DEF SessionExpired
      <4>2. \A q \in Reqs : SessionOf(q) = u => q # r BY <2>1, <3>3
      <4>3. QED BY <2>3, <2>4, <2>5, <3>2, <3>3, <4>1, <4>2 DEF Undisturbed
    <3>4. CASE u = s
      <4>1. \A q \in Reqs : ~(Active(q)' /\ SessionOf(q) = s)
        BY <2>1, <2>2, <2>4, <3>2, <3>4 DEF Undisturbed
      <4>2. QED BY <2>7, <3>1, <3>4, <4>1 DEF Undisturbed
    <3>5. QED BY <3>3, <3>4
  <2>9. QED BY <2>6, <2>8 DEF SessionInv
<1>6. QED BY <1>1, <1>2, <1>3, <1>4, <1>5 DEF Next, Step, Quiet

\* A session that requests use one after the other holds what the last of them
\* left in it, until it expires (FaNestSessionMiddleware).
THEOREM SequentialAlways == ASSUME SessionsLive PROVE Spec => []SequentialSession
<1>1. Init => SessionInv
  <2>1. \A r \in Reqs : SessionOf(r) \in SessionIds BY RequestsAssumption
  <2>2. QED BY <2>1 DEF Init, SessionInit, SessionInv, NewIdsEmpty, Undisturbed, Active
<1>2. RequestsTyped /\ SessionInv /\ [Next]_vars => SessionInv' BY SessionStep
<1>3. SessionInv => SequentialSession BY DEF SessionInv, Undisturbed, SequentialSession
<1>4. QED BY <1>1, <1>2, <1>3, TypedAlways, PTL DEF Spec

-----------------------------------------------------------------------------
(* The cache *)

\* The data is what the routes of one base show: whoever writes it evicts them.
WritersEvict ==
  \A r \in Reqs : Req[r].writes => Req[r].evicts /\ \A k \in CacheKeys : k.base = Req[r].key.base

Stale(k) == entries[k].raced \/ entries[k] = Missing

\* An entry that nothing raced with is of the data as it is, and from the moment
\* a writing request has evicted until it writes there is none.
CacheInv ==
  /\ \A k \in CacheKeys : Stale(k) \/ entries[k].value = data
  /\ \A r \in Reqs : \A i \in DOMAIN Interceptors :
       /\ at[r] = "enter" /\ Req[r].writes /\ i < next[r] /\ Interceptors[i] = CacheLayer
       => \A k \in CacheKeys : Stale(k)
  /\ \A r \in Reqs : at[r] = "leave" => next[r] <= Len(Interceptors)
  /\ (\E i \in DOMAIN Interceptors : Interceptors[i] = CacheLayer) \/ \A k \in CacheKeys : Stale(k)

LEMMA CacheStep == ASSUME WritersEvict, RequestsTyped, CacheInv, [Next]_vars PROVE CacheInv'
<1>. USE DEF RequestsTyped
<1>0. Interceptors \in Seq(STRING) BY ChecksAreSequences
<1>1. ASSUME UNCHANGED <<entries, data>> PROVE \A k \in CacheKeys : Stale(k)' <=> Stale(k)
  BY <1>1 DEF Stale
<1>2. CASE Tick \/ UNCHANGED vars
  <2>1. UNCHANGED <<entries, data, at, next>> BY <1>2 DEF Tick, vars, requestVars
  <2>2. QED BY <2>1, <1>1 DEF CacheInv
<1>3. ASSUME NEW r \in Reqs, UNCHANGED <<entries, data>>, at'[r] # "leave", at'[r] = "enter" => next'[r] = 1,
             \A q \in Reqs \ {r} : at'[q] = at[q] /\ next'[q] = next[q]
      PROVE  CacheInv'
  <2>1. \A i \in DOMAIN Interceptors : at'[r] = "enter" => ~(i < next'[r]) BY <1>0, <1>3
  <2>2. QED BY <1>1, <1>3, <2>1 DEF CacheInv
<1>4. ASSUME NEW r \in Reqs, Arrive(r) \/ Resolve(r) \/ Match(r) \/ Check(r) \/ BindFails(r) \/ Checked(r)
                             \/ Return(r) \/ Filter(r) \/ Respond(r) \/ EndStream(r)
      PROVE  CacheInv'
  <2>. USE DEF RequestTyped, Places
  <2>1. UNCHANGED <<entries, data>>
    <3>1. CASE Arrive(r) \/ Respond(r) BY <3>1 DEF Arrive, Respond
    <3>2. CASE ~(Arrive(r) \/ Respond(r)) BY <1>4, <3>2, QuietKeeps DEF Quiet
    <3>3. QED BY <3>1, <3>2
  <2>2. at'[r] = "enter" => next'[r] = 1
    <3>1. CASE Arrive(r) BY <3>1 DEF Arrive, Invalid, Raise, Goes
    <3>2. CASE Resolve(r) \/ Match(r) BY <3>2 DEF Resolve, Match, Raise, Goes
    <3>3. CASE Check(r) BY <3>3 DEF Check, Passes, Rejects, Raise, Goes, GoesOn
    <3>4. CASE BindFails(r) \/ Checked(r) \/ Return(r) \/ EndStream(r)
      BY <3>4 DEF BindFails, Checked, Return, EndStream, Raise, Goes
    <3>5. CASE Filter(r) BY <3>5 DEF Filter, Goes, GoesOn
    <3>6. CASE Respond(r) BY <3>6 DEF Respond, Goes
    <3>7. QED BY <1>4, <3>1, <3>2, <3>3, <3>4, <3>5, <3>6
  <2>3. \A q \in Reqs \ {r} : at'[q] = at[q] /\ next'[q] = next[q] BY <1>4, OnlyItself DEF Step
  <2>4. at'[r] # "leave"
    <3>1. CASE Arrive(r) BY <3>1 DEF Arrive, Invalid, Raise, Goes
    <3>2. CASE Resolve(r) \/ Match(r) BY <3>2 DEF Resolve, Match, Raise, Goes
    <3>3. CASE Check(r) BY <3>3 DEF Check, Passes, Rejects, Raise, Goes, GoesOn
    <3>4. CASE BindFails(r) \/ Checked(r) \/ Return(r) \/ EndStream(r)
      BY <3>4 DEF BindFails, Checked, Return, EndStream, Raise, Goes
    <3>5. CASE Filter(r) BY <3>5 DEF Filter, Goes, GoesOn
    <3>6. CASE Respond(r) BY <3>6 DEF Respond, Goes
    <3>7. QED BY <1>4, <3>1, <3>2, <3>3, <3>4, <3>5, <3>6
  <2>5. QED BY <1>3, <2>1, <2>2, <2>3, <2>4
<1>5. ASSUME NEW r \in Reqs, Enter(r) PROVE CacheInv'
  <2>1. \A q \in Reqs \ {r} : at'[q] = at[q] /\ next'[q] = next[q] BY <1>5, OnlyItself DEF Step
  <2>2. data' = data /\ at[r] = "enter" BY <1>5 DEF Enter
  <2>3. \/ at'[r] = "filters"
        \/ (at'[r] = "leave" /\ next'[r] <= Len(Interceptors))
        \/ (at'[r] = "enter" /\ next'[r] = next[r] + 1)
    BY <1>0, <1>5 DEF Enter, Raise, Goes, GoesOn, RequestTyped
  <2>4. CASE Interceptors[next[r]] = CacheLayer
    <3>1. LookUp(r) BY <1>5, <2>4 DEF Enter
    <3>2. \A k \in CacheKeys : entries'[k] = entries[k] \/ entries'[k] = Missing
      BY <3>1 DEF LookUp, Evicted, Looked, SharedTyped
    <3>3. \A k \in CacheKeys : Stale(k) => Stale(k)' BY <3>2 DEF Stale
    <3>4. \A k \in CacheKeys : Stale(k)' \/ entries'[k].value = data' BY <2>2, <3>2, <3>3 DEF CacheInv, Stale
    <3>5. Req[r].writes => \A k \in CacheKeys : Stale(k)'
      BY <3>1 DEF LookUp, Evicted, WritersEvict, Stale
    <3>6. QED BY <2>1, <2>3, <3>3, <3>4, <3>5 DEF CacheInv
  <2>5. CASE Interceptors[next[r]] # CacheLayer
    <3>1. entries' = entries BY <1>5, <2>5 DEF Enter
    <3>2. \A k \in CacheKeys : Stale(k)' <=> Stale(k) BY <1>1, <2>2, <3>1
    <3>3. \A i \in DOMAIN Interceptors : i < next[r] + 1 => i < next[r] \/ i = next[r] BY <1>0 DEF RequestTyped
    <3>4. QED BY <2>1, <2>2, <2>3, <2>5, <3>1, <3>2, <3>3 DEF CacheInv
  <2>6. QED BY <2>4, <2>5
<1>6. ASSUME NEW r \in Reqs, Handle(r) PROVE CacheInv'
  <2>1. entries' = entries /\ \A k \in CacheKeys : Stale(k)' <=> Stale(k) BY <1>6 DEF Handle, Stale
  <2>2. at'[r] = "filters" \/ (at'[r] = "leave" /\ next'[r] = Len(Interceptors))
    BY <1>6 DEF Handle, Raise, Goes, RequestTyped
  <2>3. \A q \in Reqs \ {r} : at'[q] = at[q] /\ next'[q] = next[q] BY <1>6, OnlyItself DEF Step
  <2>4. \A k \in CacheKeys : Stale(k) \/ entries[k].value = data'
    <3>1. CASE ~Req[r].writes BY <1>6, <3>1 DEF Handle, CacheInv
    <3>2. CASE Req[r].writes
      <4>1. \A i \in DOMAIN Interceptors : i < next[r] /\ at[r] = "enter" BY <1>0, <1>6 DEF Handle, RequestTyped
      <4>2. QED BY <3>2, <4>1 DEF CacheInv
    <3>3. QED BY <3>1, <3>2
  <2>5. QED BY <1>0, <2>1, <2>2, <2>3, <2>4 DEF CacheInv
<1>7. ASSUME NEW r \in Reqs, Leave(r) PROVE CacheInv'
  <2>1. CASE Raise(r, "app") /\ UNCHANGED entries
    <3>1. UNCHANGED <<entries, data>> BY <1>7, <2>1 DEF Leave
    <3>2. at'[r] = "filters" BY <2>1 DEF Raise, Goes, RequestTyped
    <3>3. \A q \in Reqs \ {r} : at'[q] = at[q] /\ next'[q] = next[q] BY <1>7, OnlyItself DEF Step
    <3>4. QED BY <1>3, <3>1, <3>2, <3>3
  <2>2. CASE next' = [next EXCEPT ![r] = @ - 1] /\ UNCHANGED at
             /\ entries' = IF Interceptors[next[r]] = CacheLayer /\ ~Req[r].writes /\ ~Req[r].evicts
                           THEN Filled(Req[r].key, result[r], result[r] # data \/ Evicting(Req[r].key.base))
                           ELSE entries
    <3>1. UNCHANGED <<at, data>> /\ at[r] = "leave" /\ next[r] > 0 BY <1>7, <2>2 DEF Leave
    <3>2. next'[r] = next[r] - 1 /\ \A q \in Reqs \ {r} : next'[q] = next[q]
      BY <1>7, <2>2, OnlyItself DEF Step, Leave, RequestTyped
    <3>a. \A q \in Reqs : at'[q] = "leave" => next'[q] <= Len(Interceptors)
      <4>1. next[r] <= Len(Interceptors) /\ next[r] \in Int /\ Len(Interceptors) \in Int
        BY <1>0, <3>1 DEF CacheInv, RequestTyped
      <4>2. next'[r] <= Len(Interceptors) BY <3>2, <4>1
      <4>3. QED BY <3>1, <3>2, <4>2 DEF CacheInv
    <3>3. CASE entries' = entries
      <4>1. \A k \in CacheKeys : Stale(k)' <=> Stale(k) BY <1>1, <3>1, <3>3
      <4>2. QED BY <3>1, <3>2, <3>a, <3>3, <4>1 DEF CacheInv
    <3>4. CASE entries' # entries
      <4>. DEFINE key == Req[r].key
                  raced == result[r] # data \/ Evicting(key.base)
      <4>1. /\ Interceptors[next[r]] = CacheLayer /\ next[r] > 0
            /\ entries' = Filled(key, result[r], raced)
        BY <2>2, <3>1, <3>4
      <4>. HIDE DEF key
      <4>2. \A k \in CacheKeys \ {key} : entries'[k] = entries[k] BY <4>1 DEF Filled, SharedTyped
      <4>3. key \in CacheKeys BY RequestsAssumption DEF key
      <4>4. \/ entries'[key] = Missing
            \/ entries'[key].value = result[r] /\ entries'[key].raced = raced
        BY <4>1, <4>3 DEF Filled, SharedTyped
      <4>5. \A k \in CacheKeys : Stale(k)' \/ entries'[k].value = data' BY <3>1, <4>2, <4>4 DEF CacheInv, Stale
      <4>6. ASSUME NEW q \in Reqs, at[q] = "enter", Req[q].writes, \A k \in CacheKeys : Stale(k)
            PROVE  \A k \in CacheKeys : Stale(k)'
        <5>1. Evicting(key.base) BY <4>3, <4>6 DEF WritersEvict, Evicting
        <5>2. Stale(key)' BY <4>4, <5>1 DEF Stale
        <5>3. QED BY <4>2, <4>6, <5>2 DEF Stale
      <4>7. next[r] \in DOMAIN Interceptors BY <1>0, <3>1 DEF CacheInv, RequestTyped
      <4>8. QED BY <3>1, <3>2, <3>a, <4>1, <4>5, <4>6, <4>7 DEF CacheInv
    <3>5. QED BY <3>3, <3>4
  <2>3. QED BY <1>7, <2>1, <2>2 DEF Leave
<1>8. QED BY <1>2, <1>4, <1>5, <1>6, <1>7 DEF Next, Step

\* What the cache serves is what the handler would answer now, unless the data
\* changed, or an evicting request was under way, while it was computed
\* (CacheInterceptor.intercept).
THEOREM CacheFreshAlways == ASSUME WritersEvict PROVE Spec => []FreshUnlessRaced
<1>1. Init => CacheInv BY DEF Init, CacheInit, CacheInv, Stale
<1>2. RequestsTyped /\ CacheInv /\ [Next]_vars => CacheInv' BY CacheStep
<1>3. CacheInv => FreshUnlessRaced BY DEF CacheInv, Stale, FreshUnlessRaced, Alive, AliveInMemory
<1>4. QED BY <1>1, <1>2, <1>3, TypedAlways, PTL DEF Spec

-----------------------------------------------------------------------------
(* The throttler *)

\* A key whose hits a store counts and adds at once.
Limited(k) == ~Skips(k) /\ Ttl(k) > 0 /\ Routes[k].store # "two_trips"

During(A, from, ttl) == {b \in A : b.at \in from .. (from + ttl - 1)}
Since(A, time) == {b \in A : b.at > time}

\* Of the requests A let through up to now those of the last ttl seconds are
\* among the hits H, and no window has more of them than the limit; the numbers
\* of A are used up to its size.
Bounded(H, A, ttl, limit, now) ==
  /\ \A b \in A : b.at <= now /\ b.no <= Cardinality(A)
  /\ Since(A, now - ttl) \subseteq H /\ H \subseteq A
  /\ \A a \in A : Cardinality(During(A, a.at, ttl)) <= limit

LimitInv ==
  /\ \A k \in Throttled : Limited(k) => Bounded(hits[k], admitted[k], Ttl(k), Limit(k), clock)
  /\ \A c \in counted : Routes[c.key].store = "two_trips"

LEMMA BoundedLater ==
  ASSUME NEW A \in SUBSET Hits, NEW H, NEW ttl \in Int, NEW limit, NEW now \in Int, NEW later \in Int,
         now <= later, Bounded(H, A, ttl, limit, now)
  PROVE  Bounded(H, A, ttl, limit, later)
<1>1. \A b \in A : b.at \in Int BY DEF Hits
<1>2. Since(A, later - ttl) \subseteq Since(A, now - ttl) BY <1>1 DEF Since
<1>3. QED BY <1>1, <1>2 DEF Bounded

LEMMA BoundedForgets ==
  ASSUME NEW A \in SUBSET Hits, NEW H, NEW K, NEW ttl, NEW limit, NEW now,
         Bounded(H, A, ttl, limit, now), Since(H, now - ttl) \subseteq K, K \subseteq H
  PROVE  Bounded(K, A, ttl, limit, now)
<1>1. Since(A, now - ttl) \subseteq K BY DEF Bounded, Since
<1>2. QED BY <1>1 DEF Bounded

LEMMA BoundedAdmits ==
  ASSUME NEW A \in SUBSET Hits, IsFiniteSet(A), NEW H, NEW ttl \in Int, ttl > 0, NEW limit \in Int,
         NEW now \in Int, Bounded(H, A, ttl, limit, now), Cardinality(H) < limit,
         NEW hit, hit = [no |-> Cardinality(A) + 1, at |-> now]
  PROVE  Bounded(H \cup {hit}, A \cup {hit}, ttl, limit, now)
<1>. DEFINE B == A \cup {hit}
<1>1. Cardinality(A) \in Nat BY FS_CardinalityType
<1>2. \A b \in A : b.at \in Int /\ b.no \in Nat BY DEF Hits
<1>3. hit.at = now /\ hit.no = Cardinality(A) + 1 OBVIOUS
<1>4. hit \notin A BY <1>1, <1>2, <1>3 DEF Bounded
<1>5. IsFiniteSet(B) /\ Cardinality(B) = Cardinality(A) + 1 BY <1>4, FS_AddElement
<1>6. IsFiniteSet(H) /\ Cardinality(H) \in Nat BY FS_Subset, FS_CardinalityType DEF Bounded
<1>7. IsFiniteSet(H \cup {hit}) /\ Cardinality(H \cup {hit}) = Cardinality(H) + 1
  <2>1. hit \notin H BY <1>4 DEF Bounded
  <2>2. QED BY <1>6, <2>1, FS_AddElement
<1>8. ASSUME NEW a \in B PROVE Cardinality(During(B, a.at, ttl)) <= limit
  <2>1. CASE now \in a.at .. (a.at + ttl - 1)
    <3>1. During(B, a.at, ttl) \subseteq H \cup {hit}
      <4>. SUFFICES ASSUME NEW b \in A, b.at \in a.at .. (a.at + ttl - 1) PROVE b \in H
        BY DEF During
      <4>1. a.at \in Int BY <1>2, <1>3
      <4>2. b.at > now - ttl BY <1>2, <2>1, <4>1
      <4>3. QED BY <4>2 DEF Bounded, Since
    <3>2. Cardinality(During(B, a.at, ttl)) <= Cardinality(H \cup {hit}) BY <1>7, <3>1, FS_Subset
    <3>3. Cardinality(During(B, a.at, ttl)) \in Nat BY <1>7, <3>1, FS_Subset, FS_CardinalityType
    <3>4. QED BY <1>6, <1>7, <3>2, <3>3
  <2>2. CASE now \notin a.at .. (a.at + ttl - 1)
    <3>1. a # hit BY <1>3, <2>2
    <3>2. During(B, a.at, ttl) = During(A, a.at, ttl) BY <1>3, <2>2 DEF During
    <3>3. QED BY <3>1, <3>2 DEF Bounded
  <2>3. QED BY <2>1, <2>2
<1>9. \A b \in B : b.at <= now /\ b.no <= Cardinality(B)
  BY <1>1, <1>2, <1>3, <1>5 DEF Bounded
<1>10. Since(B, now - ttl) \subseteq H \cup {hit} /\ H \cup {hit} \subseteq B BY DEF Bounded, Since
<1>11. QED BY <1>8, <1>9, <1>10 DEF Bounded

LEMMA LimitStep == ASSUME RequestsTyped, LimitInv, [Next]_vars PROVE LimitInv'
<1>0. \A c \in counted' : Routes[c.key].store = "two_trips"
  <2>1. counted' = counted \/ \E r \in Reqs : Check(r) BY OthersUnthrottled DEF Next, Tick, vars, throttleVars
  <2>2. ASSUME NEW r \in Reqs, Check(r) PROVE \A c \in counted' : c \in counted \/ Routes[c.key].store = "two_trips"
    BY <2>2 DEF Check, throttleVars, Hit, Refuse, CountHits, AddHit
  <2>3. QED BY <2>1, <2>2 DEF LimitInv
<1>. SUFFICES ASSUME NEW k \in Throttled, Limited(k)
     PROVE  Bounded(hits'[k], admitted'[k], Ttl(k), Limit(k), clock')
  BY <1>0 DEF LimitInv, Limited, Skips, Ttl, Limit, Option
<1>1. PICK ttl \in Int : ttl = Ttl(k) BY RequestsAssumption DEF Limited
<1>2. PICK limit \in Int : limit = Limit(k) BY RequestsAssumption DEF Limited
<1>3. /\ Bounded(hits[k], admitted[k], ttl, limit, clock)
      /\ admitted[k] \in SUBSET Hits /\ IsFiniteSet(admitted[k]) /\ clock \in Int
  BY <1>1, <1>2 DEF LimitInv, RequestsTyped, ThrottleTyped, SharedTyped
<1>4. ttl > 0 BY <1>1 DEF Limited
<1>5. CASE UNCHANGED throttleVars
  <2>1. clock' \in Int /\ clock <= clock'
    <3>1. CASE Tick BY <1>3, <3>1 DEF Tick, ClockTicks
    <3>2. CASE ~Tick
      <4>1. clock' = clock
        BY <3>2 DEF Next, Step, vars, Arrive, Resolve, Match, Check, BindFails, Checked, Enter, Handle, Leave,
           Return, Filter, Respond, EndStream
      <4>2. QED BY <1>3, <4>1
    <3>3. QED BY <3>1, <3>2
  <2>2. Bounded(hits[k], admitted[k], ttl, limit, clock') BY <1>3, <2>1, BoundedLater
  <2>3. QED BY <1>1, <1>2, <1>5, <2>2 DEF throttleVars
<1>6. ASSUME NEW r \in Reqs, Check(r), ~UNCHANGED throttleVars
      PROVE  Bounded(hits'[k], admitted'[k], ttl, limit, clock)
  <2>1. PICK m \in Throttled : m = Req[r].throttle BY RequestsAssumption
  <2>2. Hit(m) \/ Refuse(m) \/ CountHits(m, r) \/ AddHit(m, r) BY <1>6, <2>1 DEF Check
  <2>. DEFINE K == InWindow(k)
  <2>3. Since(hits[k], clock - ttl) \subseteq K /\ K \subseteq hits[k]
    <3>1. \A b \in hits[k] : b.at \in Int BY DEF RequestsTyped, ThrottleTyped, Hits
    <3>2. QED BY <1>1, <1>3, <3>1 DEF Since, InWindow
  <2>4. Bounded(K, admitted[k], ttl, limit, clock) BY <1>3, <2>3, BoundedForgets
  <2>. HIDE DEF K
  <2>5. CASE m # k
    <3>1. hits'[k] = hits[k] /\ admitted'[k] = admitted[k]
      BY <2>2, <2>5 DEF Hit, Refuse, CountHits, AddHit, Admit, RequestsTyped, ThrottleTyped
    <3>2. QED BY <1>3, <3>1
  <2>6. CASE m = k
    <3>1. CASE Hit(k)
      <4>1. ~Unlimited(k) /\ ~Full(k) BY <1>1, <1>4, <3>1 DEF Hit, Limited, Unlimited
      <4>2. Cardinality(K) < limit
        <5>1. IsFiniteSet(K)  BY <1>3, <2>4, FS_Subset DEF Bounded
        <5>2. Cardinality(K) \in Nat BY <5>1, FS_CardinalityType
        <5>3. ~(Cardinality(K) >= limit) BY <1>2, <4>1 DEF Full, K
        <5>4. QED BY <5>2, <5>3
      <4>3. PICK hit : hit = Admission(k, clock) OBVIOUS
      <4>4. hit = [no |-> Cardinality(admitted[k]) + 1, at |-> clock] BY <4>3 DEF Admission
      <4>5. hits'[k] = K \cup {hit} /\ admitted'[k] = admitted[k] \cup {hit}
        BY <3>1, <4>1, <4>3 DEF Hit, Admit, Limited, K, RequestsTyped, ThrottleTyped
      <4>6. QED BY <1>3, <1>4, <2>4, <4>2, <4>4, <4>5, BoundedAdmits
    <3>2. CASE Refuse(k) \/ CountHits(k, r)
      <4>1. hits'[k] = K /\ admitted'[k] = admitted[k]
        BY <3>2 DEF Refuse, CountHits, K, RequestsTyped, ThrottleTyped
      <4>2. QED BY <2>4, <4>1
    <3>3. ~AddHit(k, r) BY DEF AddHit, LimitInv, Limited
    <3>4. QED BY <2>2, <2>6, <3>1, <3>2, <3>3
  <2>7. QED BY <2>5, <2>6
<1>7. ASSUME NEW r \in Reqs, Check(r) PROVE clock' = clock BY <1>7 DEF Check
<1>8. QED BY <1>1, <1>2, <1>5, <1>6, <1>7, OthersUnthrottled DEF Next, Tick, vars

\* In no window of ttl seconds more than limit requests of a key are let through
\* (ThrottlerGuard.can_activate, MemoryThrottlerStore.hit, _HIT_SCRIPT).
THEOREM AtMostLimitAlways == Spec => []AtMostLimit
<1>1. Init => LimitInv
  BY DEF Init, ThrottlerInit, LimitInv, Bounded, Since
<1>2. RequestsTyped /\ LimitInv /\ [Next]_vars => LimitInv' BY LimitStep
<1>3. LimitInv => AtMostLimit BY DEF LimitInv, Limited, Bounded, During, AtMostLimit
<1>4. QED BY <1>1, <1>2, <1>3, TypedAlways, PTL DEF Spec
=============================================================================
