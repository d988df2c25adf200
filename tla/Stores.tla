-------------------------------- MODULE Stores ------------------------------
(***************************************************************************)
(* What requests keep for later ones.                                      *)
(*                                                                         *)
(* fanest.cache: CacheService over MemoryCacheStore or RedisCacheStore, as  *)
(* CacheInterceptor uses it.  A key is a base (the route, or the name of    *)
(* @CacheKey) and a variant (its query and the identity behind the          *)
(* request); @CacheEvict names a base.  A value is the version of the data  *)
(* the handler saw.                                                        *)
(*                                                                         *)
(* fanest.session: FaNestSessionMiddleware over MemorySessionStore.  A      *)
(* session is the set of changes it contains, the empty set is an empty     *)
(* session; a request loads it before and saves it after everything else    *)
(* that happens to the request.                                            *)
(***************************************************************************)
EXTENDS Integers, Sequences, FiniteSets

CONSTANT MaxClock \* bound

\* The seconds that cache entries, sessions and throttled windows live.
VARIABLE clock

ClockTicks == clock < MaxClock /\ clock' = clock + 1

-----------------------------------------------------------------------------
(* Cache *)

CONSTANTS
  CacheKeys, \* [base, variant]
  CacheTtl,  \* seconds an entry lives, per base (@CacheTTL or default_ttl)
  CacheStore, \* "memory" or "redis"
  Forever    \* an expiry that never comes: ttl None

VARIABLES
  entries    \* _store: [value, expires, raced] per key, Missing without one

Missing == [value |-> -1, expires |-> -1, raced |-> FALSE]

CacheInit == entries = [k \in CacheKeys |-> Missing]

\* MemoryCacheStore.get(): an entry is served until the clock has passed its
\* expiry; Redis lets it go when the clock reaches it.
AliveInMemory(k) == entries[k].expires = Forever \/ entries[k].expires >= clock
AliveInRedis(k) == entries[k].expires = Forever \/ entries[k].expires > clock
Alive(k) ==
  entries[k] # Missing /\ IF CacheStore = "redis" THEN AliveInRedis(k) ELSE AliveInMemory(k)

\* A get() that finds an expired entry takes it out.
Looked(k) == IF Alive(k) THEN entries ELSE [entries EXCEPT ![k] = Missing]

ExpiresAt(k) == IF CacheTtl[k.base] = Forever THEN Forever ELSE clock + CacheTtl[k.base]

\* set(); raced is history: the data changed while the value was computed.
\* RedisCacheStore.set() with a ttl of 0 or less deletes.
Filled(k, v, raced) ==
  [entries EXCEPT ![k] =
     IF CacheStore = "redis" /\ CacheTtl[k.base] # Forever /\ CacheTtl[k.base] <= 0 THEN Missing
     ELSE [value |-> v, expires |-> ExpiresAt(k), raced |-> raced]]

\* delete_prefix(): the key and its variants, as @CacheKey names them ("key|...");
\* the key of a route without it has ":" for "|", so that its variants stay.
\* Variant: the bare key only.
EvictedBare(base) ==
  [k \in CacheKeys |-> IF k.base = base /\ k.variant = "bare" THEN Missing ELSE entries[k]]

Evicted(base) ==
  [k \in CacheKeys |-> IF k.base = base THEN Missing ELSE entries[k]]

-----------------------------------------------------------------------------
(* Sessions *)

CONSTANTS
  SessionIds,
  Rolling,   \* rolling: a response renews the session it did not change
  MaxAge     \* seconds a session lives, Never without max_age

VARIABLES
  stored,    \* sessions: per id, {} without one
  expiry     \* _expiry: per id, Never without one

sessionVars == <<stored, expiry>>

Never == -1

SessionInit == stored = [s \in SessionIds |-> {}] /\ expiry = [s \in SessionIds |-> Never]

SessionExpired(s) == expiry[s] # Never /\ expiry[s] <= clock

\* load(): an expired session is deleted, and empty.
LoadedSession(s) == IF SessionExpired(s) THEN {} ELSE stored[s]

LoadSession(s) ==
  /\ stored' = [stored EXCEPT ![s] = LoadedSession(s)]
  /\ expiry' = IF SessionExpired(s) THEN [expiry EXCEPT ![s] = Never] ELSE expiry

DeletedSession(s) ==
  stored' = [stored EXCEPT ![s] = {}] /\ expiry' = [expiry EXCEPT ![s] = Never]

SavedSession(s, session) ==
  IF MaxAge # Never /\ MaxAge <= 0 THEN DeletedSession(s)
  ELSE /\ stored' = [stored EXCEPT ![s] = session]
       /\ expiry' = [expiry EXCEPT ![s] = IF MaxAge = Never THEN Never ELSE clock + MaxAge]

\* Variant: the snapshot taken at the start is the session object itself.
ChangedAliased(before, session) == FALSE
Changed(before, session) == before # session

\* _cookie(): what the response does to the store.  before is the session the
\* request loaded, hadCookie whether it came with a session cookie.
SaveSession(s, before, session, hadCookie) ==
  CASE session = {} /\ ~hadCookie -> UNCHANGED sessionVars
    [] ~Rolling /\ hadCookie /\ session # {} /\ ~Changed(before, session) -> UNCHANGED sessionVars
    [] session = {} /\ hadCookie -> DeletedSession(s)
    [] OTHER -> SavedSession(s, session)
=============================================================================
