------------------------------- MODULE Throttler ----------------------------
(***************************************************************************)
(* fanest.throttler: the guard's decision over MemoryThrottlerStore, over   *)
(* RedisThrottlerStore with its script, and over a Redis client that has no *)
(* EVAL, which counts and adds in two round trips.  hit() of one process is *)
(* atomic; with Redis several processes share the keys.  Windows go by the  *)
(* clock of Stores.                                                        *)
(***************************************************************************)
EXTENDS Stores

CONSTANTS
  Routes,    \* per throttle key: [service, controller, handler, store], each of the
             \* first three [skip, limit, ttl]; the store is "memory", "redis" or
             \* "two_trips"
  Unset      \* an option that a decorator leaves out

VARIABLES
  hits,      \* per key: what the store keeps of the hits it counted, [no, at]
  admitted,  \* history, per key: the requests let through, [no, at]: in what order, when
  counted    \* requests between the two round trips: [key, by, at]

Throttled == DOMAIN Routes

\* ThrottlerGuard._metadata and can_activate: what the handler says comes before
\* what its controller says, and that before the service's options.
Option(k, name) ==
  IF Routes[k].handler[name] # Unset THEN Routes[k].handler[name]
  ELSE IF Routes[k].controller[name] # Unset THEN Routes[k].controller[name]
  ELSE Routes[k].service[name]

Skips(k) == Option(k, "skip") = TRUE
Limit(k) == Option(k, "limit")
Ttl(k) == Option(k, "ttl")

throttleVars == <<hits, admitted, counted>>

ThrottlerInit ==
  /\ hits = [k \in Throttled |-> {}]
  /\ admitted = [k \in Throttled |-> {}]
  /\ counted = {}

\* Variant: hits are counted in fixed windows, which start at the multiples of
\* the ttl.
InFixedWindow(k) == {h \in hits[k] : h.at >= clock - (clock % Ttl(k))}

\* The hits still in the window: the memory store keeps one that is exactly ttl
\* old, Redis does not.
InWindow(k) ==
  {h \in hits[k] : IF Routes[k].store = "memory" THEN h.at >= clock - Ttl(k)
                   ELSE h.at > clock - Ttl(k)}

Unlimited(k) == Routes[k].store # "memory" /\ Limit(k) > 0 /\ Ttl(k) <= 0
Full(k) == ~Unlimited(k) /\ (Limit(k) <= 0 \/ Cardinality(InWindow(k)) >= Limit(k))

Admission(k, time) == [no |-> Cardinality(admitted[k]) + 1, at |-> time]
Admit(k, time) == admitted' = [admitted EXCEPT ![k] = @ \cup {Admission(k, time)}]

\* can_activate() lets the request through: the route is not throttled, or
\* hit() says so.
Hit(k) ==
  /\ Skips(k) \/ (Routes[k].store # "two_trips" /\ ~Full(k))
  /\ hits' = IF Skips(k) \/ Unlimited(k) THEN hits
             ELSE [hits EXCEPT ![k] = InWindow(k) \cup {Admission(k, clock)}]
  /\ Admit(k, clock)
  /\ UNCHANGED counted

\* hit() refuses it: 429.
Refuse(k) ==
  /\ ~Skips(k) /\ Full(k)
  /\ hits' = [hits EXCEPT ![k] = InWindow(k)]
  /\ UNCHANGED <<admitted, counted>>

\* ZREMRANGEBYSCORE and ZCARD of a client without EVAL, and later its ZADD.
CountHits(k, r) ==
  /\ ~Skips(k) /\ Routes[k].store = "two_trips" /\ ~Full(k) /\ ~\E c \in counted : c.by = r
  /\ hits' = [hits EXCEPT ![k] = InWindow(k)]
  /\ counted' = counted \cup {[key |-> k, by |-> r, at |-> clock]}
  /\ UNCHANGED admitted

AddHit(k, r) ==
  \E c \in counted :
    /\ c.key = k /\ c.by = r
    /\ counted' = counted \ {c}
    /\ hits' = [hits EXCEPT ![k] = @ \cup {Admission(k, c.at)}]
    /\ Admit(k, c.at)

-----------------------------------------------------------------------------
(* Properties *)

\* In no window of ttl seconds more than limit requests of one key are let
\* through, whenever they come, by a store that counts and adds at once
\* (module.py:29, 47).
AtMostLimit ==
  \A k \in Throttled : \A a \in admitted[k] :
    ~Skips(k) /\ Ttl(k) > 0 /\ Routes[k].store # "two_trips" =>
      Cardinality({b \in admitted[k] : b.at \in a.at .. (a.at + Ttl(k) - 1)}) <= Limit(k)
=============================================================================
