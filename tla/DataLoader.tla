------------------------------ MODULE DataLoader ----------------------------
(***************************************************************************)
(* GraphQLDataLoader (fanest.graphql): concurrent load() calls collect keys *)
(* in _pending, and the dispatch() task scheduled by the first one loads    *)
(* them in one batch.  A value is the version of its key in the data source *)
(* at the time the batch function read it.                                  *)
(***************************************************************************)
EXTENDS Integers, FiniteSets

CONSTANTS Loads, Keys, MaxVersion, MaxClears \* Loads: the load() calls; bounds

VARIABLES
  version,   \* per key: its version in the data source
  cache,     \* _cache: per key a version, None, or Absent
  waiting,   \* _pending: the keys that have a future
  scheduled, \* _scheduled
  batches,   \* dispatch() tasks under way: [keys, read], read is NotRead or the versions
  load,      \* per call: [at, key, got]; at "waiting" it awaits the future of its key
  joined,    \* per call: the batch its future went to, NoBatch before
  started,   \* dispatch() calls so far
  clears,    \* clear() calls so far
  oldest,    \* history, per key: no older version may be returned any more
  lost       \* history: the batches that ended with CancelledError

loaderVars == <<version, cache, waiting, scheduled, batches, load, joined, started, clears, oldest, lost>>

Absent == -1
None == 0 \* the batch returned fewer values than keys
NotRead == [k \in Keys |-> Absent]
NoBatch == 0

LoaderInit ==
  /\ version = [k \in Keys |-> 1] /\ cache = [k \in Keys |-> Absent]
  /\ waiting = {} /\ scheduled = FALSE /\ batches = {} /\ started = 0
  /\ load = [l \in Loads |-> [at |-> "idle", key |-> "", got |-> Absent]]
  /\ joined = [l \in Loads |-> NoBatch] /\ clears = 0 /\ oldest = [k \in Keys |-> 1] /\ lost = {}

\* The future the key has in _pending was cancelled.
FutureCancelled(k) == k \in waiting /\ \E m \in Loads : load[m].at = "cancelled" /\ load[m].key = k /\ joined[m] = NoBatch

\* load(): from the cache, with the future of the key, or with a new one; the
\* await of a cancelled future raises CancelledError at once.
Load(l, k) ==
  /\ load[l].at = "idle"
  /\ IF cache[k] # Absent
     THEN load' = [load EXCEPT ![l] = [at |-> "value", key |-> k, got |-> cache[k]]] /\ UNCHANGED <<waiting, scheduled>>
     ELSE /\ load' = [load EXCEPT ![l] = [at |-> IF FutureCancelled(k) THEN "cancelled" ELSE "waiting",
                                         key |-> k, got |-> Absent]]
          /\ waiting' = waiting \cup {k} /\ scheduled' = (scheduled \/ k \notin waiting)
  /\ UNCHANGED <<version, cache, batches, joined, started, clears, oldest, lost>>

\* dispatch() takes the keys and calls the batch function.
Dispatch ==
  /\ scheduled /\ scheduled' = FALSE
  /\ waiting' = {} /\ started' = started + 1
  /\ batches' = batches \cup {[no |-> started + 1, keys |-> waiting, read |-> NotRead]}
  /\ joined' = [l \in Loads |-> IF load[l].at \in {"waiting", "cancelled"} /\ joined[l] = NoBatch THEN started + 1 ELSE joined[l]]
  /\ UNCHANGED <<version, cache, load, clears, oldest, lost>>

\* The batch function reads its keys; it may leave the last ones out.
Read(b) ==
  /\ b.read = NotRead
  /\ \E found \in SUBSET b.keys :
       batches' = (batches \ {b}) \cup {[b EXCEPT !.read = [k \in Keys |-> IF k \in found THEN version[k] ELSE None]]}
  /\ UNCHANGED <<version, cache, waiting, scheduled, load, joined, started, clears, oldest, lost>>

Settled(b, l) == load[l].at = "waiting" /\ joined[l] = b.no

\* dispatch() caches the values and settles the futures that are not done.
Return(b) ==
  /\ b.read # NotRead /\ batches' = batches \ {b}
  /\ cache' = [k \in Keys |-> IF k \in b.keys THEN b.read[k] ELSE cache[k]]
  /\ load' = [l \in Loads |-> IF Settled(b, l) THEN [load[l] EXCEPT !.at = "value", !.got = b.read[load[l].key]]
                              ELSE load[l]]
  /\ UNCHANGED <<version, waiting, scheduled, joined, started, clears, oldest, lost>>

\* Variant: only the futures of the first key learn of the error.
FirstFails(b) == {l \in Loads : Settled(b, l) /\ load[l].key = CHOOSE k \in b.keys : TRUE}
AllFail(b) == {l \in Loads : Settled(b, l)}

\* The batch function raises an Exception: so do all the calls, and nothing is cached.
Raise(b) ==
  /\ batches' = batches \ {b}
  /\ load' = [l \in Loads |-> IF l \in AllFail(b) THEN [load[l] EXCEPT !.at = "error"] ELSE load[l]]
  /\ UNCHANGED <<version, cache, waiting, scheduled, joined, started, clears, oldest, lost>>

\* What the batch function awaits is cancelled: CancelledError is no Exception,
\* and the futures of the batch are never settled.
BatchCancelled(b) ==
  /\ batches' = batches \ {b} /\ lost' = lost \cup {b.no}
  /\ UNCHANGED <<version, cache, waiting, scheduled, load, joined, started, clears, oldest>>

\* The task of a call is cancelled: so is the future it shares with other calls.
Cancel(l) ==
  /\ load[l].at = "waiting"
  /\ load' = [m \in Loads |-> IF load[m].at = "waiting" /\ load[m].key = load[l].key /\ joined[m] = joined[l]
                              THEN [load[m] EXCEPT !.at = "cancelled"] ELSE load[m]]
  /\ UNCHANGED <<version, cache, waiting, scheduled, batches, joined, started, clears, oldest, lost>>

\* Variant: a clear() while a batch is scheduled is forgotten.
ClearedIdle(ks) == IF scheduled THEN {} ELSE ks
Cleared(ks) == ks

Loading(k) == k \in waiting \/ \E b \in batches : k \in b.keys
\* The data source changes and clear() is called, for the key or for all; while
\* a batch loads a key, clearing it does not keep the old value away.
Clear(ks) ==
  /\ clears < MaxClears /\ clears' = clears + 1
  /\ \E k \in ks : version[k] < MaxVersion
  /\ version' = [k \in Keys |-> IF k \in ks /\ version[k] < MaxVersion THEN version[k] + 1 ELSE version[k]]
  /\ cache' = [k \in Keys |-> IF k \in Cleared(ks) THEN Absent ELSE cache[k]]
  /\ oldest' = [k \in Keys |-> IF k \in ks /\ ~Loading(k) THEN version'[k] ELSE oldest[k]]
  /\ UNCHANGED <<waiting, scheduled, batches, load, joined, started, lost>>

\* prime() keeps what is cached.
Prime(k) ==
  /\ cache' = [cache EXCEPT ![k] = IF @ = Absent THEN version[k] ELSE @]
  /\ UNCHANGED <<version, waiting, scheduled, batches, load, joined, started, clears, oldest, lost>>

DispatchStep == Dispatch \/ \E b \in batches : Read(b) \/ Return(b) \/ Raise(b) \/ BatchCancelled(b)

LoaderNext ==
  \/ DispatchStep
  \/ \E l \in Loads : Cancel(l) \/ \E k \in Keys : Load(l, k)
  \/ \E k \in Keys : Clear({k}) \/ Prime(k)
  \/ Clear(Keys)

LoaderSpec == LoaderInit /\ [][LoaderNext]_loaderVars

\* Once clear() was called while nothing loaded the key, no call returns an
\* older value, also one that began before other batches ended (module.py:115,
\* 133).  A call that waits then belongs to a batch still to read.
FreshAfterClear ==
  \A k \in Keys :
    /\ cache[k] \in {Absent, None} \/ cache[k] >= oldest[k]
    /\ \A b \in batches : k \in b.keys /\ b.read # NotRead => b.read[k] = None \/ b.read[k] >= oldest[k]

\* Every load() call ends, with a value, the batch's error or a cancellation
\* (module.py:108, 129), unless the batch function of its own batch was cancelled:
\* those calls are left waiting (module.py:128), and no others.
LoadEnds == \A l \in Loads : load[l].at = "waiting" ~> load[l].at # "waiting" \/ joined[l] \in lost
=============================================================================
