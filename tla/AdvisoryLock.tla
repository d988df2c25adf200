----------------------------- MODULE AdvisoryLock ---------------------------
(***************************************************************************)
(* SqlAlchemyService.advisory_lock() around create_all(): processes on one  *)
(* database, each with a connection pool, and tasks in them.  On Postgres   *)
(* and MySQL a task waits for the lock on a connection of its own and       *)
(* create_all() takes a second one; otherwise there is a lock in the        *)
(* process.                                                                 *)
(***************************************************************************)
EXTENDS Integers, FiniteSets

CONSTANTS
  Contenders, \* tasks that call create_all()
  ProcessOf,  \* per task its process
  Dialects, PoolSize

VARIABLES
  dialect,
  step,   \* per task: "idle", "locking", "holding", "working", "leaving", "done", "failed"
  held,   \* per task: connections it has
  owner   \* the owners of the lock: in the database, or in each process

lockVars == <<dialect, step, held, owner>>

InDatabase == dialect # "sqlite"

LockInit ==
  /\ dialect \in Dialects /\ step = [c \in Contenders |-> "idle"] /\ held = [c \in Contenders |-> 0] /\ owner = {}

Set(c, s) == step' = [step EXCEPT ![c] = s]
Used(p) == Cardinality({c \in Contenders : ProcessOf[c] = p /\ held[c] >= 1})
           + Cardinality({c \in Contenders : ProcessOf[c] = p /\ held[c] = 2})
Free(c) == Used(ProcessOf[c]) < PoolSize

Connect(c) ==
  /\ step[c] = "idle"
  /\ IF ~InDatabase THEN Set(c, "locking") /\ UNCHANGED held
     ELSE Free(c) /\ Set(c, "locking") /\ held' = [held EXCEPT ![c] = 1]
  /\ UNCHANGED <<dialect, owner>>

\* pg_advisory_lock, GET_LOCK, or the asyncio.Lock of the process.  Variant: that
\* of the process whatever the database.
FreeInProcess(c) == \A o \in owner : ProcessOf[o] # ProcessOf[c]
LockFree(c) == \A o \in owner : ~InDatabase /\ ProcessOf[o] # ProcessOf[c]

Lock(c) ==
  /\ step[c] = "locking" /\ LockFree(c)
  /\ owner' = owner \cup {c} /\ Set(c, "holding")
  /\ UNCHANGED <<dialect, held>>

\* create_all() begins on a connection.
Work(c) ==
  /\ step[c] = "holding" /\ (InDatabase => Free(c))
  /\ held' = [held EXCEPT ![c] = @ + 1] /\ Set(c, "working")
  /\ UNCHANGED <<dialect, owner>>

Worked(c) ==
  /\ step[c] = "working" /\ held' = [held EXCEPT ![c] = @ - 1] /\ Set(c, "leaving")
  /\ UNCHANGED <<dialect, owner>>

\* No connection becomes free within the time-out of the pool.
Starved(c) == step[c] \in {"idle", "holding"} /\ InDatabase

PoolTimeout(c) ==
  /\ Starved(c) /\ ~Free(c)
  /\ Set(c, IF step[c] = "idle" THEN "failed" ELSE "leaving")
  /\ UNCHANGED <<dialect, held, owner>>

\* The task is cancelled while it waits for the lock, or works.
CancelWait(c) ==
  /\ step[c] \in {"locking", "working"}
  /\ held' = [held EXCEPT ![c] = IF step[c] = "working" THEN @ - 1 ELSE @]
  /\ Set(c, "leaving")
  /\ UNCHANGED <<dialect, owner>>

\* The lock is released and the connection closed, in this order.
Unlock(c) ==
  /\ step[c] = "leaving" /\ owner' = owner \ {c}
  /\ held' = [held EXCEPT ![c] = 0] /\ Set(c, "done")
  /\ UNCHANGED dialect

Contend(c) == Connect(c) \/ Lock(c) \/ Work(c) \/ Worked(c) \/ PoolTimeout(c) \/ Unlock(c)
LockNext == \E c \in Contenders : Contend(c) \/ CancelWait(c)

LockSpec == LockInit /\ [][LockNext]_lockVars

\* Two tasks never create the schema at once: of all processes on Postgres and
\* MySQL, of one process elsewhere (sqlalchemy/module.py:205).
LockExcludes ==
  \A c, d \in Contenders :
    c # d /\ step[c] = "working" /\ step[d] = "working" =>
      ~InDatabase /\ ProcessOf[c] # ProcessOf[d]

\* Every create_all() ends, also when those that wait for the lock have taken
\* all connections of the pool (sqlalchemy/module.py:222, 258).
CreateAllEnds == \A c \in Contenders : step[c] # "idle" ~> step[c] \in {"done", "failed"}
=============================================================================
