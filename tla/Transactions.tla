---------------------------- MODULE Transactions ----------------------------
(***************************************************************************)
(* fanest.sqlalchemy and fanest.mongodb: transaction() puts its session     *)
(* into a context variable, which the tasks started inside inherit, and the *)
(* repositories look there for the session of their service.  For SQL the   *)
(* variable holds a session per service; for Mongo it holds one session,    *)
(* which the collections do not use.                                        *)
(***************************************************************************)
EXTENDS Integers, FiniteSets, SequencesExt

CONSTANTS
  Tasks, Sql, Mongo,    \* the tasks; the services of each kind
  Applications,         \* sets of services used together
  MaxSessions, MaxSaves, MaxDepth \* bounds: sessions, writes, nested transaction()s

VARIABLES
  used,      \* the services of the application
  task,      \* per task: [at, raising, frames, ambient]; frames are its open transaction()s
  parent,    \* per task: the tasks it was started by, directly or not
  sessions,  \* [service, by, state, broken, writes]
  committed, \* per service: the writes in the database
  saved,     \* history: the writes that returned: [no, service, by, session, late]
  closed     \* services that are shut down

txVars == <<used, task, parent, sessions, committed, saved, closed>>

Services == Sql \cup Mongo
NoSession == 0
NoSessions == [s \in Services |-> NoSession]

ASSUME TransactionsAssumption ==
  Sql \cap Mongo = {} /\ \A a \in Applications : a \subseteq Services

TransactionsInit ==
  /\ used \in Applications
  /\ task = [t \in Tasks |-> [at |-> "off", raising |-> FALSE, frames |-> <<>>, ambient |-> NoSessions]]
  /\ parent = [t \in Tasks |-> {}] /\ sessions = <<>>
  /\ committed = [s \in Services |-> {}] /\ saved = {} /\ closed = {}

On(t) == task[t].at = "on" /\ ~task[t].raising

\* A request's task, or one started by another, which copies its context.
Start(t) ==
  /\ task[t].at = "off"
  /\ \/ task' = [task EXCEPT ![t].at = "on"] /\ UNCHANGED parent
     \/ \E p \in Tasks :
          /\ On(p)
          /\ task' = [task EXCEPT ![t].at = "on", ![t].ambient = task[p].ambient]
          /\ parent' = [parent EXCEPT ![t] = {p} \cup parent[p]]
  /\ UNCHANGED <<used, sessions, committed, saved, closed>>

\* The session that is ambient for service s: of Mongo's services there is one.
Ambient(t, s) == task[t].ambient[s]
SessionOf(t, s) == Ambient(t, s)

\* The registry is copied before the session is put into it.
WithSession(t, s, i) ==
  [r \in Services |-> IF r = s \/ {r, s} \subseteq Mongo THEN i ELSE task[t].ambient[r]]

\* transaction(): joins the ambient session, or opens one.
Enter(t, s) ==
  /\ On(t) /\ Len(task[t].frames) < MaxDepth
  /\ IF s \in closed THEN task' = [task EXCEPT ![t].raising = TRUE] /\ UNCHANGED sessions
     ELSE IF SessionOf(t, s) # NoSession
     THEN /\ task' = [task EXCEPT ![t].frames = Append(@, [session |-> NoSession, outer |-> task[t].ambient])]
          /\ UNCHANGED sessions
     ELSE /\ Len(sessions) < MaxSessions
          /\ sessions' = Append(sessions, [service |-> s, by |-> t, state |-> "open", broken |-> FALSE, writes |-> {}])
          /\ task' = [task EXCEPT ![t].frames = Append(@, [session |-> Len(sessions) + 1, outer |-> task[t].ambient]),
                                  ![t].ambient = WithSession(t, s, Len(sessions) + 1)]
  /\ UNCHANGED <<used, parent, committed, saved, closed>>

Write(t, s, i) ==
  [no |-> Cardinality(saved) + 1, service |-> s, by |-> t, session |-> i,
   late |-> i # NoSession /\ sessions[i].state # "open"]

\* _commit_or_flush().  Variant: a repository commits what it wrote.
Committed(w) == committed' = [committed EXCEPT ![w.service] = @ \cup {w.no}]
CommitAlways(w) == Committed(w)
CommitOrFlush(w) == IF w.session = NoSession THEN Committed(w) ELSE UNCHANGED committed

\* A repository writes: in the ambient session, or in one of its own.
SqlSave(t, s) ==
  /\ On(t) /\ s \in Sql /\ Cardinality(saved) < MaxSaves
  /\ LET i == SessionOf(t, s)
         w == Write(t, s, i)
     IN /\ i = NoSession => s \notin closed
        /\ i # NoSession => ~sessions[i].broken
        /\ saved' = saved \cup {w}
        /\ CommitOrFlush(w)
        /\ sessions' = IF i = NoSession \/ w.late THEN sessions ELSE [sessions EXCEPT ![i].writes = @ \cup {w.no}]
  /\ UNCHANGED <<used, task, parent, closed>>

\* The database refuses the write, which breaks the session, or it is broken
\* already, or the service is closed.
SaveFails(t, s) ==
  /\ On(t) /\ task' = [task EXCEPT ![t].raising = TRUE]
  /\ LET i == SessionOf(t, s)
     IN sessions' = IF s \in Mongo \/ i = NoSession THEN sessions ELSE [sessions EXCEPT ![i].broken = TRUE]
  /\ UNCHANGED <<used, parent, committed, saved, closed>>

\* A Motor collection passes no session: its writes are there at once.
MongoSave(t, s) ==
  /\ On(t) /\ s \in Mongo /\ Cardinality(saved) < MaxSaves
  /\ LET w == Write(t, s, NoSession)
     IN saved' = saved \cup {w} /\ Committed(w)
  /\ UNCHANGED <<used, task, parent, sessions, closed>>

\* The code of the task raises; inside an outer transaction() that is caught.
Raise(t) ==
  /\ On(t) /\ task[t].frames # <<>> /\ task' = [task EXCEPT ![t].raising = TRUE]
  /\ UNCHANGED <<used, parent, sessions, committed, saved, closed>>

Catch(t) ==
  /\ task[t].raising /\ task[t].frames # <<>> /\ task' = [task EXCEPT ![t].raising = FALSE]
  /\ UNCHANGED <<used, parent, sessions, committed, saved, closed>>

\* transaction() is left: the owner of the session commits it, or rolls it back;
\* a broken session cannot be committed, and a commit may fail.
Leave(t) ==
  /\ task[t].at = "on" /\ task[t].frames # <<>>
  /\ LET frame == Last(task[t].frames)
         i == frame.session
         Left(state, raising) ==
           /\ sessions' = [sessions EXCEPT ![i].state = state]
           /\ task' = [task EXCEPT ![t].frames = Front(@), ![t].ambient = frame.outer, ![t].raising = raising]
     IN IF i = NoSession
        THEN task' = [task EXCEPT ![t].frames = Front(@)] /\ UNCHANGED <<sessions, committed>>
        ELSE \/ Left("rolled back", TRUE) /\ UNCHANGED committed
             \/ /\ ~task[t].raising /\ ~sessions[i].broken
                /\ Left("committed", FALSE)
                /\ committed' = [committed EXCEPT ![sessions[i].service] = @ \cup sessions[i].writes]
  /\ UNCHANGED <<used, parent, saved, closed>>

\* close(), on_application_shutdown().
CloseService(s) ==
  /\ s \notin closed /\ closed' = closed \cup {s}
  /\ UNCHANGED <<used, task, parent, sessions, committed, saved>>

TransactionsNext ==
  \/ \E t \in Tasks : Start(t) \/ Raise(t) \/ Catch(t) \/ Leave(t)
  \/ \E t \in Tasks, s \in used : Enter(t, s) \/ SqlSave(t, s) \/ MongoSave(t, s) \/ SaveFails(t, s)
  \/ \E s \in used : CloseService(s)

TransactionsSpec == TransactionsInit /\ [][TransactionsNext]_txVars

-----------------------------------------------------------------------------
(* Properties *)

\* The database holds all writes of a transaction or none of them, and every
\* write outside of one, whatever raises and whoever joined it; what a task
\* writes after the transaction it inherited has ended is lost
\* (sqlalchemy/module.py:163, 507).
AllOrNothing ==
  \A w \in saved :
    (w.no \in committed[w.service]) =
      (w.session = NoSession \/ (~w.late /\ sessions[w.session].state = "committed"))

\* A write goes to a session of its own service, opened by its task or by one
\* that task was started from (sqlalchemy/module.py:498).
OwnSession ==
  \A w \in saved : w.session # NoSession =>
    /\ sessions[w.session].service = w.service
    /\ sessions[w.session].by \in {w.by} \cup parent[w.by]

\* Transactions keep together what belongs together, and apart what does not.
TransactionsIsolated == AllOrNothing /\ OwnSession
=============================================================================
