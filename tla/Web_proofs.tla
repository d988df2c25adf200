------------------------------ MODULE Web_proofs ----------------------------
(***************************************************************************)
(* The database's transactions, the messages of a gateway, a call of the   *)
(* HTTP client with its guards, the records of the queue backends, the     *)
(* visits of Inertia, file uploads and the routes of controllers, for any  *)
(* number of services, tasks, frames, attempts, processes, requests, files *)
(* and routes.  Each part states what its loop or its context relies on    *)
(* between two steps, and shows that no step disturbs it.                  *)
(***************************************************************************)
EXTENDS MCWeb, FiniteSetTheorems, SequenceTheorems, WellFoundedInduction, TLAPS

-----------------------------------------------------------------------------
(* Transactions *)

SessionRecords == [service: Services, by: Tasks, state: {"open", "committed", "rolled back"},
                   broken: BOOLEAN, writes: SUBSET Nat]
Contexts == [Services -> Nat]
Frame == [session: Nat, outer: Contexts]
TaskRecords == [at: {"off", "on"}, raising: BOOLEAN, frames: Seq(Frame), ambient: Contexts]
WriteRecords == [no: Nat, service: Services, by: Tasks, session: Nat, late: BOOLEAN]

TxTyped ==
  /\ used \subseteq Services
  /\ task \in [Tasks -> TaskRecords] /\ parent \in [Tasks -> SUBSET Tasks]
  /\ sessions \in Seq(SessionRecords) /\ committed \in [Services -> SUBSET Nat]
  /\ saved \subseteq WriteRecords /\ IsFiniteSet(saved)

\* The sessions in a context were opened by the task or by one it comes from,
\* and the one of an SQL service is of that service.
Inherits(t, context) ==
  \A s \in Services : context[s] # NoSession =>
    /\ context[s] \in DOMAIN sessions /\ sessions[context[s]].by \in {t} \cup parent[t]
    /\ sessions[context[s]].service \in Services
    /\ s \in Sql => sessions[context[s]].service = s
ContextsKept ==
  \A t \in Tasks :
    /\ Inherits(t, task[t].ambient)
    /\ \A k \in DOMAIN task[t].frames : Inherits(t, task[t].frames[k].outer)
    /\ task[t].at = "off" => parent[t] = {}

\* The session that transaction() opened is open until it is left, and is left
\* once.
Owns(t, k) ==
  LET i == task[t].frames[k].session
  IN i # NoSession =>
       /\ i \in DOMAIN sessions /\ sessions[i].state = "open" /\ sessions[i].by = t
       /\ \A l \in DOMAIN task[t].frames : task[t].frames[l].session = i => l = k
SessionsOwned == \A t \in Tasks : \A k \in DOMAIN task[t].frames : Owns(t, k)

\* The writes are numbered; a session has those that were made in it in time.
Numbered ==
  /\ \A w \in saved : w.no \in 1 .. Cardinality(saved)
  /\ \A v, w \in saved : v.no = w.no => v = w
  /\ \A s \in Services : committed[s] \subseteq 1 .. Cardinality(saved)
  /\ \A i \in DOMAIN sessions : \A n \in sessions[i].writes :
       \E w \in saved : w.no = n /\ w.session = i /\ ~w.late
InSession ==
  \A w \in saved : w.session # NoSession =>
    w.session \in DOMAIN sessions /\ (~w.late => w.no \in sessions[w.session].writes)

\* What a step does to the record of a task.
TaskSet(t, now, raising, stack, ambient) ==
  /\ task' \in [Tasks -> TaskRecords]
  /\ task'[t].at = now /\ task'[t].raising = raising
  /\ task'[t].frames = stack /\ task'[t].ambient = ambient
  /\ \A u \in Tasks \ {t} : task'[u] = task[u]

LEMMA ServicesUsed == TransactionsInit => used \subseteq Services
BY TransactionsAssumption DEF TransactionsInit

LEMMA TaskTyped ==
  ASSUME TxTyped, NEW t \in Tasks
  PROVE  /\ task[t] \in TaskRecords /\ task[t].at \in {"off", "on"} /\ task[t].raising \in BOOLEAN
         /\ task[t].frames \in Seq(Frame) /\ task[t].ambient \in Contexts
BY DEF TxTyped, TaskRecords

LEMMA TaskReplaced ==
  ASSUME TxTyped, NEW t \in Tasks, NEW r \in TaskRecords, task' = [task EXCEPT ![t] = r]
  PROVE  TaskSet(t, r.at, r.raising, r.frames, r.ambient)
BY DEF TxTyped, TaskSet

LEMMA RecordChanged ==
  ASSUME NEW r \in TaskRecords, NEW b \in BOOLEAN, NEW f \in Seq(Frame), NEW m \in Contexts
  PROVE  /\ [r EXCEPT !.raising = b] \in TaskRecords /\ [r EXCEPT !.raising = b].raising = b
         /\ [r EXCEPT !.raising = b].at = r.at /\ [r EXCEPT !.raising = b].frames = r.frames
         /\ [r EXCEPT !.raising = b].ambient = r.ambient
         /\ [r EXCEPT !.frames = f] \in TaskRecords /\ [r EXCEPT !.frames = f].frames = f
         /\ [r EXCEPT !.frames = f].at = r.at /\ [r EXCEPT !.frames = f].raising = r.raising
         /\ [r EXCEPT !.frames = f].ambient = r.ambient
         /\ [r EXCEPT !.ambient = m] \in TaskRecords /\ [r EXCEPT !.ambient = m].ambient = m
         /\ [r EXCEPT !.ambient = m].at = r.at /\ [r EXCEPT !.ambient = m].raising = r.raising
         /\ [r EXCEPT !.ambient = m].frames = r.frames
         /\ [r EXCEPT !.at = "on"] \in TaskRecords /\ [r EXCEPT !.at = "on"].at = "on"
         /\ [r EXCEPT !.at = "on"].ambient = r.ambient /\ [r EXCEPT !.at = "on"].raising = r.raising
         /\ [r EXCEPT !.at = "on"].frames = r.frames
BY DEF TaskRecords

LEMMA RaisingSet ==
  ASSUME TxTyped, NEW t \in Tasks, NEW b \in BOOLEAN, task' = [task EXCEPT ![t].raising = b]
  PROVE  TaskSet(t, task[t].at, b, task[t].frames, task[t].ambient)
<1>1. task[t] \in TaskRecords BY TaskTyped
<1>2. task' = [task EXCEPT ![t] = [task[t] EXCEPT !.raising = b]] OBVIOUS
<1>. DEFINE r == [task[t] EXCEPT !.raising = b]
<1>3. r \in TaskRecords /\ r.raising = b /\ r.at = task[t].at /\ r.frames = task[t].frames
      /\ r.ambient = task[t].ambient
  BY <1>1, RecordChanged DEF TaskRecords
<1>4. task' = [task EXCEPT ![t] = r] BY <1>2
<1>. HIDE DEF r
<1>5. QED BY <1>3, <1>4, TaskReplaced

LEMMA FramesSet ==
  ASSUME TxTyped, NEW t \in Tasks, NEW f \in Seq(Frame), task' = [task EXCEPT ![t].frames = f]
  PROVE  TaskSet(t, task[t].at, task[t].raising, f, task[t].ambient)
<1>1. task[t] \in TaskRecords BY TaskTyped
<1>2. task' = [task EXCEPT ![t] = [task[t] EXCEPT !.frames = f]] OBVIOUS
<1>. DEFINE r == [task[t] EXCEPT !.frames = f]
<1>3. r \in TaskRecords /\ r.raising = task[t].raising /\ r.at = task[t].at /\ r.frames = f
      /\ r.ambient = task[t].ambient
  BY <1>1, RecordChanged DEF TaskRecords
<1>4. task' = [task EXCEPT ![t] = r] BY <1>2
<1>. HIDE DEF r
<1>5. QED BY <1>3, <1>4, TaskReplaced

LEMMA FramesAmbientSet ==
  ASSUME TxTyped, NEW t \in Tasks, NEW f \in Seq(Frame), NEW m \in Contexts,
         task' = [task EXCEPT ![t].frames = f, ![t].ambient = m]
  PROVE  TaskSet(t, task[t].at, task[t].raising, f, m)
<1>. DEFINE q == [task[t] EXCEPT !.frames = f]
            r == [q EXCEPT !.ambient = m]
<1>1. task[t] \in TaskRecords /\ task \in [Tasks -> TaskRecords] BY DEF TxTyped
<1>2. q \in TaskRecords /\ q.raising = task[t].raising /\ q.at = task[t].at /\ q.frames = f
  BY <1>1 DEF TaskRecords
<1>3. task' = [task EXCEPT ![t] = r] BY <1>1 DEF TaskRecords
<1>4. r \in TaskRecords /\ r.raising = q.raising /\ r.at = q.at /\ r.frames = q.frames /\ r.ambient = m
  <2>. HIDE DEF q
  <2>1. QED BY <1>2 DEF TaskRecords
<1>. HIDE DEF q, r
<1>5. QED BY <1>2, <1>3, <1>4, TaskReplaced

LEMMA LeftSet ==
  ASSUME TxTyped, NEW t \in Tasks, NEW f \in Seq(Frame), NEW m \in Contexts, NEW b \in BOOLEAN,
         task' = [task EXCEPT ![t].frames = f, ![t].ambient = m, ![t].raising = b]
  PROVE  TaskSet(t, task[t].at, b, f, m)
<1>. DEFINE p == [task[t] EXCEPT !.frames = f]
            q == [p EXCEPT !.ambient = m]
            r == [q EXCEPT !.raising = b]
<1>1. task[t] \in TaskRecords /\ task \in [Tasks -> TaskRecords] BY DEF TxTyped
<1>2. p \in TaskRecords /\ p.at = task[t].at /\ p.frames = f BY <1>1 DEF TaskRecords
<1>3. task' = [task EXCEPT ![t] = r] BY <1>1 DEF TaskRecords
<1>4. q \in TaskRecords /\ q.at = p.at /\ q.frames = p.frames /\ q.ambient = m
  <2>. HIDE DEF p
  <2>1. QED BY <1>2 DEF TaskRecords
<1>5. r \in TaskRecords /\ r.raising = b /\ r.at = q.at /\ r.frames = q.frames /\ r.ambient = q.ambient
  <2>. HIDE DEF q
  <2>1. QED BY <1>4 DEF TaskRecords
<1>. HIDE DEF p, q, r
<1>6. QED BY <1>2, <1>3, <1>4, <1>5, TaskReplaced

LEMMA StartSet ==
  ASSUME TxTyped, NEW t \in Tasks, Start(t)
  PROVE  \/ /\ TaskSet(t, "on", task[t].raising, task[t].frames, task[t].ambient)
            /\ parent' = parent
         \/ \E p \in Tasks :
              /\ TaskSet(t, "on", task[t].raising, task[t].frames, task[p].ambient)
              /\ parent' = [parent EXCEPT ![t] = {p} \cup parent[p]]
<1>1. task[t] \in TaskRecords /\ task \in [Tasks -> TaskRecords] BY DEF TxTyped
<1>. DEFINE q == [task[t] EXCEPT !.at = "on"]
<1>2. q \in TaskRecords /\ q.at = "on" /\ q.raising = task[t].raising /\ q.frames = task[t].frames
      /\ q.ambient = task[t].ambient
  BY <1>1 DEF TaskRecords
<1>3. CASE task' = [task EXCEPT ![t].at = "on"] /\ UNCHANGED parent
  <2>1. task' = [task EXCEPT ![t] = q] BY <1>3
  <2>. HIDE DEF q
  <2>2. TaskSet(t, q.at, q.raising, q.frames, q.ambient) BY <1>2, <2>1, TaskReplaced
  <2>3. QED BY <1>2, <1>3, <2>2
<1>4. ASSUME NEW p \in Tasks, task' = [task EXCEPT ![t].at = "on", ![t].ambient = task[p].ambient],
             parent' = [parent EXCEPT ![t] = {p} \cup parent[p]]
      PROVE  TaskSet(t, "on", task[t].raising, task[t].frames, task[p].ambient)
  <2>1. task[p].ambient \in Contexts BY TaskTyped
  <2>2. PICK m \in Contexts : m = task[p].ambient BY <2>1
  <2>. DEFINE r == [q EXCEPT !.ambient = m]
  <2>3. task' = [task EXCEPT ![t] = r] BY <1>1, <1>4, <2>2 DEF TaskRecords
  <2>4. r \in TaskRecords /\ r.at = q.at /\ r.raising = q.raising /\ r.frames = q.frames /\ r.ambient = m
    <3>. HIDE DEF q
    <3>1. QED BY <1>2 DEF TaskRecords
  <2>. HIDE DEF q, r
  <2>5. TaskSet(t, r.at, r.raising, r.frames, r.ambient) BY <2>3, <2>4, TaskReplaced
  <2>6. QED BY <1>2, <2>2, <2>4, <2>5
<1>5. QED BY <1>3, <1>4 DEF Start

LEMMA SessionChanged ==
  ASSUME NEW r \in SessionRecords, NEW b \in BOOLEAN,
         NEW e \in {"open", "committed", "rolled back"}, NEW n \in Nat
  PROVE  /\ [r EXCEPT !.broken = b] \in SessionRecords /\ [r EXCEPT !.broken = b].service = r.service
         /\ [r EXCEPT !.broken = b].by = r.by /\ [r EXCEPT !.broken = b].state = r.state
         /\ [r EXCEPT !.broken = b].writes = r.writes
         /\ [r EXCEPT !.state = e] \in SessionRecords /\ [r EXCEPT !.state = e].service = r.service
         /\ [r EXCEPT !.state = e].by = r.by /\ [r EXCEPT !.state = e].state = e
         /\ [r EXCEPT !.state = e].writes = r.writes
         /\ [r EXCEPT !.writes = @ \cup {n}] \in SessionRecords
         /\ [r EXCEPT !.writes = @ \cup {n}].service = r.service
         /\ [r EXCEPT !.writes = @ \cup {n}].by = r.by /\ [r EXCEPT !.writes = @ \cup {n}].state = r.state
         /\ [r EXCEPT !.writes = @ \cup {n}].writes = r.writes \cup {n}
BY DEF SessionRecords

LEMMA SessionWritten ==
  ASSUME NEW r \in SessionRecords, NEW n \in Nat, NEW x, x = [r EXCEPT !.writes = @ \cup {n}]
  PROVE  /\ x \in SessionRecords /\ x.service = r.service /\ x.by = r.by
         /\ x.state = r.state /\ x.writes = r.writes \cup {n}
BY DEF SessionRecords

\* What happens to the sessions: nothing, one is opened, one is broken, one is
\* written in, one is left.
SessionOpened(t, s) ==
  sessions' = Append(sessions, [service |-> s, by |-> t, state |-> "open", broken |-> FALSE, writes |-> {}])
SessionReplaced(i, r) ==
  i \in DOMAIN sessions /\ sessions' = [sessions EXCEPT ![i] = r] /\ r \in SessionRecords
  /\ r.service = sessions[i].service /\ r.by = sessions[i].by

LEMMA OpenedTyped ==
  ASSUME TxTyped, NEW t \in Tasks, NEW s \in Services, SessionOpened(t, s)
  PROVE  /\ sessions' \in Seq(SessionRecords) /\ DOMAIN sessions' = DOMAIN sessions \cup {Len(sessions) + 1}
         /\ Len(sessions) + 1 \notin DOMAIN sessions /\ Len(sessions) + 1 \in Nat \ {NoSession}
         /\ \A i \in DOMAIN sessions : sessions'[i] = sessions[i]
         /\ sessions'[Len(sessions) + 1].service = s /\ sessions'[Len(sessions) + 1].by = t
         /\ sessions'[Len(sessions) + 1].state = "open" /\ sessions'[Len(sessions) + 1].writes = {}
<1>. DEFINE r == [service |-> s, by |-> t, state |-> "open", broken |-> FALSE, writes |-> {}]
<1>1. r \in SessionRecords /\ r.service = s /\ r.by = t /\ r.state = "open" /\ r.writes = {}
  BY DEF SessionRecords
<1>2. sessions' = Append(sessions, r) /\ sessions \in Seq(SessionRecords) BY DEF SessionOpened, TxTyped
<1>. HIDE DEF r
<1>3. QED BY <1>1, <1>2 DEF NoSession

LEMMA ReplacedTyped ==
  ASSUME TxTyped, NEW i \in DOMAIN sessions, NEW r, SessionReplaced(i, r)
  PROVE  /\ sessions' \in Seq(SessionRecords) /\ DOMAIN sessions' = DOMAIN sessions
         /\ sessions'[i] = r /\ \A j \in DOMAIN sessions : j # i => sessions'[j] = sessions[j]
BY DEF SessionReplaced, TxTyped

LEMMA EnterSet ==
  ASSUME TxTyped, NEW t \in Tasks, NEW s \in used, Enter(t, s)
  PROVE  \/ /\ TaskSet(t, task[t].at, TRUE, task[t].frames, task[t].ambient)
            /\ sessions' = sessions
         \/ \E f \in Frame :
              /\ f.session = NoSession /\ f.outer = task[t].ambient
              /\ TaskSet(t, task[t].at, task[t].raising, Append(task[t].frames, f), task[t].ambient)
              /\ sessions' = sessions
         \/ \E f \in Frame, m \in Contexts :
              /\ f.session = Len(sessions) + 1 /\ f.outer = task[t].ambient
              /\ m = WithSession(t, s, Len(sessions) + 1) /\ SessionOpened(t, s)
              /\ TaskSet(t, task[t].at, task[t].raising, Append(task[t].frames, f), m)
<1>1. task[t] \in TaskRecords /\ task[t].frames \in Seq(Frame) /\ task[t].ambient \in Contexts
      /\ Len(sessions) \in Nat
  BY TaskTyped DEF TxTyped
<1>2. CASE task' = [task EXCEPT ![t].raising = TRUE] /\ UNCHANGED sessions
  BY <1>2, RaisingSet
<1>3. CASE task' = [task EXCEPT ![t].frames = Append(@, [session |-> NoSession, outer |-> task[t].ambient])]
           /\ UNCHANGED sessions
  <2>1. PICK f \in Frame : f = [session |-> NoSession, outer |-> task[t].ambient]
    BY <1>1 DEF Frame, NoSession
  <2>2. Append(task[t].frames, f) \in Seq(Frame) BY <1>1
  <2>3. task' = [task EXCEPT ![t].frames = Append(task[t].frames, f)] BY <1>3, <2>1
  <2>4. TaskSet(t, task[t].at, task[t].raising, Append(task[t].frames, f), task[t].ambient)
    BY <2>2, <2>3, FramesSet
  <2>5. f.session = NoSession /\ f.outer = task[t].ambient BY <2>1
  <2>6. QED BY <1>3, <2>4, <2>5
<1>4. CASE /\ SessionOpened(t, s)
           /\ task' = [task EXCEPT ![t].frames = Append(@, [session |-> Len(sessions) + 1, outer |-> task[t].ambient]),
                                   ![t].ambient = WithSession(t, s, Len(sessions) + 1)]
  <2>0. PICK n \in Nat : n = Len(sessions) + 1 BY <1>1
  <2>1. PICK f \in Frame : f = [session |-> Len(sessions) + 1, outer |-> task[t].ambient]
    <3>1. [session |-> n, outer |-> task[t].ambient] \in Frame BY <1>1 DEF Frame
    <3>2. QED BY <2>0, <3>1
  <2>2. PICK g \in Seq(Frame) : g = Append(task[t].frames, f)
    <3>1. Append(task[t].frames, f) \in Seq(Frame) BY <1>1
    <3>2. QED BY <3>1
  <2>3. PICK m \in Contexts : m = WithSession(t, s, Len(sessions) + 1)
    <3>1. WithSession(t, s, n) \in Contexts BY <1>1 DEF WithSession, Contexts
    <3>2. QED BY <2>0, <3>1
  <2>4. task' = [task EXCEPT ![t].frames = g, ![t].ambient = m]
    BY <1>4, <1>1, <2>1, <2>2, <2>3 DEF TxTyped, TaskRecords
  <2>5. TaskSet(t, task[t].at, task[t].raising, g, m) BY <2>4, FramesAmbientSet
  <2>6. f.session = Len(sessions) + 1 /\ f.outer = task[t].ambient BY <2>1
  <2>7. QED BY <1>4, <2>2, <2>3, <2>5, <2>6
<1>5. QED BY <1>2, <1>3, <1>4 DEF Enter, SessionOpened

\* transaction() is left.
LEMMA LeaveSet ==
  ASSUME TxTyped, SessionsOwned, NEW t \in Tasks, Leave(t)
  PROVE  LET fs == task[t].frames
             f == task[t].frames[Len(task[t].frames)]
         IN /\ fs # <<>> /\ f \in Frame /\ Front(fs) \in Seq(Frame)
            /\ \/ /\ f.session = NoSession /\ UNCHANGED <<sessions, committed>>
                  /\ TaskSet(t, task[t].at, task[t].raising, Front(fs), task[t].ambient)
               \/ /\ f.session # NoSession /\ f.session \in DOMAIN sessions
                  /\ sessions[f.session].state = "open"
                  /\ \E b \in BOOLEAN : TaskSet(t, task[t].at, b, Front(fs), f.outer)
                  /\ \E r : /\ SessionReplaced(f.session, r) /\ r.writes = sessions[f.session].writes
                            /\ \/ r.state = "rolled back" /\ committed' = committed
                               \/ /\ r.state = "committed"
                                  /\ committed' = [committed EXCEPT ![sessions[f.session].service] =
                                                     @ \cup sessions[f.session].writes]
<1>. DEFINE fs == task[t].frames
            f == fs[Len(fs)]
            i == f.session
<1>1. task[t] \in TaskRecords /\ fs \in Seq(Frame) /\ task \in [Tasks -> TaskRecords] BY TaskTyped DEF TxTyped
<1>2. fs # <<>> BY DEF Leave
<1>3. Len(fs) \in DOMAIN fs /\ f \in Frame /\ Front(fs) \in Seq(Frame) BY <1>1, <1>2 DEF Front
<1>4. f.outer \in Contexts /\ i \in Nat BY <1>3 DEF Frame
<1>5. CASE i = NoSession
  <2>1. task' = [task EXCEPT ![t].frames = Front(@)] /\ UNCHANGED <<sessions, committed>>
    BY <1>5 DEF Leave, Last
  <2>2. task' = [task EXCEPT ![t].frames = Front(fs)] BY <2>1
  <2>3. TaskSet(t, task[t].at, task[t].raising, Front(fs), task[t].ambient) BY <1>3, <2>2, FramesSet
  <2>4. QED BY <1>2, <1>3, <1>5, <2>1, <2>3
<1>6. CASE i # NoSession
  <2>1. i \in DOMAIN sessions /\ sessions[i].state = "open"
    BY <1>3, <1>6 DEF SessionsOwned, Owns
  <2>2. sessions[i] \in SessionRecords /\ sessions \in Seq(SessionRecords) BY <2>1 DEF TxTyped
  <2>3. ASSUME NEW e \in {"committed", "rolled back"}, sessions' = [sessions EXCEPT ![i].state = e]
        PROVE  \E r : SessionReplaced(i, r) /\ r.writes = sessions[i].writes /\ r.state = e
    <3>1. PICK r : r = [sessions[i] EXCEPT !.state = e] OBVIOUS
    <3>2. /\ r \in SessionRecords /\ r.service = sessions[i].service /\ r.by = sessions[i].by
          /\ r.writes = sessions[i].writes /\ r.state = e
      BY <2>2, <3>1, SessionChanged DEF SessionRecords
    <3>3. sessions' = [sessions EXCEPT ![i] = r] BY <2>3, <3>1
    <3>4. QED BY <2>1, <3>2, <3>3 DEF SessionReplaced
  <2>4. ASSUME NEW b \in BOOLEAN,
               task' = [task EXCEPT ![t].frames = Front(@), ![t].ambient = f.outer, ![t].raising = b]
        PROVE  TaskSet(t, task[t].at, b, Front(fs), f.outer)
    <3>1. PICK g \in Seq(Frame), m \in Contexts : g = Front(fs) /\ m = f.outer BY <1>3, <1>4
    <3>2. task' = [task EXCEPT ![t].frames = g, ![t].ambient = m, ![t].raising = b]
      BY <1>1, <2>4, <3>1 DEF TaskRecords
    <3>3. QED BY <3>1, <3>2, LeftSet
  <2>5. \/ /\ sessions' = [sessions EXCEPT ![i].state = "rolled back"] /\ committed' = committed
           /\ task' = [task EXCEPT ![t].frames = Front(@), ![t].ambient = f.outer, ![t].raising = TRUE]
        \/ /\ sessions' = [sessions EXCEPT ![i].state = "committed"]
           /\ task' = [task EXCEPT ![t].frames = Front(@), ![t].ambient = f.outer, ![t].raising = FALSE]
           /\ committed' = [committed EXCEPT ![sessions[i].service] = @ \cup sessions[i].writes]
    BY <1>6 DEF Leave, Last
  <2>. HIDE DEF i, f, fs
  <2>6. \E b \in BOOLEAN : TaskSet(t, task[t].at, b, Front(fs), f.outer) BY <2>4, <2>5
  <2>7. \E r : /\ SessionReplaced(i, r) /\ r.writes = sessions[i].writes
               /\ \/ r.state = "rolled back" /\ committed' = committed
                  \/ /\ r.state = "committed"
                     /\ committed' = [committed EXCEPT ![sessions[i].service] = @ \cup sessions[i].writes]
    <3>1. CASE sessions' = [sessions EXCEPT ![i].state = "rolled back"] /\ committed' = committed
      <4>1. PICK r : SessionReplaced(i, r) /\ r.writes = sessions[i].writes /\ r.state = "rolled back" BY <2>3, <3>1
      <4>2. QED BY <3>1, <4>1
    <3>2. CASE /\ sessions' = [sessions EXCEPT ![i].state = "committed"]
               /\ committed' = [committed EXCEPT ![sessions[i].service] = @ \cup sessions[i].writes]
      <4>1. PICK r : SessionReplaced(i, r) /\ r.writes = sessions[i].writes /\ r.state = "committed" BY <2>3, <3>2
      <4>2. QED BY <3>2, <4>1
    <3>3. QED BY <2>5, <3>1, <3>2
  <2>8. QED BY <1>2, <1>3, <1>6, <2>1, <2>6, <2>7 DEF i, f, fs
<1>7. QED BY <1>5, <1>6

\* A write, in a session or in none.
Saves(t, s, w) ==
  /\ w \in WriteRecords /\ w.no = Cardinality(saved) + 1 /\ w.service = s /\ w.by = t
  /\ saved' = saved \cup {w}
  /\ w.session # NoSession => w.session = task[t].ambient[s] /\ s \in Sql
                              /\ w.session \in DOMAIN sessions
                              /\ (w.late <=> sessions[w.session].state # "open")
  /\ committed' = IF w.session = NoSession
                  THEN [committed EXCEPT ![s] = @ \cup {w.no}] ELSE committed
  /\ IF w.session = NoSession \/ w.late THEN sessions' = sessions
     ELSE \E r : SessionReplaced(w.session, r) /\ r.state = sessions[w.session].state
                 /\ r.writes = sessions[w.session].writes \cup {w.no}
  /\ UNCHANGED <<used, task, parent, closed>>

LEMMA SaveSaves ==
  ASSUME TxTyped, ContextsKept, NEW t \in Tasks, NEW s \in used, SqlSave(t, s) \/ MongoSave(t, s)
  PROVE  \E w : Saves(t, s, w)
<1>1. s \in Services /\ Cardinality(saved) \in Nat BY FS_CardinalityType DEF TxTyped
<1>2. CASE SqlSave(t, s)
  <2>1. PICK i \in Nat : i = task[t].ambient[s] BY <1>1, TaskTyped DEF Contexts
  <2>2. i # NoSession => i \in DOMAIN sessions BY <1>1, <2>1 DEF ContextsKept, Inherits
  <2>3. PICK w : w = Write(t, s, i) OBVIOUS
  <2>4. /\ w.no = Cardinality(saved) + 1 /\ w.service = s /\ w.by = t /\ w.session = i
        /\ w.late = (i # NoSession /\ sessions[i].state # "open")
    BY <2>3 DEF Write
  <2>5. w \in WriteRecords BY <1>1, <2>3 DEF Write, WriteRecords
  <2>6. /\ s \in Sql /\ saved' = saved \cup {w} /\ CommitOrFlush(w)
        /\ sessions' = IF i = NoSession \/ w.late THEN sessions ELSE [sessions EXCEPT ![i].writes = @ \cup {w.no}]
        /\ UNCHANGED <<used, task, parent, closed>>
    BY <1>2, <2>1, <2>3 DEF SqlSave, SessionOf, Ambient
  <2>7. ASSUME ~(i = NoSession \/ w.late)
        PROVE  \E r : SessionReplaced(i, r) /\ r.state = sessions[i].state
                      /\ r.writes = sessions[i].writes \cup {w.no}
    <3>1. i \in DOMAIN sessions /\ sessions[i] \in SessionRecords BY <2>2, <2>7 DEF TxTyped
    <3>2. PICK n \in Nat : n = w.no BY <1>1, <2>4
    <3>3. PICK r : r = [sessions[i] EXCEPT !.writes = @ \cup {n}] OBVIOUS
    <3>4. /\ r \in SessionRecords /\ r.service = sessions[i].service /\ r.by = sessions[i].by
          /\ r.state = sessions[i].state /\ r.writes = sessions[i].writes \cup {n}
      BY <3>1, <3>3, SessionWritten
    <3>5. sessions' = [sessions EXCEPT ![i] = r] BY <2>6, <2>7, <3>2, <3>3
    <3>6. QED BY <3>1, <3>2, <3>4, <3>5 DEF SessionReplaced
  <2>8. committed' = IF i = NoSession THEN [committed EXCEPT ![s] = @ \cup {w.no}] ELSE committed
    BY <2>4, <2>6 DEF CommitOrFlush, Committed
  <2>9. QED BY <2>1, <2>2, <2>4, <2>5, <2>6, <2>7, <2>8 DEF Saves
<1>3. CASE MongoSave(t, s)
  <2>1. PICK w : w = Write(t, s, NoSession) OBVIOUS
  <2>2. /\ w.no = Cardinality(saved) + 1 /\ w.service = s /\ w.by = t /\ w.session = NoSession
        /\ w.late \in BOOLEAN
    BY <2>1 DEF Write
  <2>3. w \in WriteRecords BY <1>1, <2>1 DEF Write, WriteRecords, NoSession
  <2>4. saved' = saved \cup {w} /\ Committed(w) /\ UNCHANGED <<used, task, parent, sessions, closed>>
    BY <1>3, <2>1 DEF MongoSave
  <2>5. QED BY <2>2, <2>3, <2>4 DEF Saves, Committed
<1>4. QED BY <1>2, <1>3

LEMMA SaveFailsSet ==
  ASSUME TxTyped, ContextsKept, NEW t \in Tasks, NEW s \in used, SaveFails(t, s)
  PROVE  /\ TaskSet(t, task[t].at, TRUE, task[t].frames, task[t].ambient)
         /\ \/ sessions' = sessions
            \/ \E i \in DOMAIN sessions : \E r :
                 SessionReplaced(i, r) /\ r.state = sessions[i].state /\ r.writes = sessions[i].writes
<1>1. s \in Services BY DEF TxTyped
<1>2. PICK i \in Nat : i = task[t].ambient[s] BY <1>1, TaskTyped DEF Contexts
<1>3. i # NoSession => i \in DOMAIN sessions BY <1>1, <1>2 DEF ContextsKept, Inherits
<1>4. /\ task' = [task EXCEPT ![t].raising = TRUE]
      /\ sessions' = IF s \in Mongo \/ i = NoSession THEN sessions ELSE [sessions EXCEPT ![i].broken = TRUE]
  BY <1>2 DEF SaveFails, SessionOf, Ambient
<1>5. ASSUME i # NoSession, sessions' = [sessions EXCEPT ![i].broken = TRUE]
      PROVE  \E r : SessionReplaced(i, r) /\ r.state = sessions[i].state /\ r.writes = sessions[i].writes
  <2>1. i \in DOMAIN sessions /\ sessions[i] \in SessionRecords BY <1>3, <1>5 DEF TxTyped
  <2>2. PICK r : r = [sessions[i] EXCEPT !.broken = TRUE] OBVIOUS
  <2>3. /\ r \in SessionRecords /\ r.service = sessions[i].service /\ r.by = sessions[i].by
        /\ r.state = sessions[i].state /\ r.writes = sessions[i].writes
    BY <2>1, <2>2, SessionChanged DEF SessionRecords
  <2>4. sessions' = [sessions EXCEPT ![i] = r] BY <1>5, <2>2
  <2>5. QED BY <2>1, <2>3, <2>4 DEF SessionReplaced
<1>6. QED BY <1>3, <1>4, <1>5, RaisingSet

-----------------------------------------------------------------------------
LEMMA TxTypedStep ==
  ASSUME TxTyped, ContextsKept, SessionsOwned, [TransactionsNext]_txVars
  PROVE  TxTyped'
<1>1. ASSUME NEW t \in Tasks, Start(t) PROVE TxTyped'
  <2>1. task' \in [Tasks -> TaskRecords] BY <1>1, StartSet DEF TaskSet
  <2>2. parent' \in [Tasks -> SUBSET Tasks] BY <1>1 DEF Start, TxTyped
  <2>3. QED BY <1>1, <2>1, <2>2 DEF Start, TxTyped
<1>2. ASSUME NEW t \in Tasks, Raise(t) \/ Catch(t) PROVE TxTyped'
  <2>1. task' \in [Tasks -> TaskRecords] BY <1>2, RaisingSet DEF Raise, Catch, TaskSet
  <2>2. QED BY <1>2, <2>1 DEF Raise, Catch, TxTyped
<1>3. ASSUME NEW t \in Tasks, Leave(t) PROVE TxTyped'
  <2>1. task' \in [Tasks -> TaskRecords] BY <1>3, LeaveSet DEF TaskSet
  <2>2. sessions' \in Seq(SessionRecords) BY <1>3, LeaveSet, ReplacedTyped DEF TxTyped
  <2>3. committed' \in [Services -> SUBSET Nat]
    <3>0. \A i \in DOMAIN sessions : sessions[i] \in SessionRecords BY DEF TxTyped
    <3>1. \A i \in DOMAIN sessions : sessions[i].writes \subseteq Nat BY <3>0 DEF SessionRecords
    <3>2. \/ committed' = committed
          \/ \E i \in DOMAIN sessions :
               committed' = [committed EXCEPT ![sessions[i].service] = @ \cup sessions[i].writes]
      BY <1>3, LeaveSet
    <3>3. QED BY <3>1, <3>2 DEF TxTyped
  <2>4. QED BY <1>3, <2>1, <2>2, <2>3 DEF Leave, TxTyped
<1>4. ASSUME NEW t \in Tasks, NEW s \in used, Enter(t, s) PROVE TxTyped'
  <2>1. s \in Services BY DEF TxTyped
  <2>2. task' \in [Tasks -> TaskRecords] BY <1>4, EnterSet DEF TaskSet
  <2>3. sessions' \in Seq(SessionRecords) BY <1>4, <2>1, EnterSet, OpenedTyped DEF TxTyped
  <2>4. QED BY <1>4, <2>2, <2>3 DEF Enter, TxTyped
<1>5. ASSUME NEW t \in Tasks, NEW s \in used, SqlSave(t, s) \/ MongoSave(t, s) PROVE TxTyped'
  <2>1. PICK w : Saves(t, s, w) BY <1>5, SaveSaves
  <2>2. sessions' \in Seq(SessionRecords)
    <3>1. CASE w.session = NoSession \/ w.late BY <2>1, <3>1 DEF Saves, TxTyped
    <3>2. CASE ~(w.session = NoSession \/ w.late)
      <4>1. PICK r : SessionReplaced(w.session, r) BY <2>1, <3>2 DEF Saves
      <4>2. QED BY <4>1, ReplacedTyped DEF SessionReplaced
    <3>3. QED BY <3>1, <3>2
  <2>3. committed' \in [Services -> SUBSET Nat]
    <3>1. w.no \in Nat BY <2>1 DEF Saves, WriteRecords
    <3>2. QED BY <2>1, <3>1 DEF Saves, TxTyped
  <2>4. saved' \subseteq WriteRecords /\ IsFiniteSet(saved') BY <2>1, FS_AddElement DEF Saves, TxTyped
  <2>5. QED BY <2>1, <2>2, <2>3, <2>4 DEF Saves, TxTyped
<1>6. ASSUME NEW t \in Tasks, NEW s \in used, SaveFails(t, s) PROVE TxTyped'
  <2>1. task' \in [Tasks -> TaskRecords] BY <1>6, SaveFailsSet DEF TaskSet
  <2>2. sessions' \in Seq(SessionRecords) BY <1>6, SaveFailsSet, ReplacedTyped DEF TxTyped
  <2>3. QED BY <1>6, <2>1, <2>2 DEF SaveFails, TxTyped
<1>7. ASSUME NEW s \in used, CloseService(s) PROVE TxTyped' BY <1>7 DEF CloseService, TxTyped
<1>8. CASE UNCHANGED txVars BY <1>8 DEF txVars, TxTyped
<1>9. QED BY <1>1, <1>2, <1>3, <1>4, <1>5, <1>6, <1>7, <1>8 DEF TransactionsNext

\* A session keeps its service and its task, and a task what it comes from.
LEMMA SessionsStay ==
  ASSUME TxTyped, ContextsKept, SessionsOwned, [TransactionsNext]_txVars
  PROVE  /\ \A i \in DOMAIN sessions : /\ i \in DOMAIN sessions'
                                       /\ sessions'[i].service = sessions[i].service
                                       /\ sessions'[i].by = sessions[i].by
         /\ \A t \in Tasks : parent[t] \subseteq parent'[t]
<1>. DEFINE Stay == \A i \in DOMAIN sessions : /\ i \in DOMAIN sessions'
                                              /\ sessions'[i].service = sessions[i].service
                                              /\ sessions'[i].by = sessions[i].by
<1>1. ASSUME NEW i \in DOMAIN sessions, NEW r, SessionReplaced(i, r) PROVE Stay
  BY <1>1, ReplacedTyped DEF SessionReplaced
<1>2. ASSUME NEW t \in Tasks, Start(t) PROVE Stay /\ \A u \in Tasks : parent[u] \subseteq parent'[u]
  <2>1. parent[t] = {} BY <1>2 DEF Start, ContextsKept
  <2>2. QED BY <1>2, <2>1 DEF Start, TxTyped
<1>3. ASSUME NEW t \in Tasks, Leave(t) PROVE Stay /\ parent' = parent
  <2>1. sessions' = sessions \/ \E i \in DOMAIN sessions : \E r : SessionReplaced(i, r)
    BY <1>3, LeaveSet
  <2>2. QED BY <1>1, <1>3, <2>1 DEF Leave
<1>4. ASSUME NEW t \in Tasks, NEW s \in used, Enter(t, s) PROVE Stay /\ parent' = parent
  <2>1. s \in Services BY DEF TxTyped
  <2>2. QED BY <1>4, <2>1, EnterSet, OpenedTyped DEF Enter
<1>5. ASSUME NEW t \in Tasks, NEW s \in used, SqlSave(t, s) \/ MongoSave(t, s) PROVE Stay /\ parent' = parent
  <2>1. PICK w : Saves(t, s, w) BY <1>5, SaveSaves
  <2>2. CASE w.session = NoSession \/ w.late BY <2>1, <2>2 DEF Saves
  <2>3. CASE ~(w.session = NoSession \/ w.late)
    <3>1. PICK r : SessionReplaced(w.session, r) BY <2>1, <2>3 DEF Saves
    <3>2. QED BY <1>1, <2>1, <3>1 DEF Saves, SessionReplaced
  <2>4. QED BY <2>2, <2>3
<1>6. ASSUME NEW t \in Tasks, NEW s \in used, SaveFails(t, s) PROVE Stay /\ parent' = parent
  <2>1. sessions' = sessions \/ \E i \in DOMAIN sessions : \E r : SessionReplaced(i, r)
    BY <1>6, SaveFailsSet
  <2>2. QED BY <1>1, <1>6, <2>1 DEF SaveFails
<1>7. ASSUME UNCHANGED <<sessions, parent>> PROVE Stay /\ parent' = parent BY <1>7
<1>. HIDE DEF Stay
<1>8. Stay /\ \A t \in Tasks : parent[t] \subseteq parent'[t]
  BY <1>2, <1>3, <1>4, <1>5, <1>6, <1>7
     DEF TransactionsNext, Raise, Catch, CloseService, txVars
<1>9. QED BY <1>8 DEF Stay

LEMMA InheritsStays ==
  ASSUME TxTyped, ContextsKept, SessionsOwned, [TransactionsNext]_txVars, NEW t \in Tasks, NEW m, Inherits(t, m)
  PROVE  Inherits(t, m)'
BY SessionsStay DEF Inherits

LEMMA ContextsStep ==
  ASSUME TxTyped, ContextsKept, SessionsOwned, [TransactionsNext]_txVars
  PROVE  ContextsKept'
<1>. DEFINE Kept(t) == /\ Inherits(t, task[t].ambient)'
                       /\ (\A k \in DOMAIN task[t].frames : Inherits(t, task[t].frames[k].outer))'
                       /\ task'[t].at = "off" => parent'[t] = {}
<1>0. \A t \in Tasks : /\ Inherits(t, task[t].ambient)
                       /\ \A k \in DOMAIN task[t].frames : Inherits(t, task[t].frames[k].outer)
                       /\ task[t].at = "off" => parent[t] = {}
  BY DEF ContextsKept
\* The records of the task are as before, or were made of what it had.
<1>1. ASSUME NEW t \in Tasks, parent'[t] = parent[t] \/ task'[t].at = "on",
             NEW m, task'[t].ambient = m, Inherits(t, m)',
             task'[t].at \in {task[t].at, "on"},
             \A k \in DOMAIN task'[t].frames : \E o : task'[t].frames[k].outer = o /\ Inherits(t, o)
      PROVE  Kept(t)
  <2>1. Inherits(t, task[t].ambient)' BY <1>1 DEF Inherits
  <2>2. ASSUME NEW k \in DOMAIN task'[t].frames PROVE Inherits(t, task[t].frames[k].outer)'
    <3>1. PICK o : task'[t].frames[k].outer = o /\ Inherits(t, o) BY <1>1
    <3>2. Inherits(t, o)' BY <3>1, InheritsStays
    <3>3. QED BY <3>1, <3>2 DEF Inherits
  <2>3. QED BY <1>0, <1>1, <2>1, <2>2
<1>2. ASSUME NEW t \in Tasks, parent'[t] = parent[t] \/ task'[t].at = "on",
             task'[t].at \in {task[t].at, "on"}, task'[t].ambient = task[t].ambient,
             task'[t].frames = task[t].frames
      PROVE  Kept(t)
  <2>1. PICK m : m = task[t].ambient OBVIOUS
  <2>2. Inherits(t, m)' BY <1>0, <2>1, InheritsStays
  <2>3. QED BY <1>0, <1>1, <1>2, <2>1, <2>2
<1>3. ASSUME NEW t \in Tasks, task'[t] = task[t], parent'[t] = parent[t] PROVE Kept(t) BY <1>2, <1>3
<1>. SUFFICES ASSUME NEW u \in Tasks PROVE Kept(u)
  BY DEF ContextsKept
<1>. HIDE DEF Kept
<1>4. ASSUME NEW t \in Tasks, Start(t) PROVE Kept(u)
  <2>1. CASE u # t
    <3>1. task'[u] = task[u] /\ parent'[u] = parent[u]
      BY <1>4, <2>1, StartSet DEF TaskSet, TxTyped
    <3>2. QED BY <1>3, <3>1
  <2>2. CASE u = t
    <3>1. CASE TaskSet(t, "on", task[t].raising, task[t].frames, task[t].ambient)
      BY <1>2, <2>2, <3>1 DEF TaskSet
    <3>2. ASSUME NEW p \in Tasks, TaskSet(t, "on", task[t].raising, task[t].frames, task[p].ambient),
                 parent' = [parent EXCEPT ![t] = {p} \cup parent[p]]
          PROVE  Kept(t)
      <4>1. PICK m : m = task[p].ambient OBVIOUS
      <4>2. Inherits(p, m) BY <1>0, <4>1
      <4>3. Inherits(p, m)' BY <4>2, InheritsStays
      <4>4. {p} \cup parent'[p] \subseteq {t} \cup parent'[t]
        BY <3>2, SessionsStay DEF TxTyped
      <4>5. Inherits(t, m)' BY <4>3, <4>4 DEF Inherits
      <4>6. \A k \in DOMAIN task'[t].frames : \E o : task'[t].frames[k].outer = o /\ Inherits(t, o)
        BY <1>0, <3>2 DEF TaskSet
      <4>7. QED BY <1>1, <3>2, <4>1, <4>5, <4>6 DEF TaskSet
    <3>3. QED BY <1>4, <2>2, <3>1, <3>2, StartSet
  <2>3. QED BY <2>1, <2>2
<1>5. ASSUME NEW t \in Tasks, Raise(t) \/ Catch(t) PROVE Kept(u)
  <2>1. parent' = parent BY <1>5 DEF Raise, Catch
  <2>2. \E b \in BOOLEAN : TaskSet(t, task[t].at, b, task[t].frames, task[t].ambient)
    BY <1>5, RaisingSet DEF Raise, Catch
  <2>3. QED BY <1>2, <1>3, <2>1, <2>2 DEF TaskSet
<1>6. ASSUME NEW t \in Tasks, Leave(t) PROVE Kept(u)
  <2>1. parent' = parent BY <1>6 DEF Leave
  <2>2. PICK fs, f : fs = task[t].frames /\ f = task[t].frames[Len(task[t].frames)] OBVIOUS
  <2>3. fs \in Seq(Frame) /\ fs # <<>> BY <1>6, <2>2, TaskTyped, LeaveSet
  <2>4. \A k \in DOMAIN Front(fs) : k \in DOMAIN fs /\ Front(fs)[k] = fs[k] BY <2>3 DEF Front
  <2>5. Len(fs) \in DOMAIN fs BY <2>3
  <2>6. Inherits(t, f.outer) /\ Inherits(t, task[t].ambient) BY <1>0, <2>2, <2>5
  <2>7. PICK m, b : TaskSet(t, task[t].at, b, Front(fs), m) /\ m \in {f.outer, task[t].ambient}
    BY <1>6, <2>2, LeaveSet
  <2>8. CASE u # t BY <1>3, <2>1, <2>7, <2>8 DEF TaskSet
  <2>9. CASE u = t
    <3>1. Inherits(t, m)' BY <2>6, <2>7, InheritsStays
    <3>2. \A k \in DOMAIN task'[t].frames : \E o : task'[t].frames[k].outer = o /\ Inherits(t, o)
      BY <1>0, <2>2, <2>4, <2>7 DEF TaskSet
    <3>3. QED BY <1>1, <2>1, <2>7, <2>9, <3>1, <3>2 DEF TaskSet
  <2>10. QED BY <2>8, <2>9
<1>7. ASSUME NEW t \in Tasks, NEW s \in used, Enter(t, s) PROVE Kept(u)
  <2>1. parent' = parent /\ s \in Services BY <1>7 DEF Enter, TxTyped
  <2>2. task[t].frames \in Seq(Frame) /\ task[t].ambient \in Contexts BY TaskTyped
  <2>3. ASSUME NEW f \in Frame, f.outer = task[t].ambient, task'[t].frames = Append(task[t].frames, f)
        PROVE  \A k \in DOMAIN task'[t].frames : \E o : task'[t].frames[k].outer = o /\ Inherits(t, o)
    <3>1. \A k \in DOMAIN task'[t].frames :
            \/ k \in DOMAIN task[t].frames /\ task'[t].frames[k] = task[t].frames[k]
            \/ task'[t].frames[k] = f
      BY <2>2, <2>3
    <3>2. QED BY <1>0, <2>3, <3>1
  <2>4. CASE TaskSet(t, task[t].at, TRUE, task[t].frames, task[t].ambient)
    BY <1>2, <1>3, <2>1, <2>4 DEF TaskSet
  <2>5. ASSUME NEW f \in Frame, f.outer = task[t].ambient,
               TaskSet(t, task[t].at, task[t].raising, Append(task[t].frames, f), task[t].ambient)
        PROVE  Kept(u)
    <3>1. CASE u # t BY <1>3, <2>1, <2>5, <3>1 DEF TaskSet
    <3>2. CASE u = t
      <4>1. PICK m : m = task[t].ambient OBVIOUS
      <4>2. Inherits(t, m)' BY <1>0, <4>1, InheritsStays
      <4>3. QED BY <1>1, <2>1, <2>3, <2>5, <3>2, <4>1, <4>2 DEF TaskSet
    <3>3. QED BY <3>1, <3>2
  <2>6. ASSUME NEW f \in Frame, NEW m \in Contexts, f.outer = task[t].ambient, SessionOpened(t, s),
               m = WithSession(t, s, Len(sessions) + 1),
               TaskSet(t, task[t].at, task[t].raising, Append(task[t].frames, f), m)
        PROVE  Kept(u)
    <3>1. CASE u # t BY <1>3, <2>1, <2>6, <3>1 DEF TaskSet
    <3>2. CASE u = t
      <4>1. /\ Len(sessions) + 1 \in DOMAIN sessions'
            /\ sessions'[Len(sessions) + 1].service = s /\ sessions'[Len(sessions) + 1].by = t
        BY <2>1, <2>6, OpenedTyped
      <4>2. \A r \in Services : \/ m[r] = task[t].ambient[r]
                                \/ m[r] = Len(sessions) + 1 /\ (r = s \/ {r, s} \subseteq Mongo)
        BY <2>6 DEF WithSession
      <4>3. \A r \in Services : r \in Sql => r \notin Mongo BY TransactionsAssumption
      <4>4. PICK a : a = task[t].ambient OBVIOUS
      <4>5. Inherits(t, a)' BY <1>0, <4>4, InheritsStays
      <4>6. Inherits(t, m)' BY <2>1, <4>1, <4>2, <4>3, <4>4, <4>5 DEF Inherits
      <4>7. QED BY <1>1, <2>1, <2>3, <2>6, <3>2, <4>6 DEF TaskSet
    <3>3. QED BY <3>1, <3>2
  <2>7. QED BY <1>7, <2>4, <2>5, <2>6, EnterSet
<1>8. ASSUME NEW t \in Tasks, NEW s \in used, SaveFails(t, s) PROVE Kept(u)
  <2>1. parent' = parent BY <1>8 DEF SaveFails
  <2>2. QED BY <1>2, <1>3, <1>8, <2>1, SaveFailsSet DEF TaskSet
<1>9. ASSUME NEW t \in Tasks, NEW s \in used, SqlSave(t, s) \/ MongoSave(t, s) PROVE Kept(u)
  BY <1>3, <1>9 DEF SqlSave, MongoSave
<1>10. ASSUME NEW s \in used, CloseService(s) PROVE Kept(u) BY <1>3, <1>10 DEF CloseService
<1>11. CASE UNCHANGED txVars BY <1>3, <1>11 DEF txVars
<1>12. QED BY <1>4, <1>5, <1>6, <1>7, <1>8, <1>9, <1>10, <1>11 DEF TransactionsNext

\* Only leaving transaction() changes the state of a session, or takes a frame.
StatesStay == \A i \in DOMAIN sessions : sessions'[i].state = sessions[i].state

LEMMA OwnedStays ==
  ASSUME TxTyped, ContextsKept, SessionsOwned, [TransactionsNext]_txVars, StatesStay,
         \A t \in Tasks : task'[t].frames = task[t].frames
  PROVE  SessionsOwned'
BY SessionsStay DEF SessionsOwned, Owns, StatesStay

LEMMA StatesReplaced ==
  ASSUME TxTyped, NEW i \in DOMAIN sessions, NEW r, SessionReplaced(i, r), r.state = sessions[i].state
  PROVE  StatesStay
BY ReplacedTyped DEF StatesStay

LEMMA OwnedStep ==
  ASSUME TxTyped, ContextsKept, SessionsOwned, [TransactionsNext]_txVars
  PROVE  SessionsOwned'
<1>1. ASSUME NEW t \in Tasks, Start(t) PROVE SessionsOwned'
  <2>1. sessions' = sessions BY <1>1 DEF Start
  <2>2. \A u \in Tasks : task'[u].frames = task[u].frames BY <1>1, StartSet DEF TaskSet
  <2>3. QED BY <2>1, <2>2, OwnedStays DEF StatesStay
<1>2. ASSUME NEW t \in Tasks, Raise(t) \/ Catch(t) PROVE SessionsOwned'
  <2>1. sessions' = sessions BY <1>2 DEF Raise, Catch
  <2>2. \A u \in Tasks : task'[u].frames = task[u].frames
    BY <1>2, RaisingSet DEF Raise, Catch, TaskSet
  <2>3. QED BY <2>1, <2>2, OwnedStays DEF StatesStay
<1>3. ASSUME NEW t \in Tasks, Leave(t) PROVE SessionsOwned'
  <2>1. PICK fs, f : fs = task[t].frames /\ f = task[t].frames[Len(task[t].frames)] OBVIOUS
  <2>2. fs \in Seq(Frame) /\ fs # <<>> BY <1>3, <2>1, TaskTyped, LeaveSet
  <2>3. \A k \in DOMAIN Front(fs) : k \in DOMAIN fs /\ k # Len(fs) /\ Front(fs)[k] = fs[k]
    BY <2>2 DEF Front
  <2>4. Len(fs) \in DOMAIN fs BY <2>2
  <2>5. /\ task'[t].frames = Front(fs) /\ \A u \in Tasks \ {t} : task'[u].frames = task[u].frames
    BY <1>3, <2>1, LeaveSet DEF TaskSet
  <2>6. \A i \in DOMAIN sessions :
          sessions'[i].state = sessions[i].state \/ (i = f.session /\ f.session # NoSession)
    <3>1. CASE sessions' = sessions BY <3>1
    <3>2. ASSUME NEW r, f.session \in DOMAIN sessions, f.session # NoSession, SessionReplaced(f.session, r)
          PROVE  \A i \in DOMAIN sessions : sessions'[i].state = sessions[i].state \/ (i = f.session /\ f.session # NoSession)
      BY <3>2, ReplacedTyped
    <3>3. QED BY <1>3, <2>1, <3>1, <3>2, LeaveSet
  <2>. SUFFICES ASSUME NEW u \in Tasks, NEW k \in DOMAIN task'[u].frames PROVE Owns(u, k)'
    BY DEF SessionsOwned
  <2>7. CASE u # t
    <3>1. k \in DOMAIN task[u].frames /\ Owns(u, k) BY <2>5, <2>7 DEF SessionsOwned
    <3>2. Owns(t, Len(fs)) BY <2>1, <2>4 DEF SessionsOwned
    <3>3. task[u].frames[k].session # NoSession => task[u].frames[k].session # f.session
      BY <2>1, <2>7, <3>1, <3>2 DEF Owns
    <3>4. QED BY <2>5, <2>6, <2>7, <3>1, <3>3, SessionsStay DEF Owns
  <2>8. CASE u = t
    <3>1. k \in DOMAIN fs /\ k # Len(fs) /\ task'[t].frames[k] = fs[k] BY <2>3, <2>5, <2>8
    <3>2. Owns(t, k) /\ Owns(t, Len(fs)) BY <2>1, <2>4, <3>1 DEF SessionsOwned
    <3>3. fs[k].session # NoSession => fs[k].session # f.session
      BY <2>1, <2>4, <3>1, <3>2 DEF Owns
    <3>4. QED BY <2>1, <2>3, <2>5, <2>6, <2>8, <3>1, <3>2, <3>3, SessionsStay DEF Owns
  <2>9. QED BY <2>7, <2>8
<1>4. ASSUME NEW t \in Tasks, NEW s \in used, Enter(t, s) PROVE SessionsOwned'
  <2>1. s \in Services BY DEF TxTyped
  <2>2. PICK fs : fs = task[t].frames OBVIOUS
  <2>3. fs \in Seq(Frame) /\ Len(sessions) \in Nat /\ sessions \in Seq(SessionRecords)
    BY <2>2, TaskTyped DEF TxTyped
  <2>4. CASE sessions' = sessions /\ TaskSet(t, task[t].at, TRUE, fs, task[t].ambient)
    <3>1. \A u \in Tasks : task'[u].frames = task[u].frames BY <2>2, <2>4 DEF TaskSet
    <3>2. QED BY <2>4, <3>1, OwnedStays DEF StatesStay
  <2>5. ASSUME NEW f \in Frame, task'[t].frames = Append(fs, f), StatesStay,
               \A u \in Tasks \ {t} : task'[u] = task[u],
               f.session # NoSession => /\ f.session \in DOMAIN sessions' \ DOMAIN sessions
                                        /\ sessions'[f.session].state = "open"
                                        /\ sessions'[f.session].by = t
        PROVE  SessionsOwned'
    <3>. SUFFICES ASSUME NEW u \in Tasks, NEW k \in DOMAIN task'[u].frames PROVE Owns(u, k)'
      BY DEF SessionsOwned
    <3>1. CASE u # t
      <4>1. k \in DOMAIN task[u].frames /\ Owns(u, k) /\ task'[u].frames = task[u].frames
        BY <2>5, <3>1 DEF SessionsOwned
      <4>2. QED BY <2>5, <4>1, SessionsStay DEF Owns, StatesStay
    <3>2. CASE u = t
      <4>1. \A l \in DOMAIN task'[t].frames :
              \/ l \in DOMAIN fs /\ task'[t].frames[l] = fs[l]
              \/ l = Len(fs) + 1 /\ task'[t].frames[l] = f
        BY <2>3, <2>5
      <4>2. \A l \in DOMAIN fs : Owns(t, l) BY <2>2 DEF SessionsOwned
      <4>3. \A l \in DOMAIN fs : fs[l].session # NoSession => fs[l].session # f.session
        <5>1. \A l \in DOMAIN fs : fs[l].session # NoSession => fs[l].session \in DOMAIN sessions
          BY <2>2, <4>2 DEF Owns
        <5>2. QED BY <2>5, <5>1
      <4>4. CASE k \in DOMAIN fs /\ task'[t].frames[k] = fs[k]
        BY <2>2, <2>5, <3>2, <4>1, <4>2, <4>3, <4>4, SessionsStay DEF Owns, StatesStay
      <4>5. CASE k = Len(fs) + 1 /\ task'[t].frames[k] = f
        BY <2>2, <2>5, <3>2, <4>1, <4>3, <4>5 DEF Owns
      <4>6. QED BY <3>2, <4>1, <4>4, <4>5
    <3>3. QED BY <3>1, <3>2
  <2>6. ASSUME NEW f \in Frame, f.session = NoSession, sessions' = sessions,
               TaskSet(t, task[t].at, task[t].raising, Append(fs, f), task[t].ambient)
        PROVE  SessionsOwned'
    BY <2>5, <2>6 DEF TaskSet, StatesStay
  <2>7. ASSUME NEW f \in Frame, NEW m \in Contexts, f.session = Len(sessions) + 1, SessionOpened(t, s),
               TaskSet(t, task[t].at, task[t].raising, Append(fs, f), m)
        PROVE  SessionsOwned'
    <3>1. StatesStay BY <2>1, <2>7, OpenedTyped DEF StatesStay
    <3>2. /\ f.session \in DOMAIN sessions' \ DOMAIN sessions
          /\ sessions'[f.session].state = "open" /\ sessions'[f.session].by = t
      BY <2>1, <2>7, OpenedTyped
    <3>3. QED BY <2>5, <2>7, <3>1, <3>2 DEF TaskSet
  <2>8. QED BY <1>4, <2>2, <2>4, <2>6, <2>7, EnterSet
<1>5. ASSUME NEW t \in Tasks, NEW s \in used, SqlSave(t, s) \/ MongoSave(t, s) PROVE SessionsOwned'
  <2>1. PICK w : Saves(t, s, w) BY <1>5, SaveSaves
  <2>2. StatesStay
    <3>1. CASE w.session = NoSession \/ w.late BY <2>1, <3>1 DEF Saves, StatesStay
    <3>2. CASE ~(w.session = NoSession \/ w.late)
      <4>1. PICK r : SessionReplaced(w.session, r) /\ r.state = sessions[w.session].state
        BY <2>1, <3>2 DEF Saves
      <4>2. QED BY <4>1, StatesReplaced DEF SessionReplaced
    <3>3. QED BY <3>1, <3>2
  <2>3. QED BY <2>1, <2>2, OwnedStays DEF Saves
<1>6. ASSUME NEW t \in Tasks, NEW s \in used, SaveFails(t, s) PROVE SessionsOwned'
  <2>1. StatesStay BY <1>6, SaveFailsSet, StatesReplaced DEF StatesStay
  <2>2. \A u \in Tasks : task'[u].frames = task[u].frames BY <1>6, SaveFailsSet DEF TaskSet
  <2>3. QED BY <2>1, <2>2, OwnedStays
<1>7. ASSUME UNCHANGED <<task, sessions>> PROVE SessionsOwned' BY <1>7, OwnedStays DEF StatesStay
<1>8. QED
  BY <1>1, <1>2, <1>3, <1>4, <1>5, <1>6, <1>7 DEF TransactionsNext, CloseService, txVars

-----------------------------------------------------------------------------
\* The database.
Database == Numbered /\ InSession /\ AllOrNothing /\ OwnSession

\* Nothing is written or committed.
LEMMA DatabaseStays ==
  ASSUME TxTyped, ContextsKept, SessionsOwned, Database, [TransactionsNext]_txVars, StatesStay,
         saved' = saved, committed' = committed,
         \A i \in DOMAIN sessions : sessions'[i].writes = sessions[i].writes,
         \A i \in DOMAIN sessions' : i \notin DOMAIN sessions => sessions'[i].writes = {}
  PROVE  Database'
<1>. USE DEF Database
<1>1. \A i \in DOMAIN sessions : /\ i \in DOMAIN sessions' /\ sessions'[i].service = sessions[i].service
                                 /\ sessions'[i].by = sessions[i].by
  BY SessionsStay
<1>2. \A t \in Tasks : parent[t] \subseteq parent'[t] BY SessionsStay
<1>3. \A w \in saved : w.by \in Tasks BY DEF TxTyped, WriteRecords
<1>4. Numbered' BY <1>1 DEF Numbered
<1>5. InSession' BY <1>1 DEF InSession
<1>6. AllOrNothing' BY <1>1 DEF AllOrNothing, StatesStay, InSession
<1>7. OwnSession' BY <1>1, <1>2, <1>3 DEF OwnSession, InSession
<1>8. QED BY <1>4, <1>5, <1>6, <1>7

LEMMA SaveKeeps ==
  ASSUME TxTyped, TxTyped', ContextsKept, Database, NEW t \in Tasks, NEW s \in Services,
         NEW w, Saves(t, s, w)
  PROVE  Database'
<1>. USE DEF Database
<1>1. /\ w \in WriteRecords /\ w.no = Cardinality(saved) + 1 /\ w.service = s /\ w.by = t
      /\ saved' = saved \cup {w} /\ w.session \in Nat /\ w.late \in BOOLEAN
      /\ \A v \in saved : v.session \in Nat /\ v.late \in BOOLEAN /\ v.service \in Services
  BY DEF Saves, WriteRecords, TxTyped
<1>2. Cardinality(saved) \in Nat BY FS_CardinalityType DEF TxTyped
<1>3. \A v \in saved : v.no \in 1 .. Cardinality(saved) /\ v.no # w.no BY <1>1, <1>2 DEF Numbered
<1>4. Cardinality(saved') = w.no BY <1>1, <1>3, FS_AddElement DEF TxTyped
<1>5. /\ DOMAIN sessions' = DOMAIN sessions
      /\ \A i \in DOMAIN sessions : /\ sessions'[i].service = sessions[i].service
                                    /\ sessions'[i].by = sessions[i].by
                                    /\ sessions'[i].state = sessions[i].state
                                    /\ sessions'[i].writes =
                                         IF i = w.session /\ ~w.late THEN sessions[i].writes \cup {w.no}
                                         ELSE sessions[i].writes
  <2>1. \A i \in DOMAIN sessions : i # NoSession BY DEF TxTyped, NoSession
  <2>2. CASE w.session = NoSession \/ w.late BY <2>1, <2>2 DEF Saves
  <2>3. CASE ~(w.session = NoSession \/ w.late)
    <3>1. PICK r : /\ SessionReplaced(w.session, r) /\ r.state = sessions[w.session].state
                   /\ r.writes = sessions[w.session].writes \cup {w.no}
      BY <2>3 DEF Saves
    <3>2. w.session \in DOMAIN sessions BY <3>1 DEF SessionReplaced
    <3>3. QED BY <2>3, <3>1, <3>2, ReplacedTyped DEF SessionReplaced
  <2>4. QED BY <2>2, <2>3
<1>6. \A r \in Services : committed'[r] = IF w.session = NoSession /\ r = s THEN committed[r] \cup {w.no}
                                          ELSE committed[r]
  BY DEF Saves, TxTyped
<1>7. parent' = parent BY DEF Saves
<1>8. w.session # NoSession =>
        /\ w.session \in DOMAIN sessions /\ (w.late <=> sessions[w.session].state # "open")
        /\ sessions[w.session].service = s /\ sessions[w.session].by \in {t} \cup parent[t]
  BY DEF Saves, ContextsKept, Inherits
<1>9. Numbered'
  <2>1. \A v \in saved' : v.no \in 1 .. Cardinality(saved') BY <1>1, <1>2, <1>3, <1>4
  <2>2. \A u, v \in saved' : u.no = v.no => u = v BY <1>1, <1>3 DEF Numbered
  <2>3. \A r \in Services : committed'[r] \subseteq 1 .. Cardinality(saved')
    <3>1. \A r \in Services : \A n \in committed[r] : n \in 1 .. Cardinality(saved) BY DEF Numbered
    <3>2. \A r \in Services : committed'[r] \subseteq committed[r] \cup {w.no} BY <1>6
    <3>3. 1 .. Cardinality(saved) \subseteq 1 .. Cardinality(saved') /\ w.no \in 1 .. Cardinality(saved')
      BY <1>1, <1>2, <1>4
    <3>4. QED BY <3>1, <3>2, <3>3
  <2>4. \A i \in DOMAIN sessions' : \A n \in sessions'[i].writes :
          \E v \in saved' : v.no = n /\ v.session = i /\ ~v.late
    <3>. SUFFICES ASSUME NEW i \in DOMAIN sessions, NEW n \in sessions'[i].writes
                  PROVE  \E v \in saved' : v.no = n /\ v.session = i /\ ~v.late
      BY <1>5
    <3>1. CASE n \in sessions[i].writes BY <1>1, <3>1 DEF Numbered
    <3>2. CASE n \notin sessions[i].writes
      <4>1. i = w.session /\ ~w.late /\ n = w.no BY <1>5, <3>2
      <4>2. QED BY <1>1, <4>1
    <3>3. QED BY <3>1, <3>2
  <2>5. QED BY <2>1, <2>2, <2>3, <2>4 DEF Numbered
<1>10. InSession' BY <1>1, <1>5, <1>8 DEF InSession
<1>11. AllOrNothing'
  <2>. SUFFICES ASSUME NEW v \in saved'
                PROVE  (v.no \in committed'[v.service]) =
                         (v.session = NoSession \/ (~v.late /\ sessions'[v.session].state = "committed"))
    BY DEF AllOrNothing
  <2>1. CASE v \in saved
    <3>1. (v.no \in committed'[v.service]) <=> (v.no \in committed[v.service]) BY <1>1, <1>3, <1>6, <2>1
    <3>2. v.session # NoSession => sessions'[v.session].state = sessions[v.session].state
      BY <1>5, <2>1 DEF InSession
    <3>3. QED BY <2>1, <3>1, <3>2 DEF AllOrNothing
  <2>2. CASE v = w
    <3>1. w.no \notin committed[s] BY <1>1, <1>2 DEF Numbered
    <3>2. CASE w.session = NoSession BY <1>1, <1>6, <2>2, <3>2
    <3>3. CASE w.session # NoSession
      <4>1. w.no \notin committed'[s] BY <1>6, <3>1, <3>3
      <4>2. ~(~w.late /\ sessions'[w.session].state = "committed") BY <1>5, <1>8, <3>3
      <4>3. QED BY <1>1, <2>2, <3>3, <4>1, <4>2
    <3>4. QED BY <3>2, <3>3
  <2>3. QED BY <1>1, <2>1, <2>2
<1>12. OwnSession' BY <1>1, <1>5, <1>7, <1>8 DEF OwnSession, InSession
<1>13. QED BY <1>9, <1>10, <1>11, <1>12

LEMMA LeaveKeeps ==
  ASSUME TxTyped, ContextsKept, SessionsOwned, Database, [TransactionsNext]_txVars, NEW t \in Tasks, Leave(t)
  PROVE  Database'
<1>. USE DEF Database
<1>0. UNCHANGED <<saved, parent>> BY DEF Leave
<1>1. CASE UNCHANGED <<sessions, committed>> BY <1>0, <1>1, DatabaseStays DEF StatesStay
<1>2. ASSUME NEW i \in DOMAIN sessions, i # NoSession, sessions[i].state = "open",
             NEW r, SessionReplaced(i, r), r.writes = sessions[i].writes,
             \/ r.state = "rolled back" /\ committed' = committed
             \/ /\ r.state = "committed"
                /\ committed' = [committed EXCEPT ![sessions[i].service] = @ \cup sessions[i].writes]
      PROVE  Database'
  <2>1. /\ DOMAIN sessions' = DOMAIN sessions
        /\ \A j \in DOMAIN sessions : /\ sessions'[j].service = sessions[j].service
                                      /\ sessions'[j].by = sessions[j].by
                                      /\ sessions'[j].writes = sessions[j].writes
                                      /\ sessions'[j].state = IF j = i THEN r.state ELSE sessions[j].state
    BY <1>2, ReplacedTyped DEF SessionReplaced
  <2>2. \A s \in Services : committed'[s] = IF r.state = "committed" /\ s = sessions[i].service
                                            THEN committed[s] \cup sessions[i].writes ELSE committed[s]
    BY <1>2 DEF TxTyped
  <2>3. \A n \in sessions[i].writes : \E w \in saved : w.no = n /\ w.session = i /\ ~w.late
    BY DEF Numbered
  <2>4. Numbered'
    <3>1. \A n \in sessions[i].writes : n \in 1 .. Cardinality(saved) BY <2>3 DEF Numbered
    <3>2. \A s \in Services : committed'[s] \subseteq 1 .. Cardinality(saved) BY <2>2, <3>1 DEF Numbered
    <3>3. QED BY <1>0, <2>1, <3>2 DEF Numbered
  <2>5. InSession' BY <1>0, <2>1 DEF InSession
  <2>6. OwnSession' BY <1>0, <2>1 DEF OwnSession, InSession
  <2>7. AllOrNothing'
    <3>. SUFFICES ASSUME NEW w \in saved
                  PROVE  (w.no \in committed'[w.service]) <=>
                           (w.session = NoSession \/ (~w.late /\ sessions'[w.session].state = "committed"))
      BY <1>0 DEF AllOrNothing
    <3>1. w.service \in Services /\ w.late \in BOOLEAN BY DEF TxTyped, WriteRecords
    <3>2. (w.no \in committed[w.service]) <=>
            (w.session = NoSession \/ (~w.late /\ sessions[w.session].state = "committed"))
      BY DEF AllOrNothing
    <3>3. CASE w.session # i
      <4>1. w.no \notin sessions[i].writes BY <2>3, <3>3 DEF Numbered
      <4>2. (w.no \in committed'[w.service]) <=> (w.no \in committed[w.service]) BY <2>2, <3>1, <4>1
      <4>3. w.session # NoSession => sessions'[w.session].state = sessions[w.session].state
        BY <2>1, <3>3 DEF InSession
      <4>4. QED BY <3>2, <4>2, <4>3
    <3>4. CASE w.session = i /\ w.late
      <4>1. w.no \notin sessions[i].writes BY <2>3, <3>4 DEF Numbered
      <4>2. (w.no \in committed'[w.service]) <=> (w.no \in committed[w.service]) BY <2>2, <3>1, <4>1
      <4>3. QED BY <1>2, <3>2, <3>4, <4>2
    <3>5. CASE w.session = i /\ ~w.late
      <4>1. w.no \in sessions[i].writes /\ sessions[i].service = w.service
        BY <1>2, <3>5 DEF InSession, OwnSession
      <4>2. w.no \notin committed[w.service] BY <1>2, <3>2, <3>5
      <4>3. (w.no \in committed'[w.service]) <=> r.state = "committed" BY <2>2, <3>1, <4>1, <4>2
      <4>4. sessions'[w.session].state = r.state BY <2>1, <3>5
      <4>5. QED BY <1>2, <3>5, <4>3, <4>4
    <3>6. QED BY <3>1, <3>3, <3>4, <3>5
  <2>8. QED BY <2>4, <2>5, <2>6, <2>7
<1>3. QED BY <1>1, <1>2, LeaveSet

LEMMA DatabaseStep ==
  ASSUME TxTyped, TxTyped', ContextsKept, SessionsOwned, Database, [TransactionsNext]_txVars
  PROVE  Database'
<1>1. ASSUME UNCHANGED <<saved, committed, sessions>> PROVE Database'
  BY <1>1, DatabaseStays DEF StatesStay
<1>2. ASSUME NEW t \in Tasks, Start(t) \/ Raise(t) \/ Catch(t) PROVE Database'
  BY <1>1, <1>2 DEF Start, Raise, Catch
<1>3. ASSUME NEW t \in Tasks, Leave(t) PROVE Database' BY <1>3, LeaveKeeps
<1>4. ASSUME NEW t \in Tasks, NEW s \in used, Enter(t, s) PROVE Database'
  <2>1. UNCHANGED <<saved, committed>> /\ s \in Services BY <1>4 DEF Enter, TxTyped
  <2>2. CASE sessions' = sessions BY <1>1, <2>1, <2>2
  <2>3. CASE SessionOpened(t, s)
    <3>1. StatesStay BY <2>1, <2>3, OpenedTyped DEF StatesStay
    <3>2. /\ \A i \in DOMAIN sessions : sessions'[i].writes = sessions[i].writes
          /\ \A i \in DOMAIN sessions' : i \notin DOMAIN sessions => sessions'[i].writes = {}
      BY <2>1, <2>3, OpenedTyped
    <3>3. QED BY <2>1, <3>1, <3>2, DatabaseStays
  <2>4. QED BY <1>4, <2>2, <2>3, EnterSet
<1>5. ASSUME NEW t \in Tasks, NEW s \in used, SqlSave(t, s) \/ MongoSave(t, s) PROVE Database'
  <2>1. PICK w : Saves(t, s, w) BY <1>5, SaveSaves
  <2>2. QED BY <2>1, SaveKeeps DEF TxTyped
<1>6. ASSUME NEW t \in Tasks, NEW s \in used, SaveFails(t, s) PROVE Database'
  <2>1. UNCHANGED <<saved, committed>> BY <1>6 DEF SaveFails
  <2>2. CASE sessions' = sessions BY <1>1, <2>1, <2>2
  <2>3. ASSUME NEW i \in DOMAIN sessions, NEW r, SessionReplaced(i, r), r.state = sessions[i].state,
               r.writes = sessions[i].writes
        PROVE  Database'
    <3>1. StatesStay BY <2>3, StatesReplaced
    <3>2. DOMAIN sessions' = DOMAIN sessions /\ \A j \in DOMAIN sessions : sessions'[j].writes = sessions[j].writes
      BY <2>3, ReplacedTyped
    <3>3. QED BY <2>1, <3>1, <3>2, DatabaseStays
  <2>4. QED BY <1>6, <2>2, <2>3, SaveFailsSet
<1>7. ASSUME NEW s \in used, CloseService(s) PROVE Database' BY <1>1, <1>7 DEF CloseService
<1>8. CASE UNCHANGED txVars BY <1>1, <1>8 DEF txVars
<1>9. QED BY <1>2, <1>3, <1>4, <1>5, <1>6, <1>7, <1>8 DEF TransactionsNext

TxInv == TxTyped /\ ContextsKept /\ SessionsOwned /\ Database

LEMMA TxInit == TransactionsInit => TxInv
<1>. SUFFICES ASSUME TransactionsInit PROVE TxInv OBVIOUS
<1>0. /\ task = [t \in Tasks |-> [at |-> "off", raising |-> FALSE, frames |-> <<>>, ambient |-> NoSessions]]
      /\ parent = [t \in Tasks |-> {}] /\ sessions = <<>>
      /\ committed = [s \in Services |-> {}] /\ saved = {}
  BY DEF TransactionsInit
<1>1. NoSessions \in Contexts /\ \A s \in Services : NoSessions[s] = NoSession
  BY DEF NoSessions, Contexts, NoSession
<1>2. [at |-> "off", raising |-> FALSE, frames |-> <<>>, ambient |-> NoSessions] \in TaskRecords
  BY <1>1 DEF TaskRecords
<1>3. IsFiniteSet({}) /\ Cardinality({}) = 0 BY FS_EmptySet
<1>4. used \subseteq Services BY TransactionsAssumption DEF TransactionsInit
<1>5. TxTyped BY <1>0, <1>2, <1>3, <1>4 DEF TxTyped
<1>6. ContextsKept BY <1>0, <1>1 DEF ContextsKept, Inherits
<1>7. SessionsOwned BY <1>0 DEF SessionsOwned
<1>8. Database BY <1>0 DEF Database, Numbered, InSession, AllOrNothing, OwnSession
<1>9. QED BY <1>5, <1>6, <1>7, <1>8 DEF TxInv

\* Whatever raises, joins, inherits or ends a transaction: the database holds
\* all of its writes or none, and every write went to a session of its own
\* service that its task, or one it was started from, has opened (transaction()
\* of the SQL and the Mongo service and their repositories).
THEOREM TransactionsKept == TransactionsSpec => []TransactionsIsolated
<1>1. TxInv /\ [TransactionsNext]_txVars => TxInv'
  <2>. SUFFICES ASSUME TxInv, [TransactionsNext]_txVars PROVE TxInv' OBVIOUS
  <2>1. TxTyped /\ ContextsKept /\ SessionsOwned /\ Database BY DEF TxInv
  <2>2. TxTyped' BY <2>1, TxTypedStep
  <2>3. ContextsKept' BY <2>1, ContextsStep
  <2>4. SessionsOwned' BY <2>1, OwnedStep
  <2>5. Database' BY <2>1, <2>2, DatabaseStep
  <2>6. QED BY <2>2, <2>3, <2>4, <2>5 DEF TxInv
<1>2. TxInv => TransactionsIsolated BY DEF TxInv, Database, TransactionsIsolated
<1>3. QED BY <1>1, <1>2, TxInit, PTL DEF TransactionsSpec

-----------------------------------------------------------------------------
(* The messages of a gateway *)

Kinds_ == {"ack", "garbled", "error", "event"}
Answers_ == [kind : Kinds_, by : {"gateway", "handler", "task"}]

Tasks_ == [of : Nat, ack : BOOLEAN, at : {"begins", "sent", "failed"}]

Untouched == \A i \in DOMAIN answers : answers[i].by # "gateway"
OnlyFrom(kinds) == \A i \in DOMAIN answers : answers[i].by = "gateway" => answers[i].kind \in kinds
OneReply == \A i, j \in OwnReplies : i = j
Trusting == ~frame.takesAck => acked = FALSE /\ \A i \in DOMAIN answers : answers[i].by = "gateway"

\* Until it is answered by the gateway a frame has the acks of its handler only,
\* and these count unless the connection failed; a list of answers has neither
\* acks nor errors of the gateway.
MessagesInv ==
  /\ answers \in Seq(Answers_) /\ acked \in BOOLEAN /\ up \in BOOLEAN
  /\ loop \in {"receive", "guard", "reject", "call", "reply", "failed", "list", "ended"}
  /\ tasks \subseteq Tasks_ /\ frame \in Frames
  /\ \A t \in tasks : /\ t.at = "failed" => ~up
                      /\ t.of <= frames
                      /\ t.of = frames => frame.takesAck /\ loop \notin {"guard", "reject"}
  /\ frames \in Nat
  /\ Trusting /\ OneReply
  /\ loop \in {"guard", "reject"} => answers = <<>>
  /\ loop = "reject" => frame.defect # "none"
  /\ loop \in {"call", "reply", "failed"} => Untouched
  /\ loop \in {"call", "reply"} /\ HandlerAcked => acked \/ ~up
  /\ loop = "list" => /\ OnlyFrom({"event"}) /\ frame.result \in {"list", "empty"}
                      /\ HandlerAcked => ~up
  /\ HandlerAcked => \A i \in DOMAIN answers : answers[i].by = "gateway" => answers[i].kind = "error"
  /\ (loop = "receive" /\ up /\ frame.ack /\ ~frame.takesAck
      /\ frame.defect = "none" /\ frame.result \in {"nothing", "value"}) => Len(answers) = 1

LEMMA AnswerAdded ==
  ASSUME answers \in Seq(Answers_), NEW a \in Answers_, answers' = Append(answers, a)
  PROVE  /\ answers' \in Seq(Answers_) /\ Len(answers') = Len(answers) + 1
         /\ DOMAIN answers' = DOMAIN answers \cup {Len(answers) + 1} /\ answers'[Len(answers) + 1] = a
         /\ \A i \in DOMAIN answers : answers'[i] = answers[i] /\ i # Len(answers) + 1
         /\ answers = <<>> => Len(answers') = 1
BY DEF Answers_

\* An answer of the handler, or of a task of it, is no answer of the gateway.
LEMMA OthersAdded ==
  ASSUME answers \in Seq(Answers_), NEW a \in Answers_, a.by # "gateway", answers' = Append(answers, a)
  PROVE  /\ OneReply => OneReply' 
         /\ Untouched => Untouched'
         /\ OnlyFrom({"event"}) => OnlyFrom({"event"})'
         /\ (\A i \in DOMAIN answers : answers[i].by = "gateway" => answers[i].kind = "error")
              => \A i \in DOMAIN answers' : answers'[i].by = "gateway" => answers'[i].kind = "error"
         /\ a.by = "task" => (HandlerAcked' <=> HandlerAcked)
<1>1. /\ DOMAIN answers' = DOMAIN answers \cup {Len(answers) + 1} /\ answers'[Len(answers) + 1] = a
      /\ \A i \in DOMAIN answers : answers'[i] = answers[i]
  BY AnswerAdded
<1>2. OwnReplies' = OwnReplies BY <1>1 DEF OwnReplies
<1>3. QED BY <1>1, <1>2 DEF OneReply, Untouched, OnlyFrom, HandlerAcked

\* A send of the gateway adds an answer, or fails on a connection that is down.
LEMMA SendAdds ==
  ASSUME MessagesInv, NEW type \in {"ack", "error", "event"}, NEW then, NEW orElse, Send(type, then, orElse)
  PROVE  \/ /\ up /\ loop' = then
            /\ \E a \in Answers_ : /\ answers' = Append(answers, a) /\ a.by = "gateway"
                                   /\ a.kind = type \/ (type = "ack" /\ a.kind = "garbled")
         \/ ~up /\ loop' = orElse /\ answers' = answers
<1>1. CASE SendFails /\ loop' = orElse BY <1>1 DEF SendFails
<1>2. CASE Arrives(Answer(Delivered(type), "gateway")) /\ loop' = then
  <2>1. Delivered(type) \in Kinds_ /\ (Delivered(type) = type \/ (type = "ack" /\ Delivered(type) = "garbled"))
    BY DEF Delivered, Kinds_
  <2>2. Answer(Delivered(type), "gateway") \in Answers_ BY <2>1 DEF Answer, Answers_
  <2>3. QED BY <1>2, <2>1, <2>2 DEF Arrives, Answer
<1>3. QED BY <1>1, <1>2 DEF Send

\* The first reply of the gateway is its only one.
LEMMA FirstReply ==
  ASSUME answers \in Seq(Answers_), Untouched \/ OnlyFrom({"event"}), NEW a \in Answers_, answers' = Append(answers, a)
  PROVE  /\ OneReply'
         /\ Untouched /\ a.kind = "error" /\ a.by = "gateway" =>
              \A i \in DOMAIN answers' : answers'[i].by = "gateway" => answers'[i].kind = "error"
         /\ OnlyFrom({"event"}) /\ a.kind = "event" => OnlyFrom({"event"})'
         /\ a.by = "gateway" => (HandlerAcked' <=> HandlerAcked)
<1>1. /\ DOMAIN answers' = DOMAIN answers \cup {Len(answers) + 1} /\ answers'[Len(answers) + 1] = a
      /\ \A i \in DOMAIN answers : answers'[i] = answers[i]
  BY AnswerAdded
<1>2. OwnReplies = {} BY DEF OwnReplies, Untouched, OnlyFrom
<1>3. OwnReplies' \subseteq {Len(answers) + 1} BY <1>1, <1>2 DEF OwnReplies
<1>4. QED BY <1>1, <1>3 DEF OneReply, Untouched, OnlyFrom, HandlerAcked

LEMMA AnswersStay ==
  ASSUME answers' = answers
  PROVE  /\ Untouched' <=> Untouched
         /\ OneReply' <=> OneReply
         /\ HandlerAcked' <=> HandlerAcked
         /\ OnlyFrom({"event"})' <=> OnlyFrom({"event"})
BY DEF Untouched, OneReply, OwnReplies, HandlerAcked, OnlyFrom

LEMMA NoAnswers ==
  ASSUME answers = <<>>
  PROVE  Untouched /\ OneReply /\ ~HandlerAcked /\ OnlyFrom({"event"})
BY DEF Untouched, OneReply, OwnReplies, HandlerAcked, OnlyFrom

LEMMA ReceiveKeeps == ASSUME MessagesInv, ReceiveFrame PROVE MessagesInv'
<1>. USE DEF MessagesInv
<1>0. loop = "receive" /\ UNCHANGED <<up, registered, toSend, tasks>> BY DEF ReceiveFrame
<1>1. CASE loop' = "ended" /\ UNCHANGED <<frame, answers, acked, frames>>
  <2>1. Trusting' BY <1>1 DEF Trusting
  <2>2. QED BY <1>0, <1>1, <2>1, AnswersStay
<1>2. CASE /\ frame' \in Frames /\ loop' = (IF frame'.defect = "none" THEN "guard" ELSE "reject")
           /\ answers' = <<>> /\ acked' = FALSE /\ frames' = frames + 1
  <2>1. Untouched' /\ OneReply' /\ ~HandlerAcked' /\ OnlyFrom({"event"})'
    BY <1>2 DEF Untouched, OneReply, OwnReplies, HandlerAcked, OnlyFrom
  <2>2. Trusting' BY <1>2 DEF Trusting
  <2>3. answers' \in Seq(Answers_) BY <1>2
  <2>4. \A t \in tasks : t.of <= frames' /\ t.of # frames'
    <3>1. \A t \in tasks : t.of \in Nat /\ t.of <= frames BY DEF Tasks_
    <3>2. QED BY <1>2, <3>1
  <2>5. /\ loop' \in {"guard", "reject"} /\ (loop' = "reject" => frame'.defect # "none")
        /\ frames' \in Nat /\ frame' \in Frames /\ acked' = FALSE /\ answers' = <<>>
    BY <1>2
  <2>6. \A t \in tasks' : /\ t.at = "failed" => ~up'
                          /\ t.of <= frames'
                          /\ t.of = frames' => frame'.takesAck /\ loop' \notin {"guard", "reject"}
    BY <1>0, <2>4
  <2>7. HandlerAcked' => \A i \in DOMAIN answers' : answers'[i].by = "gateway" => answers'[i].kind = "error"
    BY <2>1
  <2>8. tasks' \subseteq Tasks_ /\ up' \in BOOLEAN BY <1>0
  <2>9. QED BY ONLY <2>1, <2>2, <2>3, <2>5, <2>6, <2>7, <2>8 DEF MessagesInv
<1>3. QED BY <1>1, <1>2 DEF ReceiveFrame

LEMMA ErrorKeeps == ASSUME MessagesInv, SendError PROVE MessagesInv'
<1>. USE DEF MessagesInv
<1>1. /\ loop \in {"reject", "failed"} /\ Send("error", "receive", "ended")
      /\ UNCHANGED <<up, frame, toSend, acked, frames, tasks>>
  BY DEF SendError
<1>2. Untouched BY <1>1, NoAnswers
<1>3. CASE up /\ loop' = "receive"
  <2>1. PICK a \in Answers_ : answers' = Append(answers, a) /\ a.kind = "error" /\ a.by = "gateway" BY <1>1, <1>3, SendAdds
  <2>2. /\ OneReply' /\ answers' \in Seq(Answers_)
        /\ \A i \in DOMAIN answers' : answers'[i].by = "gateway" => answers'[i].kind = "error"
    BY <1>2, <2>1, FirstReply, AnswerAdded
  <2>3. Trusting' BY <1>1, <2>1, AnswerAdded DEF Trusting
  <2>4. ~frame.takesAck => Len(answers') = 1
    <3>. SUFFICES ASSUME ~frame.takesAck PROVE Len(answers') = 1 OBVIOUS
    <3>1. DOMAIN answers = {} BY <1>2 DEF Trusting, Untouched
    <3>2. answers = <<>> BY <3>1
    <3>3. QED BY <2>1, <3>2, AnswerAdded
  <2>5. QED BY <1>1, <1>3, <2>2, <2>3, <2>4
<1>4. CASE loop' = "ended" /\ answers' = answers
  <2>1. Trusting' BY <1>1, <1>4 DEF Trusting
  <2>2. QED BY <1>1, <1>4, <2>1, AnswersStay
<1>5. QED BY <1>1, <1>3, <1>4, SendAdds

LEMMA BindKeeps == ASSUME MessagesInv, Bind \/ ReturnResult PROVE MessagesInv'
<1>. USE DEF MessagesInv
<1>1. /\ loop \in {"guard", "call"} /\ loop' \in {"call", "failed", "reply"}
      /\ (loop' = "reply" => loop = "call")
      /\ UNCHANGED <<up, frame, answers, toSend, acked, frames, tasks>>
  BY DEF Bind, ReturnResult
<1>2. Untouched /\ (HandlerAcked => acked \/ ~up) BY <1>1, NoAnswers
<1>3. Trusting' BY <1>1 DEF Trusting
<1>4. QED BY <1>1, <1>2, <1>3, AnswersStay

LEMMA AckKeeps == ASSUME MessagesInv, CallAck PROVE MessagesInv'
<1>. USE DEF MessagesInv
<1>1. loop = "call" /\ frame.takesAck /\ UNCHANGED <<up, loop, frame, toSend, frames, tasks>> BY DEF CallAck
<1>2. CASE answers' = answers /\ acked' \in BOOLEAN /\ (acked' \/ ~up)
  <2>1. Trusting' BY <1>1 DEF Trusting
  <2>2. QED BY <1>1, <1>2, <2>1, AnswersStay
<1>3. CASE acked' = up /\ up /\ \E k \in AckKinds : Arrives(Answer(k, "handler"))
  <2>1. PICK a \in Answers_ : answers' = Append(answers, a) /\ a.by = "handler"
    BY <1>3 DEF Arrives, Answer, Answers_, AckKinds, Kinds_
  <2>2. Untouched' /\ OneReply' /\ answers' \in Seq(Answers_) BY <1>1, <2>1, OthersAdded, AnswerAdded
  <2>3. \A i \in DOMAIN answers' : answers'[i].by # "gateway" BY <2>2 DEF Untouched
  <2>4. Trusting' BY <1>1 DEF Trusting
  <2>5. QED BY <1>1, <1>3, <2>2, <2>3, <2>4
<1>4. QED
  <2>1. CASE ~frame.ack BY <1>2, <2>1 DEF CallAck
  <2>2. CASE frame.ack /\ SendFails BY <1>2, <2>2 DEF CallAck, SendFails
  <2>3. CASE frame.ack /\ \E k \in AckKinds : Arrives(Answer(k, "handler")) BY <1>3, <2>3 DEF CallAck, Arrives
  <2>4. QED BY <2>1, <2>2, <2>3 DEF CallAck

LEMMA TasksKeep ==
  ASSUME MessagesInv, LeaveTask \/ \E t \in tasks : TaskSends(t) \/ TaskEnds(t) PROVE MessagesInv'
<1>. USE DEF MessagesInv
<1>1. CASE LeaveTask
  <2>1. /\ loop = "call" /\ frame.takesAck /\ UNCHANGED <<up, registered, loop, frame, answers, toSend, acked, frames>>
        /\ tasks' = tasks \cup {[of |-> frames, ack |-> frame.ack, at |-> "begins"]}
    BY <1>1 DEF LeaveTask
  <2>2. Trusting' BY <2>1 DEF Trusting
  <2>3. [of |-> frames, ack |-> frame.ack, at |-> "begins"] \in Tasks_ BY DEF Frames, Tasks_
  <2>4. tasks' \subseteq Tasks_ BY <2>1, <2>3
  <2>5. QED BY <2>1, <2>2, <2>4, AnswersStay
<1>2. ASSUME NEW t \in tasks, TaskSends(t) PROVE MessagesInv'
  <2>1. /\ tasks' = (tasks \ {t}) \cup {[t EXCEPT !.at = IF up THEN "sent" ELSE "failed"]}
        /\ UNCHANGED <<up, loop, frame, toSend, acked, frames>>
    BY <1>2 DEF TaskSends
  <2>2. /\ tasks' \subseteq Tasks_
        /\ \A u \in tasks' : /\ u.at = "failed" => ~up
                             /\ u.of <= frames
                             /\ u.of = frames => frame.takesAck /\ loop \notin {"guard", "reject"}
    <3>1. PICK s : s = [t EXCEPT !.at = IF up THEN "sent" ELSE "failed"] OBVIOUS
    <3>2. t \in Tasks_ OBVIOUS
    <3>3. s \in Tasks_ /\ s.of = t.of /\ (s.at = "failed" => ~up) BY <3>1, <3>2 DEF Tasks_
    <3>4. QED BY <2>1, <3>1, <3>3
  <2>3. CASE answers' = answers
    <3>1. Trusting' BY <2>1, <2>3 DEF Trusting
    <3>2. QED BY <2>1, <2>2, <2>3, <3>1, AnswersStay
  <2>4. CASE t.of = frames /\ \E k \in AckKinds : Arrives(Answer(k, "task"))
    <3>1. PICK a \in Answers_ : answers' = Append(answers, a) /\ a.by = "task"
      BY <2>4 DEF Arrives, Answer, Answers_, AckKinds, Kinds_
    <3>2. frame.takesAck /\ loop \notin {"guard", "reject"} BY <2>4
    <3>3. Trusting' BY <2>1, <3>2 DEF Trusting
    <3>4. answers' \in Seq(Answers_) BY <3>1, AnswerAdded
    <3>5. QED BY <2>1, <2>2, <3>1, <3>2, <3>3, <3>4, OthersAdded
  <2>5. QED BY <1>2, <2>3, <2>4 DEF TaskSends, SendFails
<1>3. ASSUME NEW t \in tasks, TaskEnds(t) PROVE MessagesInv'
  <2>1. /\ tasks' = tasks \ {t} /\ UNCHANGED <<up, registered, loop, frame, answers, toSend, frames>>
        /\ acked' = IF t.of = frames THEN t.at # "failed" ELSE acked
    BY <1>3 DEF TaskEnds
  <2>2. acked' \in BOOLEAN /\ (acked \/ ~up => acked' \/ ~up) BY <2>1
  <2>3. Trusting' BY <2>1 DEF Trusting
  <2>4. QED BY <2>1, <2>2, <2>3, AnswersStay
<1>4. QED BY <1>1, <1>2, <1>3

LEMMA ReplyKeeps == ASSUME MessagesInv, ReplyFrame PROVE MessagesInv'
<1>. USE DEF MessagesInv
<1>1. /\ loop = "reply" /\ UNCHANGED <<up, frame, acked, frames, tasks>> BY DEF ReplyFrame
<1>2. Untouched /\ (HandlerAcked => acked \/ ~up) BY <1>1
<1>3. OnlyFrom({"event"}) BY <1>2 DEF OnlyFrom, Untouched
<1>4. CASE loop' = "receive" /\ answers' = answers /\ (frame.takesAck \/ ~(frame.ack /\ frame.result \in {"nothing", "value"}))
  <2>1. Trusting' BY <1>1, <1>4 DEF Trusting
  <2>2. QED BY <1>1, <1>4, <2>1, AnswersStay
<1>5. CASE AnsweredItself BY <1>1, <1>4, <1>5 DEF AnsweredItself, ReplyFrame, Trusting
<1>6. CASE ~AnsweredItself
  <2>1. HandlerAcked => ~up BY <1>2, <1>6 DEF AnsweredItself
  <2>2. CASE frame.result \in {"list", "empty"} /\ loop' = "list" /\ answers' = answers
    <3>1. Trusting' BY <1>1, <2>2 DEF Trusting
    <3>2. QED BY <1>1, <1>3, <2>1, <2>2, <3>1, AnswersStay
  <2>3. ASSUME NEW type \in {"ack", "event"}, Send(type, "receive", "ended") PROVE MessagesInv'
    <3>1. CASE up /\ loop' = "receive"
      <4>1. PICK a \in Answers_ : answers' = Append(answers, a) /\ a.by = "gateway" BY <2>3, <3>1, SendAdds
      <4>2. answers' \in Seq(Answers_) /\ OneReply' /\ ~HandlerAcked' BY <1>2, <2>1, <3>1, <4>1, FirstReply, AnswerAdded
      <4>3. Trusting' BY <1>1, <4>1, AnswerAdded DEF Trusting
      <4>4. ~frame.takesAck => Len(answers') = 1
        <5>. SUFFICES ASSUME ~frame.takesAck PROVE Len(answers') = 1 OBVIOUS
        <5>1. DOMAIN answers = {} BY <1>2 DEF Trusting, Untouched
        <5>2. answers = <<>> BY <5>1
        <5>3. QED BY <4>1, <5>2, AnswerAdded
      <4>5. QED BY <1>1, <3>1, <4>2, <4>3, <4>4
    <3>2. CASE loop' = "ended" /\ answers' = answers
      <4>1. Trusting' BY <1>1, <3>2 DEF Trusting
      <4>2. QED BY <1>1, <3>2, <4>1, AnswersStay
    <3>3. QED BY <2>3, <3>1, <3>2, SendAdds
  <2>4. QED BY <1>4, <1>6, <2>2, <2>3 DEF ReplyFrame
<1>7. QED BY <1>5, <1>6

LEMMA ItemKeeps == ASSUME MessagesInv, SendItem PROVE MessagesInv'
<1>. USE DEF MessagesInv
<1>1. loop = "list" /\ UNCHANGED <<up, frame, acked, frames, tasks>> BY DEF SendItem
<1>2. CASE loop' = "receive" /\ answers' = answers
  <2>1. Trusting' BY <1>1, <1>2 DEF Trusting
  <2>2. QED BY <1>1, <1>2, <2>1, AnswersStay
<1>3. CASE Send("event", "list", "receive")
  <2>1. CASE up /\ loop' = "list"
    <3>1. PICK a \in Answers_ : answers' = Append(answers, a) /\ a.by = "gateway" /\ a.kind = "event"
      BY <1>3, <2>1, SendAdds
    <3>2. OneReply' /\ OnlyFrom({"event"})' /\ ~HandlerAcked' /\ answers' \in Seq(Answers_)
      BY <1>1, <2>1, <3>1, FirstReply, AnswerAdded
    <3>3. Trusting' BY <1>1, <3>1, AnswerAdded DEF Trusting
    <3>4. QED BY <1>1, <2>1, <3>2, <3>3
  <2>2. QED BY <1>2, <1>3, <2>1, SendAdds
<1>4. QED BY <1>2, <1>3 DEF SendItem

LEMMA MessagesStep == ASSUME MessagesInv, [MessagesNext]_messageVars PROVE MessagesInv'
<1>1. CASE Drop \/ UNCHANGED messageVars
  <2>1. UNCHANGED <<loop, frame, answers, acked, frames, tasks>> BY <1>1 DEF Drop, messageVars
  <2>2. up' \in BOOLEAN /\ (up' => up)
    <3>1. CASE up' = FALSE BY <3>1, Zenon
    <3>2. CASE up' = up BY <3>2, Zenon DEF MessagesInv
    <3>3. up' = FALSE \/ up' = up BY <1>1, Zenon DEF Drop, messageVars
    <3>4. QED BY <3>1, <3>2, <3>3
  <2>3. Trusting' BY <2>1 DEF MessagesInv, Trusting
  <2>4. QED BY <2>1, <2>2, <2>3, AnswersStay DEF MessagesInv
<1>2. QED
  BY <1>1, ReceiveKeeps, ErrorKeeps, BindKeeps, AckKeeps, TasksKeep, ReplyKeeps, ItemKeeps
     DEF MessagesNext, HandleFrame

LEMMA OneCounts == ASSUME OneReply PROVE Cardinality(OwnReplies) <= 1
<1>. DEFINE S == OwnReplies
<1>1. S = {} \/ \E i : S = {i} BY DEF OneReply
<1>. HIDE DEF S
<1>2. \A x : x = {} => Cardinality(x) = 0 BY FS_EmptySet
<1>3. \A i : Cardinality({i}) = 1 BY FS_Singleton, Zenon
<1>4. \A x, i : x = {i} => Cardinality(x) = 1 BY <1>3, Zenon
<1>5. Cardinality(S) = 0 \/ Cardinality(S) = 1 BY <1>1, <1>2, <1>4, Zenon
<1>6. Cardinality(S) <= 1
  <2>1. \A n : n = 0 \/ n = 1 => n <= 1 OBVIOUS
  <2>2. QED BY <1>5, <2>1, Zenon
<1>7. QED BY <1>6, Zenon DEF S

\* Wherever the connection fails, however often the handler or a task of it
\* acknowledges, and whatever it returns or raises: the gateway itself answers
\* with one ack or error at most, adds nothing but an error to an ack that the
\* handler awaited, and one answer is all there is when it was left to the
\* gateway (the endpoint's loop and its sends).
THEOREM AcknowledgedKept == MessagesSpec => []Acknowledged
<1>1. MessagesInit => MessagesInv
  <2>. SUFFICES ASSUME MessagesInit PROVE MessagesInv OBVIOUS
  <2>1. answers = <<>> /\ acked = FALSE /\ loop = "receive" /\ frame = NoFrame /\ up = TRUE /\ tasks = {} /\ frames = 0
    BY DEF MessagesInit
  <2>2. answers \in Seq(Answers_) /\ frame \in Frames BY <2>1 DEF NoFrame, Frames, Defects, Results
  <2>3. Trusting BY <2>1 DEF Trusting
  <2>4. frame.result = "empty" BY <2>1 DEF NoFrame
  <2>5. QED BY <2>1, <2>2, <2>3, <2>4, NoAnswers DEF MessagesInv
<1>2. MessagesInv => Acknowledged BY OneCounts DEF MessagesInv, Acknowledged
<1>3. QED BY <1>1, <1>2, MessagesStep, PTL DEF MessagesSpec

-----------------------------------------------------------------------------
(* One call of the HTTP client *)

\* Every attempt is received once at most, and the attempts are numbered.
HttpInv ==
  /\ call.phase \in {"idle", "send", "response", "error", "sleep", "done"}
  /\ call.attempt \in Nat /\ call.attempts \in Nat /\ received \in Nat
  /\ call = [phase |-> call.phase, method |-> call.method, attempts |-> call.attempts, attempt |-> call.attempt]
  /\ call.method \notin RetryMethods => call.attempt = 0
  /\ call.phase = "idle" => received = 0
  /\ call.phase = "send" => received <= call.attempt /\ call.attempt < call.attempts
  /\ call.phase \in {"response", "error"} => received <= call.attempt + 1 /\ call.attempt < call.attempts
  /\ call.phase = "sleep" =>
       /\ received <= call.attempt + 1 /\ call.attempt + 1 < call.attempts
       /\ call.method \in RetryMethods
  /\ SentSafely

LEMMA PhaseSet ==
  ASSUME HttpInv, NEW phase, To(phase)
  PROVE  /\ call'.phase = phase /\ call'.method = call.method
         /\ call'.attempts = call.attempts /\ call'.attempt = call.attempt
         /\ call' = [phase |-> phase, method |-> call.method, attempts |-> call.attempts, attempt |-> call.attempt]
<1>1. PICK m, n, k : call = [phase |-> call.phase, method |-> m, attempts |-> n, attempt |-> k]
  BY DEF HttpInv
<1>2. call' = [phase |-> phase, method |-> m, attempts |-> n, attempt |-> k] BY <1>1 DEF To
<1>3. call.method = m /\ call.attempts = n /\ call.attempt = k BY <1>1
<1>4. QED BY <1>2, <1>3

LEMMA HttpStarts == HttpInit => HttpInv
BY HttpAssumption DEF HttpInit, HttpInv, NoCall, SentSafely

LEMMA HttpStep ==
  ASSUME HttpInv, [HttpNext]_httpVars PROVE HttpInv'
<1>. USE DEF SentSafely
<1>1. CASE Request
  <2>1. received = 0 /\ received' = received BY <1>1 DEF Request, HttpInv
  <2>2. PICK m \in Methods, n \in 1 .. MaxAttempts, p \in {"send", "done"} :
          call' = [phase |-> p, method |-> m, attempts |-> n, attempt |-> 0]
    BY <1>1 DEF Request
  <2>3. n \in Nat \ {0} BY HttpAssumption
  <2>4. call'.phase = p /\ call'.method = m /\ call'.attempts = n /\ call'.attempt = 0 BY <2>2
  <2>5. QED BY <2>1, <2>2, <2>3, <2>4 DEF HttpInv
<1>2. CASE Transmit
  <2>1. call.phase = "send" /\ received' \in {received, received + 1} BY <1>2 DEF Transmit
  <2>2. PICK p \in {"error", "response"} : To(p) BY <1>2 DEF Transmit
  <2>3. QED BY <2>1, <2>2, PhaseSet DEF HttpInv
<1>3. CASE Receive
  <2>1. call.phase = "response" /\ received' = received BY <1>3 DEF Receive
  <2>2. PICK p \in {"error", "sleep", "done"} :
          To(p) /\ (p = "sleep" => AttemptsLeft /\ call.method \in RetryMethods)
    BY <1>3 DEF Receive, RetryResponse, Finish
  <2>3. QED BY <2>1, <2>2, PhaseSet DEF HttpInv, AttemptsLeft
<1>4. CASE Fail
  <2>1. call.phase = "error" /\ received' = received BY <1>4 DEF Fail
  <2>2. PICK p \in {"sleep", "done"} : To(p) /\ (p = "sleep" => AttemptsLeft /\ call.method \in RetryMethods)
    BY <1>4 DEF Fail, RetryError, Finish
  <2>3. QED BY <2>1, <2>2, PhaseSet DEF HttpInv, AttemptsLeft
<1>5. CASE Retry
  <2>1. call.phase = "sleep" /\ received' = received BY <1>5 DEF Retry
  <2>2. PICK m, n, k : call = [phase |-> "sleep", method |-> m, attempts |-> n, attempt |-> k]
    BY <2>1 DEF HttpInv
  <2>3. call.method = m /\ call.attempts = n /\ call.attempt = k BY <2>2
  <2>4. call' = [phase |-> "send", method |-> m, attempts |-> n, attempt |-> k + 1]
    BY <1>5, <2>2 DEF Retry
  <2>5. call'.phase = "send" /\ call'.method = m /\ call'.attempts = n /\ call'.attempt = k + 1 BY <2>4
  <2>6. QED BY <2>1, <2>3, <2>4, <2>5 DEF HttpInv
<1>6. CASE Abandon
  <2>1. call.phase \in {"send", "sleep"} /\ received' = received /\ To("done") BY <1>6 DEF Abandon, Finish
  <2>2. QED BY <2>1, PhaseSet DEF HttpInv
<1>7. CASE CloseClient \/ UNCHANGED httpVars BY <1>7 DEF CloseClient, httpVars, HttpInv
<1>8. QED BY <1>1, <1>2, <1>3, <1>4, <1>5, <1>6, <1>7 DEF HttpNext

\* However the network, the interceptors, closing a refused response or the
\* shutdown of the client fail: a request whose method must not be repeated
\* reaches the server once at most, any other once per attempt
\* (HttpService.request, _should_retry_error).
THEOREM SentSafelyKept == HttpSpec => []SentSafely
<1>1. HttpInv => SentSafely BY DEF HttpInv
<1>2. QED BY <1>1, HttpStarts, HttpStep, PTL DEF HttpSpec

-----------------------------------------------------------------------------
(* The records of a queue's backend *)

Statuses == DOMAIN Successors
Entries == [queue: QueueNames, id: JobIds, status: Statuses \ {"none"}, no: Nat]
Works == [ids: SUBSET Keys, scan: SUBSET QueueNames, found: SUBSET Entries, drop: SUBSET QueueNames]

BackendTyped ==
  /\ kind \in {"memory", "redis"} /\ jobs \subseteq Entries
  /\ stream \in [QueueNames -> SUBSET Entries] /\ left \in [Processes -> Works]
  /\ books \in [Processes -> [Keys -> Statuses]] /\ written \in [Keys -> Statuses] /\ records \in Nat

Uses(q, i) == q \in UsedBy[i]

\* An id is used by one queue, or by one at a time.
IdsApart == \A i \in JobIds : \A p, q \in UsedBy[i] : p = q

UsesKept ==
  /\ \A p \in Processes : \A k \in Keys :
       (books[p][k] # "none" \/ k \in left[p].ids) => Uses(k[1], k[2])
  /\ \A k \in Keys : written[k] # "none" => Uses(k[1], k[2])

InMemory ==
  kind = "memory" =>
    /\ \A p \in Processes : left[p] = NothingLeft
    /\ \A r \in jobs : written[<<r.queue, r.id>>] = r.status
    /\ \A r, x \in jobs : r.id = x.id => r = x
    /\ \A k \in Keys : written[k] # "none" => \E r \in jobs : r.queue = k[1] /\ r.id = k[2]

IsLatest(r) == \A x \in stream[r.queue] : x.id = r.id => x.no <= r.no

\* The last entry of an id tells its status.
InStreams ==
  kind = "redis" =>
    /\ \A q \in QueueNames : \A r \in stream[q] :
         /\ r.queue = q /\ r.no <= records /\ written[<<q, r.id>>] # "none"
         /\ \A x \in stream[q] : r.no = x.no => r = x
    /\ \A k \in Keys : written[k] # "none" =>
         \E r \in stream[k[1]] : r.id = k[2] /\ r.status = written[k] /\ IsLatest(r)

\* What remove() found and has not deleted yet is newer than what is left of an
\* id: the oldest entries go first.
OldestGone ==
  kind = "redis" =>
    \A p \in Processes : \A r \in left[p].found :
      /\ r.no <= records /\ \E k \in left[p].ids : k[2] = r.id
      /\ \A x \in stream[r.queue] : x.id = r.id => x \in left[p].found \/ r.no < x.no

BackendKept == BackendTyped /\ UsesKept /\ InMemory /\ InStreams /\ OldestGone

LEMMA KeysPair ==
  ASSUME NEW q \in QueueNames, NEW i \in JobIds
  PROVE  <<q, i>> \in Keys /\ <<q, i>>[1] = q /\ <<q, i>>[2] = i
BY DEF Keys

LEMMA KeyPair ==
  ASSUME NEW k \in Keys
  PROVE  k[1] \in QueueNames /\ k[2] \in JobIds /\ k = <<k[1], k[2]>>
BY DEF Keys

LEMMA StatusNames == Statuses = {"none", "waiting", "delayed", "active", "completed", "failed"}
BY DEF Statuses, Successors

LEMMA NextStatus ==
  ASSUME NEW s \in Statuses, NEW t \in Successors[s]
  PROVE  t \in Statuses \ {"none"}
BY StatusNames DEF Statuses, Successors

LEMMA NothingTyped ==
  /\ NothingLeft \in Works
  /\ NothingLeft.ids = {} /\ NothingLeft.scan = {} /\ NothingLeft.found = {} /\ NothingLeft.drop = {}
BY DEF NothingLeft, Works

LEMMA AbsentTyped == Absent \in [Keys -> Statuses] /\ \A k \in Keys : Absent[k] = "none"
BY StatusNames DEF Absent

LEMMA WorkTyped ==
  ASSUME NEW w \in Works, NEW scan, NEW found, scan \subseteq QueueNames, found \subseteq Entries
  PROVE  [ids |-> w.ids, scan |-> scan, found |-> found, drop |-> w.drop] \in Works
BY DEF Works

LEMMA RemainingIs ==
  ASSUME NEW w \in Works, NEW scan, NEW found
  PROVE  \/ Remaining(w, scan, found) = NothingLeft /\ found = {}
         \/ Remaining(w, scan, found) = [ids |-> w.ids, scan |-> scan, found |-> found, drop |-> w.drop]
BY DEF Remaining, Works

\* The records that jobs() gives are those last written.
LEMMA CurrentShown == BackendKept => RecordsCurrent
<1> SUFFICES ASSUME BackendKept, NEW q \in QueueNames
             PROVE  {<<r.id, r.status>> : r \in JobsOf(q)} =
                      {<<i, written[<<q, i>>]>> : i \in {i \in JobIds : written[<<q, i>>] # "none"}}
  BY DEF RecordsCurrent
<1>1. kind \in {"memory", "redis"} /\ jobs \subseteq Entries /\ stream[q] \subseteq Entries
  BY DEF BackendKept, BackendTyped
<1>2. ASSUME NEW r \in JobsOf(q)
      PROVE  r \in Entries /\ written[<<q, r.id>>] = r.status
  <2>1. CASE kind = "memory"
    BY <1>1, <2>1 DEF BackendKept, InMemory, JobsOf
  <2>2. CASE kind = "redis"
    <3>1. r \in stream[q] /\ \A x \in stream[q] : x.id = r.id => x.no <= r.no
      BY <2>2 DEF JobsOf, Latest
    <3>2. r \in Entries /\ r.queue = q /\ <<q, r.id>> \in Keys /\ <<q, r.id>>[1] = q /\ <<q, r.id>>[2] = r.id
      BY <1>1, <2>2, <3>1, KeysPair DEF BackendKept, InStreams, Entries
    <3>3. written[<<q, r.id>>] # "none" BY <2>2, <3>1 DEF BackendKept, InStreams
    <3>4. PICK x \in stream[q] : x.id = r.id /\ x.status = written[<<q, r.id>>] /\ IsLatest(x)
      BY <2>2, <3>2, <3>3 DEF BackendKept, InStreams
    <3>5. x \in Entries /\ x.queue = q BY <1>1, <2>2 DEF BackendKept, InStreams
    <3>6. r.no <= x.no /\ x.no <= r.no BY <3>1, <3>4, <3>5 DEF IsLatest
    <3>7. x.no = r.no BY <3>2, <3>5, <3>6 DEF Entries
    <3>8. x = r BY <2>2, <3>1, <3>7 DEF BackendKept, InStreams
    <3>9. QED BY <3>2, <3>4, <3>8
  <2>3. QED BY <1>1, <2>1, <2>2
<1>3. ASSUME NEW r \in JobsOf(q)
      PROVE  r.id \in JobIds /\ r.status # "none"
  BY <1>2, <1>3 DEF Entries
<1>4. ASSUME NEW i \in JobIds, written[<<q, i>>] # "none"
      PROVE  \E r \in JobsOf(q) : r.id = i /\ r.status = written[<<q, i>>]
  <2>0. <<q, i>> \in Keys /\ <<q, i>>[1] = q /\ <<q, i>>[2] = i BY KeysPair
  <2>1. CASE kind = "memory"
    <3>1. PICK r \in jobs : r.queue = q /\ r.id = i BY <1>4, <2>0, <2>1 DEF BackendKept, InMemory
    <3>2. written[<<q, i>>] = r.status BY <2>1, <3>1 DEF BackendKept, InMemory
    <3>3. QED BY <2>1, <3>1, <3>2 DEF JobsOf
  <2>2. CASE kind = "redis"
    <3>1. PICK r \in stream[q] : r.id = i /\ r.status = written[<<q, i>>] /\ IsLatest(r)
      BY <1>4, <2>0, <2>2 DEF BackendKept, InStreams
    <3>2. r.queue = q BY <2>2 DEF BackendKept, InStreams
    <3>3. QED BY <2>2, <3>1, <3>2 DEF JobsOf, Latest, IsLatest
  <2>3. QED BY <1>1, <2>1, <2>2
<1>5. ASSUME NEW r \in JobsOf(q)
      PROVE  <<r.id, r.status>> \in {<<i, written[<<q, i>>]>> : i \in {i \in JobIds : written[<<q, i>>] # "none"}}
  <2>1. r.id \in JobIds /\ written[<<q, r.id>>] = r.status /\ written[<<q, r.id>>] # "none"
    BY <1>2, <1>3
  <2>2. QED BY <2>1
<1>6. ASSUME NEW i \in JobIds, written[<<q, i>>] # "none"
      PROVE  <<i, written[<<q, i>>]>> \in {<<r.id, r.status>> : r \in JobsOf(q)}
  <2>1. PICK r \in JobsOf(q) : r.id = i /\ r.status = written[<<q, i>>] BY <1>4, <1>6
  <2>2. QED BY <2>1
<1>7. QED BY <1>5, <1>6

LEMMA BackendStarts == BackendInit => BackendKept
<1> SUFFICES ASSUME BackendInit PROVE BackendKept
  OBVIOUS
<1>1. BackendTyped
  BY AbsentTyped, NothingTyped DEF BackendInit, BackendTyped
<1>2. UsesKept
  BY AbsentTyped, NothingTyped DEF BackendInit, UsesKept
<1>3. InMemory
  BY AbsentTyped DEF BackendInit, InMemory
<1>4. InStreams
  BY AbsentTyped DEF BackendInit, InStreams
<1>5. OldestGone
  BY NothingTyped DEF BackendInit, OldestGone
<1>6. QED BY <1>1, <1>2, <1>3, <1>4, <1>5 DEF BackendKept

LEMMA RecordTyped ==
  ASSUME BackendTyped, NEW q \in QueueNames, NEW i \in JobIds, NEW s \in Statuses \ {"none"}
  PROVE  /\ Record(q, i, s) \in Entries /\ Record(q, i, s).queue = q /\ Record(q, i, s).id = i
         /\ Record(q, i, s).status = s /\ Record(q, i, s).no = records + 1
BY DEF Record, Entries, BackendTyped

\* Only the first record of the id is replaced: there is no other.
LEMMA ReplacedOne ==
  ASSUME BackendKept, kind = "memory", NEW e \in Entries
  PROVE  \E n \in Nat :
           Replaced(e) = {r \in jobs : r.id # e.id} \cup {[e EXCEPT !.no = n]}
<1>. DEFINE same == {r \in jobs : r.id = e.id}
<1>1. jobs \subseteq Entries /\ \A r, x \in jobs : r.id = x.id => r = x
  BY DEF BackendKept, BackendTyped, InMemory
<1>2. CASE same = {}
  <2>1. Oldest(same) = {} BY <1>2 DEF Oldest
  <2>2. Replaced(e) = jobs \cup {e} BY <2>1 DEF Replaced
  <2>3. e.no \in Nat /\ [e EXCEPT !.no = e.no] = e BY DEF Entries
  <2>4. QED BY <1>2, <2>2, <2>3
<1>3. ASSUME NEW r \in same PROVE Oldest(same) = {r} /\ jobs \ {r} = {x \in jobs : x.id # e.id} /\ r.no \in Nat
  <2>1. same = {r} BY <1>1, <1>3
  <2>2. r.no <= r.no BY <1>1, <1>3 DEF Entries
  <2>3. QED BY <1>1, <1>3, <2>1, <2>2 DEF Oldest, Entries
<1>4. CASE same # {}
  <2>1. PICK r \in same : TRUE BY <1>4
  <2>2. Replaced(e) = (jobs \ {r}) \cup {[e EXCEPT !.no = r.no]} BY <1>3, <2>1 DEF Replaced
  <2>3. QED BY <1>3, <2>1, <2>2
<1>5. QED BY <1>2, <1>4

LEMMA NumberChanged ==
  ASSUME NEW e \in Entries, NEW n \in Nat
  PROVE  /\ [e EXCEPT !.no = n] \in Entries /\ [e EXCEPT !.no = n].queue = e.queue
         /\ [e EXCEPT !.no = n].id = e.id /\ [e EXCEPT !.no = n].status = e.status
BY DEF Entries

\* A record is written, and a process's dictionary changed.
LEMMA PutKeeps ==
  ASSUME IdsApart, BackendKept,
         NEW p \in Processes, NEW q \in QueueNames, NEW i \in JobIds, NEW s \in Statuses \ {"none"},
         NEW update \in BOOLEAN, Uses(q, i),
         ~update => written[<<q, i>>] = "none",
         Idle(p), Put(Record(q, i, s), update),
         books' = [books EXCEPT ![p][<<q, i>>] = s], UNCHANGED <<kind, left>>
  PROVE  BackendKept'
<1>0. PICK e : e = Record(q, i, s) OBVIOUS
<1>1. BackendTyped /\ UsesKept /\ InMemory /\ InStreams /\ OldestGone BY DEF BackendKept
<1>2. e \in Entries /\ e.queue = q /\ e.id = i /\ e.status = s /\ e.no = records + 1
  BY <1>0, <1>1, RecordTyped
<1>3. <<q, i>> \in Keys /\ <<q, i>>[1] = q /\ <<q, i>>[2] = i BY KeysPair
<1>4. /\ records' = records + 1 /\ records \in Nat
      /\ written' = [written EXCEPT ![<<q, i>>] = s] /\ written \in [Keys -> Statuses]
      /\ kind = "memory" =>
           jobs' = (IF update THEN Replaced(e) ELSE jobs \cup {e}) /\ stream' = stream
      /\ kind # "memory" => stream' = [stream EXCEPT ![q] = @ \cup {e}] /\ jobs' = jobs
  BY <1>0, <1>1, <1>2 DEF Put, BackendTyped
<1>5. written'[<<q, i>>] = s /\ \A k \in Keys : k # <<q, i>> => written'[k] = written[k]
  BY <1>3, <1>4
<1>6. kind = "memory" =>
        \E n \in Nat : jobs' = {r \in jobs : r.id # i} \cup {[e EXCEPT !.no = n]}
  <2> SUFFICES ASSUME kind = "memory"
               PROVE  \E n \in Nat : jobs' = {r \in jobs : r.id # i} \cup {[e EXCEPT !.no = n]}
    OBVIOUS
  <2>1. CASE update
    BY <1>2, <1>4, <2>1, ReplacedOne
  <2>2. CASE ~update
    <3>1. ASSUME NEW r \in jobs, r.id = i PROVE FALSE
      <4>1. r \in Entries /\ written[<<r.queue, r.id>>] = r.status /\ <<r.queue, r.id>> \in Keys
        BY <1>1, <3>1, KeysPair DEF BackendTyped, InMemory, Entries
      <4>2. Uses(r.queue, i)
        BY <1>1, <3>1, <4>1, KeysPair DEF UsesKept, Entries
      <4>3. r.queue = q BY <4>2 DEF IdsApart, Uses
      <4>4. QED BY <2>2, <3>1, <4>1, <4>3 DEF Entries
    <3>2. e.no \in Nat /\ [e EXCEPT !.no = e.no] = e BY <1>2 DEF Entries
    <3>3. QED BY <1>4, <2>2, <3>1, <3>2
  <2>3. QED BY <2>1, <2>2
<1>7. BackendTyped'
  <2>1. jobs' \subseteq Entries
    BY <1>1, <1>2, <1>4, <1>6, NumberChanged DEF BackendTyped
  <2>2. stream' \in [QueueNames -> SUBSET Entries]
    BY <1>1, <1>2, <1>4 DEF BackendTyped
  <2>3. books' \in [Processes -> [Keys -> Statuses]] /\ written' \in [Keys -> Statuses]
    BY <1>1, <1>3, <1>4 DEF BackendTyped
  <2>4. QED BY <1>1, <1>4, <2>1, <2>2, <2>3 DEF BackendTyped
<1>8. UsesKept'
  <2>1. \A o \in Processes, k \in Keys : books'[o][k] # "none" => books[o][k] # "none" \/ k = <<q, i>>
    BY <1>1, <1>3 DEF BackendTyped
  <2>2. QED BY <1>1, <1>3, <1>5, <2>1 DEF UsesKept
<1>9. InMemory'
  <2> SUFFICES ASSUME kind = "memory"
               PROVE  /\ \A o \in Processes : left[o] = NothingLeft
                      /\ \A r \in jobs' : written'[<<r.queue, r.id>>] = r.status
                      /\ \A r, x \in jobs' : r.id = x.id => r = x
                      /\ \A k \in Keys : written'[k] # "none" => \E r \in jobs' : r.queue = k[1] /\ r.id = k[2]
    BY DEF InMemory
  <2>1. PICK n \in Nat : jobs' = {r \in jobs : r.id # i} \cup {[e EXCEPT !.no = n]} BY <1>6
  <2>. DEFINE f == [e EXCEPT !.no = n]
  <2>2. f \in Entries /\ f.queue = q /\ f.id = i /\ f.status = s BY <1>2, NumberChanged
  <2>3. jobs' = {r \in jobs : r.id # i} \cup {f} BY <2>1
  <2>. HIDE DEF f
  <2>4. jobs \subseteq Entries /\ (\A r \in jobs : written[<<r.queue, r.id>>] = r.status)
        /\ (\A r, x \in jobs : r.id = x.id => r = x)
        /\ \A k \in Keys : written[k] # "none" => \E r \in jobs : r.queue = k[1] /\ r.id = k[2]
    BY <1>1 DEF InMemory, BackendTyped
  <2>5. ASSUME NEW r \in jobs' PROVE written'[<<r.queue, r.id>>] = r.status
    <3>1. CASE r = f BY <1>5, <2>2, <3>1
    <3>2. CASE r # f
      <4>1. r \in jobs /\ r.id # i /\ r \in Entries BY <2>3, <2>4, <3>2, <2>5
      <4>2. <<r.queue, r.id>> \in Keys /\ <<r.queue, r.id>>[2] # i BY <4>1, KeysPair DEF Entries
      <4>3. <<r.queue, r.id>> # <<q, i>> BY <4>1
      <4>4. QED BY <1>5, <2>4, <4>1, <4>2, <4>3
    <3>3. QED BY <3>1, <3>2
  <2>6. \A r, x \in jobs' : r.id = x.id => r = x BY <2>2, <2>3, <2>4
  <2>7. ASSUME NEW k \in Keys, written'[k] # "none"
        PROVE  \E r \in jobs' : r.queue = k[1] /\ r.id = k[2]
    <3>1. CASE k[2] = i
      <4>1. Uses(k[1], k[2])
        BY <1>1, <1>3, <1>5, <2>7 DEF UsesKept
      <4>2. k[1] = q BY <3>1, <4>1 DEF IdsApart, Uses
      <4>3. QED BY <2>2, <2>3, <3>1, <4>2
    <3>2. CASE k[2] # i
      <4>1. k # <<q, i>> BY <1>3, <3>2
      <4>2. PICK r \in jobs : r.queue = k[1] /\ r.id = k[2] BY <1>5, <2>4, <2>7, <4>1
      <4>3. QED BY <2>3, <3>2, <4>2
    <3>3. QED BY <3>1, <3>2
  <2>8. QED BY <1>1, <2>5, <2>6, <2>7 DEF InMemory
<1>10. kind = "redis" =>
         /\ stream'[q] = stream[q] \cup {e}
         /\ \A u \in QueueNames : u # q => stream'[u] = stream[u]
         /\ \A u \in QueueNames : stream[u] \subseteq Entries /\ \A x \in stream[u] : x.no # e.no /\ x.no <= records
  <2> SUFFICES ASSUME kind = "redis"
               PROVE  /\ stream'[q] = stream[q] \cup {e}
                      /\ \A u \in QueueNames : u # q => stream'[u] = stream[u]
                      /\ \A u \in QueueNames : stream[u] \subseteq Entries /\ \A x \in stream[u] : x.no # e.no /\ x.no <= records
    OBVIOUS
  <2>1. stream' = [stream EXCEPT ![q] = @ \cup {e}] /\ stream \in [QueueNames -> SUBSET Entries]
    BY <1>1, <1>4 DEF BackendTyped
  <2>2. ASSUME NEW u \in QueueNames, NEW x \in stream[u] PROVE x.no # e.no /\ x.no <= records
    <3>1. x.no <= records /\ x \in Entries BY <1>1, <2>1 DEF InStreams
    <3>2. QED BY <1>2, <1>4, <3>1 DEF Entries
  <2>3. QED BY <2>1, <2>2
<1>11. InStreams'
  <2> SUFFICES ASSUME kind = "redis"
               PROVE  /\ \A u \in QueueNames : \A r \in stream'[u] :
                           /\ r.queue = u /\ r.no <= records' /\ written'[<<u, r.id>>] # "none"
                           /\ \A x \in stream'[u] : r.no = x.no => r = x
                      /\ \A k \in Keys : written'[k] # "none" =>
                           \E r \in stream'[k[1]] : r.id = k[2] /\ r.status = written'[k] /\ IsLatest(r)'
    BY DEF InStreams
  <2>1. ASSUME NEW u \in QueueNames, NEW r \in stream'[u]
        PROVE  /\ r.queue = u /\ r.no <= records' /\ written'[<<u, r.id>>] # "none"
               /\ \A x \in stream'[u] : r.no = x.no => r = x
    <3>1. CASE r = e /\ u = q
      BY <1>1, <1>2, <1>4, <1>5, <1>10, <3>1 DEF InStreams
    <3>2. CASE r \in stream[u]
      <4>1. r \in Entries /\ r.queue = u /\ r.no <= records /\ written[<<u, r.id>>] # "none"
        BY <1>1, <1>10, <3>2 DEF InStreams
      <4>2. <<u, r.id>> \in Keys BY <4>1, KeysPair DEF Entries
      <4>3. written'[<<u, r.id>>] # "none" BY <1>5, <4>1, <4>2
      <4>4. r.no <= records' BY <1>4, <4>1 DEF Entries
      <4>5. \A x \in stream'[u] : r.no = x.no => r = x
        BY <1>1, <1>10, <3>2 DEF InStreams
      <4>6. QED BY <4>1, <4>3, <4>4, <4>5
    <3>3. QED BY <1>10, <2>1, <3>1, <3>2
  <2>2. ASSUME NEW k \in Keys, written'[k] # "none"
        PROVE  \E r \in stream'[k[1]] : r.id = k[2] /\ r.status = written'[k] /\ IsLatest(r)'
    <3>1. CASE k = <<q, i>>
      <4>1. \A x \in stream'[q] : x.no <= e.no
        BY <1>2, <1>4, <1>10 DEF Entries
      <4>2. IsLatest(e)' BY <1>2, <4>1 DEF IsLatest
      <4>3. e \in stream'[q] BY <1>10
      <4>4. QED BY <1>2, <1>3, <1>5, <3>1, <4>2, <4>3
    <3>2. CASE k # <<q, i>>
      <4>0. k[1] \in QueueNames /\ k = <<k[1], k[2]>> BY KeyPair
      <4>1. PICK r \in stream[k[1]] : r.id = k[2] /\ r.status = written[k] /\ IsLatest(r)
        BY <1>1, <1>5, <2>2, <3>2 DEF InStreams
      <4>2. r.queue = k[1] BY <1>1, <4>0, <4>1 DEF InStreams
      <4>3. ASSUME NEW x \in stream'[r.queue], x.id = r.id PROVE x \in stream[r.queue]
        BY <1>2, <1>10, <3>2, <4>0, <4>1, <4>2, <4>3
      <4>4. IsLatest(r)' BY <4>1, <4>3 DEF IsLatest
      <4>5. r \in stream'[k[1]] BY <1>10, <4>0, <4>1
      <4>6. QED BY <1>5, <3>2, <4>1, <4>4, <4>5
    <3>3. QED BY <3>1, <3>2
  <2>3. QED BY <2>1, <2>2
<1>12. OldestGone'
  <2> SUFFICES ASSUME kind = "redis", NEW o \in Processes, NEW r \in left[o].found
               PROVE  /\ r.no <= records' /\ \E k \in left[o].ids : k[2] = r.id
                      /\ \A x \in stream'[r.queue] : x.id = r.id => x \in left[o].found \/ r.no < x.no
    BY DEF OldestGone
  <2>1. r \in Entries BY <1>1 DEF BackendTyped, Works
  <2>2. r.no <= records /\ (\E k \in left[o].ids : k[2] = r.id)
        /\ \A x \in stream[r.queue] : x.id = r.id => x \in left[o].found \/ r.no < x.no
    BY <1>1 DEF OldestGone
  <2>3. r.no < e.no /\ r.no <= records' BY <1>2, <1>4, <2>1, <2>2 DEF Entries
  <2>4. r.queue \in QueueNames BY <2>1 DEF Entries
  <2>5. QED BY <1>10, <2>2, <2>3, <2>4
<1>13. QED BY <1>7, <1>8, <1>9, <1>11, <1>12 DEF BackendKept

LEMMA AddKeeps ==
  ASSUME IdsApart, BackendKept, NEW p \in Processes, NEW q \in QueueNames, NEW i \in JobIds, AddRecord(p, q, i)
  PROVE  BackendKept'
<1>1. Uses(q, i) /\ written[<<q, i>>] = "none" /\ Idle(p) /\ "waiting" \in Statuses \ {"none"}
  BY StatusNames DEF AddRecord, MayAdd, Uses
<1>2. Put(Record(q, i, "waiting"), FALSE) /\ books' = [books EXCEPT ![p][<<q, i>>] = "waiting"]
      /\ UNCHANGED <<kind, left>>
  BY DEF AddRecord
<1>3. QED BY <1>1, <1>2, PutKeeps

LEMMA UpdateKeeps ==
  ASSUME IdsApart, BackendKept, NEW p \in Processes, NEW q \in QueueNames, NEW i \in JobIds,
         NEW s \in DOMAIN Successors, UpdateRecord(p, q, i, s)
  PROVE  BackendKept'
<1>1. <<q, i>> \in Keys /\ <<q, i>>[1] = q /\ <<q, i>>[2] = i BY KeysPair
<1>2. books[p][<<q, i>>] \in Statuses BY <1>1 DEF BackendKept, BackendTyped
<1>3. s \in Successors[books[p][<<q, i>>]] \ {"waiting"} /\ Idle(p)
      /\ Put(Record(q, i, s), TRUE) /\ books' = [books EXCEPT ![p][<<q, i>>] = s]
      /\ UNCHANGED <<kind, left>>
  BY DEF UpdateRecord
<1>4. s \in Statuses \ {"none"} BY <1>2, <1>3, NextStatus
<1>5. books[p][<<q, i>>] # "none" BY <1>3 DEF Successors
<1>6. Uses(q, i) BY <1>1, <1>5 DEF BackendKept, UsesKept
<1>7. QED BY <1>3, <1>4, <1>6, PutKeeps

LEMMA GoneSet ==
  ASSUME BackendTyped, NEW keys, Gone(keys)
  PROVE  /\ written' \in [Keys -> Statuses]
         /\ \A k \in Keys : written'[k] = IF k \in keys THEN "none" ELSE written[k]
BY StatusNames DEF Gone, BackendTyped

\* A process forgets jobs, and may begin or end a remove() or a clear().
BooksShrink ==
  /\ books' \in [Processes -> [Keys -> Statuses]]
  /\ \A p \in Processes, k \in Keys : books'[p][k] \in {books[p][k], "none"}

LEMMA BooksForgotten ==
  ASSUME BackendTyped, NEW p \in Processes, NEW b \in [Keys -> Statuses],
         \A k \in Keys : b[k] \in {books[p][k], "none"}, books' = [books EXCEPT ![p] = b]
  PROVE  BooksShrink
<1>1. books \in [Processes -> [Keys -> Statuses]] BY DEF BackendTyped
<1>2. \A o \in Processes : books'[o] = IF o = p THEN b ELSE books[o] BY <1>1
<1>3. QED BY <1>1, <1>2 DEF BooksShrink

LEMMA BooksSame == ASSUME BackendTyped, books' = books PROVE BooksShrink
BY DEF BackendTyped, BooksShrink

LEMMA BooksEmptied ==
  ASSUME BackendTyped, NEW p \in Processes, books' = [books EXCEPT ![p] = Absent]
  PROVE  BooksShrink
BY AbsentTyped, BooksForgotten

LEMMA MemoryShrinks ==
  ASSUME BackendKept, kind = "memory", NEW keys \in SUBSET Keys, Gone(keys), BooksShrink,
         jobs' = {r \in jobs : <<r.queue, r.id>> \notin keys},
         UNCHANGED <<kind, stream, left, records>>
  PROVE  BackendKept'
<1>1. BackendTyped /\ UsesKept /\ InMemory BY DEF BackendKept
<1>2. written' \in [Keys -> Statuses]
      /\ \A k \in Keys : written'[k] = IF k \in keys THEN "none" ELSE written[k]
  BY <1>1, GoneSet
<1>3. BackendTyped' BY <1>1, <1>2 DEF BackendTyped, BooksShrink
<1>4. UsesKept' BY <1>1, <1>2 DEF UsesKept, BooksShrink
<1>5. ASSUME NEW r \in jobs' PROVE r \in jobs /\ <<r.queue, r.id>> \in Keys /\ <<r.queue, r.id>> \notin keys
  BY <1>1, <1>5, KeysPair DEF BackendTyped, Entries
<1>6. ASSUME NEW k \in Keys, written'[k] # "none"
      PROVE  \E r \in jobs' : r.queue = k[1] /\ r.id = k[2]
  <2>1. k \notin keys /\ written[k] # "none" /\ k = <<k[1], k[2]>> BY <1>2, <1>6, KeyPair
  <2>2. PICK r \in jobs : r.queue = k[1] /\ r.id = k[2] BY <1>1, <2>1 DEF InMemory
  <2>3. QED BY <2>1, <2>2
<1>7. InMemory' BY <1>1, <1>2, <1>5, <1>6 DEF InMemory
<1>8. InStreams' /\ OldestGone' BY DEF InStreams, OldestGone
<1>9. QED BY <1>3, <1>4, <1>7, <1>8 DEF BackendKept

LEMMA WorkBegins ==
  ASSUME BackendKept, kind = "redis", BooksShrink, left' \in [Processes -> Works],
         \A p \in Processes : /\ left'[p].found # {} => left'[p] = left[p]
                              /\ \A k \in left'[p].ids : k \in left[p].ids \/ Uses(k[1], k[2]),
         UNCHANGED <<kind, jobs, stream, written, records>>
  PROVE  BackendKept'
<1>1. BackendTyped' BY DEF BackendKept, BackendTyped, BooksShrink
<1>2. UsesKept' BY DEF BackendKept, UsesKept, BooksShrink
<1>3. InMemory' BY DEF InMemory
<1>4. InStreams' BY DEF BackendKept, InStreams, IsLatest
<1>5. OldestGone' BY DEF BackendKept, OldestGone
<1>6. QED BY <1>1, <1>2, <1>3, <1>4, <1>5 DEF BackendKept

LEMMA WorkSet ==
  ASSUME BackendTyped, NEW p \in Processes, NEW w \in Works, left' = [left EXCEPT ![p] = w]
  PROVE  /\ left' \in [Processes -> Works] /\ left'[p] = w
         /\ \A o \in Processes : o # p => left'[o] = left[o]
BY DEF BackendTyped

LEMMA CleanKeeps ==
  ASSUME IdsApart, BackendKept, NEW p \in Processes, NEW q \in QueueNames, Clean(p, q)
  PROVE  BackendKept'
<1>0. BackendTyped /\ UsesKept /\ InMemory BY DEF BackendKept
<1>. DEFINE ended == {i \in JobIds : books[p][<<q, i>>] \in {"completed", "failed"}}
            b == [k \in Keys |-> IF k[1] = q /\ k[2] \in ended THEN "none" ELSE books[p][k]]
            w == [ids |-> {q} \X ended, scan |-> QueueNames, found |-> {}, drop |-> {}]
<1>1. {q} \X ended \subseteq Keys /\ w \in Works BY DEF Keys, Works
<1>2. \A k \in {q} \X ended : Uses(k[1], k[2])
  <2> SUFFICES ASSUME NEW i \in ended PROVE Uses(q, i)
    OBVIOUS
  <2>1. books[p][<<q, i>>] # "none" /\ <<q, i>> \in Keys /\ <<q, i>>[1] = q /\ <<q, i>>[2] = i
    BY KeysPair
  <2>2. QED BY <1>0, <2>1 DEF UsesKept
<1>3. BooksShrink
  <2>1. b \in [Keys -> Statuses] /\ \A k \in Keys : b[k] \in {books[p][k], "none"}
    BY <1>0, StatusNames DEF BackendTyped
  <2>2. books' = [books EXCEPT ![p] = b]
    BY <1>0 DEF Clean, BackendTyped
  <2>. HIDE DEF b
  <2>3. QED BY <1>0, <2>1, <2>2, BooksForgotten
<1>4. CASE kind = "memory"
  <2>1. jobs' = {r \in jobs : r.id \notin ended} /\ Gone({q} \X ended) /\ UNCHANGED <<kind, stream, left, records>>
    BY <1>4 DEF Clean
  <2>2. ASSUME NEW r \in jobs PROVE r.id \in ended <=> <<r.queue, r.id>> \in {q} \X ended
    <3>1. r \in Entries /\ <<r.queue, r.id>> \in Keys /\ r.id \in JobIds BY <1>0, KeysPair DEF BackendTyped, Entries
    <3>2. written[<<r.queue, r.id>>] # "none" BY <1>0, <1>4, <3>1 DEF InMemory, Entries
    <3>3. Uses(r.queue, r.id) BY <1>0, <3>1, <3>2, KeysPair DEF UsesKept, Entries
    <3>4. ASSUME r.id \in ended PROVE r.queue = q
      <4>1. Uses(q, r.id) BY <1>2, <3>4
      <4>2. QED BY <3>1, <3>3, <4>1 DEF IdsApart, Uses
    <3>5. QED BY <3>4
  <2>3. jobs' = {r \in jobs : <<r.queue, r.id>> \notin {q} \X ended} BY <2>1, <2>2
  <2>. HIDE DEF ended
  <2>4. QED BY <1>1, <1>3, <1>4, <2>1, <2>3, MemoryShrinks
<1>5. CASE kind = "redis"
  <2>1. left' = [left EXCEPT ![p] = w] /\ UNCHANGED <<kind, jobs, stream, written, records>>
    BY <1>5 DEF Clean, NothingLeft
  <2>2. left' \in [Processes -> Works] /\ left'[p] = w /\ \A o \in Processes : o # p => left'[o] = left[o]
    <3>. HIDE DEF w
    <3>1. QED BY <1>0, <1>1, <2>1, WorkSet
  <2>3. w.found = {} /\ w.ids = {q} \X ended OBVIOUS
  <2>. HIDE DEF w, ended
  <2>4. \A o \in Processes : /\ left'[o].found # {} => left'[o] = left[o]
                             /\ \A k \in left'[o].ids : k \in left[o].ids \/ Uses(k[1], k[2])
    BY <1>2, <2>2, <2>3
  <2>5. QED BY <1>3, <1>5, <2>1, <2>2, <2>4, WorkBegins
<1>6. QED BY <1>0, <1>4, <1>5 DEF BackendTyped

LEMMA ReadKeeps ==
  ASSUME BackendKept, NEW p \in Processes, NEW q \in QueueNames, ReadStream(p, q)
  PROVE  BackendKept'
<1>0. BackendTyped /\ UsesKept /\ InMemory /\ InStreams /\ OldestGone BY DEF BackendKept
<1>1. kind = "redis"
  BY <1>0, NothingTyped DEF ReadStream, BackendTyped, InMemory
<1>2. PICK found : found = {r \in stream[q] : \E k \in left[p].ids : k[2] = r.id} OBVIOUS
<1>3. PICK w : w = Remaining(left[p], left[p].scan \ {q}, found) OBVIOUS
<1>4. found \in SUBSET Entries /\ left[p] \in Works /\ left[p].scan \ {q} \in SUBSET QueueNames
  BY <1>0, <1>2 DEF BackendTyped, Works
<1>5. w \in Works /\ w.found = found /\ w.ids \in {left[p].ids, {}} /\ (found # {} => w.ids = left[p].ids)
  <2>1. PICK v \in Works, scan \in SUBSET QueueNames : v = left[p] /\ scan = left[p].scan \ {q} BY <1>4
  <2>2. w = Remaining(v, scan, found) BY <1>3, <2>1
  <2>3. \/ w = NothingLeft /\ found = {}
        \/ w = [ids |-> v.ids, scan |-> scan, found |-> found, drop |-> v.drop]
    BY <2>2, RemainingIs
  <2>4. [ids |-> v.ids, scan |-> scan, found |-> found, drop |-> v.drop] \in Works
    BY <1>4, WorkTyped
  <2>5. QED BY <2>1, <2>3, <2>4, NothingTyped
<1>6. left' = [left EXCEPT ![p] = w] /\ UNCHANGED <<kind, jobs, stream, books, written, records>>
  BY <1>0, <1>2, <1>3 DEF ReadStream, BackendTyped
<1>7. left' \in [Processes -> Works] /\ left'[p] = w /\ \A o \in Processes : o # p => left'[o] = left[o]
  BY <1>0, <1>5, <1>6, WorkSet
<1>8. BackendTyped' BY <1>0, <1>6, <1>7 DEF BackendTyped
<1>9. UsesKept' BY <1>0, <1>5, <1>6, <1>7 DEF UsesKept
<1>10. InMemory' BY <1>1, <1>6 DEF InMemory
<1>11. InStreams' BY <1>0, <1>6 DEF InStreams, IsLatest
<1>12. OldestGone'
  <2> SUFFICES ASSUME NEW o \in Processes, NEW r \in left'[o].found
               PROVE  /\ r.no <= records /\ \E k \in left'[o].ids : k[2] = r.id
                      /\ \A x \in stream[r.queue] : x.id = r.id => x \in left'[o].found \/ r.no < x.no
    BY <1>6 DEF OldestGone
  <2>1. CASE o = p
    <3>1. r \in stream[q] /\ r.queue = q /\ r.no <= records BY <1>0, <1>1, <1>2, <1>5, <1>7, <2>1 DEF InStreams
    <3>2. PICK k \in left[p].ids : k[2] = r.id BY <1>2, <1>5, <1>7, <2>1
    <3>3. QED BY <1>2, <1>5, <1>7, <2>1, <3>1, <3>2
  <2>2. CASE o # p BY <1>0, <1>1, <1>7, <2>2 DEF OldestGone
  <2>3. QED BY <2>1, <2>2
<1>13. QED BY <1>8, <1>9, <1>10, <1>11, <1>12 DEF BackendKept

LEMMA DeleteKeeps ==
  ASSUME IdsApart, BackendKept, NEW p \in Processes, DeleteEntry(p)
  PROVE  BackendKept'
<1>0. BackendTyped /\ UsesKept /\ InMemory /\ InStreams /\ OldestGone BY DEF BackendKept
<1>1. PICK e \in DeletedNext(left[p].found) :
        /\ stream' = [stream EXCEPT ![e.queue] = @ \ {e}]
        /\ LET last == \A r \in stream'[e.queue] : r.id # e.id
           IN Gone(IF last THEN {<<e.queue, e.id>>} \cap left[p].ids ELSE {})
        /\ left' = [left EXCEPT ![p] = Remaining(@, @.scan, @.found \ {e})]
        /\ UNCHANGED <<kind, jobs, books, records>>
  BY DEF DeleteEntry
<1>2. e \in left[p].found /\ e \in Entries /\ \A x \in left[p].found : e.no <= x.no
  BY <1>0, <1>1 DEF DeletedNext, Oldest, BackendTyped, Works
<1>3. kind = "redis" BY <1>0, <1>2, NothingTyped DEF BackendTyped, InMemory
<1>4. PICK q \in QueueNames, i \in JobIds : q = e.queue /\ i = e.id BY <1>2 DEF Entries
<1>5. <<q, i>> \in Keys /\ <<q, i>>[1] = q /\ <<q, i>>[2] = i BY KeysPair
<1>6. PICK gone : gone = IF \A r \in stream'[q] : r.id # i THEN {<<q, i>>} \cap left[p].ids ELSE {}
  OBVIOUS
<1>7. Gone(gone) BY <1>1, <1>4, <1>6
<1>8. written' \in [Keys -> Statuses]
      /\ \A k \in Keys : written'[k] = IF k \in gone THEN "none" ELSE written[k]
  BY <1>0, <1>7, GoneSet
<1>9. /\ stream' \in [QueueNames -> SUBSET Entries] /\ stream'[q] = stream[q] \ {e}
      /\ \A u \in QueueNames : u # q => stream'[u] = stream[u]
  BY <1>0, <1>1, <1>4 DEF BackendTyped
<1>10. PICK w : w = Remaining(left[p], left[p].scan, left[p].found \ {e}) OBVIOUS
<1>11. w \in Works /\ w.found = left[p].found \ {e} /\ w.ids \in {left[p].ids, {}}
       /\ (w.found # {} => w.ids = left[p].ids)
  <2>1. left[p] \in Works /\ left[p].scan \in SUBSET QueueNames /\ left[p].found \ {e} \in SUBSET Entries
    BY <1>0 DEF BackendTyped, Works
  <2>2. PICK v \in Works, scan \in SUBSET QueueNames, found \in SUBSET Entries :
          v = left[p] /\ scan = left[p].scan /\ found = left[p].found \ {e}
    BY <2>1
  <2>3. w = Remaining(v, scan, found) BY <1>10, <2>2
  <2>4. \/ w = NothingLeft /\ found = {}
        \/ w = [ids |-> v.ids, scan |-> scan, found |-> found, drop |-> v.drop]
    BY <2>3, RemainingIs
  <2>5. [ids |-> v.ids, scan |-> scan, found |-> found, drop |-> v.drop] \in Works
    BY WorkTyped
  <2>6. QED BY <2>2, <2>4, <2>5, NothingTyped
<1>12. left' = [left EXCEPT ![p] = w] BY <1>0, <1>1, <1>10 DEF BackendTyped
<1>13. left' \in [Processes -> Works] /\ left'[p] = w /\ \A o \in Processes : o # p => left'[o] = left[o]
  BY <1>0, <1>11, <1>12, WorkSet
<1>14. UNCHANGED <<kind, jobs, books, records>> BY <1>1
<1>15. BackendTyped' BY <1>0, <1>8, <1>9, <1>13, <1>14 DEF BackendTyped
<1>16. UsesKept' BY <1>0, <1>8, <1>11, <1>13, <1>14 DEF UsesKept
<1>17. InMemory' BY <1>3, <1>14 DEF InMemory
\* An older entry that stays is not shown: a newer one of the id stays too.
<1>18. ASSUME NEW r \in stream[q], r.id = i, r # e, e \in stream[q] PROVE e.no < r.no
  <2>1. r \in Entries /\ (r.no = e.no => r = e) BY <1>0, <1>3, <1>18 DEF BackendTyped, InStreams
  <2>2. r \in left[p].found \/ e.no < r.no BY <1>0, <1>2, <1>3, <1>4, <1>18 DEF OldestGone
  <2>3. QED BY <1>2, <1>18, <2>1, <2>2 DEF Entries
<1>19. InStreams'
  <2>1. ASSUME NEW u \in QueueNames, NEW r \in stream'[u]
        PROVE  /\ r.queue = u /\ r.no <= records' /\ written'[<<u, r.id>>] # "none"
               /\ \A x \in stream'[u] : r.no = x.no => r = x
    <3>1. r \in stream[u] /\ r \in Entries BY <1>0, <1>9, <2>1 DEF BackendTyped
    <3>2. <<u, r.id>> \in Keys /\ <<u, r.id>>[1] = u /\ <<u, r.id>>[2] = r.id BY <3>1, KeysPair DEF Entries
    <3>3. <<u, r.id>> \notin gone BY <1>5, <1>6, <2>1, <3>2
    <3>4. written'[<<u, r.id>>] = written[<<u, r.id>>] BY <1>8, <3>2, <3>3
    <3>5. QED BY <1>0, <1>3, <1>9, <1>14, <3>1, <3>4 DEF InStreams
  <2>2. ASSUME NEW k \in Keys, written'[k] # "none"
        PROVE  \E r \in stream'[k[1]] : r.id = k[2] /\ r.status = written'[k] /\ IsLatest(r)'
    <3>0. k[1] \in QueueNames /\ k = <<k[1], k[2]>> BY KeyPair
    <3>1. k \notin gone /\ written'[k] = written[k] BY <1>8, <2>2
    <3>2. PICK r \in stream[k[1]] : r.id = k[2] /\ r.status = written[k] /\ IsLatest(r)
      BY <1>0, <1>3, <2>2, <3>1 DEF InStreams
    <3>3. r.queue = k[1] BY <1>0, <1>3, <3>0, <3>2 DEF InStreams
    <3>4. r \in stream'[k[1]]
      <4>1. ASSUME r = e, k[1] = q PROVE FALSE
        <5>1. k = <<q, i>> /\ e \in stream[q] BY <1>4, <3>0, <3>2, <4>1
        <5>2. \A x \in stream'[q] : x.id # i
          <6> SUFFICES ASSUME NEW x \in stream'[q], x.id = i PROVE FALSE
            OBVIOUS
          <6>1. x \in stream[q] /\ x # e /\ x \in Entries BY <1>0, <1>9 DEF BackendTyped
          <6>2. e.no < x.no BY <1>18, <5>1, <6>1
          <6>3. x.no <= e.no BY <1>4, <3>2, <4>1, <6>1 DEF IsLatest
          <6>4. QED BY <1>2, <6>1, <6>2, <6>3 DEF Entries
        <5>3. PICK l \in left[p].ids : l[2] = i BY <1>0, <1>2, <1>3, <1>4 DEF OldestGone
        <5>4. l \in Keys /\ Uses(l[1], i) BY <1>0, <5>3 DEF UsesKept, BackendTyped, Works
        <5>5. Uses(q, i) BY <1>0, <1>5, <2>2, <3>1, <5>1 DEF UsesKept
        <5>6. l = <<q, i>>
          <6>1. l[1] = q BY <5>4, <5>5 DEF IdsApart, Uses
          <6>2. l = <<l[1], l[2]>> BY <5>4, KeyPair
          <6>3. QED BY <5>3, <6>1, <6>2
        <5>7. k \in gone BY <1>6, <5>1, <5>2, <5>3, <5>6
        <5>8. QED BY <3>1, <5>7
      <4>2. QED BY <1>9, <3>0, <3>2, <4>1
    <3>5. IsLatest(r)' BY <1>9, <3>0, <3>2, <3>3 DEF IsLatest
    <3>6. QED BY <3>1, <3>2, <3>4, <3>5
  <2>3. QED BY <2>1, <2>2 DEF InStreams
<1>20. OldestGone'
  <2> SUFFICES ASSUME NEW o \in Processes, NEW r \in left'[o].found
               PROVE  /\ r.no <= records' /\ \E k \in left'[o].ids : k[2] = r.id
                      /\ \A x \in stream'[r.queue] : x.id = r.id => x \in left'[o].found \/ r.no < x.no
    BY DEF OldestGone
  <2>1. r \in left[o].found BY <1>11, <1>13
  <2>2. r.queue \in QueueNames /\ stream'[r.queue] \subseteq stream[r.queue]
    BY <1>0, <1>9, <2>1 DEF BackendTyped, Works, Entries
  <2>3. /\ r.no <= records /\ \E k \in left[o].ids : k[2] = r.id
        /\ \A x \in stream[r.queue] : x.id = r.id => x \in left[o].found \/ r.no < x.no
    BY <1>0, <1>3, <2>1 DEF OldestGone
  <2>4. \E k \in left'[o].ids : k[2] = r.id BY <1>11, <1>13, <2>3
  <2>5. ASSUME NEW x \in stream'[r.queue], x.id = r.id PROVE x \in left'[o].found \/ r.no < x.no
    <3>1. x \in left[o].found \/ r.no < x.no BY <2>2, <2>3, <2>5
    <3>2. CASE o = p
      <4>1. ASSUME x = e PROVE FALSE
        <5>1. PICK u \in QueueNames : u = r.queue BY <2>2
        <5>2. x.queue = r.queue
          <6>1. \A y \in stream[u] : y.queue = u BY <1>0, <1>3 DEF InStreams
          <6>2. x \in stream[u] BY <2>2, <2>5, <5>1
          <6>3. QED BY <5>1, <6>1, <6>2
        <5>3. r.queue = q BY <1>4, <4>1, <5>2
        <5>4. QED BY <1>9, <2>5, <4>1, <5>3
      <4>2. QED BY <1>11, <1>13, <3>1, <3>2, <4>1
    <3>3. CASE o # p BY <1>13, <3>1, <3>3
    <3>4. QED BY <3>2, <3>3
  <2>6. QED BY <1>14, <2>3, <2>4, <2>5
<1>21. QED BY <1>15, <1>16, <1>17, <1>19, <1>20 DEF BackendKept

LEMMA DropChanged ==
  ASSUME NEW w \in Works, NEW d \in SUBSET QueueNames
  PROVE  /\ [w EXCEPT !.drop = d] \in Works /\ [w EXCEPT !.drop = d].found = w.found
         /\ [w EXCEPT !.drop = d].ids = w.ids
BY DEF Works

LEMMA ClearKeeps ==
  ASSUME BackendKept, NEW p \in Processes, ClearAll(p)
  PROVE  BackendKept'
<1>0. BackendTyped /\ UsesKept BY DEF BackendKept
<1>1. CASE kind = "memory"
  <2>1. jobs' = {} /\ Gone(Keys) /\ books' = [books EXCEPT ![p] = Absent] /\ UNCHANGED <<kind, stream, left, records>>
    BY <1>1 DEF ClearAll
  <2>2. BooksShrink BY <1>0, <2>1, BooksEmptied
  <2>3. jobs' = {r \in jobs : <<r.queue, r.id>> \notin Keys}
    BY <1>0, <2>1, KeysPair DEF BackendTyped, Entries
  <2>4. QED BY <1>1, <2>1, <2>2, <2>3, MemoryShrinks
<1>2. CASE kind = "redis"
  <2>1. left[p] = NothingLeft /\ left[p] \in Works /\ UNCHANGED <<kind, jobs, stream, books, written, records>>
        /\ left' = [left EXCEPT ![p].drop = QueueNames]
    BY <1>0, <1>2, NothingTyped DEF ClearAll, Idle
  <2>2. PICK w : w = [left[p] EXCEPT !.drop = QueueNames] OBVIOUS
  <2>3. w \in Works /\ w.found = {} /\ w.ids = {} BY <2>1, <2>2, DropChanged, NothingTyped
  <2>4. left' = [left EXCEPT ![p] = w] BY <1>0, <2>1, <2>2 DEF BackendTyped
  <2>5. left' \in [Processes -> Works] /\ left'[p] = w /\ \A o \in Processes : o # p => left'[o] = left[o]
    BY <1>0, <2>3, <2>4, WorkSet
  <2>6. BooksShrink BY <1>0, <2>1, BooksSame
  <2>7. \A o \in Processes : /\ left'[o].found # {} => left'[o] = left[o]
                             /\ \A k \in left'[o].ids : k \in left[o].ids \/ Uses(k[1], k[2])
    BY <2>3, <2>5
  <2>8. QED BY <1>2, <2>1, <2>5, <2>6, <2>7, WorkBegins
<1>3. QED BY <1>0, <1>1, <1>2 DEF BackendTyped

LEMMA DropKeeps ==
  ASSUME BackendKept, NEW p \in Processes, NEW q \in QueueNames, DeleteStream(p, q)
  PROVE  BackendKept'
<1>0. BackendTyped /\ UsesKept /\ InMemory /\ InStreams /\ OldestGone BY DEF BackendKept
<1>1. kind = "redis" BY <1>0, NothingTyped DEF DeleteStream, BackendTyped, InMemory
<1>2. PICK w : w = [left[p] EXCEPT !.drop = @ \ {q}] OBVIOUS
<1>3. w \in Works /\ w.found = left[p].found /\ w.ids = left[p].ids
  <2>1. left[p] \in Works /\ left[p].drop \ {q} \in SUBSET QueueNames BY <1>0 DEF BackendTyped, Works
  <2>2. w = [left[p] EXCEPT !.drop = left[p].drop \ {q}] BY <1>2
  <2>3. QED BY <2>1, <2>2, DropChanged
<1>4. left' = [left EXCEPT ![p] = w] /\ stream' = [stream EXCEPT ![q] = {}] /\ Gone({q} \X JobIds)
      /\ UNCHANGED <<kind, jobs, records>>
  BY <1>0, <1>2 DEF DeleteStream, BackendTyped
<1>5. left' \in [Processes -> Works] /\ left'[p] = w /\ \A o \in Processes : o # p => left'[o] = left[o]
  BY <1>0, <1>3, <1>4, WorkSet
<1>6. stream' \in [QueueNames -> SUBSET Entries] /\ stream'[q] = {} /\ \A u \in QueueNames : u # q => stream'[u] = stream[u]
  BY <1>0, <1>4 DEF BackendTyped
<1>7. /\ written' \in [Keys -> Statuses]
      /\ \A k \in Keys : written'[k] = IF k[1] = q THEN "none" ELSE written[k]
  <2>1. \A k \in Keys : k \in {q} \X JobIds <=> k[1] = q BY DEF Keys
  <2>2. QED BY <1>0, <1>4, <2>1, GoneSet
<1>8. BooksShrink BY <1>0, BooksSame, BooksEmptied DEF DeleteStream
<1>9. BackendTyped' BY <1>0, <1>4, <1>5, <1>6, <1>7, <1>8 DEF BackendTyped, BooksShrink
<1>10. UsesKept' BY <1>0, <1>3, <1>5, <1>7, <1>8 DEF UsesKept, BooksShrink
<1>11. InMemory' BY <1>1, <1>4 DEF InMemory
<1>12. InStreams'
  <2>1. ASSUME NEW u \in QueueNames, NEW r \in stream'[u]
        PROVE  /\ r.queue = u /\ r.no <= records' /\ written'[<<u, r.id>>] # "none"
               /\ \A x \in stream'[u] : r.no = x.no => r = x
    <3>1. u # q /\ r \in stream[u] /\ r \in Entries BY <1>0, <1>6, <2>1 DEF BackendTyped
    <3>2. <<u, r.id>> \in Keys /\ <<u, r.id>>[1] = u BY <3>1, KeysPair DEF Entries
    <3>3. written'[<<u, r.id>>] = written[<<u, r.id>>] BY <1>7, <3>1, <3>2
    <3>4. QED BY <1>0, <1>1, <1>4, <1>6, <3>1, <3>3 DEF InStreams
  <2>2. ASSUME NEW k \in Keys, written'[k] # "none"
        PROVE  \E r \in stream'[k[1]] : r.id = k[2] /\ r.status = written'[k] /\ IsLatest(r)'
    <3>1. k[1] # q /\ k[1] \in QueueNames /\ written'[k] = written[k] BY <1>7, <2>2, KeyPair
    <3>2. PICK r \in stream[k[1]] : r.id = k[2] /\ r.status = written[k] /\ IsLatest(r)
      BY <1>0, <1>1, <2>2, <3>1 DEF InStreams
    <3>3. r.queue = k[1] BY <1>0, <1>1, <3>1, <3>2 DEF InStreams
    <3>4. IsLatest(r)' BY <1>6, <3>1, <3>2, <3>3 DEF IsLatest
    <3>5. QED BY <1>6, <3>1, <3>2, <3>4
  <2>3. QED BY <2>1, <2>2 DEF InStreams
<1>13. OldestGone'
  <2> SUFFICES ASSUME NEW o \in Processes, NEW r \in left'[o].found
               PROVE  /\ r.no <= records' /\ \E k \in left'[o].ids : k[2] = r.id
                      /\ \A x \in stream'[r.queue] : x.id = r.id => x \in left'[o].found \/ r.no < x.no
    BY DEF OldestGone
  <2>1. left'[o].found = left[o].found /\ left'[o].ids = left[o].ids BY <1>3, <1>5
  <2>2. r.queue \in QueueNames /\ stream'[r.queue] \subseteq stream[r.queue]
    BY <1>0, <1>6, <2>1 DEF BackendTyped, Works, Entries
  <2>3. QED BY <1>0, <1>1, <1>4, <2>1, <2>2 DEF OldestGone
<1>14. QED BY <1>9, <1>10, <1>11, <1>12, <1>13 DEF BackendKept

LEMMA FailKeeps ==
  ASSUME BackendKept, NEW p \in Processes, CommandFails(p)
  PROVE  BackendKept'
<1>0. BackendTyped /\ InMemory BY DEF BackendKept
<1>1. kind = "redis" BY <1>0 DEF CommandFails, BackendTyped, InMemory
<1>2. left' = [left EXCEPT ![p] = NothingLeft] /\ UNCHANGED <<kind, jobs, stream, books, written, records>>
  BY DEF CommandFails
<1>3. left' \in [Processes -> Works] /\ left'[p] = NothingLeft /\ \A o \in Processes : o # p => left'[o] = left[o]
  BY <1>0, <1>2, NothingTyped, WorkSet
<1>4. BooksShrink BY <1>0, <1>2, BooksSame
<1>5. \A o \in Processes : /\ left'[o].found # {} => left'[o] = left[o]
                           /\ \A k \in left'[o].ids : k \in left[o].ids \/ Uses(k[1], k[2])
  BY <1>3, NothingTyped
<1>6. QED BY <1>1, <1>2, <1>3, <1>4, <1>5, WorkBegins

LEMMA RestartKeeps ==
  ASSUME BackendKept, NEW p \in Processes, Restart(p)
  PROVE  BackendKept'
<1>0. BackendTyped /\ InMemory BY DEF BackendKept
<1>1. left' = [left EXCEPT ![p] = NothingLeft] /\ books' = [books EXCEPT ![p] = Absent]
      /\ UNCHANGED <<kind, stream, records>>
  BY DEF Restart
<1>2. BooksShrink BY <1>0, <1>1, BooksEmptied
<1>3. left' \in [Processes -> Works] /\ left'[p] = NothingLeft /\ \A o \in Processes : o # p => left'[o] = left[o]
  BY <1>0, <1>1, NothingTyped, WorkSet
<1>4. CASE kind = "memory"
  <2>1. jobs' = {} /\ Gone(Keys) BY <1>4 DEF Restart
  <2>2. left' = left BY <1>0, <1>1, <1>4 DEF BackendTyped, InMemory
  <2>3. jobs' = {r \in jobs : <<r.queue, r.id>> \notin Keys}
    BY <1>0, <2>1, KeysPair DEF BackendTyped, Entries
  <2>4. QED BY <1>1, <1>2, <1>4, <2>1, <2>2, <2>3, MemoryShrinks
<1>5. CASE kind = "redis"
  <2>1. UNCHANGED <<jobs, written>> BY <1>5 DEF Restart
  <2>2. \A o \in Processes : /\ left'[o].found # {} => left'[o] = left[o]
                             /\ \A k \in left'[o].ids : k \in left[o].ids \/ Uses(k[1], k[2])
    BY <1>3, NothingTyped
  <2>3. QED BY <1>1, <1>2, <1>3, <1>5, <2>1, <2>2, WorkBegins
<1>6. QED BY <1>0, <1>4, <1>5 DEF BackendTyped

LEMMA BackendStep == ASSUME IdsApart, BackendKept, [BackendNext]_backendVars PROVE BackendKept'
<1>1. CASE UNCHANGED backendVars
  BY <1>1 DEF backendVars, BackendKept, BackendTyped, UsesKept, InMemory, InStreams, OldestGone, IsLatest
<1>2. CASE BackendNext
  BY <1>2, AddKeeps, UpdateKeeps, CleanKeeps, ReadKeeps, DeleteKeeps, ClearKeeps, DropKeeps, FailKeeps,
     RestartKeeps DEF BackendNext
<1>3. QED BY <1>1, <1>2

\* While no two queues use an id, what jobs() shows is what was written last,
\* with every process that removes records dying anywhere
\* (queues/module.py:205).
THEOREM RecordsCurrentAlways == IdsApart /\ BackendSpec => []RecordsCurrent
<1>1. IdsApart /\ BackendKept /\ [BackendNext]_backendVars => IdsApart' /\ BackendKept'
  BY BackendStep DEF IdsApart
<1>2. QED BY BackendStarts, CurrentShown, <1>1, PTL DEF BackendSpec

-----------------------------------------------------------------------------
(* The guards of a request *)

\* The guards that let the request through would do so still, and the user they
\* asked about is the one whose token was verified.
AuthKept ==
  /\ clock \in Nat /\ checkedAt \in Nat /\ issued.expires \in Nat
  /\ chain \in Seq(Guards) /\ at \in 0 .. Len(chain)
  /\ verdict \in {"none", "running", "handled", "refused"}
  /\ verdict = "none" => at = 0 /\ user = NoUser
  /\ verdict = "handled" => at = Len(chain)
  /\ user # NoUser => user = issued /\ user.trusted /\ checkedAt < user.expires + Leeway
  /\ ~IsPublic =>
       \A i \in 1 .. at :
         /\ chain[i] \in {"jwt", "passport"} => user # NoUser
         /\ chain[i] = "roles" =>
              Required(handling.roles) = {} \/ user.roles \cap Required(handling.roles) # {}
         /\ chain[i] = "scopes" =>
              Required(handling.scopes) = {} \/ (user # NoUser /\ Required(handling.scopes) \subseteq user.scopes)
  /\ (IsPublic /\ verdict = "refused") => InChain("policies") /\ handling.policies # {}

LEMMA NobodyTyped == NoUser.roles = {} /\ NoUser.scopes = {} /\ NoUser.expires = 0 /\ NoToken = NoUser
BY DEF NoUser, NoToken

LEMMA AuthStarts == AuthInit => AuthKept
<1> SUFFICES ASSUME AuthInit PROVE AuthKept
  OBVIOUS
<1>1. chain \in Seq(Guards) /\ at = 0 /\ verdict = "none" /\ user = NoUser /\ issued = NoUser
      /\ clock = 1 /\ checkedAt = 0
  BY AuthorizationAssumption, NobodyTyped DEF AuthInit
<1>2. Len(chain) \in Nat BY <1>1
<1>3. 1 .. at = {} BY <1>1
<1>4. QED BY <1>1, <1>2, <1>3, NobodyTyped DEF AuthKept

LEMMA GrantedShown == AuthKept => AccessGranted
<1> SUFFICES ASSUME AuthKept PROVE AccessGranted
  OBVIOUS
<1>1. ASSUME verdict = "handled", ~IsPublic
      PROVE  /\ (InChain("jwt") \/ InChain("passport")) =>
                  user.trusted /\ checkedAt < user.expires + Leeway
             /\ (InChain("roles") /\ Required(handling.roles) # {}) =>
                  \E role \in Required(handling.roles) : role \in user.roles
             /\ InChain("scopes") => \A scope \in Required(handling.scopes) : scope \in user.scopes
  <2>1. DOMAIN chain = 1 .. at BY <1>1 DEF AuthKept
  <2>2. ASSUME InChain("jwt") \/ InChain("passport") PROVE user # NoUser
    BY <1>1, <2>1, <2>2 DEF AuthKept, InChain
  <2>3. ASSUME InChain("roles"), Required(handling.roles) # {}
        PROVE  user.roles \cap Required(handling.roles) # {}
    BY <1>1, <2>1, <2>3 DEF AuthKept, InChain
  <2>4. ASSUME InChain("scopes"), Required(handling.scopes) # {}
        PROVE  Required(handling.scopes) \subseteq user.scopes
    BY <1>1, <2>1, <2>4 DEF AuthKept, InChain
  <2>5. user # NoUser => user.trusted /\ checkedAt < user.expires + Leeway BY DEF AuthKept
  <2>6. QED BY <2>2, <2>3, <2>4, <2>5
<1>2. (verdict = "refused" /\ IsPublic) => InChain("policies") /\ handling.policies # {}
  BY DEF AuthKept
<1>3. QED BY <1>1, <1>2 DEF AccessGranted

LEMMA GuardKeeps == ASSUME AuthKept, Guard PROVE AuthKept'
<1>. DEFINE guard == chain[at + 1]
<1>1. at + 1 \in 1 .. Len(chain) /\ guard \in Guards /\ chain \in Seq(Guards) /\ verdict = "running"
      /\ at \in Nat
  BY DEF AuthKept, Guard
<1>2. UNCHANGED <<clock, issued, chain, handling, rules>> /\ (IsPublic' <=> IsPublic)
      /\ Required(handling.roles)' = Required(handling.roles) /\ Required(handling.scopes)' = Required(handling.scopes)
      /\ (InChain("policies")' <=> InChain("policies"))
  BY DEF Guard, IsPublic, Required, InChain
<1>3. CASE Lets(guard)
  <2>1. at' = at + 1 /\ verdict' = verdict BY <1>3 DEF Guard
  <2>2. CASE guard \in {"jwt", "passport"} /\ ~IsPublic
    <3>1. user' = issued /\ checkedAt' = clock BY <1>3, <2>2 DEF Guard
    <3>2. issued # NoToken /\ issued.trusted /\ clock < issued.expires + Leeway
      BY <1>3, <2>2 DEF Lets, JwtPasses, Verifies
    <3>3. user' # NoUser /\ user'.trusted /\ checkedAt' < user'.expires + Leeway
      BY <3>1, <3>2, NobodyTyped
    <3>4. user # NoUser => user' = user BY <3>1 DEF AuthKept
    <3>5. ASSUME NEW i \in 1 .. at + 1
          PROVE  /\ chain[i] = "roles" =>
                      Required(handling.roles) = {} \/ user'.roles \cap Required(handling.roles) # {}
                 /\ chain[i] = "scopes" =>
                      Required(handling.scopes) = {} \/ Required(handling.scopes) \subseteq user'.scopes
      <4>1. CASE i = at + 1 BY <2>2, <4>1
      <4>2. CASE i \in 1 .. at
        <5>1. /\ chain[i] = "roles" =>
                   Required(handling.roles) = {} \/ user.roles \cap Required(handling.roles) # {}
              /\ chain[i] = "scopes" =>
                   Required(handling.scopes) = {} \/ (user # NoUser /\ Required(handling.scopes) \subseteq user.scopes)
          BY <2>2, <4>2 DEF AuthKept
        <5>2. CASE user = NoUser BY <5>1, <5>2, NobodyTyped
        <5>3. CASE user # NoUser BY <3>4, <5>1, <5>3
        <5>4. QED BY <5>2, <5>3
      <4>3. QED BY <1>1, <4>1, <4>2
    <3>6. QED BY <1>1, <1>2, <2>1, <2>2, <3>1, <3>3, <3>5 DEF AuthKept
  <2>3. CASE ~(guard \in {"jwt", "passport"} /\ ~IsPublic)
    <3>1. user' = user /\ checkedAt' = checkedAt BY <1>3, <2>3 DEF Guard
    <3>2. ASSUME ~IsPublic, NEW i \in 1 .. at + 1
          PROVE  /\ chain[i] \in {"jwt", "passport"} => user # NoUser
                 /\ chain[i] = "roles" =>
                      Required(handling.roles) = {} \/ user.roles \cap Required(handling.roles) # {}
                 /\ chain[i] = "scopes" =>
                      Required(handling.scopes) = {} \/ (user # NoUser /\ Required(handling.scopes) \subseteq user.scopes)
      <4>1. CASE i = at + 1
        BY <1>3, <2>3, <3>2, <4>1 DEF Lets, RolesPass, ScopesPass
      <4>2. CASE i \in 1 .. at BY <3>2, <4>2 DEF AuthKept
      <4>3. QED BY <1>1, <4>1, <4>2
    <3>3. QED BY <1>1, <1>2, <2>1, <3>1, <3>2 DEF AuthKept
  <2>4. QED BY <2>2, <2>3
<1>4. CASE ~Lets(guard)
  <2>1. verdict' = "refused" /\ UNCHANGED <<at, user, checkedAt>> BY <1>4 DEF Guard
  <2>2. ASSUME IsPublic PROVE InChain("policies") /\ handling.policies # {}
    <3>1. guard = "policies"
      BY <1>1, <1>4, <2>2 DEF Lets, JwtPasses, RolesPass, ScopesPass, Guards
    <3>2. ~PoliciesPass BY <1>4, <3>1 DEF Lets
    <3>3. handling.policies # {} BY <3>2 DEF PoliciesPass
    <3>4. at + 1 \in DOMAIN chain BY <1>1
    <3>5. QED BY <3>1, <3>3, <3>4 DEF InChain
  <2>3. QED BY <1>1, <1>2, <2>1, <2>2 DEF AuthKept
<1>5. QED BY <1>3, <1>4

LEMMA AuthStep == ASSUME AuthKept, [AuthNext]_authVars PROVE AuthKept'
<1>1. CASE Sign
  <2>1. user = NoUser /\ at = 0 /\ UNCHANGED <<clock, chain, handling, rules, at, user, verdict, checkedAt>>
    BY <1>1 DEF Sign, AuthKept
  <2>2. issued'.expires \in Nat
    BY <1>1, AuthorizationAssumption DEF Sign, AuthKept
  <2>3. QED BY <2>1, <2>2 DEF AuthKept, IsPublic, Required, InChain
<1>2. CASE Tick
  BY <1>2 DEF Tick, AuthKept, IsPublic, Required, InChain
<1>3. CASE EnterChain
  BY <1>3 DEF EnterChain, AuthKept, IsPublic, Required, InChain
<1>4. CASE Guard BY <1>4, GuardKeeps
<1>5. CASE Handle
  BY <1>5 DEF Handle, AuthKept, IsPublic, Required, InChain
<1>6. CASE UNCHANGED authVars
  BY <1>6 DEF authVars, AuthKept, IsPublic, Required, InChain
<1>7. QED BY <1>1, <1>2, <1>3, <1>4, <1>5, <1>6 DEF AuthNext

\* A handler runs only for whom its guards allow, in whatever order they stand
\* and however long they take (auth/jwt.py:145).
THEOREM AccessGrantedAlways == AuthSpec => []AccessGranted
BY AuthStarts, AuthStep, GrantedShown, PTL DEF AuthSpec

-----------------------------------------------------------------------------
(* The visits of a browser *)

\* Rendering loses no flash: a handler that returns nothing after flash() has
\* its session outside the middleware (middleware.py:80).
FlashesKept == "flash" \in Handlers => TRUE \notin SessionInside

NonLazy == {p \in Props : PropKinds[p] # "lazy"}
Asks ==
  [method : {"GET", "POST", "PUT"}, spoofed : BOOLEAN, inertia : BOOLEAN, version : Nat,
   only : SUBSET Props, except : SUBSET Props, once : SUBSET Props, xsrf : BOOLEAN,
   does : Handlers \cup {"render"}]
FullPages ==
  [version : Nat \ {0}, have : SUBSET Props, deferred : SUBSET Props, once : SUBSET Props, partial : BOOLEAN]
Clients == [version : Nat, have : SUBSET Props, deferred : SUBSET Props, once : SUBSET Props]
Replies ==
  [status : {200, 302, 303, 409, 419, 500}, page : FullPages \cup {NoPage}, method : {"GET", "POST", "PUT"}]

VisitTyped ==
  /\ build \in Nat \ {0} /\ inside \in SessionInside /\ xsrf \in BOOLEAN
  /\ session \in Nat /\ owed = session /\ flashed \in Nat /\ reloads \in Nat /\ handled \in {0, 1}
  /\ client \in Clients /\ request \in Asks \cup {Nobody} /\ answer \in Replies \cup {Silence}
  /\ request = Nobody \/ answer = Silence

\* A submission of the browser's own on its way.
Submits == request # Nobody /\ MethodOf(request) \in Verbs /\ request.xsrf

\* The flash travels with an answer that a page's request follows.
FlashTravels ==
  /\ session # 0 =>
       \/ request # Nobody /\ request.method = "GET" /\ ~request.spoofed
       \/ answer # Silence /\ answer.status \in {302, 303, 409}
  /\ "flash" \in Handlers => ~inside

RequestKept == request # Nobody =>
  /\ request.spoofed => request.method = "POST"
  /\ request.method = "GET" => request.does = "render"
  /\ request.inertia => request.xsrf /\ client.version # 0 /\ request.version = client.version
  /\ ~request.inertia => request.only = {} /\ request.except = {} /\ request.once = {}
  /\ (request.method # "GET" /\ ~request.inertia) => ~request.xsrf
  /\ IsPartial(request) => client.have \cup client.deferred # {}
  /\ request.once \subseteq client.once

AnswerKept == answer # Silence =>
  /\ answer.status # 419 => xsrf
  /\ answer.status = 302 => answer.method = "POST"
  /\ answer.status \in {302, 303} => client.version # 0
  /\ answer.page # NoPage =>
       /\ answer.status \in {200, 500}
       /\ answer.page.version <= build /\ reloads < answer.page.version
       /\ answer.page.partial => client.have \cup client.deferred # {} /\ client.version # 0
       /\ (answer.status = 200 /\ ~answer.page.partial) =>
            NonLazy \subseteq answer.page.have \cup answer.page.deferred \cup client.once
       /\ answer.status # 200 => answer.page.have \cup answer.page.deferred = {}
       /\ answer.page.partial => answer.status = 200

ClientKept ==
  /\ client.version # 0 => xsrf
  /\ client.version = 0 => client.have \cup client.deferred = {}
  /\ client.version <= build /\ reloads < build
  /\ client.version # 0 /\ answer.status # 409 => reloads < client.version
  /\ client.have \cup client.deferred # {} => NonLazy \subseteq client.have \cup client.deferred
  /\ handled = 0 <=> Submits

VisitInv == VisitTyped /\ FlashTravels /\ RequestKept /\ AnswerKept /\ ClientKept

LEMMA PagesApart ==
  /\ \A page \in FullPages : page # NoPage
  /\ \A reply \in Replies : reply # Silence
  /\ \A r \in Asks : r # Nobody
BY DEF FullPages, NoPage, Replies, Silence, Asks, Nobody

LEMMA ErrorTyped ==
  ASSUME build \in Nat \ {0}
  PROVE  /\ ErrorPage \in FullPages /\ ErrorPage.version = build /\ ErrorPage.have = {} /\ ErrorPage.deferred = {}
         /\ ErrorPage.partial = FALSE
BY DEF ErrorPage, FullPages

LEMMA MethodTyped ==
  ASSUME NEW r \in Asks, r.spoofed => r.method = "POST"
  PROVE  /\ MethodOf(r) \in {"GET", "POST", "PUT"}
         /\ MethodOf(r) \in Verbs <=> r.method # "GET"
BY DEF MethodOf, Asks, Verbs

LEMMA FullLoadTyped ==
  ASSUME VisitTyped
  PROVE  FullLoad \in Asks
BY DEF VisitTyped, FullLoad, Asks

LEMMA VisitingTyped ==
  ASSUME VisitTyped
  PROVE  /\ Visiting \in Asks
         /\ Visiting.method = "GET" /\ ~Visiting.spoofed /\ Visiting.inertia /\ Visiting.version = client.version
         /\ Visiting.only = {} /\ Visiting.except = {} /\ Visiting.once = client.once
         /\ Visiting.xsrf = xsrf /\ Visiting.does = "render"
<1>1. client.version \in Nat /\ client.once \subseteq Props BY DEF VisitTyped, Clients
<1>2. PICK full : full = FullLoad OBVIOUS
<1>3. full \in Asks BY <1>2, FullLoadTyped
<1>4. Visiting = [full EXCEPT !.inertia = TRUE, !.version = client.version, !.once = client.once]
  BY <1>2 DEF Visiting
<1>5. /\ full.method = "GET" /\ ~full.spoofed /\ full.only = {} /\ full.except = {}
      /\ full.xsrf = xsrf /\ full.does = "render"
  BY <1>2 DEF FullLoad
<1>6. QED BY <1>1, <1>3, <1>4, <1>5 DEF Asks

\* What a page was asked for.
LEMMA PageTyped ==
  ASSUME build \in Nat \ {0}, NEW r \in Asks
  PROVE  /\ Page(r) \in FullPages /\ Page(r).version = build /\ (Page(r).partial <=> IsPartial(r))
         /\ ~IsPartial(r) => NonLazy \subseteq Page(r).have \cup Page(r).deferred \cup r.once
<1>1. Sent(r) \subseteq Props /\ Deferred(r) \subseteq Props BY DEF Sent, Deferred
<1>2. IsPartial(r) \in BOOLEAN BY DEF IsPartial, Asks
<1>3. {p \in Sent(r) : PropKinds[p] = "once"} \subseteq Props BY <1>1
<1>4. Page(r) \in FullPages /\ Page(r).version = build /\ Page(r).partial = IsPartial(r)
      /\ Page(r).have = Sent(r) /\ Page(r).deferred = Deferred(r)
  BY <1>1, <1>2, <1>3 DEF Page, FullPages
<1>5. ASSUME ~IsPartial(r), NEW p \in Props, PropKinds[p] # "lazy"
      PROVE  p \in Sent(r) \cup Deferred(r) \cup r.once
  BY <1>5 DEF Sent, Deferred
<1>6. QED BY <1>4, <1>5 DEF NonLazy
LEMMA VisitStarts == FlashesKept /\ InertiaInit => VisitInv
<1> SUFFICES ASSUME FlashesKept, InertiaInit PROVE VisitInv
  OBVIOUS
<1>1. /\ client.version = 0 /\ client.have = {} /\ client.deferred = {} /\ client.once = {} /\ client \in Clients
  BY DEF InertiaInit, NoPage, Clients
<1>2. VisitTyped
  <2>1. request = Nobody /\ answer = Silence BY DEF InertiaInit
  <2>2. /\ build = 1 /\ inside \in SessionInside /\ xsrf = FALSE /\ session = 0 /\ owed = 0 /\ flashed = 0
        /\ reloads = 0 /\ handled = 1
    BY DEF InertiaInit
  <2>3. request \in Asks \cup {Nobody} /\ answer \in Replies \cup {Silence} BY <2>1, Zenon
  <2>4. build \in Nat \ {0} /\ session \in Nat /\ owed = session /\ flashed \in Nat /\ reloads \in Nat
        /\ handled \in {0, 1}
    BY <2>2
  <2>5. xsrf \in BOOLEAN BY <2>2
  <2>6. QED BY <1>1, <2>1, <2>2, <2>3, <2>4, <2>5, Zenon DEF VisitTyped
<1>3. ~Submits BY DEF InertiaInit, Submits
<1>4. ClientKept BY <1>1, <1>3 DEF InertiaInit, ClientKept
<1>5. FlashTravels BY DEF InertiaInit, FlashTravels, FlashesKept
<1>6. QED BY <1>2, <1>4, <1>5 DEF InertiaInit, VisitInv, RequestKept, AnswerKept

\* While the browser waits for nothing, there is no flash and no submission.
LEMMA AtRest ==
  ASSUME VisitInv, Waiting
  PROVE  session = 0 /\ handled = 1
BY DEF VisitInv, VisitTyped, FlashTravels, ClientKept, Submits, Waiting

\* A request of the browser, whatever for.
LEMMA AskSent ==
  ASSUME VisitInv, Waiting, NEW r \in Asks, request' = r,
         UNCHANGED <<build, inside, session, xsrf, client, answer, flashed, owed, reloads>>,
         r.spoofed => r.method = "POST", r.method = "GET" => r.does = "render",
         r.inertia => r.xsrf /\ client.version # 0 /\ r.version = client.version,
         ~r.inertia => r.only = {} /\ r.except = {} /\ r.once = {},
         (r.method # "GET" /\ ~r.inertia) => ~r.xsrf,
         IsPartial(r) => client.have \cup client.deferred # {},
         r.once \subseteq client.once,
         handled' = IF r.method # "GET" /\ r.xsrf THEN 0 ELSE handled
  PROVE  VisitInv'
<1>1. VisitTyped' BY DEF VisitInv, VisitTyped, Waiting
<1>2. FlashTravels' BY AtRest DEF VisitInv, FlashTravels
<1>3. RequestKept' BY DEF RequestKept, IsPartial
<1>4. AnswerKept' BY DEF VisitInv, AnswerKept, Waiting
<1>5. ClientKept'
  <2>1. Submits' <=> r.method # "GET" /\ r.xsrf
    <3>1. MethodOf(r) \in Verbs <=> r.method # "GET" BY MethodTyped
    <3>2. r # Nobody BY PagesApart
    <3>3. MethodOf(request)' = MethodOf(r) BY DEF MethodOf
    <3>4. QED BY <3>1, <3>2, <3>3 DEF Submits
  <2>2. r.xsrf \in BOOLEAN BY DEF Asks
  <2>3. handled' = 0 <=> Submits' BY AtRest, <2>1, <2>2
  <2>4. QED BY <2>3 DEF VisitInv, ClientKept
<1>6. QED BY <1>1, <1>2, <1>3, <1>4, <1>5 DEF VisitInv

LEMMA GoKeeps == ASSUME VisitInv, Go PROVE VisitInv'
<1>0. VisitTyped /\ ClientKept /\ Waiting /\ handled = 1
      /\ UNCHANGED <<build, inside, session, xsrf, client, answer, flashed, owed, reloads>>
  BY AtRest DEF VisitInv, Go
<1>1. PICK full : full = FullLoad OBVIOUS
<1>2. full \in Asks /\ full.method = "GET" /\ ~full.spoofed /\ ~full.inertia /\ full.only = {} /\ full.except = {}
      /\ full.once = {} /\ full.does = "render"
  BY <1>0, <1>1, FullLoadTyped DEF FullLoad
<1>3. PICK visit : visit = Visiting OBVIOUS
<1>4. /\ visit \in Asks /\ visit.method = "GET" /\ ~visit.spoofed /\ visit.inertia /\ visit.version = client.version
      /\ visit.only = {} /\ visit.except = {} /\ visit.once = client.once /\ visit.xsrf = xsrf /\ visit.does = "render"
  BY <1>0, <1>3, VisitingTyped
<1>5. client.version # 0 => xsrf BY <1>0 DEF ClientKept
<1>6. client.once \subseteq Props BY <1>0 DEF VisitTyped, Clients
<1>7. CASE request' = FullLoad /\ UNCHANGED handled
  <2>1. ~IsPartial(full) BY <1>2 DEF IsPartial
  <2>2. QED BY <1>0, <1>1, <1>2, <1>7, <2>1, AskSent
<1>8. CASE request' = [FullLoad EXCEPT !.method = "POST", !.xsrf = FALSE] /\ UNCHANGED handled
  <2>1. PICK r : r = [full EXCEPT !.method = "POST", !.xsrf = FALSE] OBVIOUS
  <2>2. r \in Asks /\ r.method = "POST" /\ ~r.spoofed /\ ~r.inertia /\ r.only = {} /\ r.except = {} /\ r.once = {}
        /\ ~r.xsrf
    BY <1>2, <2>1 DEF Asks
  <2>3. ~IsPartial(r) BY <2>2 DEF IsPartial
  <2>4. QED BY <1>0, <1>1, <1>8, <2>1, <2>2, <2>3, AskSent
<1>9. CASE client.version # 0 /\ request' = Visiting /\ UNCHANGED handled
  <2>1. ~IsPartial(visit) BY <1>4 DEF IsPartial
  <2>2. QED BY <1>0, <1>3, <1>4, <1>5, <1>6, <1>9, <2>1, AskSent
<1>10. ASSUME client.version # 0, client.have # {}, NEW only \in SUBSET Props,
              request' = [Visiting EXCEPT !.only = only], UNCHANGED handled
       PROVE  VisitInv'
  <2>1. PICK r : r = [visit EXCEPT !.only = only] OBVIOUS
  <2>2. /\ r \in Asks /\ r.method = "GET" /\ ~r.spoofed /\ r.inertia /\ r.version = client.version
        /\ r.once = client.once /\ r.xsrf = xsrf /\ r.does = "render"
    BY <1>4, <2>1 DEF Asks
  <2>3. client.have \cup client.deferred # {} BY <1>10
  <2>4. QED BY <1>0, <1>3, <1>5, <1>6, <1>10, <2>1, <2>2, <2>3, AskSent
<1>11. ASSUME client.version # 0, client.have # {}, NEW p \in Props,
              request' = [Visiting EXCEPT !.except = {p}], UNCHANGED handled
       PROVE  VisitInv'
  <2>1. PICK r : r = [visit EXCEPT !.except = {p}] OBVIOUS
  <2>2. /\ r \in Asks /\ r.method = "GET" /\ ~r.spoofed /\ r.inertia /\ r.version = client.version
        /\ r.once = client.once /\ r.xsrf = xsrf /\ r.does = "render"
    BY <1>4, <2>1 DEF Asks
  <2>3. client.have \cup client.deferred # {} BY <1>11
  <2>4. QED BY <1>0, <1>3, <1>5, <1>6, <1>11, <2>1, <2>2, <2>3, AskSent
<1>12. ASSUME client.version # 0, NEW verb \in Verbs, NEW spoofed \in BOOLEAN, NEW does \in Handlers,
              spoofed => verb = "POST",
              request' = [Visiting EXCEPT !.method = verb, !.spoofed = spoofed, !.does = does], handled' = 0
       PROVE  VisitInv'
  <2>1. PICK r : r = [visit EXCEPT !.method = verb, !.spoofed = spoofed, !.does = does] OBVIOUS
  <2>2. /\ r \in Asks /\ r.method = verb /\ r.spoofed = spoofed /\ r.inertia /\ r.version = client.version
        /\ r.once = client.once /\ r.only = {} /\ r.except = {} /\ r.xsrf = xsrf
    BY <1>4, <2>1 DEF Asks, Verbs
  <2>3. ~IsPartial(r) BY <2>2 DEF IsPartial
  <2>4. verb # "GET" BY DEF Verbs
  <2>5. QED BY <1>0, <1>3, <1>5, <1>6, <1>12, <2>1, <2>2, <2>3, <2>4, AskSent
<1>13. QED
  <2>1. Props \in SUBSET Props /\ {p \in Props : PropKinds[p] \in {"lazy", "plain"}} \in SUBSET Props OBVIOUS
  <2>2. QED BY <1>7, <1>8, <1>9, <1>10, <1>11, <1>12, <2>1 DEF Go

LEMMA FetchKeeps == ASSUME VisitInv, FetchDeferred PROVE VisitInv'
<1>0. VisitTyped /\ ClientKept /\ Waiting /\ client.deferred # {}
      /\ UNCHANGED <<build, inside, session, xsrf, client, answer, flashed, owed, handled, reloads>>
  BY DEF VisitInv, FetchDeferred
<1>1. PICK visit : visit = Visiting OBVIOUS
<1>2. /\ visit \in Asks /\ visit.method = "GET" /\ ~visit.spoofed /\ visit.inertia /\ visit.version = client.version
      /\ visit.once = client.once /\ visit.xsrf = xsrf /\ visit.does = "render"
  BY <1>0, <1>1, VisitingTyped
<1>3. client.version # 0 /\ xsrf BY <1>0 DEF ClientKept
<1>4. client.once \subseteq Props /\ client.deferred \subseteq Props BY <1>0 DEF VisitTyped, Clients
<1>5. PICK r : r = [visit EXCEPT !.only = client.deferred] OBVIOUS
<1>6. /\ r \in Asks /\ r.method = "GET" /\ ~r.spoofed /\ r.inertia /\ r.version = client.version
      /\ r.once = client.once /\ r.xsrf = xsrf /\ r.does = "render"
  BY <1>2, <1>4, <1>5 DEF Asks
<1>7. client.have \cup client.deferred # {} BY <1>0
<1>8. request' = r BY <1>1, <1>5 DEF FetchDeferred
<1>9. QED BY <1>0, <1>3, <1>6, <1>7, <1>8, AskSent

LEMMA DeployKeeps == ASSUME VisitInv, Deploy PROVE VisitInv'
<1>1. build' = build + 1 /\ build \in Nat
      /\ UNCHANGED <<inside, session, xsrf, client, request, answer, flashed, owed, handled, reloads>>
  BY DEF Deploy, VisitInv, VisitTyped
<1>2. VisitTyped' BY <1>1 DEF VisitInv, VisitTyped
<1>3. FlashTravels' /\ RequestKept' BY <1>1 DEF VisitInv, FlashTravels, RequestKept, IsPartial
<1>4. AnswerKept' BY <1>1 DEF VisitInv, VisitTyped, AnswerKept, Replies, FullPages
<1>5. ClientKept' BY <1>1 DEF VisitInv, VisitTyped, ClientKept, Clients, Submits, MethodOf
<1>6. QED BY <1>2, <1>3, <1>4, <1>5 DEF VisitInv

\* An answer of the server, whatever handled the request.
LEMMA Answered ==
  ASSUME VisitInv, request # Nobody, NEW a \in Replies, answer' = a, request' = Nobody,
         UNCHANGED <<build, inside, client>>,
         xsrf' \in BOOLEAN, xsrf => xsrf', session' \in Nat, owed' = session', flashed' \in Nat, reloads' \in Nat,
         AnswerKept', session' # 0 => a.status \in {302, 303, 409},
         Submits => handled' = 1, ~Submits => handled' = handled,
         reloads' < build, client.version # 0 /\ a.status # 409 => reloads' < client.version
  PROVE  VisitInv'
<1>1. a # Silence BY PagesApart
<1>2. handled' = 1 BY DEF VisitInv, VisitTyped, ClientKept
<1>3. ~Submits' BY DEF Submits
<1>4. VisitTyped' BY <1>2 DEF VisitInv, VisitTyped
<1>5. FlashTravels' BY <1>1 DEF VisitInv, FlashTravels
<1>6. RequestKept' BY DEF RequestKept
<1>7. ClientKept' BY <1>2, <1>3 DEF VisitInv, ClientKept
<1>8. QED BY <1>4, <1>5, <1>6, <1>7 DEF VisitInv

\* What is known of a request that is answered.
LEMMA RequestIs ==
  ASSUME VisitInv, request # Nobody
  PROVE  /\ request \in Asks /\ answer = Silence /\ RequestKept
         /\ MethodOf(request) \in {"GET", "POST", "PUT"}
         /\ MethodOf(request) \in Verbs <=> request.method # "GET"
         /\ Submits <=> MethodOf(request) \in Verbs /\ request.xsrf
         /\ (MethodOf(request) \in Verbs /\ request.xsrf) => request.inertia
         /\ request.inertia => client.version # 0
<1>1. request \in Asks /\ answer = Silence /\ RequestKept BY DEF VisitInv, VisitTyped
<1>2. request.spoofed => request.method = "POST" BY <1>1 DEF RequestKept
<1>3. MethodOf(request) \in {"GET", "POST", "PUT"} /\ (MethodOf(request) \in Verbs <=> request.method # "GET")
  BY <1>1, <1>2, MethodTyped
<1>4. Submits <=> MethodOf(request) \in Verbs /\ request.xsrf BY DEF Submits
<1>5. QED BY <1>1, <1>3, <1>4 DEF RequestKept

LEMMA ReplyTyped ==
  ASSUME VisitInv, request # Nobody, NEW s \in {200, 302, 303, 409, 419, 500}, NEW page \in FullPages \cup {NoPage}
  PROVE  /\ Reply(s, page) \in Replies /\ Reply(s, page) # Silence
         /\ Reply(s, page).status = s /\ Reply(s, page).page = page /\ Reply(s, page).method = MethodOf(request)
<1>1. MethodOf(request) \in {"GET", "POST", "PUT"} BY RequestIs
<1>2. Reply(s, page) = [status |-> s, page |-> page, method |-> MethodOf(request)] BY DEF Reply
<1>3. Reply(s, page) \in Replies BY <1>1, <1>2 DEF Replies
<1>4. QED BY <1>2, <1>3, PagesApart

\* An answer without a page.
LEMMA Unpaged ==
  ASSUME VisitInv, request # Nobody, NEW s \in {302, 303, 409, 419}, answer' = Reply(s, NoPage),
         UNCHANGED client, s # 419 => xsrf', s = 302 => MethodOf(request) = "POST",
         s \in {302, 303} => client.version # 0
  PROVE  AnswerKept'
<1>1. PICK a : a = Reply(s, NoPage) OBVIOUS
<1>2. a.status = s /\ a.page = NoPage /\ a.method = MethodOf(request) BY <1>1, ReplyTyped
<1>3. answer' = a BY <1>1
<1>4. QED BY <1>2, <1>3 DEF AnswerKept

LEMMA RefuseKeeps == ASSUME VisitInv, Refuse PROVE VisitInv'
<1>0. request # Nobody /\ MethodOf(request) \in Verbs /\ ~request.xsrf /\ request' = Nobody
      /\ UNCHANGED <<build, inside, session, xsrf, client, flashed, owed, handled, reloads>>
      /\ answer' = Reply(419, NoPage)
  BY DEF Refuse
<1>1. PICK a : a = Reply(419, NoPage) OBVIOUS
<1>2. a \in Replies /\ a.status = 419 BY <1>0, <1>1, ReplyTyped
<1>3. ~Submits /\ request.method # "GET" BY <1>0, RequestIs
<1>4. session = 0 BY <1>0, <1>3, RequestIs DEF VisitInv, FlashTravels
<1>5. AnswerKept' BY <1>0, Unpaged
<1>6. VisitTyped /\ ClientKept /\ answer = Silence BY <1>0, RequestIs DEF VisitInv
<1>7. reloads < build /\ (client.version # 0 => reloads < client.version)
  BY <1>6 DEF ClientKept, Silence
<1>8. QED BY <1>0, <1>1, <1>2, <1>3, <1>4, <1>5, <1>6, <1>7, Answered DEF VisitTyped

LEMMA ForceKeeps == ASSUME VisitInv, ForceReload PROVE VisitInv'
<1>0. request # Nobody /\ Stale(request) /\ request' = Nobody /\ answer' = Reply(409, NoPage)
      /\ session' = session /\ xsrf' = TRUE /\ reloads' = reloads + 1
      /\ UNCHANGED <<build, inside, client, flashed, owed, handled>>
  BY DEF ForceReload, Passes, Respond, Reflashed
<1>1. PICK a : a = Reply(409, NoPage) OBVIOUS
<1>2. a \in Replies /\ a.status = 409 BY <1>0, <1>1, ReplyTyped
<1>3. ~Submits BY <1>0, RequestIs DEF Stale, Verbs
<1>4. AnswerKept' BY <1>0, Unpaged
<1>5. VisitTyped /\ ClientKept /\ answer = Silence /\ RequestKept BY <1>0, RequestIs DEF VisitInv
<1>6. client.version \in Nat BY <1>5 DEF VisitTyped, Clients
<1>7. client.version # 0 /\ client.version < build /\ reloads < client.version
  BY <1>0, <1>5, <1>6 DEF RequestKept, Stale, ClientKept, Silence, VisitTyped
<1>8. QED BY <1>0, <1>1, <1>2, <1>3, <1>4, <1>5, <1>6, <1>7, Answered DEF VisitTyped

\* Redirects, with and without a flash.
LEMMA RedirectKeeps ==
  ASSUME VisitInv, Runs, request.does \notin {"render", "raise"}, NEW s \in {302, 303},
         s = 302 => MethodOf(request) # "PUT",
         request' = Nobody, answer' = Reply(s, NoPage), xsrf' = TRUE, handled' = Ran,
         session' \in Nat, owed' = session', flashed' \in Nat, UNCHANGED <<build, inside, client, reloads>>
  PROVE  VisitInv'
<1>0. request # Nobody BY DEF Runs, Passes
<1>1. PICK a : a = Reply(s, NoPage) OBVIOUS
<1>2. a \in Replies /\ a.status = s BY <1>0, <1>1, ReplyTyped
<1>3. request.method # "GET" BY <1>0, RequestIs DEF RequestKept
<1>4. Submits /\ request.inertia /\ client.version # 0 /\ MethodOf(request) \in Verbs
  BY <1>0, <1>3, RequestIs DEF Runs, Passes
<1>5. AnswerKept' BY <1>0, <1>4, Unpaged DEF Verbs
<1>6. VisitTyped /\ ClientKept /\ answer = Silence BY <1>0, RequestIs DEF VisitInv
<1>7. handled' = 1 BY <1>4, <1>6 DEF Ran, ClientKept
<1>8. reloads < build /\ (client.version # 0 => reloads < client.version)
  BY <1>6 DEF ClientKept, Silence
<1>9. QED BY <1>0, <1>1, <1>2, <1>4, <1>5, <1>6, <1>7, <1>8, Answered DEF VisitTyped

LEMMA NoFlash ==
  ASSUME VisitInv, Runs, request.does \notin {"render", "raise"}
  PROVE  session = 0 /\ owed = 0 /\ request # Nobody /\ flashed \in Nat
<1>0. request # Nobody BY DEF Runs, Passes
<1>1. request.method # "GET" BY <1>0, RequestIs DEF RequestKept
<1>2. QED BY <1>0, <1>1, RequestIs DEF VisitInv, FlashTravels, VisitTyped

LEMMA ErrorsKeep == ASSUME VisitInv, WithErrors PROVE VisitInv'
<1>0. Runs /\ request.does = "errors" /\ request' = Nobody /\ xsrf' = TRUE /\ handled' = Ran
      /\ session' = flashed + 1 /\ owed' = flashed + 1 /\ flashed' = flashed + 1
      /\ answer' = Reply(IF MethodOf(request) = "PUT" THEN 303 ELSE 302, NoPage)
      /\ UNCHANGED <<build, inside, client, reloads>>
  BY DEF WithErrors, Respond
<1>1. PICK s : s = IF MethodOf(request) = "PUT" THEN 303 ELSE 302 OBVIOUS
<1>2. s \in {302, 303} /\ (s = 302 => MethodOf(request) # "PUT") /\ answer' = Reply(s, NoPage) BY <1>0, <1>1
<1>3. QED BY <1>0, <1>2, NoFlash, RedirectKeeps

LEMMA MovedKeeps == ASSUME VisitInv, Redirect PROVE VisitInv'
<1>0. Runs /\ request.does = "redirect" /\ request' = Nobody /\ xsrf' = TRUE /\ handled' = Ran
      /\ session' = (IF inside THEN session ELSE 0)
      /\ answer' = Reply(Converted(request), NoPage)
      /\ UNCHANGED <<build, inside, client, flashed, owed, reloads>>
  BY DEF Redirect, Respond
<1>1. PICK s : s = Converted(request) OBVIOUS
<1>2. MethodOf(request) \in Verbs /\ request.inertia
  BY <1>0, NoFlash, RequestIs DEF Runs, Passes, RequestKept
<1>3. s \in {302, 303} /\ (s = 302 => MethodOf(request) # "PUT") BY <1>1, <1>2 DEF Converted
<1>4. QED BY <1>0, <1>1, <1>3, NoFlash, RedirectKeeps

LEMMA NothingKeeps == ASSUME VisitInv, ReturnNothing PROVE VisitInv'
<1>0. Runs /\ request.does \in {"nothing", "flash"} /\ request' = Nobody /\ xsrf' = TRUE /\ handled' = Ran
      /\ answer' = Reply(IF MethodOf(request) = "PUT" THEN 303 ELSE 302, NoPage)
      /\ UNCHANGED <<build, inside, client, reloads>>
  BY DEF ReturnNothing, Respond
<1>1. PICK s : s = IF MethodOf(request) = "PUT" THEN 303 ELSE 302 OBVIOUS
<1>2. s \in {302, 303} /\ (s = 302 => MethodOf(request) # "PUT") /\ answer' = Reply(s, NoPage) BY <1>0, <1>1
<1>3. session = 0 /\ owed = 0 /\ request # Nobody /\ flashed \in Nat BY <1>0, NoFlash
<1>4. session' \in Nat /\ owed' = session' /\ flashed' \in Nat
  <2>1. CASE request.does = "flash"
    <3>1. "flash" \in Handlers BY <1>3, <2>1, RequestIs DEF Asks
    <3>2. ~inside BY <3>1 DEF VisitInv, FlashTravels
    <3>3. QED BY <1>3, <2>1, <3>2 DEF ReturnNothing, Respond
  <2>2. CASE request.does # "flash" BY <1>3, <2>2 DEF ReturnNothing, Respond
  <2>3. QED BY <2>1, <2>2
<1>5. QED BY <1>0, <1>2, <1>4, RedirectKeeps

LEMMA RenderKeeps == ASSUME VisitInv, Render PROVE VisitInv' /\ shown' = owed
<1>0. Runs /\ request # Nobody /\ request' = Nobody /\ xsrf' = TRUE /\ session' = 0 /\ owed' = 0 /\ handled' = Ran
      /\ shown' = session /\ UNCHANGED <<build, inside, client, flashed, reloads>>
  BY DEF Render, Respond, Runs, Passes
<1>1. VisitTyped /\ ClientKept /\ answer = Silence /\ RequestKept /\ request \in Asks
  BY <1>0, RequestIs DEF VisitInv
<1>2. build \in Nat \ {0} /\ reloads < build /\ client.version \in Nat
  BY <1>1 DEF VisitTyped, ClientKept, Clients
<1>3. PICK page : /\ page \in {Page(request), ErrorPage}
                  /\ answer' = Reply(IF page = ErrorPage THEN 500 ELSE 200, page)
  BY DEF Render, Respond
<1>4. page \in FullPages /\ page.version = build BY <1>1, <1>2, <1>3, ErrorTyped, PageTyped
<1>5. PICK s : s = IF page = ErrorPage THEN 500 ELSE 200 OBVIOUS
<1>6. PICK a : a = Reply(s, page) OBVIOUS
<1>7. a \in Replies /\ a.status = s /\ a.page = page /\ a.method = MethodOf(request) /\ s \in {200, 500}
  BY <1>0, <1>4, <1>5, <1>6, ReplyTyped
<1>8. answer' = a BY <1>3, <1>5, <1>6
<1>9. reloads < page.version BY <1>2, <1>4
<1>10. page.partial => /\ client.have \cup client.deferred # {} /\ client.version # 0
                       /\ s = 200
  <2>1. ASSUME page.partial PROVE page # ErrorPage /\ IsPartial(request)
    <3>1. page # ErrorPage BY <1>2, <2>1, ErrorTyped
    <3>2. QED BY <1>1, <1>2, <1>3, <2>1, <3>1, PageTyped
  <2>2. IsPartial(request) => request.inertia BY DEF IsPartial
  <2>3. QED BY <1>0, <1>1, <1>5, <2>1, <2>2 DEF RequestKept
<1>11. (s = 200 /\ ~page.partial) => NonLazy \subseteq page.have \cup page.deferred \cup client.once
  <2>1. ASSUME s = 200, ~page.partial PROVE page = Page(request) /\ ~IsPartial(request)
    <3>1. page = Page(request) BY <1>3, <1>5, <2>1
    <3>2. QED BY <1>1, <1>2, <2>1, <3>1, PageTyped
  <2>2. QED BY <1>0, <1>1, <1>2, <2>1, PageTyped DEF RequestKept
<1>12. s # 200 => page.have \cup page.deferred = {} BY <1>2, <1>5, ErrorTyped
<1>13. AnswerKept' BY <1>0, <1>2, <1>4, <1>7, <1>8, <1>9, <1>10, <1>11, <1>12 DEF AnswerKept
<1>14. client.version # 0 => reloads < client.version BY <1>1 DEF ClientKept, Silence
<1>15. (Submits => handled' = 1) /\ (~Submits => handled' = handled)
  <2>1. Submits <=> MethodOf(request) \in Verbs BY <1>0, RequestIs DEF Runs, Passes
  <2>2. QED BY <1>0, <1>1, <2>1 DEF Ran, ClientKept
<1>16. VisitInv' BY <1>0, <1>1, <1>2, <1>7, <1>8, <1>13, <1>14, <1>15, Answered DEF VisitTyped
<1>17. QED BY <1>0, <1>1, <1>16 DEF VisitTyped

LEMMA FollowKeeps == ASSUME VisitInv, Follow PROVE VisitInv'
<1>0. /\ answer # Silence /\ answer.status \in {302, 303} /\ answer' = Silence
      /\ UNCHANGED <<build, inside, session, xsrf, client, flashed, owed, handled, reloads>>
  BY DEF Follow
<1>1. VisitTyped /\ ClientKept /\ AnswerKept /\ answer \in Replies /\ request = Nobody
  BY <1>0 DEF VisitInv, VisitTyped
<1>2. xsrf /\ client.version # 0 /\ (answer.status = 302 => answer.method = "POST") BY <1>0, <1>1 DEF AnswerKept
<1>3. PICK visit : visit = Visiting OBVIOUS
<1>4. /\ visit \in Asks /\ visit.method = "GET" /\ ~visit.spoofed /\ visit.inertia /\ visit.version = client.version
      /\ visit.only = {} /\ visit.except = {} /\ visit.once = client.once /\ visit.xsrf = xsrf /\ visit.does = "render"
  BY <1>1, <1>3, VisitingTyped
<1>5. request' = visit BY <1>0, <1>2, <1>3 DEF Follow
<1>6. visit # Nobody BY <1>4, PagesApart
<1>7. handled = 1
  <2>1. ~Submits BY <1>1 DEF Submits
  <2>2. QED BY <1>1, <2>1 DEF ClientKept, VisitTyped
<1>8. VisitTyped' BY <1>0, <1>1, <1>4, <1>5 DEF VisitTyped
<1>9. FlashTravels' BY <1>0, <1>4, <1>5, <1>6 DEF VisitInv, FlashTravels
<1>10. RequestKept' BY <1>0, <1>2, <1>4, <1>5 DEF RequestKept, IsPartial
<1>11. AnswerKept' BY <1>0 DEF AnswerKept
<1>12. ~Submits'
  <2>1. MethodOf(visit) = "GET" BY <1>4 DEF MethodOf
  <2>2. MethodOf(request)' = MethodOf(visit) BY <1>5 DEF MethodOf
  <2>3. QED BY <2>1, <2>2 DEF Submits, Verbs
<1>13. ClientKept' BY <1>0, <1>1, <1>7, <1>12 DEF ClientKept
<1>14. QED BY <1>8, <1>9, <1>10, <1>11, <1>13 DEF VisitInv

LEMMA ReloadKeeps == ASSUME VisitInv, Reload PROVE VisitInv'
<1>0. /\ answer # Silence /\ answer.status = 409 /\ answer' = Silence /\ client' = NoPage
      /\ UNCHANGED <<build, inside, session, xsrf, flashed, owed, handled, reloads>>
  BY DEF Reload
<1>1. VisitTyped /\ ClientKept /\ request = Nobody BY <1>0 DEF VisitInv, VisitTyped
<1>2. PICK full : full = FullLoad OBVIOUS
<1>3. full \in Asks /\ full.method = "GET" /\ ~full.spoofed /\ ~full.inertia /\ full.only = {} /\ full.except = {}
      /\ full.once = {} /\ full.does = "render"
  BY <1>1, <1>2, FullLoadTyped DEF FullLoad
<1>4. request' = full BY <1>2 DEF Reload
<1>5. full # Nobody BY <1>3, PagesApart
<1>6. client'.version = 0 /\ client'.have = {} /\ client'.deferred = {} /\ client'.once = {} /\ client' \in Clients
  BY <1>0 DEF NoPage, Clients
<1>7. VisitTyped' BY <1>0, <1>1, <1>3, <1>4, <1>6 DEF VisitTyped
<1>8. FlashTravels' BY <1>0, <1>3, <1>4, <1>5 DEF VisitInv, FlashTravels
<1>9. RequestKept' BY <1>3, <1>4, <1>6 DEF RequestKept, IsPartial
<1>10. AnswerKept' BY <1>0 DEF AnswerKept
<1>11. ~Submits'
  <2>1. MethodOf(full) = "GET" BY <1>3 DEF MethodOf
  <2>2. MethodOf(request)' = MethodOf(full) BY <1>4 DEF MethodOf
  <2>3. QED BY <2>1, <2>2 DEF Submits, Verbs
<1>12. handled = 1
  <2>1. ~Submits BY <1>1 DEF Submits
  <2>2. QED BY <1>1, <2>1 DEF ClientKept, VisitTyped
<1>13. build \in Nat BY <1>1 DEF VisitTyped
<1>14. ClientKept' BY <1>0, <1>1, <1>6, <1>11, <1>12, <1>13 DEF ClientKept
<1>15. QED BY <1>7, <1>8, <1>9, <1>10, <1>14 DEF VisitInv

LEMMA ShowKeeps == ASSUME VisitInv, Show PROVE VisitInv'
<1>0. /\ answer # Silence /\ answer.status \in {200, 419, 500} /\ answer' = Silence
      /\ UNCHANGED <<build, inside, session, xsrf, request, flashed, owed, handled, reloads>>
  BY DEF Show
<1>1. VisitTyped /\ ClientKept /\ AnswerKept /\ answer \in Replies /\ request = Nobody /\ client \in Clients
  BY <1>0 DEF VisitInv, VisitTyped
<1>2. session = 0 BY <1>0, <1>1 DEF VisitInv, FlashTravels
<1>3. handled = 1 /\ ~Submits'
  <2>1. ~Submits /\ ~Submits' BY <1>0, <1>1 DEF Submits
  <2>2. QED BY <1>1, <2>1 DEF ClientKept, VisitTyped
<1>4. PICK page : page = answer.page OBVIOUS
<1>5. CASE page = NoPage
  <2>1. client' = client BY <1>4, <1>5 DEF Show
  <2>2. reloads < build /\ (client.version # 0 => reloads < client.version) BY <1>0, <1>1 DEF ClientKept
  <2>3. VisitTyped' BY <1>0, <1>1, <2>1 DEF VisitTyped
  <2>4. ClientKept' BY <1>0, <1>1, <1>3, <2>1, <2>2 DEF ClientKept
  <2>5. QED BY <1>0, <1>1, <1>2, <2>3, <2>4 DEF VisitInv, FlashTravels, RequestKept, AnswerKept
<1>6. CASE page # NoPage
  <2>0. page \in FullPages BY <1>1, <1>4, <1>6 DEF Replies
  <2>1. xsrf /\ page.version \in Nat \ {0} /\ page.version <= build /\ reloads < page.version
        /\ page.have \subseteq Props /\ page.deferred \subseteq Props /\ page.once \subseteq Props /\ page.partial \in BOOLEAN
    <3>1. answer.status # 419 BY <1>0, <1>1, <1>4, <1>6 DEF AnswerKept
    <3>2. QED BY <1>0, <1>1, <1>4, <1>6, <2>0, <3>1 DEF AnswerKept, FullPages
  <2>2. CASE page.partial
    <3>1. client' = [client EXCEPT !.have = @ \cup page.have, !.deferred = @ \ page.have, !.once = @ \cup page.once]
      BY <1>4, <1>6, <2>2 DEF Show
    <3>2. /\ client' \in Clients /\ client'.version = client.version /\ client'.have = client.have \cup page.have
          /\ client'.deferred = client.deferred \ page.have
      BY <1>1, <2>1, <3>1 DEF Clients
    <3>3. client.have \cup client.deferred # {} /\ client.version # 0
      BY <1>0, <1>1, <1>4, <1>6, <2>2 DEF AnswerKept
    <3>4. NonLazy \subseteq client'.have \cup client'.deferred
      BY <1>1, <3>2, <3>3 DEF ClientKept
    <3>5. client.version <= build /\ reloads < client.version /\ reloads < build BY <1>0, <1>1, <3>3 DEF ClientKept
    <3>6. VisitTyped' BY <1>0, <1>1, <3>2 DEF VisitTyped
    <3>7. ClientKept' BY <1>0, <1>1, <1>3, <2>1, <3>2, <3>3, <3>4, <3>5 DEF ClientKept
    <3>8. QED BY <1>0, <1>1, <1>2, <3>6, <3>7 DEF VisitInv, FlashTravels, RequestKept, AnswerKept
  <2>3. CASE ~page.partial
    <3>1. PICK cached : cached = IF answer.status = 200 THEN client.once ELSE {} OBVIOUS
    <3>2. client' = [version |-> page.version, have |-> page.have \cup cached,
                     deferred |-> page.deferred, once |-> client.once \cup page.once]
      BY <1>4, <1>6, <2>3, <3>1 DEF Show
    <3>3. client.once \subseteq Props /\ cached \subseteq Props BY <1>1, <3>1 DEF Clients
    <3>4. /\ client' \in Clients /\ client'.version = page.version /\ client'.have = page.have \cup cached
          /\ client'.deferred = page.deferred
      BY <2>1, <3>2, <3>3 DEF Clients
    <3>5. client'.have \cup client'.deferred # {} => NonLazy \subseteq client'.have \cup client'.deferred
      <4>1. CASE answer.status = 200
        <5>1. NonLazy \subseteq page.have \cup page.deferred \cup client.once
          BY <1>0, <1>1, <1>4, <1>6, <2>3, <4>1 DEF AnswerKept
        <5>2. QED BY <3>1, <3>4, <4>1, <5>1
      <4>2. CASE answer.status # 200
        <5>1. page.have \cup page.deferred = {} BY <1>0, <1>1, <1>4, <1>6, <4>2 DEF AnswerKept
        <5>2. QED BY <3>1, <3>4, <4>2, <5>1
      <4>3. QED BY <4>1, <4>2
    <3>6. VisitTyped' BY <1>0, <1>1, <3>4 DEF VisitTyped
    <3>7. ClientKept'
      <4>1. reloads < build BY <1>1 DEF ClientKept
      <4>2. QED BY <1>0, <1>3, <2>1, <3>4, <3>5, <4>1 DEF ClientKept
    <3>8. QED BY <1>0, <1>1, <1>2, <3>6, <3>7 DEF VisitInv, FlashTravels, RequestKept, AnswerKept
  <2>4. QED BY <2>2, <2>3
<1>7. QED BY <1>5, <1>6

LEMMA VisitStep == ASSUME VisitInv, [InertiaNext]_inertiaVars PROVE VisitInv' /\ (Render => shown' = owed)
<1>1. CASE UNCHANGED inertiaVars
  <2>1. VisitInv'
    BY <1>1 DEF inertiaVars, VisitInv, VisitTyped, FlashTravels, RequestKept, AnswerKept, ClientKept, Submits,
                MethodOf, IsPartial
  <2>2. QED BY <2>1, RenderKeeps
<1>2. CASE InertiaNext
  BY <1>2, GoKeeps, FetchKeeps, DeployKeeps, RefuseKeeps, ForceKeeps, RenderKeeps, ErrorsKeep, MovedKeeps,
     NothingKeeps, FollowKeeps, ReloadKeeps, ShowKeeps DEF InertiaNext, Serve, Browse
<1>3. QED BY <1>1, <1>2

LEMMA VisitShown == VisitInv => SubmittedOnce /\ PropsComplete
<1> SUFFICES ASSUME VisitInv PROVE SubmittedOnce /\ PropsComplete
  OBVIOUS
<1>1. VisitTyped /\ ClientKept BY DEF VisitInv
<1>2. reloads <= build - 1 BY <1>1 DEF VisitTyped, ClientKept
<1>3. Waiting => handled = 1 BY AtRest
<1>4. PropsComplete
  <2>1. (client.have # {} /\ client.deferred = {}) => NonLazy \subseteq client.have BY <1>1 DEF ClientKept
  <2>2. QED BY <2>1 DEF PropsComplete, NonLazy
<1>5. QED BY <1>2, <1>3, <1>4 DEF SubmittedOnce

\* A submission is handled once, a page is whole, and what was flashed is shown
\* by the page that follows and by no other, however often the server is
\* deployed (inertia/middleware.py:50, context.py:34).
THEOREM VisitsKeptAlways == FlashesKept /\ Spec => VisitsKept
<1>1. FlashesKept /\ Init => VisitInv BY VisitStarts DEF Init
<1>2. VisitInv /\ [Next]_webVars => VisitInv' /\ [Render => shown' = owed]_inertiaVars
  <2> SUFFICES ASSUME VisitInv, [Next]_webVars PROVE VisitInv' /\ [Render => shown' = owed]_inertiaVars
    OBVIOUS
  <2>1. [InertiaNext]_inertiaVars BY DEF Next, Only, webVars
  <2>2. QED BY <2>1, VisitStep
<1>3. QED BY <1>1, <1>2, VisitShown, PTL DEF Spec, VisitsKept, FlashShown

-----------------------------------------------------------------------------
(* Beside each other *)

LEMMA ExchangesStart == Init => HttpInv /\ AuthKept
<1> SUFFICES ASSUME Init PROVE HttpInv /\ AuthKept
  OBVIOUS
<1>1. HttpInit BY DEF Init
<1>2. CASE part = "auth"
  <2>1. AuthInit BY <1>2 DEF Init
  <2>2. QED BY <1>1, <2>1, AuthStarts, HttpStarts
<1>3. CASE part # "auth"
  <2>1. chain = <<>> /\ clock = 1 /\ issued = NoToken /\ at = 0 /\ user = NoUser /\ verdict = "none" /\ checkedAt = 0
    BY <1>3 DEF Init
  <2>2. chain \in Seq(Guards) /\ Len(chain) = 0 BY <2>1
  <2>3. AuthKept BY <2>1, <2>2, NobodyTyped DEF AuthKept
  <2>4. QED BY <1>1, <2>3, HttpStarts
<1>4. QED BY <1>2, <1>3

\* A call of the HTTP client is sent as often as is safe, and a handler runs
\* only for whom it may (http/module.py:119, auth/jwt.py:145).
THEOREM ExchangesAlways == Spec => []ExchangesSafe
<1>1. HttpInv /\ AuthKept /\ [Next]_webVars => HttpInv' /\ AuthKept'
  <2> SUFFICES ASSUME HttpInv, AuthKept, [Next]_webVars PROVE HttpInv' /\ AuthKept'
    OBVIOUS
  <2>1. [HttpNext]_httpVars BY DEF Next, Only, webVars
  <2>2. [AuthNext]_authVars BY DEF Next, Only, webVars
  <2>3. QED BY <2>1, <2>2, HttpStep, AuthStep
<1>2. HttpInv /\ AuthKept => ExchangesSafe BY GrantedShown DEF HttpInv, ExchangesSafe
<1>3. QED BY <1>1, <1>2, ExchangesStart, PTL DEF Spec

-----------------------------------------------------------------------------
(* Induction over numbers.  The library's theorems for it take a predicate; a *)
(* set of numbers does as well.                                              *)
LEMMA LeastNumber ==
  ASSUME NEW T, T \subseteq Nat, T # {}
  PROVE  \E x \in T : \A y \in T : x <= y
<1>1. IsWellFoundedOn(OpToRel(<, Nat), Nat) BY NatLessThanWellFounded
<1>2. PICK x \in T : \A y \in T : <<y, x>> \notin OpToRel(<, Nat) BY <1>1, WFMin
<1>3. ASSUME NEW y \in T PROVE x <= y
  <2>1. x \in Nat /\ y \in Nat OBVIOUS
  <2>2. ~(y < x) BY <1>2, <2>1 DEF OpToRel
  <2>3. QED BY <2>1, <2>2
<1>4. QED BY <1>3

LEMMA UpTo ==
  ASSUME NEW n \in Nat, NEW T, 0 \in T, \A m \in 0 .. n : m \in T /\ m < n => m + 1 \in T
  PROVE  0 .. n \subseteq T
<1>1. SUFFICES ASSUME (0 .. n) \ T # {} PROVE FALSE OBVIOUS
<1>0. (0 .. n) \ T \subseteq Nat OBVIOUS
<1>2. PICK x \in (0 .. n) \ T : \A y \in (0 .. n) \ T : x <= y BY <1>0, <1>1, LeastNumber
<1>3. x # 0 /\ x - 1 \in 0 .. n /\ x - 1 < n OBVIOUS
<1>4. x - 1 \in T BY <1>2, <1>3
<1>5. QED BY <1>3, <1>4

\* A function of the numbers up to n is given by its first value and what
\* follows from each.
Steps(n, V) == [(0 .. n) \X V -> V]
Iteration(f, n, V, base, step) ==
  f \in [0 .. n -> V] /\ f[0] = base /\ \A i \in 1 .. n : f[i] = step[<<i, f[i - 1]>>]

LEMMA Iterates ==
  ASSUME NEW n \in Nat, NEW V, NEW base \in V, NEW step \in Steps(n, V)
  PROVE  \E f : Iteration(f, n, V, base, step)
<1> USE DEF Steps, Iteration
<1> DEFINE Good(f, m) == f \in [0 .. m -> V] /\ f[0] = base /\ \A i \in 1 .. m : f[i] = step[<<i, f[i - 1]>>]
           T == {m \in 0 .. n : \E f \in [0 .. m -> V] : Good(f, m)}
<1>1. 0 \in T
  <2>1. PICK f : f = [i \in 0 .. 0 |-> base] OBVIOUS
  <2>2. f \in [0 .. 0 -> V] /\ Good(f, 0) BY <2>1
  <2>3. QED BY <2>2
<1>2. ASSUME NEW m \in 0 .. n, m \in T, m < n PROVE m + 1 \in T
  <2>1. PICK f \in [0 .. m -> V] : Good(f, m) BY <1>2
  <2>2. PICK g : g = [i \in 0 .. m + 1 |-> IF i = m + 1 THEN step[<<m + 1, f[m]>>] ELSE f[i]] OBVIOUS
  <2>3. m + 1 \in 0 .. n /\ m \in 0 .. m /\ <<m + 1, f[m]>> \in (0 .. n) \X V BY <1>2, <2>1
  <2>4. step[<<m + 1, f[m]>>] \in V BY <2>3
  <2>5. g \in [0 .. m + 1 -> V] BY <2>1, <2>2, <2>4
  <2>6. \A i \in 0 .. m : g[i] = f[i] BY <2>2
  <2>7. ASSUME NEW i \in 1 .. m + 1 PROVE g[i] = step[<<i, g[i - 1]>>]
    <3>1. CASE i = m + 1
      <4>1. i - 1 = m /\ g[m] = f[m] BY <3>1, <2>3, <2>6
      <4>2. g[i] = step[<<m + 1, f[m]>>] BY <3>1, <2>2
      <4>3. QED BY <3>1, <4>1, <4>2
    <3>2. CASE i # m + 1
      <4>1. i \in 1 .. m /\ i \in 0 .. m /\ i - 1 \in 0 .. m BY <3>2
      <4>2. g[i] = f[i] /\ g[i - 1] = f[i - 1] BY <4>1, <2>6
      <4>3. f[i] = step[<<i, f[i - 1]>>] BY <4>1, <2>1
      <4>4. QED BY <4>2, <4>3
    <3>3. QED BY <3>1, <3>2
  <2>8. Good(g, m + 1) BY <2>1, <2>5, <2>6, <2>7
  <2>9. QED BY <2>3, <2>5, <2>8
<1>3. 0 .. n \subseteq T
  <2> HIDE DEF T
  <2>1. QED BY <1>1, <1>2, UpTo
<1>4. n \in T
  <2> HIDE DEF T
  <2>1. QED BY <1>3
<1>5. QED BY <1>4

\* FlattenSeq(ss) has the elements of each list of ss, those of an earlier list
\* before those of a later one.
Lists(s, ss, n, place) ==
  /\ place \in [1 .. Len(s) -> 1 .. n]
  /\ \A p \in 1 .. Len(s) : \E j \in 1 .. Len(ss[place[p]]) : s[p] = ss[place[p]][j]
  /\ \A p, q \in 1 .. Len(s) : p < q => place[p] <= place[q]
  /\ \A i \in 1 .. n : \A j \in 1 .. Len(ss[i]) : \E p \in 1 .. Len(s) : place[p] = i /\ s[p] = ss[i][j]

LEMMA ListsGrow ==
  ASSUME NEW F, NEW ss \in Seq(Seq(F)), NEW n \in 0 .. Len(ss), n < Len(ss),
         NEW s \in Seq(F), NEW place, Lists(s, ss, n, place)
  PROVE  \E to : Lists(s \o ss[n + 1], ss, n + 1, to)
<1> DEFINE e == ss[n + 1]
           t == s \o e
           to == [p \in 1 .. Len(t) |-> IF p <= Len(s) THEN place[p] ELSE n + 1]
<1>1. e \in Seq(F) /\ n + 1 \in 1 .. Len(ss) /\ Len(s) \in Nat /\ Len(e) \in Nat OBVIOUS
<1>2. t \in Seq(F) /\ Len(t) = Len(s) + Len(e) BY <1>1, ConcatProperties
<1>3. \A p \in 1 .. Len(s) : t[p] = s[p] /\ p \in 1 .. Len(t) BY <1>1, <1>2, ConcatProperties
<1>4. \A j \in 1 .. Len(e) : t[Len(s) + j] = e[j] /\ Len(s) + j \in 1 .. Len(t) /\ ~(Len(s) + j <= Len(s))
  BY <1>1, <1>2, ConcatProperties
<1>5. \A p \in 1 .. Len(t) : ~(p <= Len(s)) => p - Len(s) \in 1 .. Len(e) /\ t[p] = e[p - Len(s)]
  BY <1>1, <1>2, ConcatProperties
<1> HIDE DEF e, t
<1>a. place \in [1 .. Len(s) -> 1 .. n] BY DEF Lists
<1>b. \A p \in 1 .. Len(s) : p \in 1 .. Len(t) /\ p <= Len(s) BY <1>1, <1>3
<1>6. \A p \in 1 .. Len(s) : place[p] \in 1 .. n /\ to[p] = place[p] BY <1>a, <1>b
<1>7. \A p \in 1 .. Len(t) : ~(p <= Len(s)) => to[p] = n + 1 OBVIOUS
<1>8. to \in [1 .. Len(t) -> 1 .. n + 1]
  <2>1. ASSUME NEW p \in 1 .. Len(t) PROVE to[p] \in 1 .. n + 1
    <3>1. CASE p <= Len(s)
      <4>1. p \in 1 .. Len(s) BY <3>1, <1>1
      <4>2. to[p] \in 1 .. n BY <4>1, <1>6
      <4>3. QED BY <4>2
    <3>2. CASE ~(p <= Len(s)) BY <3>2, <1>7
    <3>3. QED BY <3>1, <3>2
  <2>2. QED BY <2>1
<1>9. ASSUME NEW p \in 1 .. Len(t) PROVE \E j \in 1 .. Len(ss[to[p]]) : t[p] = ss[to[p]][j]
  <2>1. CASE p <= Len(s)
    <3>1. p \in 1 .. Len(s) BY <2>1, <1>1
    <3>2. QED BY <3>1, <1>3, <1>6 DEF Lists
  <2>2. CASE ~(p <= Len(s))
    <3>1. to[p] = n + 1 /\ t[p] = e[p - Len(s)] /\ p - Len(s) \in 1 .. Len(e) BY <2>2, <1>5, <1>7
    <3>2. ss[to[p]] = e BY <3>1 DEF e
    <3>3. QED BY <3>1, <3>2
  <2>3. QED BY <2>1, <2>2
<1>10. ASSUME NEW p \in 1 .. Len(t), NEW q \in 1 .. Len(t), p < q PROVE to[p] <= to[q]
  <2>1. CASE q <= Len(s)
    <3>1. p \in 1 .. Len(s) /\ q \in 1 .. Len(s) BY <2>1, <1>1, <1>2, <1>10
    <3>2. place[p] <= place[q] BY <3>1, <1>10 DEF Lists
    <3>3. QED BY <3>1, <3>2, <1>6
  <2>2. CASE ~(q <= Len(s))
    <3>1. to[q] = n + 1 /\ to[p] \in 1 .. n + 1 BY <2>2, <1>7, <1>8
    <3>2. QED BY <3>1
  <2>3. QED BY <2>1, <2>2
<1>11. ASSUME NEW i \in 1 .. n + 1, NEW j \in 1 .. Len(ss[i])
       PROVE  \E p \in 1 .. Len(t) : to[p] = i /\ t[p] = ss[i][j]
  <2>1. CASE i = n + 1
    <3>1. ss[i] = e BY <2>1 DEF e
    <3>2. Len(s) + j \in 1 .. Len(t) /\ t[Len(s) + j] = e[j] /\ ~(Len(s) + j <= Len(s)) BY <3>1, <1>4
    <3>3. QED BY <2>1, <3>1, <3>2, <1>7
  <2>2. CASE i # n + 1
    <3>1. i \in 1 .. n BY <2>2
    <3>2. PICK p \in 1 .. Len(s) : place[p] = i /\ s[p] = ss[i][j] BY <3>1 DEF Lists
    <3>3. QED BY <3>2, <1>3, <1>6
  <2>3. QED BY <2>1, <2>2
<1>12. Lists(t, ss, n + 1, to)
  <2> HIDE DEF to
  <2>1. QED BY <1>8, <1>9, <1>10, <1>11 DEF Lists
<1>13. QED BY <1>12 DEF t, e

LEMMA FlattenLists ==
  ASSUME NEW F, NEW ss \in Seq(Seq(F))
  PROVE  FlattenSeq(ss) \in Seq(F) /\ \E place : Lists(FlattenSeq(ss), ss, Len(ss), place)
<1>0. PICK n \in Nat : n = Len(ss) OBVIOUS
<1>1. CASE n = 0
  <2>1. ss = <<>> /\ Len(ss) = 0 BY <1>0, <1>1, EmptySeq
  <2>2. FlattenSeq(ss) = ss BY <2>1 DEF FlattenSeq
  <2>3. PICK place : place = [p \in 1 .. 0 |-> 0] OBVIOUS
  <2>4. Lists(<<>>, ss, 0, place) BY <2>1, <2>3 DEF Lists
  <2>5. <<>> \in Seq(F) OBVIOUS
  <2>6. QED BY <2>1, <2>2, <2>4, <2>5
<1>2. CASE n # 0
  <2> DEFINE Flat(g) == g = [i \in 1 .. n |-> IF i = 1 THEN ss[i] ELSE g[i - 1] \o ss[i]]
  <2>1. PICK step : step = [p \in (0 .. n) \X Seq(F) |-> IF p[1] = 0 THEN <<>> ELSE p[2] \o ss[p[1]]] OBVIOUS
  <2>2. ASSUME NEW p \in (0 .. n) \X Seq(F) PROVE step[p] \in Seq(F)
    <3>1. p[1] # 0 => ss[p[1]] \in Seq(F) BY <1>0
    <3>2. p[2] \in Seq(F) OBVIOUS
    <3>3. p[1] # 0 => p[2] \o ss[p[1]] \in Seq(F) BY <3>1, <3>2, ConcatProperties
    <3>4. QED BY <2>1, <3>3, EmptySeq
  <2>3. step \in Steps(n, Seq(F)) BY <2>1, <2>2 DEF Steps
  <2>4. <<>> \in Seq(F) OBVIOUS
  <2>5. PICK f : Iteration(f, n, Seq(F), <<>>, step) BY <2>3, <2>4, Iterates
  <2>6. \A i \in 1 .. n : f[i] = f[i - 1] \o ss[i]
    <3>1. ASSUME NEW i \in 1 .. n PROVE f[i] = f[i - 1] \o ss[i]
      <4>1. i - 1 \in 0 .. n /\ i \in 0 .. n /\ i # 0 OBVIOUS
      <4>2. f[i - 1] \in Seq(F) BY <4>1, <2>5 DEF Iteration
      <4>3. <<i, f[i - 1]>> \in (0 .. n) \X Seq(F) BY <4>1, <4>2
      <4>4. step[<<i, f[i - 1]>>] = f[i - 1] \o ss[i] BY <2>1, <4>1, <4>3
      <4>5. QED BY <4>4, <2>5 DEF Iteration
    <3>2. QED BY <3>1
  <2>7. PICK k : k = [i \in 1 .. n |-> f[i]] OBVIOUS
  <2>8. Flat(k)
    <3>1. ASSUME NEW i \in 1 .. n PROVE k[i] = IF i = 1 THEN ss[i] ELSE k[i - 1] \o ss[i]
      <4>1. CASE i = 1
        <5>1. f[0] = <<>> /\ ss[1] \in Seq(F) /\ 1 \in 1 .. n BY <2>5, <1>0, <1>2 DEF Iteration
        <5>2. <<>> \o ss[1] = ss[1] BY <5>1, ConcatEmptySeq
        <5>3. f[1] = f[0] \o ss[1]
          <6>1. f[1] = f[1 - 1] \o ss[1] BY <5>1, <2>6
          <6>2. QED BY <6>1
        <5>4. QED BY <4>1, <5>1, <5>2, <5>3, <2>7
      <4>2. CASE i # 1
        <5>1. i - 1 \in 1 .. n BY <4>2
        <5>2. k[i - 1] = f[i - 1] /\ k[i] = f[i] BY <5>1, <2>7
        <5>3. QED BY <4>2, <5>2, <2>6
      <4>3. QED BY <4>1, <4>2
    <3>2. QED BY <3>1, <2>7
  <2> DEFINE h == CHOOSE g : Flat(g)
  <2>9. FlattenSeq(ss) = h[n] BY <1>0, <1>2 DEF FlattenSeq
  <2>10. Flat(h)
    <3> HIDE DEF Flat
    <3>1. QED BY <2>8
  <2>11. \A i \in 1 .. n : h[i] = IF i = 1 THEN ss[i] ELSE h[i - 1] \o ss[i] BY <2>10
  <2> HIDE DEF h
  <2> DEFINE T == {i \in 0 .. n : i = 0 \/ (h[i] \in Seq(F) /\ \E place : Lists(h[i], ss, i, place))}
  <2>12. 0 \in T OBVIOUS
  <2>13. ASSUME NEW i \in 0 .. n, i \in T, i < n PROVE i + 1 \in T
    <3>1. i + 1 \in 1 .. n /\ i + 1 \in 0 .. n /\ ss[i + 1] \in Seq(F) /\ i \in 0 .. Len(ss) /\ i < Len(ss) BY <2>13, <1>0
    <3>2. CASE i = 0
      <4>1. h[1] = ss[1] /\ ss[1] \in Seq(F) /\ <<>> \o ss[1] = ss[1] BY <3>1, <3>2, <2>11, ConcatEmptySeq
      <4>2. PICK place : place = [p \in 1 .. 0 |-> 0] OBVIOUS
      <4>3. Lists(<<>>, ss, 0, place) BY <4>2 DEF Lists
      <4>4. \E to : Lists(<<>> \o ss[0 + 1], ss, 0 + 1, to) BY <4>3, <3>1, <3>2, <2>4, ListsGrow
      <4>5. QED BY <4>1, <4>4, <3>1, <3>2
    <3>3. CASE i # 0
      <4>1. PICK place : h[i] \in Seq(F) /\ Lists(h[i], ss, i, place) BY <2>13, <3>3
      <4>2. \E to : Lists(h[i] \o ss[i + 1], ss, i + 1, to) BY <4>1, <3>1, ListsGrow
      <4>3. h[i + 1] = h[i] \o ss[i + 1]
        <5>1. i + 1 # 1 /\ (i + 1) - 1 = i BY <3>3
        <5>2. QED BY <5>1, <3>1, <2>11
      <4>4. h[i + 1] \in Seq(F) BY <4>1, <4>3, <3>1, ConcatProperties
      <4>5. QED BY <4>2, <4>3, <4>4, <3>1
    <3>4. QED BY <3>2, <3>3
  <2>14. 0 .. n \subseteq T
    <3> HIDE DEF T
    <3>1. QED BY <2>12, <2>13, UpTo
  <2>15. n \in T
    <3> HIDE DEF T
    <3>1. QED BY <2>14
  <2>16. QED BY <2>15, <2>9, <1>0, <1>2
<1>3. QED BY <1>1, <1>2
-----------------------------------------------------------------------------
(* What an interceptor looks at is among the files sent *)

\* A list of files of set F.
LEMMA OfFieldIsList ==
  ASSUME NEW F, NEW given \in Seq(F), NEW field
  PROVE  OfField(given, field) \in Seq(F)
<1>0. PICK n \in Nat : n = Len(given) OBVIOUS
<1> DEFINE Grows(g) == g = [i \in 0 .. n |-> IF i = 0 THEN <<>> ELSE IF given[i].field = field THEN Append(g[i - 1], given[i]) ELSE g[i - 1]]
<1>1. PICK step \in [(0 .. n) \X Seq(F) -> Seq(F)] :
        \A i \in 1 .. n, v \in Seq(F) : step[<<i, v>>] = IF given[i].field = field THEN Append(v, given[i]) ELSE v
  <2>1. PICK step : step = [p \in (0 .. n) \X Seq(F) |-> IF p[1] = 0 THEN <<>> ELSE IF given[p[1]].field = field THEN Append(p[2], given[p[1]]) ELSE p[2]]
    OBVIOUS
  <2>2. ASSUME NEW p \in (0 .. n) \X Seq(F) PROVE step[p] \in Seq(F)
    <3>1. p[1] # 0 => given[p[1]] \in F BY <1>0
    <3>2. QED BY <2>1, <3>1
  <2>3. step \in [(0 .. n) \X Seq(F) -> Seq(F)] BY <2>1, <2>2
  <2>4. ASSUME NEW i \in 1 .. n, NEW v \in Seq(F)
        PROVE  step[<<i, v>>] = IF given[i].field = field THEN Append(v, given[i]) ELSE v
    <3>1. <<i, v>> \in (0 .. n) \X Seq(F) /\ i # 0 OBVIOUS
    <3>2. QED BY <2>1, <3>1
  <2>5. QED BY <2>3, <2>4
<1>2. <<>> \in Seq(F) OBVIOUS
<1>3. PICK f : Iteration(f, n, Seq(F), <<>>, step)
  <2>1. step \in Steps(n, Seq(F)) BY DEF Steps
  <2>2. QED BY <1>2, <2>1, Iterates
<1>4. Grows(f)
  <2>1. ASSUME NEW i \in 0 .. n, i # 0
        PROVE  f[i] = IF given[i].field = field THEN Append(f[i - 1], given[i]) ELSE f[i - 1]
    <3>1. i \in 1 .. n /\ i - 1 \in 0 .. n BY <2>1
    <3>2. f[i] = step[<<i, f[i - 1]>>] /\ f[i - 1] \in Seq(F) BY <3>1, <1>3 DEF Iteration
    <3>3. QED BY <3>1, <3>2, <1>1
  <2>2. QED BY <2>1, <1>3 DEF Iteration
<1> DEFINE h == CHOOSE g : Grows(g)
<1>5. OfField(given, field) = h[n] BY <1>0 DEF OfField
<1>6. Grows(h)
  <2> HIDE DEF Grows
  <2>1. QED BY <1>4
<1>7. h[n] \in Seq(F)
  <2>1. \A i \in 0 .. n : h[i] = IF i = 0 THEN <<>> ELSE IF given[i].field = field THEN Append(h[i - 1], given[i]) ELSE h[i - 1]
    BY <1>6
  <2> HIDE DEF h
  <2> DEFINE T == {i \in 0 .. n : h[i] \in Seq(F)}
  <2>2. 0 \in T
    <3>1. h[0] = <<>> /\ 0 \in 0 .. n BY <2>1
    <3>2. h[0] \in Seq(F) BY <3>1, <1>2
    <3>3. QED BY <3>1, <3>2
  <2>3. ASSUME NEW i \in 0 .. n, i \in T, i < n PROVE i + 1 \in T
    <3>1. i + 1 \in 0 .. n /\ i + 1 # 0 /\ (i + 1) - 1 = i /\ given[i + 1] \in F BY <2>3, <1>0
    <3>2. h[i + 1] = IF given[i + 1].field = field THEN Append(h[i], given[i + 1]) ELSE h[i] BY <2>1, <3>1
    <3>3. h[i] \in Seq(F) BY <2>3
    <3>4. h[i + 1] \in Seq(F) BY <3>1, <3>2, <3>3
    <3>5. QED BY <3>1, <3>4
  <2>4. 0 .. n \subseteq T
    <3> HIDE DEF T
    <3>1. QED BY <2>2, <2>3, UpTo
  <2>5. QED BY <2>4
<1>8. QED BY <1>5, <1>7


LEMMA SelectedIsList ==
  ASSUME interceptor \in Interceptors, NEW given, given \in Seq(ToSet(given))
  PROVE  Selected(interceptor, given) \in Seq(ToSet(given))
<1> DEFINE F == ToSet(given)
           fs == interceptor.fields
<1> HIDE DEF F
<1>1. fs \in Seq(STRING) /\ given \in Seq(F) BY UploadAssumption DEF F
<1>2. CASE interceptor.kind = "any"
  <2>1. Selected(interceptor, given) = given BY <1>2 DEF Selected
  <2>2. QED BY <1>1, <2>1 DEF F
<1>3. CASE interceptor.kind = "file"
  <2>1. PICK l : l = OfField(given, fs[1]) OBVIOUS
  <2>2. l \in Seq(F) BY <1>1, <2>1, OfFieldIsList
  <2>3. FirstOf(l) \in Seq(F) BY <2>2 DEF FirstOf
  <2>4. Selected(interceptor, given) = FirstOf(l) BY <1>3, <2>1 DEF Selected
  <2>5. QED BY <2>3, <2>4 DEF F
<1>4. CASE interceptor.kind \notin {"any", "file"}
  <2>1. PICK ss : ss = [i \in DOMAIN fs |-> OfField(given, fs[i])] OBVIOUS
  <2>2. DOMAIN fs = 1 .. Len(fs) /\ Len(fs) \in Nat BY <1>1
  <2>3. \A i \in DOMAIN fs : OfField(given, fs[i]) \in Seq(F) BY <1>1, OfFieldIsList
  <2>4. ss \in Seq(Seq(F)) BY <2>1, <2>2, <2>3
  <2>5. Selected(interceptor, given) = FlattenSeq(ss) BY <1>4, <2>1 DEF Selected
  <2>6. QED BY <2>4, <2>5, FlattenLists DEF F
<1>5. QED BY <1>2, <1>3, <1>4

-----------------------------------------------------------------------------
(* Uploads *)

NameAt(r, j) ==
  CASE interceptor.naming = "original" -> <<Selected(interceptor, files[r])[j].name>>
    [] interceptor.naming = "fixed" -> FixedName
    [] OTHER -> <<r, j>>
AnyName == {FixedName} \cup {<<f.name>> : f \in UNION {ToSet(given) : given \in FileLists}} \cup Uploads \X Nat
Allowed(r, j) == /\ Selected(interceptor, files[r])[j].size <= interceptor.limits.size
                 /\ Selected(interceptor, files[r])[j].allowed

\* The j-th file of r is where its path says, under a generated name untouched,
\* and not replaced by an earlier one.
Kept(r, j) ==
  interceptor.naming # "none" =>
    /\ paths[r][j] = NameAt(r, j) /\ NameAt(r, j) \in DOMAIN disk
    /\ interceptor.naming = "generated" => disk[NameAt(r, j)] = <<r, j>>
    /\ disk[NameAt(r, j)][1] = r => disk[NameAt(r, j)][2] >= j

\* The files before the one in progress are allowed and kept.
Progress(r) ==
  LET seen == Selected(interceptor, files[r]) k == stage[r].k IN
  /\ stage[r].phase \in {"check", "store", "handler"} =>
       /\ Len(seen) <= interceptor.limits.files
       /\ k \in 1 .. Len(seen) + 1 /\ (k <= Len(seen) <=> stage[r].phase # "handler")
       /\ interceptor.naming # "none" => Len(paths[r]) = k - 1
       /\ \A j \in 1 .. k - 1 : Allowed(r, j) /\ Kept(r, j)
  /\ stage[r].phase = "store" => interceptor.naming # "none" /\ Allowed(r, k)
  /\ stage[r].phase = "new" => paths[r] = <<>>

\* Under a name of the client is a file, or a part of one, that was sent by it.
OfName(name) ==
  interceptor.naming = "original" =>
    \E r \in Uploads, j \in Nat : \E n \in NameSent(<<r, j>>) :
      disk[name] = <<r, j>> /\ name = <<n>> /\ stage[r].phase # "new"

UploadTyped ==
  /\ interceptor \in Interceptors
  /\ files \in [Uploads -> FileLists \cup {<<>>}]
  /\ stage \in [Uploads -> [phase : {"new", "check", "store", "handler", "refused"}, k : Nat]]
  /\ paths \in [Uploads -> Seq(AnyName)]

UploadInv ==
  /\ UploadTyped
  /\ \A r \in Uploads : Progress(r)
  /\ \A name \in DOMAIN disk : OfName(name)

LEMMA UploadStarts == UploadInit => UploadInv
<1> SUFFICES ASSUME UploadInit PROVE UploadInv OBVIOUS
<1>1. UploadTyped
  <2>1. stage \in [Uploads -> [phase : {"new", "check", "store", "handler", "refused"}, k : Nat]] BY DEF UploadInit
  <2>2. QED BY <2>1 DEF UploadInit, UploadTyped
<1>2. \A r \in Uploads : Progress(r) BY DEF UploadInit, Progress
<1>3. DOMAIN disk = {} BY DEF UploadInit
<1>4. QED BY <1>1, <1>2, <1>3 DEF UploadInv

LEMMA SeenIsList ==
  ASSUME interceptor \in Interceptors, NEW given \in FileLists \cup {<<>>}
  PROVE  /\ Selected(interceptor, given) \in Seq(ToSet(given))
         /\ \A k \in 1 .. Len(Selected(interceptor, given)) : Selected(interceptor, given)[k] \in ToSet(given)
<1>1. given \in Seq(ToSet(given))
  <2>1. CASE given = <<>> BY <2>1, EmptySeq
  <2>2. CASE given \in FileLists BY <2>2, UploadAssumption
  <2>3. QED BY <2>1, <2>2
<1>2. Selected(interceptor, given) \in Seq(ToSet(given)) BY <1>1, SelectedIsList
<1>3. QED BY <1>2, ElementOfSeq

LEMMA UploadShown == UploadInv => StoredAsSent
<1> SUFFICES ASSUME UploadInv, NEW r \in Uploads, stage[r].phase = "handler"
    PROVE  LET seen == Selected(interceptor, files[r]) IN
             /\ Len(seen) <= interceptor.limits.files
             /\ \A k \in DOMAIN seen :
                  /\ seen[k].size <= interceptor.limits.size /\ seen[k].allowed
                  /\ interceptor.naming # "none" =>
                       /\ Len(paths[r]) = Len(seen)
                       /\ interceptor.naming = "generated" => disk[paths[r][k]] = <<r, k>>
                       /\ interceptor.naming = "original" => seen[k].name \in NameSent(disk[paths[r][k]])
                       /\ disk[paths[r][k]][1] = r => disk[paths[r][k]][2] >= k
    BY DEF StoredAsSent
<1> DEFINE seen == Selected(interceptor, files[r])
<1>1. interceptor \in Interceptors /\ files[r] \in FileLists \cup {<<>>} BY DEF UploadInv, UploadTyped
<1>2. seen \in Seq(ToSet(files[r])) /\ DOMAIN seen = 1 .. Len(seen) /\ Len(seen) \in Nat
  <2>1. seen \in Seq(ToSet(files[r])) BY <1>1, SeenIsList
  <2>2. QED BY <2>1, LenProperties
<1>3. Progress(r) BY DEF UploadInv
<1> HIDE DEF seen
<1>4. stage[r].k = Len(seen) + 1 /\ Len(seen) <= interceptor.limits.files
  <2>1. stage[r].k \in 1 .. Len(seen) + 1 /\ ~(stage[r].k <= Len(seen)) /\ Len(seen) <= interceptor.limits.files
    BY <1>3 DEF Progress, seen
  <2>2. QED BY <2>1, <1>2
<1>5. \A k \in DOMAIN seen : Allowed(r, k) /\ Kept(r, k)
  <2>1. \A j \in 1 .. stage[r].k - 1 : Allowed(r, j) /\ Kept(r, j) BY <1>3 DEF Progress
  <2>2. DOMAIN seen = 1 .. stage[r].k - 1 BY <1>2, <1>4
  <2>3. QED BY <2>1, <2>2
<1>6. interceptor.naming # "none" => Len(paths[r]) = Len(seen)
  <2>1. interceptor.naming # "none" => Len(paths[r]) = stage[r].k - 1 BY <1>3 DEF Progress
  <2>2. QED BY <2>1, <1>2, <1>4
<1>7. ASSUME NEW k \in DOMAIN seen, interceptor.naming # "none"
      PROVE  /\ interceptor.naming = "generated" => disk[paths[r][k]] = <<r, k>>
             /\ interceptor.naming = "original" => seen[k].name \in NameSent(disk[paths[r][k]])
             /\ disk[paths[r][k]][1] = r => disk[paths[r][k]][2] >= k
  <2>1. paths[r][k] = NameAt(r, k) /\ NameAt(r, k) \in DOMAIN disk
        /\ (interceptor.naming = "generated" => disk[NameAt(r, k)] = <<r, k>>)
        /\ (disk[NameAt(r, k)][1] = r => disk[NameAt(r, k)][2] >= k) BY <1>5, <1>7 DEF Kept
  <2>2. ASSUME interceptor.naming = "original" PROVE seen[k].name \in NameSent(disk[paths[r][k]])
    <3>1. OfName(NameAt(r, k)) BY <2>1 DEF UploadInv
    <3>2. NameAt(r, k) = <<seen[k].name>> BY <2>2 DEF NameAt, seen
    <3>3. PICK q \in Uploads, j \in Nat : \E n \in NameSent(<<q, j>>) : disk[NameAt(r, k)] = <<q, j>> /\ NameAt(r, k) = <<n>>
      BY <2>2, <3>1 DEF OfName
    <3>4. seen[k].name \in NameSent(<<q, j>>) BY <3>2, <3>3
    <3>5. QED BY <2>1, <3>3, <3>4
  <2>3. QED BY <2>1, <2>2
<1>8. QED BY <1>4, <1>5, <1>6, <1>7 DEF Allowed, seen


\* The files on the disk that a request may still want, or those of other
\* requests that replaced them.
DiskKept(q) ==
  \A j \in Nat : NameAt(q, j) \in DOMAIN disk =>
    /\ NameAt(q, j) \in DOMAIN disk'
    /\ \/ disk'[NameAt(q, j)] = disk[NameAt(q, j)]
       \/ interceptor.naming # "generated" /\ disk'[NameAt(q, j)][1] # q

LEMMA ProgressStays ==
  ASSUME UploadTyped, NEW q \in Uploads, interceptor' = interceptor, files'[q] = files[q], stage'[q] = stage[q],
         paths'[q] = paths[q], DiskKept(q), Progress(q)
  PROVE  Progress(q)'
<1>1. Selected(interceptor, files[q])' = Selected(interceptor, files[q]) OBVIOUS
<1>2. stage[q].k \in Nat BY DEF UploadTyped
<1>3. ASSUME NEW j \in Nat, Allowed(q, j) PROVE Allowed(q, j)' BY <1>1, <1>3 DEF Allowed
<1>4. ASSUME NEW j \in Nat, Kept(q, j) PROVE Kept(q, j)'
  <2>1. NameAt(q, j)' = NameAt(q, j) BY <1>1 DEF NameAt
  <2>2. QED BY <1>4, <2>1 DEF Kept, DiskKept
<1>5. QED BY <1>1, <1>2, <1>3, <1>4 DEF Progress

LEMMA OfNameStays ==
  ASSUME NEW name, interceptor' = interceptor, disk'[name] = disk[name], OfName(name),
         \A q \in Uploads : stage[q].phase # "new" => files'[q] = files[q] /\ stage'[q].phase # "new"
  PROVE  OfName(name)'
<1>1. SUFFICES ASSUME interceptor.naming = "original"
      PROVE  \E q \in Uploads, j \in Nat : \E n \in NameSent(<<q, j>>)' :
               disk'[name] = <<q, j>> /\ name = <<n>> /\ stage'[q].phase # "new"
  BY DEF OfName
<1>2. PICK q \in Uploads, j \in Nat : \E n \in NameSent(<<q, j>>) :
        disk[name] = <<q, j>> /\ name = <<n>> /\ stage[q].phase # "new" BY <1>1 DEF OfName
<1>3. files'[q] = files[q] /\ stage'[q].phase # "new" BY <1>2
<1>4. NameSent(<<q, j>>)' = NameSent(<<q, j>>) BY <1>3 DEF NameSent
<1>5. QED BY <1>2, <1>3, <1>4

LEMMA InterceptKeeps == ASSUME UploadInv, NEW r \in Uploads, Intercept(r) PROVE UploadInv'
<1> USE DEF UploadInv
<1>1. PICK given \in FileLists :
        /\ stage[r].phase = "new" /\ files' = [files EXCEPT ![r] = given] /\ UNCHANGED <<interceptor, disk, paths>>
        /\ IF TooMany(given) THEN Move(r, "refused", 1) ELSE Onward(r, 1)
  BY DEF Intercept
<1>2. files'[r] = given /\ \A q \in Uploads \ {r} : files'[q] = files[q] BY <1>1 DEF UploadTyped
<1> DEFINE seen == Selected(interceptor, given)
<1>3. seen \in Seq(ToSet(given)) /\ Len(seen) \in Nat
  <2>1. seen \in Seq(ToSet(given)) BY SeenIsList DEF UploadTyped
  <2>2. QED BY <2>1, LenProperties
<1> HIDE DEF seen
<1>4. PICK phase : stage' = [stage EXCEPT ![r] = [phase |-> phase, k |-> 1]] /\ phase \in {"refused", "handler", "check"}
        /\ (phase # "refused" => ~TooMany(given) /\ (phase = "handler" <=> 1 > Len(seen)))
  BY <1>1, <1>2 DEF Move, Onward, seen
<1>5. stage'[r] = [phase |-> phase, k |-> 1] /\ \A q \in Uploads \ {r} : stage'[q] = stage[q] BY <1>4 DEF UploadTyped
<1>6. UploadTyped' BY <1>1, <1>4 DEF UploadTyped
<1>7. ASSUME NEW q \in Uploads \ {r} PROVE Progress(q)'
  <2>1. DiskKept(q) BY <1>1 DEF DiskKept
  <2>2. QED BY <2>1, <1>1, <1>2, <1>5, ProgressStays
<1>8. Progress(r)'
  <2>1. Selected(interceptor, files[r])' = seen BY <1>1, <1>2 DEF seen
  <2>2. phase # "refused" => Len(seen) <= interceptor.limits.files
    <3>1. interceptor.limits.files \in Nat BY UploadAssumption DEF UploadTyped
    <3>2. seen = <<>> => Len(seen) = 0 OBVIOUS
    <3>3. QED BY <3>1, <3>2, <1>3, <1>4 DEF TooMany, seen
  <2>3. paths'[r] = <<>> /\ Len(<<>>) = 0 BY <1>1 DEF Progress
  <2>4. 1 - 1 = 0 /\ 1 .. 0 = {} /\ 1 \in 1 .. Len(seen) + 1 BY <1>3
  <2>5. 1 <= Len(seen) <=> ~(1 > Len(seen)) BY <1>3
  <2>6. stage'[r].phase = phase /\ stage'[r].k = 1 BY <1>5
  <2>7. QED BY <2>1, <2>2, <2>3, <2>4, <2>5, <2>6, <1>1, <1>4 DEF Progress
<1>9. ASSUME NEW name \in DOMAIN disk' PROVE OfName(name)'
  <2>1. \A q \in Uploads : stage[q].phase # "new" => files'[q] = files[q] /\ stage'[q].phase # "new"
    BY <1>1, <1>2, <1>5
  <2>2. QED BY <2>1, <1>1, OfNameStays
<1>10. QED BY <1>6, <1>7, <1>8, <1>9

\* A step that goes on or stops, of a request that has its files.
LEMMA StageSet ==
  ASSUME UploadInv, NEW r \in Uploads, stage[r].phase # "new", NEW phase, NEW k \in Nat,
         phase \in {"check", "store", "handler", "refused"}, UNCHANGED <<interceptor, files>>, Move(r, phase, k)
  PROVE  /\ stage'[r].phase = phase /\ stage'[r].k = k /\ \A q \in Uploads \ {r} : stage'[q] = stage[q]
         /\ stage' \in [Uploads -> [phase : {"new", "check", "store", "handler", "refused"}, k : Nat]]
         /\ \A q \in Uploads : stage[q].phase # "new" => files'[q] = files[q] /\ stage'[q].phase # "new"
BY DEF UploadInv, UploadTyped, Move

LEMMA OnwardMoves ==
  ASSUME NEW r, NEW k, Onward(r, k), UNCHANGED <<interceptor, files>>
  PROVE  Move(r, IF k > Len(Selected(interceptor, files[r])) THEN "handler" ELSE "check", k)
BY DEF Onward, Move

LEMMA InProgress ==
  ASSUME UploadInv, NEW r \in Uploads, stage[r].phase \in {"check", "store"}
  PROVE  /\ stage[r].k \in Nat /\ stage[r].k + 1 \in Nat
         /\ Len(Selected(interceptor, files[r])) \in Nat
         /\ stage[r].k \in 1 .. Len(Selected(interceptor, files[r]))
         /\ Selected(interceptor, files[r])[stage[r].k] \in ToSet(files[r])
<1> DEFINE seen == Selected(interceptor, files[r])
<1>1. seen \in Seq(ToSet(files[r])) /\ \A k \in 1 .. Len(seen) : seen[k] \in ToSet(files[r])
  BY SeenIsList DEF UploadInv, UploadTyped
<1>2. Len(seen) \in Nat BY <1>1, LenProperties
<1>3. stage[r].k \in 1 .. Len(seen) + 1 /\ stage[r].k <= Len(seen) BY DEF UploadInv, Progress
<1> HIDE DEF seen
<1>4. stage[r].k \in 1 .. Len(seen) /\ stage[r].k \in Nat BY <1>2, <1>3
<1>5. QED BY <1>1, <1>2, <1>4 DEF seen

LEMMA SentTyped ==
  ASSUME NEW given \in FileLists \cup {<<>>}, NEW f \in ToSet(given)
  PROVE  f.size \in Nat
<1>1. ToSet(<<>>) = {} BY DEF ToSet
<1>2. QED BY <1>1, UploadAssumption

LEMMA AdmitKeeps == ASSUME UploadInv, NEW r \in Uploads, Admit(r) PROVE UploadInv'
<1>1. stage[r].phase = "check" /\ UNCHANGED <<interceptor, files, disk, paths>> BY DEF Admit
<1>k. PICK k : k = stage[r].k OBVIOUS
<1>s. PICK seen : seen = Selected(interceptor, files[r]) OBVIOUS
<1>2. k \in Nat /\ k + 1 \in Nat /\ k \in 1 .. Len(seen) /\ Len(seen) \in Nat BY <1>1, <1>k, <1>s, InProgress
<1> DEFINE fine == ~(seen[k].size > interceptor.limits.size) /\ seen[k].allowed
<1>p. PICK phase : phase = IF ~fine THEN "refused" ELSE IF interceptor.naming # "none" THEN "store"
                           ELSE IF k + 1 > Len(seen) THEN "handler" ELSE "check" OBVIOUS
<1>n. PICK n : n = IF fine /\ interceptor.naming = "none" THEN k + 1 ELSE k OBVIOUS
<1>m. Move(r, phase, n)
  <2> HIDE DEF fine
  <2>1. CASE ~fine BY <1>k, <1>s, <1>p, <1>n, <2>1 DEF Admit, File, fine
  <2>2. CASE fine /\ interceptor.naming = "none"
    <3>1. Onward(r, k + 1) BY <1>k, <1>s, <2>2 DEF Admit, File, fine
    <3>2. Move(r, IF k + 1 > Len(seen) THEN "handler" ELSE "check", k + 1) BY <3>1, <1>1, <1>s, OnwardMoves
    <3>3. QED BY <3>2, <1>p, <1>n, <2>2
  <2>3. CASE fine /\ interceptor.naming # "none" BY <1>k, <1>s, <1>p, <1>n, <2>3 DEF Admit, File, fine
  <2>4. QED BY <2>1, <2>2, <2>3
<1>3. /\ Move(r, phase, n) /\ phase \in {"check", "store", "handler", "refused"} /\ n \in Nat
      /\ (phase = "refused" \/ fine)
      /\ (phase = "store" => n = k /\ interceptor.naming # "none")
      /\ (phase \in {"check", "handler"} => n = k + 1 /\ interceptor.naming = "none" /\ (phase = "handler" <=> k + 1 > Len(seen)))
  <2> HIDE DEF fine
  <2>1. QED BY <1>2, <1>p, <1>n, <1>m
<1>4. /\ stage'[r].phase = phase /\ stage'[r].k = n /\ \A q \in Uploads \ {r} : stage'[q] = stage[q]
      /\ stage' \in [Uploads -> [phase : {"new", "check", "store", "handler", "refused"}, k : Nat]]
      /\ \A q \in Uploads : stage[q].phase # "new" => files'[q] = files[q] /\ stage'[q].phase # "new"
  BY <1>1, <1>3, StageSet
<1>5. UploadTyped' BY <1>1, <1>4 DEF UploadInv, UploadTyped
<1>6. ASSUME NEW q \in Uploads PROVE DiskKept(q) BY <1>1 DEF DiskKept
<1>7. ASSUME NEW q \in Uploads \ {r} PROVE Progress(q)'
  BY <1>1, <1>4, <1>6, ProgressStays DEF UploadInv
<1>8. Progress(r)'
  <2>1. Progress(r) BY DEF UploadInv
  <2>2. Selected(interceptor, files[r])' = seen BY <1>1, <1>s
  <2>3. fine => Allowed(r, k)
    <3>1. seen[k] \in ToSet(files[r]) BY <1>1, <1>k, <1>s, InProgress
    <3>2. seen[k].size \in Nat BY <3>1, SentTyped DEF UploadInv, UploadTyped
    <3>3. interceptor.limits.size \in Nat BY UploadAssumption DEF UploadInv, UploadTyped
    <3>4. QED BY <1>s, <3>2, <3>3 DEF Allowed
  <2>4. \A j : /\ Allowed(r, j) => Allowed(r, j)' BY <1>1, <1>s, <2>2 DEF Allowed
  <2>5. \A j : Kept(r, j) => Kept(r, j)' BY <1>1, <1>s, <2>2 DEF Kept, NameAt
  <2>6. \A j \in 1 .. k - 1 : Allowed(r, j) /\ Kept(r, j) BY <1>1, <1>k, <1>s, <2>1 DEF Progress
  <2>7. /\ Len(seen) <= interceptor.limits.files
        /\ interceptor.naming # "none" => Len(paths[r]) = k - 1
    BY <1>1, <1>k, <1>s, <2>1 DEF Progress
  <2> HIDE DEF fine
  <2>8. CASE phase = "refused" BY <1>4, <2>8 DEF Progress
  <2>9. CASE phase = "store"
    <3>1. Allowed(r, k)' /\ \A j \in 1 .. k - 1 : Allowed(r, j)' /\ Kept(r, j)' BY <1>3, <2>3, <2>4, <2>5, <2>6, <2>9
    <3>2. stage'[r].k = k /\ k \in 1 .. Len(seen) + 1 /\ k <= Len(seen) BY <1>2, <1>3, <1>4, <2>9
    <3>3. QED BY <1>1, <1>3, <1>4, <2>2, <2>7, <2>9, <3>1, <3>2 DEF Progress
  <2>10. CASE phase \in {"check", "handler"}
    <3>1. stage'[r].k = k + 1 /\ k + 1 \in 1 .. Len(seen) + 1 /\ (k + 1 <= Len(seen) <=> phase # "handler") /\ (k + 1) - 1 = k
      BY <1>2, <1>3, <1>4, <2>10
    <3>2. interceptor'.naming = "none" BY <1>1, <1>3, <2>10
    <3>3. ASSUME NEW j \in 1 .. k PROVE Allowed(r, j)' /\ Kept(r, j)'
      <4>1. j = k \/ j \in 1 .. k - 1 BY <1>2
      <4>2. Allowed(r, j)' BY <4>1, <1>3, <2>3, <2>4, <2>6, <2>10
      <4>3. Kept(r, j)' BY <3>2 DEF Kept
      <4>4. QED BY <4>2, <4>3
    <3>4. QED BY <1>1, <1>4, <2>2, <2>7, <2>10, <3>1, <3>2, <3>3 DEF Progress
  <2>11. QED BY <1>3, <2>8, <2>9, <2>10
<1>9. ASSUME NEW name \in DOMAIN disk' PROVE OfName(name)'
  BY <1>1, <1>4, OfNameStays DEF UploadInv
<1>10. QED BY <1>5, <1>7, <1>8, <1>9 DEF UploadInv

\* What a write leaves on the disk.
LEMMA WrittenKeeps ==
  ASSUME UploadInv, NEW r \in Uploads, stage[r].phase = "store", UNCHANGED <<interceptor, files>>,
         stage'[r].phase # "new", \A q \in Uploads : stage[q].phase # "new" => stage'[q].phase # "new",
         NEW k, k = stage[r].k, NEW c, c \in {0, k}, disk' = Written(NameOf(r), <<r, c>>)
  PROVE  /\ NameOf(r) = NameAt(r, k) /\ NameAt(r, k) \in DOMAIN disk' /\ disk'[NameAt(r, k)] = <<r, c>>
         /\ \A q \in Uploads : \A j \in Nat : (q # r \/ j # k) /\ NameAt(q, j) \in DOMAIN disk =>
              /\ NameAt(q, j) \in DOMAIN disk'
              /\ \/ disk'[NameAt(q, j)] = disk[NameAt(q, j)]
                 \/ interceptor.naming # "generated" /\ disk'[NameAt(q, j)] = <<r, c>>
         /\ \A name \in DOMAIN disk' : OfName(name)'
<1>s. PICK seen : seen = Selected(interceptor, files[r]) OBVIOUS
<1>1. k \in Nat /\ k \in 1 .. Len(seen) /\ Len(seen) \in Nat /\ seen[k] \in ToSet(files[r]) BY <1>s, InProgress
<1>2. NameOf(r) = NameAt(r, k) BY <1>s DEF NameOf, NameAt, File
<1>n. PICK own : own = NameAt(r, k) OBVIOUS
<1>3. disk' = [name \in DOMAIN disk \cup {own} |-> IF name = own THEN <<r, c>> ELSE disk[name]] BY <1>2, <1>n DEF Written
<1>4. ASSUME NEW q \in Uploads, NEW j \in Nat, q # r \/ j # k, NameAt(q, j) \in DOMAIN disk
      PROVE  /\ NameAt(q, j) \in DOMAIN disk'
             /\ \/ disk'[NameAt(q, j)] = disk[NameAt(q, j)]
                \/ interceptor.naming # "generated" /\ disk'[NameAt(q, j)] = <<r, c>>
  <2>1. interceptor.naming = "generated" => NameAt(q, j) # own
    <3>1. ASSUME interceptor.naming = "generated" PROVE NameAt(q, j) # own
      <4>1. NameAt(q, j) = <<q, j>> /\ own = <<r, k>> BY <1>n, <3>1 DEF NameAt
      <4>2. QED BY <4>1, <1>4
    <3>2. QED BY <3>1
  <2>2. QED BY <2>1, <1>3, <1>4
<1>5. ASSUME NEW name \in DOMAIN disk' PROVE OfName(name)'
  <2>1. CASE name # own
    <3>1. name \in DOMAIN disk /\ disk'[name] = disk[name] BY <1>3, <2>1, <1>5
    <3>2. OfName(name) BY <3>1 DEF UploadInv
    <3>3. QED BY <3>1, <3>2, OfNameStays
  <2>2. CASE name = own
    <3>1. SUFFICES ASSUME interceptor.naming = "original"
          PROVE  \E q \in Uploads, j \in Nat : \E n \in NameSent(<<q, j>>)' :
                   disk'[name] = <<q, j>> /\ name = <<n>> /\ stage'[q].phase # "new"
      BY DEF OfName
    <3>2. own = <<seen[k].name>> BY <1>n, <1>s, <3>1 DEF NameAt
    <3>3. disk'[name] = <<r, c>> /\ c \in Nat BY <1>1, <1>3, <2>2
    <3>4. seen[k].name \in NameSent(<<r, c>>)
      <4>1. CASE c = 0 BY <4>1, <1>1 DEF NameSent
      <4>2. CASE c = k /\ k # 0 BY <4>2, <1>s DEF NameSent
      <4>3. QED BY <4>1, <4>2, <1>1
    <3>5. NameSent(<<r, c>>)' = NameSent(<<r, c>>) BY DEF NameSent
    <3>6. QED BY <3>2, <3>3, <3>4, <3>5, <2>2
  <2>3. QED BY <2>1, <2>2
<1>6. QED BY <1>2, <1>3, <1>4, <1>5, <1>n

\* A name is a name.
LEMMA NameTyped ==
  ASSUME UploadInv, NEW r \in Uploads, stage[r].phase = "store" PROVE NameAt(r, stage[r].k) \in AnyName
<1>1. Selected(interceptor, files[r])[stage[r].k] \in ToSet(files[r]) /\ stage[r].k \in Nat BY InProgress
<1>2. ToSet(<<>>) = {} BY DEF ToSet
<1>3. files[r] \in FileLists BY <1>1, <1>2 DEF UploadInv, UploadTyped
<1>4. QED BY <1>1, <1>3 DEF NameAt, AnyName

LEMMA StoreKeeps == ASSUME UploadInv, NEW r \in Uploads, Store(r) PROVE UploadInv'
<1>k. PICK k : k = stage[r].k OBVIOUS
<1>s. PICK seen : seen = Selected(interceptor, files[r]) OBVIOUS
<1>1. /\ stage[r].phase = "store" /\ UNCHANGED <<interceptor, files>> /\ Onward(r, k + 1)
      /\ disk' = Written(NameOf(r), <<r, k>>) /\ paths' = [paths EXCEPT ![r] = Append(@, NameOf(r))]
  BY <1>k DEF Store
<1>2. k \in Nat /\ k + 1 \in Nat /\ k \in 1 .. Len(seen) /\ Len(seen) \in Nat BY <1>1, <1>k, <1>s, InProgress
<1>p. PICK phase : phase = IF k + 1 > Len(seen) THEN "handler" ELSE "check" OBVIOUS
<1>3. Move(r, phase, k + 1) /\ phase \in {"check", "handler"} BY <1>1, <1>p, <1>s, OnwardMoves
<1>4. /\ stage'[r].phase = phase /\ stage'[r].k = k + 1 /\ \A q \in Uploads \ {r} : stage'[q] = stage[q]
      /\ stage' \in [Uploads -> [phase : {"new", "check", "store", "handler", "refused"}, k : Nat]]
      /\ \A q \in Uploads : stage[q].phase # "new" => files'[q] = files[q] /\ stage'[q].phase # "new"
  BY <1>1, <1>2, <1>3, StageSet
<1>5. /\ NameOf(r) = NameAt(r, k) /\ NameAt(r, k) \in DOMAIN disk' /\ disk'[NameAt(r, k)] = <<r, k>>
      /\ \A q \in Uploads : \A j \in Nat : (q # r \/ j # k) /\ NameAt(q, j) \in DOMAIN disk =>
           /\ NameAt(q, j) \in DOMAIN disk'
           /\ \/ disk'[NameAt(q, j)] = disk[NameAt(q, j)]
              \/ interceptor.naming # "generated" /\ disk'[NameAt(q, j)] = <<r, k>>
      /\ \A name \in DOMAIN disk' : OfName(name)'
  <2>1. stage'[r].phase # "new" /\ k \in {0, k} BY <1>3, <1>4
  <2>2. UNCHANGED <<interceptor, files>> BY <1>1
  <2>3. \A q \in Uploads : stage[q].phase # "new" => stage'[q].phase # "new" BY <1>4
  <2>4. PICK c : c = k OBVIOUS
  <2>5. c \in {0, k} /\ disk' = Written(NameOf(r), <<r, c>>) BY <1>1, <2>4
  <2>6. stage[r].phase = "store" BY <1>1
  <2>7. QED BY ONLY UploadInv, r \in Uploads, <1>k, <2>1, <2>2, <2>3, <2>4, <2>5, <2>6, WrittenKeeps
<1>6. /\ paths[r] \in Seq(AnyName) /\ NameAt(r, k) \in AnyName /\ paths'[r] = Append(paths[r], NameAt(r, k))
      /\ \A q \in Uploads \ {r} : paths'[q] = paths[q]
  BY <1>k, <1>1, <1>5, NameTyped DEF UploadInv, UploadTyped
<1>7. UploadTyped'
  <2>1. paths' = [paths EXCEPT ![r] = Append(paths[r], NameAt(r, k))] BY <1>1, <1>5
  <2>2. Append(paths[r], NameAt(r, k)) \in Seq(AnyName) BY <1>6
  <2>3. QED BY <1>1, <1>4, <2>1, <2>2 DEF UploadInv, UploadTyped
<1>8. ASSUME NEW q \in Uploads \ {r} PROVE Progress(q)'
  <2>0. <<r, k>>[1] # q OBVIOUS
  <2>1. DiskKept(q) BY <1>5, <2>0 DEF DiskKept
  <2>2. QED BY <1>1, <1>4, <1>6, <2>1, ProgressStays DEF UploadInv
<1>9. Progress(r)'
  <2>1. Progress(r) BY DEF UploadInv
  <2>2. Selected(interceptor, files[r])' = seen BY <1>1, <1>s
  <2>3. Allowed(r, k) /\ interceptor.naming # "none" BY <1>1, <1>k, <2>1 DEF Progress
  <2>4. /\ Len(seen) <= interceptor.limits.files /\ Len(paths[r]) = k - 1
        /\ \A j \in 1 .. k - 1 : Allowed(r, j) /\ Kept(r, j)
    BY <1>1, <1>k, <1>s, <2>1, <2>3 DEF Progress
  <2>5. \A j : NameAt(r, j)' = NameAt(r, j) BY <1>1, <1>s, <2>2 DEF NameAt
  <2>6. Len(paths'[r]) = k /\ paths'[r][k] = NameAt(r, k) /\ \A j \in 1 .. k - 1 : paths'[r][j] = paths[r][j]
    BY <1>2, <1>6, <2>4
  <2>7. ASSUME NEW j \in 1 .. k PROVE Allowed(r, j)' /\ Kept(r, j)'
    <3>1. j = k \/ (j \in 1 .. k - 1 /\ j \in Nat /\ j # k) BY <1>2
    <3>2. Allowed(r, j)' BY <3>1, <1>1, <1>s, <2>2, <2>3, <2>4 DEF Allowed
    <3>3. Kept(r, j)'
      <4>1. CASE j = k
        <5>1. <<r, k>>[2] >= k BY <1>2
        <5>2. QED BY <4>1, <5>1, <1>1, <1>5, <2>5, <2>6 DEF Kept
      <4>2. CASE j \in 1 .. k - 1 /\ j \in Nat /\ j # k
        <5>1. Kept(r, j) /\ paths'[r][j] = paths[r][j] BY <4>2, <2>4, <2>6
        <5>2. NameAt(r, j) \in DOMAIN disk =>
                /\ NameAt(r, j) \in DOMAIN disk'
                /\ \/ disk'[NameAt(r, j)] = disk[NameAt(r, j)]
                   \/ interceptor.naming # "generated" /\ disk'[NameAt(r, j)] = <<r, k>>
          BY <4>2, <1>5
        <5>x. <<r, k>>[1] = r /\ <<r, k>>[2] = k /\ k >= j BY <4>2, <1>2
        <5>3. QED BY <5>1, <5>2, <5>x, <1>1, <2>5 DEF Kept
      <4>3. QED BY <3>1, <4>1, <4>2
    <3>4. QED BY <3>2, <3>3
  <2>8. k + 1 \in 1 .. Len(seen) + 1 /\ (k + 1 <= Len(seen) <=> phase # "handler") /\ (k + 1) - 1 = k
    BY <1>2, <1>p
  <2>9. QED BY <1>1, <1>3, <1>4, <2>2, <2>4, <2>6, <2>7, <2>8 DEF Progress
<1>10. QED BY <1>5, <1>7, <1>8, <1>9 DEF UploadInv

LEMMA CannotStoreKeeps == ASSUME UploadInv, NEW r \in Uploads, CannotStore(r) PROVE UploadInv'
<1>k. PICK k : k = stage[r].k OBVIOUS
<1>1. /\ stage[r].phase = "store" /\ UNCHANGED <<interceptor, files, paths>> /\ Move(r, "refused", k)
      /\ disk' = disk \/ disk' = Written(NameOf(r), <<r, 0>>)
  BY <1>k DEF CannotStore
<1>2. k \in Nat BY <1>1, <1>k, InProgress
<1>4. /\ stage'[r].phase = "refused" /\ \A q \in Uploads \ {r} : stage'[q] = stage[q]
      /\ stage' \in [Uploads -> [phase : {"new", "check", "store", "handler", "refused"}, k : Nat]]
      /\ \A q \in Uploads : stage[q].phase # "new" => files'[q] = files[q] /\ stage'[q].phase # "new"
  BY <1>1, <1>2, StageSet
<1>5. /\ \A q \in Uploads \ {r} : DiskKept(q)
      /\ \A name \in DOMAIN disk' : OfName(name)'
  <2>1. CASE disk' = disk BY <2>1, <1>1, <1>4, OfNameStays DEF UploadInv, DiskKept
  <2>2. CASE disk' = Written(NameOf(r), <<r, 0>>)
    <3>1. /\ \A q \in Uploads : \A j \in Nat : (q # r \/ j # k) /\ NameAt(q, j) \in DOMAIN disk =>
              /\ NameAt(q, j) \in DOMAIN disk'
              /\ \/ disk'[NameAt(q, j)] = disk[NameAt(q, j)]
                 \/ interceptor.naming # "generated" /\ disk'[NameAt(q, j)] = <<r, 0>>
          /\ \A name \in DOMAIN disk' : OfName(name)'
      BY <1>k, <1>1, <1>4, <2>2, WrittenKeeps
    <3>2. <<r, 0>>[1] = r OBVIOUS
    <3>3. QED BY <3>1, <3>2 DEF DiskKept
  <2>3. QED BY <1>1, <2>1, <2>2
<1>7. UploadTyped' BY <1>1, <1>4 DEF UploadInv, UploadTyped
<1>8. ASSUME NEW q \in Uploads \ {r} PROVE Progress(q)' BY <1>1, <1>4, <1>5, ProgressStays DEF UploadInv
<1>9. Progress(r)' BY <1>4 DEF Progress
<1>10. QED BY <1>5, <1>7, <1>8, <1>9 DEF UploadInv

LEMMA UploadStep == ASSUME UploadInv, [UploadNext]_uploadVars PROVE UploadInv'
<1>1. CASE UploadNext BY <1>1, InterceptKeeps, AdmitKeeps, StoreKeeps, CannotStoreKeeps DEF UploadNext
<1>2. CASE UNCHANGED uploadVars
  <2>1. UNCHANGED <<interceptor, files, stage, disk, paths>> BY <1>2 DEF uploadVars
  <2>2. UploadTyped' BY <2>1 DEF UploadInv, UploadTyped
  <2>3. \A q \in Uploads : Progress(q)' BY <2>1, ProgressStays DEF UploadInv, DiskKept
  <2>4. \A name \in DOMAIN disk' : OfName(name)' BY <2>1, OfNameStays DEF UploadInv
  <2>5. QED BY <2>2, <2>3, <2>4 DEF UploadInv
<1>3. QED BY <1>1, <1>2

-----------------------------------------------------------------------------
(* Routes *)

\* The length of a path is a number.
LEMMA TextLengthNat == ASSUME NEW path \in Seq(DOMAIN Length) PROVE TextLength(path) \in Nat
<1>0. PICK n \in Nat : n = Len(path) OBVIOUS
<1> DEFINE Grows(g) == g = [i \in 0 .. n |-> IF i = 0 THEN 0 ELSE g[i - 1] + 1 + Length[path[i]]]
<1>1. \A i \in 1 .. n : Length[path[i]] \in Nat
  <2>1. \A i \in 1 .. n : path[i] \in DOMAIN Length BY <1>0
  <2>2. QED BY <2>1, RoutesAssumption
<1>2. PICK step \in [(0 .. n) \X Nat -> Nat] : \A i \in 1 .. n, v \in Nat : step[<<i, v>>] = v + 1 + Length[path[i]]
  <2>1. PICK step : step = [p \in (0 .. n) \X Nat |-> IF p[1] = 0 THEN 0 ELSE p[2] + 1 + Length[path[p[1]]]] OBVIOUS
  <2>2. ASSUME NEW p \in (0 .. n) \X Nat PROVE step[p] \in Nat
    <3>1. p[1] # 0 => p[1] \in 1 .. n OBVIOUS
    <3>2. p[1] # 0 => Length[path[p[1]]] \in Nat BY <3>1, <1>1
    <3>3. QED BY <2>1, <3>2
  <2>3. step \in [(0 .. n) \X Nat -> Nat] BY <2>1, <2>2
  <2>4. ASSUME NEW i \in 1 .. n, NEW v \in Nat PROVE step[<<i, v>>] = v + 1 + Length[path[i]]
    <3>1. <<i, v>> \in (0 .. n) \X Nat /\ i # 0 OBVIOUS
    <3>2. QED BY <2>1, <3>1
  <2>5. QED BY <2>3, <2>4
<1>3. PICK f : Iteration(f, n, Nat, 0, step)
  <2>1. step \in Steps(n, Nat) BY DEF Steps
  <2>2. QED BY <2>1, Iterates
<1>4. Grows(f)
  <2>1. ASSUME NEW i \in 0 .. n, i # 0 PROVE f[i] = f[i - 1] + 1 + Length[path[i]]
    <3>1. i \in 1 .. n /\ i - 1 \in 0 .. n BY <2>1
    <3>2. f[i] = step[<<i, f[i - 1]>>] /\ f[i - 1] \in Nat BY <3>1, <1>3 DEF Iteration
    <3>3. QED BY <3>1, <3>2, <1>2
  <2>2. QED BY <2>1, <1>3 DEF Iteration
<1> DEFINE h == CHOOSE g : Grows(g)
<1>5. TextLength(path) = h[n] BY <1>0 DEF TextLength
<1>6. Grows(h)
  <2> HIDE DEF Grows
  <2>1. QED BY <1>4
<1>7. h[n] \in Nat
  <2>1. \A i \in 0 .. n : h[i] = IF i = 0 THEN 0 ELSE h[i - 1] + 1 + Length[path[i]] BY <1>6
  <2> HIDE DEF h
  <2> DEFINE T == {i \in 0 .. n : h[i] \in Nat}
  <2>2. 0 \in T BY <2>1
  <2>3. ASSUME NEW i \in 0 .. n, i \in T, i < n PROVE i + 1 \in T
    <3>0. i + 1 \in 1 .. n BY <2>3
    <3>1. i + 1 \in 0 .. n /\ i + 1 # 0 /\ (i + 1) - 1 = i /\ Length[path[i + 1]] \in Nat BY <3>0, <1>1
    <3>2. h[i + 1] = h[i] + 1 + Length[path[i + 1]] BY <2>1, <3>1
    <3>3. h[i] \in Nat BY <2>3
    <3>4. QED BY <3>1, <3>2, <3>3
  <2>4. 0 .. n \subseteq T
    <3> HIDE DEF T
    <3>1. QED BY <2>2, <2>3, UpTo
  <2>5. QED BY <2>4
<1>8. QED BY <1>5, <1>7

\* A path without parameters has none of them, and comes first.
LEMMA DynamicCounted ==
  ASSUME NEW path \in Seq(DOMAIN Length)
  PROVE  /\ Cardinality(Dynamic(path)) \in Nat
         /\ Cardinality(Dynamic(path)) = 0 <=> Dynamic(path) = {}
         /\ Dynamic(path) = {} <=> \A i \in 1 .. Len(path) : path[i] \notin {Param, Rest}
<1>1. DOMAIN path = 1 .. Len(path) /\ Len(path) \in Nat OBVIOUS
<1>2. IsFiniteSet(1 .. Len(path)) BY <1>1, FS_Interval
<1>3. IsFiniteSet(Dynamic(path)) BY <1>1, <1>2, FS_Subset DEF Dynamic
<1>4. QED BY <1>1, <1>3, FS_CardinalityType, FS_EmptySet DEF Dynamic

LEMMA DynamicJoined ==
  ASSUME NEW a \in Seq(DOMAIN Length), NEW b \in Seq(DOMAIN Length)
  PROVE  a \o b \in Seq(DOMAIN Length) /\ (Dynamic(a \o b) = {} <=> Dynamic(a) = {} /\ Dynamic(b) = {})
<1>1. /\ a \o b \in Seq(DOMAIN Length) /\ Len(a \o b) = Len(a) + Len(b) /\ Len(a) \in Nat /\ Len(b) \in Nat
      /\ \A i \in 1 .. Len(a) : (a \o b)[i] = a[i]
      /\ \A i \in 1 .. Len(a) + Len(b) : i <= Len(a) => i \in 1 .. Len(a)
      /\ \A i \in 1 .. Len(a) + Len(b) : ~(i <= Len(a)) => i - Len(a) \in 1 .. Len(b) /\ (a \o b)[i] = b[i - Len(a)]
      /\ \A i \in 1 .. Len(b) : (a \o b)[Len(a) + i] = b[i] /\ Len(a) + i \in 1 .. Len(a) + Len(b)
      /\ \A i \in 1 .. Len(a) : i \in 1 .. Len(a) + Len(b)
  BY ConcatProperties
<1> PICK c : c = a \o b OBVIOUS
<1>2. Dynamic(a) = {} /\ Dynamic(b) = {} => Dynamic(c) = {} BY <1>1, DynamicCounted
<1>3. Dynamic(c) = {} => Dynamic(a) = {} BY <1>1, DynamicCounted
<1>4. Dynamic(c) = {} => Dynamic(b) = {} BY <1>1, DynamicCounted
<1>5. QED BY <1>1, <1>2, <1>3, <1>4

\* A total order of the numbers up to n can be listed, each after the lesser ones:
\* at the place that their number gives.
Below(R, n, i) == {k \in 1 .. n : <<k, i>> \in R}
Total(R, n) ==
  /\ \A i \in 1 .. n : <<i, i>> \notin R
  /\ \A i, j \in 1 .. n : i # j => <<i, j>> \in R \/ <<j, i>> \in R
  /\ \A i, j, k \in 1 .. n : <<i, j>> \in R /\ <<j, k>> \in R => <<i, k>> \in R

LEMMA TotalListed ==
  ASSUME NEW n \in Nat, NEW R, Total(R, n)
  PROVE  \E p \in [1 .. n -> 1 .. n] :
           /\ \A i, j \in 1 .. n : p[i] = p[j] => i = j
           /\ \A i, j \in 1 .. n : i < j => <<p[i], p[j]>> \in R
<1>0. IsFiniteSet(1 .. n) /\ Cardinality(1 .. n) = n BY FS_Interval
<1>1. ASSUME NEW i \in 1 .. n
      PROVE  IsFiniteSet(Below(R, n, i)) /\ Cardinality(Below(R, n, i)) \in Nat /\ Cardinality(Below(R, n, i)) < n
  <2>1. Below(R, n, i) \subseteq 1 .. n /\ i \notin Below(R, n, i) BY DEF Below, Total
  <2>2. IsFiniteSet(Below(R, n, i)) /\ Cardinality(Below(R, n, i)) <= n /\ Cardinality(Below(R, n, i)) # n
    BY <1>0, <2>1, FS_Subset
  <2>3. QED BY <2>2, FS_CardinalityType
<1>2. ASSUME NEW i \in 1 .. n, NEW j \in 1 .. n, <<i, j>> \in R
      PROVE  Cardinality(Below(R, n, i)) < Cardinality(Below(R, n, j))
  <2>1. Below(R, n, i) \subseteq Below(R, n, j) BY <1>2 DEF Below, Total
  <2>2. i \in Below(R, n, j) /\ i \notin Below(R, n, i) BY <1>2 DEF Below, Total
  <2>3. Cardinality(Below(R, n, i)) <= Cardinality(Below(R, n, j)) /\ Cardinality(Below(R, n, i)) # Cardinality(Below(R, n, j))
    BY <1>1, <2>1, <2>2, FS_Subset
  <2>4. QED BY <1>1, <2>3
<1>3. PICK rank : rank = [i \in 1 .. n |-> Cardinality(Below(R, n, i)) + 1] OBVIOUS
<1>4. rank \in [1 .. n -> 1 .. n]
  <2>1. \A i \in 1 .. n : Cardinality(Below(R, n, i)) + 1 \in 1 .. n BY <1>1
  <2>2. QED BY <1>3, <2>1
<1>5. \A i, j \in 1 .. n : <<i, j>> \in R => rank[i] < rank[j] BY <1>1, <1>2, <1>3
<1>6. \A i, j \in 1 .. n : rank[i] = rank[j] => i = j
  <2>1. \A i, j \in 1 .. n : ~(rank[i] < rank[j] /\ rank[i] = rank[j]) BY <1>4
  <2>2. QED BY <1>5, <2>1 DEF Total
<1>7. rank \in Surjection(1 .. n, 1 .. n)
  <2>1. rank \in Injection(1 .. n, 1 .. n) BY <1>4, <1>6 DEF Injection, IsInjective
  <2>2. QED BY <1>0, <2>1, FS_Injection
<1>8. \A i \in 1 .. n : \E k \in 1 .. n : rank[k] = i BY <1>7 DEF Surjection
<1>9. PICK p : p = [i \in 1 .. n |-> CHOOSE k \in 1 .. n : rank[k] = i] OBVIOUS
<1>10. \A i \in 1 .. n : p[i] \in 1 .. n /\ rank[p[i]] = i BY <1>8, <1>9
<1>11. \A i, j \in 1 .. n : i < j => <<p[i], p[j]>> \in R
  <2>1. ASSUME NEW i \in 1 .. n, NEW j \in 1 .. n, i < j, <<p[i], p[j]>> \notin R PROVE FALSE
    <3>1. p[i] # p[j] BY <1>10, <2>1
    <3>2. <<p[j], p[i]>> \in R BY <1>10, <2>1, <3>1 DEF Total
    <3>3. rank[p[j]] < rank[p[i]] BY <1>5, <1>10, <3>2
    <3>4. QED BY <1>10, <2>1, <3>3
  <2>2. QED BY <2>1
<1>12. p \in [1 .. n -> 1 .. n] BY <1>9, <1>10
<1>13. QED BY <1>10, <1>11, <1>12

\* sorted() lists the handlers: none after one that must come after it.
HandlersApart(handlers) ==
  /\ handlers \in Seq(ToSet(handlers))
  /\ \A i, j \in DOMAIN handlers : handlers[i] = handlers[j] => i = j
  /\ \A h \in ToSet(handlers) : h.path \in Seq(DOMAIN Length)

LEMMA SortedLists ==
  ASSUME NEW handlers, HandlersApart(handlers)
  PROVE  /\ Sorted(handlers) \in [1 .. Len(handlers) -> ToSet(handlers)]
         /\ \A i, j \in 1 .. Len(handlers) : i < j => ~Before(Sorted(handlers)[j], Sorted(handlers)[i])
<1>0. PICK n \in Nat : n = Len(handlers) BY DEF HandlersApart
<1>1. /\ DOMAIN handlers = 1 .. n /\ \A i \in 1 .. n : handlers[i] \in ToSet(handlers)
      /\ \A i, j \in 1 .. n : handlers[i] = handlers[j] => i = j
  BY <1>0, LenProperties DEF HandlersApart
<1>2. PICK D : D = [i \in 1 .. n |-> Cardinality(Dynamic(handlers[i].path))] OBVIOUS
<1>3. PICK L : L = [i \in 1 .. n |-> TextLength(handlers[i].path)] OBVIOUS
<1>4. \A i \in 1 .. n : D[i] \in Nat /\ L[i] \in Nat
  <2>1. \A i \in 1 .. n : handlers[i].path \in Seq(DOMAIN Length) BY <1>1 DEF HandlersApart
  <2>2. QED BY <2>1, <1>2, <1>3, TextLengthNat, DynamicCounted
<1>5. \A i, j \in 1 .. n : Before(handlers[i], handlers[j]) <=> D[i] < D[j] \/ (D[i] = D[j] /\ L[i] > L[j])
  BY <1>2, <1>3 DEF Before
<1>a. \A i, j \in 1 .. n : Before(handlers[i], handlers[j]) => ~Before(handlers[j], handlers[i]) BY <1>4, <1>5
<1>6. PICK R : R = {p \in (1 .. n) \X (1 .. n) :
                     \/ Before(handlers[p[1]], handlers[p[2]])
                     \/ ~Before(handlers[p[2]], handlers[p[1]]) /\ p[1] < p[2]} OBVIOUS
<1>7. \A i, j \in 1 .. n : <<i, j>> \in R <=> Before(handlers[i], handlers[j]) \/ (~Before(handlers[j], handlers[i]) /\ i < j)
  BY <1>6
<1>8. Total(R, n)
  <2>1. \A i \in 1 .. n : <<i, i>> \notin R BY <1>4, <1>5, <1>7
  <2>2. \A i, j \in 1 .. n : i # j => <<i, j>> \in R \/ <<j, i>> \in R BY <1>4, <1>5, <1>7
  <2>3. ASSUME NEW i \in 1 .. n, NEW j \in 1 .. n, NEW k \in 1 .. n, <<i, j>> \in R, <<j, k>> \in R PROVE <<i, k>> \in R
    <3>1. /\ D[i] < D[j] \/ (D[i] = D[j] /\ (L[i] > L[j] \/ (L[i] = L[j] /\ i < j)))
          /\ D[j] < D[k] \/ (D[j] = D[k] /\ (L[j] > L[k] \/ (L[j] = L[k] /\ j < k)))
      BY <2>3, <1>4, <1>5, <1>7
    <3>2. D[i] < D[k] \/ (D[i] = D[k] /\ (L[i] > L[k] \/ (L[i] = L[k] /\ i < k))) BY <3>1, <1>4
    <3>3. QED BY <3>2, <1>4, <1>5, <1>7
  <2>4. QED BY <2>1, <2>2, <2>3 DEF Total
<1>9. PICK p \in [1 .. n -> 1 .. n] :
        /\ \A i, j \in 1 .. n : p[i] = p[j] => i = j
        /\ \A i, j \in 1 .. n : i < j => <<p[i], p[j]>> \in R
  BY <1>8, TotalListed
<1>10. PICK s : s = [i \in 1 .. n |-> handlers[p[i]]] OBVIOUS
<1>11. Cardinality(ToSet(handlers)) = n
  <2>1. handlers \in [1 .. n -> ToSet(handlers)] BY <1>0, LenProperties DEF HandlersApart
  <2>2. \A h \in ToSet(handlers) : \E i \in 1 .. n : handlers[i] = h BY <1>1 DEF ToSet
  <2>3. handlers \in Bijection(1 .. n, ToSet(handlers))
    BY <1>1, <2>1, <2>2 DEF Bijection, Injection, Surjection, IsInjective
  <2>4. ExistsBijection(1 .. n, ToSet(handlers)) BY <2>3 DEF ExistsBijection
  <2>5. QED BY <2>4, FS_CountingElements
<1> DEFINE Good(t) == \A i, j \in DOMAIN t : i < j =>
                   \/ Before(t[i], t[j])
                   \/ ~Before(t[j], t[i]) /\ \E k, l \in DOMAIN handlers : k < l /\ handlers[k] = t[i] /\ handlers[l] = t[j]
<1>12. s \in SetToSeqs(ToSet(handlers))
  <2>1. \A i \in 1 .. n : s[i] = handlers[p[i]] /\ p[i] \in 1 .. n BY <1>10
  <2>2. s \in [1 .. n -> ToSet(handlers)] BY <1>1, <1>10
  <2>3. \A i, j \in 1 .. n : i # j => s[i] # s[j] BY <1>1, <1>9, <2>1
  <2>4. QED BY <1>11, <2>2, <2>3 DEF SetToSeqs
<1>13. Good(s)
  <2>1. ASSUME NEW i \in 1 .. n, NEW j \in 1 .. n, i < j
        PROVE  \/ Before(s[i], s[j])
               \/ ~Before(s[j], s[i]) /\ \E k, l \in 1 .. n : k < l /\ handlers[k] = s[i] /\ handlers[l] = s[j]
    <3>1. <<p[i], p[j]>> \in R /\ s[i] = handlers[p[i]] /\ s[j] = handlers[p[j]] /\ p[i] \in 1 .. n /\ p[j] \in 1 .. n
      BY <1>9, <1>10, <2>1
    <3>2. QED BY <3>1, <1>7
  <2>2. DOMAIN s = 1 .. n BY <1>10
  <2>3. SUFFICES ASSUME NEW i \in DOMAIN s, NEW j \in DOMAIN s, i < j
        PROVE  \/ Before(s[i], s[j])
               \/ ~Before(s[j], s[i]) /\ \E k, l \in DOMAIN handlers : k < l /\ handlers[k] = s[i] /\ handlers[l] = s[j]
    OBVIOUS
  <2>4. i \in 1 .. n /\ j \in 1 .. n BY <2>2
  <2>5. CASE Before(s[i], s[j]) BY <2>5
  <2>6. CASE ~Before(s[i], s[j])
    <3>1. ~Before(s[j], s[i]) /\ \E k, l \in 1 .. n : k < l /\ handlers[k] = s[i] /\ handlers[l] = s[j]
      BY <2>1, <2>3, <2>4, <2>6
    <3>2. 1 .. n = DOMAIN handlers BY <1>1
    <3>3. QED BY <3>1, <3>2
  <2>7. QED BY <2>5, <2>6
<1> DEFINE c == CHOOSE t \in SetToSeqs(ToSet(handlers)) : Good(t)
<1>14. Sorted(handlers) = c BY DEF Sorted
<1>15. c \in SetToSeqs(ToSet(handlers)) /\ Good(c)
  <2> HIDE DEF Good
  <2>1. QED BY <1>12, <1>13
<1>16. c \in [1 .. n -> ToSet(handlers)] /\ DOMAIN c = 1 .. n
  <2> HIDE DEF c
  <2>1. QED BY <1>11, <1>15 DEF SetToSeqs
<1>17. ASSUME NEW i \in 1 .. n, NEW j \in 1 .. n, i < j PROVE ~Before(c[j], c[i])
  <2>1. PICK k \in 1 .. n, l \in 1 .. n : c[i] = handlers[k] /\ c[j] = handlers[l]
    <3> HIDE DEF c
    <3>1. c[i] \in ToSet(handlers) /\ c[j] \in ToSet(handlers) BY <1>16
    <3>2. QED BY <3>1, <1>1 DEF ToSet
  <2>2. Before(c[i], c[j]) \/ ~Before(c[j], c[i])
    <3> HIDE DEF c
    <3>1. QED BY <1>15, <1>16, <1>17
  <2> HIDE DEF c
  <2>3. Before(handlers[k], handlers[l]) => ~Before(handlers[l], handlers[k]) BY <1>a
  <2>4. QED BY <2>1, <2>2, <2>3
<1>18. QED BY <1>0, <1>14, <1>16, <1>17

LEMMA SetListed ==
  ASSUME NEW S, IsFiniteSet(S) PROVE SetToSeq(S) \in Seq(S)
<1>1. Cardinality(S) \in Nat /\ ExistsBijection(1 .. Cardinality(S), S) BY FS_CardinalityType
<1>2. PICK f : f \in Bijection(1 .. Cardinality(S), S) BY <1>1 DEF ExistsBijection
<1>3. f \in [1 .. Cardinality(S) -> S] /\ IsInjective(f) BY <1>2 DEF Bijection, Injection
<1>4. SetToSeq(S) \in [1 .. Cardinality(S) -> S] BY <1>3 DEF SetToSeq
<1>5. QED BY <1>1, <1>4

-----------------------------------------------------------------------------
\* A path of a handler has its parameters and those of the controller.
Known(c) ==
  /\ c.prefix \in Seq(DOMAIN Length) /\ HandlersApart(c.handlers)
  /\ \A of \in {c} \cup ToSet(c.handlers) :
       IsFiniteSet(of.versions) /\ (of.versions = {"neutral"} \/ of.versions \subseteq Plain \ {"neutral"})

LEMMA AppKnown ==
  ASSUME NEW controllers \in RoutedApps
  PROVE  /\ controllers \in Seq(ToSet(controllers)) /\ DOMAIN controllers = 1 .. Len(controllers) /\ Len(controllers) \in Nat
         /\ \A i \in 1 .. Len(controllers) : controllers[i] \in ToSet(controllers) /\ Known(controllers[i])
         /\ \A i, j \in 1 .. Len(controllers) : controllers[i].name = controllers[j].name => i = j
<1>1. controllers \in Seq(ToSet(controllers)) BY RoutesAssumption
<1>2. DOMAIN controllers = 1 .. Len(controllers) /\ Len(controllers) \in Nat BY <1>1, LenProperties
<1>3. \A i \in 1 .. Len(controllers) : controllers[i] \in ToSet(controllers) BY <1>2 DEF ToSet
<1>4. \A c \in ToSet(controllers) : Known(c) BY RoutesAssumption DEF Known, HandlersApart
<1>5. QED BY <1>1, <1>2, <1>3, <1>4, RoutesAssumption

LEMMA PathsListed ==
  ASSUME NEW c, Known(c), NEW h \in ToSet(c.handlers), versioning \in Versionings
  PROVE  /\ IsFiniteSet(PathsOf(c, h))
         /\ \A p \in PathsOf(c, h) : Dynamic(p) = {} <=> Dynamic(c.prefix) = {} /\ Dynamic(h.path) = {}
<1>1. PICK declared : declared = Declared(c, h) OBVIOUS
<1>2. PICK versions : versions = IF declared = {} THEN IF versioning.default = "" THEN {"neutral"} ELSE {versioning.default} ELSE declared
  OBVIOUS
<1>3. PICK full : full = c.prefix \o h.path OBVIOUS
<1>4. /\ full \in Seq(DOMAIN Length)
      /\ Dynamic(full) = {} <=> Dynamic(c.prefix) = {} /\ Dynamic(h.path) = {}
  BY <1>3, DynamicJoined DEF Known, HandlersApart
<1>5. IsFiniteSet(declared) /\ declared \subseteq Plain \cup {"neutral"} BY <1>1 DEF Known, Declared
<1>6. IsFiniteSet(versions) /\ versions \subseteq Plain \cup {"neutral"}
  <2>1. versioning.default \in Plain \cup {""} BY RoutesAssumption
  <2>2. QED BY <1>2, <1>5, <2>1, FS_Singleton
<1>7. PICK path : path = [v \in versions |-> IF v = "neutral" THEN full ELSE <<v>> \o full] OBVIOUS
<1>8. PathsOf(c, h) = {full} \/ PathsOf(c, h) = {path[v] : v \in versions}
  BY <1>1, <1>2, <1>3, <1>7 DEF PathsOf
<1>9. IsFiniteSet({full}) BY FS_Singleton
<1>10. IsFiniteSet({path[v] : v \in versions})
  <2>1. path \in Surjection(versions, {path[v] : v \in versions}) BY <1>7 DEF Surjection
  <2>2. QED BY <1>6, <2>1, FS_Surjection
<1>11. ASSUME NEW v \in versions PROVE Dynamic(path[v]) = {} <=> Dynamic(full) = {}
  <2>1. CASE v = "neutral" BY <2>1, <1>7
  <2>2. CASE v # "neutral"
    <3>1. v \in Plain BY <1>6, <2>2
    <3>2. <<v>> \in Seq(DOMAIN Length) /\ Len(<<v>>) = 1 /\ <<v>>[1] = v BY <3>1 DEF Plain
    <3>3. Dynamic(<<v>>) = {}
      <4>1. \A i \in 1 .. 1 : <<v>>[i] \notin {Param, Rest} BY <3>1 DEF Plain
      <4>2. QED BY <4>1, <3>2, DynamicCounted
    <3>4. path[v] = <<v>> \o full BY <1>7, <2>2
    <3>5. QED BY <3>2, <3>3, <3>4, <1>4, DynamicJoined
  <2>3. QED BY <2>1, <2>2
<1>12. QED BY <1>4, <1>8, <1>9, <1>10, <1>11

\* What a controller registers: its routes, those without parameters first.
RoutesFrom(c) == UNION {{RouteOf(c, h, p) : p \in PathsOf(c, h)} : h \in ToSet(c.handlers)}
StaticFirst(given) ==
  \A p, q \in 1 .. Len(given) :
    p < q /\ given[p].controller = given[q].controller /\ Dynamic(given[q].path) = {} => Dynamic(given[p].path) = {}

LEMMA RoutesListed ==
  ASSUME NEW c, Known(c), versioning \in Versionings
  PROVE  RoutesOf(c) \in Seq(RoutesFrom(c)) /\ StaticFirst(RoutesOf(c))
<1>0. PICK n \in Nat : n = Len(c.handlers) BY LenProperties DEF Known, HandlersApart
<1>1. PICK s : s = Sorted(c.handlers) OBVIOUS
<1>2. /\ s \in [1 .. n -> ToSet(c.handlers)] /\ DOMAIN c.handlers = 1 .. n
      /\ \A i, j \in 1 .. n : i < j => ~Before(s[j], s[i])
  <2>1. HandlersApart(c.handlers) BY DEF Known
  <2>2. DOMAIN c.handlers = 1 .. n BY <1>0, <2>1, LenProperties DEF HandlersApart
  <2>3. QED BY <1>0, <1>1, <2>1, <2>2, SortedLists
<1>3. PICK ss : ss = [i \in DOMAIN c.handlers |->
                        SetToSeq({RouteOf(c, Sorted(c.handlers)[i], p) : p \in PathsOf(c, Sorted(c.handlers)[i])})] OBVIOUS
<1>4. ASSUME NEW i \in 1 .. n
      PROVE  ss[i] \in Seq({RouteOf(c, s[i], p) : p \in PathsOf(c, s[i])}) /\ ss[i] \in Seq(RoutesFrom(c))
  <2>1. PICK P : P = PathsOf(c, s[i]) OBVIOUS
  <2>2. IsFiniteSet(P) BY <1>2, <2>1, PathsListed
  <2>3. PICK f : f = [p \in P |-> RouteOf(c, s[i], p)] OBVIOUS
  <2>4. {RouteOf(c, s[i], p) : p \in P} = {f[p] : p \in P} BY <2>3
  <2>5. f \in Surjection(P, {f[p] : p \in P}) BY <2>3 DEF Surjection
  <2>6. IsFiniteSet({RouteOf(c, s[i], p) : p \in P}) BY <2>2, <2>4, <2>5, FS_Surjection
  <2>0. ss[i] = SetToSeq({RouteOf(c, s[i], p) : p \in P}) BY <1>1, <1>2, <1>3, <2>1
  <2>7. ss[i] \in Seq({RouteOf(c, s[i], p) : p \in P}) BY <2>0, <2>6, SetListed
  <2>8. {RouteOf(c, s[i], p) : p \in P} \subseteq RoutesFrom(c) BY <1>2, <2>1 DEF RoutesFrom
  <2>9. QED BY <2>1, <2>7, <2>8, SeqMonotonic
<1>5. ss \in Seq(Seq(RoutesFrom(c))) /\ Len(ss) = n
  <2>1. ss \in [1 .. n -> Seq(RoutesFrom(c))] BY <1>2, <1>3, <1>4
  <2>2. QED BY <2>1
<1>6. PICK given : given = RoutesOf(c) OBVIOUS
<1>7. given = FlattenSeq(ss) BY <1>3, <1>6 DEF RoutesOf
<1>8. PICK place : given \in Seq(RoutesFrom(c)) /\ Lists(given, ss, n, place) BY <1>5, <1>7, FlattenLists
<1>9. ASSUME NEW p \in 1 .. Len(given)
      PROVE  place[p] \in 1 .. n /\ \E path \in PathsOf(c, s[place[p]]) : given[p].path = path
  <2>1. place[p] \in 1 .. n BY <1>8 DEF Lists
  <2>2. PICK j \in 1 .. Len(ss[place[p]]) : given[p] = ss[place[p]][j] BY <1>8 DEF Lists
  <2>3. ss[place[p]][j] \in {RouteOf(c, s[place[p]], path) : path \in PathsOf(c, s[place[p]])} BY <2>1, <2>2, <1>4, ElementOfSeq
  <2>4. PICK path \in PathsOf(c, s[place[p]]) : given[p] = RouteOf(c, s[place[p]], path) BY <2>2, <2>3
  <2>5. given[p].path = path BY <2>4 DEF RouteOf
  <2>6. QED BY <2>1, <2>5
<1>10. ASSUME NEW p \in 1 .. Len(given), NEW q \in 1 .. Len(given), p < q, Dynamic(given[q].path) = {}
       PROVE  Dynamic(given[p].path) = {}
  <2>1. place[p] <= place[q] BY <1>8, <1>10 DEF Lists
  <2>2. PICK a : a = place[p] OBVIOUS
  <2>3. PICK b : b = place[q] OBVIOUS
  <2>4. a \in 1 .. n /\ b \in 1 .. n /\ s[a] \in ToSet(c.handlers) /\ s[b] \in ToSet(c.handlers) BY <1>2, <1>9, <2>2, <2>3
  <2>5. Dynamic(c.prefix) = {} /\ Dynamic(s[b].path) = {} BY <1>9, <1>10, <2>3, <2>4, PathsListed
  <2>6. Dynamic(s[a].path) = {}
    <3>1. CASE a = b BY <3>1, <2>5
    <3>2. CASE a # b
      <4>1. a < b BY <2>1, <2>2, <2>3, <2>4, <3>2
      <4>2. ~Before(s[b], s[a]) BY <1>2, <2>4, <4>1
      <4>3. s[a].path \in Seq(DOMAIN Length) /\ s[b].path \in Seq(DOMAIN Length) BY <2>4 DEF Known, HandlersApart
      <4>4. Cardinality(Dynamic(s[b].path)) = 0 /\ Cardinality(Dynamic(s[a].path)) \in Nat BY <2>5, <4>3, DynamicCounted
      <4>5. Cardinality(Dynamic(s[a].path)) = 0 BY <4>2, <4>4 DEF Before
      <4>6. QED BY <4>3, <4>5, DynamicCounted
    <3>3. QED BY <3>1, <3>2
  <2>7. QED BY <1>9, <2>2, <2>4, <2>5, <2>6, PathsListed
<1>11. QED BY <1>6, <1>8, <1>10 DEF StaticFirst

\* The routes of the controllers done so far, of each those without parameters
\* first; and a request was served by the first that matched it.
AnyRoute == UNION {RoutesFrom(app[c]) : c \in 1 .. Len(app)}
Fits(route, wish) == Matches(route.path, wish.path) /\ route.method \in {"ALL", wish.method}
ServedBy(i) ==
  /\ served.route[1] = routes[i] /\ \A j \in 1 .. i - 1 : ~Fits(routes[j], wanted)
  /\ VersionServed(routes[i], wanted) /\ HostServed(routes[i], wanted)

Registered ==
  /\ app \in RoutedApps /\ versioning \in Versionings /\ done \in 0 .. Len(app)
  /\ routes \in Seq(AnyRoute) /\ StaticFirst(routes)
  /\ \A p \in 1 .. Len(routes) : \E c \in 1 .. done : routes[p].controller = app[c].name
RoutesInv ==
  /\ Registered
  /\ served.route # <<>> => done = Len(app) /\ wanted \in Wanted /\ \E i \in 1 .. Len(routes) : ServedBy(i)

LEMMA RoutesStart == RoutesInit => RoutesInv
<1> SUFFICES ASSUME RoutesInit PROVE RoutesInv OBVIOUS
<1>1. app \in RoutedApps /\ versioning \in Versionings /\ routes = <<>> /\ done = 0 /\ served.route = <<>>
  BY DEF RoutesInit, Unserved
<1>2. Len(app) \in Nat BY <1>1, AppKnown
<1>3. Len(routes) = 0 /\ 1 .. 0 = {} BY <1>1
<1>4. routes \in Seq(AnyRoute) BY <1>1
<1>5. QED BY <1>1, <1>2, <1>3, <1>4 DEF RoutesInv, Registered, StaticFirst

LEMMA AnyRouteSame == ASSUME UNCHANGED <<app, versioning>> PROVE AnyRoute' = AnyRoute
BY DEF AnyRoute, RoutesFrom, RouteOf, PathsOf, Declared, ByUri

LEMMA RegisterKeeps == ASSUME RoutesInv, Register PROVE RoutesInv'
<1>1. /\ app \in RoutedApps /\ versioning \in Versionings /\ done \in 0 .. Len(app) /\ routes \in Seq(AnyRoute)
      /\ done < Len(app) /\ UNCHANGED <<app, versioning, wanted>> /\ served.route = <<>>
  BY DEF RoutesInv, Registered, Register
<1>2. Len(app) \in Nat /\ done + 1 \in 1 .. Len(app) /\ done + 1 \in 0 .. Len(app) /\ Len(app) \in 0 .. Len(app) BY <1>1, AppKnown
<1>3. PICK new : new = RoutesOf(app[done + 1]) OBVIOUS
<1>4. new \in Seq(RoutesFrom(app[done + 1])) /\ StaticFirst(new)
  <2>1. Known(app[done + 1]) BY <1>1, <1>2, AppKnown
  <2>2. QED BY <1>1, <1>3, <2>1, RoutesListed
<1>5. AnyRoute' = AnyRoute BY <1>1, AnyRouteSame
<1>6. CASE UNCHANGED routes /\ done' = Len(app) /\ served' = [status |-> 500, route |-> <<>>]
  <2>1. \A p \in 1 .. Len(routes) : \E c \in 1 .. Len(app) : routes[p].controller = app[c].name
    <3>1. 1 .. done \subseteq 1 .. Len(app) BY <1>1, <1>2
    <3>2. QED BY <3>1 DEF RoutesInv, Registered
  <2>2. served'.route = <<>> BY <1>6
  <2>3. StaticFirst(routes') BY <1>6 DEF RoutesInv, Registered
  <2>4. Registered' BY <1>1, <1>2, <1>5, <1>6, <2>1, <2>3 DEF Registered
  <2>5. QED BY <2>2, <2>4 DEF RoutesInv
<1>7. CASE routes' = routes \o new /\ done' = done + 1 /\ UNCHANGED served
  <2>1. RoutesFrom(app[done + 1]) \subseteq AnyRoute BY <1>2 DEF AnyRoute
  <2>2. new \in Seq(AnyRoute) BY <1>4, <2>1, SeqMonotonic
  <2>3. PICK m \in Nat : m = Len(routes) BY <1>1, LenProperties
  <2>4. PICK k \in Nat : k = Len(new) BY <2>2, LenProperties
  <2>5. /\ routes' \in Seq(AnyRoute) /\ Len(routes') = m + k
        /\ \A p \in 1 .. m + k : routes'[p] = IF p <= m THEN routes[p] ELSE new[p - m]
    BY <1>1, <1>7, <2>2, <2>3, <2>4, ConcatProperties
  <2>6. \A p \in 1 .. m + k : /\ p <= m => p \in 1 .. m
                              /\ ~(p <= m) => p - m \in 1 .. k
    OBVIOUS
  <2>7. \A p \in 1 .. k : new[p].controller = app[done + 1].name
    <3>1. ASSUME NEW p \in 1 .. k PROVE new[p].controller = app[done + 1].name
      <4>1. new[p] \in RoutesFrom(app[done + 1]) BY <1>4, <2>4, ElementOfSeq
      <4>2. PICK h, path : new[p] = RouteOf(app[done + 1], h, path) BY <4>1 DEF RoutesFrom
      <4>3. QED BY <4>2 DEF RouteOf
    <3>2. QED BY <3>1
  <2>8. \A p \in 1 .. m : \E c \in 1 .. done : routes[p].controller = app[c].name BY <2>3 DEF RoutesInv, Registered
  <2>9. \A p \in 1 .. m : routes[p].controller # app[done + 1].name
    <3>1. \A c \in 1 .. done : c \in 1 .. Len(app) /\ c # done + 1 BY <1>1, <1>2
    <3>2. \A c \in 1 .. done : app[c].name # app[done + 1].name BY <1>1, <1>2, <3>1, AppKnown
    <3>3. QED BY <2>8, <3>2
  <2>10. StaticFirst(routes')
    <3>1. ASSUME NEW p \in 1 .. m + k, NEW q \in 1 .. m + k, p < q,
                 routes'[p].controller = routes'[q].controller, Dynamic(routes'[q].path) = {}
          PROVE  Dynamic(routes'[p].path) = {}
      <4>1. CASE q <= m
        <5>1. p <= m /\ p \in 1 .. m /\ q \in 1 .. m BY <3>1, <4>1
        <5>2. routes'[p] = routes[p] /\ routes'[q] = routes[q] BY <4>1, <5>1, <2>5
        <5>3. StaticFirst(routes) BY DEF RoutesInv, Registered
        <5>4. QED BY <5>1, <5>2, <5>3, <3>1, <2>3 DEF StaticFirst
      <4>2. CASE ~(q <= m) /\ p <= m
        <5>1. routes'[p] = routes[p] /\ routes'[q] = new[q - m] /\ p \in 1 .. m /\ q - m \in 1 .. k BY <4>2, <2>5, <2>6
        <5>2. QED BY <5>1, <3>1, <2>7, <2>9
      <4>3. CASE ~(q <= m) /\ ~(p <= m)
        <5>1. /\ routes'[p] = new[p - m] /\ routes'[q] = new[q - m]
              /\ p - m \in 1 .. k /\ q - m \in 1 .. k /\ p - m < q - m
          BY <3>1, <4>3, <2>5, <2>6
        <5>2. QED BY <5>1, <1>4, <3>1, <2>4 DEF StaticFirst
      <4>4. QED BY <4>1, <4>2, <4>3
    <3>2. QED BY <3>1, <2>5 DEF StaticFirst
  <2>11. \A p \in 1 .. m + k : \E c \in 1 .. done + 1 : routes'[p].controller = app[c].name
    <3>1. 1 .. done \subseteq 1 .. done + 1 /\ done + 1 \in 1 .. done + 1 BY <1>1, <1>2
    <3>2. QED BY <3>1, <2>5, <2>6, <2>7, <2>8
  <2>12. Registered' BY <1>1, <1>2, <1>5, <1>7, <2>5, <2>10, <2>11 DEF Registered
  <2>13. served'.route = <<>> BY <1>1, <1>7
  <2>14. QED BY <2>12, <2>13 DEF RoutesInv
<1>8. QED BY <1>3, <1>6, <1>7 DEF Register

LEMMA DispatchKeeps == ASSUME RoutesInv, Dispatch PROVE RoutesInv'
<1>1. /\ done = Len(app) /\ wanted' \in Wanted /\ UNCHANGED <<app, versioning, routes, done>>
      /\ LET i == First(wanted')
         IN served' = IF i = 0 THEN [status |-> 404, route |-> <<>>]
                      ELSE IF VersionServed(routes[i], wanted') /\ HostServed(routes[i], wanted')
                      THEN [status |-> 200, route |-> <<routes[i]>>]
                      ELSE [status |-> 404, route |-> <<>>]
  BY DEF Dispatch
<1>2. Registered'
  <2>1. AnyRoute' = AnyRoute BY <1>1, AnyRouteSame
  <2>2. QED BY <1>1, <2>1 DEF RoutesInv, Registered
<1>3. PICK w : w = wanted' OBVIOUS
<1>4. PICK i : i = First(w) OBVIOUS
<1>5. PICK n \in Nat : n = Len(routes) BY LenProperties DEF RoutesInv, Registered
<1>6. i # 0 => i \in 1 .. n /\ \A j \in 1 .. i - 1 : ~Fits(routes[j], w)
  <2>1. PICK I : I = {j \in 1 .. n : Fits(routes[j], w)} OBVIOUS
  <2>2. i = IF I # {} THEN Min(I) ELSE 0 BY <1>4, <1>5, <2>1 DEF First, SelectInSeq, Fits
  <2>3. CASE I # {}
    <3>1. I \subseteq Nat /\ I \subseteq 1 .. n BY <2>1
    <3>2. PICK x \in I : \A y \in I : x <= y BY <2>3, <3>1, LeastNumber
    <3>3. Min(I) \in I /\ \A y \in I : Min(I) <= y BY <3>2 DEF Min
    <3>4. i \in I /\ \A y \in I : i <= y BY <2>2, <2>3, <3>3
    <3>5. \A j \in 1 .. i - 1 : j \notin I /\ j \in 1 .. n BY <3>1, <3>4
    <3>6. QED BY <2>1, <3>1, <3>4, <3>5
  <2>4. QED BY <2>2, <2>3
<1>a. served' = IF i = 0 THEN [status |-> 404, route |-> <<>>]
                 ELSE IF VersionServed(routes[i], w) /\ HostServed(routes[i], w)
                 THEN [status |-> 200, route |-> <<routes[i]>>]
                 ELSE [status |-> 404, route |-> <<>>]
  BY <1>1, <1>3, <1>4
<1>7. CASE i # 0 /\ VersionServed(routes[i], w) /\ HostServed(routes[i], w)
  <2>0. VersionServed(routes[i], w)' /\ HostServed(routes[i], w)' BY <1>1, <1>7 DEF VersionServed, HostServed, ByUri
  <2>1. served'.route = <<routes[i]>> BY <1>7, <1>a
  <2>2. i \in 1 .. Len(routes') /\ ServedBy(i)' BY <1>1, <1>3, <1>5, <1>6, <1>7, <2>0, <2>1 DEF ServedBy
  <2>3. QED BY <1>1, <1>2, <2>2 DEF RoutesInv
<1>8. CASE ~(i # 0 /\ VersionServed(routes[i], w) /\ HostServed(routes[i], w))
  <2>1. served'.route = <<>> BY <1>8, <1>a
  <2>2. QED BY <1>2, <2>1 DEF RoutesInv
<1>9. QED BY <1>7, <1>8

LEMMA RoutesStep == ASSUME RoutesInv, [RoutesNext]_routeVars PROVE RoutesInv'
<1>1. CASE Register BY <1>1, RegisterKeeps
<1>2. CASE Dispatch BY <1>2, DispatchKeeps
<1>3. CASE Forget \/ UNCHANGED routeVars
  <2>1. UNCHANGED <<app, versioning, routes, done>> /\ (served'.route = <<>> \/ UNCHANGED <<wanted, served>>)
    BY <1>3 DEF Forget, routeVars, Unserved
  <2>2. Registered'
    <3>1. AnyRoute' = AnyRoute BY <2>1, AnyRouteSame
    <3>2. QED BY <2>1, <3>1 DEF RoutesInv, Registered
  <2>3. CASE served'.route = <<>> BY <2>2, <2>3 DEF RoutesInv
  <2>4. CASE UNCHANGED <<wanted, served>>
    BY <2>1, <2>2, <2>4 DEF RoutesInv, ServedBy, VersionServed, HostServed, ByUri
  <2>5. QED BY <2>1, <2>3, <2>4
<1>4. QED BY <1>1, <1>2, <1>3 DEF RoutesNext

LEMMA RouteShown == RoutesInv => RouteServes
<1> SUFFICES ASSUME RoutesInv, served.route # <<>>
    PROVE  LET route == served.route[1]
           IN /\ \A r \in ToSet(routes) :
                   r.controller = route.controller /\ r.path = wanted.path /\ r.method \in {"ALL", wanted.method}
                     => Dynamic(route.path) = {}
              /\ ~ByUri /\ route.versions \notin {{}, {"neutral"}} => wanted.versions \cap route.versions # {}
              /\ route.host \in {"", wanted.host}
  BY DEF RouteServes
<1>1. /\ app \in RoutedApps /\ wanted \in Wanted /\ StaticFirst(routes) /\ routes \in Seq(AnyRoute)
      /\ \E i \in 1 .. Len(routes) : ServedBy(i)
  BY DEF RoutesInv, Registered
<1>2. PICK i \in 1 .. Len(routes) : ServedBy(i) BY <1>1
<1>3. PICK n \in Nat : n = Len(routes) /\ DOMAIN routes = 1 .. n BY <1>1, LenProperties
<1>4. PICK route : route = served.route[1] OBVIOUS
<1>5. route = routes[i] BY <1>2, <1>4 DEF ServedBy
<1>6. ASSUME NEW r \in ToSet(routes), r.controller = route.controller, r.path = wanted.path, r.method \in {"ALL", wanted.method}
      PROVE  Dynamic(route.path) = {}
  <2>1. PICK j \in 1 .. n : r = routes[j] BY <1>3 DEF ToSet
  <2>2. r.path \in Seq(Plain) BY <1>1, <1>6, RoutesAssumption
  <2>3. r.path \in Seq(DOMAIN Length)
    <3>1. Plain \subseteq DOMAIN Length BY DEF Plain
    <3>2. QED BY <2>2, <3>1, SeqMonotonic
  <2>4. Dynamic(r.path) = {}
    <3>1. \A k \in 1 .. Len(r.path) : r.path[k] \in Plain BY <2>2, ElementOfSeq
    <3>2. QED BY <2>3, <3>1, DynamicCounted DEF Plain
  <2>5. Fits(r, wanted) BY <1>6 DEF Fits, Matches
  <2>6. ~(j \in 1 .. i - 1) BY <1>2, <2>1, <2>5 DEF ServedBy
  <2>7. j = i \/ i < j BY <1>2, <1>3, <2>1, <2>6
  <2>8. CASE j = i BY <2>8, <2>1, <2>4, <1>5
  <2>9. CASE i < j BY <2>9, <2>1, <2>4, <1>1, <1>2, <1>3, <1>5, <1>6 DEF StaticFirst
  <2>10. QED BY <2>7, <2>8, <2>9
<1>7. route.host \in {"", wanted.host} BY <1>2, <1>5 DEF ServedBy, HostServed
<1>8. ASSUME ~ByUri, route.versions \notin {{}, {"neutral"}} PROVE wanted.versions \cap route.versions # {}
  <2>1. VersionServed(route, wanted) BY <1>2, <1>5 DEF ServedBy
  <2>2. "neutral" \in route.versions => route.versions = {"neutral"}
    <3>1. route \in AnyRoute BY <1>1, <1>2, <1>5, ElementOfSeq
    <3>2. PICK c \in 1 .. Len(app) : route \in RoutesFrom(app[c]) BY <3>1 DEF AnyRoute
    <3>3. PICK h \in ToSet(app[c].handlers) : \E p : route = RouteOf(app[c], h, p) BY <3>2 DEF RoutesFrom
    <3>4. route.versions = Declared(app[c], h) BY <3>3 DEF RouteOf
    <3>5. Known(app[c]) BY <1>1, AppKnown
    <3>6. QED BY <3>4, <3>5 DEF Known, Declared
  <2>3. QED BY <1>8, <2>1, <2>2 DEF VersionServed
<1>9. QED BY <1>4, <1>6, <1>7, <1>8

-----------------------------------------------------------------------------
\* Of every state of the composed specification: a request is served by the right
\* route, and an upload's handler has its files.
ServedInv == /\ UploadInv
             /\ part = "routes" => RoutesInv
             /\ part # "routes" => served = Unserved

\* For any controllers, handlers, versions and requests: a request for a path
\* without parameters is not taken by a route of that controller with one, and no
\* handler serves a version or a host that is not its own (adapter.py:219); and for
\* any requests that upload at once, of any files: a handler sees files within the
\* limits, each under its path as it was sent, or, under the client's name, one that
\* was sent under that name (upload.py:342).
THEOREM RequestsServedAlways == Spec => []RequestsServed
<1>1. Init => ServedInv
  <2> SUFFICES ASSUME Init PROVE ServedInv OBVIOUS
  <2>1. UploadInv BY UploadStarts DEF Init
  <2>2. part = "routes" => RoutesInv BY RoutesStart DEF Init
  <2>3. part # "routes" => served = Unserved BY DEF Init
  <2>4. QED BY <2>1, <2>2, <2>3 DEF ServedInv
<1>2. ServedInv /\ [Next]_webVars => ServedInv'
  <2> SUFFICES ASSUME ServedInv, [Next]_webVars PROVE ServedInv' OBVIOUS
  <2>1. [UploadNext]_uploadVars BY DEF Next, Only, webVars
  <2>2. part' = part BY DEF Next, Only, webVars
  <2>3. part = "routes" => [RoutesNext]_routeVars BY DEF Next, Only, webVars
  <2>4. part # "routes" => UNCHANGED routeVars BY DEF Next, Only, webVars
  <2>5. UploadInv' BY <2>1, UploadStep DEF ServedInv
  <2>6. part = "routes" => RoutesInv' BY <2>3, RoutesStep DEF ServedInv
  <2>7. part # "routes" => served' = Unserved' BY <2>4 DEF ServedInv, routeVars, Unserved
  <2>8. QED BY <2>2, <2>5, <2>6, <2>7 DEF ServedInv
<1>3. ServedInv => RequestsServed
  <2> SUFFICES ASSUME ServedInv PROVE RequestsServed OBVIOUS
  <2>1. StoredAsSent BY UploadShown DEF ServedInv
  <2>2. CASE part = "routes" BY <2>2, RouteShown, <2>1 DEF ServedInv, RequestsServed
  <2>3. CASE part # "routes"
    <3>1. served.route = <<>> BY <2>3 DEF ServedInv, Unserved
    <3>2. QED BY <3>1, <2>1 DEF RouteServes, RequestsServed
  <2>4. QED BY <2>2, <2>3
<1>4. QED BY <1>1, <1>2, <1>3, PTL DEF Spec
=============================================================================
