--------------------------- MODULE JobQueue_proofs ---------------------------
(* Theorems about JobQueue, for every value of its constants. *)
EXTENDS JobQueue, WellFoundedInduction, TLAPS

\* The job an add() builds has the type of a job.
LEMMA NewJobType ==
  ASSUME added \in 0..MaxAdds, added < MaxAdds,
         NEW q \in Queues, NEW i \in Ids, NEW m \in 1..MaxAttempts, NEW bo \in Backoffs
  PROVE  NewJob(q, i, m, bo) \in Jobs /\ NewJob(q, i, m, bo).id = i
<1>1. MaxAdds \in Nat BY QueueAssumption
<1>2. added + 1 \in 1..MaxAdds BY <1>1
<1>3. QED BY <1>2 DEF NewJob, Jobs

\* The key of a typed job is a key.
LEMMA KeyType == \A j \in Jobs : Key(j) \in Keys
  BY DEF Jobs, Key, Keys

\* What a typed backend and task table are.
BackendType(b) == \A e \in b : Key(e) \in Keys /\ e.status \in Statuses
Records == [pc: PCs, job: Jobs \cup {NoJob}, hi: Nat, attempt: Nat, waits: SUBSET Workers]

\* backend.add and backend.update keep the backend typed.
LEMMA BackendTyped ==
  ASSUME NEW b, BackendType(b), NEW j \in Jobs, NEW s \in Statuses
  PROVE  BackendType(BackendAdd(b, j)) /\ BackendType(BackendUpdate(b, j, s))
<1>1. \A p : Key(Entry(p, j, s)) = Key(j) /\ Entry(p, j, s).status = s
  BY DEF Key, Entry
<1>2. \A p : Key(Entry(p, j, "waiting")) = Key(j) /\ Entry(p, j, "waiting").status = "waiting"
  BY DEF Key, Entry
<1>3. Key(j) \in Keys BY KeyType
<1>4. BackendType(BackendAdd(b, j))
  BY <1>2, <1>3 DEF BackendType, BackendAdd, Statuses
<1>5. BackendType(BackendUpdate(b, j, s))
  BY <1>1, <1>3 DEF BackendType, BackendUpdate
<1>6. QED BY <1>4, <1>5

\* A task table whose entry t becomes a well-formed record stays well formed.
TaskType(tk) ==
  /\ tk \in [Tasks -> Records]
  /\ \A t \in Tasks : tk[t].pc \in {"created", "sleeping"} => tk[t].job \in Jobs
  /\ \A t \in Tasks : tk[t].pc \in {"handler", "backoff"} =>
       /\ tk[t].job \in Jobs
       /\ tk[t].hi \in 1..Len(handlers[tk[t].job.queue])
       /\ tk[t].attempt \in 1..tk[t].job.max
       /\ tk[t].pc = "backoff" => tk[t].attempt < tk[t].job.max

\* TypeOK in parts that the lemmas below speak of.
TypeInv ==
  /\ handlers \in [Queues -> Seq(Handlers)]
  /\ BackendType(backend)
  /\ active \subseteq Keys /\ delayed \subseteq Keys
  /\ completed \subseteq Jobs /\ failed \subseteq Jobs /\ deadLetter \subseteq Jobs
  /\ attempts \in [Keys -> [ok: Nat, bad: Nat]]
  /\ background \subseteq Workers /\ cancelled \subseteq Workers
  /\ TaskType(task)
  /\ used \subseteq Ids /\ added \in 0..MaxAdds /\ retries \in 0..MaxRetries

LEMMA TypeInvIsTypeOK == TypeInv <=> TypeOK
  BY DEF TypeInv, TypeOK, TaskType, Records, BackendType, Running

LEMMA SuspendedType ==
  ASSUME NEW pc \in PCs, NEW j \in Jobs \cup {NoJob}, NEW h \in Nat, NEW a \in Nat,
         NEW ws \in SUBSET Workers
  PROVE  /\ Suspended(pc, j, h, a, ws) \in Records
         /\ Suspended(pc, j, h, a, ws).pc = pc /\ Suspended(pc, j, h, a, ws).job = j
         /\ Suspended(pc, j, h, a, ws).hi = h /\ Suspended(pc, j, h, a, ws).attempt = a
  BY DEF Suspended, Records

LEMMA ReturnedType ==
  ASSUME NEW t \in Tasks
  PROVE  Returned(t) \in Records /\ Returned(t).pc \in {"idle", "ended"}
  BY DEF Returned, Idle, Suspended, Records, PCs

\* Replacing one entry of the task table.
LEMMA TaskUpdate ==
  ASSUME TaskType(task), NEW t \in Tasks, NEW r \in Records,
         r.pc \in {"created", "sleeping", "handler", "backoff"} => r.job \in Jobs,
         r.pc \in {"handler", "backoff"} =>
           /\ r.hi \in 1..Len(handlers[r.job.queue])
           /\ r.attempt \in 1..r.job.max
           /\ r.pc = "backoff" => r.attempt < r.job.max
  PROVE  TaskType([task EXCEPT ![t] = r])
  BY DEF TaskType

\* The next attempt of the same handler.
LEMMA BackoffType ==
  ASSUME TaskType(task), NEW t \in Tasks, task[t].pc = "backoff"
  PROVE  TaskType([task EXCEPT ![t] =
                     Suspended("handler", @.job, @.hi, @.attempt + 1, {})])
<1>. DEFINE r == Suspended("handler", task[t].job, task[t].hi, task[t].attempt + 1, {})
<1>1. /\ task[t].job \in Jobs /\ task[t].hi \in 1..Len(handlers[task[t].job.queue])
      /\ task[t].hi \in Nat /\ task[t].attempt \in Nat
      /\ task[t].attempt < task[t].job.max /\ task[t].job.max \in Nat
  BY DEF TaskType, Records, Jobs
<1>. task[t].attempt + 1 \in 1..task[t].job.max BY <1>1
<1>2. /\ r \in Records /\ r.pc = "handler" /\ r.job = task[t].job
      /\ r.hi = task[t].hi /\ r.attempt = task[t].attempt + 1
  BY <1>1, SuspendedType DEF PCs
<1>. HIDE DEF r
<1>3. TaskType([task EXCEPT ![t] = r]) BY <1>1, <1>2, TaskUpdate
<1>4. QED BY <1>3 DEF r

LEMMA DispatchType ==
  ASSUME TypeInv, NEW t \in Tasks, NEW j \in Jobs, NEW b, BackendType(b), Dispatch(t, j, b)
  PROVE  TaskType(task') /\ BackendType(backend') /\ active' \subseteq Keys
<1>. USE DEF TypeInv
<1>1. CASE handlers[j.queue] = <<>>
  BY <1>1, ReturnedType, TaskUpdate DEF Dispatch
<1>2. CASE handlers[j.queue] # <<>>
  <2>1. handlers[j.queue] \in Seq(Handlers) /\ j.max \in Nat \ {0} BY DEF Jobs
  <2>2. 1 \in 1..Len(handlers[j.queue]) /\ 1 \in 1..j.max BY <1>2, <2>1
  <2>3. "handler" \in PCs /\ "active" \in Statuses BY DEF PCs, Statuses
  <2>4. TaskType(task')
    <3>. DEFINE r == Suspended("handler", j, 1, 1, {})
    <3>1. /\ r \in Records /\ r.pc = "handler"
          /\ r.job = j /\ r.hi = 1 /\ r.attempt = 1
      BY <2>3, SuspendedType
    <3>2. task' = [task EXCEPT ![t] = r] BY <1>2 DEF Dispatch
    <3>. HIDE DEF r
    <3>3. QED BY <3>1, <3>2, <2>2, TaskUpdate
  <2>5. BackendType(backend')
    BY <1>2, <2>3, BackendTyped DEF Dispatch
  <2>6. active' \subseteq Keys
    BY <1>2, KeyType DEF Dispatch
  <2>7. QED BY <2>4, <2>5, <2>6
<1>3. QED BY <1>1, <1>2

\* TypeOK is an invariant: the books hold typed keys and jobs, and a running
\* task is at an existing handler and a legal attempt.
THEOREM TypeCorrect == Spec => []TypeOK
<1>1. Init => TypeInv
  <2>1. Idle \in Records /\ Idle.pc = "idle" BY DEF Idle, Suspended, Records, PCs
  <2>2. QED BY <2>1, QueueAssumption DEF Init, TypeInv, BackendType, TaskType
<1>2. TypeInv /\ [Next]_vars => TypeInv'
  <2>. SUFFICES ASSUME TypeInv, [Next]_vars PROVE TypeInv' OBVIOUS
  <2>. USE DEF TypeInv
  <2>1. ASSUME NEW t \in Callers, NEW j \in Jobs, added < MaxAdds, Add(t, j) PROVE TypeInv'
    <3>1. BackendType(BackendAdd(backend, j)) BY BackendTyped DEF Statuses
    <3>2. t \in Tasks /\ Dispatch(t, j, BackendAdd(backend, j)) BY <2>1 DEF Add, Tasks
    <3>3. TaskType(task') /\ BackendType(backend') /\ active' \subseteq Keys
      BY <3>1, <3>2, DispatchType
    <3>4. j.id \in Ids /\ added + 1 \in 0..MaxAdds BY <2>1, QueueAssumption DEF Jobs
    <3>5. QED BY <2>1, <3>3, <3>4 DEF Add, TaskType
  <2>2. ASSUME NEW w \in Workers, NEW j \in Jobs, added < MaxAdds, AddDelayed(w, j)
        PROVE TypeInv'
    <3>1. BackendType(BackendAdd(backend, j)) BY BackendTyped DEF Statuses
    <3>2. BackendType(backend')
      BY <2>2, <3>1, BackendTyped DEF AddDelayed, Statuses
    <3>3. TaskType(task')
      <4>. DEFINE r == Suspended("created", j, 0, 0, {})
      <4>1. r \in Records /\ r.pc = "created" /\ r.job = j BY SuspendedType DEF PCs
      <4>2. w \in Tasks /\ task' = [task EXCEPT ![w] = r] BY <2>2 DEF AddDelayed, Tasks
      <4>. HIDE DEF r
      <4>3. QED BY <4>1, <4>2, TaskUpdate
    <3>4. j.id \in Ids /\ added + 1 \in 0..MaxAdds BY <2>2, QueueAssumption DEF Jobs
    <3>5. QED BY <2>2, <3>2, <3>3, <3>4, KeyType DEF AddDelayed, TaskType
  <2>3. ASSUME NEW q \in Queues, NEW h \in Handlers, Register(q, h) PROVE TypeInv'
    <3>1. handlers' \in [Queues -> Seq(Handlers)] BY <2>3 DEF Register
    <3>2. \A p \in Queues : Len(handlers[p]) \in Nat /\ Len(handlers'[p]) \in Nat
                         /\ Len(handlers'[p]) >= Len(handlers[p])
      <4>. SUFFICES ASSUME NEW p \in Queues
                    PROVE Len(handlers[p]) \in Nat /\ Len(handlers'[p]) \in Nat
                          /\ Len(handlers'[p]) >= Len(handlers[p]) OBVIOUS
      <4>1. handlers[p] \in Seq(Handlers) OBVIOUS
      <4>2. CASE p = q
        <5>1. handlers'[p] = Append(handlers[p], h) BY <2>3, <4>2 DEF Register
        <5>2. QED BY <4>1, <5>1
      <4>3. CASE p # q
        <5>1. handlers'[p] = handlers[p] BY <2>3, <4>3 DEF Register
        <5>2. QED BY <4>1, <5>1
      <4>4. QED BY <4>2, <4>3
    <3>3. TaskType(task)' BY <2>3, <3>2 DEF Register, TaskType, Jobs
    <3>4. QED BY <2>3, <3>1, <3>3 DEF Register
  <2>4. ASSUME NEW t \in Callers, NEW j \in failed, RetryFailed(t, j) PROVE TypeInv'
    <3>1. t \in Tasks /\ j \in Jobs /\ Dispatch(t, j, backend) BY <2>4 DEF RetryFailed, Tasks
    <3>2. TaskType(task') /\ BackendType(backend') /\ active' \subseteq Keys
      BY <3>1, DispatchType
    <3>3. retries' \in 0..MaxRetries BY <2>4, QueueAssumption DEF RetryFailed
    <3>4. QED BY <2>4, <3>2, <3>3 DEF RetryFailed, WithoutRetried, WithoutDead, TaskType
  <2>5. ASSUME NEW books, NEW qs, Clean(books, qs) PROVE TypeInv'
    <3>1. BackendType(backend') BY <2>5 DEF Clean, BackendRemove, BackendType
    <3>2. attempts' \in [Keys -> [ok: Nat, bad: Nat]] BY <2>5 DEF Clean
    <3>3. completed' \subseteq Jobs /\ failed' \subseteq Jobs /\ deadLetter' \subseteq Jobs
      BY <2>5 DEF Clean
    <3>4. QED BY <2>5, <3>1, <3>2, <3>3 DEF Clean, TaskType
  <2>6. ASSUME Clear PROVE TypeInv'
    BY <2>6 DEF Clear, BackendType, TaskType, Cancellable
  <2>7. ASSUME NEW t \in Callers, Close(t) PROVE TypeInv'
    <3>1. TaskType(task')
      <4>. DEFINE r == Suspended("closing", NoJob, 0, 0, background)
      <4>1. r \in Records /\ r.pc = "closing" BY DEF Suspended, Records, PCs
      <4>2. t \in Tasks /\ task' = [task EXCEPT ![t] = r] BY <2>7 DEF Close, Tasks
      <4>. HIDE DEF r
      <4>3. QED BY <4>1, <4>2, TaskUpdate
    <3>2. QED BY <2>7, <3>1 DEF Close, TaskType, Cancellable
  <2>8. ASSUME NEW t \in Tasks, WaitLoop(t) PROVE TypeInv'
    <3>1. TaskType(task')
      <4>1. Idle \in Records /\ Idle.pc = "idle" BY DEF Idle, Suspended, Records, PCs
      <4>. DEFINE r == Suspended("waiting", NoJob, 0, 0, background)
      <4>2. r \in Records /\ r.pc = "waiting" BY DEF Suspended, Records, PCs
      <4>3. task' = [task EXCEPT ![t] = IF Quiet THEN Idle ELSE r] BY <2>8 DEF WaitLoop
      <4>. HIDE DEF r
      <4>4. QED BY <4>1, <4>2, <4>3, TaskUpdate
    <3>2. QED BY <2>8, <3>1 DEF WaitLoop, TaskType
  <2>9. ASSUME NEW t \in Tasks, Running(t), NEW s \in Statuses, Finish(t, s)
        PROVE TaskType(task') /\ BackendType(backend') /\ active' \subseteq Keys
    <3>1. task[t].job \in Jobs BY <2>9 DEF TaskType, Running
    <3>2. TaskType(task') BY <2>9, ReturnedType, TaskUpdate DEF Finish
    <3>3. QED BY <2>9, <3>1, <3>2, BackendTyped DEF Finish
  <2>10. \A t \in Tasks : Running(t) => Key(task[t].job) \in Keys
    BY KeyType DEF TaskType, Running
  <2>11. \A k \in Keys : Log(attempts, k, "ok") \in [Keys -> [ok: Nat, bad: Nat]]
                      /\ Log(attempts, k, "bad") \in [Keys -> [ok: Nat, bad: Nat]]
    BY DEF Log
  <2>12. ASSUME NEW t \in Tasks, HandlerOk(t) PROVE TypeInv'
    <3>1. Running(t) BY <2>12 DEF HandlerOk, Running
    <3>2. task[t].job \in Jobs /\ task[t].hi \in Nat BY <3>1 DEF TaskType, Running, Records
    <3>3. attempts' \in [Keys -> [ok: Nat, bad: Nat]]
      BY <2>10, <2>11, <2>12, <3>1 DEF HandlerOk
    <3>4. CASE MoreHandlers(t)
      <4>. DEFINE r == Suspended("handler", task[t].job, task[t].hi + 1, 1, {})
      <4>1. /\ r \in Records /\ r.pc = "handler"
            /\ r.job = task[t].job /\ r.hi = task[t].hi + 1 /\ r.attempt = 1
        BY <3>2, SuspendedType DEF PCs
      <4>2. task' = [task EXCEPT ![t] = r] BY <2>12, <3>4 DEF HandlerOk
      <4>3. task[t].job.max \in Nat \ {0} /\ handlers[task[t].job.queue] \in Seq(Handlers)
        BY <3>2, QueueAssumption DEF Jobs
      <4>4. /\ task[t].hi + 1 \in 1..Len(handlers[task[t].job.queue])
            /\ 1 \in 1..task[t].job.max
        <5>1. Len(handlers[task[t].job.queue]) \in Nat BY <4>3
        <5>2. QED BY <3>2, <3>4, <4>3, <5>1 DEF MoreHandlers
      <4>. HIDE DEF r
      <4>5. TaskType(task') BY <3>2, <4>1, <4>2, <4>4, TaskUpdate
      <4>6. QED BY <2>12, <3>3, <3>4, <4>5 DEF HandlerOk, TaskType
    <3>5. CASE ~MoreHandlers(t)
      <4>1. TaskType(task') /\ BackendType(backend') /\ active' \subseteq Keys
        BY <2>9, <2>12, <3>1, <3>5 DEF HandlerOk, Statuses
      <4>2. QED BY <2>12, <3>2, <3>3, <3>5, <4>1 DEF HandlerOk, TaskType
    <3>6. QED BY <3>4, <3>5
  <2>13. ASSUME NEW t \in Tasks, HandlerRaises(t) PROVE TypeInv'
    <3>1. Running(t) BY <2>13 DEF HandlerRaises, Running
    <3>2. task[t].job \in Jobs BY <3>1 DEF TaskType, Running
    <3>3. attempts' \in [Keys -> [ok: Nat, bad: Nat]]
      BY <2>10, <2>11, <2>13, <3>1 DEF HandlerRaises
    <3>4. CASE MoreAttempts(t)
      <4>. DEFINE r == [task[t] EXCEPT !.pc = "backoff"]
      <4>1. /\ r \in Records /\ r.pc = "backoff" /\ r.job = task[t].job
            /\ r.hi = task[t].hi /\ r.attempt = task[t].attempt
        BY DEF TaskType, Records, PCs
      <4>2. task' = [task EXCEPT ![t] = r] BY <2>13, <3>4 DEF HandlerRaises
      <4>3. /\ r.hi \in 1..Len(handlers[r.job.queue]) /\ r.attempt \in 1..r.job.max
            /\ r.attempt < r.job.max
        BY <3>1, <3>4, <4>1 DEF TaskType, Running, MoreAttempts
      <4>. HIDE DEF r
      <4>4. TaskType(task') BY <3>2, <4>1, <4>2, <4>3, TaskUpdate
      <4>5. QED BY <2>13, <3>3, <3>4, <4>4 DEF HandlerRaises, TaskType
    <3>5. CASE ~MoreAttempts(t)
      <4>1. TaskType(task') /\ BackendType(backend') /\ active' \subseteq Keys
        BY <2>9, <2>13, <3>1, <3>5 DEF HandlerRaises, Statuses
      <4>2. QED BY <2>13, <3>2, <3>3, <3>5, <4>1 DEF HandlerRaises, TaskType
    <3>6. QED BY <3>4, <3>5
  <2>14. ASSUME NEW t \in Tasks, BackoffOver(t) PROVE TypeInv'
    <3>1. Running(t) BY <2>14 DEF BackoffOver, Running
    <3>2. /\ task[t].job \in Jobs /\ task[t].hi \in 1..Len(handlers[task[t].job.queue])
          /\ task[t].hi \in Nat /\ task[t].attempt \in Nat
      BY <3>1 DEF TaskType, Running, Records
    <3>3. TaskType(task')
      BY <2>14, <3>1, <3>2, BackoffType DEF BackoffOver
    <3>4. QED BY <2>14, <3>3 DEF BackoffOver, TaskType
  <2>15. ASSUME NEW w \in Tasks, CancelWorker(w) PROVE TypeInv'
    <3>1. TaskType(task') BY <2>15, ReturnedType, TaskUpdate DEF CancelWorker
    <3>2. QED BY <2>15, <3>1 DEF CancelWorker, TaskType
  <2>16. ASSUME NEW t \in Callers, CancelCaller(t) PROVE TypeInv'
    <3>1. Idle \in Records /\ Idle.pc = "idle" BY DEF Idle, Suspended, Records, PCs
    <3>2. t \in Tasks BY DEF Tasks
    <3>3. TaskType(task') BY <2>16, <3>1, <3>2, TaskUpdate DEF CancelCaller
    <3>4. QED BY <2>16, <3>3 DEF CancelCaller, TaskType
  <2>17. ASSUME NEW t \in Callers, CancelWaiter(t) PROVE TypeInv'
    <3>1. t \in Tasks BY DEF Tasks
    <3>2. cancelled' \subseteq Workers
      BY <2>17, <3>1 DEF CancelWaiter, TaskType, Records
    <3>3. TaskType(task') BY <2>17, <3>1 DEF CancelWaiter, TaskType, Records, PCs
    <3>4. QED BY <2>17, <3>2, <3>3 DEF CancelWaiter, TaskType
  <2>18. ASSUME NEW w \in Tasks, DoneCallback(w) PROVE TypeInv'
    <3>1. Idle \in Records /\ Idle.pc = "idle" BY DEF Idle, Suspended, Records, PCs
    <3>2. TaskType(task') BY <2>18, <3>1 DEF DoneCallback, TaskType, Records
    <3>3. QED BY <2>18, <3>2 DEF DoneCallback, TaskType
  <2>19. ASSUME NEW t \in Tasks, StartSleep(t) PROVE TypeInv'
    <3>1. TaskType(task') BY <2>19 DEF StartSleep, TaskType, Records, PCs
    <3>2. QED BY <2>19, <3>1 DEF StartSleep, TaskType
  <2>20. ASSUME NEW t \in Tasks, DelayOver(t) PROVE TypeInv'
    <3>1. task[t].job \in Jobs /\ Dispatch(t, task[t].job, backend)
      BY <2>20 DEF DelayOver, TaskType
    <3>2. TaskType(task') /\ BackendType(backend') /\ active' \subseteq Keys
      BY <3>1, DispatchType
    <3>3. QED BY <2>20, <3>2 DEF DelayOver, TaskType
  <2>21. ASSUME NEW t \in Tasks, CloseReturns(t) \/ Unwound(t) PROVE TypeInv'
    <3>1. Idle \in Records /\ Idle.pc = "idle" BY DEF Idle, Suspended, Records, PCs
    <3>2. TaskType(task') BY <2>21, <3>1, TaskUpdate DEF CloseReturns, Unwound
    <3>3. QED BY <2>21, <3>2 DEF CloseReturns, Unwound, TaskType
  <2>22. CASE UNCHANGED vars
    BY <2>22 DEF vars, TaskType
  <2>23. CASE SomeAdd
    <3>1. PICK q \in Queues, i \in IdChoices, m \in 1..MaxAttempts, bo \in Backoffs :
            \/ \E t \in Callers : Add(t, NewJob(q, i, m, bo))
            \/ \E w \in Workers : AddDelayed(w, NewJob(q, i, m, bo))
      BY <2>23 DEF SomeAdd
    <3>2. added < MaxAdds /\ i \in Ids BY <2>23 DEF SomeAdd, IdChoices
    <3>3. NewJob(q, i, m, bo) \in Jobs BY <3>2, NewJobType
    <3>4. QED BY <2>1, <2>2, <3>1, <3>2, <3>3
  <2>24. CASE Calls
    BY <2>3, <2>4, <2>5, <2>6, <2>7, <2>8, <2>16, <2>17, <2>23, <2>24
       DEF Calls, WaitUntilIdle, Tasks
  <2>25. ASSUME NEW t \in Tasks, TaskStep(t) PROVE TypeInv'
    BY <2>8, <2>12, <2>13, <2>14, <2>15, <2>18, <2>19, <2>20, <2>21, <2>25
       DEF TaskStep, WaitResumes
  <2>26. QED BY <2>22, <2>24, <2>25 DEF Next
<1>3. TypeInv => TypeOK BY TypeInvIsTypeOK
<1>4. QED BY <1>1, <1>2, <1>3, PTL DEF Spec

-----------------------------------------------------------------------------
\* What a step of task t does to the tasks and to _active: other tasks keep
\* their place; a new entry is of the job t now runs; and if t was running, its
\* entry leaves or t runs on.
OthersKept(t) ==
  \A u \in Tasks \ {t} : task'[u].pc = task[u].pc /\ task'[u].job = task[u].job
Entered(t) ==
  \A k \in active' : k \in active \/ (Running(t)' /\ Key(task'[t].job) = k)
Left(t) ==
  \/ ~Running(t)
  \/ Key(task[t].job) \notin active'
  \/ Running(t)' /\ task'[t].job = task[t].job

LEMMA RunnerKept ==
  ASSUME ActiveHasRunner, NEW t \in Tasks, OthersKept(t), Entered(t), Left(t)
  PROVE  ActiveHasRunner'
<1>. SUFFICES ASSUME NEW k \in active'
              PROVE \E u \in Tasks : Running(u)' /\ Key(task'[u].job) = k
  BY DEF ActiveHasRunner, Running
<1>1. CASE Running(t)' /\ Key(task'[t].job) = k BY <1>1
<1>2. CASE k \in active
  <2>1. PICK u \in Tasks : Running(u) /\ Key(task[u].job) = k BY <1>2 DEF ActiveHasRunner
  <2>2. CASE u = t BY <2>1, <2>2 DEF Left
  <2>3. CASE u # t BY <2>1, <2>3 DEF Running, OthersKept
  <2>4. QED BY <2>2, <2>3
<1>3. QED BY <1>1, <1>2 DEF Entered

\* Every entry of _active belongs to a task that runs that job, whatever the
\* application calls and whichever task is cancelled.
THEOREM ActiveRuns == Spec => []ActiveHasRunner
<1>1. Init => ActiveHasRunner BY DEF Init, ActiveHasRunner
<1>2. TypeInv /\ TypeInv' /\ ActiveHasRunner /\ [Next]_vars => ActiveHasRunner'
  <2>. SUFFICES ASSUME TypeInv, TypeInv', ActiveHasRunner, [Next]_vars
                PROVE ActiveHasRunner' OBVIOUS
  <2>1. task \in [Tasks -> Records] /\ task' \in [Tasks -> Records]
    BY DEF TypeInv, TaskType
  <2>2. ASSUME NEW t \in Tasks, NEW j, NEW b, ~Running(t), Dispatch(t, j, b)
        PROVE ActiveHasRunner'
    <3>1. OthersKept(t) /\ Left(t) BY <2>1, <2>2 DEF Dispatch, OthersKept, Left
    <3>2. CASE handlers[j.queue] = <<>>
      <4>1. Entered(t) BY <2>2, <3>2 DEF Dispatch, Entered
      <4>2. QED BY <2>2, <3>1, <4>1, RunnerKept
    <3>3. CASE handlers[j.queue] # <<>>
      <4>1. active' \subseteq active \cup {Key(j)} BY <2>2, <3>3 DEF Dispatch
      <4>2. Running(t)' /\ task'[t].job = j
        BY <2>1, <2>2, <3>3 DEF Dispatch, Suspended, Running
      <4>3. Entered(t) BY <4>1, <4>2 DEF Entered
      <4>4. QED BY <2>2, <3>1, <4>3, RunnerKept
    <3>4. QED BY <3>2, <3>3
  <2>3. ASSUME NEW t \in Tasks,
               OthersKept(t), active' \subseteq active, Left(t)
        PROVE ActiveHasRunner'
    <3>1. Entered(t) BY <2>3 DEF Entered
    <3>2. QED BY <2>3, <3>1, RunnerKept
  <2>4. CASE UNCHANGED <<task, active>>
    BY <2>4 DEF ActiveHasRunner, Running
  <2>5. CASE SomeAdd
    <3>1. ASSUME NEW t \in Callers, NEW j, Add(t, j) PROVE ActiveHasRunner'
      <4>1. t \in Tasks /\ ~Running(t) /\ Dispatch(t, j, BackendAdd(backend, j))
        BY <3>1 DEF Add, Running, Tasks
      <4>2. QED BY <2>2, <4>1
    <3>2. ASSUME NEW w \in Workers, NEW j, AddDelayed(w, j) PROVE ActiveHasRunner'
      <4>1. w \in Tasks /\ ~Running(w) BY <3>2 DEF AddDelayed, Running, Tasks
      <4>2. QED BY <2>1, <2>3, <3>2, <4>1 DEF OthersKept, Left, AddDelayed
    <3>3. QED BY <2>5, <3>1, <3>2 DEF SomeAdd
  <2>6. ASSUME NEW t \in Callers, NEW j \in failed, RetryFailed(t, j) PROVE ActiveHasRunner'
    <3>1. t \in Tasks /\ ~Running(t) /\ Dispatch(t, j, backend)
      BY <2>6 DEF RetryFailed, Running, Tasks
    <3>2. QED BY <2>2, <3>1
  <2>7. CASE Clear BY <2>7 DEF Clear, ActiveHasRunner
  <2>8. ASSUME NEW t \in Callers, Close(t) \/ CancelWaiter(t) \/ CancelCaller(t)
        PROVE ActiveHasRunner'
    <3>1. t \in Tasks BY DEF Tasks
    <3>2. OthersKept(t)
      BY <2>1, <2>8, <3>1 DEF OthersKept, Close, CancelWaiter, CancelCaller
    <3>3. Left(t)
      BY <2>8 DEF Left, Close, CancelWaiter, CancelCaller, Running
    <3>4. active' \subseteq active BY <2>8 DEF Close, CancelWaiter, CancelCaller
    <3>5. QED BY <2>3, <3>1, <3>2, <3>3, <3>4
  <2>9. ASSUME NEW t \in Tasks, ~Running(t), WaitLoop(t) PROVE ActiveHasRunner'
    BY <2>1, <2>3, <2>9 DEF OthersKept, Left, WaitLoop
  <2>10. ASSUME NEW t \in Tasks, NEW s, Running(t), Finish(t, s) PROVE ActiveHasRunner'
    BY <2>1, <2>3, <2>10 DEF OthersKept, Left, Finish
  <2>11. ASSUME NEW t \in Tasks, HandlerOk(t) PROVE ActiveHasRunner'
    <3>1. Running(t) BY <2>11 DEF HandlerOk, Running
    <3>2. CASE MoreHandlers(t)
      <4>1. Running(t)' /\ task'[t].job = task[t].job
        BY <2>1, <2>11, <3>2 DEF HandlerOk, Suspended, Running
      <4>2. QED BY <2>1, <2>3, <2>11, <3>2, <4>1 DEF OthersKept, Left, HandlerOk
    <3>3. CASE ~MoreHandlers(t) BY <2>10, <2>11, <3>1, <3>3 DEF HandlerOk
    <3>4. QED BY <3>2, <3>3
  <2>12. ASSUME NEW t \in Tasks, HandlerRaises(t) PROVE ActiveHasRunner'
    <3>1. Running(t) BY <2>12 DEF HandlerRaises, Running
    <3>2. CASE MoreAttempts(t)
      <4>1. Running(t)' /\ task'[t].job = task[t].job
        BY <2>1, <2>12, <3>2 DEF HandlerRaises, Running, Records
      <4>2. QED BY <2>1, <2>3, <2>12, <3>2, <4>1 DEF OthersKept, Left, HandlerRaises
    <3>3. CASE ~MoreAttempts(t) BY <2>10, <2>12, <3>1, <3>3 DEF HandlerRaises
    <3>4. QED BY <3>2, <3>3
  <2>13. ASSUME NEW t \in Tasks, BackoffOver(t) PROVE ActiveHasRunner'
    <3>1. Running(t)' /\ task'[t].job = task[t].job
      BY <2>1, <2>13 DEF BackoffOver, Suspended, Running
    <3>2. QED BY <2>1, <2>3, <2>13, <3>1 DEF OthersKept, Left, BackoffOver
  <2>14. ASSUME NEW t \in Tasks, CancelWorker(t) PROVE ActiveHasRunner'
    BY <2>1, <2>3, <2>14 DEF OthersKept, Left, CancelWorker
  <2>15. ASSUME NEW t \in Tasks, DoneCallback(t) PROVE ActiveHasRunner'
    <3>1. OthersKept(t) BY <2>1, <2>15 DEF OthersKept, DoneCallback, Records
    <3>2. Left(t) /\ active' \subseteq active BY <2>15 DEF Left, DoneCallback, Running
    <3>3. QED BY <2>3, <3>1, <3>2
  <2>16. ASSUME NEW t \in Tasks, StartSleep(t) \/ CloseReturns(t) \/ Unwound(t)
         PROVE ActiveHasRunner'
    BY <2>1, <2>3, <2>16 DEF OthersKept, Left, StartSleep, CloseReturns, Unwound, Running
  <2>17. ASSUME NEW t \in Tasks, DelayOver(t) PROVE ActiveHasRunner'
    BY <2>2, <2>17 DEF DelayOver, Running
  <2>18. CASE \E q \in Queues, h \in Handlers : Register(q, h)
    BY <2>4, <2>18 DEF Register
  <2>19. ASSUME NEW books, NEW qs, Clean(books, qs) PROVE ActiveHasRunner'
    BY <2>4, <2>19 DEF Clean
  <2>20. ASSUME NEW t \in Callers, WaitUntilIdle(t) PROVE ActiveHasRunner'
    BY <2>9, <2>20 DEF WaitUntilIdle, Running, Tasks
  <2>21. CASE Calls
    BY <2>5, <2>6, <2>7, <2>8, <2>18, <2>19, <2>20, <2>21 DEF Calls
  <2>22. ASSUME NEW t \in Tasks, TaskStep(t) PROVE ActiveHasRunner'
    <3>1. CASE WaitResumes(t) BY <2>9, <3>1 DEF WaitResumes, Running
    <3>2. QED
      BY <2>11, <2>12, <2>13, <2>14, <2>15, <2>16, <2>17, <2>22, <3>1 DEF TaskStep
  <2>23. CASE UNCHANGED vars BY <2>4, <2>23 DEF vars
  <2>24. QED BY <2>21, <2>22, <2>23 DEF Next
<1>3. Spec => []TypeInv BY TypeCorrect, TypeInvIsTypeOK, PTL
<1>4. QED BY <1>1, <1>2, <1>3, PTL DEF Spec

-----------------------------------------------------------------------------
(* The books, when ids are the queue's own.                                  *)
(*                                                                           *)
(* OneBook is not inductive: it says nothing of the jobs that tasks hold,    *)
(* which HandlerOk files, nor of records with the id of another job, which   *)
(* update() would take.  BooksInv adds both.                                 *)

Holding == {"created", "sleeping", "handler", "backoff"}
Holds(t) == task[t].pc \in Holding
HeldKeys == {Key(task[t].job) : t \in {u \in Tasks : Holds(u)}}
Listed == completed \cup failed
RecordKeys(b) == {Key(e) : e \in b}
Known == RecordKeys(backend) \cup active \cup delayed \cup KeysOf(Listed) \cup HeldKeys

\* Whatever is kept anywhere has an id that was given out, to one key.
IdsTold == \A k \in Known : k[2] \in used /\ \A l \in Known : k[2] = l[2] => k = l

\* No two tasks hold one job, no task holds a filed one, and no two filed jobs
\* have one key.
HeldOnce == \A t, u \in Tasks : Holds(t) /\ Holds(u) /\ Key(task[t].job) = Key(task[u].job) => t = u
HeldUnlisted == \A t \in Tasks : Holds(t) => Key(task[t].job) \notin KeysOf(Listed)
ListedOnce == (\A i, j \in Listed : Key(i) = Key(j) => i = j) /\ completed \cap failed = {}

\* An entry of _delayed is of a job that neither runs nor is filed.
DelayedRests ==
  \A k \in delayed : k \notin KeysOf(Listed) /\ \A t \in Tasks : Running(t) => Key(task[t].job) # k

\* The backend's positions are numbers, its ids are told apart, and the record
\* of a listed job has the status of the list.
RecordsApart(b) ==
  /\ \E n \in Nat : \A e \in b : e.pos \in 1..n
  /\ \A e, f \in b : e.id = f.id => e = f
Recorded(b, k, s) == \E e \in b : Key(e) = k /\ e.status = s
ListedRecorded ==
  /\ \A k \in active : Recorded(backend, k, "active")
  /\ \A k \in delayed : Recorded(backend, k, "delayed")
  /\ \A k \in KeysOf(completed) : Recorded(backend, k, "completed")
  /\ \A k \in KeysOf(failed) : Recorded(backend, k, "failed")

\* A job that runs without being listed, since clear(), has no record either.
UnlistedUnrecorded ==
  \A t \in Tasks : Running(t) /\ Key(task[t].job) \notin active =>
    Key(task[t].job) \notin RecordKeys(backend)

\* A job that failed had a handler, and handlers are not taken back.
FailedHadHandlers == \A j \in failed : handlers[j.queue] # <<>>

\* A cancellation is requested of a task that holds a job, and what is gathered
\* holds one or has just ended.
CancelledHolds == \A w \in cancelled : Holds(w)
GatheredLive ==
  \A w \in Workers : w \in background \/ (\E t \in Tasks : w \in task[t].waits) =>
    task[w].pc \in Holding \cup {"ended"}

\* A running job that is listed has succeeded in every handler before its own.
AttemptsLogged ==
  \A t \in Tasks : Running(t) /\ Key(task[t].job) \in active =>
    attempts[Key(task[t].job)].ok >= task[t].hi - 1

BooksInv ==
  /\ IdsTold /\ HeldOnce /\ HeldUnlisted /\ ListedOnce /\ DelayedRests
  /\ RecordsApart(backend) /\ ListedRecorded /\ UnlistedUnrecorded
  /\ FailedMirrored /\ FailedHadHandlers /\ ActiveHasRunner

\* Only callers wait.
WorkersWork == \A w \in Workers : task[w].pc \in Holding \cup {"idle", "ended"}

TasksInv == CancelledHolds /\ GatheredLive /\ WorkersWork

\* A non-empty set of numbers with a bound has a greatest one.
LEMMA MaxBounded ==
  ASSUME NEW n \in Nat, NEW S \in SUBSET (1..n), S # {}
  PROVE  Max(S) \in S /\ \A x \in S : x <= Max(S)
<1>. DEFINE D == {n - x : x \in S}
<1>1. D \subseteq Nat /\ D # {}
  <2>1. \A x \in S : n - x \in Nat OBVIOUS
  <2>2. QED BY <2>1
<1>2. PICK d \in D : \A y \in D : ~(<<y, d>> \in OpToRel(<, Nat))
  BY <1>1, NatLessThanWellFounded, WFMin
<1>3. \A y \in D : ~(y < d)
  BY <1>1, <1>2 DEF OpToRel
<1>4. \E x \in S : \A y \in S : x >= y
  <2>1. PICK m \in S : d = n - m BY <1>2
  <2>2. \A y \in S : m >= y
    <3>. TAKE y \in S
    <3>1. n - y \in D OBVIOUS
    <3>2. ~(n - y < n - m) BY <3>1, <1>3, <2>1
    <3>3. QED BY <3>2
  <2>3. QED BY <2>2
<1>5. QED BY <1>4 DEF Max

\* The position that backend.add() gives is free and keeps positions numbers.
LEMMA LastPosBounds ==
  ASSUME NEW b, RecordsApart(b)
  PROVE  LastPos(b) \in Nat /\ \A e \in b : e.pos \in 1..LastPos(b)
<1>1. PICK n \in Nat : \A e \in b : e.pos \in 1..n BY DEF RecordsApart
<1>2. CASE b = {} BY <1>2 DEF LastPos
<1>3. CASE b # {}
  <2>. DEFINE S == {e.pos : e \in b}
  <2>1. S \in SUBSET (1..n) /\ S # {}
    <3>1. \A x \in S : x \in 1..n BY <1>1
    <3>2. QED BY <1>3, <3>1
  <2>2. Max(S) \in S /\ \A x \in S : x <= Max(S) BY <2>1, MaxBounded
  <2>3. LastPos(b) = Max(S) BY <1>3 DEF LastPos
  <2>4. LastPos(b) \in 1..n BY <2>1, <2>2, <2>3
  <2>5. ASSUME NEW e \in b PROVE e.pos \in 1..LastPos(b)
    <3>1. e.pos \in S OBVIOUS
    <3>. HIDE DEF S
    <3>2. e.pos <= LastPos(b) BY <2>2, <2>3, <3>1
    <3>3. QED BY <1>1, <2>4, <2>5, <3>2
  <2>6. QED BY <2>4, <2>5
<1>4. QED BY <1>2, <1>3

\* What a backend gains from a record of job j with status s.
Gains(b, c, j, s) ==
  /\ RecordsApart(c)
  /\ RecordKeys(c) = RecordKeys(b) \cup {Key(j)}
  /\ Recorded(c, Key(j), s)
  /\ \A k, r : k # Key(j) /\ Recorded(b, k, r) => Recorded(c, k, r)

LEMMA AppendGains ==
  ASSUME NEW b, RecordsApart(b), NEW j, NEW s, \A e \in b : e.id # j.id
  PROVE  Gains(b, b \cup {Entry(LastPos(b) + 1, j, s)}, j, s)
<1>. DEFINE new == Entry(LastPos(b) + 1, j, s)
            c == b \cup {new}
<1>1. /\ new.pos = LastPos(b) + 1 /\ new.id = j.id /\ new.status = s
      /\ Key(new) = Key(j)
  BY DEF Entry, Key
<1>. HIDE DEF new
<1>2. LastPos(b) \in Nat /\ \A e \in b : e.pos \in 1..LastPos(b) BY LastPosBounds
<1>3. \A e \in c : e.pos \in 1..(LastPos(b) + 1) BY <1>1, <1>2
<1>4. \A e, f \in c : e.id = f.id => e = f BY <1>1 DEF RecordsApart
<1>5. RecordsApart(c)
  <2>1. LastPos(b) + 1 \in Nat BY <1>2
  <2>2. QED BY <2>1, <1>3, <1>4 DEF RecordsApart
<1>6. RecordKeys(c) = RecordKeys(b) \cup {Key(j)} BY <1>1 DEF RecordKeys
<1>7. Recorded(c, Key(j), s) BY <1>1 DEF Recorded
<1>8. \A k, r : Recorded(b, k, r) => Recorded(c, k, r) BY DEF Recorded
<1>9. QED BY <1>5, <1>6, <1>7, <1>8 DEF Gains, new

LEMMA AddGains ==
  ASSUME NEW b, RecordsApart(b), NEW j, \A e \in b : e.id # j.id
  PROVE  Gains(b, BackendAdd(b, j), j, "waiting")
  BY AppendGains DEF BackendAdd

\* backend.update(), when the ids of records stand for one key each.
LEMMA UpdateGains ==
  ASSUME NEW b, RecordsApart(b), NEW j, NEW s, \A e \in b : e.id = j.id => Key(e) = Key(j)
  PROVE  Gains(b, BackendUpdate(b, j, s), j, s)
<1>1. CASE SameRecord(b, j) = {}
  <2>1. \A e \in b : e.id # j.id BY <1>1 DEF SameRecord
  <2>2. BackendUpdate(b, j, s) = b \cup {Entry(LastPos(b) + 1, j, s)}
    BY <1>1 DEF BackendUpdate
  <2>3. QED BY <2>1, <2>2, AppendGains
<1>2. CASE SameRecord(b, j) # {}
  <2>. DEFINE same == SameRecord(b, j)
              first == CHOOSE e \in same : \A f \in same : e.pos <= f.pos
              new == Entry(first.pos, j, s)
              c == (b \ {first}) \cup {new}
  <2>1. PICK e \in b : e.id = j.id BY <1>2 DEF SameRecord
  <2>2. same = {e} BY <2>1 DEF SameRecord, RecordsApart
  <2>3. PICK n \in Nat : \A f \in b : f.pos \in 1..n BY DEF RecordsApart
  <2>4. e.pos \in 1..n /\ e.pos <= e.pos BY <2>1, <2>3
  <2>5. first = e BY <2>2, <2>4
  <2>6. BackendUpdate(b, j, s) = c BY <1>2 DEF BackendUpdate
  <2>7. c = (b \ {e}) \cup {Entry(e.pos, j, s)} BY <2>5
  <2>. HIDE DEF c, new, first, same
  <2>. DEFINE r == Entry(e.pos, j, s)
  <2>8. r.pos = e.pos /\ r.id = j.id /\ r.status = s /\ Key(r) = Key(j)
    BY DEF Entry, Key
  <2>9. c = (b \ {e}) \cup {r} BY <2>7
  <2>. HIDE DEF r
  <2>10. RecordsApart(c)
    <3>1. \A f \in c : f.pos \in 1..n BY <2>3, <2>4, <2>8, <2>9
    <3>2. \A f, g \in c : f.id = g.id => f = g BY <2>1, <2>8, <2>9 DEF RecordsApart
    <3>3. QED BY <3>1, <3>2 DEF RecordsApart
  <2>11. RecordKeys(c) = RecordKeys(b) \cup {Key(j)}
    <3>1. Key(e) = Key(j) BY <2>1
    <3>2. QED BY <2>1, <2>8, <2>9, <3>1 DEF RecordKeys
  <2>12. Recorded(c, Key(j), s) BY <2>8, <2>9 DEF Recorded
  <2>13. ASSUME NEW k, NEW t, k # Key(j), Recorded(b, k, t) PROVE Recorded(c, k, t)
    BY <2>1, <2>9, <2>13 DEF Recorded
  <2>14. QED BY <2>6, <2>10, <2>11, <2>12, <2>13 DEF Gains
<1>3. QED BY <1>1, <1>2

\* Ids stay told apart when nothing is kept that was not, or only a new job,
\* or one whose id stood for its key already.
LEMMA IdsKept ==
  ASSUME IdsTold, used \subseteq used', Known' \subseteq Known
  PROVE  IdsTold'
  BY DEF IdsTold

LEMMA IdsGrow ==
  ASSUME IdsTold, NEW j, used \subseteq used', j.id \in used', Known' \subseteq Known \cup {Key(j)},
         \A k \in Known : k[2] = j.id => k = Key(j)
  PROVE  IdsTold'
<1>1. Key(j)[2] = j.id BY DEF Key
<1>2. QED BY <1>1 DEF IdsTold

\* A record, an entry or a job that is kept is among the known keys.
LEMMA KnownKeys ==
  /\ \A e \in backend : Key(e) \in Known /\ Key(e)[2] = e.id
  /\ \A k \in active \cup delayed : k \in Known
  /\ \A j \in Listed : Key(j) \in Known /\ Key(j)[2] = j.id
  /\ \A t \in Tasks : Holds(t) => Key(task[t].job) \in Known /\ Key(task[t].job)[2] = task[t].job.id
  BY DEF Known, RecordKeys, KeysOf, HeldKeys, Key

\* A fresh id is nobody's.
LEMMA FreshKey ==
  ASSUME IdsTold, NEW j, j.id \notin used
  PROVE  /\ \A k \in Known : k[2] # j.id
         /\ Key(j) \notin Known
         /\ \A e \in backend : e.id # j.id
<1>1. Key(j)[2] = j.id BY DEF Key
<1>2. \A k \in Known : k[2] # j.id BY DEF IdsTold
<1>3. QED BY <1>1, <1>2, KnownKeys

\* Steps that leave every job where it is.
SameJobs ==
  \A t \in Tasks :
    /\ Running(t)' <=> Running(t)
    /\ Holds(t)' <=> Holds(t)
    /\ Holds(t) => task'[t].job = task[t].job

LEMMA RunningHolds == \A t : Running(t) => Holds(t)
  BY DEF Running, Holds, Holding

LEMMA Undisturbed ==
  ASSUME BooksInv, SameJobs,
         UNCHANGED <<backend, active, delayed, completed, failed, deadLetter, used>>,
         \A j \in failed : handlers[j.queue] # <<>> => handlers'[j.queue] # <<>>
  PROVE  BooksInv'
<1>. USE DEF BooksInv
<1>1. Listed' = Listed /\ KeysOf(Listed)' = KeysOf(Listed) BY DEF Listed, KeysOf
<1>2. \A t \in Tasks : Running(t)' => Running(t) /\ Holds(t) /\ task'[t].job = task[t].job
  BY RunningHolds DEF SameJobs
<1>3. IdsTold'
  <2>1. HeldKeys' \subseteq HeldKeys
    <3>1. \A t \in Tasks : Holds(t)' => Holds(t) /\ Key(task'[t].job) = Key(task[t].job)
      BY DEF SameJobs
    <3>2. QED BY <3>1 DEF HeldKeys
  <2>2. Known' \subseteq Known BY <1>1, <2>1 DEF Known
  <2>3. QED BY <2>2, IdsKept
<1>4. HeldOnce' /\ HeldUnlisted' BY <1>1 DEF HeldOnce, HeldUnlisted, SameJobs
<1>5. ListedOnce' BY <1>1 DEF ListedOnce
<1>6. DelayedRests' BY <1>1, <1>2 DEF DelayedRests
<1>7. RecordsApart(backend)' /\ ListedRecorded'
  BY DEF RecordsApart, ListedRecorded, Recorded, KeysOf
<1>8. UnlistedUnrecorded' BY <1>2 DEF UnlistedUnrecorded
<1>9. FailedMirrored' /\ FailedHadHandlers' BY DEF FailedMirrored, FailedHadHandlers
<1>10. ActiveHasRunner'
  BY RunningHolds DEF ActiveHasRunner, SameJobs
<1>11. QED BY <1>3, <1>4, <1>5, <1>6, <1>7, <1>8, <1>9, <1>10

\* The job that _dispatch_job takes: it is in no book, and nobody else holds it.
Free(t, j) ==
  /\ Key(j) \notin active /\ Key(j) \notin delayed' /\ Key(j) \notin KeysOf(Listed)'
  /\ \A u \in Tasks \ {t} : Holds(u) => Key(task[u].job) # Key(j)

Taken(t, j, b) ==
  /\ Dispatch(t, j, b) /\ ~Running(t) /\ Free(t, j) /\ (Holds(t) => task[t].job = j)
  /\ completed' = completed /\ failed' \in {failed, failed \ {j}} /\ failed' = deadLetter'
  /\ delayed' \in {delayed, delayed \ {Key(j)}} /\ handlers' = handlers
  /\ used \subseteq used' /\ j.id \in used' /\ \A k \in Known : k[2] = j.id => k = Key(j)
  /\ RecordsApart(b) /\ RecordKeys(b) \in {RecordKeys(backend), RecordKeys(backend) \cup {Key(j)}}
  /\ \A k, s : k # Key(j) /\ Recorded(backend, k, s) => Recorded(b, k, s)

\* The ids of the records that _dispatch_job finds stand for one key each.
LEMMA TakenRecords ==
  ASSUME NEW t, NEW j, NEW b, Taken(t, j, b)
  PROVE  \A e \in b : e.id = j.id => Key(e) = Key(j)
<1>1. \A e \in b : Key(e)[2] = e.id /\ Key(e) \in RecordKeys(b) BY DEF Key, RecordKeys
<1>2. RecordKeys(b) \subseteq Known \cup {Key(j)} BY DEF Taken, Known
<1>3. QED BY <1>1, <1>2 DEF Taken

LEMMA Dispatched ==
  ASSUME TypeInv, TypeInv', BooksInv, NEW t \in Tasks, NEW j \in Jobs, NEW b, Taken(t, j, b)
  PROVE  BooksInv'
<1>. USE DEF BooksInv
<1>0. /\ Dispatch(t, j, b) /\ ~Running(t) /\ Free(t, j)
      /\ completed' = completed /\ failed' \subseteq failed /\ failed' = deadLetter'
      /\ delayed' \subseteq delayed /\ handlers' = handlers
      /\ used \subseteq used' /\ j.id \in used' /\ \A k \in Known : k[2] = j.id => k = Key(j)
      /\ RecordsApart(b) /\ RecordKeys(b) \subseteq RecordKeys(backend) \cup {Key(j)}
      /\ \A k, s : k # Key(j) /\ Recorded(backend, k, s) => Recorded(b, k, s)
  BY DEF Taken
<1>. USE <1>0
<1>1. /\ Listed' \subseteq Listed /\ KeysOf(Listed)' \subseteq KeysOf(Listed)
      /\ KeysOf(failed') \subseteq KeysOf(failed)
  BY DEF Listed, KeysOf
<1>2. OthersKept(t)
  BY DEF Dispatch, OthersKept, TypeInv, TaskType
<1>3. \A u \in Tasks \ {t} : /\ Holds(u)' <=> Holds(u)
                             /\ Running(u)' <=> Running(u)
                             /\ task'[u].job = task[u].job
  BY <1>2 DEF OthersKept, Holds, Running
<1>4. \/ ~Holds(t)' /\ active' = active /\ backend' = b /\ handlers[j.queue] = <<>>
      \/ /\ Running(t)' /\ Holds(t)' /\ task'[t].job = j /\ active' = active \cup {Key(j)}
         /\ backend' = BackendUpdate(b, j, "active") /\ handlers[j.queue] # <<>>
  <2>1. CASE handlers[j.queue] = <<>>
    BY <2>1 DEF Dispatch, Returned, Idle, Suspended, Holds, Holding, TypeInv, TaskType
  <2>2. CASE handlers[j.queue] # <<>>
    BY <2>2 DEF Dispatch, Suspended, Running, Holds, Holding, TypeInv, TaskType
  <2>3. QED BY <2>1, <2>2
<1>5. \A e \in b : e.id = j.id => Key(e) = Key(j) BY TakenRecords
<1>6. \/ backend' = b /\ active' = active
      \/ /\ Gains(b, backend', j, "active") /\ active' = active \cup {Key(j)}
         /\ Running(t)' /\ task'[t].job = j
  BY <1>4, <1>5, UpdateGains
<1>7. /\ RecordsApart(backend')
      /\ RecordKeys(backend') \subseteq RecordKeys(backend) \cup {Key(j)}
      /\ \A k, s : k # Key(j) /\ Recorded(backend, k, s) => Recorded(backend', k, s)
  BY <1>6 DEF Gains
<1>8. IdsTold'
  <2>1. HeldKeys' \subseteq HeldKeys \cup {Key(j)}
    <3>1. \A u \in Tasks : Holds(u)' => Key(task'[u].job) = Key(j)
                                     \/ (Holds(u) /\ Key(task'[u].job) = Key(task[u].job))
      BY <1>3, <1>4
    <3>2. QED BY <3>1 DEF HeldKeys
  <2>2. active' \subseteq active \cup {Key(j)} BY <1>4
  <2>3. Known' \subseteq Known \cup {Key(j)} BY <1>1, <1>7, <2>1, <2>2 DEF Known
  <2>4. QED BY <2>3, IdsGrow
<1>9. HeldOnce' BY <1>3, <1>4 DEF HeldOnce, Free
<1>10. HeldUnlisted' BY <1>1, <1>3, <1>4 DEF HeldUnlisted, Free
<1>11. ListedOnce' BY <1>1 DEF ListedOnce
<1>12. DelayedRests'
  <2>1. ASSUME NEW u \in Tasks, Running(u)', NEW k \in delayed' PROVE Key(task'[u].job) # k
    <3>1. CASE u = t BY <1>4, <2>1, <3>1, RunningHolds DEF Free, Running, Holds, Holding
    <3>2. CASE u # t BY <1>3, <2>1, <3>2 DEF DelayedRests
    <3>3. QED BY <3>1, <3>2
  <2>2. QED BY <1>1, <2>1 DEF DelayedRests
<1>13. ListedRecorded'
  <2>1. ASSUME NEW k \in active' PROVE Recorded(backend', k, "active")
    <3>1. CASE k = Key(j) /\ k \notin active BY <1>4, <1>6, <2>1, <3>1 DEF Gains, Free
    <3>2. CASE k \in active BY <1>7, <3>2 DEF Free, ListedRecorded
    <3>3. QED BY <1>4, <2>1, <3>1, <3>2
  <2>2. \A k \in delayed' : Recorded(backend', k, "delayed")
    BY <1>7 DEF Free, ListedRecorded
  <2>3. /\ \A k \in KeysOf(completed') : Recorded(backend', k, "completed")
        /\ \A k \in KeysOf(failed') : Recorded(backend', k, "failed")
    <3>1. Key(j) \notin KeysOf(completed') /\ Key(j) \notin KeysOf(failed')
      BY DEF Free, Listed, KeysOf
    <3>2. KeysOf(completed') = KeysOf(completed) BY DEF KeysOf
    <3>3. QED BY <1>1, <1>7, <3>1, <3>2 DEF ListedRecorded
  <2>4. QED BY <2>1, <2>2, <2>3 DEF ListedRecorded
<1>14. UnlistedUnrecorded'
  <2>. SUFFICES ASSUME NEW u \in Tasks, Running(u)', Key(task'[u].job) \notin active'
                PROVE Key(task'[u].job) \notin RecordKeys(backend')
    BY DEF UnlistedUnrecorded
  <2>1. u # t /\ Running(u) BY <1>3, <1>4, RunningHolds DEF Running, Holds, Holding
  <2>2. Key(task[u].job) # Key(j) BY <2>1, RunningHolds DEF Free
  <2>3. Key(task[u].job) \notin active BY <1>3, <1>4, <2>1
  <2>4. Key(task[u].job) \notin RecordKeys(backend) BY <2>1, <2>3 DEF UnlistedUnrecorded
  <2>5. QED BY <1>3, <1>7, <2>1, <2>2, <2>4
<1>15. FailedMirrored' /\ FailedHadHandlers' BY DEF FailedMirrored, FailedHadHandlers
<1>16. ActiveHasRunner'
  <2>1. Entered(t) BY <1>4 DEF Entered
  <2>2. Left(t) BY DEF Left
  <2>3. QED BY <1>2, <2>1, <2>2, RunnerKept
<1>17. QED BY <1>7, <1>8, <1>9, <1>10, <1>11, <1>12, <1>13, <1>14, <1>15, <1>16

\* What holds of the other tasks when one task moves.
LEMMA OthersHold ==
  ASSUME NEW t \in Tasks, OthersKept(t)
  PROVE  \A u \in Tasks \ {t} : /\ Holds(u)' <=> Holds(u)
                                /\ Running(u)' <=> Running(u)
                                /\ task'[u].job = task[u].job
  BY DEF OthersKept, Holds, Running

\* A delayed job that add() hands to a background task.
LEMMA DelayedAdded ==
  ASSUME TypeInv, TypeInv', BooksInv, NEW w \in Workers, NEW j \in Jobs, j.id \notin used,
         AddDelayed(w, j)
  PROVE  BooksInv'
<1>. USE DEF BooksInv
<1>1. w \in Tasks /\ OthersKept(w) BY DEF AddDelayed, OthersKept, TypeInv, TaskType, Tasks
<1>2. \A u \in Tasks \ {w} : /\ Holds(u)' <=> Holds(u)
                             /\ Running(u)' <=> Running(u)
                             /\ task'[u].job = task[u].job
  BY <1>1, OthersHold
<1>3. /\ Holds(w)' /\ ~Running(w)' /\ ~Running(w) /\ task'[w].job = j
  BY <1>1 DEF AddDelayed, Suspended, Running, Holds, Holding, TypeInv, TaskType
<1>4. /\ \A k \in Known : k[2] # j.id
      /\ Key(j) \notin Known /\ \A e \in backend : e.id # j.id
  BY FreshKey
<1>5. RecordsApart(backend') /\ RecordKeys(backend') = RecordKeys(backend) \cup {Key(j)}
      /\ Recorded(backend', Key(j), "delayed")
      /\ \A k, s : k # Key(j) /\ Recorded(backend, k, s) => Recorded(backend', k, s)
  <2>. DEFINE b == BackendAdd(backend, j)
  <2>1. Gains(backend, b, j, "waiting") BY <1>4, AddGains
  <2>2. \A e \in b : e.id = j.id => Key(e) = Key(j)
    <3>1. \A e \in b : Key(e) \in RecordKeys(b) /\ Key(e)[2] = e.id BY DEF RecordKeys, Key
    <3>2. RecordKeys(b) \subseteq Known \cup {Key(j)} BY <2>1 DEF Gains, Known
    <3>. HIDE DEF b
    <3>3. QED BY <1>4, <3>1, <3>2
  <2>3. backend' = BackendUpdate(b, j, "delayed") BY DEF AddDelayed
  <2>. HIDE DEF b
  <2>4. Gains(b, backend', j, "delayed") BY <2>1, <2>2, <2>3, UpdateGains DEF Gains
  <2>5. QED BY <2>1, <2>4 DEF Gains
<1>6. UNCHANGED <<active, completed, failed, deadLetter, handlers>>
      /\ delayed' = delayed \cup {Key(j)} /\ used' = used \cup {j.id}
  BY DEF AddDelayed
<1>7. Listed' = Listed /\ KeysOf(Listed)' = KeysOf(Listed) BY <1>6 DEF Listed, KeysOf
<1>8. /\ Key(j) \notin active /\ Key(j) \notin delayed /\ Key(j) \notin KeysOf(Listed)
      /\ \A u \in Tasks : Holds(u) => Key(task[u].job) # Key(j)
  BY <1>4, KnownKeys DEF Known
<1>9. IdsTold'
  <2>1. HeldKeys' \subseteq HeldKeys \cup {Key(j)}
    <3>1. \A u \in Tasks : Holds(u)' => (Key(task'[u].job) = Key(j)
                                      \/ (Holds(u) /\ Key(task'[u].job) = Key(task[u].job)))
      BY <1>2, <1>3
    <3>2. QED BY <3>1 DEF HeldKeys
  <2>2. Known' \subseteq Known \cup {Key(j)} BY <1>5, <1>6, <1>7, <2>1 DEF Known
  <2>3. QED BY <1>4, <1>6, <2>2, IdsGrow
<1>10. HeldOnce' /\ HeldUnlisted'
  BY <1>2, <1>3, <1>7, <1>8 DEF HeldOnce, HeldUnlisted
<1>11. ListedOnce' /\ FailedMirrored' /\ FailedHadHandlers'
  BY <1>6, <1>7 DEF ListedOnce, FailedMirrored, FailedHadHandlers
<1>12. DelayedRests'
  <2>1. \A u \in Tasks : Running(u)' => Running(u) /\ task'[u].job = task[u].job /\ Holds(u)
    BY <1>2, <1>3, RunningHolds
  <2>2. QED BY <1>6, <1>7, <1>8, <2>1 DEF DelayedRests
<1>13. ListedRecorded'
  <2>1. KeysOf(completed') = KeysOf(completed) /\ KeysOf(failed') = KeysOf(failed)
        /\ Key(j) \notin KeysOf(completed) /\ Key(j) \notin KeysOf(failed)
    BY <1>6, <1>8 DEF KeysOf, Listed
  <2>2. QED BY <1>5, <1>6, <1>8, <2>1 DEF ListedRecorded
<1>14. UnlistedUnrecorded'
  BY <1>2, <1>3, <1>5, <1>6, <1>8, RunningHolds DEF UnlistedUnrecorded
<1>15. ActiveHasRunner'
  <2>1. Entered(w) /\ Left(w) BY <1>3, <1>6 DEF Entered, Left
  <2>2. QED BY <1>1, <2>1, RunnerKept
<1>16. QED BY <1>5, <1>9, <1>10, <1>11, <1>12, <1>13, <1>14, <1>15

\* A task that lets its job go, and files it in the books done and lost, with a
\* record of status s, or nowhere.
Filing(t, done, lost) ==
  LET j == task[t].job
  IN /\ completed' = completed \cup done /\ failed' = failed \cup lost
     /\ deadLetter' = deadLetter \cup lost
     /\ \/ done = {} /\ lost = {} /\ UNCHANGED backend
        \/ done = {j} /\ lost = {} /\ backend' = BackendUpdate(backend, j, "completed")
        \/ done = {} /\ lost = {j} /\ backend' = BackendUpdate(backend, j, "failed")
     /\ lost # {} => handlers[j.queue] # <<>>

LEMMA LetGo ==
  ASSUME TypeInv, TypeInv', BooksInv, NEW t \in Tasks, Holds(t), OthersKept(t), ~Holds(t)',
         active' = active \ {Key(task[t].job)} \/ (active' = active /\ ~Running(t)),
         delayed' \subseteq delayed,
         NEW done, NEW lost, Filing(t, done, lost), ~Running(t) => done \cup lost = {},
         UNCHANGED <<handlers, used>>
  PROVE  BooksInv'
<1>. DEFINE j == task[t].job
<1>. USE DEF BooksInv
<1>1. \A u \in Tasks \ {t} : /\ Holds(u)' <=> Holds(u)
                             /\ Running(u)' <=> Running(u)
                             /\ task'[u].job = task[u].job
  BY OthersHold
<1>2. ~Running(t)' /\ j \in Jobs
  BY DEF Running, Holds, Holding, TypeInv, TaskType
<1>. HIDE DEF j
<1>3. Key(j) \in Known /\ Key(j)[2] = j.id /\ Key(j) \notin KeysOf(Listed)
      /\ \A u \in Tasks \ {t} : Holds(u) => Key(task[u].job) # Key(j)
  BY KnownKeys DEF HeldOnce, HeldUnlisted, j
<1>4. /\ Listed' \subseteq Listed \cup {j}
      /\ KeysOf(Listed)' \subseteq KeysOf(Listed) \cup {Key(j)}
  BY DEF Filing, Listed, KeysOf, j
<1>5. \A e \in backend : e.id = j.id => Key(e) = Key(j)
  BY <1>3, KnownKeys DEF IdsTold
<1>6. \/ done = {} /\ lost = {} /\ backend' = backend
      \/ Gains(backend, backend', j, "completed") /\ done = {j} /\ lost = {} /\ Running(t)
      \/ Gains(backend, backend', j, "failed") /\ done = {} /\ lost = {j} /\ Running(t)
  <2>1. \A s : Gains(backend, BackendUpdate(backend, j, s), j, s) BY <1>5, UpdateGains
  <2>2. done # {} \/ lost # {} => Running(t) OBVIOUS
  <2>3. \/ done = {} /\ lost = {} /\ backend' = backend
        \/ done = {j} /\ lost = {} /\ backend' = BackendUpdate(backend, j, "completed")
        \/ done = {} /\ lost = {j} /\ backend' = BackendUpdate(backend, j, "failed")
    BY DEF Filing, j
  <2>4. {j} # {} OBVIOUS
  <2>. HIDE DEF BooksInv
  <2>5. QED BY <2>1, <2>2, <2>3, <2>4
<1>7. /\ RecordsApart(backend')
      /\ RecordKeys(backend') \subseteq RecordKeys(backend) \cup {Key(j)}
      /\ \A k, s : k # Key(j) /\ Recorded(backend, k, s) => Recorded(backend', k, s)
  BY <1>6 DEF Gains
<1>8. IdsTold'
  <2>1. HeldKeys' \subseteq HeldKeys
    <3>1. \A u \in Tasks : Holds(u)' => Holds(u) /\ Key(task'[u].job) = Key(task[u].job)
      BY <1>1
    <3>2. QED BY <3>1 DEF HeldKeys
  <2>2. Known' \subseteq Known BY <1>3, <1>4, <1>7, <2>1 DEF Known
  <2>3. QED BY <2>2, IdsKept
<1>9. HeldOnce' BY <1>1 DEF HeldOnce
<1>10. HeldUnlisted' BY <1>1, <1>3, <1>4 DEF HeldUnlisted
<1>11. ListedOnce'
  <2>1. \A i \in Listed : Key(i) # Key(j) BY <1>3 DEF KeysOf
  <2>2. \A i, l \in Listed' : Key(i) = Key(l) => i = l BY <1>4, <2>1 DEF ListedOnce
  <2>3. completed' \cap failed' = {}
    BY <1>6, <2>1 DEF ListedOnce, Filing, Listed
  <2>4. QED BY <2>2, <2>3 DEF ListedOnce
<1>12. DelayedRests'
  <2>1. done \cup lost # {} => Key(j) \notin delayed BY DEF DelayedRests, j
  <2>2. done \cup lost = {} => KeysOf(Listed)' = KeysOf(Listed) BY DEF Filing, Listed, KeysOf
  <2>3. \A k \in delayed' : k \notin KeysOf(Listed)' BY <1>4, <2>1, <2>2 DEF DelayedRests
  <2>4. \A u \in Tasks : Running(u)' => Running(u) /\ task'[u].job = task[u].job
    BY <1>1, <1>2
  <2>5. QED BY <2>3, <2>4 DEF DelayedRests
<1>13. ListedRecorded'
  <2>1. Key(j) \notin active' \/ backend' = backend BY <1>6 DEF j
  <2>2. \A k \in active' : Recorded(backend', k, "active")
    BY <1>7, <2>1 DEF ListedRecorded
  <2>3. Key(j) \notin delayed' \/ backend' = backend BY <1>6 DEF DelayedRests, j
  <2>4. \A k \in delayed' : Recorded(backend', k, "delayed")
    BY <1>7, <2>3 DEF ListedRecorded
  <2>5. /\ KeysOf(completed') = KeysOf(completed) \cup KeysOf(done)
        /\ KeysOf(failed') = KeysOf(failed) \cup KeysOf(lost)
        /\ KeysOf({}) = {} /\ KeysOf({j}) = {Key(j)}
        /\ Key(j) \notin KeysOf(completed) /\ Key(j) \notin KeysOf(failed)
    BY <1>3 DEF Filing, KeysOf, Listed
  <2>6. \A k \in KeysOf(completed') : Recorded(backend', k, "completed")
    BY <1>6, <1>7, <2>5 DEF ListedRecorded, Gains
  <2>7. \A k \in KeysOf(failed') : Recorded(backend', k, "failed")
    BY <1>6, <1>7, <2>5 DEF ListedRecorded, Gains
  <2>8. QED BY <2>2, <2>4, <2>6, <2>7 DEF ListedRecorded
<1>14. UnlistedUnrecorded'
  <2>. SUFFICES ASSUME NEW u \in Tasks, Running(u)', Key(task'[u].job) \notin active'
                PROVE Key(task'[u].job) \notin RecordKeys(backend')
    BY DEF UnlistedUnrecorded
  <2>1. u # t /\ Running(u) /\ task'[u].job = task[u].job BY <1>1, <1>2
  <2>2. Key(task[u].job) # Key(j) BY <1>3, <2>1, RunningHolds
  <2>3. Key(task[u].job) \notin active BY <2>1, <2>2 DEF j
  <2>4. QED BY <1>7, <2>1, <2>2, <2>3 DEF UnlistedUnrecorded
<1>15. FailedMirrored' /\ FailedHadHandlers'
  <2>1. lost \subseteq {j} BY <1>6
  <2>2. QED BY <2>1 DEF FailedMirrored, FailedHadHandlers, Filing, j
<1>16. ActiveHasRunner'
  <2>1. Entered(t) /\ Left(t) BY DEF Entered, Left
  <2>2. QED BY <2>1, RunnerKept
<1>17. QED BY <1>7, <1>8, <1>9, <1>10, <1>11, <1>12, <1>13, <1>14, <1>15, <1>16

LEMMA Cleaned ==
  ASSUME TypeInv, TypeInv', BooksInv, NEW books, NEW qs, Clean(books, qs)
  PROVE  BooksInv'
<1>. DEFINE done == IF "completed" \in books THEN Matching(completed, qs) ELSE {}
            lost == IF "failed" \in books THEN Matching(failed, qs) ELSE {}
            gone == {j.id : j \in done \cup lost}
<1>. USE DEF BooksInv
<1>1. /\ completed' = completed \ done /\ failed' = failed \ lost
      /\ deadLetter' = deadLetter \ lost
      /\ backend' = {e \in backend : e.id \notin gone}
      /\ UNCHANGED <<handlers, active, delayed, task, used>>
      /\ done \subseteq completed /\ lost \subseteq failed
  BY DEF Clean, FailedMirrored, BackendRemove, Matching
<1>. HIDE DEF done, lost
<1>2. /\ Listed' \subseteq Listed /\ KeysOf(Listed)' \subseteq KeysOf(Listed)
  BY <1>1 DEF Listed, KeysOf
<1>3. SameJobs BY <1>1 DEF SameJobs, Holds, Running
<1>4. /\ RecordsApart(backend') /\ RecordKeys(backend') \subseteq RecordKeys(backend)
  <2>1. backend' \subseteq backend BY <1>1
  <2>2. QED BY <2>1 DEF RecordsApart, RecordKeys
<1>5. IdsTold'
  <2>1. HeldKeys' = HeldKeys BY <1>1 DEF HeldKeys, Holds
  <2>2. Known' \subseteq Known BY <1>1, <1>2, <1>4, <2>1 DEF Known
  <2>3. QED BY <1>1, <2>2, IdsKept
<1>6. HeldOnce' /\ HeldUnlisted' BY <1>2, <1>3 DEF HeldOnce, HeldUnlisted, SameJobs
<1>7. ListedOnce' BY <1>1, <1>2 DEF ListedOnce
<1>8. DelayedRests' BY <1>1, <1>2 DEF DelayedRests, Running
<1>9. ASSUME NEW k \in Known, NEW s, Recorded(backend, k, s),
             \A j \in done \cup lost : Key(j) # k
      PROVE  Recorded(backend', k, s)
  <2>1. PICK e \in backend : Key(e) = k /\ e.status = s BY <1>9 DEF Recorded
  <2>2. e.id \notin gone
    <3>1. SUFFICES ASSUME NEW j \in done \cup lost, e.id = j.id PROVE FALSE OBVIOUS
    <3>2. j \in Listed BY <1>1 DEF Listed
    <3>3. Key(j) \in Known /\ Key(j)[2] = k[2] BY <2>1, <3>1, <3>2, KnownKeys
    <3>4. Key(j) = k BY <3>3 DEF IdsTold
    <3>5. QED BY <1>9, <3>4
  <2>3. QED BY <1>1, <2>1, <2>2 DEF Recorded
<1>10. ListedRecorded'
  <2>1. \A j \in done \cup lost : Key(j) \in KeysOf(Listed)
    BY <1>1 DEF Listed, KeysOf
  <2>2. \A k \in active : k \in Known /\ k \notin KeysOf(Listed)
    <3>1. \A k \in active : \E t \in Tasks : Running(t) /\ Key(task[t].job) = k
      BY DEF ActiveHasRunner
    <3>2. QED BY <3>1, RunningHolds DEF HeldUnlisted, Known
  <2>3. \A k \in active' : Recorded(backend', k, "active")
    BY <1>1, <1>9, <2>1, <2>2 DEF ListedRecorded
  <2>4. \A k \in delayed : k \in Known /\ k \notin KeysOf(Listed)
    BY DEF DelayedRests, Known
  <2>5. \A k \in delayed' : Recorded(backend', k, "delayed")
    BY <1>1, <1>9, <2>1, <2>4 DEF ListedRecorded
  <2>6. ASSUME NEW i \in Listed', NEW j \in done \cup lost PROVE Key(i) \in Known /\ Key(j) # Key(i)
    <3>1. i \in Listed /\ j \in Listed BY <1>1, <1>2, <2>6 DEF Listed
    <3>2. i # j BY <1>1, <2>6 DEF Listed, ListedOnce
    <3>3. QED BY <3>1, <3>2, KnownKeys DEF ListedOnce
  <2>7. \A i \in completed' : i \in Listed' /\ Key(i) \in KeysOf(completed)
    BY <1>1 DEF Listed, KeysOf
  <2>8. \A i \in failed' : i \in Listed' /\ Key(i) \in KeysOf(failed)
    BY <1>1 DEF Listed, KeysOf
  <2>9. ASSUME NEW k \in KeysOf(completed') PROVE Recorded(backend', k, "completed")
    <3>1. PICK i \in completed' : k = Key(i) BY <2>9 DEF KeysOf
    <3>2. Recorded(backend, k, "completed") BY <2>7, <3>1 DEF ListedRecorded
    <3>3. Key(i) \in Known BY <2>7, <3>1, KnownKeys, <1>2
    <3>4. \A j \in done \cup lost : Key(j) # Key(i) BY <2>6, <2>7, <3>1
    <3>5. QED BY <1>9, <3>1, <3>2, <3>3, <3>4
  <2>10. ASSUME NEW k \in KeysOf(failed') PROVE Recorded(backend', k, "failed")
    <3>1. PICK i \in failed' : k = Key(i) BY <2>10 DEF KeysOf
    <3>2. Recorded(backend, k, "failed") BY <2>8, <3>1 DEF ListedRecorded
    <3>3. Key(i) \in Known BY <2>8, <3>1, KnownKeys, <1>2
    <3>4. \A j \in done \cup lost : Key(j) # Key(i) BY <2>6, <2>8, <3>1
    <3>5. QED BY <1>9, <3>1, <3>2, <3>3, <3>4
  <2>11. QED BY <2>3, <2>5, <2>9, <2>10 DEF ListedRecorded
<1>11. UnlistedUnrecorded' BY <1>1, <1>4 DEF UnlistedUnrecorded, Running
<1>12. FailedMirrored' /\ FailedHadHandlers' BY <1>1 DEF FailedMirrored, FailedHadHandlers
<1>13. ActiveHasRunner' BY <1>1 DEF ActiveHasRunner, Running
<1>14. QED BY <1>4, <1>5, <1>6, <1>7, <1>8, <1>10, <1>11, <1>12, <1>13

LEMMA Cleared ==
  ASSUME BooksInv, Clear
  PROVE  BooksInv'
<1>. USE DEF BooksInv
<1>1. /\ backend' = {} /\ active' = {} /\ delayed' = {} /\ completed' = {} /\ failed' = {}
      /\ deadLetter' = {} /\ UNCHANGED <<handlers, task, used>>
  BY DEF Clear
<1>2. KeysOf(Listed)' = {} /\ Listed' = {} /\ KeysOf({}) = {}
  BY <1>1 DEF KeysOf, Listed
<1>3. IdsTold'
  <2>1. HeldKeys' = HeldKeys BY <1>1 DEF HeldKeys, Holds
  <2>2. RecordKeys(backend)' = {} BY <1>1 DEF RecordKeys
  <2>3. Known' \subseteq Known BY <1>1, <1>2, <2>1, <2>2 DEF Known
  <2>4. QED BY <1>1, <2>3, IdsKept
<1>4. HeldOnce' /\ HeldUnlisted' BY <1>1, <1>2 DEF HeldOnce, HeldUnlisted, Holds
<1>5. ListedOnce' /\ DelayedRests' /\ FailedMirrored' /\ FailedHadHandlers'
  BY <1>1, <1>2 DEF ListedOnce, DelayedRests, FailedMirrored, FailedHadHandlers
<1>6. RecordsApart(backend')
  <2>1. 0 \in Nat OBVIOUS
  <2>2. QED BY <1>1, <2>1 DEF RecordsApart
<1>7. ListedRecorded' BY <1>1, <1>2 DEF ListedRecorded
<1>8. UnlistedUnrecorded' BY <1>1 DEF UnlistedUnrecorded, RecordKeys
<1>9. ActiveHasRunner' BY <1>1 DEF ActiveHasRunner
<1>10. QED BY <1>3, <1>4, <1>5, <1>6, <1>7, <1>8, <1>9

LEMMA Closed ==
  ASSUME TypeInv, BooksInv, NEW t \in Tasks, CloseReturns(t)
  PROVE  BooksInv'
<1>. USE DEF BooksInv
<1>1. /\ delayed' = {} /\ UNCHANGED <<handlers, backend, active, completed, failed, deadLetter, used>>
  BY DEF CloseReturns
<1>2. OthersKept(t) /\ ~Holds(t) /\ ~Holds(t)' /\ ~Running(t) /\ ~Running(t)'
  BY DEF CloseReturns, OthersKept, Holds, Holding, Running, Idle, Suspended, TypeInv, TaskType
<1>3. SameJobs BY <1>2, OthersHold DEF SameJobs
<1>4. Listed' = Listed /\ KeysOf(Listed)' = KeysOf(Listed) BY <1>1 DEF Listed, KeysOf
<1>5. IdsTold'
  <2>1. HeldKeys' \subseteq HeldKeys
    <3>1. \A u \in Tasks : Holds(u)' => Holds(u) /\ Key(task'[u].job) = Key(task[u].job)
      BY <1>3 DEF SameJobs
    <3>2. QED BY <3>1 DEF HeldKeys
  <2>2. Known' \subseteq Known BY <1>1, <1>4, <2>1 DEF Known
  <2>3. QED BY <1>1, <2>2, IdsKept
<1>6. \A u \in Tasks : Running(u)' => Running(u) /\ Holds(u) /\ task'[u].job = task[u].job
  BY <1>3, RunningHolds DEF SameJobs
<1>7. HeldOnce' /\ HeldUnlisted' BY <1>3, <1>4 DEF HeldOnce, HeldUnlisted, SameJobs
<1>8. ListedOnce' /\ DelayedRests' /\ FailedMirrored' /\ FailedHadHandlers'
  BY <1>1, <1>4 DEF ListedOnce, DelayedRests, FailedMirrored, FailedHadHandlers
<1>9. RecordsApart(backend)' /\ ListedRecorded'
  BY <1>1 DEF RecordsApart, ListedRecorded, Recorded, KeysOf
<1>10. UnlistedUnrecorded' BY <1>1, <1>6 DEF UnlistedUnrecorded
<1>11. ActiveHasRunner' BY <1>1, <1>3, RunningHolds DEF ActiveHasRunner, SameJobs
<1>12. QED BY <1>5, <1>7, <1>8, <1>9, <1>10, <1>11

-----------------------------------------------------------------------------
\* A step of one task that requests no cancellation and does not gather what is
\* not in _background_tasks.
LEMMA TaskMoves ==
  ASSUME TypeInv, TypeInv', TasksInv, NEW t \in Tasks, OthersKept(t),
         t \in Workers => task'[t].pc \in Holding \cup {"ended"},
         t \in cancelled' => Holds(t)', cancelled' \subseteq cancelled,
         background' \subseteq background \cup {t},
         \A u \in Tasks \ {t} : task'[u].waits = task[u].waits,
         task'[t].waits \subseteq background \cup task[t].waits
  PROVE  TasksInv'
<1>. USE DEF TasksInv
<1>1. CancelledHolds'
  BY OthersHold DEF CancelledHolds, Tasks, TypeInv
<1>2. ASSUME NEW w \in Workers, w \in background' \/ (\E u \in Tasks : w \in task'[u].waits)
      PROVE  task'[w].pc \in Holding \cup {"ended"}
  <2>1. CASE w = t BY <2>1
  <2>2. CASE w # t
    <3>1. w \in background \/ (\E u \in Tasks : w \in task[u].waits) BY <1>2, <2>2
    <3>2. w \in Tasks BY DEF Tasks
    <3>3. QED BY <2>2, <3>1, <3>2 DEF GatheredLive, OthersKept
  <2>3. QED BY <2>1, <2>2
<1>3. GatheredLive' BY <1>2 DEF GatheredLive
<1>4. WorkersWork' BY OthersHold DEF WorkersWork, Tasks, OthersKept
<1>5. QED BY <1>1, <1>3, <1>4

\* What gather() and cancel() reach in _background_tasks holds a job.
LEMMA CancellableHolds ==
  ASSUME TypeInv, TasksInv
  PROVE  /\ \A w \in Cancellable : Holds(w)
         /\ \A t \in Tasks : \A w \in task[t].waits : task[w].pc # "ended" => Holds(w)
<1>1. background \subseteq Workers /\ \A t \in Tasks : task[t].waits \subseteq Workers
  BY DEF TypeInv, TaskType, Records
<1>2. QED BY <1>1 DEF TasksInv, GatheredLive, Cancellable, Holds

LEMMA DispatchMoves ==
  ASSUME TypeInv, NEW t \in Tasks, NEW j, NEW b, Dispatch(t, j, b)
  PROVE  /\ OthersKept(t) /\ \A u \in Tasks \ {t} : task'[u].waits = task[u].waits
         /\ task'[t].waits = {}
         /\ t \in Workers => task'[t].pc \in {"handler", "ended"}
<1>1. Workers \cap Callers = {} BY QueueAssumption
<1>2. QED
  BY <1>1 DEF Dispatch, OthersKept, Returned, Idle, Suspended, TypeInv, TaskType

\* A cancellation reaches only a task that holds a job, and what close() and
\* wait_until_idle() gather is a task that holds one or has ended.
LEMMA TasksStep ==
  ASSUME TypeInv, TypeInv', TasksInv, [Next]_vars
  PROVE  TasksInv'
<1>. USE DEF TasksInv
<1>a. Workers \cap Callers = {} BY QueueAssumption
<1>b. /\ task \in [Tasks -> Records] /\ task' \in [Tasks -> Records]
      /\ cancelled \subseteq Workers /\ background \subseteq Workers /\ Workers \subseteq Tasks
      /\ Callers \subseteq Tasks /\ \A t \in Tasks : task[t].waits \subseteq Workers
  BY DEF TypeInv, TaskType, Tasks, Records
<1>c. \A w \in cancelled : Holds(w) BY DEF CancelledHolds
<1>1. CASE UNCHANGED <<task, cancelled, background>>
  BY <1>1 DEF CancelledHolds, GatheredLive, WorkersWork, Holds
<1>2. ASSUME NEW t \in Callers, NEW j, Add(t, j) PROVE TasksInv'
  BY <1>a, <1>b, <1>2, DispatchMoves, TaskMoves DEF Add
<1>3. ASSUME NEW w \in Workers, NEW j, AddDelayed(w, j) PROVE TasksInv'
  <2>1. task'[w] = Suspended("created", j, 0, 0, {}) /\ OthersKept(w)
        /\ \A u \in Tasks \ {w} : task'[u].waits = task[u].waits
    BY <1>b, <1>3 DEF AddDelayed, OthersKept
  <2>2. task'[w].pc = "created" /\ task'[w].waits = {} BY <2>1 DEF Suspended
  <2>3. QED BY <1>b, <1>3, <2>1, <2>2, TaskMoves DEF AddDelayed, Holds, Holding
<1>4. ASSUME NEW t \in Callers, NEW j \in failed, RetryFailed(t, j) PROVE TasksInv'
  BY <1>a, <1>b, <1>4, DispatchMoves, TaskMoves DEF RetryFailed
<1>5. ASSUME NEW t \in Tasks, DelayOver(t) PROVE TasksInv'
  BY <1>a, <1>b, <1>5, DispatchMoves, TaskMoves DEF DelayOver, Holding
<1>6. CASE Clear
  <2>1. \A w \in Cancellable : Holds(w) BY CancellableHolds
  <2>2. QED BY <1>6, <1>b, <2>1 DEF Clear, CancelledHolds, GatheredLive, WorkersWork, Holds, Cancellable
<1>7. ASSUME NEW t \in Callers, Close(t) PROVE TasksInv'
  <2>1. t \in Tasks /\ t \notin Workers BY <1>a, <1>b
  <2>2. task'[t].waits = background /\ OthersKept(t)
        /\ \A u \in Tasks \ {t} : task'[u].waits = task[u].waits
    BY <1>b, <1>7, <2>1 DEF Close, OthersKept, Suspended
  <2>3. \A w \in Workers : task'[w].pc = task[w].pc BY <1>b, <2>1, <2>2 DEF OthersKept
  <2>4. CancelledHolds'
    BY <1>b, <1>7, <2>3, CancellableHolds DEF Close, CancelledHolds, Holds, Cancellable
  <2>5. GatheredLive'
    <3>1. ASSUME NEW w \in Workers, NEW u \in Tasks, w \in task'[u].waits
          PROVE  w \in background \/ w \in task[u].waits
      BY <2>2, <3>1
    <3>2. QED BY <1>7, <2>3, <3>1 DEF Close, GatheredLive
  <2>6. WorkersWork' BY <2>3 DEF WorkersWork
  <2>7. QED BY <2>4, <2>5, <2>6
<1>8. ASSUME NEW t \in Callers, CancelCaller(t) PROVE TasksInv'
  <2>1. t \in Tasks /\ t \notin Workers BY <1>a, <1>b
  <2>2. OthersKept(t) /\ task'[t].waits = {}
        /\ \A u \in Tasks \ {t} : task'[u].waits = task[u].waits
    BY <1>b, <1>8, <2>1 DEF CancelCaller, OthersKept, Idle, Suspended
  <2>3. QED BY <1>b, <1>8, <2>1, <2>2, TaskMoves DEF CancelCaller
<1>9. ASSUME NEW t \in Callers, CancelWaiter(t) PROVE TasksInv'
  <2>1. t \in Tasks /\ t \notin Workers BY <1>a, <1>b
  <2>2. \A w \in Workers : task'[w].pc = task[w].pc
    BY <1>b, <1>9, <2>1 DEF CancelWaiter
  <2>3. \A u \in Tasks : task'[u].waits = task[u].waits
    BY <1>b, <1>9, <2>1 DEF CancelWaiter, Records
  <2>4. CancelledHolds'
    BY <1>b, <1>9, <2>1, <2>2, CancellableHolds DEF CancelWaiter, CancelledHolds, Holds
  <2>5. GatheredLive' BY <1>9, <2>2, <2>3 DEF CancelWaiter, GatheredLive
  <2>6. WorkersWork' BY <2>2 DEF WorkersWork
  <2>7. QED BY <2>4, <2>5, <2>6
<1>10. ASSUME NEW t \in Callers, WaitLoop(t) PROVE TasksInv'
  <2>1. t \in Tasks /\ t \notin Workers /\ t \notin cancelled BY <1>a, <1>b
  <2>2. OthersKept(t) /\ task'[t].waits \subseteq background
        /\ \A u \in Tasks \ {t} : task'[u].waits = task[u].waits
    BY <1>b, <1>10, <2>1 DEF WaitLoop, OthersKept, Idle, Suspended
  <2>3. QED BY <1>10, <2>1, <2>2, TaskMoves DEF WaitLoop
<1>11. ASSUME NEW t \in Tasks, WaitResumes(t) \/ CloseReturns(t) \/ Unwound(t)
       PROVE TasksInv'
  <2>1. t \notin Workers /\ t \in Callers
    BY <1>11 DEF WaitResumes, CloseReturns, Unwound, WorkersWork, Holding, Tasks
  <2>2. CASE WaitResumes(t) BY <1>10, <2>1, <2>2 DEF WaitResumes
  <2>3. CASE CloseReturns(t) \/ Unwound(t)
    <3>1. OthersKept(t) /\ task'[t].waits = {}
          /\ \A u \in Tasks \ {t} : task'[u].waits = task[u].waits
      BY <1>b, <2>3 DEF CloseReturns, Unwound, OthersKept, Idle, Suspended
    <3>2. t \notin cancelled BY <1>b, <2>1
    <3>3. QED BY <2>1, <2>3, <3>1, <3>2, TaskMoves DEF CloseReturns, Unwound
  <2>4. QED BY <1>11, <2>2, <2>3
<1>12. ASSUME NEW t \in Tasks, HandlerOk(t) \/ HandlerRaises(t) PROVE TasksInv'
  <2>1. OthersKept(t) /\ \A u \in Tasks \ {t} : task'[u].waits = task[u].waits
    BY <1>b, <1>12 DEF HandlerOk, HandlerRaises, Finish, OthersKept
  <2>2. task'[t].waits \subseteq task[t].waits
    BY <1>b, <1>12 DEF HandlerOk, HandlerRaises, Finish, Returned, Idle, Suspended, Records
  <2>3. t \in Workers => task'[t].pc \in Holding \cup {"ended"}
    BY <1>a, <1>b, <1>12 DEF HandlerOk, HandlerRaises, Finish, Returned, Suspended, Holding, Records
  <2>4. QED BY <1>12, <2>1, <2>2, <2>3, TaskMoves DEF HandlerOk, HandlerRaises
<1>13. ASSUME NEW t \in Tasks, StartSleep(t) \/ BackoffOver(t) PROVE TasksInv'
  <2>1. OthersKept(t) /\ \A u \in Tasks \ {t} : task'[u].waits = task[u].waits
    BY <1>b, <1>13 DEF StartSleep, BackoffOver, OthersKept
  <2>2. task'[t].waits \subseteq task[t].waits /\ task'[t].pc \in Holding
    BY <1>b, <1>13 DEF StartSleep, BackoffOver, Suspended, Records, Holding
  <2>3. QED BY <1>13, <2>1, <2>2, TaskMoves DEF StartSleep, BackoffOver
<1>14. ASSUME NEW w \in Tasks, CancelWorker(w) PROVE TasksInv'
  <2>1. w \in Workers /\ w \notin Callers BY <1>a, <1>b, <1>14 DEF CancelWorker
  <2>2. OthersKept(w) /\ \A u \in Tasks \ {w} : task'[u].waits = task[u].waits
    BY <1>b, <1>14 DEF CancelWorker, OthersKept
  <2>3. task'[w].waits = {} /\ task'[w].pc = "ended"
    BY <1>b, <1>14, <2>1 DEF CancelWorker, Returned, Suspended
  <2>4. QED BY <1>14, <2>2, <2>3, TaskMoves DEF CancelWorker
<1>15. ASSUME NEW w \in Tasks, DoneCallback(w) PROVE TasksInv'
  <2>1. \A u \in Tasks \ {w} : task'[u].pc = task[u].pc /\ task'[u].waits = task[u].waits \ {w}
    BY <1>b, <1>15 DEF DoneCallback, Records
  <2>2. task'[w].pc = "idle" /\ task'[w].waits = {} /\ task[w].pc = "ended"
    BY <1>b, <1>15 DEF DoneCallback, Idle, Suspended
  <2>3. cancelled' = cancelled /\ background' = background \ {w} BY <1>15 DEF DoneCallback
  <2>4. CancelledHolds' BY <1>b, <1>c, <2>1, <2>2, <2>3 DEF CancelledHolds, Holds, Holding
  <2>5. GatheredLive' BY <1>b, <2>1, <2>2, <2>3 DEF GatheredLive
  <2>6. WorkersWork' BY <1>b, <2>1, <2>2 DEF WorkersWork
  <2>7. QED BY <2>4, <2>5, <2>6
<1>16. CASE Calls
  <2>1. CASE SomeAdd BY <1>2, <1>3, <2>1 DEF SomeAdd
  <2>2. CASE \E q \in Queues, h \in Handlers : Register(q, h) BY <1>1, <2>2 DEF Register
  <2>3. ASSUME NEW books, NEW qs, Clean(books, qs) PROVE TasksInv'
    BY <1>1, <2>3 DEF Clean
  <2>4. ASSUME NEW t \in Callers, WaitUntilIdle(t) PROVE TasksInv'
    BY <1>10, <2>4 DEF WaitUntilIdle
  <2>5. QED
    BY <1>4, <1>6, <1>7, <1>8, <1>9, <1>16, <2>1, <2>2, <2>3, <2>4 DEF Calls
<1>17. ASSUME NEW t \in Tasks, TaskStep(t) PROVE TasksInv'
  BY <1>5, <1>11, <1>12, <1>13, <1>14, <1>15, <1>17 DEF TaskStep
<1>18. CASE UNCHANGED vars BY <1>1, <1>18 DEF vars
<1>19. QED BY <1>16, <1>17, <1>18 DEF Next

\* The facts about tasks and kept keys that the steps below share.
LEMMA TypeFacts ==
  ASSUME TypeInv, BooksInv
  PROVE  /\ task \in [Tasks -> Records] /\ cancelled \subseteq Workers
         /\ Workers \subseteq Tasks /\ Callers \subseteq Tasks
         /\ failed \subseteq Jobs /\ completed \subseteq Jobs
         /\ \A t \in Tasks : Holds(t) => task[t].job \in Jobs /\ Key(task[t].job) \in Known
                                          /\ Key(task[t].job)[2] = task[t].job.id
         /\ RecordsApart(backend) /\ IdsTold /\ RecordKeys(backend) \subseteq Known
<1>1. /\ task \in [Tasks -> Records] /\ cancelled \subseteq Workers
      /\ Workers \subseteq Tasks /\ Callers \subseteq Tasks
      /\ failed \subseteq Jobs /\ completed \subseteq Jobs
  BY DEF TypeInv, TaskType, Tasks
<1>2. \A t \in Tasks : Holds(t) => task[t].job \in Jobs /\ Key(task[t].job) \in Known
                                   /\ Key(task[t].job)[2] = task[t].job.id
  BY KnownKeys DEF TypeInv, TaskType, Holds, Holding
<1>3. RecordsApart(backend) /\ IdsTold /\ RecordKeys(backend) \subseteq Known
  BY DEF BooksInv, Known
<1>4. QED BY <1>1, <1>2, <1>3

\* add() without a delay.
LEMMA AddTakes ==
  ASSUME TypeInv, BooksInv, NEW t \in Callers, NEW j \in Jobs, j.id \notin used, Add(t, j)
  PROVE  /\ t \in Tasks /\ Taken(t, j, BackendAdd(backend, j)) /\ Key(j) \notin Known
         /\ Key(j) \in RecordKeys(BackendAdd(backend, j))
<1>1. /\ \A k \in Known : k[2] # j.id
      /\ Key(j) \notin Known /\ \A e \in backend : e.id # j.id
  BY TypeFacts, FreshKey
<1>2. Gains(backend, BackendAdd(backend, j), j, "waiting") BY <1>1, TypeFacts, AddGains
<1>3. /\ completed' = completed /\ failed' = failed /\ failed' = deadLetter'
      /\ delayed' = delayed /\ handlers' = handlers /\ used' = used \cup {j.id}
  BY DEF Add, BooksInv, FailedMirrored
<1>4. Free(t, j)
  <2>1. KeysOf(Listed)' = KeysOf(Listed) BY <1>3 DEF KeysOf, Listed
  <2>2. QED BY <1>1, <1>3, <2>1, TypeFacts DEF Free, Known
<1>5. t \in Tasks /\ ~Running(t) /\ ~Holds(t) /\ Dispatch(t, j, BackendAdd(backend, j))
  BY TypeFacts DEF Add, Running, Holds, Holding
<1>6. QED BY <1>1, <1>2, <1>3, <1>4, <1>5 DEF Gains, Taken

LEMMA RetryTakes ==
  ASSUME TypeInv, BooksInv, NEW t \in Callers, NEW j \in failed, RetryFailed(t, j)
  PROVE  t \in Tasks /\ j \in Jobs /\ Taken(t, j, backend)
<1>1. j \in Jobs /\ j \in Listed /\ Key(j) \in Known /\ Key(j)[2] = j.id
  BY TypeFacts, KnownKeys DEF Listed
<1>2. \A d \in failed : d.id = j.id => d = j
  <2>1. \A d \in failed : d \in Listed /\ Key(d) \in Known /\ Key(d)[2] = d.id
    BY KnownKeys DEF Listed
  <2>2. QED BY <1>1, <2>1, TypeFacts DEF IdsTold, BooksInv, ListedOnce
<1>3. /\ completed' = completed /\ failed' = failed \ {j} /\ failed' = deadLetter'
      /\ delayed' = delayed /\ handlers' = handlers /\ used' = used
  BY <1>2 DEF RetryFailed, WithoutRetried, WithoutDead, BooksInv, FailedMirrored
<1>4. Key(j) \in KeysOf(Listed) BY <1>1 DEF KeysOf
<1>5. Key(j) \notin active
  <2>1. \A k \in active : \E u \in Tasks : Holds(u) /\ Key(task[u].job) = k
    BY RunningHolds DEF BooksInv, ActiveHasRunner
  <2>2. QED BY <1>4, <2>1 DEF BooksInv, HeldUnlisted
<1>6. Key(j) \notin KeysOf(Listed)'
  <2>1. \A i \in Listed' : i \in Listed /\ i # j
    BY <1>3 DEF Listed, BooksInv, ListedOnce
  <2>2. \A i \in Listed' : Key(i) # Key(j) BY <1>1, <2>1 DEF BooksInv, ListedOnce
  <2>3. QED BY <2>2 DEF KeysOf
<1>7. Free(t, j)
  BY <1>3, <1>4, <1>5, <1>6 DEF Free, BooksInv, DelayedRests, HeldUnlisted
<1>8. t \in Tasks /\ ~Running(t) /\ ~Holds(t) /\ Dispatch(t, j, backend)
  BY TypeFacts DEF RetryFailed, Running, Holds, Holding
<1>9. j.id \in used' /\ \A k \in Known : k[2] = j.id => k = Key(j)
  BY <1>1, <1>3, TypeFacts DEF IdsTold
<1>10. QED BY <1>1, <1>3, <1>7, <1>8, <1>9, TypeFacts DEF Taken

LEMMA DelayTakes ==
  ASSUME TypeInv, BooksInv, NEW t \in Tasks, DelayOver(t)
  PROVE  task[t].job \in Jobs /\ Taken(t, task[t].job, backend)
<1>. DEFINE j == task[t].job
<1>1. Holds(t) /\ ~Running(t) BY DEF DelayOver, Holds, Holding, Running
<1>2. j \in Jobs /\ Key(j) \in Known /\ Key(j)[2] = j.id BY <1>1, TypeFacts
<1>3. /\ completed' = completed /\ failed' = failed /\ failed' = deadLetter'
      /\ delayed' = delayed \ {Key(j)} /\ handlers' = handlers /\ used' = used
  BY DEF DelayOver, BooksInv, FailedMirrored
<1>4. Key(j) \notin active
  <2>1. \A k \in active : \E u \in Tasks : Running(u) /\ Key(task[u].job) = k
    BY DEF BooksInv, ActiveHasRunner
  <2>2. QED BY <1>1, <2>1, RunningHolds DEF BooksInv, HeldOnce
<1>5. Free(t, j)
  <2>1. KeysOf(Listed)' = KeysOf(Listed) BY <1>3 DEF KeysOf, Listed
  <2>2. QED BY <1>1, <1>3, <1>4, <2>1 DEF Free, BooksInv, HeldUnlisted, HeldOnce
<1>6. j.id \in used' /\ \A k \in Known : k[2] = j.id => k = Key(j)
  BY <1>2, <1>3, TypeFacts DEF IdsTold
<1>7. Dispatch(t, j, backend) BY DEF DelayOver
<1>8. QED BY <1>1, <1>2, <1>3, <1>5, <1>6, <1>7, TypeFacts DEF Taken

LEMMA BooksStep ==
  ASSUME FreshIds, TypeInv, TypeInv', BooksInv, TasksInv, [Next]_vars
  PROVE  BooksInv'
<1>a. /\ task \in [Tasks -> Records] /\ task' \in [Tasks -> Records]
      /\ cancelled \subseteq Workers /\ Workers \subseteq Tasks /\ Callers \subseteq Tasks
      /\ failed \subseteq Jobs /\ completed \subseteq Jobs
  BY DEF TypeInv, TaskType, Tasks
<1>b. \A t \in Tasks : Holds(t) => task[t].job \in Jobs /\ Key(task[t].job) \in Known
                                   /\ Key(task[t].job)[2] = task[t].job.id
  BY KnownKeys DEF TypeInv, TaskType, Holds, Holding
<1>c. RecordsApart(backend) /\ IdsTold /\ RecordKeys(backend) \subseteq Known
  BY DEF BooksInv, Known
<1>1. ASSUME NEW t \in Callers, NEW j \in Jobs, j.id \notin used, Add(t, j) PROVE BooksInv'
  BY <1>1, AddTakes, Dispatched
<1>2. ASSUME NEW t \in Callers, NEW j \in failed, RetryFailed(t, j) PROVE BooksInv'
  BY <1>2, RetryTakes, Dispatched
<1>3. ASSUME NEW t \in Tasks, DelayOver(t) PROVE BooksInv'
  BY <1>3, DelayTakes, Dispatched
<1>4. ASSUME NEW t \in Tasks, HandlerOk(t) \/ HandlerRaises(t) PROVE BooksInv'
  <2>. DEFINE j == task[t].job
  <2>1. Holds(t) /\ Running(t) BY <1>4 DEF HandlerOk, HandlerRaises, Holds, Holding, Running
  <2>2. j \in Jobs /\ handlers[j.queue] # <<>>
    <3>1. task[t].hi \in 1..Len(handlers[j.queue]) BY <2>1 DEF TypeInv, TaskType, Running
    <3>2. Len(<<>>) = 0 OBVIOUS
    <3>3. handlers[j.queue] # <<>> BY <3>1, <3>2
    <3>4. QED BY <1>b, <2>1, <3>3
  <2>3. OthersKept(t) /\ UNCHANGED <<handlers, used, delayed>>
    BY <1>a, <1>4 DEF HandlerOk, HandlerRaises, Finish, OthersKept
  <2>4. CASE (HandlerOk(t) /\ MoreHandlers(t)) \/ (HandlerRaises(t) /\ MoreAttempts(t))
    <3>1. Running(t)' /\ Holds(t)' /\ task'[t].job = j
      BY <1>a, <2>4 DEF HandlerOk, HandlerRaises, Suspended, Running, Holds, Holding, Records
    <3>2. SameJobs BY <2>1, <2>3, <3>1, OthersHold DEF SameJobs
    <3>3. UNCHANGED <<backend, active, delayed, completed, failed, deadLetter, used, handlers>>
      BY <2>4 DEF HandlerOk, HandlerRaises
    <3>4. QED BY <3>2, <3>3, Undisturbed
  <2>5. CASE HandlerOk(t) /\ ~MoreHandlers(t)
    <3>1. ~Holds(t)'
      BY <1>a, <2>5 DEF HandlerOk, Finish, Returned, Idle, Suspended, Holds, Holding
    <3>2. Filing(t, {j}, {}) /\ active' = active \ {Key(j)}
      BY <2>2, <2>5 DEF HandlerOk, Finish, Filing
    <3>3. QED BY <2>1, <2>3, <3>1, <3>2, LetGo
  <2>6. CASE HandlerRaises(t) /\ ~MoreAttempts(t)
    <3>1. ~Holds(t)'
      BY <1>a, <2>6 DEF HandlerRaises, Finish, Returned, Idle, Suspended, Holds, Holding
    <3>2. Filing(t, {}, {j}) /\ active' = active \ {Key(j)}
      BY <2>2, <2>6 DEF HandlerRaises, Finish, Filing
    <3>3. QED BY <2>1, <2>3, <3>1, <3>2, LetGo
  <2>7. QED BY <1>4, <2>4, <2>5, <2>6
<1>5. ASSUME NEW t \in Tasks, CancelWorker(t) \/ (t \in Callers /\ CancelCaller(t)) PROVE BooksInv'
  <2>1. Holds(t)
    BY <1>5, RunningHolds DEF CancelWorker, CancelCaller, TasksInv, CancelledHolds
  <2>2. OthersKept(t) /\ ~Holds(t)'
    BY <1>a, <1>5 DEF CancelWorker, CancelCaller, OthersKept, Returned, Idle, Suspended, Holds, Holding
  <2>3. Filing(t, {}, {}) /\ UNCHANGED <<handlers, used>>
    BY <1>5 DEF CancelWorker, CancelCaller, Filing
  <2>4. delayed' \subseteq delayed
        /\ (active' = active \ {Key(task[t].job)} \/ (active' = active /\ ~Running(t)))
    BY <1>5 DEF CancelWorker, CancelCaller
  <2>5. QED BY <2>1, <2>2, <2>3, <2>4, LetGo
<1>6. CASE SomeAdd
  <2>1. PICK q \in Queues, i \in IdChoices, m \in 1..MaxAttempts, bo \in Backoffs :
          \/ \E t \in Callers : Add(t, NewJob(q, i, m, bo))
          \/ \E w \in Workers : AddDelayed(w, NewJob(q, i, m, bo))
    BY <1>6 DEF SomeAdd
  <2>2. added < MaxAdds /\ i \in Ids /\ i \notin used /\ added \in 0..MaxAdds
    BY <1>6 DEF SomeAdd, IdChoices, TypeInv
  <2>3. NewJob(q, i, m, bo) \in Jobs /\ NewJob(q, i, m, bo).id = i BY <2>2, NewJobType
  <2>4. QED BY <1>1, <2>1, <2>2, <2>3, DelayedAdded
<1>7. ASSUME NEW q \in Queues, NEW h \in Handlers, Register(q, h) PROVE BooksInv'
  <2>1. SameJobs BY <1>7 DEF Register, SameJobs, Running, Holds
  <2>2. ASSUME NEW p \in Queues, handlers[p] # <<>> PROVE handlers'[p] # <<>>
    <3>1. CASE p = q
      <4>1. handlers'[p] = Append(handlers[p], h) /\ handlers[p] \in Seq(Handlers)
        BY <1>7, <3>1 DEF Register, TypeInv
      <4>2. QED BY <4>1
    <3>2. CASE p # q BY <1>7, <2>2, <3>2 DEF Register, TypeInv
    <3>3. QED BY <3>1, <3>2
  <2>3. \A j \in failed : j.queue \in Queues BY <1>a DEF Jobs
  <2>4. QED BY <1>7, <2>1, <2>2, <2>3, Undisturbed DEF Register
<1>8. ASSUME UNCHANGED <<backend, active, delayed, completed, failed, deadLetter, used, handlers>>,
             SameJobs
      PROVE  BooksInv'
  BY <1>8, Undisturbed
<1>9. ASSUME NEW t \in Callers, Close(t) \/ CancelWaiter(t) \/ WaitUntilIdle(t) PROVE BooksInv'
  <2>1. /\ OthersKept(t) /\ ~Holds(t) /\ ~Holds(t)' /\ ~Running(t) /\ ~Running(t)'
    BY <1>a, <1>9 DEF Close, CancelWaiter, WaitUntilIdle, WaitLoop, OthersKept, Idle, Suspended,
                      Holds, Holding, Running, Records
  <2>2. SameJobs BY <1>a, <2>1, OthersHold DEF SameJobs
  <2>3. QED BY <1>8, <1>9, <2>2 DEF Close, CancelWaiter, WaitUntilIdle, WaitLoop
<1>10. ASSUME NEW t \in Tasks, StartSleep(t) \/ BackoffOver(t) PROVE BooksInv'
  <2>1. /\ OthersKept(t) /\ Holds(t) /\ Holds(t)' /\ (Running(t) <=> Running(t)')
        /\ task'[t].job = task[t].job
    BY <1>a, <1>10 DEF StartSleep, BackoffOver, OthersKept, Suspended, Holds, Holding, Running,
                       Records
  <2>2. SameJobs BY <2>1, OthersHold DEF SameJobs
  <2>3. QED BY <1>8, <1>10, <2>2 DEF StartSleep, BackoffOver
<1>11. ASSUME NEW w \in Tasks, DoneCallback(w) PROVE BooksInv'
  <2>1. OthersKept(w) BY <1>a, <1>11 DEF DoneCallback, OthersKept, Records
  <2>2. ~Holds(w) /\ ~Holds(w)' /\ ~Running(w) /\ ~Running(w)'
    BY <1>a, <1>11 DEF DoneCallback, Idle, Suspended, Holds, Holding, Running
  <2>3. SameJobs BY <2>1, <2>2, OthersHold DEF SameJobs
  <2>4. QED BY <1>8, <1>11, <2>3 DEF DoneCallback
<1>12. ASSUME NEW t \in Tasks, WaitResumes(t) \/ Unwound(t) PROVE BooksInv'
  <2>1. OthersKept(t) /\ ~Holds(t) /\ ~Holds(t)' /\ ~Running(t) /\ ~Running(t)'
    BY <1>a, <1>12 DEF WaitResumes, WaitLoop, Unwound, OthersKept, Idle, Suspended, Holds,
                       Holding, Running
  <2>2. SameJobs BY <2>1, OthersHold DEF SameJobs
  <2>3. QED BY <1>8, <1>12, <2>2 DEF WaitResumes, WaitLoop, Unwound
<1>13. CASE Calls
  <2>1. ASSUME NEW t \in Callers, Close(t) \/ WaitUntilIdle(t) \/ CancelCaller(t) \/ CancelWaiter(t)
        PROVE  BooksInv'
    BY <1>a, <1>5, <1>9, <2>1
  <2>2. ASSUME NEW books, NEW qs, Clean(books, qs) PROVE BooksInv'
    BY <2>2, Cleaned
  <2>3. QED BY <1>2, <1>6, <1>7, <1>13, <2>1, <2>2, Cleared DEF Calls
<1>14. ASSUME NEW t \in Tasks, TaskStep(t) PROVE BooksInv'
  BY <1>3, <1>4, <1>5, <1>10, <1>11, <1>12, <1>14, Closed DEF TaskStep
<1>15. CASE UNCHANGED vars
  <2>1. SameJobs BY <1>15 DEF vars, SameJobs, Running, Holds
  <2>2. QED BY <1>8, <1>15, <2>1 DEF vars
<1>16. QED BY <1>13, <1>14, <1>15 DEF Next

LEMMA BooksInit == Init => BooksInv /\ TasksInv
<1>. SUFFICES ASSUME Init PROVE BooksInv /\ TasksInv OBVIOUS
<1>1. \A t \in Tasks : task[t].pc = "idle" /\ task[t].waits = {} BY DEF Init, Idle, Suspended
<1>2. \A t \in Tasks : ~Holds(t) /\ ~Running(t) BY <1>1 DEF Holds, Holding, Running
<1>3. Listed = {} /\ KeysOf(Listed) = {} /\ KeysOf({}) = {} BY DEF Init, Listed, KeysOf
<1>4. HeldKeys = {} /\ RecordKeys(backend) = {} /\ Known = {}
  BY <1>2, <1>3 DEF Init, HeldKeys, RecordKeys, Known
<1>5. RecordsApart(backend)
  <2>1. 0 \in Nat OBVIOUS
  <2>2. QED BY <2>1 DEF Init, RecordsApart
<1>6. BooksInv
  BY <1>2, <1>3, <1>4, <1>5
     DEF Init, BooksInv, IdsTold, HeldOnce, HeldUnlisted, ListedOnce, DelayedRests, ListedRecorded,
         UnlistedUnrecorded, FailedMirrored, FailedHadHandlers, ActiveHasRunner
<1>7. TasksInv
  BY <1>1, <1>2 DEF Init, TasksInv, CancelledHolds, GatheredLive, WorkersWork, Tasks
<1>8. QED BY <1>6, <1>7

LEMMA BooksAlways ==
  ASSUME FreshIds
  PROVE  Spec => [](TypeInv /\ TasksInv /\ BooksInv)
<1>1. TypeInv /\ TypeInv' /\ TasksInv /\ BooksInv /\ [Next]_vars => TasksInv' /\ BooksInv'
  BY TasksStep, BooksStep
<1>2. Spec => []TypeInv BY TypeCorrect, TypeInvIsTypeOK, PTL
<1>3. QED BY <1>1, <1>2, BooksInit, PTL DEF Spec

\* With ids of its own a job is in at most one of _active, _delayed, _completed
\* and _failed, and _dead_letter mirrors _failed, whatever is added, retried,
\* cleaned, cleared, closed or cancelled meanwhile.
THEOREM BooksKept ==
  ASSUME FreshIds
  PROVE  Spec => []BooksAgree
<1>1. BooksInv => BooksAgree
  <2>. SUFFICES ASSUME BooksInv PROVE BooksAgree OBVIOUS
  <2>1. \A k \in active : \E t \in Tasks : Running(t) /\ Holds(t) /\ Key(task[t].job) = k
    BY RunningHolds DEF BooksInv, ActiveHasRunner
  <2>2. active \cap delayed = {} BY <2>1 DEF BooksInv, DelayedRests
  <2>3. (active \cup delayed) \cap KeysOf(Listed) = {}
    BY <2>1 DEF BooksInv, HeldUnlisted, DelayedRests
  <2>4. QED BY <2>2, <2>3 DEF BooksInv, BooksAgree, OneBook, Listed, ListedOnce
<1>2. QED BY <1>1, BooksAlways, PTL

\* With ids of its own the backend holds one record per job, and the status of
\* that record is the one of the book that lists the job.
THEOREM RecordsFollowBooks ==
  ASSUME FreshIds
  PROVE  Spec => []BackendAgrees
<1>1. BooksInv => BackendAgrees
  <2>. SUFFICES ASSUME BooksInv PROVE BackendAgrees OBVIOUS
  <2>1. \A e, f \in backend : Key(e) = Key(f) => e = f
    <3>1. \A e \in backend : Key(e)[2] = e.id BY DEF Key
    <3>2. QED BY <3>1 DEF BooksInv, RecordsApart
  <2>2. \A k \in active : Recorded(backend, k, StatusOf(k))
    BY DEF BooksInv, ListedRecorded, StatusOf
  <2>3. \A k \in active : \E t \in Tasks : Running(t) /\ Holds(t) /\ Key(task[t].job) = k
    BY RunningHolds DEF BooksInv, ActiveHasRunner
  <2>4. \A k \in delayed : Recorded(backend, k, StatusOf(k))
    BY <2>3 DEF BooksInv, ListedRecorded, DelayedRests, StatusOf
  <2>5. \A k \in KeysOf(Listed) : k \notin active /\ k \notin delayed
    BY <2>3 DEF BooksInv, HeldUnlisted, DelayedRests
  <2>6. \A k \in KeysOf(completed) : Recorded(backend, k, StatusOf(k))
    <3>1. KeysOf(completed) \subseteq KeysOf(Listed) BY DEF KeysOf, Listed
    <3>2. QED BY <2>5, <3>1 DEF BooksInv, ListedRecorded, StatusOf
  <2>7. \A k \in KeysOf(failed) : Recorded(backend, k, StatusOf(k))
    <3>1. \A k \in KeysOf(failed) : k \in KeysOf(Listed) /\ k \notin KeysOf(completed)
      BY DEF KeysOf, Listed, BooksInv, ListedOnce
    <3>2. QED BY <2>5, <3>1 DEF BooksInv, ListedRecorded, StatusOf
  <2>8. KeysOf(completed \cup failed) = KeysOf(completed) \cup KeysOf(failed) BY DEF KeysOf
  <2>9. QED BY <2>1, <2>2, <2>4, <2>6, <2>7, <2>8 DEF BackendAgrees, Recorded
<1>2. QED BY <1>1, BooksAlways, PTL

-----------------------------------------------------------------------------
(* The life cycle *)

\* A listed job that runs has succeeded in every handler before its own; so
\* one that is completed has succeeded in all.
LEMMA AttemptsStep ==
  ASSUME FreshIds, TypeInv, TypeInv', BooksInv, BooksInv', AttemptsLogged, [Next]_vars
  PROVE  AttemptsLogged'
<1>a. /\ task \in [Tasks -> Records] /\ task' \in [Tasks -> Records]
      /\ attempts \in [Keys -> [ok: Nat, bad: Nat]] /\ attempts' \in [Keys -> [ok: Nat, bad: Nat]]
      /\ cancelled \subseteq Workers /\ Workers \subseteq Tasks /\ Callers \subseteq Tasks
  BY DEF TypeInv, TaskType, Tasks
<1>b. \A t \in Tasks : Running(t) => task[t].job \in Jobs /\ Key(task[t].job) \in Keys
  BY KeyType DEF TypeInv, TaskType, Running
<1>1. ASSUME NEW t \in Tasks, OthersKept(t), \A u \in Tasks \ {t} : task'[u].hi = task[u].hi,
             active' \subseteq active \/ (Running(t)' /\ active' \subseteq active \cup {Key(task'[t].job)}),
             \A k \in Keys : attempts'[k].ok >= attempts[k].ok,
             Running(t)' => attempts'[Key(task'[t].job)].ok >= task'[t].hi - 1
      PROVE  AttemptsLogged'
  <2>1. ASSUME NEW u \in Tasks, Running(u)', Key(task'[u].job) \in active', u # t
        PROVE  attempts'[Key(task'[u].job)].ok >= task'[u].hi - 1
    <3>1. Running(u) /\ task'[u].job = task[u].job /\ task'[u].hi = task[u].hi
      BY <1>1, <2>1, OthersHold
    <3>2. Running(t)' => Key(task'[u].job) # Key(task'[t].job)
      <4>1. \A v \in Tasks : Running(v)' => Holds(v)' BY DEF Running, Holds, Holding
      <4>2. QED BY <2>1, <4>1 DEF BooksInv, HeldOnce
    <3>3. Key(task[u].job) \in active BY <1>1, <2>1, <3>1, <3>2
    <3>4. attempts[Key(task[u].job)].ok >= task[u].hi - 1 BY <3>1, <3>3 DEF AttemptsLogged
    <3>5. Key(task[u].job) \in Keys BY <1>b, <3>1
    <3>6. /\ attempts'[Key(task[u].job)].ok >= attempts[Key(task[u].job)].ok
          /\ attempts'[Key(task[u].job)].ok \in Nat /\ attempts[Key(task[u].job)].ok \in Nat
          /\ task[u].hi \in Nat
      BY <1>1, <1>a, <3>5 DEF Records
    <3>7. QED BY <3>1, <3>4, <3>6
  <2>2. QED BY <1>1, <2>1 DEF AttemptsLogged
<1>2. ASSUME UNCHANGED attempts, active' \subseteq active,
             \A t \in Tasks : Running(t)' => Running(t) /\ task'[t].job = task[t].job
                                              /\ task'[t].hi = task[t].hi
      PROVE AttemptsLogged'
  BY <1>2 DEF AttemptsLogged
<1>3. ASSUME NEW t \in Tasks, NEW j \in Jobs, NEW b, Dispatch(t, j, b), UNCHANGED attempts
      PROVE  AttemptsLogged'
  <2>1. OthersKept(t) /\ \A u \in Tasks \ {t} : task'[u].hi = task[u].hi
    BY <1>a, <1>3 DEF Dispatch, OthersKept
  <2>2. \A k \in Keys : attempts'[k].ok \in Nat /\ attempts'[k].ok >= attempts[k].ok
    BY <1>a, <1>3
  <2>3. CASE handlers[j.queue] = <<>>
    <3>1. active' \subseteq active /\ ~Running(t)'
      BY <1>a, <1>3, <2>3 DEF Dispatch, Returned, Idle, Suspended, Running
    <3>2. QED BY <1>1, <2>1, <2>2, <3>1
  <2>4. CASE handlers[j.queue] # <<>>
    <3>1. /\ active' = active \cup {Key(j)} /\ Running(t)' /\ task'[t].job = j /\ task'[t].hi = 1
      BY <1>a, <1>3, <2>4 DEF Dispatch, Suspended, Running
    <3>2. attempts'[Key(j)].ok >= 0 BY <2>2, KeyType
    <3>3. QED BY <1>1, <2>1, <2>2, <3>1, <3>2
  <2>5. QED BY <2>3, <2>4
<1>4. ASSUME NEW t \in Callers, NEW j \in Jobs, Add(t, j) PROVE AttemptsLogged'
  BY <1>3, <1>4, <1>a DEF Add
<1>5. ASSUME NEW w \in Workers, NEW j \in Jobs, AddDelayed(w, j) PROVE AttemptsLogged'
  BY <1>2, <1>5, <1>a DEF AddDelayed, Suspended, Running
<1>6. CASE SomeAdd
  <2>1. PICK q \in Queues, i \in IdChoices, m \in 1..MaxAttempts, bo \in Backoffs :
          \/ \E t \in Callers : Add(t, NewJob(q, i, m, bo))
          \/ \E w \in Workers : AddDelayed(w, NewJob(q, i, m, bo))
    BY <1>6 DEF SomeAdd
  <2>2. added < MaxAdds /\ i \in Ids /\ added \in 0..MaxAdds
    BY <1>6 DEF SomeAdd, IdChoices, TypeInv
  <2>3. NewJob(q, i, m, bo) \in Jobs BY <2>2, NewJobType
  <2>4. QED BY <1>4, <1>5, <2>1, <2>3
<1>7. ASSUME NEW t \in Callers, NEW j \in failed, RetryFailed(t, j) PROVE AttemptsLogged'
  <2>1. t \in Tasks /\ j \in Jobs BY <1>a DEF TypeInv
  <2>2. QED BY <1>3, <1>7, <2>1 DEF RetryFailed
<1>8. ASSUME NEW t \in Tasks, DelayOver(t) PROVE AttemptsLogged'
  <2>1. task[t].job \in Jobs BY <1>8 DEF DelayOver, TypeInv, TaskType
  <2>2. QED BY <1>3, <1>8, <2>1 DEF DelayOver
<1>9. ASSUME NEW t \in Tasks, HandlerOk(t) \/ HandlerRaises(t) PROVE AttemptsLogged'
  <2>. DEFINE k == Key(task[t].job)
  <2>1. Running(t) /\ k \in Keys /\ task[t].hi \in Nat
    BY <1>a, <1>b, <1>9 DEF HandlerOk, HandlerRaises, Running, Records
  <2>2. OthersKept(t) /\ \A u \in Tasks \ {t} : task'[u].hi = task[u].hi
    BY <1>a, <1>9 DEF HandlerOk, HandlerRaises, Finish, OthersKept
  <2>3. active' \subseteq active BY <1>9 DEF HandlerOk, HandlerRaises, Finish
  <2>4. \A l \in Keys : attempts'[l].ok >= attempts[l].ok
    BY <1>a, <1>9, <2>1 DEF HandlerOk, HandlerRaises, Log
  <2>5. CASE k \in active
    <3>1. attempts[k].ok >= task[t].hi - 1 /\ attempts[k].ok \in Nat
      BY <1>a, <2>1, <2>5 DEF AttemptsLogged
    <3>2. CASE HandlerOk(t)
      <4>1. attempts'[k].ok = attempts[k].ok + 1 BY <1>a, <2>1, <3>2 DEF HandlerOk, Log
      <4>2. Running(t)' => task'[t].job = task[t].job /\ task'[t].hi = task[t].hi + 1
        BY <1>a, <3>2 DEF HandlerOk, Finish, Returned, Idle, Suspended, Running
      <4>3. Running(t)' => attempts'[Key(task'[t].job)].ok >= task'[t].hi - 1
        BY <2>1, <3>1, <4>1, <4>2
      <4>4. QED BY <1>1, <2>2, <2>3, <2>4, <4>3
    <3>3. CASE HandlerRaises(t)
      <4>1. Running(t)' => task'[t].job = task[t].job /\ task'[t].hi = task[t].hi
        BY <1>a, <3>3 DEF HandlerRaises, Finish, Returned, Idle, Suspended, Running, Records
      <4>2. attempts'[k].ok >= attempts[k].ok /\ attempts'[k].ok \in Nat BY <1>a, <2>1, <2>4
      <4>3. Running(t)' => attempts'[Key(task'[t].job)].ok >= task'[t].hi - 1
        BY <2>1, <3>1, <4>1, <4>2
      <4>4. QED BY <1>1, <2>2, <2>3, <2>4, <4>3
    <3>4. QED BY <1>9, <3>2, <3>3
  <2>6. CASE k \notin active
    <3>1. Running(t)' => task'[t].job = task[t].job
      BY <1>a, <1>9 DEF HandlerOk, HandlerRaises, Finish, Returned, Idle, Suspended, Running, Records
    <3>2. k \notin active' BY <2>3, <2>6
    <3>3. ASSUME NEW u \in Tasks, Running(u)', Key(task'[u].job) \in active'
          PROVE attempts'[Key(task'[u].job)].ok >= task'[u].hi - 1
      <4>1. u # t BY <3>1, <3>2, <3>3
      <4>2. Running(u) /\ task'[u].job = task[u].job /\ task'[u].hi = task[u].hi
        BY <2>2, <3>3, <4>1, OthersHold
      <4>3. attempts[Key(task[u].job)].ok >= task[u].hi - 1
        BY <2>3, <3>3, <4>2 DEF AttemptsLogged
      <4>4. Key(task[u].job) \in Keys BY <1>b, <4>2
      <4>5. /\ attempts'[Key(task[u].job)].ok >= attempts[Key(task[u].job)].ok
            /\ attempts'[Key(task[u].job)].ok \in Nat /\ attempts[Key(task[u].job)].ok \in Nat
            /\ task[u].hi \in Nat
        BY <1>a, <2>4, <4>4 DEF Records
      <4>6. QED BY <4>2, <4>3, <4>5
    <3>4. QED BY <3>3 DEF AttemptsLogged
  <2>7. QED BY <2>5, <2>6
<1>10. ASSUME NEW t \in Tasks,
              \/ StartSleep(t) \/ BackoffOver(t) \/ CancelWorker(t) \/ DoneCallback(t)
              \/ CloseReturns(t) \/ Unwound(t) \/ WaitResumes(t)
              \/ CancelCaller(t) \/ Close(t) \/ WaitUntilIdle(t) \/ CancelWaiter(t)
       PROVE AttemptsLogged'
  <2>1. UNCHANGED attempts /\ active' \subseteq active
    BY <1>10 DEF StartSleep, BackoffOver, CancelWorker, DoneCallback, CloseReturns, Unwound,
                 WaitResumes, WaitLoop, CancelCaller, Close, WaitUntilIdle, CancelWaiter
  <2>2. \A u \in Tasks \ {t} : /\ task'[u].pc = task[u].pc /\ task'[u].job = task[u].job
                                /\ task'[u].hi = task[u].hi
    BY <1>10, <1>a DEF StartSleep, BackoffOver, CancelWorker, DoneCallback, CloseReturns, Unwound,
                 WaitResumes, WaitLoop, CancelCaller, Close, WaitUntilIdle, CancelWaiter, Records
  <2>3. Running(t)' => Running(t) /\ task'[t].job = task[t].job /\ task'[t].hi = task[t].hi
    <3>1. CASE BackoffOver(t) BY <3>1, <1>a DEF BackoffOver, Suspended, Running
    <3>2. CASE DoneCallback(t) BY <3>2, <1>a DEF DoneCallback, Idle, Suspended, Running
    <3>3. CASE StartSleep(t) BY <3>3, <1>a DEF StartSleep, Running, Records
    <3>4. CASE CancelWaiter(t) BY <3>4, <1>a DEF CancelWaiter, Running, Records
    <3>5. CASE CancelWorker(t) BY <3>5, <1>a DEF CancelWorker, Returned, Idle, Suspended, Running
    <3>6. CASE CloseReturns(t) \/ Unwound(t) \/ CancelCaller(t) \/ Close(t)
      BY <3>6, <1>a DEF CloseReturns, Unwound, CancelCaller, Close, Idle, Suspended, Running
    <3>7. CASE WaitResumes(t) \/ WaitUntilIdle(t)
      BY <3>7, <1>a DEF WaitResumes, WaitUntilIdle, WaitLoop, Idle, Suspended, Running
    <3>8. QED BY <1>10, <3>1, <3>2, <3>3, <3>4, <3>5, <3>6, <3>7
  <2>4. QED BY <1>2, <2>1, <2>2, <2>3 DEF Running
<1>11. ASSUME NEW books, NEW qs, Clean(books, qs) PROVE AttemptsLogged'
  <2>1. \E ks \in SUBSET KeysOf(Listed) :
          attempts' = [k \in Keys |-> IF k \in ks THEN [ok |-> 0, bad |-> 0] ELSE attempts[k]]
    <3>. DEFINE done == IF "completed" \in books THEN Matching(completed, qs) ELSE {}
                lost == IF "failed" \in books THEN Matching(failed \cup deadLetter, qs) ELSE {}
    <3>1. done \cup lost \subseteq Listed
      BY DEF BooksInv, FailedMirrored, Matching, Listed
    <3>2. attempts' = [k \in Keys |-> IF k \in KeysOf(done \cup lost)
                                      THEN [ok |-> 0, bad |-> 0] ELSE attempts[k]]
      BY <1>11 DEF Clean
    <3>. HIDE DEF done, lost
    <3>3. KeysOf(done \cup lost) \subseteq KeysOf(Listed) BY <3>1 DEF KeysOf
    <3>4. QED BY <3>2, <3>3
  <2>2. UNCHANGED <<task, active>> BY <1>11 DEF Clean
  <2>3. \A t \in Tasks : Running(t) => /\ Key(task[t].job) \notin KeysOf(Listed)
                                       /\ Key(task[t].job) \in Keys
    BY <1>b, RunningHolds DEF BooksInv, HeldUnlisted
  <2>4. QED BY <2>1, <2>2, <2>3 DEF AttemptsLogged, Running
<1>12. CASE Clear BY <1>12 DEF Clear, AttemptsLogged
<1>13. ASSUME NEW q \in Queues, NEW h \in Handlers, Register(q, h) PROVE AttemptsLogged'
  BY <1>2, <1>13 DEF Register, Running
<1>14. CASE UNCHANGED vars BY <1>2, <1>14 DEF vars, Running
<1>15. CASE Calls
  BY <1>6, <1>7, <1>10, <1>11, <1>12, <1>13, <1>15, <1>a DEF Calls
<1>16. ASSUME NEW t \in Tasks, TaskStep(t) PROVE AttemptsLogged'
  BY <1>8, <1>9, <1>10, <1>16 DEF TaskStep
<1>17. QED BY <1>14, <1>15, <1>16 DEF Next

\* With ids of its own a job is completed only when each registered handler
\* succeeded: MoreHandlers looks at the handlers when one returns, and every
\* handler before was left by a success.
THEOREM CompletedAfterAll ==
  ASSUME FreshIds
  PROVE  Spec => CompletedRanAll
<1>1. ASSUME TypeInv, TypeInv', BooksInv, AttemptsLogged, [Next]_vars
      PROVE  [\A j \in completed' \ completed : Key(j) \in active =>
                /\ attempts'[Key(j)].ok >= Len(handlers[j.queue])
                /\ Len(handlers[j.queue]) > 0]_vars
  <2>. SUFFICES ASSUME NEW j \in completed' \ completed, Key(j) \in active
                PROVE  /\ attempts'[Key(j)].ok >= Len(handlers[j.queue])
                       /\ Len(handlers[j.queue]) > 0
    OBVIOUS
  <2>1. PICK t \in Tasks : HandlerOk(t) /\ ~MoreHandlers(t) /\ j = task[t].job
    <3>1. CASE UNCHANGED completed BY <3>1
    <3>2. CASE completed' \subseteq completed BY <3>2
    <3>3. ASSUME NEW t \in Tasks, TaskStep(t) PROVE HandlerOk(t) \/ UNCHANGED completed
      BY <3>3 DEF TaskStep, StartSleep, DelayOver, HandlerRaises, BackoffOver, CancelWorker,
                  DoneCallback, CloseReturns, Unwound, WaitResumes, WaitLoop
    <3>4. CASE Calls
      <4>1. ASSUME NEW t \in Callers, Close(t) \/ WaitUntilIdle(t) \/ CancelCaller(t) \/ CancelWaiter(t)
            PROVE  completed' = completed
        BY <4>1 DEF Close, WaitUntilIdle, WaitLoop, CancelCaller, CancelWaiter
      <4>2. SomeAdd => completed' = completed BY DEF SomeAdd, Add, AddDelayed
      <4>3. ASSUME NEW books, NEW qs, Clean(books, qs) PROVE completed' \subseteq completed
        BY <4>3 DEF Clean
      <4>4. completed' \subseteq completed
        BY <3>4, <4>1, <4>2, <4>3 DEF Calls, Register, RetryFailed, Clear
      <4>5. QED BY <4>4
    <3>5. PICK t \in Tasks : HandlerOk(t)
      BY <1>1, <3>1, <3>3, <3>4 DEF Next, vars
    <3>6. ~MoreHandlers(t) /\ completed' = completed \cup {task[t].job} BY <3>5 DEF HandlerOk
    <3>7. QED BY <3>5, <3>6
  <2>2. /\ Running(t) /\ j \in Jobs /\ Key(j) \in Keys
        /\ handlers[j.queue] \in Seq(Handlers) /\ task[t].hi \in 1..Len(handlers[j.queue])
    <3>1. Running(t) BY <2>1 DEF HandlerOk, Running
    <3>2. j \in Jobs /\ task[t].hi \in 1..Len(handlers[j.queue])
      BY <1>1, <2>1, <3>1 DEF TypeInv, TaskType, Running
    <3>3. handlers[j.queue] \in Seq(Handlers) BY <1>1, <3>2 DEF TypeInv, Jobs
    <3>4. QED BY <3>1, <3>2, <3>3, KeyType
  <2>3. attempts[Key(j)].ok >= task[t].hi - 1 BY <1>1, <2>1, <2>2 DEF AttemptsLogged
  <2>4. attempts'[Key(j)].ok = attempts[Key(j)].ok + 1 /\ attempts[Key(j)].ok \in Nat
    BY <1>1, <2>1, <2>2 DEF HandlerOk, Log, TypeInv
  <2>5. ~(task[t].hi < Len(handlers[j.queue])) BY <2>1 DEF MoreHandlers
  <2>6. Len(handlers[j.queue]) \in Nat BY <2>2
  <2>7. QED BY <2>2, <2>3, <2>4, <2>5, <2>6
<1>2. Init => AttemptsLogged
  BY DEF Init, AttemptsLogged, Running, Idle, Suspended
<1>3. TypeInv /\ TypeInv' /\ BooksInv /\ BooksInv' /\ AttemptsLogged /\ [Next]_vars => AttemptsLogged'
  BY AttemptsStep
<1>4. Spec => [](TypeInv /\ TasksInv /\ BooksInv) BY BooksAlways
<1>5. QED BY <1>1, <1>2, <1>3, <1>4, PTL DEF Spec, CompletedRanAll

-----------------------------------------------------------------------------
(* The refinement of JobLifecycle: a step moves the status of one job along  *)
(* Moves, or of several as clean(), clear() and close() do, or of none.      *)

Sleeping == {"created", "sleeping"}
Sleeps(t) == task[t].pc \in Sleeping

\* What introspection reports of a job by who has it, in a state of the books.
StatusByHolder ==
  /\ \A t \in Tasks : Running(t) =>
       StatusOf(Key(task[t].job)) = IF Key(task[t].job) \in active THEN "active" ELSE "unlisted"
  /\ \A t \in Tasks : Sleeps(t) =>
       StatusOf(Key(task[t].job)) = IF Key(task[t].job) \in delayed THEN "delayed"
                                    ELSE IF Key(task[t].job) \in RecordKeys(backend) THEN "dropped" ELSE "none"
  /\ \A k \in KeysOf(completed) : StatusOf(k) = "completed"
  /\ \A k \in KeysOf(failed) : StatusOf(k) = "failed"
  /\ \A k : k \notin KeysOf(Listed) /\ k \notin HeldKeys =>
       StatusOf(k) = IF k \in delayed THEN "delayed"
                     ELSE IF k \in RecordKeys(backend) THEN "waiting" ELSE "none"

LEMMA HolderStatus == BooksInv => StatusByHolder
<1>. SUFFICES ASSUME BooksInv PROVE StatusByHolder OBVIOUS
<1>. USE DEF BooksInv
<1>1. \A k : HasTask(k, {"created", "sleeping"}) <=> \E t \in Tasks : Sleeps(t) /\ Key(task[t].job) = k
  BY DEF HasTask, Sleeps, Sleeping
<1>2. \A k : HasTask(k, {"handler", "backoff"}) <=> \E t \in Tasks : Running(t) /\ Key(task[t].job) = k
  BY DEF HasTask, Running
<1>3. \A t : Holds(t) <=> Sleeps(t) \/ Running(t)
  BY DEF Holds, Holding, Sleeps, Sleeping, Running
<1>4. \A t : ~(Sleeps(t) /\ Running(t)) BY DEF Sleeps, Sleeping, Running
<1>5. \A k : k \in WaitingKeys <=> k \in RecordKeys(backend) /\ k \notin active /\ k \notin delayed
                                 /\ k \notin KeysOf(completed) /\ k \notin KeysOf(failed)
  BY DEF WaitingKeys, RecordKeys
<1>6. /\ \A k : k \in KeysOf(Listed) <=> k \in KeysOf(completed) \/ k \in KeysOf(failed)
      /\ \A k \in KeysOf(completed) : k \notin KeysOf(failed)
  BY DEF Listed, KeysOf, ListedOnce
<1>7. \A k \in active : \E t \in Tasks : Running(t) /\ Key(task[t].job) = k
  BY DEF ActiveHasRunner
<1>8. ASSUME NEW t \in Tasks, Holds(t)
      PROVE  /\ Key(task[t].job) \notin KeysOf(completed) /\ Key(task[t].job) \notin KeysOf(failed)
             /\ \A u \in Tasks : Holds(u) /\ Key(task[u].job) = Key(task[t].job) => u = t
  BY <1>6, <1>8 DEF HeldUnlisted, HeldOnce
<1>9. ASSUME NEW t \in Tasks, Running(t)
      PROVE  StatusOf(Key(task[t].job)) = IF Key(task[t].job) \in active THEN "active" ELSE "unlisted"
  <2>1. Key(task[t].job) \notin delayed BY <1>9 DEF DelayedRests
  <2>2. Key(task[t].job) \notin active => Key(task[t].job) \notin RecordKeys(backend)
    BY <1>9 DEF UnlistedUnrecorded
  <2>3. QED BY <1>2, <1>3, <1>5, <1>8, <1>9, <2>1, <2>2 DEF StatusOf
<1>10. ASSUME NEW t \in Tasks, Sleeps(t)
       PROVE  StatusOf(Key(task[t].job)) = IF Key(task[t].job) \in delayed THEN "delayed"
                                    ELSE IF Key(task[t].job) \in RecordKeys(backend) THEN "dropped" ELSE "none"
  <2>1. ~HasTask(Key(task[t].job), {"handler", "backoff"}) /\ Key(task[t].job) \notin active
    BY <1>2, <1>3, <1>4, <1>7, <1>8, <1>10
  <2>2. HasTask(Key(task[t].job), {"created", "sleeping"}) BY <1>1, <1>10
  <2>3. QED BY <1>3, <1>5, <1>8, <1>10, <2>1, <2>2 DEF StatusOf
<1>11. \A k \in KeysOf(Listed) : k \notin active /\ k \notin delayed
  BY <1>3, <1>7 DEF HeldUnlisted, DelayedRests
<1>12. /\ \A k \in KeysOf(completed) : StatusOf(k) = "completed"
       /\ \A k \in KeysOf(failed) : StatusOf(k) = "failed"
  BY <1>6, <1>11 DEF StatusOf
<1>13. ASSUME NEW k, k \notin KeysOf(Listed), k \notin HeldKeys
       PROVE StatusOf(k) = IF k \in delayed THEN "delayed"
                           ELSE IF k \in RecordKeys(backend) THEN "waiting" ELSE "none"
  <2>1. \A t \in Tasks : Holds(t) => Key(task[t].job) # k BY <1>13 DEF HeldKeys
  <2>2. k \notin active /\ ~HasTask(k, {"handler", "backoff"}) /\ ~HasTask(k, {"created", "sleeping"})
    BY <1>1, <1>2, <1>3, <1>7, <2>1
  <2>3. QED BY <1>5, <1>6, <1>13, <2>2 DEF StatusOf
<1>14. QED BY <1>9, <1>10, <1>12, <1>13 DEF StatusByHolder

LEMMA HolderStatusNext == BooksInv' => StatusByHolder'
  BY HolderStatus, PTL

\* The status of a key that a step leaves alone.
SameView(k) ==
  /\ k \in active' <=> k \in active
  /\ k \in delayed' <=> k \in delayed
  /\ k \in KeysOf(completed)' <=> k \in KeysOf(completed)
  /\ k \in KeysOf(failed)' <=> k \in KeysOf(failed)
  /\ k \in RecordKeys(backend)' <=> k \in RecordKeys(backend)
  /\ \A pcs \in {{"created", "sleeping"}, {"handler", "backoff"}} : HasTask(k, pcs)' <=> HasTask(k, pcs)

LEMMA StatusSame ==
  ASSUME NEW k, SameView(k)
  PROVE  StatusOf(k)' = StatusOf(k)
<1>1. /\ k \in WaitingKeys <=> k \in RecordKeys(backend) /\ k \notin active /\ k \notin delayed
                             /\ k \notin KeysOf(completed) /\ k \notin KeysOf(failed)
      /\ k \in WaitingKeys' <=> k \in RecordKeys(backend)' /\ k \notin active' /\ k \notin delayed'
                             /\ k \notin KeysOf(completed)' /\ k \notin KeysOf(failed)'
  BY DEF WaitingKeys, RecordKeys
<1>2. QED BY <1>1 DEF SameView, StatusOf

LEMMA TaskElsewhere ==
  ASSUME NEW t \in Tasks, OthersKept(t), NEW k, NEW pcs,
         ~(task[t].pc \in pcs /\ Key(task[t].job) = k),
         ~(task'[t].pc \in pcs /\ Key(task'[t].job) = k)
  PROVE  HasTask(k, pcs)' <=> HasTask(k, pcs)
  BY DEF HasTask, OthersKept

LifecycleStep == [Lifecycle!Next]_([k \in Keys |-> StatusOf(k)])

LEMMA Stays ==
  ASSUME \A k \in Keys : StatusOf(k)' = StatusOf(k)
  PROVE  LifecycleStep
  BY DEF LifecycleStep

LEMMA OneMoves ==
  ASSUME NEW k \in Keys, <<StatusOf(k), StatusOf(k)'>> \in Lifecycle!Moves,
         \A l \in Keys \ {k} : StatusOf(l)' = StatusOf(l)
  PROVE  LifecycleStep
<1>1. PICK m \in Lifecycle!Moves : StatusOf(k) = m[1] /\ StatusOf(k)' = m[2] OBVIOUS
<1>2. [l \in Keys |-> StatusOf(l)]' = [[l \in Keys |-> StatusOf(l)] EXCEPT ![k] = m[2]]
  BY <1>1
<1>3. Lifecycle!Move(k) BY <1>1, <1>2 DEF Lifecycle!Move
<1>4. QED BY <1>3 DEF LifecycleStep, Lifecycle!Next

\* Where no job is filed, moved or recorded, no status changes.
LEMMA UndisturbedStays ==
  ASSUME SameJobs, UNCHANGED <<backend, active, delayed, completed, failed>>
  PROVE  LifecycleStep
<1>1. \A t \in Tasks : /\ task'[t].pc \in {"handler", "backoff"} <=> task[t].pc \in {"handler", "backoff"}
                       /\ task'[t].pc \in {"created", "sleeping"} <=> task[t].pc \in {"created", "sleeping"}
                       /\ task[t].pc \in Holding => task'[t].job = task[t].job
  BY DEF SameJobs, Running, Holds, Holding
<1>2. ASSUME NEW k \in Keys PROVE SameView(k)
  <2>1. \A pcs \in {{"created", "sleeping"}, {"handler", "backoff"}} : HasTask(k, pcs)' <=> HasTask(k, pcs)
    BY <1>1 DEF HasTask, Holding
  <2>2. QED BY <2>1 DEF SameView, KeysOf, RecordKeys
<1>3. QED BY <1>2, StatusSame, Stays

\* Every view but that of k, when one task moves and the books change for k only.
LEMMA OthersSame ==
  ASSUME NEW t \in Tasks, OthersKept(t), NEW k,
         Holds(t) => Key(task[t].job) = k, Holds(t)' => Key(task'[t].job) = k,
         \A l : l # k =>
           /\ l \in active' <=> l \in active
           /\ l \in delayed' <=> l \in delayed
           /\ l \in KeysOf(completed)' <=> l \in KeysOf(completed)
           /\ l \in KeysOf(failed)' <=> l \in KeysOf(failed)
           /\ l \in RecordKeys(backend)' <=> l \in RecordKeys(backend)
  PROVE  \A l : l # k => StatusOf(l)' = StatusOf(l)
<1>. SUFFICES ASSUME NEW l, l # k PROVE SameView(l)
  BY StatusSame
<1>1. ASSUME NEW pcs \in {{"created", "sleeping"}, {"handler", "backoff"}}
      PROVE  HasTask(l, pcs)' <=> HasTask(l, pcs)
  <2>1. pcs \subseteq Holding BY DEF Holding
  <2>2. QED BY <2>1, TaskElsewhere DEF Holds
<1>2. QED BY <1>1 DEF SameView

\* A dispatched job is active, or, without a processor, only recorded.
LEMMA DispatchedStatus ==
  ASSUME TypeInv, BooksInv, BooksInv', NEW t \in Tasks, NEW j \in Jobs, NEW b, Taken(t, j, b)
  PROVE  /\ handlers[j.queue] # <<>> => StatusOf(Key(j))' = "active"
         /\ handlers[j.queue] = <<>> =>
              StatusOf(Key(j))' = IF Key(j) \in RecordKeys(b) THEN "waiting" ELSE "none"
         /\ \A l : l # Key(j) => StatusOf(l)' = StatusOf(l)
<1>0. /\ Dispatch(t, j, b) /\ Free(t, j) /\ (Holds(t) => task[t].job = j)
      /\ completed' = completed /\ failed' \in {failed, failed \ {j}}
      /\ delayed' \in {delayed, delayed \ {Key(j)}} /\ RecordsApart(b)
      /\ RecordKeys(b) \in {RecordKeys(backend), RecordKeys(backend) \cup {Key(j)}}
      /\ \A e \in b : e.id = j.id => Key(e) = Key(j)
  BY TakenRecords DEF Taken
<1>. USE <1>0
<1>1. OthersKept(t) BY DispatchMoves
<1>2. \/ ~Holds(t)' /\ ~Running(t)' /\ active' = active /\ backend' = b /\ handlers[j.queue] = <<>>
      \/ /\ Running(t)' /\ Holds(t)' /\ task'[t].job = j /\ active' = active \cup {Key(j)}
         /\ backend' = BackendUpdate(b, j, "active") /\ handlers[j.queue] # <<>>
  <2>1. CASE handlers[j.queue] = <<>>
    BY <2>1 DEF Dispatch, Returned, Idle, Suspended, Running, Holds, Holding, TypeInv, TaskType
  <2>2. CASE handlers[j.queue] # <<>>
    BY <2>2 DEF Dispatch, Suspended, Running, Holds, Holding, TypeInv, TaskType
  <2>3. QED BY <2>1, <2>2
<1>3. Gains(b, BackendUpdate(b, j, "active"), j, "active") BY UpdateGains
<1>4. \A l : l # Key(j) => (l \in RecordKeys(backend)' <=> l \in RecordKeys(backend))
  BY <1>2, <1>3 DEF Gains, RecordKeys
<1>5. \A l : l # Key(j) => (l \in KeysOf(failed)' <=> l \in KeysOf(failed)) BY DEF KeysOf
<1>6. KeysOf(completed)' = KeysOf(completed) BY DEF KeysOf
<1>7. \A l : l # Key(j) => StatusOf(l)' = StatusOf(l)
  BY <1>1, <1>2, <1>4, <1>5, <1>6, OthersSame
<1>8. StatusByHolder' BY HolderStatusNext
<1>9. CASE handlers[j.queue] # <<>>
  BY <1>2, <1>7, <1>8, <1>9 DEF StatusByHolder
<1>10. CASE handlers[j.queue] = <<>>
  <2>1. Key(j) \notin HeldKeys'
    <3>1. \A u \in Tasks \ {t} : Holds(u)' => Holds(u) /\ Key(task'[u].job) = Key(task[u].job)
      BY <1>1, OthersHold
    <3>2. QED BY <1>2, <1>10, <3>1 DEF HeldKeys, Free
  <2>2. RecordKeys(backend)' = RecordKeys(b) BY <1>2, <1>10 DEF RecordKeys
  <2>3. QED BY <1>7, <1>8, <1>10, <2>1, <2>2 DEF StatusByHolder, Free
<1>11. QED BY <1>9, <1>10

\* A dispatched job was new, failed or delayed, and runs or waits for a processor.
LEMMA DispatchRefines ==
  ASSUME FreshIds, TypeInv, TypeInv', BooksInv, BooksInv'
  PROVE  /\ \A t \in Callers, j \in Jobs : j.id \notin used /\ Add(t, j) => LifecycleStep
         /\ \A t \in Callers, j \in failed : RetryFailed(t, j) => LifecycleStep
         /\ \A t \in Tasks : DelayOver(t) => LifecycleStep
<1>1. StatusByHolder BY HolderStatus
<1>2. ASSUME NEW t \in Callers, NEW j \in Jobs, j.id \notin used, Add(t, j)
      PROVE  LifecycleStep
  <2>. DEFINE b == BackendAdd(backend, j)
  <2>1. t \in Tasks /\ Taken(t, j, b) /\ Key(j) \notin Known /\ Key(j) \in RecordKeys(b)
    BY <1>2, AddTakes
  <2>2. StatusOf(Key(j)) = "none"
    BY <1>1, <2>1 DEF StatusByHolder, Known
  <2>. HIDE DEF b
  <2>3. /\ StatusOf(Key(j))' \in {"active", "waiting"}
        /\ \A l : l # Key(j) => StatusOf(l)' = StatusOf(l)
    BY <2>1, DispatchedStatus
  <2>4. <<StatusOf(Key(j)), StatusOf(Key(j))'>> \in Lifecycle!Moves
    BY <2>2, <2>3 DEF Lifecycle!Moves
  <2>5. QED BY <2>3, <2>4, KeyType, OneMoves
<1>3. ASSUME NEW t \in Callers, NEW j \in failed, RetryFailed(t, j)
      PROVE  LifecycleStep
  <2>1. t \in Tasks /\ j \in Jobs /\ Taken(t, j, backend) BY <1>3, RetryTakes
  <2>2. StatusOf(Key(j)) = "failed" BY <1>1 DEF StatusByHolder, KeysOf
  <2>3. handlers[j.queue] # <<>> BY DEF BooksInv, FailedHadHandlers
  <2>4. StatusOf(Key(j))' = "active" /\ \A l : l # Key(j) => StatusOf(l)' = StatusOf(l)
    BY <2>1, <2>3, DispatchedStatus
  <2>5. <<StatusOf(Key(j)), StatusOf(Key(j))'>> \in Lifecycle!Moves
    BY <2>2, <2>4 DEF Lifecycle!Moves
  <2>6. QED BY <2>1, <2>4, <2>5, KeyType, OneMoves
<1>4. ASSUME NEW t \in Tasks, DelayOver(t)
      PROVE  LifecycleStep
  <2>0. PICK j \in Jobs, k \in Keys : j = task[t].job /\ k = Key(j)
    BY <1>4, DelayTakes, KeyType
  <2>1. Taken(t, j, backend) /\ Sleeps(t)
    BY <1>4, <2>0, DelayTakes DEF DelayOver, Sleeps, Sleeping
  <2>2. StatusOf(k) = IF k \in delayed THEN "delayed"
                      ELSE IF k \in RecordKeys(backend) THEN "dropped" ELSE "none"
    BY <1>1, <2>0, <2>1 DEF StatusByHolder
  <2>3. k \in delayed => k \in RecordKeys(backend)
    BY DEF BooksInv, ListedRecorded, Recorded, RecordKeys
  <2>4. /\ handlers[j.queue] # <<>> => StatusOf(k)' = "active"
        /\ handlers[j.queue] = <<>> =>
             StatusOf(k)' = IF k \in RecordKeys(backend) THEN "waiting" ELSE "none"
        /\ \A l : l # k => StatusOf(l)' = StatusOf(l)
    BY <2>0, <2>1, DispatchedStatus
  <2>6. \/ <<StatusOf(k), StatusOf(k)'>> \in Lifecycle!Moves
        \/ StatusOf(k)' = StatusOf(k)
    BY <2>2, <2>3, <2>4 DEF Lifecycle!Moves
  <2>7. CASE StatusOf(k)' = StatusOf(k) BY <2>4, <2>7, Stays
  <2>8. QED BY <2>4, <2>6, <2>7, OneMoves
<1>5. QED BY <1>2, <1>3, <1>4

\* A delayed job that add() hands to a worker.
LEMMA DelayRefines ==
  ASSUME TypeInv, TypeInv', BooksInv, BooksInv', NEW w \in Workers, NEW j \in Jobs,
         j.id \notin used, AddDelayed(w, j)
  PROVE  LifecycleStep
<1>1. w \in Tasks /\ ~Holds(w) /\ OthersKept(w)
  BY DEF AddDelayed, OthersKept, TypeInv, TaskType, Tasks, Holds, Holding
<1>2. Key(j) \notin Known /\ \A e \in backend : e.id # j.id
  BY TypeFacts, FreshKey
<1>3. StatusOf(Key(j)) = "none" BY <1>2, HolderStatus DEF StatusByHolder, Known
<1>4. Sleeps(w)' /\ task'[w].job = j /\ Key(j) \in delayed'
  BY <1>1 DEF AddDelayed, Suspended, Sleeps, Sleeping, TypeInv, TaskType
<1>5. StatusOf(Key(j))' = "delayed" BY <1>1, <1>4, HolderStatusNext DEF StatusByHolder
<1>6. RecordKeys(backend') = RecordKeys(backend) \cup {Key(j)}
  <2>. DEFINE b == BackendAdd(backend, j)
  <2>1. RecordsApart(backend) /\ Gains(backend, b, j, "waiting")
    BY <1>2, TypeFacts, AddGains
  <2>2. \A e \in b : e.id = j.id => Key(e) = Key(j)
    <3>1. \A e \in b : Key(e) \in RecordKeys(b) /\ Key(e)[2] = e.id BY DEF RecordKeys, Key
    <3>2. RecordKeys(b) = RecordKeys(backend) \cup {Key(j)} BY <2>1 DEF Gains
    <3>3. RecordKeys(backend) \subseteq Known BY TypeFacts
    <3>4. \A k \in Known : k[2] # j.id BY TypeFacts, FreshKey
    <3>. HIDE DEF b
    <3>5. QED BY <3>1, <3>2, <3>3, <3>4
  <2>3. backend' = BackendUpdate(b, j, "delayed") BY DEF AddDelayed
  <2>. HIDE DEF b
  <2>4. Gains(b, backend', j, "delayed") BY <2>1, <2>2, <2>3, UpdateGains DEF Gains
  <2>5. QED BY <2>1, <2>4 DEF Gains
<1>7. /\ UNCHANGED <<active, completed, failed>> /\ delayed' = delayed \cup {Key(j)}
  BY DEF AddDelayed
<1>8. \A l : l # Key(j) => StatusOf(l)' = StatusOf(l)
  <2>1. \A l : l # Key(j) => /\ l \in active' <=> l \in active
                             /\ l \in delayed' <=> l \in delayed
                             /\ l \in KeysOf(completed)' <=> l \in KeysOf(completed)
                             /\ l \in KeysOf(failed)' <=> l \in KeysOf(failed)
                             /\ l \in RecordKeys(backend)' <=> l \in RecordKeys(backend)
    BY <1>6, <1>7 DEF KeysOf, RecordKeys
  <2>2. Holds(w)' => Key(task'[w].job) = Key(j) BY <1>4
  <2>3. QED BY <1>1, <2>1, <2>2, OthersSame
<1>9. <<StatusOf(Key(j)), StatusOf(Key(j))'>> \in Lifecycle!Moves
  BY <1>3, <1>5 DEF Lifecycle!Moves
<1>10. QED BY <1>8, <1>9, KeyType, OneMoves

\* A task that lets its job go: the job is filed, or, when it was cancelled,
\* waits if the queue still knows of it.
LEMMA LetGoRefines ==
  ASSUME TypeInv, TypeInv', BooksInv, BooksInv',
         NEW t \in Tasks, NEW j \in Jobs, j = task[t].job, Holds(t), OthersKept(t), ~Holds(t)',
         active' = active \ {Key(j)} \/ (active' = active /\ ~Running(t)),
         delayed' = delayed \ {Key(j)} \/ delayed' = delayed,
         NEW done, NEW lost, Filing(t, done, lost), ~Running(t) => done \cup lost = {}
  PROVE  LifecycleStep
<1>. DEFINE k == Key(j)
<1>1. StatusByHolder /\ StatusByHolder' BY HolderStatus, HolderStatusNext
<1>2. k \in Keys /\ k \in Known /\ k[2] = j.id BY TypeFacts, KeyType
<1>3. \A e \in backend : e.id = j.id => Key(e) = k
  <2>1. \A e \in backend : Key(e) \in Known /\ Key(e)[2] = e.id BY KnownKeys
  <2>2. QED BY <1>2, <2>1, TypeFacts DEF IdsTold
<1>4. RecordsApart(backend) BY TypeFacts
<1>. HIDE DEF k
<1>5. \/ done = {} /\ lost = {} /\ backend' = backend /\ completed' = completed /\ failed' = failed
      \/ /\ Running(t) /\ completed' = completed \cup {j} /\ failed' = failed
         /\ Gains(backend, backend', j, "completed")
      \/ /\ Running(t) /\ failed' = failed \cup {j} /\ completed' = completed
         /\ Gains(backend, backend', j, "failed")
  <2>1. \A s : Gains(backend, BackendUpdate(backend, j, s), j, s)
    BY <1>3, <1>4, UpdateGains DEF k
  <2>2. {j} # {} OBVIOUS
  <2>3. QED BY <2>1, <2>2 DEF Filing
<1>6. \A l : l # k => StatusOf(l)' = StatusOf(l)
  <2>1. RecordKeys(backend') \subseteq RecordKeys(backend) \cup {k}
        /\ RecordKeys(backend) \subseteq RecordKeys(backend')
    BY <1>5 DEF Gains, k
  <2>2. \A l : l # k => /\ l \in KeysOf(completed') <=> l \in KeysOf(completed)
                        /\ l \in KeysOf(failed') <=> l \in KeysOf(failed)
    BY <1>5 DEF KeysOf, k
  <2>3. \A l : l # k => /\ l \in active' <=> l \in active
                        /\ l \in delayed' <=> l \in delayed
                        /\ l \in KeysOf(completed)' <=> l \in KeysOf(completed)
                        /\ l \in KeysOf(failed)' <=> l \in KeysOf(failed)
                        /\ l \in RecordKeys(backend)' <=> l \in RecordKeys(backend)
    BY <2>1, <2>2 DEF k, KeysOf, RecordKeys
  <2>4. Holds(t) => Key(task[t].job) = k BY DEF k
  <2>5. QED BY <2>3, <2>4, OthersSame
<1>7. CASE completed' = completed \cup {j} /\ Running(t)
  <2>1. k \in KeysOf(completed') BY <1>7 DEF KeysOf, k
  <2>2. StatusOf(k)' = "completed"
    <3>1. KeysOf(completed)' = KeysOf(completed') BY DEF KeysOf
    <3>2. QED BY <1>1, <2>1, <3>1 DEF StatusByHolder
  <2>3. StatusOf(k) \in {"active", "unlisted"} BY <1>1, <1>7 DEF StatusByHolder, k
  <2>4. <<StatusOf(k), StatusOf(k)'>> \in Lifecycle!Moves BY <2>2, <2>3 DEF Lifecycle!Moves
  <2>5. QED BY <1>2, <1>6, <2>4, OneMoves
<1>8. CASE failed' = failed \cup {j} /\ Running(t)
  <2>1. k \in KeysOf(failed') BY <1>8 DEF KeysOf, k
  <2>2. StatusOf(k)' = "failed"
    <3>1. KeysOf(failed)' = KeysOf(failed') BY DEF KeysOf
    <3>2. QED BY <1>1, <2>1, <3>1 DEF StatusByHolder
  <2>3. StatusOf(k) \in {"active", "unlisted"} BY <1>1, <1>8 DEF StatusByHolder, k
  <2>4. <<StatusOf(k), StatusOf(k)'>> \in Lifecycle!Moves BY <2>2, <2>3 DEF Lifecycle!Moves
  <2>5. QED BY <1>2, <1>6, <2>4, OneMoves
<1>9. CASE backend' = backend /\ completed' = completed /\ failed' = failed
  <2>1. k \notin KeysOf(Listed)' /\ k \notin HeldKeys'
    <3>1. k \notin KeysOf(Listed)
      BY DEF BooksInv, HeldUnlisted, k
    <3>2. KeysOf(Listed)' = KeysOf(Listed) BY <1>9 DEF KeysOf, Listed
    <3>3. \A u \in Tasks : Holds(u)' => Holds(u) /\ u # t /\ task'[u].job = task[u].job
      BY OthersHold
    <3>4. \A u \in Tasks : Holds(u)' => Key(task'[u].job) # k
      BY <3>3 DEF BooksInv, HeldOnce, k
    <3>5. QED BY <3>1, <3>2, <3>4 DEF HeldKeys
  <2>2. StatusOf(k)' = IF k \in delayed' THEN "delayed"
                       ELSE IF k \in RecordKeys(backend) THEN "waiting" ELSE "none"
    BY <1>1, <1>9, <2>1 DEF StatusByHolder, RecordKeys
  <2>3. CASE Running(t)
    <3>1. StatusOf(k) = IF k \in active THEN "active" ELSE "unlisted"
      BY <1>1, <2>3 DEF StatusByHolder, k
    <3>2. k \notin delayed BY <2>3 DEF BooksInv, DelayedRests, k
    <3>3. k \in active <=> k \in RecordKeys(backend)
      BY <2>3 DEF BooksInv, UnlistedUnrecorded, ListedRecorded, Recorded, RecordKeys, k
    <3>4. <<StatusOf(k), StatusOf(k)'>> \in Lifecycle!Moves
      BY <2>2, <3>1, <3>2, <3>3 DEF Lifecycle!Moves
    <3>5. QED BY <1>2, <1>6, <3>4, OneMoves
  <2>4. CASE Sleeps(t)
    <3>1. StatusOf(k) = IF k \in delayed THEN "delayed"
                        ELSE IF k \in RecordKeys(backend) THEN "dropped" ELSE "none"
      BY <1>1, <2>4 DEF StatusByHolder, k
    <3>2. k \in delayed => k \in RecordKeys(backend)
      BY DEF BooksInv, ListedRecorded, Recorded, RecordKeys
    <3>3. \/ <<StatusOf(k), StatusOf(k)'>> \in Lifecycle!Moves
          \/ StatusOf(k)' = StatusOf(k)
      BY <2>2, <3>1, <3>2 DEF Lifecycle!Moves, k
    <3>4. CASE StatusOf(k)' = StatusOf(k) BY <1>6, <3>4, Stays
    <3>5. QED BY <1>2, <1>6, <3>3, <3>4, OneMoves
  <2>5. QED BY <2>3, <2>4 DEF Holds, Holding, Running, Sleeps, Sleeping
<1>10. QED BY <1>5, <1>7, <1>8, <1>9

LEMMA ClearRefines ==
  ASSUME BooksInv, BooksInv', Clear
  PROVE  LifecycleStep
<1>1. /\ backend' = {} /\ active' = {} /\ delayed' = {} /\ completed' = {} /\ failed' = {}
      /\ task' = task
  BY DEF Clear
<1>2. StatusByHolder BY HolderStatus
<1>3. \A k : StatusOf(k)' = IF HasTask(k, {"handler", "backoff"}) THEN "unlisted" ELSE "none"
  <2>1. KeysOf(completed)' = {} /\ KeysOf(failed)' = {} /\ WaitingKeys' = {}
    BY <1>1 DEF KeysOf, WaitingKeys
  <2>2. \A k, pcs : HasTask(k, pcs)' = HasTask(k, pcs) BY <1>1 DEF HasTask
  <2>3. QED BY <1>1, <2>1, <2>2 DEF StatusOf
<1>4. \A k : StatusOf(k) \in {"active", "unlisted"} <=> HasTask(k, {"handler", "backoff"})
  <2>1. \A k : HasTask(k, {"handler", "backoff"}) => StatusOf(k) \in {"active", "unlisted"}
    BY <1>2 DEF StatusByHolder, HasTask, Running
  <2>2. \A k : StatusOf(k) = "active" => k \in active BY DEF StatusOf
  <2>3. \A k \in active : HasTask(k, {"handler", "backoff"})
    BY DEF BooksInv, ActiveHasRunner, HasTask, Running
  <2>4. \A k : StatusOf(k) = "unlisted" => HasTask(k, {"handler", "backoff"}) BY DEF StatusOf
  <2>5. QED BY <2>1, <2>2, <2>3, <2>4
<1>5. Lifecycle!Clear
  BY <1>3, <1>4 DEF Lifecycle!Clear
<1>6. QED BY <1>5 DEF LifecycleStep, Lifecycle!Next

LEMMA CleanRefines ==
  ASSUME TypeInv, BooksInv, BooksInv', NEW books, NEW qs, Clean(books, qs)
  PROVE  LifecycleStep
<1>. DEFINE done == IF "completed" \in books THEN Matching(completed, qs) ELSE {}
            lost == IF "failed" \in books THEN Matching(failed, qs) ELSE {}
            gone == {j.id : j \in done \cup lost}
            ks == KeysOf(done \cup lost)
<1>1. /\ completed' = completed \ done /\ failed' = failed \ lost
      /\ backend' = {e \in backend : e.id \notin gone}
      /\ UNCHANGED <<active, delayed, task>>
      /\ done \subseteq completed /\ lost \subseteq failed
  BY DEF Clean, BooksInv, FailedMirrored, BackendRemove, Matching
<1>. HIDE DEF done, lost
<1>2. StatusByHolder /\ StatusByHolder' BY HolderStatus, HolderStatusNext
<1>3. ks \subseteq Keys BY <1>1, KeyType DEF KeysOf, TypeInv
<1>4. \A k \in ks : StatusOf(k) \in {"completed", "failed"}
  <2>1. \A k \in ks : k \in KeysOf(completed) \/ k \in KeysOf(failed) BY <1>1 DEF KeysOf
  <2>2. QED BY <1>2, <2>1 DEF StatusByHolder
<1>5. \A j \in done \cup lost : j \in Listed /\ Key(j) \in Known /\ Key(j)[2] = j.id
  BY <1>1, KnownKeys DEF Listed
<1>6. ASSUME NEW k \in ks
      PROVE  /\ k \notin KeysOf(Listed)' /\ k \notin HeldKeys' /\ k \notin delayed'
             /\ k \notin RecordKeys(backend)'
  <2>1. PICK j \in done \cup lost : k = Key(j) BY DEF KeysOf
  <2>2. k \in KeysOf(Listed) BY <1>5, <2>1 DEF KeysOf
  <2>3. \A i \in Listed' : i \in Listed /\ i # j
    BY <1>1, <2>1 DEF Listed, BooksInv, ListedOnce
  <2>4. k \notin KeysOf(Listed)' BY <1>5, <2>1, <2>3 DEF KeysOf, BooksInv, ListedOnce
  <2>5. k \notin HeldKeys' BY <1>1, <2>2 DEF HeldKeys, Holds, BooksInv, HeldUnlisted
  <2>6. k \notin delayed' BY <1>1, <2>2 DEF BooksInv, DelayedRests
  <2>7. \A e \in backend' : e.id # j.id /\ Key(e)[2] = e.id BY <1>1, <2>1 DEF Key
  <2>8. k \notin RecordKeys(backend') BY <1>5, <2>1, <2>7 DEF RecordKeys
  <2>9. QED BY <2>4, <2>5, <2>6, <2>8 DEF RecordKeys
<1>7. \A k \in ks : StatusOf(k)' = "none" BY <1>2, <1>6 DEF StatusByHolder
<1>8. ASSUME NEW k, k \notin ks PROVE StatusOf(k)' = StatusOf(k)
  <2>1. \A j \in done \cup lost : Key(j) # k BY <1>8 DEF KeysOf
  <2>2. /\ k \in KeysOf(completed)' <=> k \in KeysOf(completed)
        /\ k \in KeysOf(failed)' <=> k \in KeysOf(failed)
    BY <1>1, <2>1 DEF KeysOf
  <2>3. ASSUME NEW e \in backend, Key(e) = k PROVE e \in backend'
    <3>1. \A j \in done \cup lost : e.id # j.id
      BY <1>5, <2>1, <2>3, KnownKeys, TypeFacts DEF IdsTold
    <3>2. QED BY <1>1, <3>1
  <2>4. k \in RecordKeys(backend)' <=> k \in RecordKeys(backend)
    BY <1>1, <2>3 DEF RecordKeys
  <2>5. \A pcs : HasTask(k, pcs)' <=> HasTask(k, pcs) BY <1>1 DEF HasTask
  <2>6. SameView(k) BY <1>1, <2>2, <2>4, <2>5 DEF SameView
  <2>7. QED BY <2>6, StatusSame
<1>. HIDE DEF ks
<1>9. Lifecycle!Forget(ks) BY <1>3, <1>4, <1>7, <1>8 DEF Lifecycle!Forget
<1>10. QED BY <1>3, <1>9 DEF LifecycleStep, Lifecycle!Next

LEMMA CloseRefines ==
  ASSUME TypeInv, BooksInv, BooksInv', NEW t \in Tasks, CloseReturns(t)
  PROVE  LifecycleStep
<1>. DEFINE ks == {k \in Keys : HasTask(k, {"created", "sleeping"})}
<1>1. /\ delayed' = {} /\ UNCHANGED <<backend, active, completed, failed>>
  BY DEF CloseReturns
<1>2. OthersKept(t) /\ ~Holds(t) /\ ~Holds(t)'
  BY DEF CloseReturns, OthersKept, Holds, Holding, Idle, Suspended, TypeInv, TaskType
<1>3. \A k, pcs : pcs \subseteq Holding => (HasTask(k, pcs)' <=> HasTask(k, pcs))
  BY <1>2, TaskElsewhere DEF Holds
<1>4. \A pcs \in {{"created", "sleeping"}, {"handler", "backoff"}} : pcs \subseteq Holding
  BY DEF Holding
<1>5. KeysOf(completed)' = KeysOf(completed) /\ KeysOf(failed)' = KeysOf(failed)
      /\ RecordKeys(backend)' = RecordKeys(backend)
  BY <1>1 DEF KeysOf, RecordKeys
<1>6. ASSUME NEW k \in delayed
      PROVE  /\ StatusOf(k) = "delayed"
             /\ StatusOf(k)' = IF HasTask(k, {"created", "sleeping"}) THEN "dropped" ELSE "waiting"
  <2>1. k \notin active
    BY DEF BooksInv, DelayedRests, ActiveHasRunner
  <2>2. k \notin KeysOf(completed) /\ k \notin KeysOf(failed)
    BY DEF BooksInv, DelayedRests, Listed, KeysOf
  <2>3. k \in RecordKeys(backend)
    BY DEF BooksInv, ListedRecorded, Recorded, RecordKeys
  <2>4. k \in WaitingKeys' BY <1>1, <1>5, <2>1, <2>2, <2>3 DEF WaitingKeys, RecordKeys
  <2>5. QED BY <1>1, <1>3, <1>4, <1>5, <2>1, <2>2, <2>4 DEF StatusOf
<1>7. ASSUME NEW k, k \notin delayed
      PROVE  StatusOf(k)' = StatusOf(k) /\ StatusOf(k) # "delayed"
  <2>1. SameView(k) BY <1>1, <1>3, <1>4, <1>5, <1>7 DEF SameView
  <2>2. QED BY <1>7, <2>1, StatusSame DEF StatusOf
<1>8. Lifecycle!Drop(ks) BY <1>6, <1>7 DEF Lifecycle!Drop
<1>9. QED BY <1>8 DEF LifecycleStep, Lifecycle!Next

\* Every step of the service is one of the life cycle of its jobs, or none.
LEMMA LifecycleRefined ==
  ASSUME FreshIds, TypeInv, TypeInv', BooksInv, BooksInv', TasksInv, [Next]_vars
  PROVE  LifecycleStep
<1>a. /\ task \in [Tasks -> Records] /\ task' \in [Tasks -> Records]
      /\ cancelled \subseteq Workers /\ Workers \subseteq Tasks /\ Callers \subseteq Tasks
  BY DEF TypeInv, TaskType, Tasks
<1>1. ASSUME NEW t \in Tasks, HandlerOk(t) \/ HandlerRaises(t) PROVE LifecycleStep
  <2>1. Holds(t) /\ Running(t) BY <1>1 DEF HandlerOk, HandlerRaises, Holds, Holding, Running
  <2>2. PICK j \in Jobs : j = task[t].job /\ handlers[j.queue] # <<>>
    <3>1. task[t].hi \in 1..Len(handlers[task[t].job.queue])
      BY <2>1 DEF TypeInv, TaskType, Running
    <3>2. Len(<<>>) = 0 OBVIOUS
    <3>3. handlers[task[t].job.queue] # <<>> BY <3>1, <3>2
    <3>4. QED BY <2>1, <3>3, TypeFacts
  <2>3. OthersKept(t) /\ delayed' = delayed
    BY <1>a, <1>1 DEF HandlerOk, HandlerRaises, Finish, OthersKept
  <2>4. CASE (HandlerOk(t) /\ MoreHandlers(t)) \/ (HandlerRaises(t) /\ MoreAttempts(t))
    <3>1. Running(t)' /\ Holds(t)' /\ task'[t].job = j
      BY <1>a, <2>2, <2>4
         DEF HandlerOk, HandlerRaises, Suspended, Running, Holds, Holding, Records
    <3>2. SameJobs BY <2>1, <2>2, <2>3, <3>1, OthersHold DEF SameJobs
    <3>3. UNCHANGED <<backend, active, delayed, completed, failed>>
      BY <2>4 DEF HandlerOk, HandlerRaises
    <3>4. QED BY <3>2, <3>3, UndisturbedStays
  <2>5. CASE HandlerOk(t) /\ ~MoreHandlers(t)
    <3>1. ~Holds(t)'
      BY <1>a, <2>5 DEF HandlerOk, Finish, Returned, Idle, Suspended, Holds, Holding
    <3>2. Filing(t, {j}, {}) /\ active' = active \ {Key(j)}
      BY <2>2, <2>5 DEF HandlerOk, Finish, Filing
    <3>3. QED BY <2>1, <2>2, <2>3, <3>1, <3>2, LetGoRefines
  <2>6. CASE HandlerRaises(t) /\ ~MoreAttempts(t)
    <3>1. ~Holds(t)'
      BY <1>a, <2>6 DEF HandlerRaises, Finish, Returned, Idle, Suspended, Holds, Holding
    <3>2. Filing(t, {}, {j}) /\ active' = active \ {Key(j)}
      BY <2>2, <2>6 DEF HandlerRaises, Finish, Filing
    <3>3. QED BY <2>1, <2>2, <2>3, <3>1, <3>2, LetGoRefines
  <2>7. QED BY <1>1, <2>4, <2>5, <2>6
<1>2. ASSUME NEW t \in Tasks, CancelWorker(t) \/ (t \in Callers /\ CancelCaller(t))
      PROVE  LifecycleStep
  <2>1. Holds(t)
    BY <1>2, RunningHolds DEF CancelWorker, CancelCaller, TasksInv, CancelledHolds
  <2>2. PICK j \in Jobs : j = task[t].job BY <2>1, TypeFacts
  <2>3. OthersKept(t) /\ ~Holds(t)'
    BY <1>a, <1>2 DEF CancelWorker, CancelCaller, OthersKept, Returned, Idle, Suspended, Holds,
                      Holding
  <2>4. Filing(t, {}, {}) BY <1>2 DEF CancelWorker, CancelCaller, Filing
  <2>5. /\ delayed' = delayed \ {Key(j)} \/ delayed' = delayed
        /\ active' = active \ {Key(j)} \/ (active' = active /\ ~Running(t))
    BY <1>2, <2>2 DEF CancelWorker, CancelCaller
  <2>6. QED BY <2>1, <2>2, <2>3, <2>4, <2>5, LetGoRefines
<1>3. CASE SomeAdd
  <2>1. PICK q \in Queues, i \in IdChoices, m \in 1..MaxAttempts, bo \in Backoffs :
          \/ \E t \in Callers : Add(t, NewJob(q, i, m, bo))
          \/ \E w \in Workers : AddDelayed(w, NewJob(q, i, m, bo))
    BY <1>3 DEF SomeAdd
  <2>2. added < MaxAdds /\ i \in Ids /\ i \notin used /\ added \in 0..MaxAdds
    BY <1>3 DEF SomeAdd, IdChoices, TypeInv
  <2>3. NewJob(q, i, m, bo) \in Jobs /\ NewJob(q, i, m, bo).id = i BY <2>2, NewJobType
  <2>4. QED BY <2>1, <2>2, <2>3, DispatchRefines, DelayRefines
<1>4. ASSUME NEW t \in Tasks, OthersKept(t), ~Holds(t), ~Holds(t)', ~Running(t), ~Running(t)',
             UNCHANGED <<backend, active, delayed, completed, failed>>
      PROVE  LifecycleStep
  <2>1. SameJobs BY <1>4, OthersHold DEF SameJobs
  <2>2. QED BY <1>4, <2>1, UndisturbedStays
<1>5. ASSUME NEW t \in Callers, Close(t) \/ CancelWaiter(t) \/ WaitUntilIdle(t)
      PROVE  LifecycleStep
  <2>1. /\ OthersKept(t) /\ ~Holds(t) /\ ~Holds(t)' /\ ~Running(t) /\ ~Running(t)'
    BY <1>a, <1>5 DEF Close, CancelWaiter, WaitUntilIdle, WaitLoop, OthersKept, Idle, Suspended,
                      Holds, Holding, Running, Records
  <2>2. QED BY <1>a, <1>4, <1>5, <2>1 DEF Close, CancelWaiter, WaitUntilIdle, WaitLoop
<1>6. ASSUME NEW t \in Tasks, StartSleep(t) \/ BackoffOver(t) PROVE LifecycleStep
  <2>1. /\ OthersKept(t) /\ Holds(t) /\ Holds(t)' /\ (Running(t) <=> Running(t)')
        /\ task'[t].job = task[t].job
    BY <1>a, <1>6 DEF StartSleep, BackoffOver, OthersKept, Suspended, Holds, Holding, Running,
                      Records
  <2>2. SameJobs BY <2>1, OthersHold DEF SameJobs
  <2>3. QED BY <1>6, <2>2, UndisturbedStays DEF StartSleep, BackoffOver
<1>7. ASSUME NEW w \in Tasks, DoneCallback(w) PROVE LifecycleStep
  <2>1. OthersKept(w) BY <1>a, <1>7 DEF DoneCallback, OthersKept, Records
  <2>2. ~Holds(w) /\ ~Holds(w)' /\ ~Running(w) /\ ~Running(w)'
    BY <1>a, <1>7 DEF DoneCallback, Idle, Suspended, Holds, Holding, Running
  <2>3. QED BY <1>4, <1>7, <2>1, <2>2 DEF DoneCallback
<1>8. ASSUME NEW t \in Tasks, WaitResumes(t) \/ Unwound(t) PROVE LifecycleStep
  <2>1. OthersKept(t) /\ ~Holds(t) /\ ~Holds(t)' /\ ~Running(t) /\ ~Running(t)'
    BY <1>a, <1>8 DEF WaitResumes, WaitLoop, Unwound, OthersKept, Idle, Suspended, Holds,
                      Holding, Running
  <2>2. QED BY <1>4, <1>8, <2>1 DEF WaitResumes, WaitLoop, Unwound
<1>9. CASE UNCHANGED <<backend, active, delayed, completed, failed, task>>
  <2>1. SameJobs BY <1>9 DEF SameJobs, Running, Holds
  <2>2. QED BY <1>9, <2>1, UndisturbedStays
<1>10. CASE Calls
  <2>1. ASSUME NEW q \in Queues, NEW h \in Handlers, Register(q, h) PROVE LifecycleStep
    BY <1>9, <2>1 DEF Register
  <2>2. ASSUME NEW t \in Callers, NEW j \in failed, RetryFailed(t, j) PROVE LifecycleStep
    BY <2>2, DispatchRefines
  <2>3. ASSUME NEW books, NEW qs, Clean(books, qs) PROVE LifecycleStep
    BY <2>3, CleanRefines
  <2>4. ASSUME NEW t \in Callers, CancelCaller(t) PROVE LifecycleStep
    BY <1>a, <1>2, <2>4
  <2>5. QED BY <1>3, <1>5, <1>10, <2>1, <2>2, <2>3, <2>4, ClearRefines DEF Calls
<1>11. ASSUME NEW t \in Tasks, TaskStep(t) PROVE LifecycleStep
  BY <1>1, <1>2, <1>6, <1>7, <1>8, <1>11, CloseRefines, DispatchRefines DEF TaskStep
<1>12. CASE UNCHANGED vars BY <1>9, <1>12 DEF vars
<1>13. QED BY <1>10, <1>11, <1>12 DEF Next

\* With ids of its own the service implements JobLifecycle: introspection shows
\* every job move along its Moves only, whatever is added, retried, cleaned,
\* cleared, closed or cancelled meanwhile.
THEOREM LifecycleImplemented ==
  ASSUME FreshIds
  PROVE  Spec => ImplementsLifecycle
<1>1. Init => Lifecycle!Init
  <2>. SUFFICES ASSUME Init PROVE Lifecycle!Init OBVIOUS
  <2>1. KeysOf({}) = {} BY DEF KeysOf
  <2>2. WaitingKeys = {} BY DEF WaitingKeys, Init
  <2>3. \A k, pcs : pcs \subseteq Holding => ~HasTask(k, pcs)
    BY DEF Init, HasTask, Idle, Suspended, Holding
  <2>4. {"handler", "backoff"} \subseteq Holding BY DEF Holding
  <2>5. \A k \in Keys : StatusOf(k) = "none"
    BY <2>1, <2>2, <2>3, <2>4 DEF Init, StatusOf
  <2>6. QED BY <2>5 DEF Lifecycle!Init
<1>2. FreshIds /\ TypeInv /\ TypeInv' /\ BooksInv /\ BooksInv' /\ TasksInv /\ [Next]_vars
        => [Lifecycle!Next]_([k \in Keys |-> StatusOf(k)])
  BY LifecycleRefined DEF LifecycleStep
<1>3. QED BY <1>1, <1>2, BooksAlways, PTL DEF Spec, ImplementsLifecycle, Lifecycle!Spec

\* Jobs move along their life cycle, and are completed only after a success of
\* every registered handler.
THEOREM JobsProceedKept ==
  ASSUME FreshIds
  PROVE  Spec => JobsProceed
BY LifecycleImplemented, CompletedAfterAll, PTL DEF JobsProceed
=============================================================================
