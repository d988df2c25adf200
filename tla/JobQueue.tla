------------------------------ MODULE JobQueue ------------------------------
(***************************************************************************)
(* fanest.queues: QueueService over the default MemoryQueueBackend.        *)
(*                                                                         *)
(* QueueService runs on one asyncio event loop, so a coroutine is atomic   *)
(* between two suspensions.  The memory backend never suspends; what does  *)
(* is a handler, the back-off sleep between two attempts, the sleep of a   *)
(* delayed job, and the gather() of close() and wait_until_idle().  A task *)
(* is therefore a program counter over those suspension points, and an     *)
(* action is everything a task does from one of them to the next.          *)
(*                                                                         *)
(* Callers are the application's tasks that await add(), retry_failed(),   *)
(* close() or wait_until_idle(); Workers are the tasks that                *)
(* _schedule_background creates for delayed jobs.  A (queue, job name)     *)
(* pair of the code is one Queue here.  The lists _completed, _failed and  *)
(* _dead_letter are sets of Job objects, told apart by the serial number   *)
(* of the add() that made them.                                            *)
(***************************************************************************)
EXTENDS Integers, Sequences, FiniteSets, FiniteSetsExt

CONSTANTS
  Queues, Ids,      \* queue names and job ids
  Handlers,         \* processor handlers an application may register
  Callers, Workers, \* tasks of the application; task slots of the service
  Backoffs,         \* "ok" and, for malformed backoff options, "bad"
  MaxAttempts,      \* bound on the attempts option of a job
  MaxAdds,          \* bound on the number of add() calls
  MaxRetries,       \* bound on the number of retry_failed() calls
  Uses,             \* the optional operations the application calls
  FreshIds,         \* TRUE: ids come from uuid4; FALSE: callers choose them
  NoJob

ASSUME QueueAssumption ==
  /\ MaxAttempts \in Nat \ {0} /\ MaxAdds \in Nat /\ MaxRetries \in Nat
  /\ Callers \cap Workers = {}
  /\ Backoffs \subseteq {"ok", "bad"}
  /\ FreshIds \in BOOLEAN
  /\ Uses \subseteq {"retry", "clean", "clear", "close", "wait", "cancel"}

VARIABLES
  handlers,    \* _handlers: registration order, per queue
  backend,     \* MemoryQueueBackend._jobs: records with their list position
  active,      \* keys of _active
  delayed,     \* keys of _delayed
  completed, failed, deadLetter,  \* _completed, _failed, _dead_letter
  attempts,    \* _attempts: successes and failures recorded per key
  background,  \* _background_tasks
  task,        \* what every task is suspended on
  cancelled,   \* tasks whose cancellation is requested, not yet delivered
  used,        \* ids given to add() so far
  added, retries  \* counters behind MaxAdds and MaxRetries

vars == <<handlers, backend, active, delayed, completed, failed, deadLetter,
          attempts, background, task, cancelled, used, added, retries>>

Tasks == Callers \cup Workers
Keys == Queues \X Ids
Jobs == [no: 1..MaxAdds, queue: Queues, id: Ids, max: 1..MaxAttempts, backoff: Backoffs]
Statuses == {"waiting", "delayed", "active", "completed", "failed"}
PCs == {"idle", "created", "sleeping", "handler", "backoff", "ended",
        "waiting", "closing", "unwinding"}

Key(j) == <<j.queue, j.id>>
KeysOf(js) == {Key(j) : j \in js}

-----------------------------------------------------------------------------
(* MemoryQueueBackend *)

Entry(p, j, s) == [pos |-> p, queue |-> j.queue, id |-> j.id, status |-> s]

\* The position list.append gives: one past every position in use.
LastPos(b) == IF b = {} THEN 0 ELSE Max({e.pos : e \in b})

BackendAdd(b, j) == b \cup {Entry(LastPos(b) + 1, j, "waiting")}

\* The entries update() takes for the job: it compares the id only.
SameRecord(b, j) == {e \in b : e.id = j.id}

\* Variant: update() always appends.
BackendUpdateAppends(b, j, s) == b \cup {Entry(LastPos(b) + 1, j, s)}

BackendUpdate(b, j, s) ==
  LET same == SameRecord(b, j)
      first == CHOOSE e \in same : \A f \in same : e.pos <= f.pos
  IN IF same = {} THEN b \cup {Entry(LastPos(b) + 1, j, s)}
     ELSE (b \ {first}) \cup {Entry(first.pos, j, s)}

\* Variant: clean() leaves the backend records behind.
BackendRemoveNothing(b, ids) == b

BackendRemove(b, ids) == {e \in b : e.id \notin ids}

-----------------------------------------------------------------------------
(* Tasks *)

Suspended(pc, j, h, a, ws) ==
  [pc |-> pc, job |-> j, hi |-> h, attempt |-> a, waits |-> ws]
Idle == Suspended("idle", NoJob, 0, 0, {})

\* A caller's coroutine returns to the application; a worker's task ends and
\* stays in _background_tasks until its done callback runs.
Returned(t) == IF t \in Callers THEN Idle ELSE Suspended("ended", NoJob, 0, 0, {})

Running(t) == task[t].pc \in {"handler", "backoff"}

Init ==
  /\ handlers = [q \in Queues |-> <<>>]
  /\ backend = {} /\ active = {} /\ delayed = {}
  /\ completed = {} /\ failed = {} /\ deadLetter = {}
  /\ attempts = [k \in Keys |-> [ok |-> 0, bad |-> 0]]
  /\ background = {} /\ cancelled = {}
  /\ task = [t \in Tasks |-> Idle]
  /\ used = {} /\ added = 0 /\ retries = 0

-----------------------------------------------------------------------------
(* _dispatch_job up to the first handler's suspension, on backend b *)

Dispatch(t, j, b) ==
  IF handlers[j.queue] = <<>>
  THEN /\ task' = [task EXCEPT ![t] = Returned(t)]
       /\ backend' = b
       /\ UNCHANGED active
  ELSE /\ task' = [task EXCEPT ![t] = Suspended("handler", j, 1, 1, {})]
       /\ backend' = BackendUpdate(b, j, "active")
       /\ active' = active \cup {Key(j)}

\* register_processor: a handler already there is not added again.
Register(q, h) ==
  /\ \A i \in DOMAIN handlers[q] : handlers[q][i] # h
  /\ handlers' = [handlers EXCEPT ![q] = Append(@, h)]
  /\ UNCHANGED <<backend, active, delayed, completed, failed, deadLetter, attempts,
                 background, task, cancelled, used, added, retries>>

\* The ids a caller can pass: uuid4 gives one no add() has used.
IdChoices == IF FreshIds THEN Ids \ used ELSE Ids

NewJob(q, i, m, bo) ==
  [no |-> added + 1, queue |-> q, id |-> i, max |-> m, backoff |-> bo]

\* add() with delay = 0 runs the job in the caller's own task.
Add(t, j) ==
  /\ task[t].pc = "idle"
  /\ Dispatch(t, j, BackendAdd(backend, j))
  /\ used' = used \cup {j.id} /\ added' = added + 1
  /\ UNCHANGED <<handlers, delayed, completed, failed, deadLetter, attempts,
                 background, cancelled, retries>>

\* add() with delay > 0 hands the job to a background task w.
AddDelayed(w, j) ==
  /\ task[w].pc = "idle"
  /\ backend' = BackendUpdate(BackendAdd(backend, j), j, "delayed")
  /\ delayed' = delayed \cup {Key(j)}
  /\ background' = background \cup {w}
  /\ task' = [task EXCEPT ![w] = Suspended("created", j, 0, 0, {})]
  /\ used' = used \cup {j.id} /\ added' = added + 1
  /\ UNCHANGED <<handlers, active, completed, failed, deadLetter, attempts,
                 cancelled, retries>>

\* The new task runs for the first time and reaches asyncio.sleep(delay).
StartSleep(w) ==
  /\ task[w].pc = "created" /\ w \notin cancelled
  /\ task' = [task EXCEPT ![w].pc = "sleeping"]
  /\ UNCHANGED <<handlers, backend, active, delayed, completed, failed, deadLetter,
                 attempts, background, cancelled, used, added, retries>>

\* Variant: the entry of _delayed is not popped after the sleep.
DelayOverNoPop(w) ==
  /\ task[w].pc = "sleeping" /\ w \notin cancelled
  /\ Dispatch(w, task[w].job, backend)
  /\ UNCHANGED <<handlers, delayed, completed, failed, deadLetter, attempts,
                 background, cancelled, used, added, retries>>

DelayOver(w) ==
  /\ task[w].pc = "sleeping" /\ w \notin cancelled
  /\ delayed' = delayed \ {Key(task[w].job)}
  /\ Dispatch(w, task[w].job, backend)
  /\ UNCHANGED <<handlers, completed, failed, deadLetter, attempts, background,
                 cancelled, used, added, retries>>

-----------------------------------------------------------------------------
(* _run_handler *)

Log(a, k, f) == [a EXCEPT ![k][f] = @ + 1]

\* Variant: one handler too many.
MoreHandlersOffByOne(t) == task[t].hi <= Len(handlers[task[t].job.queue])

MoreHandlers(t) == task[t].hi < Len(handlers[task[t].job.queue])

\* Another attempt follows a failed one unless the attempts are used up or
\* _backoff_delay raises on the job's backoff option.
MoreAttempts(t) == task[t].attempt < task[t].job.max /\ task[t].job.backoff = "ok"

\* Variant: no finally clause.
FinishKeepsActive(t, s) ==
  /\ backend' = BackendUpdate(backend, task[t].job, s)
  /\ task' = [task EXCEPT ![t] = Returned(t)]
  /\ UNCHANGED active

\* The tail of _dispatch_job: file the job, then the finally clause.
Finish(t, s) ==
  /\ backend' = BackendUpdate(backend, task[t].job, s)
  /\ active' = active \ {Key(task[t].job)}
  /\ task' = [task EXCEPT ![t] = Returned(t)]

\* The handler returns: the next registered handler starts, else the job is
\* completed.
HandlerOk(t) ==
  /\ task[t].pc = "handler" /\ t \notin cancelled
  /\ attempts' = Log(attempts, Key(task[t].job), "ok")
  /\ IF MoreHandlers(t)
     THEN /\ task' = [task EXCEPT ![t] = Suspended("handler", @.job, @.hi + 1, 1, {})]
          /\ UNCHANGED <<backend, active, completed>>
     ELSE /\ completed' = completed \cup {task[t].job}
          /\ Finish(t, "completed")
  /\ UNCHANGED <<handlers, delayed, failed, deadLetter, background, cancelled,
                 used, added, retries>>

\* The handler raises: back-off before the next attempt, else the job failed.
HandlerRaises(t) ==
  /\ task[t].pc = "handler" /\ t \notin cancelled
  /\ attempts' = Log(attempts, Key(task[t].job), "bad")
  /\ IF MoreAttempts(t)
     THEN /\ task' = [task EXCEPT ![t].pc = "backoff"]
          /\ UNCHANGED <<backend, active, failed, deadLetter>>
     ELSE /\ failed' = failed \cup {task[t].job}
          /\ deadLetter' = deadLetter \cup {task[t].job}
          /\ Finish(t, "failed")
  /\ UNCHANGED <<handlers, delayed, completed, background, cancelled, used, added,
                 retries>>

BackoffOver(t) ==
  /\ task[t].pc = "backoff" /\ t \notin cancelled
  /\ task' = [task EXCEPT ![t] = Suspended("handler", @.job, @.hi, @.attempt + 1, {})]
  /\ UNCHANGED <<handlers, backend, active, delayed, completed, failed, deadLetter,
                 attempts, background, cancelled, used, added, retries>>

-----------------------------------------------------------------------------
(* Cancellation: CancelledError is not an Exception, so neither the completed *)
(* nor the failed branch of _dispatch_job runs, only the finally clause.      *)

\* A worker that never ran is closed without running its except clause; one
\* that did drops its entry of _delayed.
CancelWorker(w) ==
  /\ w \in cancelled
  /\ cancelled' = cancelled \ {w}
  /\ active' = IF Running(w) THEN active \ {Key(task[w].job)} ELSE active
  /\ delayed' = IF task[w].pc = "created" THEN delayed ELSE delayed \ {Key(task[w].job)}
  /\ task' = [task EXCEPT ![w] = Returned(w)]
  /\ UNCHANGED <<handlers, backend, completed, failed, deadLetter, attempts,
                 background, used, added, retries>>

\* The application cancels its own task while a job runs in it.
CancelCaller(t) ==
  /\ "cancel" \in Uses /\ Running(t)
  /\ active' = active \ {Key(task[t].job)}
  /\ task' = [task EXCEPT ![t] = Idle]
  /\ UNCHANGED <<handlers, backend, delayed, completed, failed, deadLetter, attempts,
                 background, cancelled, used, added, retries>>

\* Cancelling a task suspended in gather() cancels every task it gathers.
CancelWaiter(t) ==
  /\ "cancel" \in Uses /\ task[t].pc \in {"waiting", "closing"}
  /\ cancelled' = cancelled \cup {w \in task[t].waits : task[w].pc # "ended"}
  /\ task' = [task EXCEPT ![t].pc = "unwinding"]
  /\ UNCHANGED <<handlers, backend, active, delayed, completed, failed, deadLetter,
                 attempts, background, used, added, retries>>

\* The done callback of _schedule_background, which gather()'s own follows.
DoneCallback(w) ==
  /\ task[w].pc = "ended"
  /\ background' = background \ {w}
  /\ task' = [t \in Tasks |-> IF t = w THEN Idle
                              ELSE [task[t] EXCEPT !.waits = @ \ {w}]]
  /\ UNCHANGED <<handlers, backend, active, delayed, completed, failed, deadLetter,
                 attempts, cancelled, used, added, retries>>

-----------------------------------------------------------------------------
(* Operations of the application *)

\* retry_failed() deletes the entry it retries from _failed, and from
\* _dead_letter every entry with its id.  Variant: the former is forgotten.
WithoutRetriedKept(j) == failed
WithoutRetried(j) == failed \ {j}
WithoutDead(j) == {d \in deadLetter : d.id # j.id}

\* retry_failed(id): the failed entry it takes is one with that id, whatever
\* its queue; it is dispatched at once, in the caller's task.
RetryFailed(t, j) ==
  /\ "retry" \in Uses /\ retries < MaxRetries
  /\ task[t].pc = "idle" /\ j \in failed
  /\ failed' = WithoutRetried(j) /\ deadLetter' = WithoutDead(j)
  /\ Dispatch(t, j, backend)
  /\ retries' = retries + 1
  /\ UNCHANGED <<handlers, delayed, completed, attempts, background, cancelled, used,
                 added>>

\* clean(status, queue): books is what the status selects, qs what queue does.
Matching(js, qs) == {j \in js : j.queue \in qs}

Clean(books, qs) ==
  LET done == IF "completed" \in books THEN Matching(completed, qs) ELSE {}
      lost == IF "failed" \in books THEN Matching(failed \cup deadLetter, qs) ELSE {}
  IN /\ "clean" \in Uses /\ done \cup lost # {}
     /\ completed' = completed \ done
     /\ failed' = failed \ lost
     /\ deadLetter' = deadLetter \ lost
     /\ attempts' = [k \in Keys |-> IF k \in KeysOf(done \cup lost)
                                    THEN [ok |-> 0, bad |-> 0] ELSE attempts[k]]
     /\ backend' = BackendRemove(backend, {j.id : j \in done \cup lost})
     /\ UNCHANGED <<handlers, active, delayed, background, task, cancelled, used,
                    added, retries>>

\* Workers a cancel() still reaches.
Cancellable == {w \in background : task[w].pc # "ended"}

Clear ==
  /\ "clear" \in Uses
  /\ backend' = {} /\ active' = {} /\ delayed' = {}
  /\ completed' = {} /\ failed' = {} /\ deadLetter' = {}
  /\ attempts' = [k \in Keys |-> [ok |-> 0, bad |-> 0]]
  /\ cancelled' = cancelled \cup Cancellable
  /\ background' = {}
  /\ UNCHANGED <<handlers, task, used, added, retries>>

\* close() cancels and gathers the background tasks, then empties _delayed.
Close(t) ==
  /\ "close" \in Uses /\ task[t].pc = "idle" /\ background # {}
  /\ cancelled' = cancelled \cup Cancellable
  /\ task' = [task EXCEPT ![t] = Suspended("closing", NoJob, 0, 0, background)]
  /\ UNCHANGED <<handlers, backend, active, delayed, completed, failed, deadLetter,
                 attempts, background, used, added, retries>>

CloseReturns(t) ==
  /\ task[t].pc = "closing" /\ task[t].waits = {}
  /\ background' = {} /\ delayed' = {}
  /\ task' = [task EXCEPT ![t] = Idle]
  /\ UNCHANGED <<handlers, backend, active, completed, failed, deadLetter, attempts,
                 cancelled, used, added, retries>>

\* A cancelled gather() raises once every task it gathers has ended.
Unwound(t) ==
  /\ task[t].pc = "unwinding" /\ task[t].waits = {}
  /\ task' = [task EXCEPT ![t] = Idle]
  /\ UNCHANGED <<handlers, backend, active, delayed, completed, failed, deadLetter,
                 attempts, background, cancelled, used, added, retries>>

Quiet == background = {} /\ active = {}

\* wait_until_idle(): gather the tasks of this moment, then look again.
WaitLoop(t) ==
  /\ task' = [task EXCEPT ![t] = IF Quiet THEN Idle
                                 ELSE Suspended("waiting", NoJob, 0, 0, background)]
  /\ UNCHANGED <<handlers, backend, active, delayed, completed, failed, deadLetter,
                 attempts, background, cancelled, used, added, retries>>

WaitUntilIdle(t) == "wait" \in Uses /\ task[t].pc = "idle" /\ WaitLoop(t)
WaitResumes(t) == task[t].pc = "waiting" /\ task[t].waits = {} /\ WaitLoop(t)

-----------------------------------------------------------------------------
TaskStep(t) ==
  \/ StartSleep(t) \/ DelayOver(t)
  \/ HandlerOk(t) \/ HandlerRaises(t) \/ BackoffOver(t)
  \/ CancelWorker(t) \/ DoneCallback(t)
  \/ CloseReturns(t) \/ Unwound(t) \/ WaitResumes(t)

SomeAdd ==
  /\ added < MaxAdds
  /\ \E q \in Queues, i \in IdChoices, m \in 1..MaxAttempts, bo \in Backoffs :
       \/ \E t \in Callers : Add(t, NewJob(q, i, m, bo))
       \/ \E w \in Workers : AddDelayed(w, NewJob(q, i, m, bo))

Calls ==
  \/ SomeAdd
  \/ \E q \in Queues, h \in Handlers : Register(q, h)
  \/ \E t \in Callers, j \in failed : RetryFailed(t, j)
  \/ \E books \in {{"completed"}, {"failed"}, {"completed", "failed"}},
        qs \in {Queues} \cup {{q} : q \in Queues} : Clean(books, qs)
  \/ Clear
  \/ \E t \in Callers : Close(t) \/ WaitUntilIdle(t) \/ CancelCaller(t) \/ CancelWaiter(t)

Next == Calls \/ \E t \in Tasks : TaskStep(t)

Spec == Init /\ [][Next]_vars

\* The event loop resumes every task that is ready, and handlers and sleeps end.
FairSpec == Spec /\ \A t \in Tasks : WF_vars(TaskStep(t))

-----------------------------------------------------------------------------
(* What introspection reports *)

\* waiting_jobs(): the records of the backend no book hides.
WaitingKeys ==
  {Key(e) : e \in backend} \ (active \cup delayed \cup KeysOf(completed) \cup KeysOf(failed))

HasTask(k, pcs) == \E t \in Tasks : task[t].pc \in pcs /\ Key(task[t].job) = k

\* The first that applies, as the introspection methods look.
StatusOf(k) ==
  IF k \in active THEN "active"
  ELSE IF k \in delayed THEN "delayed"
  ELSE IF k \in KeysOf(completed) THEN "completed"
  ELSE IF k \in KeysOf(failed) THEN "failed"
  ELSE IF k \in WaitingKeys THEN IF HasTask(k, {"created", "sleeping"}) THEN "dropped" ELSE "waiting"
  ELSE IF HasTask(k, {"handler", "backoff"}) THEN "unlisted" ELSE "none"

Lifecycle == INSTANCE JobLifecycle WITH status <- [k \in Keys |-> StatusOf(k)]

-----------------------------------------------------------------------------
(* Properties *)

\* Every book, task and counter has its type, and a task in a handler is at a
\* handler of its own queue.
TypeOK ==
  /\ handlers \in [Queues -> Seq(Handlers)]
  /\ \A e \in backend : Key(e) \in Keys /\ e.status \in Statuses
  /\ active \subseteq Keys /\ delayed \subseteq Keys
  /\ completed \subseteq Jobs /\ failed \subseteq Jobs /\ deadLetter \subseteq Jobs
  /\ attempts \in [Keys -> [ok: Nat, bad: Nat]]
  /\ background \subseteq Workers /\ cancelled \subseteq Workers
  /\ task \in [Tasks -> [pc: PCs, job: Jobs \cup {NoJob}, hi: Nat, attempt: Nat,
                         waits: SUBSET Workers]]
  /\ \A t \in Tasks : task[t].pc \in {"created", "sleeping"} => task[t].job \in Jobs
  /\ \A t \in Tasks : Running(t) =>
       /\ task[t].job \in Jobs
       /\ task[t].hi \in 1..Len(handlers[task[t].job.queue])
       /\ task[t].attempt \in 1..task[t].job.max
       /\ task[t].pc = "backoff" => task[t].attempt < task[t].job.max
  /\ used \subseteq Ids /\ added \in 0..MaxAdds /\ retries \in 0..MaxRetries

\* A job is in at most one of _active, _delayed, _completed and _failed, and at
\* most once in each list, whatever is retried, cleaned, closed or cancelled
\* meanwhile: stats() counts no job twice.
OneBook ==
  /\ active \cap delayed = {}
  /\ (active \cup delayed) \cap KeysOf(completed \cup failed) = {}
  /\ \A i, j \in completed \cup failed : Key(i) = Key(j) => i = j
  /\ completed \cap failed = {}

\* Every entry of _active belongs to a task that is running that job: the
\* finally clause of _dispatch_job removes it on every way out.
ActiveHasRunner == \A k \in active : \E t \in Tasks : Running(t) /\ Key(task[t].job) = k

\* The backend holds one record per job, with the status of the book that lists
\* the job, also after clear() dropped the record under a running job.
BackendAgrees ==
  /\ \A e, f \in backend : Key(e) = Key(f) => e = f
  /\ \A k \in active \cup delayed \cup KeysOf(completed \cup failed) :
       \E e \in backend : Key(e) = k /\ e.status = StatusOf(k)

\* _failed and _dead_letter mirror each other (queues/module.py:510).
FailedMirrored == failed = deadLetter

\* A job is in one book, with its copies beside it.
BooksAgree == OneBook /\ FailedMirrored

\* A job is completed only when each registered handler succeeded, not when the
\* first did or when the last attempt of one was lost (clear() resets the
\* attempts of the jobs it takes off the list).
CompletedRanAll ==
  [][\A j \in completed' \ completed : Key(j) \in active =>
       /\ attempts'[Key(j)].ok >= Len(handlers[j.queue])
       /\ Len(handlers[j.queue]) > 0]_vars

\* With ids of its own, every job moves through the states of JobLifecycle:
\* nothing is run twice at once, revived after completing, or left in a book
\* after clean() removed it.
ImplementsLifecycle == Lifecycle!Spec

\* A delayed job's turn comes: it does not stay in _delayed.
DelayedLeaves == \A k \in Keys : k \in delayed ~> k \notin delayed

\* wait_until_idle() returns once no call adds work.
WaitEnds == \A t \in Callers : task[t].pc = "waiting" ~> task[t].pc # "waiting"

\* Jobs move along their life cycle, and complete only when all handlers ran.
JobsProceed == ImplementsLifecycle /\ CompletedRanAll

\* Nothing is left waiting: neither a delayed job nor a caller.
TurnsEnd == DelayedLeaves /\ WaitEnds
=============================================================================
