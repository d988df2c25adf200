------------------------------ MODULE Scheduler -----------------------------
(***************************************************************************)
(* fanest.schedule: ScheduleRunner and SchedulerRegistry.                  *)
(*                                                                         *)
(* Every scheduled job has a loop, an asyncio task that sleeps until the   *)
(* next tick; an interval or cron loop starts each run of the handler in a *)
(* task of its own, a timeout loop runs it itself.  Loops and Runs are the *)
(* slots of those tasks.  The clock is an integer that jumps ahead while   *)
(* something else holds the event loop.  A cancelled task ends when the    *)
(* event loop next runs it.                                                *)
(***************************************************************************)
EXTENDS Integers, FiniteSets

CONSTANTS
  Names,          \* names of the decorated handlers
  Kind, Delay,    \* "interval", "cron" or "timeout"; seconds between ticks
  Waiting,        \* names with wait_for_completion
  Loops, Runs,    \* task slots
  MaxTime,        \* bound on the clock
  MaxCalls,       \* bound on the number of pause, resume, cancel, delete calls
  ResumeDuring,   \* phases of the runner in which resume_job() is called
  None

ASSUME SchedulerAssumption ==
  /\ Kind \in [Names -> {"interval", "cron", "timeout"}]
  /\ Delay \in [Names -> Nat \ {0}]
  /\ Waiting \subseteq Names /\ MaxTime \in Nat /\ MaxCalls \in Nat
  /\ None \notin Names \cup Loops \cup Runs /\ Loops \cap Runs = {}
  /\ ResumeDuring \subseteq {"serving", "loops", "runs", "stopped"}

VARIABLES
  now,       \* time.monotonic(), datetime.now()
  defined,   \* names in _definitions
  registry,  \* SchedulerRegistry._jobs: the loop of each name
  tasks,     \* ScheduleRunner.tasks
  loop,      \* what each loop does
  run,       \* the job each run slot works for, and whether it has started
  cancelled, \* tasks with a cancellation to be delivered
  phase,     \* "serving", then what stop() awaits, then "stopped"
  awaited,   \* the tasks gather() waits for
  calls      \* counter behind MaxCalls

vars == <<now, defined, registry, tasks, loop, run, cancelled, phase, awaited, calls>>

NoLoop == [pc |-> "free", name |-> None, next |-> 0, since |-> 0, last |-> 0, run |-> None]
NoRun == [pc |-> "free", name |-> None]
Live(l) == loop[l].pc \in {"created", "sleeping", "running"}

\* running_jobs: the runs that have not ended.
RunningJobs == {r \in Runs : run[r].pc # "free"}

-----------------------------------------------------------------------------
(* Ticks *)

\* Variant: one tick too many is taken for missed.
NextIntervalLate(next, delay, at) ==
  IF next + delay <= at
  THEN next + delay + ((at - next - delay) \div delay + 2) * delay
  ELSE next + delay

\* _run_interval: the first multiple of the delay after next that is in the
\* future.
NextInterval(next, delay, at) ==
  IF next + delay <= at
  THEN next + delay + ((at - next - delay) \div delay + 1) * delay
  ELSE next + delay

\* The first occurrence after t of a cron expression that fires every delay.
CronAfter(t, delay) == (t \div delay + 1) * delay

\* _run_cron: the first occurrence after next that is in the future.
NextCron(next, delay, at) ==
  IF CronAfter(next, delay) <= at THEN CronAfter(at, delay) ELSE CronAfter(next, delay)

NextTick(n, next) ==
  IF Kind[n] = "cron" THEN NextCron(next, Delay[n], now) ELSE NextInterval(next, Delay[n], now)

FirstTick(n) == IF Kind[n] = "cron" THEN CronAfter(now, Delay[n]) ELSE now + Delay[n]

\* The period of loop l, counted from its first one, that time at falls in.
Period(l, at) ==
  IF Kind[loop[l].name] = "cron" THEN at \div Delay[loop[l].name]
  ELSE (at - loop[l].since) \div Delay[loop[l].name]

-----------------------------------------------------------------------------
(* resume_job, pause_job, cancel_job and the registry's own operations *)

FreeLoop(l) ==
  /\ loop[l].pc \in {"free", "ended"} /\ l \notin tasks \cup awaited
  /\ \A n \in Names : registry[n] # l

\* start(): every decorated handler is defined and has its loop.
Init ==
  /\ now = 0 /\ defined = Names /\ phase = "serving"
  /\ registry \in {f \in [Names -> Loops] : \A m, n \in Names : f[m] = f[n] => m = n}
  /\ tasks = {registry[n] : n \in Names}
  /\ loop = [l \in Loops |-> IF l \in tasks
               THEN [NoLoop EXCEPT !.pc = "created", !.name = CHOOSE n \in Names : registry[n] = l]
               ELSE NoLoop]
  /\ run = [r \in Runs |-> NoRun]
  /\ cancelled = {} /\ awaited = {} /\ calls = 0

Resume(n, l) ==
  /\ phase \in ResumeDuring /\ calls < MaxCalls
  /\ registry[n] = None /\ n \in defined /\ FreeLoop(l)
  /\ loop' = [loop EXCEPT ![l] = [NoLoop EXCEPT !.pc = "created", !.name = n]]
  /\ tasks' = tasks \cup {l}
  /\ registry' = [registry EXCEPT ![n] = l]
  /\ calls' = calls + 1
  /\ UNCHANGED <<now, defined, run, cancelled, phase, awaited>>

\* Variant: pause_job() forgets the job without cancelling its task.
CancellingNone(l) == {}

\* job.cancel(): nothing is left to cancel when the task has ended.
Cancelling(l) == IF Live(l) THEN {l} ELSE {}

\* pause_job(n); cancel_job(n) drops the definition as well.
Pause(n, forget) ==
  /\ calls < MaxCalls /\ registry[n] # None
  /\ cancelled' = cancelled \cup Cancelling(registry[n])
  /\ registry' = [registry EXCEPT ![n] = None]
  /\ tasks' = tasks \ {registry[n]}
  /\ defined' = IF forget THEN defined \ {n} ELSE defined
  /\ calls' = calls + 1
  /\ UNCHANGED <<now, loop, run, phase, awaited>>

\* SchedulerRegistry.delete(n, cancel=True); cancel(n) keeps the entry.
RegistryCancel(n, delete) ==
  /\ calls < MaxCalls /\ registry[n] # None
  /\ cancelled' = cancelled \cup Cancelling(registry[n])
  /\ registry' = IF delete THEN [registry EXCEPT ![n] = None] ELSE registry
  /\ calls' = calls + 1
  /\ UNCHANGED <<now, defined, tasks, loop, run, phase, awaited>>

-----------------------------------------------------------------------------
(* The loops *)

LoopStart(l) ==
  /\ loop[l].pc = "created" /\ l \notin cancelled
  /\ loop' = [loop EXCEPT ![l].pc = "sleeping", ![l].since = now,
                          ![l].next = FirstTick(loop[l].name),
                          ![l].last = IF Kind[loop[l].name] = "cron"
                                      THEN now \div Delay[loop[l].name] ELSE 0]
  /\ UNCHANGED <<now, defined, registry, tasks, run, cancelled, phase, awaited, calls>>

Due(l) == loop[l].pc = "sleeping" /\ loop[l].next <= now /\ l \notin cancelled

\* wait_for_completion skips a tick while this loop's last run is not done.
MayRun(l) == loop[l].name \notin Waiting \/ loop[l].run = None

\* A tick of an interval or cron loop: a run, unless one must be waited for.
Tick(l) ==
  /\ Due(l) /\ Kind[loop[l].name] # "timeout"
  /\ IF MayRun(l)
     THEN \E r \in Runs :
            /\ run[r].pc = "free"
            /\ run' = [run EXCEPT ![r] = [pc |-> "created", name |-> loop[l].name]]
            /\ loop' = [loop EXCEPT ![l].run = r, ![l].last = Period(l, now),
                                    ![l].next = NextTick(loop[l].name, @)]
     ELSE /\ loop' = [loop EXCEPT ![l].last = Period(l, now),
                                  ![l].next = NextTick(loop[l].name, @)]
          /\ UNCHANGED run
  /\ UNCHANGED <<now, defined, registry, tasks, cancelled, phase, awaited, calls>>

\* A timeout loop runs the handler itself, and is done.
TimeoutFires(l) ==
  /\ Due(l) /\ Kind[loop[l].name] = "timeout"
  /\ loop' = [loop EXCEPT ![l].pc = "running"]
  /\ UNCHANGED <<now, defined, registry, tasks, run, cancelled, phase, awaited, calls>>

LoopEnds(l) ==
  /\ \/ loop[l].pc = "running" /\ l \notin cancelled
     \/ Live(l) /\ l \in cancelled
  /\ loop' = [loop EXCEPT ![l].pc = "ended", ![l].run = None]
  /\ cancelled' = cancelled \ {l} /\ awaited' = awaited \ {l}
  /\ UNCHANGED <<now, defined, registry, tasks, run, phase, calls>>

RunStart(r) ==
  /\ run[r].pc = "created" /\ r \notin cancelled
  /\ run' = [run EXCEPT ![r].pc = "running"]
  /\ UNCHANGED <<now, defined, registry, tasks, loop, cancelled, phase, awaited, calls>>

\* Variant: a loop keeps waiting for the run that has ended.
AfterRunKept(l, r) == loop[l]

\* running_task.done(): a loop has nothing to wait for once run r has ended.
AfterRun(l, r) == IF loop[l].run = r THEN [loop[l] EXCEPT !.run = None] ELSE loop[l]

\* The handler returns, raises or is cancelled; _safe_call logs what it raises.
RunEnds(r) ==
  /\ \/ run[r].pc = "running"
     \/ run[r].pc = "created" /\ r \in cancelled
  /\ run' = [run EXCEPT ![r] = NoRun]
  /\ loop' = [l \in Loops |-> AfterRun(l, r)]
  /\ cancelled' = cancelled \ {r} /\ awaited' = awaited \ {r}
  /\ UNCHANGED <<now, defined, registry, tasks, phase, calls>>

-----------------------------------------------------------------------------
(* stop() *)

\* Variant: the loops are awaited without being cancelled.
StoppedLoopsNone == {}

\* registry.clear() and the loop over tasks cancel all loops they find.
StoppedLoops == {l \in Loops : Live(l) /\ (l \in tasks \/ \E n \in Names : registry[n] = l)}

StopLoops ==
  /\ phase = "serving"
  /\ phase' = "loops"
  /\ registry' = [n \in Names |-> None]
  /\ cancelled' = cancelled \cup StoppedLoops
  /\ awaited' = {l \in tasks : Live(l)}
  /\ UNCHANGED <<now, defined, tasks, loop, run, calls>>

StoppedRuns == RunningJobs

StopRuns ==
  /\ phase = "loops" /\ awaited = {}
  /\ phase' = "runs"
  /\ cancelled' = cancelled \cup StoppedRuns /\ awaited' = StoppedRuns
  /\ UNCHANGED <<now, defined, registry, tasks, loop, run, calls>>

StopReturns ==
  /\ phase = "runs" /\ awaited = {}
  /\ phase' = "stopped" /\ tasks' = {}
  /\ UNCHANGED <<now, defined, registry, loop, run, cancelled, awaited, calls>>

-----------------------------------------------------------------------------
\* Time passes, at once as far as a stalled event loop lets it.
Pass ==
  /\ \E t \in (now + 1)..MaxTime : now' = t
  /\ UNCHANGED <<defined, registry, tasks, loop, run, cancelled, phase, awaited, calls>>

LoopStep(l) == LoopStart(l) \/ Tick(l) \/ TimeoutFires(l) \/ LoopEnds(l)
RunStep(r) == RunStart(r) \/ RunEnds(r)

Control ==
  \E n \in Names :
    \/ \E l \in Loops : Resume(n, l)
    \/ \E b \in BOOLEAN : Pause(n, b) \/ RegistryCancel(n, b)

Next ==
  \/ Pass \/ Control \/ StopLoops \/ StopRuns \/ StopReturns
  \/ \E l \in Loops : LoopStep(l)
  \/ \E r \in Runs : RunStep(r)

Spec == Init /\ [][Next]_vars

\* The event loop runs every ready task, and handlers end.
FairSpec ==
  /\ Spec
  /\ \A l \in Loops : WF_vars(LoopEnds(l))
  /\ \A r \in Runs : WF_vars(RunStep(r))
  /\ WF_vars(StopRuns) /\ WF_vars(StopReturns)

-----------------------------------------------------------------------------
(* Properties *)

\* Types; a live loop works for a name, and its last run is one of that name.
TypeOK ==
  /\ now \in 0..MaxTime /\ defined \subseteq Names /\ calls \in 0..MaxCalls
  /\ registry \in [Names -> Loops \cup {None}]
  /\ tasks \subseteq Loops
  /\ loop \in [Loops -> [pc: {"free", "created", "sleeping", "running", "ended"},
                         name: Names \cup {None}, next: Nat, since: Nat, last: Nat,
                         run: Runs \cup {None}]]
  /\ run \in [Runs -> [pc: {"free", "created", "running"}, name: Names \cup {None}]]
  /\ cancelled \subseteq Loops \cup Runs /\ awaited \subseteq Loops \cup Runs
  /\ phase \in {"serving", "loops", "runs", "stopped"}
  /\ \A l \in Loops : Live(l) => loop[l].name \in Names
  /\ \A l \in Loops : loop[l].run # None =>
       /\ run[loop[l].run].pc # "free" /\ run[loop[l].run].name = loop[l].name

\* A loop that nobody cancelled is the one registered under its name, so
\* pausing, resuming and deleting never leave two loops ticking for a job.
NoOrphanLoop ==
  \A l \in Loops : Live(l) /\ l \notin cancelled => registry[loop[l].name] = l

\* Every live loop of a running scheduler is in tasks, for stop() to cancel,
\* or has been cancelled already.
StopReaches ==
  \A l \in Loops : phase # "stopped" /\ Live(l) => l \in tasks \/ l \in cancelled

\* No loop ticks that neither the registry nor stop() knows of.
LoopsReached == NoOrphanLoop /\ StopReaches

\* After stop() no job runs and none will (test_schedule_runner_production.py:75).
StoppedIsQuiet ==
  phase = "stopped" => RunningJobs = {} /\ \A l \in Loops : ~Live(l) \/ l \in cancelled

\* With wait_for_completion no two runs of a job overlap
\* (test_schedule_runner_production.py:91).
NoOverlap ==
  \A q, r \in RunningJobs : run[q].name = run[r].name /\ run[q].name \in Waiting => q = r

\* A loop that sleeps will wake at a multiple of its delay from its start, or
\* at an occurrence of its cron expression, one delay ahead at most.
NextOnGrid ==
  \A l \in Loops : loop[l].pc = "sleeping" =>
    LET d == Delay[loop[l].name]
    IN /\ (loop[l].next - (IF Kind[loop[l].name] = "cron" THEN 0 ELSE loop[l].since)) % d = 0
       /\ loop[l].next <= now + d

\* No job runs after stop(), runs that wait for completion do not overlap, and
\* loops wake at a tick of their grid.
TicksKept == StoppedIsQuiet /\ NoOverlap /\ NextOnGrid

\* Missed ticks are skipped after a stall, with no burst (CHANGELOG.md:156): a
\* loop ticks at most once in each of its periods.
NoBurst ==
  [][\A l \in Loops : Due(l) /\ loop'[l].next # loop[l].next
       => Period(l, now) > loop[l].last]_vars

\* stop() returns.
StopEnds == phase = "loops" ~> phase = "stopped"
=============================================================================
