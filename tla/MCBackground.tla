----------------------------- MODULE MCBackground ---------------------------
(* Work in the background, one after the other: a scheduler whose interval   *)
(* and timeout are paused, resumed, cancelled and stopped at any point       *)
(* ("control"); one with an interval that waits for completion and a cron    *)
(* job, over a longer clock ("ticks"); and a queue service that is cleared   *)
(* and closed at any point ("queue").                                        *)
EXTENDS Scheduler

CONSTANTS poll, report, once, l1, l2, l3, q1, q2, q3, i1, i2, h1, c1, c2, w1

MCKind == [n \in {poll, report, once} |->
             CASE n = poll -> "interval" [] n = report -> "cron" [] n = once -> "timeout"]
MCDelay == [n \in {poll, report, once} |-> IF n = report THEN 3 ELSE 2]
ControlKind == [n \in Names |-> MCKind[n]]
ControlDelay == [n \in Names |-> MCDelay[n]]

VARIABLES
  part, tickNow, tickDefined, tickRegistry, tickTasks, tickLoop, tickRun, tickCancelled,
  tickPhase, tickAwaited, tickCalls,
  handlers, backend, active, delayed, completed, failed, deadLetter, attempts, background,
  task, stopped, used, added, retries

ticksVars == <<tickNow, tickDefined, tickRegistry, tickTasks, tickLoop, tickRun, tickCancelled,
               tickPhase, tickAwaited, tickCalls>>
queueVars == <<handlers, backend, active, delayed, completed, failed, deadLetter, attempts,
               background, task, stopped, used, added, retries>>
backgroundVars == <<part, vars, ticksVars, queueVars>>

Ticks == INSTANCE Scheduler WITH
  Names <- {poll, report},
  Kind <- [n \in {poll, report} |-> MCKind[n]],
  Delay <- [n \in {poll, report} |-> MCDelay[n]],
  Waiting <- {poll}, Loops <- {l1, l2}, Runs <- {q1, q2, q3},
  MaxTime <- 8, MaxCalls <- 0, ResumeDuring <- {},
  now <- tickNow, defined <- tickDefined, registry <- tickRegistry, tasks <- tickTasks,
  loop <- tickLoop, run <- tickRun, cancelled <- tickCancelled, phase <- tickPhase,
  awaited <- tickAwaited, calls <- tickCalls

Queue == INSTANCE JobQueue WITH
  Queues <- {"orders"}, Ids <- {i1, i2}, Handlers <- {h1}, Callers <- {c1, c2}, Workers <- {w1},
  Backoffs <- {"ok"}, MaxAttempts <- 2, MaxAdds <- 2, MaxRetries <- 1,
  Uses <- {"retry", "clear", "wait", "close"}, FreshIds <- TRUE, NoJob <- None,
  cancelled <- stopped

Controlled == part = "control" /\ UNCHANGED <<part, ticksVars, queueVars>>
Ticking == part = "ticks" /\ UNCHANGED <<part, vars, queueVars>>
Queueing == part = "queue" /\ UNCHANGED <<part, vars, ticksVars>>

\* Task slots are interchangeable: which of them a job starts with is all one.
MCInit ==
  /\ part \in {"control", "ticks", "queue"} /\ Init /\ Ticks!Init /\ Queue!Init
  /\ registry[poll] = l1 /\ registry[once] = l2 /\ tickRegistry[poll] = l1

MCNext ==
  \/ Controlled /\ Next
  \/ Ticking /\ Ticks!Next
  \/ Queueing /\ Queue!Next

MCSpec ==
  /\ MCInit /\ [][MCNext]_backgroundVars
  /\ \A l \in Loops : WF_backgroundVars(Controlled /\ LoopEnds(l))
  /\ \A r \in Runs : WF_backgroundVars(Controlled /\ RunStep(r))
  /\ WF_backgroundVars(Controlled /\ StopRuns) /\ WF_backgroundVars(Controlled /\ StopReturns)
  /\ \A t \in {c1, c2, w1} : WF_backgroundVars(Queueing /\ Queue!TaskStep(t))

-----------------------------------------------------------------------------
\* stop() returns, and a stall is not made up for by a burst of ticks; ticks are
\* kept by the jobs that nobody pauses as well (TicksKept is about those that
\* are).
StopEndsWithoutBurst == StopEnds /\ Ticks!NoBurst /\ []Ticks!TicksKept

\* Every turn of the queue service ends, while two callers clear, close and wait.
TurnsEnd == Queue!TurnsEnd
=============================================================================
