------------------------------- MODULE Workers ------------------------------
(***************************************************************************)
(* fanest.workers: WorkerService.  A job is an asyncio task in which run()  *)
(* is called: a background task of run_background(), or a Foreground task   *)
(* of the application.  A handler may await run() in turn, so a job is some *)
(* runs deep, and each run holds a permit of the semaphore.                *)
(*                                                                         *)
(* A step is what a job does between two suspensions.  A released permit   *)
(* goes to the first job in line, which has it from then on and runs       *)
(* later.  Handlers let a cancellation pass.                               *)
(***************************************************************************)
EXTENDS Integers, SequencesExt

CONSTANTS
  Jobs, Foreground,
  Concurrency, \* permits, at least one (module.py:66)
  MaxRuns      \* bound: calls of run() by one job

ASSUME WorkersAssumption ==
  IsFiniteSet(Jobs) /\ Foreground \subseteq Jobs /\ Concurrency \in Nat \ {0} /\ MaxRuns \in Nat \ {0}

VARIABLES
  jobAt,       \* "none" before the job exists, "new" until it first runs, in
            \* line for a permit, handed one, in a handler, ended
  depth,    \* permits it holds, one per run in progress
  calls,    \* runs it has begun
  permits,  \* value of the semaphore
  line,     \* jobs waiting for a permit
  active,   \* _active
  cancels,  \* jobs whose cancellation is requested and not delivered
  gathered  \* the jobs shutdown() awaits, Nobody when it does not run

workersVars == <<jobAt, depth, calls, permits, line, active, cancels, gathered>>

Nobody == {"nobody"}

WorkersInit ==
  /\ jobAt = [j \in Jobs |-> "none"]
  /\ depth = [j \in Jobs |-> 0] /\ calls = [j \in Jobs |-> 0]
  /\ permits = Concurrency /\ line = <<>>
  /\ active = {} /\ cancels = {} /\ gathered = Nobody

\* run_background(), or a task of the application that will call run().
RunBackground(j) ==
  /\ jobAt[j] = "none"
  /\ jobAt' = [jobAt EXCEPT ![j] = "new"]
  /\ active' = IF j \in Foreground THEN active ELSE active \cup {j}
  /\ UNCHANGED <<depth, calls, permits, line, cancels, gathered>>

\* run() takes a permit or gets in line for one.
Run(j) ==
  /\ \/ jobAt[j] = "new"
     \/ jobAt[j] = "handler" /\ calls[j] < MaxRuns
  /\ j \notin cancels
  /\ calls' = [calls EXCEPT ![j] = @ + 1]
  /\ IF permits > 0
     THEN /\ permits' = permits - 1
          /\ jobAt' = [jobAt EXCEPT ![j] = "handler"]
          /\ depth' = [depth EXCEPT ![j] = @ + 1]
          /\ UNCHANGED line
     ELSE /\ jobAt' = [jobAt EXCEPT ![j] = "line"]
          /\ line' = Append(line, j)
          /\ UNCHANGED <<permits, depth>>
  /\ UNCHANGED <<active, cancels, gathered>>

\* The job that was handed a permit runs, and its handler begins.
HandlerBegins(j) ==
  /\ jobAt[j] = "handed" /\ j \notin cancels
  /\ jobAt' = [jobAt EXCEPT ![j] = "handler"]
  /\ depth' = [depth EXCEPT ![j] = @ + 1]
  /\ UNCHANGED <<calls, permits, line, active, cancels, gathered>>

\* n permits are released: the first jobs in line get them.
Handed(n, queue) ==
  LET heirs == IF n < Len(queue) THEN n ELSE Len(queue)
  IN [to |-> {queue[i] : i \in 1..heirs},
      line |-> SubSeq(queue, heirs + 1, Len(queue)), left |-> n - heirs]

\* The innermost run of j ends, or all of them: n permits are released and kept
\* runs stay.  With the last run the job ends, and leaves _active.
Unwound(j, n, queue, kept) ==
  LET given == Handed(n, queue)
  IN /\ jobAt' = [i \in Jobs |-> CASE i = j -> IF kept = 0 THEN "ended" ELSE "handler"
                                [] i \in given.to -> "handed"
                                [] OTHER -> jobAt[i]]
     /\ depth' = [depth EXCEPT ![j] = kept]
     /\ permits' = permits + given.left /\ line' = given.line
     /\ active' = IF kept = 0 THEN active \ {j} ELSE active

\* _run_task(): the handler returns, or raises into the handler that awaits it.
HandlerEnds(j) ==
  /\ jobAt[j] = "handler" /\ j \notin cancels
  /\ Unwound(j, 1, line, depth[j] - 1)
  /\ UNCHANGED <<calls, cancels, gathered>>

\* The permits of j: one per run, and one it was handed and has not begun to
\* use.  Variant: a cancelled job releases that of its innermost run only.
InnermostPermit(j) == IF depth[j] > 0 \/ jobAt[j] = "handed" THEN 1 ELSE 0
Permits(j) == depth[j] + (IF jobAt[j] = "handed" THEN 1 ELSE 0)

\* CancelledError leaves all runs of the job, or the line it waits in.
CancelJob(j) ==
  /\ j \in cancels /\ jobAt[j] # "ended"
  /\ Unwound(j, Permits(j), RemoveFirst(line, j), 0)
  /\ cancels' = cancels \ {j}
  /\ UNCHANGED <<calls, gathered>>

\* shutdown(): every active job is cancelled and awaited.
CancelledOf(js) == js

Shutdown ==
  /\ gathered = Nobody
  /\ cancels' = cancels \cup CancelledOf(active)
  /\ gathered' = active
  /\ UNCHANGED <<jobAt, depth, calls, permits, line, active>>

\* The gathered jobs have ended: shutdown() empties _active and returns.
ShutdownReturns ==
  /\ gathered # Nobody
  /\ \A j \in gathered : jobAt[j] = "ended"
  /\ active' = {} /\ gathered' = Nobody
  /\ UNCHANGED <<jobAt, depth, calls, permits, line, cancels>>

JobStep(j) == Run(j) \/ HandlerBegins(j) \/ HandlerEnds(j) \/ CancelJob(j)

WorkersNext ==
  \/ \E j \in Jobs : RunBackground(j) \/ JobStep(j)
  \/ Shutdown \/ ShutdownReturns

WorkersSpec == WorkersInit /\ [][WorkersNext]_workersVars

-----------------------------------------------------------------------------
(* Properties *)

\* The permits of the jobs.
InUse == UNION {{j} \X (1..Permits(j)) : j \in Jobs}

\* No permit is lost or made up: the free ones and those of the jobs are
\* Concurrency, whatever is cancelled where, so a later run() is neither
\* refused for ever nor let in beyond the limit (module.py:66, 82).
PermitsKept ==
  /\ permits + Cardinality(InUse) = Concurrency
  /\ permits > 0 => line = <<>>

\* shutdown() returns, even when every permit is held by a handler that waits
\* for another one (module.py:172).
ShutdownEnds == gathered # Nobody ~> gathered = Nobody
=============================================================================
