--------------------------- MODULE Scheduler_proofs -------------------------
(***************************************************************************)
(* The scheduler for any number of jobs, tasks and calls and any clock.    *)
(* A loop is never orphaned: a name is registered with a loop of that      *)
(* name, which is among the tasks until stop() drops them.  A loop wakes   *)
(* at points of its grid, in a period later than that of its last tick.    *)
(* Once stop() is called every live loop has its cancellation, so that the *)
(* runs it awaits are all there will be.                                   *)
(***************************************************************************)
EXTENDS Scheduler, TLAPS

\* next_run is in the future and one delay away at most, whatever was missed.
LEMMA NextIntervalBounds ==
  ASSUME NEW next \in Nat, NEW delay \in Nat \ {0}, NEW at \in Nat, next <= at
  PROVE  /\ NextInterval(next, delay, at) \in Nat
         /\ at < NextInterval(next, delay, at)
         /\ NextInterval(next, delay, at) <= at + delay
  <1>1. CASE next + delay <= at
    <2> DEFINE x == at - next - delay
               d == x \div delay
    <2>1. x \in Nat BY <1>1
    <2>2. d \in Nat /\ d * delay <= x /\ x < (d + 1) * delay
      <3> HIDE DEF x
      <3> QED BY <2>1
    <2>3. (d + 1) * delay \in Nat /\ (d + 1) * delay = d * delay + delay
      <3> HIDE DEF d
      <3> QED BY <2>2
    <2>4. NextInterval(next, delay, at) = next + delay + (d + 1) * delay
      BY <1>1 DEF NextInterval
    <2>5. d * delay \in Nat
      <3> HIDE DEF d
      <3> QED BY <2>2
    <2>6. ASSUME NEW e \in Nat, NEW f \in Nat, f = e + delay, e <= x, x < f
          PROVE  at < next + delay + f /\ next + delay + f <= at + delay
      BY <1>1, <2>6
    <2> QED BY <2>2, <2>3, <2>4, <2>5, <2>6
  <1>2. CASE ~(next + delay <= at)
    BY <1>2 DEF NextInterval
  <1> QED BY <1>1, <1>2

LoopRecords == [pc: {"free", "created", "sleeping", "running", "ended"},
                name: Names \cup {None}, next: Nat, since: Nat, last: Nat,
                run: Runs \cup {None}]
RunRecords == [pc: {"free", "created", "running"}, name: Names \cup {None}]

\* The part of the invariant that types the state.
Typed ==
  /\ now \in 0..MaxTime /\ defined \subseteq Names /\ calls \in 0..MaxCalls
  /\ registry \in [Names -> Loops \cup {None}] /\ tasks \subseteq Loops
  /\ loop \in [Loops -> LoopRecords] /\ run \in [Runs -> RunRecords]
  /\ cancelled \subseteq Loops \cup Runs /\ awaited \subseteq Loops \cup Runs
  /\ phase \in {"serving", "loops", "runs", "stopped"}

\* A loop has started before now, and waits for a run of its own job only.
LoopsWork ==
  \A l \in Loops :
    /\ Live(l) => loop[l].name \in Names
    /\ loop[l].since <= now
    /\ loop[l].run # None => /\ run[loop[l].run].pc # "free"
                             /\ run[loop[l].run].name = loop[l].name

\* A name is registered with a loop of that name, one that stop() will find.
Registered ==
  \A n \in Names : registry[n] # None =>
    /\ loop[registry[n]].name = n
    /\ phase # "stopped" => registry[n] \in tasks

IInv == Typed /\ LoopsWork /\ Registered /\ NoOrphanLoop

\* The times a tick computes are natural numbers.
LEMMA TickTyped ==
  ASSUME IInv, NEW l \in Loops, Live(l), loop[l].next <= now
  PROVE  /\ Kind[loop[l].name] # "timeout" => NextTick(loop[l].name, loop[l].next) \in Nat
         /\ FirstTick(loop[l].name) \in Nat
         /\ Period(l, now) \in Nat
  <1> DEFINE n == loop[l].name
             d == Delay[n]
  <1>1. n \in Names /\ d \in Nat \ {0} /\ now \in Nat /\ loop[l].next \in Nat
        /\ loop[l].since \in Nat /\ loop[l].since <= now
    BY SchedulerAssumption DEF IInv, Typed, LoopsWork, LoopRecords
  <1>2. \A t \in Nat : CronAfter(t, d) \in Nat
    <2> SUFFICES ASSUME NEW t \in Nat PROVE CronAfter(t, d) \in Nat
      OBVIOUS
    <2> HIDE DEF d
    <2>1. t \div d \in Nat BY <1>1
    <2>2. \A e \in Nat : (e + 1) * d \in Nat BY <1>1
    <2> QED BY <2>1, <2>2 DEF CronAfter
  <1>3. NextInterval(loop[l].next, d, now) \in Nat
    BY <1>1, NextIntervalBounds
  <1>4. NextCron(loop[l].next, d, now) \in Nat
    BY <1>1, <1>2 DEF NextCron
  <1>5. NextTick(n, loop[l].next) \in Nat
    BY <1>3, <1>4 DEF NextTick
  <1>6. FirstTick(n) \in Nat
    BY <1>1, <1>2 DEF FirstTick
  <1>7. now \div d \in Nat /\ (now - loop[l].since) \div d \in Nat
    <2>1. now - loop[l].since \in Nat BY <1>1
    <2> HIDE DEF d
    <2> QED BY <1>1, <2>1
  <1>8. Period(l, now) \in Nat
    BY <1>7 DEF Period
  <1> QED BY <1>5, <1>6, <1>8

\* The invariant holds when start() has returned.
LEMMA InitInv == Init => IInv
  <1> SUFFICES ASSUME Init PROVE IInv
    OBVIOUS
  <1>1. registry \in [Names -> Loops] /\ \A i, j \in Names : registry[i] = registry[j] => j = i
    BY DEF Init
  <1>2. \A l \in Loops :
          loop[l] = IF l \in tasks
                    THEN [NoLoop EXCEPT !.pc = "created", !.name = CHOOSE n \in Names : registry[n] = l]
                    ELSE NoLoop
    BY DEF Init
  <1>3. \A n \in Names : /\ registry[n] \in tasks
                         /\ (CHOOSE i \in Names : registry[i] = registry[n]) = n
    BY <1>1 DEF Init
  <1>4. \A l \in tasks : \E n \in Names : registry[n] = l
    BY DEF Init
  <1>5. \A l \in Loops :
          /\ l \in tasks => /\ loop[l].pc = "created" /\ loop[l].name \in Names
                            /\ registry[loop[l].name] = l
          /\ l \notin tasks => loop[l].pc = "free" /\ loop[l].name = None
          /\ loop[l].run = None /\ loop[l].since = 0 /\ loop[l] \in LoopRecords
    <2> TAKE l \in Loops
    <2>1. CASE l \in tasks
      <3>1. PICK n \in Names : registry[n] = l
        BY <1>4, <2>1
      <3>2. loop[l] = [NoLoop EXCEPT !.pc = "created", !.name = n]
        BY <1>2, <1>3, <2>1, <3>1
      <3>3. loop[l] = [pc |-> "created", name |-> n, next |-> 0, since |-> 0, last |-> 0, run |-> None]
        BY <3>2 DEF NoLoop
      <3>4. loop[l] \in LoopRecords
        BY <3>3 DEF LoopRecords
      <3> QED BY <2>1, <3>1, <3>3, <3>4
    <2>2. CASE l \notin tasks
      <3>1. loop[l] = NoLoop
        BY <1>2, <2>2
      <3>2. NoLoop \in LoopRecords
        BY DEF NoLoop, LoopRecords
      <3> QED BY <2>2, <3>1, <3>2 DEF NoLoop
    <2> QED BY <2>1, <2>2
  <1>6. Typed
    <2>1. loop \in [Loops -> LoopRecords]
      <3>1. loop = [l \in Loops |-> loop[l]]
        BY DEF Init
      <3>2. \A l \in Loops : loop[l] \in LoopRecords
        BY <1>5
      <3> QED BY <3>1, <3>2
    <2>2. run \in [Runs -> RunRecords]
      BY DEF Init, NoRun, RunRecords
    <2>3. tasks \subseteq Loops /\ registry \in [Names -> Loops \cup {None}]
      <3>1. tasks = {registry[n] : n \in Names}
        BY DEF Init
      <3> QED BY <1>1, <3>1
    <2>4. /\ now = 0 /\ defined = Names /\ calls = 0 /\ phase = "serving"
          /\ cancelled = {} /\ awaited = {}
      BY DEF Init
    <2> QED BY <2>1, <2>2, <2>3, <2>4, SchedulerAssumption DEF Typed
  <1>7. LoopsWork
    <2>1. now = 0
      BY DEF Init
    <2> QED BY <1>5, <2>1 DEF LoopsWork, Live
  <1>8. Registered
    BY <1>1, <1>3, <1>5 DEF Registered
  <1>9. NoOrphanLoop
    BY <1>5 DEF NoOrphanLoop, Live
  <1> QED BY <1>6, <1>7, <1>8, <1>9 DEF IInv

\* Every step preserves the invariant.
LEMMA NextInv == IInv /\ [Next]_vars => IInv'
  <1> SUFFICES ASSUME IInv, [Next]_vars PROVE IInv'
    OBVIOUS
  <1> USE DEF IInv
  <1>0. MaxTime \in Nat /\ MaxCalls \in Nat /\ now \in Nat /\ None \notin Names \cup Loops \cup Runs
        /\ Loops \cap Runs = {}
    BY SchedulerAssumption DEF Typed
  <1>1. CASE UNCHANGED vars
    BY <1>1 DEF vars, Typed, LoopsWork, Registered, NoOrphanLoop, Live
  <1>2. CASE Pass
    BY <1>0, <1>2 DEF Pass, Typed, LoopsWork, Registered, NoOrphanLoop, Live, LoopRecords
  <1>3. ASSUME NEW n \in Names, NEW l \in Loops, Resume(n, l)
        PROVE  IInv'
    <2>1. Typed'
      <3>1. [NoLoop EXCEPT !.pc = "created", !.name = n] \in LoopRecords
        BY DEF NoLoop, LoopRecords
      <3>2. loop' \in [Loops -> LoopRecords]
        BY <1>3, <3>1 DEF Resume, Typed
      <3> QED BY <1>0, <1>3, <3>2 DEF Resume, Typed
    <2>2. LoopsWork'
      BY <1>0, <1>3 DEF Resume, Typed, LoopsWork, Live, NoLoop, LoopRecords
    <2>3. Registered'
      BY <1>0, <1>3 DEF Resume, FreeLoop, Typed, Registered, NoLoop, LoopRecords
    <2>4. NoOrphanLoop'
      BY <1>0, <1>3 DEF Resume, FreeLoop, Typed, LoopsWork, NoOrphanLoop, Live, NoLoop, LoopRecords
    <2> QED BY <2>1, <2>2, <2>3, <2>4
  <1>4. ASSUME NEW n \in Names, NEW b \in BOOLEAN, Pause(n, b)
        PROVE  IInv'
    <2>1. Typed'
      BY <1>0, <1>4 DEF Pause, Typed, Cancelling
    <2>2. LoopsWork'
      BY <1>4 DEF Pause, LoopsWork, Live
    <2>3. Registered'
      BY <1>0, <1>4 DEF Pause, Typed, Registered
    <2>4. NoOrphanLoop'
      BY <1>0, <1>4 DEF Pause, Typed, LoopsWork, Registered, NoOrphanLoop, Live, Cancelling
    <2> QED BY <2>1, <2>2, <2>3, <2>4
  <1>5. ASSUME NEW n \in Names, NEW b \in BOOLEAN, RegistryCancel(n, b)
        PROVE  IInv'
    <2>1. Typed'
      BY <1>0, <1>5 DEF RegistryCancel, Typed, Cancelling
    <2>2. LoopsWork'
      BY <1>5 DEF RegistryCancel, LoopsWork, Live
    <2>3. Registered'
      BY <1>0, <1>5 DEF RegistryCancel, Typed, Registered
    <2>4. NoOrphanLoop'
      BY <1>0, <1>5 DEF RegistryCancel, Typed, LoopsWork, Registered, NoOrphanLoop, Live, Cancelling
    <2> QED BY <2>1, <2>2, <2>3, <2>4
  <1>6. ASSUME NEW l \in Loops, LoopStart(l)
        PROVE  IInv'
    <2>1. Live(l) /\ loop[l].name \in Names
      BY <1>6 DEF LoopStart, Live, LoopsWork
    <2>2. FirstTick(loop[l].name) \in Nat /\ now \div Delay[loop[l].name] \in Nat
      <3>1. Delay[loop[l].name] \in Nat \ {0}
        BY <2>1, SchedulerAssumption
      <3>2. \A d \in Nat \ {0} : now \div d \in Nat /\ (now \div d + 1) * d \in Nat
        <4> TAKE d \in Nat \ {0}
        <4>1. now \div d \in Nat BY <1>0
        <4>2. \A e \in Nat : (e + 1) * d \in Nat OBVIOUS
        <4> QED BY <4>1, <4>2
      <3> QED BY <1>0, <3>1, <3>2 DEF FirstTick, CronAfter
    <2>3. Typed'
      <3> DEFINE c == IF Kind[loop[l].name] = "cron" THEN now \div Delay[loop[l].name] ELSE 0
                 r == [loop[l] EXCEPT !.pc = "sleeping", !.since = now,
                                      !.next = FirstTick(loop[l].name), !.last = c]
      <3>1. loop[l] \in LoopRecords /\ c \in Nat
        BY <2>2 DEF Typed
      <3>2. r \in LoopRecords
        <4> HIDE DEF c
        <4> QED BY <1>0, <2>2, <3>1 DEF LoopRecords
      <3>3. loop' = [loop EXCEPT ![l] = r]
        BY <1>6 DEF LoopStart, Typed
      <3>4. loop' \in [Loops -> LoopRecords]
        <4> HIDE DEF r
        <4> QED BY <3>2, <3>3 DEF Typed
      <3> QED BY <1>6, <3>4 DEF LoopStart, Typed
    <2>4. LoopsWork'
      BY <1>0, <1>6, <2>1 DEF LoopStart, Typed, LoopsWork, Live, LoopRecords
    <2>5. Registered'
      BY <1>0, <1>6 DEF LoopStart, Typed, Registered, LoopRecords
    <2>6. NoOrphanLoop'
      BY <1>6 DEF LoopStart, Typed, NoOrphanLoop, Live, LoopRecords
    <2> QED BY <2>3, <2>4, <2>5, <2>6
  <1>7. ASSUME NEW l \in Loops, Tick(l)
        PROVE  IInv'
    <2>1. Live(l) /\ loop[l].next <= now /\ loop[l].name \in Names /\ Kind[loop[l].name] # "timeout"
      BY <1>7 DEF Tick, Due, Live, LoopsWork
    <2>2. NextTick(loop[l].name, loop[l].next) \in Nat /\ Period(l, now) \in Nat
      BY <2>1, TickTyped
    <2>3. \E q \in Runs \cup {None} :
            /\ loop' = [loop EXCEPT ![l] = [loop[l] EXCEPT
                          !.run = q, !.last = Period(l, now), !.next = NextTick(loop[l].name, loop[l].next)]]
            /\ \/ q = loop[l].run /\ run' = run
               \/ /\ q \in Runs /\ run[q].pc = "free"
                  /\ run' = [run EXCEPT ![q] = [pc |-> "created", name |-> loop[l].name]]
      <3>1. CASE MayRun(l)
        BY <1>7, <3>1 DEF Tick, Typed, LoopRecords
      <3>2. CASE ~MayRun(l)
        <4>1. loop[l].run \in Runs \cup {None}
          BY DEF Typed, LoopRecords
        <4>2. loop' = [loop EXCEPT ![l].last = Period(l, now), ![l].next = NextTick(loop[l].name, @)]
              /\ run' = run
          BY <1>7, <3>2 DEF Tick
        <4>3. loop[l] \in LoopRecords
          BY DEF Typed
        <4>4. [loop[l] EXCEPT !.last = Period(l, now), !.next = NextTick(loop[l].name, loop[l].next)]
              = [loop[l] EXCEPT !.run = loop[l].run, !.last = Period(l, now),
                                !.next = NextTick(loop[l].name, loop[l].next)]
          BY <4>3 DEF LoopRecords
        <4>5. loop' = [loop EXCEPT ![l] = [loop[l] EXCEPT !.last = Period(l, now),
                                             !.next = NextTick(loop[l].name, loop[l].next)]]
          BY <4>2 DEF Typed
        <4> QED BY <4>1, <4>2, <4>4, <4>5
      <3> QED BY <3>1, <3>2
    <2>4. PICK q \in Runs \cup {None} :
            /\ loop' = [loop EXCEPT ![l] = [loop[l] EXCEPT
                          !.run = q, !.last = Period(l, now), !.next = NextTick(loop[l].name, loop[l].next)]]
            /\ \/ q = loop[l].run /\ run' = run
               \/ /\ q \in Runs /\ run[q].pc = "free"
                  /\ run' = [run EXCEPT ![q] = [pc |-> "created", name |-> loop[l].name]]
      BY <2>3
    <2> DEFINE t == [loop[l] EXCEPT !.run = q, !.last = Period(l, now),
                                    !.next = NextTick(loop[l].name, loop[l].next)]
    <2>5. /\ t \in LoopRecords /\ t.pc = loop[l].pc /\ t.name = loop[l].name
          /\ t.since = loop[l].since /\ t.run = q
      <3>1. loop[l] \in LoopRecords
        BY DEF Typed
      <3> QED BY <2>2, <3>1 DEF LoopRecords
    <2>6. loop' = [loop EXCEPT ![l] = t]
      BY <2>4
    <2> HIDE DEF t
    <2>8. Typed'
      <3>1. loop' \in [Loops -> LoopRecords]
        BY <2>5, <2>6 DEF Typed
      <3>2. run' \in [Runs -> RunRecords]
        BY <2>1, <2>4 DEF Typed, RunRecords
      <3> QED BY <1>7, <3>1, <3>2 DEF Tick, Typed
    <2>9. \A i \in Loops : /\ loop'[i].pc = loop[i].pc /\ loop'[i].name = loop[i].name
                           /\ loop'[i].since = loop[i].since
      BY <2>5, <2>6 DEF Typed
    <2>10. LoopsWork'
      <3>1. \A j \in Runs : run[j].pc # "free" => run'[j] = run[j]
        BY <2>4 DEF Typed
      <3>2. q # None => run'[q].pc # "free" /\ run'[q].name = loop[l].name
        BY <1>0, <2>4 DEF Typed, LoopsWork
      <3>3. \A i \in Loops : loop'[i].run # None =>
              /\ run'[loop'[i].run].pc # "free" /\ run'[loop'[i].run].name = loop'[i].name
        <4> TAKE i \in Loops
        <4>1. CASE i = l
          BY <2>5, <2>6, <3>2, <4>1 DEF Typed
        <4>2. CASE i # l
          <5>1. loop'[i] = loop[i] /\ loop[i].run \in Runs \cup {None}
            BY <2>6, <4>2 DEF Typed, LoopRecords
          <5> QED BY <3>1, <5>1 DEF LoopsWork
        <4> QED BY <4>1, <4>2
      <3> QED BY <1>7, <2>9, <3>3 DEF Tick, LoopsWork, Live
    <2>11. Registered'
      <3>1. registry' = registry /\ tasks' = tasks /\ phase' = phase
        BY <1>7 DEF Tick
      <3> QED BY <1>0, <2>9, <3>1 DEF Typed, Registered
    <2>12. NoOrphanLoop'
      BY <1>7, <2>9 DEF Tick, NoOrphanLoop, Live
    <2> QED BY <2>8, <2>10, <2>11, <2>12
  <1>8. ASSUME NEW l \in Loops, TimeoutFires(l)
        PROVE  IInv'
    <2>1. Typed'
      BY <1>8 DEF TimeoutFires, Typed, LoopRecords
    <2>2. LoopsWork'
      BY <1>8 DEF TimeoutFires, Due, Typed, LoopsWork, Live, LoopRecords
    <2>3. Registered'
      BY <1>0, <1>8 DEF TimeoutFires, Typed, Registered, LoopRecords
    <2>4. NoOrphanLoop'
      BY <1>8 DEF TimeoutFires, Due, Typed, NoOrphanLoop, Live, LoopRecords
    <2> QED BY <2>1, <2>2, <2>3, <2>4
  <1>9. ASSUME NEW l \in Loops, LoopEnds(l)
        PROVE  IInv'
    <2>1. Typed'
      BY <1>9 DEF LoopEnds, Typed, LoopRecords
    <2>2. LoopsWork'
      BY <1>9 DEF LoopEnds, Typed, LoopsWork, Live, LoopRecords
    <2>3. Registered'
      BY <1>0, <1>9 DEF LoopEnds, Typed, Registered, LoopRecords
    <2>4. NoOrphanLoop'
      BY <1>9 DEF LoopEnds, Typed, NoOrphanLoop, Live, LoopRecords
    <2> QED BY <2>1, <2>2, <2>3, <2>4
  <1>10. ASSUME NEW r \in Runs, RunStart(r)
         PROVE  IInv'
    <2>1. Typed'
      BY <1>10 DEF RunStart, Typed, RunRecords
    <2>2. LoopsWork'
      BY <1>0, <1>10 DEF RunStart, Typed, LoopsWork, Live, LoopRecords, RunRecords
    <2>3. Registered' /\ NoOrphanLoop'
      BY <1>10 DEF RunStart, Registered, NoOrphanLoop, Live
    <2> QED BY <2>1, <2>2, <2>3
  <1>11. ASSUME NEW r \in Runs, RunEnds(r)
         PROVE  IInv'
    <2>1. \A i \in Loops :
            /\ loop'[i].pc = loop[i].pc /\ loop'[i].name = loop[i].name
            /\ loop'[i].since = loop[i].since /\ loop'[i] \in LoopRecords
            /\ loop'[i].run # None => loop'[i].run = loop[i].run /\ loop[i].run # r
      BY <1>0, <1>11 DEF RunEnds, AfterRun, Typed, LoopRecords
    <2>2. Typed'
      <3>1. loop' \in [Loops -> LoopRecords]
        BY <1>11, <2>1 DEF RunEnds
      <3>2. run' \in [Runs -> RunRecords]
        BY <1>11 DEF RunEnds, NoRun, RunRecords, Typed
      <3> QED BY <1>11, <3>1, <3>2 DEF RunEnds, Typed
    <2>3. LoopsWork'
      BY <1>0, <1>11, <2>1 DEF RunEnds, Typed, LoopsWork, Live, LoopRecords
    <2>4. Registered'
      BY <1>0, <1>11, <2>1 DEF RunEnds, Typed, Registered
    <2>5. NoOrphanLoop'
      BY <1>0, <1>11, <2>1 DEF RunEnds, NoOrphanLoop, Live
    <2> QED BY <2>2, <2>3, <2>4, <2>5
  <1>12. CASE StopLoops
    <2>1. Typed'
      BY <1>12 DEF StopLoops, StoppedLoops, Typed
    <2>2. LoopsWork'
      BY <1>12 DEF StopLoops, LoopsWork, Live
    <2>3. Registered'
      BY <1>12 DEF StopLoops, Registered
    <2>4. NoOrphanLoop'
      BY <1>12 DEF StopLoops, StoppedLoops, Typed, LoopsWork, NoOrphanLoop, Live
    <2> QED BY <2>1, <2>2, <2>3, <2>4
  <1>13. CASE StopRuns
    BY <1>13 DEF StopRuns, StoppedRuns, RunningJobs, Typed, LoopsWork, Registered, NoOrphanLoop, Live
  <1>14. CASE StopReturns
    BY <1>14 DEF StopReturns, Typed, LoopsWork, Registered, NoOrphanLoop, Live
  <1> QED
    BY <1>1, <1>2, <1>3, <1>4, <1>5, <1>6, <1>7, <1>8, <1>9, <1>10, <1>11, <1>12, <1>13, <1>14
    DEF Next, Control, LoopStep, RunStep

\* The invariant holds in every reachable state.
LEMMA Invariant == Spec => []IInv
  BY InitInv, NextInv, PTL DEF Spec

\* The state is typed, and a loop that waits for a run waits for one of its
\* own job that has not ended.
THEOREM TypeCorrect == Spec => []TypeOK
  <1>1. IInv => TypeOK
    BY DEF IInv, Typed, LoopsWork, TypeOK, LoopRecords, RunRecords
  <1> QED BY <1>1, Invariant, PTL

\* A loop nobody cancelled is the one its name is registered with, so that no
\* job has two loops; and until it returns, stop() has every live loop in reach.
THEOREM LoopsReachedAlways == Spec => []LoopsReached
  <1>1. IInv => NoOrphanLoop
    BY DEF IInv
  <1>2. IInv => StopReaches
    BY SchedulerAssumption DEF IInv, Typed, LoopsWork, Registered, NoOrphanLoop, StopReaches
  <1> QED BY <1>1, <1>2, Invariant, PTL DEF LoopsReached

-----------------------------------------------------------------------------
(* Ticks *)

\* Where the grid of loop l begins.
Base(l) == IF Kind[loop[l].name] = "cron" THEN 0 ELSE loop[l].since

\* A sleeping loop wakes at a point of its grid, one delay ahead at most, in a
\* period later than that of its last tick.
OnGrid(l) ==
  loop[l].pc = "sleeping" =>
    /\ loop[l].next <= now + Delay[loop[l].name]
    /\ \E k \in Nat : loop[l].next = Base(l) + k * Delay[loop[l].name] /\ loop[l].last < k

GridInv == \A l \in Loops : OnGrid(l)

LEMMA Quotient ==
  ASSUME NEW a \in Nat, NEW d \in Nat \ {0}
  PROVE  /\ a \div d \in Nat /\ (a \div d) * d \in Nat
         /\ (a \div d) * d <= a /\ a < (a \div d) * d + d
         /\ (a \div d + 1) * d = (a \div d) * d + d
  <1> DEFINE q == a \div d
  <1>1. q \in Nat /\ q * d <= a /\ a < (q + 1) * d OBVIOUS
  <1> HIDE DEF q
  <1>2. (q + 1) * d = q * d + d BY <1>1
  <1>3. q * d \in Nat BY <1>1
  <1> QED BY <1>1, <1>2, <1>3 DEF q

\* Of two multiples of the delay the later has the larger factor.
LEMMA LaterFactor ==
  ASSUME NEW k \in Nat, NEW p \in Nat, NEW d \in Nat \ {0}, NEW a \in Nat, p * d <= a, a < k * d
  PROVE  p < k
  <1> SUFFICES ASSUME k <= p PROVE FALSE OBVIOUS
  <1>1. PICK j \in Nat : p = k + j OBVIOUS
  <1>2. p * d = k * d + j * d BY <1>1
  <1>3. j * d \in Nat /\ k * d \in Nat OBVIOUS
  <1> QED BY <1>2, <1>3

\* A loop's next tick is a later point of the grid.
LEMMA NextTickOnGrid ==
  ASSUME NEW base \in Nat, NEW d \in Nat \ {0}, NEW at \in Nat, NEW next \in Nat, base <= at, next <= at,
         NEW k \in Nat, next = base + k * d
  PROVE  /\ \E m \in Nat : NextInterval(next, d, at) = base + m * d /\ (at - base) \div d < m
         /\ NextInterval(next, d, at) <= at + d
  <1>1. /\ NextInterval(next, d, at) \in Nat /\ at < NextInterval(next, d, at)
        /\ NextInterval(next, d, at) <= at + d
    BY NextIntervalBounds
  <1>2. \E m \in Nat : NextInterval(next, d, at) = base + m * d
    <2>1. CASE next + d <= at
      <3>1. PICK q \in Nat : q = (at - next - d) \div d BY <2>1, Quotient
      <3>2. NextInterval(next, d, at) = next + d + (q + 1) * d BY <2>1, <3>1 DEF NextInterval
      <3>3. (k + 1 + (q + 1)) * d = k * d + d + (q + 1) * d OBVIOUS
      <3>4. k * d \in Nat /\ (q + 1) * d \in Nat OBVIOUS
      <3>5. PICK m \in Nat : m = k + 1 + (q + 1) OBVIOUS
      <3>6. NextInterval(next, d, at) = base + m * d BY <3>2, <3>3, <3>4, <3>5
      <3> QED BY <3>6
    <2>2. CASE ~(next + d <= at)
      <3>1. NextInterval(next, d, at) = next + d BY <2>2 DEF NextInterval
      <3>2. (k + 1) * d = k * d + d /\ k * d \in Nat OBVIOUS
      <3>3. PICK m \in Nat : m = k + 1 OBVIOUS
      <3>4. NextInterval(next, d, at) = base + m * d BY <3>1, <3>2, <3>3
      <3> QED BY <3>4
    <2> QED BY <2>1, <2>2
  <1>3. PICK m \in Nat : NextInterval(next, d, at) = base + m * d BY <1>2
  <1>4. PICK a \in Nat : a = at - base OBVIOUS
  <1>5. PICK p \in Nat : p = a \div d BY Quotient
  <1>6. p * d <= a BY <1>5, Quotient
  <1>7. m * d \in Nat /\ a < m * d BY <1>1, <1>3, <1>4
  <1>8. p < m BY <1>6, <1>7, LaterFactor
  <1> QED BY <1>1, <1>3, <1>4, <1>5, <1>8

LEMMA CronOnGrid ==
  ASSUME NEW d \in Nat \ {0}, NEW t \in Nat
  PROVE  /\ t < CronAfter(t, d) /\ CronAfter(t, d) <= t + d
         /\ \E m \in Nat : CronAfter(t, d) = m * d /\ t \div d < m
  <1>1. PICK q \in Nat : q = t \div d BY Quotient
  <1>2. CronAfter(t, d) = (q + 1) * d BY <1>1 DEF CronAfter
  <1>3. q * d \in Nat /\ q * d <= t /\ t < q * d + d /\ (q + 1) * d = q * d + d BY <1>1, Quotient
  <1>4. t < CronAfter(t, d) /\ CronAfter(t, d) <= t + d BY <1>2, <1>3
  <1> QED BY <1>1, <1>2, <1>4

LEMMA NextCronOnGrid ==
  ASSUME NEW d \in Nat \ {0}, NEW at \in Nat, NEW next \in Nat, next <= at
  PROVE  /\ \E m \in Nat : NextCron(next, d, at) = m * d /\ at \div d < m
         /\ NextCron(next, d, at) <= at + d
  <1>1. CASE CronAfter(next, d) <= at
    <2>1. NextCron(next, d, at) = CronAfter(at, d) BY <1>1 DEF NextCron
    <2> QED BY <2>1, CronOnGrid
  <1>2. CASE ~(CronAfter(next, d) <= at)
    <2>1. NextCron(next, d, at) = CronAfter(next, d) BY <1>2 DEF NextCron
    <2>2. PICK m \in Nat : CronAfter(next, d) = m * d BY CronOnGrid
    <2>3. PICK p \in Nat : p = at \div d BY Quotient
    <2>4. p * d <= at BY <2>3, Quotient
    <2>5. m * d \in Nat OBVIOUS
    <2>6. p < m BY <1>2, <2>2, <2>4, <2>5, LaterFactor
    <2>7. CronAfter(next, d) <= next + d BY CronOnGrid
    <2>8. CronAfter(next, d) <= at + d BY <2>2, <2>5, <2>7
    <2> QED BY <2>1, <2>2, <2>3, <2>6, <2>8
  <1> QED BY <1>1, <1>2

\* A loop that keeps its place stays on its grid while time passes.
LEMMA GridStays ==
  ASSUME NEW l, OnGrid(l), loop'[l].pc = "sleeping" => /\ loop[l].pc = "sleeping" /\ loop'[l].name = loop[l].name
                                                       /\ loop'[l].next = loop[l].next
                                                       /\ loop'[l].since = loop[l].since
                                                       /\ loop'[l].last = loop[l].last,
         now \in Int, now' \in Int, now <= now', loop[l].pc = "sleeping" => Delay[loop[l].name] \in Int /\ loop[l].next \in Int
  PROVE  OnGrid(l)'
  <1> SUFFICES ASSUME loop'[l].pc = "sleeping" PROVE OnGrid(l)' BY DEF OnGrid
  <1>1. Base(l)' = Base(l) BY DEF Base
  <1>2. loop[l].next <= now' + Delay[loop[l].name] BY DEF OnGrid
  <1> QED BY <1>1, <1>2 DEF OnGrid

LEMMA GridStep == ASSUME IInv, GridInv, [Next]_vars PROVE GridInv'
  <1> USE DEF IInv, Typed
  <1>0. /\ now \in Nat /\ MaxTime \in Nat
        /\ \A l \in Loops : /\ loop[l] \in LoopRecords
                            /\ Live(l) => loop[l].name \in Names /\ Delay[loop[l].name] \in Nat \ {0}
    BY SchedulerAssumption DEF LoopsWork
  <1>1. ASSUME NEW l \in Loops, now' \in Nat, now <= now',
               loop'[l].pc = "sleeping" => /\ loop[l].pc = "sleeping" /\ loop'[l].name = loop[l].name
                                           /\ loop'[l].next = loop[l].next /\ loop'[l].since = loop[l].since
                                           /\ loop'[l].last = loop[l].last
        PROVE  OnGrid(l)'
    <2>1. loop[l].pc = "sleeping" => Delay[loop[l].name] \in Int /\ loop[l].next \in Int
      BY <1>0 DEF Live, LoopRecords
    <2>2. OnGrid(l) BY DEF GridInv
    <2> QED BY <1>0, <1>1, <2>1, <2>2, GridStays
  <1>2. CASE UNCHANGED vars BY <1>0, <1>1, <1>2 DEF vars, GridInv
  <1>3. CASE Pass
    <2>1. now' \in Nat /\ now <= now' /\ loop' = loop BY <1>0, <1>3 DEF Pass
    <2> QED BY <1>1, <2>1 DEF GridInv
  <1>4. CASE Control \/ StopLoops \/ StopRuns \/ StopReturns
    <2>1. now' = now /\ \A l \in Loops : loop'[l] = loop[l] \/ loop'[l].pc = "created"
      BY <1>4 DEF Control, Resume, Pause, RegistryCancel, StopLoops, StopRuns, StopReturns, NoLoop
    <2> QED BY <1>0, <1>1, <2>1 DEF GridInv
  <1>5. ASSUME NEW l \in Loops, LoopStart(l) PROVE GridInv'
    <2>1. loop[l].pc = "created" /\ Live(l) /\ now' = now BY <1>5 DEF LoopStart, Live
    <2>2. PICK n \in Names, d \in Nat \ {0} : n = loop[l].name /\ d = Delay[n] BY <1>0, <2>1
    <2>3. /\ loop'[l].pc = "sleeping" /\ loop'[l].name = n /\ loop'[l].since = now
          /\ loop'[l].next = FirstTick(n)
          /\ loop'[l].last = IF Kind[n] = "cron" THEN now \div d ELSE 0
      BY <1>0, <1>5, <2>2 DEF LoopStart, LoopRecords
    <2>4. OnGrid(l)'
      <3>1. CASE Kind[n] = "cron"
        <4>1. FirstTick(n) = CronAfter(now, d) BY <2>2, <3>1 DEF FirstTick
        <4>2. Base(l)' = 0 BY <2>3, <3>1 DEF Base
        <4>3. PICK m \in Nat : CronAfter(now, d) = m * d /\ now \div d < m BY <1>0, CronOnGrid
        <4>4. CronAfter(now, d) <= now + d BY <1>0, CronOnGrid
        <4>5. m * d \in Nat /\ m * d = 0 + m * d OBVIOUS
        <4> QED BY <2>1, <2>2, <2>3, <3>1, <4>1, <4>2, <4>3, <4>4, <4>5 DEF OnGrid
      <3>2. CASE Kind[n] # "cron"
        <4>1. FirstTick(n) = now + d BY <2>2, <3>2 DEF FirstTick
        <4>2. Base(l)' = now BY <2>3, <3>2 DEF Base
        <4>3. now + d = now + 1 * d /\ 0 < 1 /\ now + d <= now + d BY <1>0
        <4> QED BY <2>1, <2>2, <2>3, <3>2, <4>1, <4>2, <4>3 DEF OnGrid
      <3> QED BY <3>1, <3>2
    <2>5. \A m \in Loops \ {l} : loop'[m] = loop[m] BY <1>5 DEF LoopStart
    <2> QED BY <1>0, <1>1, <2>1, <2>4, <2>5 DEF GridInv
  <1>6. ASSUME NEW l \in Loops, Tick(l) PROVE GridInv'
    <2>1. /\ loop[l].pc = "sleeping" /\ Live(l) /\ loop[l].next <= now /\ now' = now
          /\ Kind[loop[l].name] # "timeout"
      BY <1>6 DEF Tick, Due, Live
    <2>2. PICK n \in Names, d \in Nat \ {0} : n = loop[l].name /\ d = Delay[n] BY <1>0, <2>1
    <2>3. /\ loop'[l].pc = "sleeping" /\ loop'[l].name = n /\ loop'[l].since = loop[l].since
          /\ loop'[l].next = NextTick(n, loop[l].next) /\ loop'[l].last = Period(l, now)
      <3>1. \E q : loop' = [loop EXCEPT ![l] = [loop[l] EXCEPT !.run = q, !.last = Period(l, now),
                                                              !.next = NextTick(n, loop[l].next)]]
        <4>1. CASE MayRun(l) BY <1>6, <2>2, <4>1 DEF Tick
        <4>2. CASE ~MayRun(l)
          <5>1. loop' = [loop EXCEPT ![l] = [loop[l] EXCEPT !.last = Period(l, now), !.next = NextTick(n, loop[l].next)]]
            BY <1>6, <2>2, <4>2 DEF Tick
          <5>2. [loop[l] EXCEPT !.last = Period(l, now), !.next = NextTick(n, loop[l].next)]
                = [loop[l] EXCEPT !.run = loop[l].run, !.last = Period(l, now), !.next = NextTick(n, loop[l].next)]
            BY <1>0 DEF LoopRecords
          <5> QED BY <5>1, <5>2
        <4> QED BY <4>1, <4>2
      <3> QED BY <1>0, <2>1, <2>2, <3>1 DEF LoopRecords
    <2>4. loop[l].next \in Nat /\ loop[l].since \in Nat /\ loop[l].since <= now
      BY <1>0 DEF LoopRecords, LoopsWork
    <2>5. PICK k \in Nat : loop[l].next = Base(l) + k * d BY <2>1, <2>2 DEF GridInv, OnGrid
    <2>6. Base(l)' = Base(l) BY <2>2, <2>3 DEF Base
    <2>7. OnGrid(l)'
      <3>1. CASE Kind[n] = "cron"
        <4>1. NextTick(n, loop[l].next) = NextCron(loop[l].next, d, now) BY <2>2, <3>1 DEF NextTick
        <4>2. Base(l) = 0 /\ Period(l, now) = now \div d BY <2>2, <3>1 DEF Base, Period
        <4>3. PICK m \in Nat : NextCron(loop[l].next, d, now) = m * d /\ now \div d < m
          BY <1>0, <2>1, <2>4, NextCronOnGrid
        <4>4. NextCron(loop[l].next, d, now) <= now + d BY <1>0, <2>1, <2>4, NextCronOnGrid
        <4>5. m * d \in Nat /\ m * d = 0 + m * d OBVIOUS
        <4> QED BY <2>1, <2>2, <2>3, <2>6, <4>1, <4>2, <4>3, <4>4, <4>5 DEF OnGrid
      <3>2. CASE Kind[n] # "cron"
        <4>1. NextTick(n, loop[l].next) = NextInterval(loop[l].next, d, now) BY <2>2, <3>2 DEF NextTick
        <4>2. PICK base \in Nat : base = Base(l) /\ base = loop[l].since /\ base <= now BY <2>2, <2>4, <3>2 DEF Base
        <4>3. Period(l, now) = (now - base) \div d BY <2>2, <3>2, <4>2 DEF Period
        <4>4. PICK next \in Nat, at \in Nat :
                next = loop[l].next /\ at = now /\ base <= at /\ next <= at /\ next = base + k * d
          BY <1>0, <2>1, <2>4, <2>5, <4>2
        <4>5. /\ \E m \in Nat : NextInterval(next, d, at) = base + m * d /\ (at - base) \div d < m
              /\ NextInterval(next, d, at) <= at + d
          BY <4>4, NextTickOnGrid
        <4>6. PICK m \in Nat : NextInterval(next, d, at) = base + m * d /\ (at - base) \div d < m BY <4>5
        <4> QED BY <2>1, <2>2, <2>3, <2>6, <4>1, <4>2, <4>3, <4>4, <4>5, <4>6 DEF OnGrid
      <3> QED BY <3>1, <3>2
    <2>8. \A m \in Loops \ {l} : loop'[m] = loop[m] BY <1>6 DEF Tick
    <2> QED BY <1>0, <1>1, <2>1, <2>7, <2>8 DEF GridInv
  <1>7. ASSUME NEW l \in Loops, TimeoutFires(l) \/ LoopEnds(l) PROVE GridInv'
    <2>1. now' = now /\ \A m \in Loops : loop'[m] = loop[m] \/ loop'[m].pc \in {"running", "ended"}
      BY <1>0, <1>7 DEF TimeoutFires, LoopEnds, LoopRecords
    <2> QED BY <1>0, <1>1, <2>1 DEF GridInv
  <1>8. ASSUME NEW r \in Runs, RunStep(r) PROVE GridInv'
    <2>1. now' = now /\ \A m \in Loops : \/ loop'[m] = loop[m]
                                         \/ loop'[m] = [loop[m] EXCEPT !.run = None]
      BY <1>8 DEF RunStep, RunStart, RunEnds, AfterRun
    <2>2. \A m \in Loops : /\ loop'[m].pc = loop[m].pc /\ loop'[m].name = loop[m].name
                           /\ loop'[m].next = loop[m].next /\ loop'[m].since = loop[m].since
                           /\ loop'[m].last = loop[m].last
      BY <1>0, <2>1 DEF LoopRecords
    <2> QED BY <1>0, <1>1, <2>1, <2>2 DEF GridInv
  <1> QED BY <1>2, <1>3, <1>4, <1>5, <1>6, <1>7, <1>8 DEF Next, LoopStep

LEMMA GridInit == Init => GridInv
  <1> SUFFICES ASSUME Init PROVE GridInv OBVIOUS
  <1>1. \A l \in Loops : loop[l].pc \in {"created", "free"} BY DEF Init, NoLoop
  <1> QED BY <1>1 DEF GridInv, OnGrid

LEMMA GridAlways == Spec => []GridInv
  <1>1. IInv /\ GridInv /\ [Next]_vars => GridInv' BY GridStep
  <1> QED BY GridInit, <1>1, Invariant, PTL DEF Spec

LEMMA WakesOnGrid == ASSUME IInv, GridInv PROVE NextOnGrid
  <1> SUFFICES ASSUME NEW l \in Loops, loop[l].pc = "sleeping", NEW d, d = Delay[loop[l].name]
      PROVE  /\ (loop[l].next - Base(l)) % d = 0
             /\ loop[l].next <= now + d
    BY DEF NextOnGrid, Base
  <1>1. d \in Nat \ {0} /\ loop[l].since \in Nat
    BY SchedulerAssumption DEF IInv, Typed, LoopsWork, LoopRecords, Live
  <1>2. PICK k \in Nat : loop[l].next = Base(l) + k * d BY DEF GridInv, OnGrid
  <1>3. PICK b \in Nat : b = Base(l) BY <1>1 DEF Base
  <1>4. k * d \in Nat BY <1>1
  <1>5. (b + k * d) - b = k * d BY <1>4
  <1>6. (k * d) % d = 0 BY <1>1
  <1>7. loop[l].next <= now + d BY DEF GridInv, OnGrid
  <1> QED BY <1>2, <1>3, <1>5, <1>6, <1>7

LEMMA NoPeriodTwice == ASSUME IInv, GridInv, NEW l \in Loops, Due(l) PROVE Period(l, now) > loop[l].last
  <1>1. PICK d \in Nat \ {0} : d = Delay[loop[l].name]
    BY SchedulerAssumption DEF IInv, Typed, LoopsWork, Due, Live
  <1>2. /\ now \in Nat /\ loop[l].since \in Nat /\ loop[l].since <= now /\ loop[l].last \in Nat
        /\ loop[l].next <= now /\ loop[l].pc = "sleeping"
    BY SchedulerAssumption DEF IInv, Typed, LoopsWork, LoopRecords, Due
  <1>3. PICK b \in Nat : b = Base(l) /\ b <= now BY <1>2 DEF Base
  <1>4. PICK k \in Nat : loop[l].next = b + k * d /\ loop[l].last < k BY <1>1, <1>2, <1>3 DEF GridInv, OnGrid
  <1>5. PICK a \in Nat : a = now - b BY <1>2, <1>3
  <1>6. Period(l, now) = a \div d BY <1>1, <1>2, <1>3, <1>5 DEF Period, Base
  <1>7. PICK p \in Nat : p = a \div d BY Quotient
  <1>8. a < p * d + d /\ p * d \in Nat /\ (p + 1) * d = p * d + d BY <1>7, Quotient
  <1>9. k * d <= a /\ k * d \in Nat
    <2>1. k * d \in Nat OBVIOUS
    <2> QED BY <1>2, <1>4, <1>5, <2>1
  <1>10. k < p + 1
    <2>1. a < (p + 1) * d BY <1>8
    <2>2. p + 1 \in Nat OBVIOUS
    <2> QED BY <1>9, <2>1, <2>2, LaterFactor
  <1> QED BY <1>2, <1>4, <1>6, <1>7, <1>10

\* Missed ticks are skipped: no loop ticks twice in one period of its grid.
THEOREM NoBurstEver == Spec => NoBurst
  <1>1. IInv /\ GridInv => \A l \in Loops : Due(l) => Period(l, now) > loop[l].last BY NoPeriodTwice
  <1>2. IInv /\ GridInv => [\A l \in Loops : Due(l) /\ loop'[l].next # loop[l].next
                               => Period(l, now) > loop[l].last]_vars
    BY <1>1
  <1> QED BY <1>2, Invariant, GridAlways, PTL DEF NoBurst

-----------------------------------------------------------------------------
(* stop() and runs that are waited for *)

\* resume_job() is not called while stop() waits; with it, a job that is waited
\* for may meet the run its paused predecessor started.
ResumesServing == ResumeDuring \subseteq {"serving"} /\ (Waiting = {} \/ ResumeDuring = {})

\* Once stop() is called every loop has its cancellation, so no run is added to
\* those that it awaits.
StopInv ==
  /\ phase # "serving" => \A l \in Loops : Live(l) => l \in cancelled
  /\ phase = "runs" => RunningJobs \subseteq awaited
  /\ phase = "stopped" => RunningJobs = {}

LEMMA StopStep == ASSUME ResumesServing, IInv, StopInv, [Next]_vars PROVE StopInv'
  <1> USE DEF IInv, Typed
  <1>0. Loops \cap Runs = {} BY SchedulerAssumption
  <1>1. CASE UNCHANGED vars \/ Pass BY <1>1 DEF vars, Pass, StopInv, Live, RunningJobs
  <1>2. CASE Control
    <2>1. ASSUME NEW n \in Names, NEW l \in Loops, Resume(n, l) PROVE StopInv'
      BY <2>1 DEF Resume, ResumesServing, StopInv
    <2>2. ASSUME NEW n \in Names, NEW b \in BOOLEAN, Pause(n, b) \/ RegistryCancel(n, b) PROVE StopInv'
      <3>1. UNCHANGED <<loop, run, phase, awaited>> /\ cancelled \subseteq cancelled'
        BY <2>2 DEF Pause, RegistryCancel
      <3> QED BY <3>1 DEF StopInv, Live, RunningJobs
    <2> QED BY <1>2, <2>1, <2>2 DEF Control
  <1>3. CASE StopLoops
    <2>1. phase' = "loops" /\ loop' = loop /\ cancelled' = cancelled \cup StoppedLoops /\ phase # "stopped"
      BY <1>3 DEF StopLoops
    <2>2. ASSUME NEW l \in Loops, Live(l) PROVE l \in cancelled'
      <3>1. l \in cancelled \/ (registry[loop[l].name] = l /\ loop[l].name \in Names)
        BY <2>2 DEF NoOrphanLoop, LoopsWork
      <3> QED BY <2>1, <2>2, <3>1 DEF StoppedLoops
    <2> QED BY <2>1, <2>2 DEF StopInv, Live
  <1>4. CASE StopRuns BY <1>4 DEF StopRuns, StoppedRuns, StopInv, Live, RunningJobs
  <1>5. CASE StopReturns BY <1>5 DEF StopReturns, StopInv, Live, RunningJobs
  <1>6. ASSUME NEW l \in Loops, LoopStart(l) \/ Tick(l) \/ TimeoutFires(l) PROVE StopInv'
    <2>1. Live(l) /\ l \notin cancelled BY <1>6 DEF LoopStart, Tick, TimeoutFires, Due, Live
    <2>2. phase = "serving" BY <2>1 DEF StopInv
    <2>3. phase' = phase BY <1>6 DEF LoopStart, Tick, TimeoutFires
    <2> QED BY <2>2, <2>3 DEF StopInv
  <1>7. ASSUME NEW l \in Loops, LoopEnds(l) PROVE StopInv'
    <2>1. UNCHANGED <<run, phase>> /\ cancelled' = cancelled \ {l} /\ awaited' = awaited \ {l}
      BY <1>7 DEF LoopEnds
    <2>2. \A m \in Loops : Live(m)' => Live(m) /\ m # l BY <1>7 DEF LoopEnds, Live, LoopRecords
    <2>3. RunningJobs' = RunningJobs /\ l \notin RunningJobs BY <1>0, <2>1 DEF RunningJobs
    <2> QED BY <2>1, <2>2, <2>3 DEF StopInv
  <1>8. ASSUME NEW r \in Runs, RunStart(r) PROVE StopInv'
    <2>1. UNCHANGED <<loop, phase, cancelled, awaited>> /\ r \in RunningJobs BY <1>8 DEF RunStart, RunningJobs
    <2>2. RunningJobs' = RunningJobs BY <1>8, <2>1 DEF RunStart, RunningJobs, RunRecords
    <2> QED BY <2>1, <2>2 DEF StopInv, Live
  <1>9. ASSUME NEW r \in Runs, RunEnds(r) PROVE StopInv'
    <2>1. phase' = phase /\ cancelled' = cancelled \ {r} /\ awaited' = awaited \ {r} BY <1>9 DEF RunEnds
    <2>2. RunningJobs' = RunningJobs \ {r} BY <1>9 DEF RunEnds, RunningJobs, NoRun, RunRecords
    <2>3. \A m \in Loops : Live(m)' => Live(m) /\ m # r
      BY <1>0, <1>9 DEF RunEnds, AfterRun, Live, LoopRecords
    <2> QED BY <2>1, <2>2, <2>3 DEF StopInv
  <1> QED BY <1>1, <1>2, <1>3, <1>4, <1>5, <1>6, <1>7, <1>8, <1>9 DEF Next, LoopStep, RunStep

\* Of a job that is never resumed there is one loop, which knows the job's run
\* unless it has ended.
OneLoopEach == \A l, m \in Loops : loop[l].name = loop[m].name /\ loop[l].name # None => l = m

KnownRuns ==
  \A r \in RunningJobs : run[r].name \in Waiting =>
    \E l \in Loops : loop[l].name = run[r].name /\ (loop[l].run = r \/ loop[l].pc = "ended")

OverlapInv == Waiting # {} => OneLoopEach /\ KnownRuns /\ NoOverlap

\* The loop after a tick that leaves it waiting for q.
TickTo(l, q) ==
  loop' = [loop EXCEPT ![l] = [loop[l] EXCEPT !.run = q, !.last = Period(l, now),
                                              !.next = NextTick(loop[l].name, loop[l].next)]]

LEMMA OverlapStep == ASSUME ResumesServing, IInv, OverlapInv, [Next]_vars PROVE OverlapInv'
  <1> USE DEF IInv, Typed
  <1> SUFFICES ASSUME Waiting # {}, OneLoopEach, KnownRuns, NoOverlap, ResumeDuring = {}
      PROVE  (OneLoopEach /\ KnownRuns /\ NoOverlap)'
    BY DEF OverlapInv, ResumesServing
  <1>0. Waiting \subseteq Names /\ None \notin Names \cup Runs /\ \A l \in Loops : loop[l] \in LoopRecords
    BY SchedulerAssumption
  <1>1. ASSUME UNCHANGED <<loop, run>> PROVE (OneLoopEach /\ KnownRuns /\ NoOverlap)'
    BY <1>1 DEF OneLoopEach, KnownRuns, NoOverlap, RunningJobs
  <1>2. CASE UNCHANGED vars \/ Pass \/ StopLoops \/ StopRuns \/ StopReturns
    BY <1>1, <1>2 DEF vars, Pass, StopLoops, StopRuns, StopReturns
  <1>3. CASE Control BY <1>1, <1>3 DEF Control, Resume, Pause, RegistryCancel
  <1>4. ASSUME NEW l \in Loops, LoopStart(l) \/ TimeoutFires(l) \/ LoopEnds(l)
        PROVE  (OneLoopEach /\ KnownRuns /\ NoOverlap)'
    <2>1. \A m \in Loops : /\ loop'[m].name = loop[m].name
                           /\ loop[m].run = loop'[m].run \/ loop'[m].pc = "ended"
                           /\ loop[m].pc = "ended" => loop'[m].pc = "ended"
      BY <1>0, <1>4 DEF LoopStart, TimeoutFires, LoopEnds, Due, Live, LoopRecords
    <2>2. run' = run BY <1>4 DEF LoopStart, TimeoutFires, LoopEnds
    <2>3. KnownRuns'
      <3> SUFFICES ASSUME NEW r \in RunningJobs', run'[r].name \in Waiting
          PROVE  \E m \in Loops : loop'[m].name = run'[r].name /\ (loop'[m].run = r \/ loop'[m].pc = "ended")
        BY DEF KnownRuns
      <3>1. PICK m \in Loops : loop[m].name = run[r].name /\ (loop[m].run = r \/ loop[m].pc = "ended")
        BY <2>2 DEF KnownRuns, RunningJobs
      <3> QED BY <2>1, <2>2, <3>1
    <2>4. OneLoopEach' BY <2>1 DEF OneLoopEach
    <2>5. NoOverlap' BY <2>2 DEF NoOverlap, RunningJobs
    <2> QED BY <2>3, <2>4, <2>5
  <1>5. ASSUME NEW l \in Loops, Tick(l) PROVE (OneLoopEach /\ KnownRuns /\ NoOverlap)'
    <2>0. \E q : TickTo(l, q)
      <3>1. CASE MayRun(l) BY <1>5, <3>1 DEF Tick, TickTo
      <3>2. CASE ~MayRun(l)
        <4>1. loop' = [loop EXCEPT ![l] = [loop[l] EXCEPT !.last = Period(l, now),
                                                          !.next = NextTick(loop[l].name, loop[l].next)]]
          BY <1>5, <3>2 DEF Tick
        <4>2. [loop[l] EXCEPT !.last = Period(l, now), !.next = NextTick(loop[l].name, loop[l].next)]
              = [loop[l] EXCEPT !.run = loop[l].run, !.last = Period(l, now),
                                !.next = NextTick(loop[l].name, loop[l].next)]
          BY <1>0 DEF LoopRecords
        <4> QED BY <4>1, <4>2 DEF TickTo
      <3> QED BY <3>1, <3>2
    <2>1. /\ loop[l].pc = "sleeping"
          /\ \A m \in Loops : loop'[m].name = loop[m].name /\ loop'[m].pc = loop[m].pc
          /\ \A m \in Loops \ {l} : loop'[m] = loop[m]
      <3>1. PICK q : TickTo(l, q) BY <2>0
      <3>2. \A m \in Loops \ {l} : loop'[m] = loop[m] BY <3>1 DEF TickTo
      <3>3. loop'[l].name = loop[l].name /\ loop'[l].pc = loop[l].pc BY <1>0, <3>1 DEF TickTo, LoopRecords
      <3> QED BY <1>5, <3>2, <3>3 DEF Tick, Due
    <2>2. OneLoopEach' BY <2>1 DEF OneLoopEach
    <2>3. CASE ~MayRun(l)
      <3>1. run' = run /\ loop'[l].run = loop[l].run BY <1>0, <1>5, <2>3 DEF Tick, LoopRecords
      <3>2. \A m \in Loops : loop'[m].run = loop[m].run BY <2>1, <3>1
      <3>3. KnownRuns' BY <2>1, <3>1, <3>2 DEF KnownRuns, RunningJobs
      <3>4. NoOverlap' BY <3>1 DEF NoOverlap, RunningJobs
      <3> QED BY <2>2, <3>3, <3>4
    <2>4. CASE MayRun(l)
      <3>0. PICK r \in Runs :
              /\ run[r].pc = "free"
              /\ run' = [run EXCEPT ![r] = [pc |-> "created", name |-> loop[l].name]]
              /\ TickTo(l, r)
        BY <1>5, <2>4 DEF Tick, TickTo
      <3>1. /\ run[r].pc = "free"
            /\ run' = [run EXCEPT ![r] = [pc |-> "created", name |-> loop[l].name]]
            /\ loop'[l].run = r
        BY <1>0, <3>0 DEF LoopRecords, TickTo
      <3>2. /\ RunningJobs' = RunningJobs \cup {r} /\ r \notin RunningJobs
            /\ run'[r].name = loop[l].name /\ \A q \in RunningJobs : run'[q] = run[q]
        BY <3>1 DEF RunningJobs
      <3>3. ASSUME loop[l].name \in Waiting, NEW q \in RunningJobs PROVE run[q].name # loop[l].name
        <4> SUFFICES ASSUME run[q].name = loop[l].name PROVE FALSE OBVIOUS
        <4>1. PICK m \in Loops : loop[m].name = run[q].name /\ (loop[m].run = q \/ loop[m].pc = "ended")
          BY <3>3 DEF KnownRuns
        <4>2. m = l BY <1>0, <3>3, <4>1 DEF OneLoopEach
        <4>3. loop[l].run = q /\ q \in Runs BY <2>1, <4>1, <4>2 DEF RunningJobs
        <4> QED BY <1>0, <2>4, <3>3, <4>3 DEF MayRun
      <3>4. NoOverlap' BY <3>2, <3>3 DEF NoOverlap
      <3>5. KnownRuns'
        <4> SUFFICES ASSUME NEW q \in RunningJobs', run'[q].name \in Waiting
            PROVE  \E m \in Loops : loop'[m].name = run'[q].name /\ (loop'[m].run = q \/ loop'[m].pc = "ended")
          BY DEF KnownRuns
        <4>1. CASE q = r BY <2>1, <3>1, <3>2, <4>1
        <4>2. CASE q # r
          <5>1. q \in RunningJobs /\ run'[q] = run[q] BY <3>2, <4>2
          <5>2. PICK m \in Loops : loop[m].name = run[q].name /\ (loop[m].run = q \/ loop[m].pc = "ended")
            BY <5>1 DEF KnownRuns
          <5>3. m # l
            <6> SUFFICES ASSUME m = l PROVE FALSE OBVIOUS
            <6>1. loop[l].name \in Waiting /\ run[q].name = loop[l].name BY <5>1, <5>2
            <6> QED BY <3>3, <5>1, <6>1
          <5> QED BY <2>1, <5>1, <5>2, <5>3
        <4> QED BY <4>1, <4>2
      <3> QED BY <2>2, <3>4, <3>5
    <2> QED BY <2>3, <2>4
  <1>6. ASSUME NEW r \in Runs, RunStart(r) PROVE (OneLoopEach /\ KnownRuns /\ NoOverlap)'
    <2>1. /\ loop' = loop /\ RunningJobs' = RunningJobs
          /\ \A q \in Runs : run'[q].name = run[q].name
      BY <1>6 DEF RunStart, RunningJobs, RunRecords
    <2> QED BY <2>1 DEF OneLoopEach, KnownRuns, NoOverlap, RunningJobs
  <1>7. ASSUME NEW r \in Runs, RunEnds(r) PROVE (OneLoopEach /\ KnownRuns /\ NoOverlap)'
    <2>1. RunningJobs' = RunningJobs \ {r} /\ \A q \in RunningJobs' : run'[q] = run[q]
      BY <1>7 DEF RunEnds, RunningJobs, NoRun, RunRecords
    <2>2. \A m \in Loops : /\ loop'[m].name = loop[m].name /\ loop'[m].pc = loop[m].pc
                           /\ loop[m].run # r => loop'[m].run = loop[m].run
      BY <1>0, <1>7 DEF RunEnds, AfterRun, LoopRecords
    <2>3. KnownRuns'
      <3> SUFFICES ASSUME NEW q \in RunningJobs', run'[q].name \in Waiting
          PROVE  \E m \in Loops : loop'[m].name = run'[q].name /\ (loop'[m].run = q \/ loop'[m].pc = "ended")
        BY DEF KnownRuns
      <3>1. q \in RunningJobs /\ q # r /\ run'[q] = run[q] BY <2>1
      <3>2. PICK m \in Loops : loop[m].name = run[q].name /\ (loop[m].run = q \/ loop[m].pc = "ended")
        BY <3>1 DEF KnownRuns
      <3> QED BY <2>2, <3>1, <3>2
    <2>4. OneLoopEach' BY <2>2 DEF OneLoopEach
    <2>5. NoOverlap' BY <2>1 DEF NoOverlap
    <2> QED BY <2>3, <2>4, <2>5
  <1> QED BY <1>2, <1>3, <1>4, <1>5, <1>6, <1>7 DEF Next, LoopStep, RunStep

LEMMA StopOverlapInit == Init => StopInv /\ OverlapInv
  <1> SUFFICES ASSUME Init PROVE StopInv /\ OverlapInv OBVIOUS
  <1>1. RunningJobs = {} /\ phase = "serving" BY DEF Init, RunningJobs, NoRun
  <1>2. ASSUME NEW l \in Loops, loop[l].name # None PROVE l \in tasks /\ registry[loop[l].name] = l
    <2>1. l \in tasks BY <1>2 DEF Init, NoLoop
    <2>2. Live(l) /\ l \notin cancelled BY <2>1 DEF Init, NoLoop, Live
    <2> QED BY <2>1, <2>2, InitInv DEF IInv, NoOrphanLoop
  <1>3. OneLoopEach BY <1>2 DEF OneLoopEach
  <1> QED BY <1>1, <1>3 DEF StopInv, OverlapInv, KnownRuns, NoOverlap

\* No job runs after stop(), runs that wait for completion do not overlap, and
\* loops wake at a tick of their grid (ScheduleRunner.stop, _run_interval,
\* _run_cron).
THEOREM TicksAlways == ASSUME ResumesServing PROVE Spec => []TicksKept
  <1>1. IInv /\ StopInv /\ OverlapInv /\ [Next]_vars => (StopInv /\ OverlapInv)'
    BY StopStep, OverlapStep
  <1>2. IInv /\ GridInv /\ StopInv /\ OverlapInv => TicksKept
    <2> SUFFICES ASSUME IInv, GridInv, StopInv, OverlapInv PROVE TicksKept OBVIOUS
    <2>1. NextOnGrid BY WakesOnGrid
    <2>2. StoppedIsQuiet BY DEF StopInv, StoppedIsQuiet
    <2>3. NoOverlap BY DEF OverlapInv, NoOverlap
    <2> QED BY <2>1, <2>2, <2>3 DEF TicksKept
  <1> QED BY StopOverlapInit, <1>1, <1>2, Invariant, GridAlways, PTL DEF Spec
=============================================================================
