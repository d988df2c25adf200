------------------------------ MODULE Lifecycle -----------------------------
(***************************************************************************)
(* fanest.core.factory: the lifespan of an HTTP application, with the      *)
(* shutdown hooks that process signals trigger (enable_shutdown_hooks).    *)
(*                                                                         *)
(* The lifespan task bootstraps the instances, serves, and shuts down when *)
(* the server stops.  A signal handler chains to the one the server        *)
(* installed or, when there was none, schedules an exit task that shuts    *)
(* down by itself and then kills the process.  Resolving, every hook and   *)
(* closing the microservices may suspend, so they are actions.             *)
(***************************************************************************)
EXTENDS Hooks

CONSTANTS
  Signals,     \* the signals enable_shutdown_hooks() asked for
  Prior,       \* who handled each before: "server", or "none"
  Faulty,      \* steps that may raise: <<step, instance>>
  MaxSignals,  \* bound on the number of signals
  Lifespan,    \* the lifespan task
  NoSignal, NoInstance

ASSUME LifecycleAssumption ==
  /\ Prior \in [Signals -> {"server", "none"}]
  /\ MaxSignals \in Nat /\ NoSignal \notin Signals
  /\ Lifespan \notin Nat

ExitTasks == 1..MaxSignals
LifecycleTasks == {Lifespan} \cup ExitTasks

VARIABLES
  alive,       \* the process exists
  pc,          \* what each task does next
  at,          \* how far it is in its loop
  kept,        \* the instances bootstrap kept
  runner,      \* the schedule runner
  done,        \* shutdown_state["done"]
  signal,      \* shutdown_state["signal"]
  told,        \* the signal name _shutdown_instances was given
  disposition, \* who handles each signal
  signals,     \* history: the signals received, in order
  stopping,    \* the server was told to stop
  called,      \* history: the hooks called, in order
  broken       \* history: the tasks whose work raised

lifecycleVars == <<alive, pc, at, kept, runner, done, signal, told, disposition,
          signals, stopping, called, broken>>

PCs == {"none", "resolve", "on_application_bootstrap", "serving", "shutdown", "microservices",
        "runner", "kill", "ended"} \cup ShutdownHooks

LifecycleInit ==
  /\ alive = TRUE
  /\ pc = [t \in LifecycleTasks |-> IF t = Lifespan THEN "resolve" ELSE "none"]
  /\ at = [t \in LifecycleTasks |-> 1]
  /\ kept = <<>> /\ runner = "none"
  /\ done = FALSE /\ signal = NoSignal /\ told = NoSignal
  /\ disposition = Prior
  /\ signals = <<>> /\ stopping = FALSE
  /\ called = <<>> /\ broken = {}

-----------------------------------------------------------------------------
(* Bootstrap *)

Visited == Found \o Extras

\* Resolve the next provider and, when its instance is new, keep it and call
\* its on_module_init.
ResolveNext(t) ==
  /\ alive /\ t = Lifespan /\ pc[t] = "resolve" /\ at[t] <= Len(Visited)
  /\ LET x == Visited[at[t]]
     IN IF Among(kept, x) THEN UNCHANGED <<kept, called>>
        ELSE /\ kept' = Append(kept, x)
             /\ called' = Calling(called, "on_module_init", x)
  /\ at' = [at EXCEPT ![t] = @ + 1]
  /\ UNCHANGED <<alive, pc, runner, done, signal, told, disposition, signals,
                 stopping, broken>>

AllVisited(t) ==
  /\ alive /\ t = Lifespan /\ pc[t] = "resolve" /\ at[t] > Len(Visited)
  /\ pc' = [pc EXCEPT ![t] = "on_application_bootstrap"] /\ at' = [at EXCEPT ![t] = 1]
  /\ UNCHANGED <<alive, kept, runner, done, signal, told, disposition, signals,
                 stopping, called, broken>>

\* The next instance of a pass, of bootstrap or shutdown.
MoreHooks(t) == pc[t] \in HookNames /\ at[t] <= Len(kept)

NextHook(t) ==
  /\ alive /\ MoreHooks(t)
  /\ called' = Calling(called, pc[t], Turn(pc[t], kept, at[t]))
  /\ at' = [at EXCEPT ![t] = @ + 1]
  /\ UNCHANGED <<alive, pc, kept, runner, done, signal, told, disposition, signals,
                 stopping, broken>>

\* The runner starts, the signal handlers are installed and the server serves.
Serve(t) ==
  /\ alive /\ t = Lifespan /\ pc[t] = "on_application_bootstrap" /\ at[t] > Len(kept)
  /\ runner' = "running"
  /\ disposition' = [s \in Signals |-> "fanest"]
  /\ pc' = [pc EXCEPT ![t] = "serving"]
  /\ UNCHANGED <<alive, at, kept, done, signal, told, signals, stopping, called,
                 broken>>

\* A provider or hook raises (no enhancer seen before has its hook called): the
\* lifespan fails before its try statement.
BootFails(t) ==
  /\ alive /\ t = Lifespan
  /\ \/ /\ pc[t] = "resolve" /\ at[t] <= Len(Visited)
        /\ at[t] <= Len(Found) \/ ~Among(kept, Visited[at[t]])
        /\ <<"on_module_init", Visited[at[t]]>> \in Faulty
     \/ /\ pc[t] = "on_application_bootstrap" /\ MoreHooks(t)
        /\ Has(pc[t], kept[at[t]]) /\ <<pc[t], kept[at[t]]>> \in Faulty
  /\ pc' = [pc EXCEPT ![t] = "ended"] /\ broken' = broken \cup {t}
  /\ UNCHANGED <<alive, at, kept, runner, done, signal, told, disposition,
                 signals, stopping, called>>

-----------------------------------------------------------------------------
(* Signals *)

\* Variant: _handler forgets the handler that was there before it.
ChainedNever == stopping

\* _handler calls the handler that was there before it: the server's stops it.
Chained == TRUE

\* The process receives s.  Without a handler it dies.
Signal(s) ==
  /\ alive /\ Len(signals) < MaxSignals
  /\ signals' = Append(signals, s)
  /\ signal' = IF disposition[s] = "fanest" THEN s ELSE signal
  /\ CASE disposition[s] = "none" ->
            alive' = FALSE /\ UNCHANGED <<pc, stopping>>
       [] disposition[s] = "fanest" /\ Prior[s] = "none" ->
            /\ pc' = [pc EXCEPT ![Len(signals) + 1] = "shutdown"]
            /\ UNCHANGED <<alive, stopping>>
       [] OTHER -> stopping' = Chained /\ UNCHANGED <<alive, pc>>
  /\ UNCHANGED <<at, kept, runner, done, told, disposition, called, broken>>

\* The server stops, told to or by itself: the finally clause restores the
\* handlers.
StopServing(t) ==
  /\ alive /\ t = Lifespan /\ pc[t] = "serving"
  /\ disposition' = Prior
  /\ pc' = [pc EXCEPT ![t] = "shutdown"]
  /\ UNCHANGED <<alive, at, kept, runner, done, signal, told, signals, stopping,
                 called, broken>>

-----------------------------------------------------------------------------
(* shutdown_once *)

\* What follows shutdown_once in task t.
AfterShutdown(t) == IF t = Lifespan THEN "ended" ELSE "kill"

Take(t) ==
  /\ pc' = [pc EXCEPT ![t] = IF done THEN AfterShutdown(t) ELSE "microservices"]
  /\ done' = TRUE

ShutdownOnce(t) ==
  /\ alive /\ pc[t] = "shutdown"
  /\ Take(t)
  /\ UNCHANGED <<alive, at, kept, runner, signal, told, disposition, signals,
                 stopping, called, broken>>

\* close_all_microservices() has ended; the signal's name is read now.
MicroservicesClosed(t) ==
  /\ alive /\ pc[t] = "microservices"
  /\ told' = signal
  /\ pc' = [pc EXCEPT ![t] = "runner"]
  /\ UNCHANGED <<alive, at, kept, runner, done, signal, disposition, signals,
                 stopping, called, broken>>

RunnerStopped(t) ==
  /\ alive /\ pc[t] = "runner"
  /\ runner' = "stopped"
  /\ pc' = [pc EXCEPT ![t] = "on_module_destroy"] /\ at' = [at EXCEPT ![t] = 1]
  /\ UNCHANGED <<alive, kept, done, signal, told, disposition, signals, stopping,
                 called, broken>>

PassOver(t) ==
  /\ alive /\ pc[t] \in ShutdownHooks \ {"on_application_shutdown"} /\ at[t] > Len(kept)
  /\ pc' = [pc EXCEPT ![t] = Following(@)] /\ at' = [at EXCEPT ![t] = 1]
  /\ UNCHANGED <<alive, kept, runner, done, signal, told, disposition, signals,
                 stopping, called, broken>>

HooksOver(t) ==
  /\ alive /\ pc[t] = "on_application_shutdown" /\ at[t] > Len(kept)
  /\ pc' = [pc EXCEPT ![t] = AfterShutdown(t)]
  /\ UNCHANGED <<alive, at, kept, runner, done, signal, told, disposition,
                 signals, stopping, called, broken>>

\* Closing a microservice or a hook raises: the rest of the shutdown is skipped,
\* and an exit task that raised does not kill the process.
ShutdownFails(t) ==
  /\ alive
  /\ \/ pc[t] = "microservices" /\ <<"close", NoInstance>> \in Faulty
     \/ /\ pc[t] \in ShutdownHooks /\ MoreHooks(t)
        /\ LET x == Turn(pc[t], kept, at[t]) IN Has(pc[t], x) /\ <<pc[t], x>> \in Faulty
  /\ pc' = [pc EXCEPT ![t] = "ended"] /\ broken' = broken \cup {t}
  /\ UNCHANGED <<alive, at, kept, runner, done, signal, told, disposition,
                 signals, stopping, called>>

\* _shutdown_and_exit: the default disposition ends the process.
Kill(t) ==
  /\ alive /\ pc[t] = "kill"
  /\ alive' = FALSE
  /\ UNCHANGED <<pc, at, kept, runner, done, signal, told, disposition, signals,
                 stopping, called, broken>>

Work(t) ==
  \/ ResolveNext(t) \/ AllVisited(t) \/ NextHook(t) \/ Serve(t) \/ BootFails(t)
  \/ ShutdownOnce(t) \/ MicroservicesClosed(t) \/ RunnerStopped(t)
  \/ PassOver(t) \/ HooksOver(t) \/ ShutdownFails(t) \/ Kill(t)

LifecycleNext == (\E t \in LifecycleTasks : Work(t) \/ StopServing(t)) \/ \E s \in Signals : Signal(s)

\* Hooks end, the loop runs every ready task, and a server told to stop stops.
LifecycleSpec ==
  /\ LifecycleInit /\ [][LifecycleNext]_lifecycleVars
  /\ \A t \in LifecycleTasks : WF_lifecycleVars(Work(t))
  /\ WF_lifecycleVars(stopping /\ StopServing(Lifespan))

-----------------------------------------------------------------------------
(* Properties *)

\* Types; kept holds no instance twice.
LifecycleTypeOK ==
  /\ alive \in BOOLEAN /\ done \in BOOLEAN /\ stopping \in BOOLEAN
  /\ pc \in [LifecycleTasks -> PCs] /\ at \in [LifecycleTasks -> Nat \ {0}]
  /\ kept \in Seq(Instances) /\ \A i, j \in DOMAIN kept : kept[i] = kept[j] => i = j
  /\ runner \in {"none", "running", "stopped"}
  /\ signal \in Signals \cup {NoSignal} /\ told \in Signals \cup {NoSignal}
  /\ disposition \in [Signals -> {"server", "none", "fanest"}]
  /\ signals \in Seq(Signals) /\ Len(signals) <= MaxSignals
  /\ called \in Seq(HookNames \X Instances)
  /\ broken \subseteq LifecycleTasks

ShuttingDown(t) == pc[t] \in {"microservices", "runner"} \cup ShutdownHooks

\* However many signals arrive and whenever the server stops, one task at most
\* shuts the application down.
OneShutdown ==
  /\ \A t, u \in LifecycleTasks : ShuttingDown(t) /\ ShuttingDown(u) => t = u
  /\ \A t \in LifecycleTasks : ShuttingDown(t) => done

\* Hooks are called in the documented order and none twice, whatever is found
\* twice, raises, or interrupts.
CallsInOrder == AsDocumented(Visited, called)

\* A lifespan that ends in a living process leaves no hook out unless one
\* raised or an exit task is still at it.
NoHookLeftOut ==
  (alive /\ pc[Lifespan] = "ended" /\ broken = {} /\ \A t \in ExitTasks : pc[t] = "none")
    => AllCalled(Visited, called)

\* The default disposition is re-raised after the hooks (factory.py:513).
ReraisedAfterHooks ==
  \A t \in ExitTasks : pc[t] = "kill" /\ broken = {} => AllCalled(Visited, called)

\* Hooks are called in the documented order, none twice and none left out, by
\* one shutdown.
HooksInOrder == LifecycleTypeOK /\ CallsInOrder /\ OneShutdown /\ NoHookLeftOut

\* A signal ends the application, unless something raised: the server stops and
\* the lifespan ends, or the process is killed.
SignalEndsIt ==
  signals # <<>> ~> ~alive \/ pc[Lifespan] = "ended" \/ broken # {}
=============================================================================
