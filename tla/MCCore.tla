------------------------------- MODULE MCCore -------------------------------
(* Parts of fanest.core that do not share state, one after the other: a web  *)
(* application on which Container is checked; the modules of applications    *)
(* and declared graphs; and the lifecycle of an application and of a context, *)
(* with one provider found twice.                                            *)
EXTENDS Container, Lifecycle, ApplicationContext, MCProviderScope

CONSTANTS db, svc, aux, req, ctl, pool, log, fmt, boot, t1, t2, t3, kid, r1, r2,
          guard, term, int

VARIABLE part

-----------------------------------------------------------------------------
(* Container *)

On(k) == [to |-> k, via |-> "type"]
Injecting(k) == [to |-> k, via |-> "inject"]
Forward(k) == [to |-> k, via |-> "forward"]

\* A database opened by an async factory, two services that inject each other, a
\* request-scoped unit of work opened asynchronously, a controller declared
\* singleton that uses it and two of a transient pool, and two transient providers that
\* need each other.
WebTokens == {db, svc, aux, req, ctl, pool, log, fmt}
WebOwn == [k \in WebTokens |->
             CASE k = req -> "request" [] k \in {pool, log, fmt} -> "transient" [] OTHER -> "singleton"]
WebDeps == [k \in WebTokens |->
              CASE k = svc -> <<On(db), Injecting(aux)>>
                [] k = aux -> <<Injecting(svc)>>
                [] k = req -> <<Forward(ctl), On(db)>>
                [] k = ctl -> <<On(pool), Injecting(req), On(svc), On(pool)>>
                [] k = pool -> <<On(db)>>
                [] k = log -> <<On(db), On(fmt)>>
                [] k = fmt -> <<On(log)>>
                [] OTHER -> <<>>]
WebAsync == {db, req, pool}

\* The lifespan resolves the singletons (boot); t1 and t2 serve two requests, t3
\* serves the first one further with resolve(), and kid is spawned by t2.
WebTasks == {boot, t1, t2, t3, kid}
WebGoals == [t \in WebTasks |->
               CASE t = boot -> {<<aux, svc, db>>}
                 [] t = t3 -> {<<req, svc>>, <<log>>}
                 [] t = kid -> {<<svc>>, <<fmt>>}
                 [] OTHER -> {<<ctl, req, aux>>, <<req, ctl, req>>, <<pool, ctl>>, <<fmt>>}]
WebReqOf == [t \in WebTasks |->
               CASE t = boot -> NoReq [] t \in {t2, kid} -> r2 [] OTHER -> r1]
WebAfter == [t \in WebTasks |->
               CASE t = boot -> {} [] t = t3 -> {boot, t1} [] OTHER -> {boot}]
WebShares == [t \in WebTasks |-> IF t = kid THEN t2 ELSE t]

-----------------------------------------------------------------------------
(* Lifecycle and ApplicationContext *)

Founds == <<db, svc, db>>
Enhancers == <<guard, svc>>
HooksOf == [x \in {db, svc, guard} |->
  CASE x = db -> HookNames
    [] x = svc -> {"on_module_init", "on_module_destroy", "on_application_shutdown"}
    [] x = guard -> {"on_application_bootstrap", "on_module_destroy"}]
Mixed == [s \in {term, int} |-> IF s = term THEN "server" ELSE "none"]
Raising == {<<"on_module_init", svc>>, <<"on_application_bootstrap", guard>>,
            <<"on_module_destroy", svc>>, <<"on_application_shutdown", db>>,
            <<"close", NoInstance>>}

\* Three tasks share a context.
ContextRaising == {<<"on_module_init", db>>, <<"on_application_bootstrap", db>>,
                   <<"on_module_destroy", svc>>, <<"before_application_shutdown", db>>}

-----------------------------------------------------------------------------
\* Modules that need nothing of each other, and are asked nothing.
OwnProviders ==
  [local |-> [m \in Mods |-> [k \in Toks |-> P("transient", <<>>)]],
   imports |-> [m \in Mods |-> <<>>], exports |-> [m \in Mods |-> {}], globals |-> <<>>]

NoModules ==
  /\ app = OwnProviders /\ shared = [k \in Toks |-> None] /\ dependencies = shared
  /\ scopes = NoScopes /\ Unstarted

moduleVars == <<scopeVars, bootVars>>
coreVars == <<part, containerVars, moduleVars, lifecycleVars, contextVars>>

Init ==
  /\ ContainerInit /\ LifecycleInit /\ ContextInit
  /\ \/ part \in {"container", "lifecycle", "context"} /\ NoModules
     \/ part = "scope" /\ ScopeInit /\ Unstarted
     \/ part = "boot" /\ BootInit

In(p, others) == part = p /\ UNCHANGED <<part, others>>
Resolving == In("container", <<moduleVars, lifecycleVars, contextVars>>)
Modular(p) == In(p, <<containerVars, lifecycleVars, contextVars>>)
Living == In("lifecycle", <<containerVars, moduleVars, contextVars>>)
Sharing == In("context", <<containerVars, moduleVars, lifecycleVars>>)

Next ==
  \/ Resolving /\ ContainerNext
  \/ Modular("scope") /\ Locating
  \/ Modular("boot") /\ Boot
  \/ Living /\ LifecycleNext
  \/ Sharing /\ ContextNext

Spec ==
  /\ Init /\ [][Next]_coreVars
  /\ \A t \in WebTasks : WF_coreVars(Resolving /\ Step(t))
  /\ \A t \in LifecycleTasks : WF_coreVars(Living /\ Work(t))
  /\ WF_coreVars(Living /\ stopping /\ StopServing(Lifespan))
  /\ \A c \in Callers : WF_coreVars(Sharing /\ Progress(c))

-----------------------------------------------------------------------------
\* Every resolution ends, a signal ends the application, and close() stops the
\* jobs of a context, whose hooks were called in the documented order.
CoreEnds == Resolves /\ SignalEndsIt /\ CloseStops /\ []ContextInOrder
=============================================================================
