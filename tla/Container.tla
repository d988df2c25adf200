----------------------------- MODULE Container ------------------------------
(***************************************************************************)
(* fanest.core.container: FaNestContainer.resolve_async() and resolve() by *)
(* several asyncio tasks at once.                                          *)
(*                                                                         *)
(* Resolving a token recurses through the dependencies of its provider and *)
(* is atomic except where an async factory is awaited.  A step of this     *)
(* module is one event of that recursion (a call, a dependency, a return,  *)
(* an exception); current is the task the event loop is running, and only  *)
(* awaiting an async factory or finishing gives the loop back.             *)
(*                                                                         *)
(* A Token is a cache key, (owner module, token), and its provider a class *)
(* or a factory: which provider a token means in a module, and how the     *)
(* scope is computed and cached, is ProviderScope's subject.  An instance  *)
(* is the serial number of its construction and the requests for which the *)
(* request-scoped instances were made that it reaches.                     *)
(***************************************************************************)
EXTENDS Integers, Sequences, FiniteSets

CONSTANTS
  Tokens,
  Own,       \* declared scope of the provider of each token
  Deps,      \* its dependencies in order: [to |-> token, via |-> kind]
  Async,     \* tokens provided by an async factory
  FaultyTokens, \* tokens whose constructor or factory may raise
  Tasks,
  SyncTasks, \* tasks that call resolve(), the others resolve_async()
  Goals,     \* the sequences of tokens a task may resolve, one after the other
  Requests, NoReq,
  ReqOf,     \* the request context a task runs in, NoReq outside a request
  Preceding, \* tasks that must have ended before a task starts
  SharesWith \* a task spawned inside an async factory copies the context of
             \* the task awaiting it, and with it one set of tokens in progress

DepKinds == {"type", "inject", "forward"}

ASSUME ContainerAssumption ==
  /\ Tokens # {}
  /\ Own \in [Tokens -> {"singleton", "request", "transient"}]
  /\ Deps \in [Tokens -> Seq([to: Tokens, via: DepKinds])]
  /\ Goals \in [Tasks -> SUBSET Seq(Tokens)]
  /\ \A t \in Tasks : <<>> \notin Goals[t]
  /\ ReqOf \in [Tasks -> Requests \cup {NoReq}] /\ NoReq \notin Requests
  /\ Preceding \in [Tasks -> SUBSET Tasks]
  /\ SharesWith \in [Tasks -> Tasks]

VARIABLES
  current,   \* the task the event loop runs, {} when it runs none
  op,        \* what each task does next
  arg,       \* the token it calls, when op is "call"
  frames,    \* its resolve() calls in progress, innermost last
  value,     \* the instance it returns, when op is "value"
  resolving, \* _resolving_instances, per context
  instances, \* _instances
  cache,     \* _request_instances, per request
  made,      \* constructions so far, per token
  goals,     \* the tokens each task resolves
  given,     \* history: what each task got for each of its goals
  failures   \* history: why resolutions raised

containerVars == <<current, op, arg, frames, value, resolving, instances, cache, made, goals,
          given, failures>>

Contexts == Requests \cup {NoReq}
Nothing == [no |-> 0, reqs |-> {}]
Inst == [no: Nat, reqs: SUBSET Contexts]
Frames == [tok: Tokens, next: Nat \ {0}, reqs: SUBSET Contexts]
Ops == {"idle", "call", "build", "await", "made", "value", "raise", "ended"}

-----------------------------------------------------------------------------
(* Scopes *)

Needing(k) == {Deps[k][i].to : i \in DOMAIN Deps[k]}

\* _effective_scope: a provider declared singleton is request scoped when it
\* reaches a request-scoped one through providers declared singleton: it is in
\* every set that has the latter and, with a provider, those that need it.
BubblesToRequest ==
  {k \in Tokens : \A S \in SUBSET Tokens :
     (\A j \in Tokens :
        Own[j] = "request" \/ (Own[j] = "singleton" /\ Needing(j) \cap S # {}) => j \in S)
       => k \in S}

\* Variant: only the declared scope counts.
DeclaredScope(k) == Own[k]

Scope(k) ==
  IF Own[k] = "singleton" /\ k \in BubblesToRequest THEN "request" ELSE Own[k]

InRequest(t) == ReqOf[t] \in Requests

-----------------------------------------------------------------------------
Context(t) == SharesWith[t]
Top(t) == frames[t][Len(frames[t])]
Popped(t) == SubSeq(frames[t], 1, Len(frames[t]) - 1)

\* The instance a cache holds for k, Nothing when there is none.
Cached(t, k) ==
  IF Scope(k) = "request" /\ InRequest(t) THEN cache[ReqOf[t]][k]
  ELSE IF Scope(k) = "singleton" THEN instances[k] ELSE Nothing

ContainerInit ==
  /\ current = {}
  /\ op = [t \in Tasks |-> "idle"]
  /\ arg = [t \in Tasks |-> CHOOSE k \in Tokens : TRUE]
  /\ frames = [t \in Tasks |-> <<>>]
  /\ value = [t \in Tasks |-> Nothing]
  /\ resolving = [t \in Tasks |-> {}]
  /\ instances = [k \in Tokens |-> Nothing]
  /\ cache = [r \in Requests |-> [k \in Tokens |-> Nothing]]
  /\ made = [k \in Tokens |-> 0]
  /\ goals = [t \in Tasks |-> <<>>]
  /\ given = [t \in Tasks |-> <<>>]
  /\ failures = {}

\* The event loop starts a task; a spawned one runs while its spawner awaits.
Start(t) ==
  /\ current = {} /\ op[t] = "idle"
  /\ \A u \in Preceding[t] : op[u] = "ended" /\ Len(given[u]) = Len(goals[u])
  /\ SharesWith[t] # t => op[SharesWith[t]] = "await"
  /\ current' = {t}
  /\ op' = [op EXCEPT ![t] = "call"]
  /\ \E g \in Goals[t] : /\ goals' = [goals EXCEPT ![t] = g]
                         /\ arg' = [arg EXCEPT ![t] = g[1]]
  /\ UNCHANGED <<frames, value, resolving, instances, cache, made, given, failures>>

InProgress(t, k) == k \in resolving[Context(t)]

\* resolve_async(token): a cache answers, or the token is in progress in this
\* context, or the provider is resolved in a frame of its own.
Call(t) ==
  /\ current = {t} /\ op[t] = "call"
  /\ \/ /\ Cached(t, arg[t]) # Nothing
        /\ op' = [op EXCEPT ![t] = "value"]
        /\ value' = [value EXCEPT ![t] = Cached(t, arg[t])]
        /\ UNCHANGED <<frames, resolving, failures>>
     \/ /\ Cached(t, arg[t]) = Nothing /\ InProgress(t, arg[t])
        /\ op' = [op EXCEPT ![t] = "raise"]
        /\ failures' = failures \cup {[task |-> t, tok |-> arg[t], why |-> "circular"]}
        /\ UNCHANGED <<frames, resolving, value>>
     \/ /\ Cached(t, arg[t]) = Nothing /\ ~InProgress(t, arg[t])
        /\ op' = [op EXCEPT ![t] = "build"]
        /\ frames' = [frames EXCEPT ![t] =
                        Append(@, [tok |-> arg[t], next |-> 1, reqs |-> {}])]
        /\ resolving' = [resolving EXCEPT ![Context(t)] = @ \cup {arg[t]}]
        /\ UNCHANGED <<value, failures>>
  /\ UNCHANGED <<current, arg, instances, cache, made, goals, given>>

MoreDeps(t) == Top(t).next <= Len(Deps[Top(t).tok])
NextDep(t) == Deps[Top(t).tok][Top(t).next]

\* A forward reference is always a lazy proxy, an injected token only when it
\* is in progress; a type annotation is always resolved.
IsProxy(t, d) ==
  \/ d.via = "forward"
  \/ d.via = "inject" /\ InProgress(t, d.to)

\* _collect_instantiation_kwargs: the next dependency.
Dependency(t) ==
  /\ current = {t} /\ op[t] = "build" /\ MoreDeps(t)
  /\ IF IsProxy(t, NextDep(t))
     THEN /\ frames' = [frames EXCEPT ![t][Len(frames[t])].next = @ + 1]
          /\ UNCHANGED <<op, arg>>
     ELSE /\ op' = [op EXCEPT ![t] = "call"]
          /\ arg' = [arg EXCEPT ![t] = NextDep(t).to]
          /\ UNCHANGED frames
  /\ UNCHANGED <<current, value, resolving, instances, cache, made, goals, given, failures>>

\* Awaiting gives the event loop back.
Suspend(t) == current' = current \ {t}

\* Every dependency is there: the constructor or factory is called.  An async
\* factory suspends the task; resolve() refuses one.
Construct(t) ==
  LET k == Top(t).tok
  IN /\ current = {t} /\ op[t] = "build" /\ ~MoreDeps(t)
     /\ \/ /\ k \notin Async
           /\ op' = [op EXCEPT ![t] = "made"]
           /\ UNCHANGED <<current, failures>>
        \/ /\ k \in Async /\ t \notin SyncTasks
           /\ op' = [op EXCEPT ![t] = "await"]
           /\ Suspend(t)
           /\ UNCHANGED failures
        \/ /\ (k \in Async /\ t \in SyncTasks) \/ k \in FaultyTokens \ Async
           /\ op' = [op EXCEPT ![t] = "raise"]
           /\ failures' = failures \cup {[task |-> t, tok |-> k, why |-> "provider"]}
           /\ UNCHANGED current
     /\ UNCHANGED <<arg, frames, value, resolving, instances, cache, made, goals, given>>

\* The awaited factory has its result, or it raises or is cancelled; the tasks
\* it spawned have ended.
Resume(t) ==
  /\ current = {} /\ op[t] = "await"
  /\ \A u \in Tasks \ {t} : SharesWith[u] = t => op[u] \in {"idle", "ended"}
  /\ current' = {t}
  /\ \/ op' = [op EXCEPT ![t] = "made"] /\ UNCHANGED failures
     \/ /\ Top(t).tok \in FaultyTokens
        /\ op' = [op EXCEPT ![t] = "raise"]
        /\ failures' = failures \cup {[task |-> t, tok |-> Top(t).tok, why |-> "provider"]}
  /\ UNCHANGED <<arg, frames, value, resolving, instances, cache, made, goals, given>>

\* The requests the new instance is bound to: those of its dependencies, and
\* that of the task when its own provider is request scoped.
HeldBy(t) ==
  Top(t).reqs \cup (IF Own[Top(t).tok] = "request" THEN {ReqOf[t]} ELSE {})

\* Leaving a frame takes its token out of the tokens in progress.  Variant:
\* they are forgotten only with the outermost frame.
InProgressKept(t) ==
  IF Len(frames[t]) = 1 THEN [resolving EXCEPT ![Context(t)] = {}] ELSE resolving

InProgressAfter(t) == [resolving EXCEPT ![Context(t)] = @ \ {Top(t).tok}]

SingletonsAfter(k, inst) ==
  IF Scope(k) = "singleton" THEN [instances EXCEPT ![k] = inst] ELSE instances

\* The instance is stored where its scope says and returned.
Store(t) ==
  LET k == Top(t).tok
      inst == [no |-> made[k] + 1, reqs |-> HeldBy(t)]
  IN /\ current = {t} /\ op[t] = "made"
     /\ made' = [made EXCEPT ![k] = @ + 1]
     /\ resolving' = InProgressAfter(t)
     /\ instances' = SingletonsAfter(k, inst)
     /\ cache' = IF Scope(k) = "request" /\ InRequest(t)
                 THEN [cache EXCEPT ![ReqOf[t]][k] = inst] ELSE cache
     /\ value' = [value EXCEPT ![t] = inst]
     /\ frames' = [frames EXCEPT ![t] = Popped(t)]
     /\ op' = [op EXCEPT ![t] = "value"]
     /\ UNCHANGED <<current, arg, goals, given, failures>>

\* A frame whose next dependency is instance v.
Supplied(f, v) == [tok |-> f.tok, next |-> f.next + 1, reqs |-> f.reqs \cup v.reqs]

\* The caller gets the instance: an enclosing frame as a dependency, or the
\* task itself as one of its goals.
Return(t) ==
  /\ current = {t} /\ op[t] = "value"
  /\ IF frames[t] # <<>>
     THEN /\ frames' = [frames EXCEPT ![t][Len(frames[t])] = Supplied(@, value[t])]
          /\ op' = [op EXCEPT ![t] = "build"]
          /\ UNCHANGED <<current, arg, given>>
     ELSE /\ given' = [given EXCEPT ![t] = Append(@, value[t])]
          /\ IF Len(given[t]) + 1 < Len(goals[t])
             THEN /\ op' = [op EXCEPT ![t] = "call"]
                  /\ arg' = [arg EXCEPT ![t] = goals[t][Len(given[t]) + 2]]
                  /\ UNCHANGED current
             ELSE /\ op' = [op EXCEPT ![t] = "ended"]
                  /\ current' = {}
                  /\ UNCHANGED arg
          /\ UNCHANGED frames
  /\ UNCHANGED <<value, resolving, instances, cache, made, goals, failures>>

\* An exception leaves the frames one by one and ends the task.
Unwind(t) ==
  /\ current = {t} /\ op[t] = "raise"
  /\ IF frames[t] # <<>>
     THEN /\ frames' = [frames EXCEPT ![t] = Popped(t)]
          /\ resolving' = InProgressAfter(t)
          /\ UNCHANGED <<op, current>>
     ELSE /\ op' = [op EXCEPT ![t] = "ended"]
          /\ current' = {}
          /\ UNCHANGED <<frames, resolving>>
  /\ UNCHANGED <<arg, value, instances, cache, made, goals, given, failures>>

Step(t) ==
  \/ Start(t) \/ Call(t) \/ Dependency(t) \/ Construct(t) \/ Resume(t)
  \/ Store(t) \/ Return(t) \/ Unwind(t)

ContainerNext == \E t \in Tasks : Step(t)

\* The event loop runs every ready task; an async factory ends.
ContainerSpec ==
  ContainerInit /\ [][ContainerNext]_containerVars /\ \A t \in Tasks : WF_containerVars(Step(t))

-----------------------------------------------------------------------------
(* Properties *)

\* Every task has a program point and frames of its type, and the loop runs at
\* most one task, which is not suspended.
ContainerTypeOK ==
  /\ op \in [Tasks -> Ops] /\ arg \in [Tasks -> Tokens]
  /\ frames \in [Tasks -> Seq(Frames)]
  /\ value \in [Tasks -> Inst]
  /\ resolving \in [Tasks -> SUBSET Tokens]
  /\ instances \in [Tokens -> Inst]
  /\ cache \in [Requests -> [Tokens -> Inst]]
  /\ made \in [Tokens -> Nat]
  /\ goals \in [Tasks -> Seq(Tokens)] /\ given \in [Tasks -> Seq(Inst)]
  /\ current \subseteq Tasks
  /\ \A t, u \in current : t = u
  /\ \A t \in Tasks : op[t] \in {"idle", "await", "ended"} <=> t \notin current
  /\ \A t \in Tasks : op[t] \in {"build", "await", "made"} => frames[t] # <<>>

\* A token is in progress in a context exactly while a frame of that context
\* resolves it: no exception, cache hit or suspension leaves one behind, so a
\* later resolution is not refused as circular.
InProgressIsFramed ==
  \A c \in Tasks :
    resolving[c] = UNION {{frames[t][i].tok : i \in DOMAIN frames[t]} :
                            t \in {u \in Tasks : Context(u) = c}}

\* A task only gets instances that hold its own request's request-scoped
\* instances: the scope bubbles to consumers, with no cross-request bleed
\* under concurrency (CHANGELOG.md:105).
NoCrossRequestBleed ==
  \A t \in Tasks : \A i \in DOMAIN given[t] : given[t][i].reqs \subseteq {ReqOf[t]}

\* Every singleton is constructed once and everyone gets that instance.
OneSingleton ==
  /\ \A k \in Tokens : Scope(k) = "singleton" => made[k] <= 1
  /\ \A t, u \in Tasks : \A i \in DOMAIN given[t], j \in DOMAIN given[u] :
       goals[t][i] = goals[u][j] /\ Scope(goals[t][i]) = "singleton"
         => given[t][i] = given[u][j]

\* A request-scoped provider is constructed at most once per request.
OnePerRequest ==
  \A t, u \in Tasks : \A i \in DOMAIN given[t], j \in DOMAIN given[u] :
    /\ ReqOf[t] = ReqOf[u] /\ InRequest(t)
    /\ goals[t][i] = goals[u][j] /\ Scope(goals[t][i]) = "request"
    => given[t][i] = given[u][j]

\* What the constructor or factory of k needs at once, and what that needs.
NeedsFirst(k) == {Deps[k][i].to : i \in {j \in DOMAIN Deps[k] : Deps[k][j].via # "forward"}}
Needs ==
  [k \in Tokens |->
     {n \in Tokens : \A S \in SUBSET Tokens :
        NeedsFirst(k) \subseteq S /\ (\A j \in S : NeedsFirst(j) \subseteq S) => n \in S}]

\* "Circular dependency" is raised only for a token whose dependencies, forward
\* references apart, lead back to it (container.py:334).
CircularIsReal == \A f \in failures : f.why = "circular" => f.tok \in Needs[f.tok]

\* What a token in progress is used for: no frame left behind, no cycle made up.
CircularOnlyWhenReal == ContainerTypeOK /\ InProgressIsFramed /\ CircularIsReal

\* One instance per singleton, and per request for what is request-scoped, of
\* which no other request hears.
OneInstance == OneSingleton /\ OnePerRequest /\ NoCrossRequestBleed

\* Every task that starts to resolve gets its goals or an exception.
Resolves == \A t \in Tasks : op[t] # "idle" ~> op[t] = "ended"
=============================================================================
