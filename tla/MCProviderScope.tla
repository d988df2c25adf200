--------------------------- MODULE MCProviderScope --------------------------
(* Applications on which ProviderScope is checked, and declared graphs on   *)
(* which Bootstrap is: main imports feat and core, and plug is loaded lazily.*)
EXTENDS Bootstrap

CONSTANTS main, feat, core, plug, conf, ctx, repo, emit, first, second, save

Mods == {main, feat, core, plug}
Tokens4 == {conf, ctx, repo, emit}

P(s, ds) == [scope |-> s, deps |-> ds]
Without == [k \in Tokens4 |-> None]

Confs == {P("singleton", ds) : ds \in {<<>>, <<repo>>}}
Ctxs == {P("request", <<>>), P("singleton", <<conf>>), P("transient", <<conf>>)}
Repos == {P("singleton", ds) : ds \in {<<conf>>, <<conf, ctx>>, <<ctx, conf>>}}

\* What main, feat and core import and export, cycles included.
Imports ==
  {[m \in Mods |-> CASE m = main -> i[1] [] m = feat -> i[2] [] m = core -> i[3] [] OTHER -> <<>>] :
     i \in {<<<<feat>>, <<core>>, <<>>>>, <<<<core, feat>>, <<core>>, <<feat>>>>,
           <<<<feat>>, <<main, core>>, <<feat>>>>, <<<<core, feat>>, <<main, core>>, <<>>>>}}
Exports ==
  {[m \in Mods |-> CASE m = main -> e[1] [] m = feat -> e[2] [] m = core -> e[3] [] OTHER -> {}] :
     e \in {<<{}, {conf, repo}, {conf, ctx}>>, <<{}, {repo}, {conf, ctx}>>,
           <<{repo}, {repo}, {conf, ctx}>>, <<{repo}, {conf, repo}, {conf, ctx, repo}>>}}

\* Every token has one provider: conf and ctx in core, repo in feat or main.
OneProvider ==
  {[local |-> [m \in Mods |->
      CASE m = core -> [Without EXCEPT ![conf] = c, ![ctx] = x]
        [] m = home -> [Without EXCEPT ![repo] = r]
        [] OTHER -> Without],
    imports |-> i, exports |-> e, globals |-> <<core>>] :
   c \in Confs, x \in Ctxs, r \in Repos, home \in {feat, main}, i \in Imports, e \in Exports}

\* main and feat both provide conf, each its own.
TwoProviders ==
  {[local |-> [m \in Mods |->
      CASE m = core -> [Without EXCEPT ![ctx] = P("request", <<>>)]
        [] m = feat -> [Without EXCEPT ![conf] = P("singleton", <<ctx>>)]
        [] m = main -> [Without EXCEPT ![conf] = P("singleton", <<>>)]
        [] OTHER -> Without],
    imports |-> [m \in Mods |-> IF m \in {main, feat} THEN <<core>> ELSE <<>>],
    exports |-> [m \in Mods |-> IF m = core THEN {ctx} ELSE {}],
    globals |-> <<core>>]}

Mocks == {P("singleton", <<>>), P("request", <<>>)}

-----------------------------------------------------------------------------
Ref(m) == [key |-> m, obj |-> m]
Dep(k, mark) == [tok |-> k, mark |-> mark]

Class(k, s, ds) == [tok |-> k, scope |-> s, deps |-> ds, alias |-> None, listens |-> FALSE,
                    command |-> None, speaks |-> "never"]
Speaker(p, hook) == [p EXCEPT !.speaks = hook]
Listener(p) == [p EXCEPT !.listens = TRUE, !.command = save]

\* What feat's repo depends on, and what main's own context does.
RepoDeps == {<<Dep(conf, mark)>> : mark \in Marks} \cup {<<Dep(emit, "optional")>>}
CtxDeps == {<<Dep(repo, "any")>>, <<Dep(conf, "parent"), Dep(repo, "any")>>}

Provided(repoDeps, ctxDeps, confScope, own, plugged) ==
  [m \in Mods |->
     CASE m = core -> <<Speaker(Class(emit, "singleton", <<>>), "on_module_init"),
                        Listener(Class(conf, confScope, <<>>))>>
       [] m = feat -> own \o <<Speaker(Listener(Class(repo, "singleton", repoDeps)), "on_module_init")>>
       [] m = main -> <<Speaker(Class(ctx, "singleton", ctxDeps), "on_application_bootstrap")>>
       [] m = plug -> plugged]

Graph(mainImports, featImports, featExports, global, provided) ==
  [imports  |-> [m \in Mods |-> CASE m = main -> mainImports [] m = feat -> featImports
                                  [] OTHER -> <<>>],
   provides |-> provided,
   uses     |-> [m \in Mods |-> IF m = main THEN <<Listener(Class(conf, "request", <<>>))>> ELSE <<>>],
   exports  |-> [m \in Mods |-> CASE m = feat -> featExports [] m \in {core, plug} -> {conf, emit} \ (IF m = plug THEN {emit} ELSE {})
                                  [] OTHER -> {}],
   global   |-> global]

\* What main and feat import.
ImportPairs == {<<<<Ref(feat)>>, <<Ref(core)>>>>, <<<<Ref(feat), Ref(core)>>, <<>>>>,
                <<<<Ref(feat), Ref(core)>>, <<Ref(main), Ref(core)>>>>}

Declared ==
  {Graph(i[1], i[2], e, g, Provided(r, c, s, own, <<Class(conf, "singleton", <<>>)>>)) :
     i \in ImportPairs, e \in {{repo}, {repo, core}}, g \in {{}, {plug}, {core, plug}},
     r \in RepoDeps, c \in CtxDeps, s \in {"singleton", "request"},
     own \in {<<>>, <<Class(conf, "singleton", <<>>)>>, <<[Class(conf, "singleton", <<>>) EXCEPT !.alias = emit]>>}}

\* core is a dynamic module, built from equal arguments in main and in feat.
EqualImports ==
  {Graph(<<Ref(feat), [key |-> core, obj |-> first]>>, <<[key |-> core, obj |-> second]>>, {repo}, {},
         Provided(<<Dep(conf, "any")>>, <<Dep(repo, "any")>>, "singleton", <<>>, <<>>))}

Plugs == {Ref(plug)}

-----------------------------------------------------------------------------
(* Either part, the other keeping its initial state. *)

Unstarted == /\ declared = (CHOOSE g \in Graphs : TRUE) /\ phase = "none" /\ records = <<>> /\ agenda = <<>> /\ booted = <<>>
             /\ listeners = <<>> /\ handlers = [c \in Commands |-> NoOne] /\ heard = <<>>
             /\ restarts = 0

\* Nobody provides emit in the applications of the first part.
Locating == ScopeNext /\ shared'[emit] = None /\ UNCHANGED bootVars

SpecScope == ScopeInit /\ Unstarted /\ [][Locating]_<<scopeVars, bootVars>>
SpecBoot == BootInit /\ [][Boot]_<<scopeVars, bootVars>>
=============================================================================
