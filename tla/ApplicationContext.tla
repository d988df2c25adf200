------------------------- MODULE ApplicationContext -------------------------
(***************************************************************************)
(* fanest.core.factory: FaNestApplicationContext, whose init() and close() *)
(* several tasks may call.  Its bootstrap and shutdown are the passes of   *)
(* Hooks, without enhancers; resolving and every hook may suspend.         *)
(***************************************************************************)
EXTENDS Hooks

CONSTANTS
  Callers,
  FaultyHooks,  \* the hooks that may raise: <<hook, instance>>
  Created       \* TRUE: create_application_context() hands the context out, which
                \* awaits init() first; FALSE: the application builds it itself

VARIABLES
  ctxStarted, ctxClosed,  \* _started, _closed
  ctxRunner,              \* _schedule_runner: "none" until bootstrap returns
  ctxKept,                \* the instances, _instances once bootstrap returns
  ctxPc, ctxAt,           \* what each caller does, and how far it is
  ctxCalled               \* history: the hooks called, in order

contextVars == <<ctxStarted, ctxClosed, ctxRunner, ctxKept, ctxPc, ctxAt, ctxCalled>>

ContextInit ==
  /\ ctxStarted = FALSE /\ ctxClosed = FALSE /\ ctxRunner = "none" /\ ctxKept = <<>>
  /\ ctxPc = [c \in Callers |-> "idle"] /\ ctxAt = [c \in Callers |-> 1]
  /\ ctxCalled = <<>>

Goto(c, p) == ctxPc' = [ctxPc EXCEPT ![c] = p] /\ ctxAt' = [ctxAt EXCEPT ![c] = 1]
Advance(c) == ctxAt' = [ctxAt EXCEPT ![c] = @ + 1] /\ UNCHANGED ctxPc

\* init() by the first caller; any later one returns at once.
InitCall(c) ==
  /\ ctxPc[c] = "idle" /\ ~ctxStarted
  /\ ctxStarted' = TRUE
  /\ Goto(c, "resolve")
  /\ UNCHANGED <<ctxClosed, ctxRunner, ctxKept, ctxCalled>>

FindNext(c) ==
  /\ ctxPc[c] = "resolve" /\ ctxAt[c] <= Len(Found)
  /\ LET x == Found[ctxAt[c]]
     IN IF Among(ctxKept, x) THEN UNCHANGED <<ctxKept, ctxCalled>>
        ELSE /\ ctxKept' = Append(ctxKept, x)
             /\ ctxCalled' = Calling(ctxCalled, "on_module_init", x)
  /\ Advance(c)
  /\ UNCHANGED <<ctxStarted, ctxClosed, ctxRunner>>

AllFound(c) ==
  /\ ctxPc[c] = "resolve" /\ ctxAt[c] > Len(Found)
  /\ Goto(c, "on_application_bootstrap")
  /\ UNCHANGED <<ctxStarted, ctxClosed, ctxRunner, ctxKept, ctxCalled>>

InPass(c) == ctxPc[c] \in HookNames /\ ctxAt[c] <= Len(ctxKept)
PassEnded(c, h) == ctxPc[c] = h /\ ctxAt[c] > Len(ctxKept)

CallHook(c) ==
  /\ InPass(c)
  /\ ctxCalled' = Calling(ctxCalled, ctxPc[c], Turn(ctxPc[c], ctxKept, ctxAt[c]))
  /\ Advance(c)
  /\ UNCHANGED <<ctxStarted, ctxClosed, ctxRunner, ctxKept>>

\* The runner is started and init() keeps it with the instances.
BootOver(c) ==
  /\ PassEnded(c, "on_application_bootstrap")
  /\ ctxRunner' = "running"
  /\ Goto(c, "idle")
  /\ UNCHANGED <<ctxStarted, ctxClosed, ctxKept, ctxCalled>>

\* Resolving or a hook raises out of init() or close(): the flags stay as they are.
HookRaises(c) ==
  /\ \/ ctxPc[c] = "resolve" /\ ctxAt[c] <= Len(Found) /\ <<"on_module_init", Found[ctxAt[c]]>> \in FaultyHooks
     \/ /\ InPass(c)
        /\ LET x == Turn(ctxPc[c], ctxKept, ctxAt[c])
           IN Has(ctxPc[c], x) /\ <<ctxPc[c], x>> \in FaultyHooks
  /\ Goto(c, "idle")
  /\ UNCHANGED <<ctxStarted, ctxClosed, ctxRunner, ctxKept, ctxCalled>>

\* close() by the first caller.  Before init() has finished there is no runner
\* and nothing to shut down.
CloseCall(c) ==
  /\ ctxPc[c] = "idle" /\ ~ctxClosed
  /\ Created => ctxRunner # "none"
  /\ ctxClosed' = TRUE
  /\ Goto(c, IF ctxStarted /\ ctxRunner # "none" THEN "stop" ELSE "idle")
  /\ UNCHANGED <<ctxStarted, ctxRunner, ctxKept, ctxCalled>>

JobsStopped(c) ==
  /\ ctxPc[c] = "stop"
  /\ ctxRunner' = "stopped"
  /\ Goto(c, "on_module_destroy")
  /\ UNCHANGED <<ctxStarted, ctxClosed, ctxKept, ctxCalled>>

NextPass(c) ==
  /\ \E h \in ShutdownHooks \ {"on_application_shutdown"} : PassEnded(c, h) /\ Goto(c, Following(h))
  /\ UNCHANGED <<ctxStarted, ctxClosed, ctxRunner, ctxKept, ctxCalled>>

CloseOver(c) ==
  /\ PassEnded(c, "on_application_shutdown")
  /\ Goto(c, "idle")
  /\ UNCHANGED <<ctxStarted, ctxClosed, ctxRunner, ctxKept, ctxCalled>>

Progress(c) ==
  \/ FindNext(c) \/ AllFound(c) \/ CallHook(c) \/ BootOver(c) \/ HookRaises(c)
  \/ JobsStopped(c) \/ NextPass(c) \/ CloseOver(c)

ContextNext == \E c \in Callers : InitCall(c) \/ CloseCall(c) \/ Progress(c)

\* A hook ends, and the loop runs every ready caller.
ContextSpec ==
  ContextInit /\ [][ContextNext]_contextVars /\ \A c \in Callers : WF_contextVars(Progress(c))

-----------------------------------------------------------------------------
\* However init() and close() calls overlap, and whatever raises, hooks are called
\* in the documented order and none twice.
ContextInOrder == AsDocumented(Found, ctxCalled)

\* Once close() was called, init() or not, every job is stopped sooner or later.
CloseStops == ctxClosed ~> ctxRunner # "running"
=============================================================================
