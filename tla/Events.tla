-------------------------------- MODULE Events ------------------------------
(***************************************************************************)
(* fanest.events: EventEmitter.  emit() calls synchronous listeners inline, *)
(* and these may emit, listen and stop listening themselves; asynchronous   *)
(* ones become tasks.  A frame is an emit() in progress; while there is one *)
(* nothing else runs.  A step is one call of a listener, one call by a      *)
(* listener or the application, or the end of a task.                       *)
(*                                                                         *)
(* An event name is a sequence of segments.  Listeners are kept as a set,   *)
(* told apart by the serial number of their registration: emit() sorts them *)
(* by rank whatever the order of the lists is.                              *)
(***************************************************************************)
EXTENDS Integers, Sequences, FiniteSets

CONSTANTS
  Handlers,
  AsyncHandlers,
  Names,        \* what listeners register for, wildcards included
  EmittedNames, \* what is emitted
  Offers,       \* what is registered: [name, handler, once, priority, prepend]
  MaxListeners, \* max_listeners
  MaxSerial,    \* bound: registrations
  MaxEmits      \* bound: emissions

ASSUME EventsAssumption ==
  /\ Offers \subseteq [name : Names, handler : Handlers, once : BOOLEAN, priority : Int, prepend : BOOLEAN]
  /\ MaxSerial \in Nat

VARIABLES
  captures,  \* options.capture_errors
  onError,   \* options.error_handler: none, or a function that is sync or async
  listeners, \* _handlers and _once_handlers: [name, handler, once, serial]
  rank,      \* _priorities and _order, by name and handler
  serial,    \* _sequence
  errors,    \* _errors: how many there are
  emits,     \* emissions: [strict, mark, state]
  frames,    \* emit() calls in progress, innermost last: [emit, todo]
  tasks,     \* what runs as a task: [emit, serial, is], is "listener" or "onError";
             \* the error_handler's coroutines of an emission are one, of serial 0
  broken,    \* emissions in progress of which a task raised
  onces,     \* history: once() registrations that nothing took before their call
  onceRuns,  \* history: how often each of them was called
  failed,    \* history: emissions of which a listener raised
  cleared    \* history: strict emissions in the middle of which clear_errors() was called

eventVars == <<captures, onError, listeners, rank, serial, errors, emits, frames, tasks, broken,
               onces, onceRuns, failed, cleared>>

NoRank == [priority |-> 0, order |-> 0]

EventsInit ==
  /\ captures \in BOOLEAN /\ onError \in {"none", "sync", "async"} /\ (onError = "none" \/ captures)
  /\ listeners = {} /\ serial = 0
  /\ rank = [key \in Names \X Handlers |-> NoRank]
  /\ errors = 0 /\ emits = <<>> /\ frames = <<>> /\ tasks = {}
  /\ onces = {} /\ onceRuns = [s \in 1..MaxSerial |-> 0] /\ failed = {} /\ broken = {} /\ cleared = {}

-----------------------------------------------------------------------------
(* Names *)

\* _segments_match: "*" is one segment, "**" one or more.
SegmentsMatch(pattern, name) ==
  LET \* from where in the name the pattern from its p-th segment on fits
      fits[p \in 1..(Len(pattern) + 1)] ==
        IF p > Len(pattern) THEN {Len(name) + 1}
        ELSE {n \in DOMAIN name :
                \/ pattern[p] = "**" /\ \E i \in fits[p + 1] : n < i
                \/ pattern[p] \in {"*", name[n]} /\ n + 1 \in fits[p + 1]}
  IN 1 \in fits[1]

-----------------------------------------------------------------------------
(* Listeners *)

InHandler == frames # <<>>
Top == frames[Len(frames)]

\* The application acts, or the synchronous listener that is being called.
Acts == InHandler => Top.todo # <<>> /\ Head(Top.todo).handler \notin AsyncHandlers

\* on() and once(): a handler is in each list of a name once.  Its rank is kept
\* per name and handler, so the later of on() and once() sets it for both.
Listen(n, h, isOnce, priority, prepend) ==
  /\ Acts /\ serial < MaxSerial
  /\ ~\E l \in listeners : l.name = n /\ l.handler = h /\ l.once = isOnce
  /\ Cardinality({l \in listeners : l.name = n}) < MaxListeners
  /\ serial' = serial + 1
  /\ onces' = IF isOnce THEN onces \cup {serial + 1} ELSE onces
  /\ listeners' = listeners \cup
                    {[name |-> n, handler |-> h, once |-> isOnce, serial |-> serial + 1]}
  /\ rank' = [rank EXCEPT ![<<n, h>>] =
                [priority |-> priority, order |-> IF prepend THEN -(serial + 1) ELSE serial + 1]]
  /\ UNCHANGED <<captures, onError, errors, emits, frames, tasks, onceRuns, failed, broken, cleared>>

Lose(lost) ==
  /\ Acts /\ lost # {}
  /\ listeners' = listeners \ lost /\ onces' = onces \ {l.serial : l \in lost}
  /\ UNCHANGED <<captures, onError, rank, serial, errors, emits, frames, tasks, onceRuns, failed, broken, cleared>>

\* off(): both lists lose the handler.  remove_all_listeners(), of a name or of all.
Off(n, h) == Lose({l \in listeners : l.name = n /\ l.handler = h})
RemoveAll(ns) == Lose({l \in listeners : l.name \in ns})

\* clear_errors(): emit_strict() counted the errors before, and looks at them after.
ClearErrors ==
  /\ Acts /\ errors # 0 /\ errors' = 0
  /\ cleared' = cleared \cup {n \in DOMAIN emits : emits[n].strict /\ emits[n].state \in {"calls", "awaits"}}
  /\ UNCHANGED <<captures, onError, listeners, rank, serial, emits, frames, tasks, onces, onceRuns, failed, broken>>

-----------------------------------------------------------------------------
(* emit() *)

Matching(name) == {l \in listeners : SegmentsMatch(l.name, name)}

\* Higher priority first, then the order of registration; the same handler's
\* on() before its once().
Before(k, l) ==
  LET rk == rank[<<k.name, k.handler>>]
      rl == rank[<<l.name, l.handler>>]
  IN \/ rk.priority > rl.priority
     \/ rk.priority = rl.priority /\ rk.order < rl.order
     \/ rk = rl /\ ~k.once /\ l.once

Collected(name) ==
  LET found == Matching(name)
  IN [i \in 1..Cardinality(found) |->
        CHOOSE l \in found : Cardinality({k \in found : Before(k, l)}) = i - 1]

\* once() listeners are taken before anything is called.  Variant: they stay
\* until emit() is done.
LeftLater(name) == listeners
Left(name) == listeners \ {l \in Matching(name) : l.once}

\* emit(), emit_async() and emit_strict(), by the application or by a listener.
Emit(name, strict) ==
  /\ Acts /\ Len(emits) < MaxEmits /\ (strict => ~InHandler)
  /\ emits' = Append(emits, [strict |-> strict, mark |-> IF strict THEN errors ELSE 0, state |-> "calls"])
  /\ frames' = Append(frames, [emit |-> Len(emits) + 1, todo |-> Collected(name)])
  /\ listeners' = Left(name)
  /\ UNCHANGED <<captures, onError, rank, serial, errors, tasks, onces, onceRuns, failed, broken, cleared>>

Outer == SubSeq(frames, 1, Len(frames) - 1)
RunsAfter(l) == IF l.once THEN [onceRuns EXCEPT ![l.serial] = @ + 1] ELSE onceRuns
Called == Append(Outer, [Top EXCEPT !.todo = Tail(@)])

\* The listener returns, or is asynchronous and starts as a task.  Emitting or
\* listening from inside it is a step of its own before.
CallReturns ==
  /\ InHandler /\ Top.todo # <<>>
  /\ LET l == Head(Top.todo)
     IN /\ onceRuns' = RunsAfter(l)
        /\ tasks' = IF l.handler \in AsyncHandlers
                    THEN tasks \cup {[emit |-> Top.emit, serial |-> l.serial, is |-> "listener"]} ELSE tasks
  /\ frames' = Called
  /\ UNCHANGED <<captures, onError, listeners, rank, serial, errors, emits, onces, failed, broken, cleared>>

\* _capture_error: the error is kept, and the option's error_handler is called.
Capture(n) ==
  /\ failed' = failed \cup {n}
  /\ errors' = IF captures THEN errors + 1 ELSE errors

\* What comes of an error: the emission goes on, with a coroutine of the
\* error_handler or without, or the error, or the handler's own, is raised.
Outcomes ==
  CASE ~captures -> {"raises"}
    [] captures /\ onError = "none" -> {"continues"}
    [] captures /\ onError = "sync" -> {"continues", "raises"}
    [] OTHER -> {"coroutine"}

\* What an emit() that raises had taken and does not call.
Dropped == {Top.todo[i].serial : i \in 2..Len(Top.todo)}

\* A synchronous listener raises: the next one is called, or emit() raises, and
\* the coroutines it has collected never run.
CallRaises ==
  /\ InHandler /\ Top.todo # <<>> /\ Head(Top.todo).handler \notin AsyncHandlers
  /\ onceRuns' = RunsAfter(Head(Top.todo))
  /\ Capture(Top.emit)
  /\ \/ /\ Outcomes \cap {"continues", "coroutine"} # {}
        /\ frames' = Called /\ UNCHANGED <<emits, onces>>
        /\ tasks' = IF "coroutine" \in Outcomes
                    THEN tasks \cup {[emit |-> Top.emit, serial |-> 0, is |-> "onError"]} ELSE tasks
     \/ /\ "raises" \in Outcomes
        /\ frames' = Outer /\ emits' = [emits EXCEPT ![Top.emit].state = "raised"]
        /\ onces' = onces \ Dropped /\ tasks' = {t \in tasks : t.emit # Top.emit}
  /\ UNCHANGED <<captures, onError, listeners, rank, serial, broken, cleared>>

\* All have been called: emit() returns.
EmitReturns ==
  /\ InHandler /\ Top.todo = <<>>
  /\ frames' = Outer
  /\ emits' = [emits EXCEPT ![Top.emit].state = "awaits"]
  /\ UNCHANGED <<captures, onError, listeners, rank, serial, errors, tasks, onces, onceRuns, failed, broken, cleared>>

\* The task of an asynchronous listener or of the error_handler returns; it raises,
\* or is cancelled, and so does the await of emit().
TaskReturns(t) ==
  /\ tasks' = tasks \ {t} /\ broken' \in {broken, broken \cup {t.emit}}
  /\ UNCHANGED <<errors, failed>>

\* The listener raises; an asynchronous error_handler runs in the same task.
TaskRaises(t) ==
  /\ t.is = "listener" /\ Capture(t.emit)
  /\ \/ "continues" \in Outcomes /\ tasks' = tasks \ {t} /\ UNCHANGED broken
     \/ "raises" \in Outcomes /\ tasks' = tasks \ {t} /\ broken' = broken \cup {t.emit}
     \/ "coroutine" \in Outcomes /\ tasks' = (tasks \ {t}) \cup {[emit |-> t.emit, serial |-> 0, is |-> "onError"]} /\ UNCHANGED broken

TaskEnds(t) ==
  /\ ~InHandler /\ t \in tasks
  /\ TaskReturns(t) \/ TaskRaises(t)
  /\ UNCHANGED <<captures, onError, listeners, rank, serial, emits, frames, onces, onceRuns, cleared>>

\* emit_strict() raises the first of the errors past those it had counted.
Reported(n) == errors > emits[n].mark

\* The tasks of an emission have ended, and the caller that awaited it goes on.
AwaitEnds(n) ==
  /\ ~InHandler /\ emits[n].state = "awaits"
  /\ ~\E t \in tasks : t.emit = n
  /\ emits' = [emits EXCEPT ![n].state =
                 IF n \in broken \/ (emits[n].strict /\ Reported(n))
                 THEN "raised" ELSE "ended"]
  /\ broken' = broken \ {n}
  /\ UNCHANGED <<captures, onError, listeners, rank, serial, errors, frames, tasks, onces, onceRuns, failed, cleared>>

EventsNext ==
  \/ \E o \in Offers : Listen(o.name, o.handler, o.once, o.priority, o.prepend)
  \/ \E n \in Names, h \in Handlers : Off(n, h)
  \/ \E ns \in {{n} : n \in Names} \cup {Names} : RemoveAll(ns)
  \/ ClearErrors
  \/ \E name \in EmittedNames, strict \in BOOLEAN : Emit(name, strict)
  \/ CallReturns \/ CallRaises \/ EmitReturns
  \/ \E t \in tasks : TaskEnds(t)
  \/ \E n \in DOMAIN emits : AwaitEnds(n)

-----------------------------------------------------------------------------
(* Properties *)

\* A once() listener is called once, whoever emits, also from within a listener:
\* until off(), remove_all_listeners() or an emit() that raises takes it, it is
\* registered, about to be called, or has been called, and one of these only
\* (module.py:214).
OnceRunsOnce ==
  \A s \in onces :
    Cardinality({l \in listeners : l.serial = s})
    + Cardinality({f \in DOMAIN frames : \E i \in DOMAIN frames[f].todo : frames[f].todo[i].serial = s})
    + onceRuns[s] = 1

\* emit_strict() does not return when one of its listeners raised, whatever the
\* other emissions do meanwhile (module.py:166), unless clear_errors() was called
\* in its middle, which it does not notice (module.py:172-176, 199).
StrictReports ==
  \A n \in DOMAIN emits : emits[n].strict /\ emits[n].state = "ended" /\ n \notin cleared => n \notin failed

\* once() and a strict emit() mean what they say, whatever emits meanwhile.
ListenersHear == OnceRunsOnce /\ StrictReports
=============================================================================
