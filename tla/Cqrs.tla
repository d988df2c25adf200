--------------------------------- MODULE Cqrs -------------------------------
(***************************************************************************)
(* fanest.cqrs: an AggregateRoot merged with an EventPublisher, the         *)
(* EventBus, its sagas and the CommandBus.  Callers are tasks that apply    *)
(* events to one aggregate and commit it.  EventBus.publish() awaits one    *)
(* handler after the other, then one saga after the other, and for each     *)
(* saga one command after the other: a step is what happens between two of  *)
(* these awaits.                                                            *)
(*                                                                         *)
(* A listener is a handler or a saga, and is called at one of the places    *)
(* where it is registered; an event is its type and the number of its       *)
(* apply().                                                                 *)
(***************************************************************************)
EXTENDS Integers, Sequences

CONSTANTS
  Callers,
  EventTypes, Bases,  \* the types an event type is a subclass of, itself left out
  Handling, Sagas,    \* registrations, those for a type together: [type, by]
  Commands,           \* how many commands each saga asks for
  AllowSubclass,      \* options.allow_subclass_handlers
  MaxApplied,         \* bound: events
  MaxCommits          \* bound: commits and publications

ASSUME CqrsAssumption ==
  /\ Handling \in Seq([type : STRING, by : STRING]) /\ Sagas \in Seq([type : STRING, by : STRING])
  /\ Commands \in [{Sagas[i].by : i \in DOMAIN Sagas} -> Nat]
  /\ MaxApplied \in Nat /\ MaxCommits \in Nat

VARIABLES
  rethrows,    \* options.rethrow_unhandled_exceptions
  uncommitted, \* AggregateRoot._events
  applied,     \* events so far
  publishing,  \* what each caller publishes, Resting when it does not
  commitsDone, \* commits and publications so far
  delivered,   \* history: the times each listener was called, per event
  safe,        \* history: events applied while nobody committed, and not undone
  overlapped   \* history: two commits were in progress at once, or one raised

cqrsVars == <<rethrows, uncommitted, applied, publishing, commitsDone, delivered, safe, overlapped>>

Resting == [todo |-> <<>>, calls |-> {}, commands |-> 0, clears |-> FALSE]
Active(c) == publishing[c] # Resting
EventNos == 1..MaxApplied
Listeners == {<<"handler", Handling[i].by>> : i \in DOMAIN Handling}
               \cup {<<"saga", Sagas[i].by>> : i \in DOMAIN Sagas}

CqrsInit ==
  /\ rethrows \in BOOLEAN
  /\ uncommitted = <<>> /\ applied = 0 /\ commitsDone = 0
  /\ publishing = [c \in Callers |-> Resting]
  /\ delivered = [n \in EventNos |-> [l \in Listeners |-> 0]]
  /\ safe = {} /\ overlapped = FALSE

-----------------------------------------------------------------------------
(* Who is called *)

Subclassed(t) == IF AllowSubclass THEN Bases[t] ELSE {}

\* Where _handlers_for and then _sagas_for look, in order: registrations for the
\* event's type and for its bases; a saga for object is one for every event.
Looks(t) ==
  <<[among |-> Handling, for |-> {t}],
    [among |-> Handling, for |-> Subclassed(t)],
    [among |-> Sagas, for |-> {t}],
    [among |-> Sagas, for |-> {"object"}],
    [among |-> Sagas, for |-> Subclassed(t)]>>

\* A place: which look, and the registration it comes upon.
Places(t) ==
  UNION {{<<n, i>> : i \in {i \in DOMAIN Looks(t)[n].among : Looks(t)[n].among[i].type \in Looks(t)[n].for}} :
           n \in 1..5}
Who(p) == IF p[1] <= 2 THEN <<"handler", Handling[p[2]].by>> ELSE <<"saga", Sagas[p[2]].by>>

Earlier(p, q) == p[1] < q[1] \/ (p[1] = q[1] /\ p[2] < q[2])

\* The first occurrence of each listener stays.
CalledFor == [t \in EventTypes |-> {p \in Places(t) : \A q \in Places(t) : Who(q) = Who(p) => ~Earlier(q, p)}]

-----------------------------------------------------------------------------
(* The aggregate *)

\* apply(), apply_async() without auto-commit.
Apply(t) ==
  /\ applied < MaxApplied
  /\ applied' = applied + 1
  /\ uncommitted' = Append(uncommitted, [no |-> applied + 1, type |-> t])
  /\ safe' = IF \E c \in Callers : publishing[c].clears THEN safe ELSE safe \cup {applied + 1}
  /\ UNCHANGED <<rethrows, publishing, commitsDone, delivered, overlapped>>

\* uncommit().
Uncommit ==
  /\ uncommitted # <<>>
  /\ safe' = safe \ {uncommitted[i].no : i \in DOMAIN uncommitted}
  /\ uncommitted' = <<>>
  /\ UNCHANGED <<rethrows, applied, publishing, commitsDone, delivered, overlapped>>

Publication(todo, clears) ==
  [todo |-> todo, calls |-> CalledFor[Head(todo).type], commands |-> 0, clears |-> clears]

\* commit() publishes the events there are.
Commit(c) ==
  /\ ~Active(c) /\ uncommitted # <<>> /\ commitsDone < MaxCommits
  /\ publishing' = [publishing EXCEPT ![c] = Publication(uncommitted, TRUE)]
  /\ commitsDone' = commitsDone + 1
  /\ overlapped' = (overlapped \/ \E d \in Callers : publishing[d].clears)
  /\ UNCHANGED <<rethrows, uncommitted, applied, delivered, safe>>

\* apply_async() of an aggregate that commits automatically, or publish().
ApplyAndPublish(c, t) ==
  /\ ~Active(c) /\ applied < MaxApplied /\ commitsDone < MaxCommits
  /\ applied' = applied + 1
  /\ publishing' = [publishing EXCEPT ![c] =
                      Publication(<<[no |-> applied + 1, type |-> t]>>, FALSE)]
  /\ commitsDone' = commitsDone + 1
  /\ UNCHANGED <<rethrows, uncommitted, delivered, safe, overlapped>>

-----------------------------------------------------------------------------
(* EventBus.publish() *)

\* The listener at p is next, or is being called.
Turn(calls, p) == p \in calls /\ \A q \in calls : ~Earlier(q, p)

\* The next listener of the event, or the next event.
NextCall(c, p) ==
  publishing' = [publishing EXCEPT ![c].calls = @ \ {p}, ![c].commands = 0]

\* publish() raises: the error is rethrown, or a subscriber of the
\* UnhandledExceptionBus raised.  The commit ends, and clears nothing.
Raises(c) ==
  /\ publishing' = [publishing EXCEPT ![c] = Resting]
  /\ overlapped' = TRUE

\* A handler or a saga raised, or a command of a saga did, whose bus reported
\* it too: the next listener is called unless the error is rethrown.
Captured(c, p) == NextCall(c, p) /\ UNCHANGED overlapped

Fails(c, p) == IF rethrows THEN Raises(c) ELSE Captured(c, p) \/ Raises(c)

Count(c, p) ==
  LET n == Head(publishing[c].todo).no IN delivered' = [delivered EXCEPT ![n][Who(p)] = @ + 1]

\* The commands a listener asks for.
Asked(p) == IF Who(p)[1] = "saga" THEN Commands[Who(p)[2]] ELSE 0

\* The listener returns, a saga with its commands, or raises.
CallListener(c, p) ==
  /\ Turn(publishing[c].calls, p) /\ publishing[c].commands = 0
  /\ Count(c, p)
  /\ \/ /\ Asked(p) > 0
        /\ publishing' = [publishing EXCEPT ![c].commands = Asked(p)]
        /\ UNCHANGED overlapped
     \/ Asked(p) = 0 /\ NextCall(c, p) /\ UNCHANGED overlapped
     \/ Fails(c, p)
  /\ UNCHANGED <<rethrows, uncommitted, applied, commitsDone, safe>>

\* CommandBus.execute() of the next command of a saga.
Execute(c, p) ==
  /\ Turn(publishing[c].calls, p) /\ publishing[c].commands > 0
  /\ \/ /\ IF publishing[c].commands = 1 THEN NextCall(c, p)
           ELSE publishing' = [publishing EXCEPT ![c].commands = @ - 1]
        /\ UNCHANGED overlapped
     \/ Fails(c, p)
  /\ UNCHANGED <<rethrows, uncommitted, applied, commitsDone, delivered, safe>>

\* All listeners of the event have been called; after the last event commit()
\* forgets what the aggregate has by then.
EventDone(c) ==
  /\ Active(c) /\ publishing[c].calls = {}
  /\ LET rest == Tail(publishing[c].todo)
     IN IF rest # <<>>
        THEN /\ publishing' = [publishing EXCEPT ![c] = Publication(rest, @.clears)]
             /\ UNCHANGED uncommitted
        ELSE /\ publishing' = [publishing EXCEPT ![c] = Resting]
             /\ uncommitted' = IF publishing[c].clears THEN <<>> ELSE uncommitted
  /\ UNCHANGED <<rethrows, applied, commitsDone, delivered, safe, overlapped>>

CqrsNext ==
  \/ \E t \in EventTypes : Apply(t) \/ \E c \in Callers : ApplyAndPublish(c, t)
  \/ Uncommit
  \/ \E c \in Callers : Commit(c) \/ EventDone(c)
                       \/ \E p \in publishing[c].calls : CallListener(c, p) \/ Execute(c, p)

-----------------------------------------------------------------------------
(* Properties *)

Delivered(n, t) == \A p \in CalledFor[t] : delivered[n][Who(p)] > 0
Kept(n) == \E i \in DOMAIN uncommitted : uncommitted[i].no = n

\* An event applied while nobody commits is not lost, however commits overlap
\* and fail: the aggregate keeps it until every handler and saga for it has been
\* called (module.py:402).
NotLost ==
  [][\A e \in {uncommitted[i] : i \in DOMAIN uncommitted} :
       e.no \in safe' /\ ~Kept(e.no)' => Delivered(e.no, e.type)]_cqrsVars

\* A listener is called once for an event as long as no two commits overlap and
\* none raises (module.py:252, 402).
CalledOnce == overlapped \/ \A n \in EventNos, l \in Listeners : delivered[n][l] <= 1
=============================================================================
