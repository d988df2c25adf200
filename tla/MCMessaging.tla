----------------------------- MODULE MCMessaging ----------------------------
(* Three services that do not know each other, one after the other: the      *)
(* event emitter, an aggregate of cqrs, and microservices whose clients      *)
(* share Kafka's reply topic or RabbitMQ's exchange.                         *)
EXTENDS Events, Cqrs, Microservices

CONSTANTS h1, h2

VARIABLE part

messagingVars == <<part, eventVars, cqrsVars, msVars>>

\* Without an error_handler errors are captured as with a synchronous one that returns.
Init ==
  /\ part \in {"events", "cqrs", "microservices"}
  /\ EventsInit /\ IF part = "events" THEN onError # "none" \/ ~captures ELSE captures /\ onError = "none"
  /\ CqrsInit /\ (rethrows \/ part = "cqrs")
  /\ MicroservicesInit /\ (part = "microservices" \/ kind = "memory")

In(p, others) == part = p /\ UNCHANGED <<part, others>>
InMicroservices == In("microservices", <<eventVars, cqrsVars>>)

Next ==
  \/ EventsNext /\ In("events", <<cqrsVars, msVars>>)
  \/ CqrsNext /\ In("cqrs", <<eventVars, msVars>>)
  \/ MicroservicesNext /\ InMicroservices

\* asyncio goes on with a call whose reply or time-out has come.
Spec ==
  /\ Init /\ [][Next]_messagingVars
  /\ \A c \in Clients : WF_messagingVars(InMicroservices /\ ClientStep(c))

-----------------------------------------------------------------------------
Order == <<"order", "new">>
Anything == <<"**">>
Listened == {Order, Anything}
Emitted == {Order}
Offer(name, handler, once, priority, prepend) ==
  [name |-> name, handler |-> handler, once |-> once, priority |-> priority, prepend |-> prepend]
Offered ==
  {Offer(Order, h1, TRUE, 0, FALSE), Offer(Anything, h2, TRUE, 1, FALSE),
   Offer(Anything, h1, FALSE, 0, TRUE)}

\* "created" is a subclass of "base"; a saga answers each event with two commands.
SuperTypes == [t \in {"created", "base"} |-> IF t = "created" THEN {"base"} ELSE {}]
On(type, listener) == [type |-> type, by |-> listener]
Handled == <<On("base", "one"), On("base", "two"), On("created", "one")>>
Watched == <<On("base", "saga"), On("object", "saga")>>
Answers == [saga |-> 2]

MCCallersOf == [k \in Kinds |-> IF k \in {"kafka", "rabbitmq"} THEN Clients ELSE {"a"}]
MCMaxListens == [k \in Kinds |-> IF k = "kafka" THEN 1 ELSE 2]
MCRetries == [c \in Clients |-> IF c = "a" THEN 1 ELSE 0]
MCEventHandlers == <<"e1", "e2">>

-----------------------------------------------------------------------------
\* In one process, listeners and handlers hear an event as often as they asked.
EventsHeard == ListenersHear /\ CalledOnce

\* Nothing sent is dropped: commit() loses no event, no event ends the listener,
\* and every call ends.
NothingDropped == NotLost /\ ListenerSurvives /\ CallEnds
=============================================================================
