----------------------------- MODULE Microservices --------------------------
(***************************************************************************)
(* fanest.microservices: clients that send requests and emit events through *)
(* one transport to a MicroserviceServer, with time-outs and retries.       *)
(*                                                                         *)
(* kind is the transport.  In memory a call runs the handler itself; over   *)
(* TCP, NATS and RabbitMQ each message is handled by a task of its own;     *)
(* over Redis streams and Kafka the listener handles one after the other.   *)
(* A message of Redis and Kafka stays in its stream, one for another server *)
(* is taken when it arrives or lost.                                       *)
(***************************************************************************)
EXTENDS Integers, FiniteSets, SequencesExt

CONSTANTS
  Clients, Kinds,
  CallersOf,       \* the clients that call, per kind
  ProxyTimeout,  \* the kinds for which ClientProxyOptions.timeout is set
  Retries,       \* ClientProxyOptions.retries, per client
  EventHandlers, \* sequence of the handlers registered for the event
  MaxEvents, MaxListens \* bounds; the second per kind

ASSUME MicroservicesAssumption ==
  /\ Kinds \subseteq {"memory", "tcp", "nats", "redis", "rabbitmq", "kafka"}
  /\ \A k \in Kinds : CallersOf[k] \subseteq Clients
  /\ Retries \in [Clients -> Nat] /\ MaxEvents \in Nat /\ MaxListens \in [Kinds -> Nat]
  /\ EventHandlers \in Seq(Range(EventHandlers))

VARIABLES
  kind,
  call,     \* per client: [at, tries, got]; got is the request whose reply it has;
            \* at "publishing" it awaits Kafka's send_and_wait()
  events,   \* events emitted
  streams,  \* Redis, Kafka: the messages sent, per stream
  wire,     \* TCP, NATS, RabbitMQ: the messages under way
  server,   \* [up, listens]
  loop,     \* the listener: "none", "idle", "reading", "handling", "dead"
  cursor,   \* per stream: the position after which it reads, or New
  from,     \* per stream: where the read in progress began, NoRead without one
  batch,    \* what the read returned, still to be handled
  serving,  \* the messages being handled: [message, stage, todo, errors]
  replies,  \* replies under way, or in their streams: [to, error]
  pending,  \* Kafka: _pending_replies
  orphans,  \* history: those of them whose send_and_wait() did not return
  ran,      \* history, per client: runs of the handler, behind its guards and interceptors
  handled   \* history: [stream, position] of what this listener has begun

msVars == <<kind, call, events, streams, wire, server, loop, cursor, from, batch, serving,
            replies, pending, orphans, ran, handled>>

New == -1 \* "$"
Nothing == "nothing"
Streams == {"requests", "events"}

\* A request is known by its client and the attempt: request_id, correlation_id,
\* the connection or the callback queue.
Request(c, n) == [event |-> FALSE, of |-> c, no |-> n]
EventMessage(n) == [event |-> TRUE, of |-> "emitter", no |-> n]
Current(c) == Request(c, call[c].tries)

Sequential == kind \in {"redis", "kafka"}
StreamOf(m) == IF kind = "redis" /\ m.event THEN "events" ELSE "requests"

NoRead == [s \in Streams |-> 0]

MicroservicesInit ==
  /\ kind \in Kinds
  /\ call = [c \in Clients |-> [at |-> "idle", tries |-> 0, got |-> {}]]
  /\ events = 0 /\ streams = [s \in Streams |-> <<>>] /\ wire = {}
  /\ server = [up |-> FALSE, listens |-> 0] /\ loop = "none"
  /\ cursor = [s \in Streams |-> New] /\ from = NoRead
  /\ batch = <<>> /\ serving = {} /\ replies = {} /\ pending = {} /\ orphans = {}
  /\ ran = [c \in Clients |-> 0] /\ handled = {}

-----------------------------------------------------------------------------
(* Clients *)

LastTry(c) == call[c].tries > Retries[c]

Ends(c, got) == call' = [call EXCEPT ![c].at = "ended", ![c].got = got]

\* ClientProxy.send(): an error or a time-out is raised after the last attempt.
CallFails(c) ==
  IF LastTry(c) THEN Ends(c, {}) ELSE call' = [call EXCEPT ![c].at = "retry"]

Todo(m) == IF m.event THEN EventHandlers ELSE <<>>
Serving(m) == [message |-> m, stage |-> IF m.event THEN "event" ELSE "handler", todo |-> Todo(m), errors |-> 0]

Reaches == kind = "memory" \/ Sequential \/ (server.up /\ loop # "dead")

\* transport.send() up to its first wait, or transport.emit().
InMemoryCall(m) == kind = "memory" /\ serving' = serving \cup {Serving(m)} /\ UNCHANGED <<streams, wire>>
RedisAdd(m) ==
  kind = "redis" /\ streams' = [streams EXCEPT ![StreamOf(m)] = Append(@, m)] /\ UNCHANGED <<serving, wire>>
KafkaProduce(m) ==
  kind = "kafka" /\ streams' = [streams EXCEPT ![StreamOf(m)] = Append(@, m)] /\ UNCHANGED <<serving, wire>>
\* Without a server TCP and NATS raise, and RabbitMQ drops the message.
OnTheWire(m) == wire' = (IF Reaches THEN wire \cup {m} ELSE wire) /\ UNCHANGED <<serving, streams>>
TcpFrame(m) == kind = "tcp" /\ OnTheWire(m)
NatsMessage(m) == kind = "nats" /\ OnTheWire(m)
RmqPublish(m) == kind = "rabbitmq" /\ OnTheWire(m)

Publish(m) ==
  \/ InMemoryCall(m) \/ RedisAdd(m) \/ KafkaProduce(m)
  \/ TcpFrame(m) \/ NatsMessage(m) \/ RmqPublish(m)

\* The next attempt, which ends at when it could not be made.
Attempt(c) == call[c].at \in {"idle", "retry"} /\ c \in CallersOf[kind]
AfterAttempt(c, made) ==
  call' = [call EXCEPT ![c].at = IF made THEN (IF kind = "kafka" THEN "publishing" ELSE "waiting")
                                 ELSE IF call[c].tries + 1 > Retries[c] THEN "ended" ELSE "retry",
                       ![c].tries = @ + 1]

\* Kafka's future is stored before the message is published.
Send(c) ==
  /\ Attempt(c)
  /\ LET m == Request(c, call[c].tries + 1)
     IN Publish(m) /\ pending' = IF kind = "kafka" THEN pending \cup {m} ELSE pending
  /\ AfterAttempt(c, Reaches \/ kind = "rabbitmq")
  /\ UNCHANGED <<kind, events, server, loop, cursor, from, batch, replies, orphans, ran, handled>>

\* The broker refuses the message; Kafka's future stays.
SendRefused(c) ==
  /\ Attempt(c) /\ kind # "memory"
  /\ LET m == {Request(c, call[c].tries + 1)}
     IN IF kind = "kafka" THEN pending' = pending \cup m /\ orphans' = orphans \cup m ELSE UNCHANGED <<pending, orphans>>
  /\ AfterAttempt(c, FALSE)
  /\ UNCHANGED <<kind, events, streams, wire, serving, server, loop, cursor, from, batch, replies, ran,
                 handled>>

Forget(c) == replies' = {r \in replies : r.to # Current(c)}

\* send_and_wait() returns and the call waits for its future.  A close() has
\* cancelled that meanwhile, unless the reply was there first.
PublishEnds(c) ==
  /\ call[c].at = "publishing"
  /\ \/ Current(c) \in pending /\ call' = [call EXCEPT ![c].at = "waiting"] /\ UNCHANGED replies
     \/ /\ Current(c) \notin pending /\ Forget(c)
        /\ \/ Ends(c, {})
           \/ \E r \in replies : r.to = Current(c) /\ IF r.error THEN CallFails(c) ELSE Ends(c, {r.to})
  /\ UNCHANGED <<kind, events, streams, wire, server, loop, cursor, from, batch, serving, pending, orphans, ran,
                 handled>>

\* It raises, or the proxy's time-out comes before: the future is left.
PublishFails(c) ==
  /\ call[c].at = "publishing" /\ CallFails(c)
  /\ orphans' = orphans \cup ({Current(c)} \cap pending) /\ Forget(c)
  /\ UNCHANGED <<kind, events, streams, wire, server, loop, cursor, from, batch, serving, pending, ran, handled>>

EmitEvent ==
  /\ events < MaxEvents /\ events' = events + 1
  /\ Publish(EventMessage(events + 1))
  /\ UNCHANGED <<kind, call, server, loop, cursor, from, batch, replies, pending, orphans, ran, handled>>

\* Whose reply it is: Kafka has one topic for all replies.  Variant: the first
\* caller that waits gets it.
ToAnyone(r) == {c \in Clients : call[c].at = "waiting"}
Addressee(r) == {c \in Clients : call[c].at = "waiting" /\ Current(c) = r.to}

\* send() returns, or raises MicroserviceRemoteError.
Receive(r) ==
  /\ r \in replies
  /\ \E c \in Addressee(r) :
       /\ IF r.error THEN CallFails(c) ELSE Ends(c, {r.to})
       /\ pending' = pending \ {Current(c)}
  /\ replies' = replies \ {r}
  /\ UNCHANGED <<kind, events, streams, wire, server, loop, cursor, from, batch, serving, orphans, ran, handled>>

\* Redis, TCP and Kafka wait response_timeout seconds, NATS has a time-out of
\* its own; RabbitMQ and memory wait for ever unless the proxy does not.
TimesOut == kind \in {"redis", "tcp", "kafka", "nats"} \/ kind \in ProxyTimeout

\* Each attempt has its own time-out.
Armed(c) == TimesOut

\* A request that timed out leaves _pending_replies.
PendingAfter(c) == pending \ {Current(c)}

\* A time-out, of the transport or of the proxy, which cancels the call: in
\* memory that cancels the handler.
TimeOut(c) ==
  /\ call[c].at = "waiting" /\ Armed(c)
  /\ CallFails(c)
  /\ pending' = PendingAfter(c)
  /\ serving' = IF kind = "memory" THEN {s \in serving : s.message # Current(c)} ELSE serving
  /\ replies' = IF kind = "redis" THEN replies ELSE {r \in replies : r.to # Current(c)}
  /\ UNCHANGED <<kind, events, streams, wire, server, loop, cursor, from, batch, orphans, ran, handled>>

\* close() of a client that shares the transport: Kafka cancels what waits, and
\* what is still publishing will find its future cancelled.
CloseClient ==
  /\ kind = "kafka" /\ pending # {}
  /\ call' = [c \in Clients |-> IF Current(c) \in pending /\ call[c].at = "waiting"
                                THEN [call[c] EXCEPT !.at = "ended"] ELSE call[c]]
  /\ pending' = {} /\ orphans' = {}
  /\ UNCHANGED <<kind, events, streams, wire, server, loop, cursor, from, batch, serving, replies, ran, handled>>

-----------------------------------------------------------------------------
(* The server's listener *)

\* MicroserviceServer.listen(): one listening task, Redis reads what is new.
StartListening ==
  /\ kind # "memory" /\ ~server.up /\ server.listens < MaxListens[kind]
  /\ server' = [up |-> TRUE, listens |-> server.listens + 1]
  /\ loop' = "idle"
  /\ cursor' = [s \in Streams |-> IF kind = "kafka" /\ cursor[s] # New THEN cursor[s]
                                   ELSE IF kind = "kafka" THEN 0 ELSE New]
  /\ handled' = {}
  /\ UNCHANGED <<kind, call, events, streams, wire, from, batch, serving, replies, pending, orphans, ran>>

\* close() cancels the listening task, and what it handles.  Without the connection
\* RabbitMQ takes back what is not acknowledged, or drops it with the queue,
\* while its handlers go on.
CloseServer ==
  /\ server.up
  /\ server' = [server EXCEPT !.up = FALSE] /\ loop' = "none" /\ batch' = <<>> /\ from' = NoRead
  /\ serving' = IF Sequential THEN {} ELSE serving
  /\ \/ UNCHANGED wire
     \/ kind = "rabbitmq" /\ wire' = wire \cup {s.message : s \in serving}
  /\ UNCHANGED <<kind, call, events, streams, cursor, replies, pending, orphans, ran, handled>>

\* XREAD starts: "$" is what the stream holds now.
StartRead ==
  /\ Sequential /\ loop = "idle"
  /\ loop' = "reading"
  /\ from' = [s \in Streams |-> IF cursor[s] = New THEN Len(streams[s]) ELSE cursor[s]]
  /\ UNCHANGED <<kind, call, events, streams, wire, server, cursor, batch, serving, replies, pending,
                 orphans, ran, handled>>

Unread(s) == Len(streams[s]) > from[s]

\* XREAD waited 100 ms in vain: the next read asks for "$" again.
ReadNothing ==
  /\ kind = "redis" /\ loop = "reading" /\ ~\E s \in Streams : Unread(s)
  /\ loop' = "idle" /\ from' = NoRead
  /\ UNCHANGED <<kind, call, events, streams, wire, server, cursor, batch, serving, replies, pending,
                 orphans, ran, handled>>

\* It returns the next message of each stream.
ReadSome ==
  /\ loop = "reading" /\ \E s \in Streams : Unread(s)
  /\ loop' = "handling"
  /\ batch' = [i \in 1..2 |-> IF Unread(<<"requests", "events">>[i]) THEN <<"requests", "events">>[i] ELSE Nothing]
  /\ UNCHANGED <<kind, call, events, streams, wire, server, cursor, from, serving, replies, pending,
                 orphans, ran, handled>>

\* Variant: the cursor goes to the end of the stream.
ReadToEnd(s) == Len(streams[s])
ReadNext(s) == from[s] + 1

\* The next message of the batch is handled; when it has been, so is the cursor
\* set, here at once since nobody else reads it.
TakeNext ==
  /\ loop = "handling" /\ serving = {} /\ batch # <<>>
  /\ batch' = Tail(batch)
  /\ LET s == Head(batch)
     IN IF s = Nothing THEN UNCHANGED <<serving, cursor, handled>>
        ELSE /\ serving' = {Serving(streams[s][from[s] + 1])}
             /\ cursor' = [cursor EXCEPT ![s] = ReadNext(s)]
             /\ handled' = handled \cup {[stream |-> s, position |-> from[s] + 1]}
  /\ UNCHANGED <<kind, call, events, streams, wire, server, loop, from, replies, pending, orphans, ran>>

BatchDone ==
  /\ loop = "handling" /\ serving = {} /\ batch = <<>>
  /\ loop' = "idle" /\ from' = NoRead
  /\ UNCHANGED <<kind, call, events, streams, wire, server, cursor, batch, serving, replies,
                 pending, orphans, ran, handled>>

\* TCP, NATS, RabbitMQ: a task for each message.
TakeOne ==
  /\ server.up
  /\ \E m \in wire : wire' = wire \ {m} /\ serving' = serving \cup {Serving(m)}
  /\ UNCHANGED <<kind, call, events, streams, server, loop, cursor, from, batch, replies, pending, orphans, ran,
                 handled>>

-----------------------------------------------------------------------------
(* The handlers *)

\* _lazy_handler: guards, pipes and interceptors let the request pass, and the
\* handler runs, or one of them raises; a filter may make a result of the error.
Handle(s) ==
  /\ s.stage = "handler"
  /\ \E stage \in {"result", "error"} : serving' = (serving \ {s}) \cup {[s EXCEPT !.stage = stage]}
  /\ ran' = [ran EXCEPT ![s.message.of] = @ + 1]
  /\ UNCHANGED <<kind, call, events, streams, wire, server, loop, cursor, from, batch, replies, pending,
                 orphans, handled>>

\* The result, or what the error says, is sent back.  Nobody waits for it any
\* more: it is dropped, or stays in its Redis stream.
Waits(m) == \E c \in Clients : call[c].at \in {"publishing", "waiting"} /\ Current(c) = m
RedisReplies(m, error) == kind = "redis"
InMemoryReplies(m, error) == kind = "memory" /\ Waits(m)
TcpReplies(m, error) == kind = "tcp" /\ Waits(m)
NatsReplies(m, error) == kind = "nats" /\ Waits(m)
RmqReplies(m, error) == kind = "rabbitmq" /\ ~error /\ Waits(m)
KafkaReplies(m, error) == kind = "kafka" /\ Waits(m)

Replies(m, error) ==
  \/ RedisReplies(m, error) \/ InMemoryReplies(m, error) \/ TcpReplies(m, error)
  \/ NatsReplies(m, error) \/ RmqReplies(m, error) \/ KafkaReplies(m, error)

Reply(s) ==
  /\ s.stage \in {"result", "error"}
  /\ serving' = serving \ {s}
  /\ LET error == s.stage = "error"
     IN replies' = IF Replies(s.message, error) THEN replies \cup {[to |-> s.message, error |-> error]}
                   ELSE replies
  /\ UNCHANGED <<kind, call, events, streams, wire, server, loop, cursor, from, batch, pending, orphans, ran,
                 handled>>

\* The reply cannot be sent.  Over Redis and Kafka that raises in the listener
\* itself; a result that only TCP, NATS or Redis cannot serialize is an error.
ReplyFails(s) ==
  /\ s.stage \in {"result", "error"} /\ kind # "memory"
  /\ serving' = serving \ {s}
  /\ IF Sequential THEN loop' = "dead" /\ batch' = <<>> ELSE UNCHANGED <<loop, batch>>
  /\ UNCHANGED <<kind, call, events, streams, wire, server, cursor, from, replies, pending, orphans, ran, handled>>

\* _dispatch_event: the next handler returns or raises.
HandleEvent(s) ==
  /\ s.stage = "event" /\ s.todo # <<>>
  /\ \E raised \in {0, 1} :
       serving' = (serving \ {s}) \cup {[s EXCEPT !.todo = Tail(@), !.errors = @ + raised]}
  /\ UNCHANGED <<kind, call, events, streams, wire, server, loop, cursor, from, batch, replies, pending,
                 orphans, ran, handled>>

\* MicroserviceEventError is logged, over TCP it is answered, and in memory
\* raised by emit().  Variant: it goes through the listener.
EscapesLoop(s) == IF s.errors > 0 /\ loop # "none" THEN "dead" ELSE loop
LoopAfter(s) == loop

EventHandled(s) ==
  /\ s.stage = "event" /\ s.todo = <<>>
  /\ serving' = serving \ {s} /\ loop' = LoopAfter(s)
  /\ UNCHANGED <<kind, call, events, streams, wire, server, cursor, from, batch, replies, pending, orphans, ran,
                 handled>>

\* A message that Kafka's listener cannot decode ends it, and so does an XREAD
\* that raises the one of Redis (module.py:1208, 436).
ListenerRaises ==
  /\ \/ kind = "kafka" /\ loop = "handling" /\ serving = {} /\ batch # <<>> /\ Head(batch) # Nothing
     \/ kind = "redis" /\ loop = "reading"
  /\ loop' = "dead" /\ batch' = <<>>
  /\ UNCHANGED <<kind, call, events, streams, wire, server, cursor, from, serving, replies, pending,
                 orphans, ran, handled>>

-----------------------------------------------------------------------------
ClientStep(c) == Send(c) \/ SendRefused(c) \/ PublishEnds(c) \/ PublishFails(c) \/ TimeOut(c) \/ (\E r \in replies : c \in Addressee(r) /\ Receive(r))

ServerStep ==
  \/ StartRead \/ ReadNothing \/ ReadSome \/ TakeNext \/ BatchDone \/ TakeOne
  \/ \E s \in serving : Handle(s) \/ Reply(s) \/ ReplyFails(s) \/ HandleEvent(s) \/ EventHandled(s)

MicroservicesNext ==
  \/ \E c \in Clients : Send(c) \/ SendRefused(c) \/ PublishEnds(c) \/ PublishFails(c) \/ TimeOut(c)
  \/ \E r \in replies : Receive(r)
  \/ EmitEvent \/ CloseClient \/ StartListening \/ CloseServer \/ ListenerRaises \/ ServerStep

MicroservicesSpec == MicroservicesInit /\ [][MicroservicesNext]_msVars

-----------------------------------------------------------------------------
(* Properties *)

\* A call that returns has the reply to its own last attempt, also when an
\* earlier attempt is answered late or other calls share the reply topic
\* (module.py:1299, 963).
OwnReply ==
  \A c \in Clients : call[c].got \subseteq {Current(c)}

\* A RabbitMQ server was closed, which had not acknowledged what it handled.
Redelivers == kind = "rabbitmq" /\ server.listens > (IF server.up THEN 1 ELSE 0)

\* A call runs the handler once per attempt at most, and makes Retries[c] + 1
\* attempts at most, whatever times out while a handler runs (module.py:1883);
\* but RabbitMQ may deliver again what a closed server handled (module.py:1011).
RunsBounded ==
  \A c \in Clients : call[c].tries <= Retries[c] + 1 /\ (Redelivers \/ ran[c] <= call[c].tries)

\* Kafka keeps the futures of the calls that wait and, besides them and the calls
\* that are publishing, only those of messages whose publishing failed or was
\* interrupted, before the finally clause that removes them (module.py:1168-1189).
PendingAwaited ==
  LET At(places) == {Current(c) : c \in {d \in Clients : call[d].at \in places}}
  IN kind = "kafka" =>
       At({"waiting"}) \subseteq pending /\ pending \subseteq At({"publishing", "waiting"}) \cup orphans

\* Once a Redis or Kafka listener has begun to handle a stream it leaves out no
\* later message of it (module.py:441, 444).
NothingSkipped ==
  \A h \in handled : \A s \in Streams :
    h.stream = s /\ cursor[s] # New =>
      \A p \in h.position .. cursor[s] : [stream |-> s, position |-> p] \in handled

\* The handler of an event or of a request that raises does not end the listener:
\* only a message it cannot take, a read or a reply that fails does (module.py:304,
\* 484, 1264; 436, 473, 1278).
ListenerSurvives ==
  [][loop' = "dead" => loop = "dead" \/ ListenerRaises \/ \E s \in serving : ReplyFails(s)]_msVars

\* With a time-out on one of its sides every call ends, whatever the server does
\* (module.py:401, 1180, 1874).
CallEnds == \A c \in Clients : call[c].at \in {"publishing", "waiting"} /\ TimesOut ~> call[c].at = "ended"

\* A call is answered by its own reply, and runs as often as it was sent.
CallsAnswered == OwnReply /\ RunsBounded /\ PendingAwaited
=============================================================================
