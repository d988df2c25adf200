-------------------------- MODULE Messaging_proofs --------------------------
(***************************************************************************)
(* The proofs about the services that pass messages, for any clients,       *)
(* transports, listeners, events and bounds: of Microservices, CallsAnswered *)
(* and NothingSkipped; of Events and Cqrs, EventsHeard and NotLost.         *)
(*                                                                         *)
(* Microservices: CallInv and Numbered say which attempts a call has made,  *)
(* ReadInv where a read began and how far the cursor is, OnePlace that a    *)
(* request that can still run a handler is in one place, RunInv that what   *)
(* ran and what can still run are not more than the attempts, PendingEach   *)
(* which futures Kafka's client keeps.                                      *)
(*                                                                         *)
(* Events: ListenersTyped makes the order in which emit() calls a strict    *)
(* one, so that Collected has each listener once (Ranked, CollectsEach);    *)
(* OnceInv follows a once() registration from the list over the emissions   *)
(* that wait to call it to the call; StrictInv keeps what failed in errors.  *)
(*                                                                         *)
(* Cqrs: CalledInv says that publications share no event with each other    *)
(* nor with what is kept, and that what waits has not been called; KeptInv  *)
(* that a commit forgets only what it has brought to every listener.        *)
(***************************************************************************)
EXTENDS MCMessaging, FiniteSetTheorems, TLAPS

Requests == {Request(c, n) : c \in Clients, n \in Nat}
Messages == Requests \cup {EventMessage(n) : n \in Nat}
Calls == [at: {"idle", "publishing", "waiting", "retry", "ended"}, tries: Nat, got: SUBSET Requests]
Servings == [message: Messages, stage: {"event", "handler", "result", "error"},
             todo: Seq(Range(EventHandlers)), errors: Nat]

TypeInv ==
  /\ kind \in Kinds /\ events \in Nat
  /\ call \in [Clients -> Calls] /\ ran \in [Clients -> Nat]
  /\ streams \in [Streams -> Seq(Messages)]
  /\ wire \subseteq Messages /\ pending \subseteq Requests /\ orphans \subseteq Requests
  /\ server \in [up: BOOLEAN, listens: Nat] /\ (server.up => server.listens > 0)
  /\ loop \in {"none", "idle", "reading", "handling", "dead"}
  /\ cursor \in [Streams -> Nat \cup {New}] /\ from \in [Streams -> Nat]
  /\ serving \subseteq Servings
  /\ \A s \in serving : s.stage = "event" <=> s.message.event
  /\ \A r \in replies : r.to \in Messages

\* What a read returned is of the streams in their order, each once, and is there.
Batches ==
  {<<>>} \cup {<<b>> : b \in {"events", Nothing}}
    \cup {<<a, b>> : a \in {"requests", Nothing}, b \in {"events", Nothing}}
BatchThere ==
  /\ batch \in Batches
  /\ \A i \in DOMAIN batch : batch[i] # Nothing => Len(streams[batch[i]]) > from[batch[i]]

-----------------------------------------------------------------------------
(* Calls.  OwnReply and PendingAwaited need to know that an unfinished call   *)
(* has no reply, how many attempts it may have made, and that what was sent  *)
(* has the number of an attempt made.                                        *)
CallInv ==
  \A c \in Clients :
    /\ call[c].at # "ended" => call[c].got = {}
    /\ call[c].got \subseteq {Current(c)}
    /\ call[c].at = "idle" => call[c].tries = 0
    /\ call[c].at = "retry" => call[c].tries <= Retries[c]
    /\ call[c].tries <= Retries[c] + 1

\* Wherever a request is, it is of an attempt made; the events of Redis have a
\* stream of their own.
Made(m) == m.event \/ m.no \in 1 .. call[m.of].tries
Numbered ==
  /\ \A m \in wire : Made(m)
  /\ \A s \in serving : Made(s.message)
  /\ \A p \in DOMAIN streams["requests"] : Made(streams["requests"][p])
  /\ \A p \in DOMAIN streams["events"] : streams["events"][p].event

-----------------------------------------------------------------------------
(* Reads.  NothingSkipped needs to know that a read begins at the cursor, and *)
(* that nothing is left of the one before.                                   *)
ReadOn(s) == cursor[s] # New => from[s] = cursor[s]
ReadInv ==
  /\ BatchThere
  /\ ~server.up => loop = "none"
  /\ loop # "handling" => batch = <<>>
  /\ loop = "reading" => \A s \in Streams : ReadOn(s)
  /\ loop = "handling" => \A i \in DOMAIN batch : batch[i] # Nothing => ReadOn(batch[i])
  /\ \A h \in handled : h.stream \in Streams /\ h.position \in Nat /\ cursor[h.stream] # New
  /\ NothingSkipped

\* Without a listening task Redis and Kafka handle nothing.
IdleInv == Sequential /\ ~server.up => serving = {}

-----------------------------------------------------------------------------
(* Runs.  A request that can still run the handler is in one place only, and *)
(* what can still run was not run yet, as long as RabbitMQ delivers once.    *)
Mark ==
  IF cursor["requests"] # New THEN cursor["requests"]
  ELSE IF kind = "kafka" THEN 0
  ELSE IF loop \in {"reading", "handling"} THEN from["requests"] ELSE Len(streams["requests"])
Ahead(m) == \E p \in DOMAIN streams["requests"] : p > Mark /\ streams["requests"][p] = m
Served(m) == \E s \in serving : s.message = m /\ s.stage = "handler"
CanRun(m) == m \in wire \/ Served(m) \/ Ahead(m)
Outstanding(c) == {n \in 1 .. call[c].tries : CanRun(Request(c, n))}

OnePlace ==
  /\ Sequential => wire = {}
  /\ ~Sequential => streams["requests"] = <<>>
  /\ \A p, q \in DOMAIN streams["requests"] :
       streams["requests"][p] = streams["requests"][q] /\ ~streams["requests"][p].event => p = q
  /\ \A s \in serving : ~s.message.event =>
       /\ s.message \notin wire /\ ~Ahead(s.message)
       /\ \A t \in serving : s.message = t.message => s = t

RunInv == \A c \in Clients : ran[c] + Cardinality(Outstanding(c)) <= call[c].tries

-----------------------------------------------------------------------------
LEMMA RequestTyped ==
  /\ \A c \in Clients, n \in Nat : Request(c, n) \in Requests /\ Request(c, n) \in Messages
  /\ \A n \in Nat : EventMessage(n) \in Messages /\ EventMessage(n) \notin Requests
  /\ \A m \in Requests : m \in Messages /\ ~m.event /\ m.of \in Clients /\ m.no \in Nat
                           /\ m = Request(m.of, m.no)
  /\ \A m \in Messages : m.event \in BOOLEAN /\ (~m.event <=> m \in Requests)
  /\ \A c, d, n, k : Request(c, n) = Request(d, k) => c = d /\ n = k
<1>1. \A c, n : /\ Request(c, n).event = FALSE /\ Request(c, n).of = c /\ Request(c, n).no = n
               /\ EventMessage(n).event = TRUE
  BY DEF Request, EventMessage
<1>2. \A c \in Clients, n \in Nat : Request(c, n) \in Requests /\ Request(c, n) \in Messages
  BY DEF Requests, Messages
<1>3. \A m \in Requests : m \in Messages /\ ~m.event /\ m.of \in Clients /\ m.no \in Nat
                          /\ m = Request(m.of, m.no)
  <2>. SUFFICES ASSUME NEW m \in Requests
                PROVE m \in Messages /\ ~m.event /\ m.of \in Clients /\ m.no \in Nat
                      /\ m = Request(m.of, m.no)
    OBVIOUS
  <2>1. PICK c \in Clients, n \in Nat : m = Request(c, n) BY DEF Requests
  <2>2. QED BY <1>1, <2>1 DEF Messages
<1>4. \A n \in Nat : EventMessage(n) \in Messages /\ EventMessage(n) \notin Requests
  BY <1>1, <1>3 DEF Messages
<1>5. \A m \in Messages : m.event \in BOOLEAN /\ (~m.event <=> m \in Requests)
  <2>. SUFFICES ASSUME NEW m \in Messages PROVE m.event \in BOOLEAN /\ (~m.event <=> m \in Requests)
    OBVIOUS
  <2>1. CASE m \in Requests
    <3>1. PICK c \in Clients, n \in Nat : m = Request(c, n) BY <2>1 DEF Requests
    <3>2. m.event = FALSE BY <1>1, <3>1
    <3>3. QED BY <2>1, <3>2
  <2>2. CASE m \notin Requests
    <3>1. PICK n \in Nat : m = EventMessage(n) BY <2>2 DEF Messages
    <3>2. m.event = TRUE BY <1>1, <3>1
    <3>3. QED BY <2>2, <3>2
  <2>3. QED BY <2>1, <2>2
<1>6. \A c, d, n, k : Request(c, n) = Request(d, k) => c = d /\ n = k BY <1>1
<1>7. QED BY <1>2, <1>3, <1>4, <1>5, <1>6

LEMMA CurrentTyped ==
  ASSUME TypeInv, NEW c \in Clients
  PROVE  Current(c) \in Requests /\ call[c].tries \in Nat /\ call[c] \in Calls
BY RequestTyped DEF TypeInv, Calls, Current

LEMMA ServingTyped ==
  ASSUME NEW m \in Messages
  PROVE  Serving(m) \in Servings /\ (Serving(m).stage = "event" <=> m.event) /\ Serving(m).message = m
BY MicroservicesAssumption, RequestTyped DEF Serving, Servings, Todo

\* A message that is sent is under way in one way, or lost.
LEMMA Published ==
  ASSUME NEW m \in Messages, Publish(m)
  PROVE  \/ kind = "memory" /\ serving' = serving \cup {Serving(m)} /\ UNCHANGED <<streams, wire>>
         \/ /\ Sequential /\ streams' = [streams EXCEPT ![StreamOf(m)] = Append(@, m)]
            /\ UNCHANGED <<serving, wire>>
         \/ /\ ~Sequential /\ kind # "memory" /\ wire' \in {wire, wire \cup {m}}
            /\ UNCHANGED <<serving, streams>>
BY DEF Publish, InMemoryCall, RedisAdd, KafkaProduce, TcpFrame, NatsMessage, RmqPublish, OnTheWire,
       Sequential

LEMMA PublishTyped ==
  ASSUME TypeInv, NEW m \in Messages, Publish(m)
  PROVE  /\ streams' \in [Streams -> Seq(Messages)] /\ wire' \subseteq Messages
         /\ serving' \subseteq Servings /\ \A s \in serving' : s.stage = "event" <=> s.message.event
<1>1. StreamOf(m) \in Streams BY DEF StreamOf, Streams
<1>2. CASE kind = "memory" /\ serving' = serving \cup {Serving(m)} /\ UNCHANGED <<streams, wire>>
  BY <1>2, ServingTyped DEF TypeInv
<1>3. CASE Sequential /\ streams' = [streams EXCEPT ![StreamOf(m)] = Append(@, m)]
           /\ UNCHANGED <<serving, wire>>
  BY <1>1, <1>3 DEF TypeInv
<1>4. CASE wire' \in {wire, wire \cup {m}} /\ UNCHANGED <<serving, streams>>
  BY <1>4 DEF TypeInv
<1>5. QED BY <1>2, <1>3, <1>4, Published

LEMMA TypeInit == MicroservicesInit => TypeInv
<1>. SUFFICES ASSUME MicroservicesInit PROVE TypeInv OBVIOUS
<1>1. call \in [Clients -> Calls] BY DEF MicroservicesInit, Calls
<1>2. streams \in [Streams -> Seq(Messages)] BY DEF MicroservicesInit
<1>3. cursor \in [Streams -> Nat \cup {New}] /\ from \in [Streams -> Nat]
  BY DEF MicroservicesInit, NoRead
<1>4. QED BY <1>1, <1>2, <1>3 DEF MicroservicesInit, TypeInv

LEMMA CallChanged ==
  ASSUME NEW r \in Calls, NEW at \in {"idle", "publishing", "waiting", "retry", "ended"}
  PROVE  /\ [r EXCEPT !.at = at, !.tries = @ + 1] \in Calls
         /\ [r EXCEPT !.at = at, !.tries = @ + 1].at = at
         /\ [r EXCEPT !.at = at, !.tries = @ + 1].tries = r.tries + 1
         /\ [r EXCEPT !.at = at, !.tries = @ + 1].got = r.got
<1>1. r.tries + 1 \in Nat BY DEF Calls
<1>2. \A n \in Nat : /\ [r EXCEPT !.at = at, !.tries = n] \in Calls
                     /\ [r EXCEPT !.at = at, !.tries = n].at = at
  BY DEF Calls
<1>3. \A n \in Nat : /\ [r EXCEPT !.at = at, !.tries = n].tries = n
                     /\ [r EXCEPT !.at = at, !.tries = n].got = r.got
  BY DEF Calls
<1>4. QED BY <1>1, <1>2, <1>3

LEMMA AttemptTyped ==
  ASSUME TypeInv, NEW c \in Clients, NEW made, AfterAttempt(c, made)
  PROVE  /\ call' \in [Clients -> Calls]
         /\ call'[c].tries = call[c].tries + 1 /\ call'[c].got = call[c].got
         /\ call'[c].at = IF made THEN (IF kind = "kafka" THEN "publishing" ELSE "waiting")
                          ELSE IF call[c].tries + 1 > Retries[c] THEN "ended" ELSE "retry"
         /\ \A d \in Clients \ {c} : call'[d] = call[d]
<1>. DEFINE at == IF made THEN (IF kind = "kafka" THEN "publishing" ELSE "waiting")
                   ELSE IF call[c].tries + 1 > Retries[c] THEN "ended" ELSE "retry"
<1>1. at \in {"publishing", "waiting", "ended", "retry"} OBVIOUS
<1>2. call' = [call EXCEPT ![c].at = at, ![c].tries = @ + 1] BY DEF AfterAttempt
<1>. HIDE DEF at
<1>3. call \in [Clients -> Calls] /\ call[c] \in Calls BY DEF TypeInv
<1>4. call' = [call EXCEPT ![c] = [call[c] EXCEPT !.at = at, !.tries = @ + 1]]
  BY <1>2, <1>3 DEF Calls
<1>. DEFINE r == [call[c] EXCEPT !.at = at, !.tries = @ + 1]
<1>5. r \in Calls /\ r.at = at /\ r.tries = call[c].tries + 1 /\ r.got = call[c].got
  BY <1>1, <1>3, CallChanged DEF Calls
<1>6. call' = [call EXCEPT ![c] = r] BY <1>4
<1>. HIDE DEF r
<1>7. QED BY <1>3, <1>5, <1>6 DEF at

LEMMA FailsTyped ==
  ASSUME TypeInv, NEW c \in Clients, CallFails(c)
  PROVE  /\ call' \in [Clients -> Calls]
         /\ call'[c].tries = call[c].tries
         /\ \/ LastTry(c) /\ call'[c].at = "ended" /\ call'[c].got = {}
            \/ ~LastTry(c) /\ call'[c].at = "retry" /\ call'[c].got = call[c].got
         /\ \A d \in Clients \ {c} : call'[d] = call[d]
<1>1. call \in [Clients -> Calls] /\ call[c] \in Calls BY DEF TypeInv
<1>2. CASE LastTry(c)
  <2>1. call' = [call EXCEPT ![c].at = "ended", ![c].got = {}] BY <1>2 DEF CallFails, Ends
  <2>2. QED BY <1>1, <1>2, <2>1 DEF Calls
<1>3. CASE ~LastTry(c)
  <2>1. call' = [call EXCEPT ![c].at = "retry"] BY <1>3 DEF CallFails
  <2>2. QED BY <1>1, <1>3, <2>1 DEF Calls
<1>4. QED BY <1>2, <1>3

LEMMA BatchTyped ==
  ASSUME batch \in Batches
  PROVE  \A i \in DOMAIN batch : batch[i] \in Streams \cup {Nothing}
<1>1. CASE \E b \in {"events", Nothing} : batch = <<b>>
  <2>1. PICK b \in {"events", Nothing} : batch = <<b>> BY <1>1
  <2>2. DOMAIN batch = {1} /\ batch[1] = b BY <2>1
  <2>3. QED BY <2>2 DEF Streams
<1>2. CASE \E a \in {"requests", Nothing}, b \in {"events", Nothing} : batch = <<a, b>>
  <2>1. PICK a \in {"requests", Nothing}, b \in {"events", Nothing} : batch = <<a, b>> BY <1>2
  <2>2. DOMAIN batch = {1, 2} /\ batch[1] = a /\ batch[2] = b BY <2>1
  <2>3. QED BY <2>2 DEF Streams
<1>3. CASE batch = <<>> BY <1>3
<1>4. QED BY <1>1, <1>2, <1>3 DEF Batches

\* What the listener takes next is in its stream.
LEMMA BatchHead ==
  ASSUME batch \in Batches, batch # <<>>
  PROVE  /\ Head(batch) \in Streams \cup {Nothing} /\ Head(batch) = batch[1] /\ 1 \in DOMAIN batch
         /\ Tail(batch) \in Batches
         /\ \A i \in DOMAIN Tail(batch) : i + 1 \in DOMAIN batch /\ Tail(batch)[i] = batch[i + 1]
         /\ \A i \in DOMAIN Tail(batch) : Tail(batch)[i] # Nothing => Tail(batch)[i] # Head(batch)
<1>1. CASE \E b \in {"events", Nothing} : batch = <<b>>
  <2>1. PICK b \in {"events", Nothing} : batch = <<b>> BY <1>1
  <2>2. Head(batch) = b /\ Tail(batch) = <<>> BY <2>1
  <2>3. DOMAIN batch = {1} /\ batch[1] = b BY <2>1
  <2>4. DOMAIN Tail(batch) = {} BY <2>2
  <2>5. QED BY <2>1, <2>2, <2>3, <2>4 DEF Batches, Streams
<1>2. CASE \E a \in {"requests", Nothing}, b \in {"events", Nothing} : batch = <<a, b>>
  <2>1. PICK a \in {"requests", Nothing}, b \in {"events", Nothing} : batch = <<a, b>> BY <1>2
  <2>2. Head(batch) = a /\ Tail(batch) = <<b>> BY <2>1
  <2>3. DOMAIN batch = {1, 2} /\ batch[1] = a /\ batch[2] = b BY <2>1
  <2>4. DOMAIN Tail(batch) = {1} /\ Tail(batch)[1] = b
    <3>1. DOMAIN <<b>> = {1} /\ <<b>>[1] = b OBVIOUS
    <3>2. QED BY <2>2, <3>1
  <2>5. QED BY <2>1, <2>2, <2>3, <2>4 DEF Batches, Streams, Nothing
<1>3. QED BY <1>1, <1>2 DEF Batches

LEMMA NextThere ==
  ASSUME TypeInv, BatchThere, batch # <<>>, Head(batch) # Nothing
  PROVE  /\ Head(batch) \in Streams
         /\ from[Head(batch)] + 1 \in DOMAIN streams[Head(batch)]
         /\ streams[Head(batch)][from[Head(batch)] + 1] \in Messages
<1>1. Head(batch) \in Streams /\ Head(batch) = batch[1] /\ 1 \in DOMAIN batch
  BY BatchHead DEF BatchThere
<1>2. Len(streams[Head(batch)]) > from[Head(batch)] BY <1>1 DEF BatchThere
<1>3. streams[Head(batch)] \in Seq(Messages) /\ from[Head(batch)] \in Nat BY <1>1 DEF TypeInv
<1>4. QED BY <1>1, <1>2, <1>3

\* What a step does to the calls: one call is attempted once more, or one begins
\* to wait, ends or fails, or close() ends those that wait, or nothing.
Attempted(c) ==
  /\ call[c].at \in {"idle", "retry"}
  /\ call'[c].tries = call[c].tries + 1 /\ call'[c].got = call[c].got
  /\ call'[c].at \in {"publishing", "waiting", "ended", "retry"}
  /\ call'[c].at = "retry" => call[c].tries + 1 <= Retries[c]
  /\ \A d \in Clients \ {c} : call'[d] = call[d]
BeginsToWait(c) ==
  /\ call[c].at = "publishing" /\ call'[c].at = "waiting"
  /\ call'[c].tries = call[c].tries /\ call'[c].got = call[c].got
  /\ \A d \in Clients \ {c} : call'[d] = call[d]
Answered(c) ==
  /\ call[c].at \in {"publishing", "waiting"} /\ call'[c].tries = call[c].tries
  /\ \/ call'[c].at = "ended" /\ call'[c].got \subseteq {Current(c)}
     \/ call'[c].at = "retry" /\ call'[c].got = call[c].got /\ call[c].tries <= Retries[c]
  /\ \A d \in Clients \ {c} : call'[d] = call[d]
ClosedAll ==
  \A c \in Clients :
    /\ call'[c].tries = call[c].tries /\ call'[c].got = call[c].got
    /\ call'[c].at = call[c].at \/ call'[c].at = "ended"

LEMMA SendAttempts ==
  ASSUME TypeInv, NEW c \in Clients, Send(c) \/ SendRefused(c)
  PROVE  Attempted(c)
<1>1. PICK made : AfterAttempt(c, made) BY DEF Send, SendRefused
<1>2. call[c].tries \in Nat /\ Retries[c] \in Nat BY CurrentTyped, MicroservicesAssumption
<1>3. call[c].at \in {"idle", "retry"} BY DEF Send, SendRefused, Attempt
<1>4. /\ call'[c].tries = call[c].tries + 1 /\ call'[c].got = call[c].got
      /\ call'[c].at = IF made THEN (IF kind = "kafka" THEN "publishing" ELSE "waiting")
                       ELSE IF call[c].tries + 1 > Retries[c] THEN "ended" ELSE "retry"
      /\ \A d \in Clients \ {c} : call'[d] = call[d]
  BY <1>1, AttemptTyped
<1>5. QED BY <1>2, <1>3, <1>4 DEF Attempted

LEMMA FailsAnswers ==
  ASSUME TypeInv, NEW c \in Clients, call[c].at \in {"publishing", "waiting"}, CallFails(c)
  PROVE  Answered(c)
<1>1. call[c].tries \in Nat /\ Retries[c] \in Nat BY CurrentTyped, MicroservicesAssumption
<1>2. QED BY <1>1, FailsTyped DEF Answered, LastTry

LEMMA EndsAnswers ==
  ASSUME TypeInv, NEW c \in Clients, call[c].at \in {"publishing", "waiting"},
         NEW got \in SUBSET {Current(c)}, Ends(c, got)
  PROVE  Answered(c) /\ call' \in [Clients -> Calls]
<1>1. call' = [call EXCEPT ![c].at = "ended", ![c].got = got] BY DEF Ends
<1>2. call \in [Clients -> Calls] /\ got \in SUBSET Requests BY CurrentTyped DEF TypeInv
<1>3. Answered(c) BY <1>1, <1>2 DEF Answered, Calls
<1>4. QED BY <1>1, <1>2, <1>3 DEF Calls

LEMMA ReceiveAnswers ==
  ASSUME TypeInv, NEW r \in replies, Receive(r)
  PROVE  /\ call' \in [Clients -> Calls]
         /\ \E c \in Clients : Answered(c) /\ pending' = pending \ {Current(c)}
<1>1. PICK c \in Addressee(r) : /\ IF r.error THEN CallFails(c) ELSE Ends(c, {r.to})
                                /\ pending' = pending \ {Current(c)}
  BY DEF Receive
<1>2. c \in Clients /\ call[c].at = "waiting" /\ r.to = Current(c) BY DEF Addressee
<1>3. CASE r.error BY <1>1, <1>2, <1>3, FailsAnswers, FailsTyped
<1>4. CASE ~r.error BY <1>1, <1>2, <1>4, EndsAnswers
<1>5. QED BY <1>3, <1>4

LEMMA PublishingMoves ==
  ASSUME TypeInv, NEW c \in Clients, PublishEnds(c)
  PROVE  /\ call' \in [Clients -> Calls]
         /\ \/ BeginsToWait(c) /\ Current(c) \in pending
            \/ Answered(c) /\ Current(c) \notin pending
<1>1. call[c].at = "publishing" BY DEF PublishEnds
<1>2. CASE Current(c) \in pending
  <2>1. call' = [call EXCEPT ![c].at = "waiting"] BY <1>2 DEF PublishEnds
  <2>2. call \in [Clients -> Calls] BY DEF TypeInv
  <2>3. BeginsToWait(c) BY <1>1, <2>1, <2>2 DEF BeginsToWait, Calls
  <2>4. QED BY <1>2, <2>1, <2>2, <2>3 DEF Calls
<1>3. CASE Current(c) \notin pending
  <2>1. \/ Ends(c, {})
        \/ CallFails(c)
        \/ Ends(c, {Current(c)})
    BY <1>3 DEF PublishEnds
  <2>2. CASE CallFails(c) BY <1>1, <1>3, <2>2, FailsAnswers, FailsTyped
  <2>3. CASE Ends(c, {}) \/ Ends(c, {Current(c)})
    <3>1. PICK got \in SUBSET {Current(c)} : Ends(c, got) BY <2>3
    <3>2. QED BY <1>1, <1>3, <3>1, EndsAnswers
  <2>4. QED BY <2>1, <2>2, <2>3
<1>4. QED BY <1>2, <1>3

LEMMA CloseCloses ==
  ASSUME TypeInv, CloseClient
  PROVE  ClosedAll
<1>1. \A c \in Clients : call'[c] = call[c] \/ call'[c] = [call[c] EXCEPT !.at = "ended"]
  BY DEF CloseClient
<1>2. \A c \in Clients : call[c] \in Calls BY DEF TypeInv
<1>3. QED BY <1>1, <1>2 DEF ClosedAll, Calls

LEMMA CallMoves ==
  ASSUME TypeInv, [MicroservicesNext]_msVars
  PROVE  (\E c \in Clients : Attempted(c) \/ BeginsToWait(c) \/ Answered(c)) \/ ClosedAll \/ call' = call
<1>1. ASSUME NEW c \in Clients, TimeOut(c) \/ PublishFails(c)
      PROVE  Answered(c)
  BY <1>1, FailsAnswers DEF TimeOut, PublishFails
<1>2. CASE EmitEvent \/ StartListening \/ CloseServer \/ ListenerRaises
  BY <1>2 DEF EmitEvent, StartListening, CloseServer, ListenerRaises
<1>3. CASE ServerStep
  BY <1>3 DEF ServerStep, StartRead, ReadNothing, ReadSome, TakeNext, BatchDone, TakeOne, Handle,
              Reply, ReplyFails, HandleEvent, EventHandled
<1>4. CASE UNCHANGED msVars BY <1>4 DEF msVars
<1>5. QED
  BY <1>1, <1>2, <1>3, <1>4, SendAttempts, PublishingMoves, ReceiveAnswers, CloseCloses
     DEF MicroservicesNext

LEMMA TypeStep ==
  ASSUME TypeInv, BatchThere, [MicroservicesNext]_msVars
  PROVE  TypeInv'
<1>1. ASSUME NEW c \in Clients, Send(c) PROVE TypeInv'
  <2>1. Request(c, call[c].tries + 1) \in Requests /\ Request(c, call[c].tries + 1) \in Messages
    BY CurrentTyped, RequestTyped
  <2>2. call' \in [Clients -> Calls] BY <1>1, AttemptTyped DEF Send
  <2>3. pending' \subseteq Requests BY <1>1, <2>1 DEF Send, TypeInv
  <2>4. Publish(Request(c, call[c].tries + 1)) BY <1>1 DEF Send
  <2>5. QED BY <1>1, <2>1, <2>2, <2>3, <2>4, PublishTyped DEF Send, TypeInv
<1>2. ASSUME NEW c \in Clients, SendRefused(c) PROVE TypeInv'
  <2>1. Request(c, call[c].tries + 1) \in Requests BY CurrentTyped, RequestTyped
  <2>2. call' \in [Clients -> Calls] BY <1>2, AttemptTyped DEF SendRefused
  <2>3. pending' \subseteq Requests /\ orphans' \subseteq Requests BY <1>2, <2>1 DEF SendRefused, TypeInv
  <2>4. QED BY <1>2, <2>2, <2>3 DEF SendRefused, TypeInv
<1>3. ASSUME NEW c \in Clients, TimeOut(c) PROVE TypeInv'
  <2>1. call' \in [Clients -> Calls] BY <1>3, FailsTyped DEF TimeOut
  <2>2. QED BY <1>3, <2>1 DEF TimeOut, PendingAfter, TypeInv
<1>4. ASSUME NEW r \in replies, Receive(r) PROVE TypeInv'
  <2>1. call' \in [Clients -> Calls] /\ \E c \in Clients : pending' = pending \ {Current(c)}
    BY <1>4, ReceiveAnswers
  <2>2. QED BY <1>4, <2>1 DEF Receive, TypeInv
<1>5. CASE EmitEvent
  <2>1. events + 1 \in Nat BY DEF TypeInv
  <2>2. EventMessage(events + 1) \in Messages BY <2>1, RequestTyped
  <2>3. Publish(EventMessage(events + 1)) BY <1>5 DEF EmitEvent
  <2>4. QED BY <1>5, <2>1, <2>2, <2>3, PublishTyped DEF EmitEvent, TypeInv
<1>6. CASE CloseClient
  <2>1. \A c \in Clients : [call[c] EXCEPT !.at = "ended"] \in Calls BY DEF TypeInv, Calls
  <2>2. call' \in [Clients -> Calls] BY <1>6, <2>1 DEF CloseClient, TypeInv
  <2>3. QED BY <1>6, <2>2 DEF CloseClient, TypeInv
<1>7. CASE StartListening
  <2>1. cursor' \in [Streams -> Nat \cup {New}] BY <1>7 DEF StartListening, TypeInv
  <2>2. server' \in [up: BOOLEAN, listens: Nat] /\ server'.listens > 0 BY <1>7 DEF StartListening, TypeInv
  <2>3. QED BY <1>7, <2>1, <2>2 DEF StartListening, TypeInv
<1>8. CASE CloseServer
  <2>1. wire' \subseteq Messages BY <1>8 DEF CloseServer, TypeInv, Servings
  <2>2. server' \in [up: BOOLEAN, listens: Nat] /\ ~server'.up BY <1>8 DEF CloseServer, TypeInv
  <2>3. QED BY <1>8, <2>1, <2>2 DEF CloseServer, TypeInv, NoRead
<1>9. CASE StartRead
  <2>1. \A s \in Streams : Len(streams[s]) \in Nat BY DEF TypeInv
  <2>2. from' \in [Streams -> Nat] BY <1>9, <2>1 DEF StartRead, TypeInv
  <2>3. QED BY <1>9, <2>2 DEF StartRead, TypeInv
<1>10. CASE ReadNothing \/ ReadSome \/ BatchDone \/ ListenerRaises
  BY <1>10 DEF ReadNothing, ReadSome, BatchDone, ListenerRaises, TypeInv, NoRead
<1>11. CASE TakeOne
  <2>1. PICK m \in wire : wire' = wire \ {m} /\ serving' = serving \cup {Serving(m)}
    BY <1>11 DEF TakeOne
  <2>2. QED BY <1>11, <2>1, ServingTyped DEF TakeOne, TypeInv
<1>12. ASSUME NEW s \in serving, Handle(s) PROVE TypeInv'
  <2>1. PICK stage \in {"result", "error"} : serving' = (serving \ {s}) \cup {[s EXCEPT !.stage = stage]}
    BY <1>12 DEF Handle
  <2>2. s \in Servings /\ s.stage = "handler" /\ ~s.message.event
    BY <1>12, RequestTyped DEF Handle, TypeInv, Servings
  <2>3. s.message \in Requests /\ s.message.of \in Clients BY <2>2, RequestTyped DEF Servings
  <2>4. ran' \in [Clients -> Nat]
    <3>1. ran' = [ran EXCEPT ![s.message.of] = @ + 1] BY <1>12 DEF Handle
    <3>2. ran \in [Clients -> Nat] BY DEF TypeInv
    <3>3. QED BY <2>3, <3>1, <3>2
  <2>5. [s EXCEPT !.stage = stage] \in Servings /\ [s EXCEPT !.stage = stage].message = s.message
        /\ [s EXCEPT !.stage = stage].stage = stage
    BY <2>1, <2>2 DEF Servings
  <2>6. QED BY <1>12, <2>1, <2>2, <2>4, <2>5 DEF Handle, TypeInv
<1>13. ASSUME NEW s \in serving, Reply(s) PROVE TypeInv'
  <2>1. \A e : [to |-> s.message, error |-> e].to = s.message OBVIOUS
  <2>2. s.message \in Messages BY DEF TypeInv, Servings
  <2>3. QED BY <1>13, <2>1, <2>2 DEF Reply, TypeInv
<1>14. ASSUME NEW s \in serving, HandleEvent(s) PROVE TypeInv'
  <2>1. PICK raised \in {0, 1} :
          serving' = (serving \ {s}) \cup {[s EXCEPT !.todo = Tail(@), !.errors = @ + raised]}
    BY <1>14 DEF HandleEvent
  <2>2. s \in Servings /\ s.todo # <<>> BY <1>14 DEF HandleEvent, TypeInv
  <2>3. Tail(s.todo) \in Seq(Range(EventHandlers)) /\ s.errors + raised \in Nat
    BY <2>2 DEF Servings
  <2>4. /\ [s EXCEPT !.todo = Tail(@), !.errors = @ + raised] \in Servings
        /\ [s EXCEPT !.todo = Tail(@), !.errors = @ + raised].message = s.message
        /\ [s EXCEPT !.todo = Tail(@), !.errors = @ + raised].stage = s.stage
    BY <2>2, <2>3 DEF Servings
  <2>5. QED BY <1>14, <2>1, <2>4 DEF HandleEvent, TypeInv
<1>15. ASSUME NEW s \in serving, EventHandled(s) \/ ReplyFails(s) PROVE TypeInv'
  BY <1>15 DEF EventHandled, ReplyFails, LoopAfter, TypeInv
<1>16. CASE UNCHANGED msVars BY <1>16 DEF msVars, TypeInv
<1>17. CASE TakeNext
  <2>1. CASE Head(batch) = Nothing BY <1>17, <2>1 DEF TakeNext, TypeInv
  <2>2. CASE Head(batch) # Nothing
    <3>1. PICK s \in Streams : s = Head(batch) /\ streams[s][from[s] + 1] \in Messages
      BY <1>17, <2>2, NextThere DEF TakeNext
    <3>2. /\ serving' = {Serving(streams[s][from[s] + 1])}
          /\ cursor' = [cursor EXCEPT ![s] = from[s] + 1]
      BY <1>17, <2>2, <3>1 DEF TakeNext, ReadNext
    <3>3. cursor' \in [Streams -> Nat \cup {New}] BY <3>2 DEF TypeInv
    <3>4. QED BY <1>17, <3>1, <3>2, <3>3, ServingTyped DEF TakeNext, TypeInv
  <2>3. QED BY <2>1, <2>2
<1>18. ASSUME NEW c \in Clients, PublishEnds(c) PROVE TypeInv'
  <2>1. call' \in [Clients -> Calls] BY <1>18, PublishingMoves
  <2>2. replies' \subseteq replies BY <1>18 DEF PublishEnds, Forget
  <2>3. QED BY <1>18, <2>1, <2>2 DEF PublishEnds, TypeInv
<1>19. ASSUME NEW c \in Clients, PublishFails(c) PROVE TypeInv'
  <2>1. call' \in [Clients -> Calls] BY <1>19, FailsTyped DEF PublishFails
  <2>2. replies' \subseteq replies /\ orphans' \subseteq Requests
    BY <1>19 DEF PublishFails, Forget, TypeInv
  <2>3. QED BY <1>19, <2>1, <2>2 DEF PublishFails, TypeInv
<1>20. QED
  BY <1>1, <1>2, <1>3, <1>4, <1>5, <1>6, <1>7, <1>8, <1>9, <1>10, <1>11, <1>12, <1>13, <1>14, <1>15,
     <1>16, <1>17, <1>18, <1>19 DEF MicroservicesNext, ServerStep

-----------------------------------------------------------------------------
LEMMA CallStep ==
  ASSUME TypeInv, TypeInv', CallInv, [MicroservicesNext]_msVars
  PROVE  CallInv' /\ \A c \in Clients : call'[c].tries >= call[c].tries
<1>0. \A c \in Clients : Retries[c] \in Nat BY MicroservicesAssumption
<1>1. \A c \in Clients : /\ Current(c) = Request(c, call[c].tries) /\ call[c].tries \in Nat
                         /\ Current(c)' = Request(c, call'[c].tries)
  BY CurrentTyped DEF Current
<1>2. ASSUME NEW c \in Clients, Attempted(c) PROVE CallInv' /\ \A d \in Clients : call'[d].tries >= call[d].tries
  <2>1. call[c].tries <= Retries[c] BY <1>0, <1>1, <1>2 DEF CallInv, Attempted
  <2>2. QED BY <1>0, <1>1, <1>2, <2>1 DEF CallInv, Attempted
<1>3. ASSUME NEW c \in Clients, Answered(c) PROVE CallInv' /\ \A d \in Clients : call'[d].tries >= call[d].tries
  BY <1>0, <1>1, <1>3 DEF CallInv, Answered
<1>4. ASSUME NEW c \in Clients, BeginsToWait(c) PROVE CallInv' /\ \A d \in Clients : call'[d].tries >= call[d].tries
  BY <1>0, <1>1, <1>4 DEF CallInv, BeginsToWait
<1>5. CASE ClosedAll BY <1>0, <1>1, <1>5 DEF CallInv, ClosedAll
<1>6. CASE call' = call BY <1>1, <1>6 DEF CallInv
<1>7. QED BY <1>2, <1>3, <1>4, <1>5, <1>6, CallMoves

\* What a message is, when it is sent, it is in one place at most.
LEMMA NumberedStep ==
  ASSUME TypeInv, TypeInv', BatchThere, CallInv, Numbered, [MicroservicesNext]_msVars
  PROVE  Numbered'
<1>1. \A m \in Messages : Made(m) => Made(m)'
  <2>1. \A m \in Messages : ~m.event => m.of \in Clients BY RequestTyped
  <2>2. \A c \in Clients : call[c].tries \in Nat /\ call'[c].tries \in Nat
                           /\ call'[c].tries >= call[c].tries
    BY CallStep DEF TypeInv, Calls
  <2>3. QED BY <2>1, <2>2, RequestTyped DEF Made
<1>2. /\ wire \subseteq Messages /\ \A s \in serving : s.message \in Messages
      /\ streams["requests"] \in Seq(Messages)
  BY DEF TypeInv, Servings, Streams
<1>3. ASSUME \A m \in wire' : m \in wire \/ \E s \in serving : s.message = m, \A s \in serving' : \E t \in serving : s.message = t.message,
             streams' = streams
      PROVE  Numbered'
  BY <1>1, <1>2, <1>3 DEF Numbered
<1>4. ASSUME NEW m \in Messages, Made(m)', Publish(m) PROVE Numbered'
  <2>1. CASE kind = "memory" /\ serving' = serving \cup {Serving(m)} /\ UNCHANGED <<streams, wire>>
    BY <1>1, <1>2, <1>4, <2>1, ServingTyped DEF Numbered
  <2>2. CASE Sequential /\ streams' = [streams EXCEPT ![StreamOf(m)] = Append(@, m)]
           /\ UNCHANGED <<serving, wire>>
    <3>1. \/ streams'["requests"] = streams["requests"]
          \/ streams'["requests"] = Append(streams["requests"], m)
      BY <2>2 DEF StreamOf, Streams, TypeInv
    <3>2. \A p \in DOMAIN streams'["requests"] :
            \/ p \in DOMAIN streams["requests"] /\ streams'["requests"][p] = streams["requests"][p]
            \/ streams'["requests"][p] = m
      BY <1>2, <3>1
    <3>3. /\ streams["events"] \in Seq(Messages)
          /\ \/ streams'["events"] = streams["events"]
             \/ streams'["events"] = Append(streams["events"], m) /\ m.event
      BY <2>2 DEF StreamOf, Streams, TypeInv
    <3>4. \A p \in DOMAIN streams'["events"] :
            \/ p \in DOMAIN streams["events"] /\ streams'["events"][p] = streams["events"][p]
            \/ streams'["events"][p] = m /\ m.event
      BY <3>3
    <3>5. QED BY <1>1, <1>2, <1>4, <2>2, <3>2, <3>4 DEF Numbered
  <2>3. CASE wire' \in {wire, wire \cup {m}} /\ UNCHANGED <<serving, streams>>
    BY <1>1, <1>2, <1>4, <2>3 DEF Numbered
  <2>4. QED BY <1>4, <2>1, <2>2, <2>3, Published
<1>5. ASSUME NEW c \in Clients, Send(c) PROVE Numbered'
  <2>1. PICK m : m = Request(c, call[c].tries + 1) /\ Publish(m) BY <1>5 DEF Send
  <2>2. m \in Messages /\ m.of = c /\ m.no = call[c].tries + 1 /\ call[c].tries \in Nat
    BY <2>1, CurrentTyped, RequestTyped DEF Request
  <2>3. call'[c].tries = call[c].tries + 1 BY <1>5, SendAttempts DEF Attempted
  <2>4. Made(m)' BY <2>2, <2>3 DEF Made
  <2>5. QED BY <1>4, <2>1, <2>2, <2>4
<1>6. CASE EmitEvent
  <2>1. EventMessage(events + 1) \in Messages /\ EventMessage(events + 1).event
    BY RequestTyped DEF TypeInv, EventMessage
  <2>2. QED BY <1>4, <1>6, <2>1 DEF EmitEvent, Made
<1>7. ASSUME NEW c \in Clients, SendRefused(c) \/ PublishEnds(c) \/ PublishFails(c) \/ TimeOut(c)
      PROVE  Numbered'
  BY <1>3, <1>7 DEF SendRefused, PublishEnds, PublishFails, TimeOut
<1>8. ASSUME NEW r \in replies, Receive(r) PROVE Numbered' BY <1>3, <1>8 DEF Receive
<1>9. CASE CloseClient \/ StartListening \/ CloseServer \/ ListenerRaises
  BY <1>3, <1>9 DEF CloseClient, StartListening, CloseServer, ListenerRaises
<1>10. CASE StartRead \/ ReadNothing \/ ReadSome \/ BatchDone
  BY <1>3, <1>10 DEF StartRead, ReadNothing, ReadSome, BatchDone
<1>11. CASE TakeNext
  <2>1. CASE Head(batch) = Nothing BY <1>3, <1>11, <2>1 DEF TakeNext
  <2>2. CASE Head(batch) # Nothing
    <3>1. PICK s \in Streams : /\ s = Head(batch) /\ from[s] + 1 \in DOMAIN streams[s]
                               /\ streams[s][from[s] + 1] \in Messages
      BY <1>11, <2>2, NextThere DEF TakeNext
    <3>2. serving' = {Serving(streams[s][from[s] + 1])} /\ wire' = wire /\ streams' = streams
      BY <1>11, <2>2, <3>1 DEF TakeNext
    <3>3. Made(streams[s][from[s] + 1])
      BY <3>1 DEF Numbered, Made, Streams
    <3>4. QED BY <1>1, <1>2, <3>1, <3>2, <3>3, ServingTyped DEF Numbered
  <2>3. QED BY <2>1, <2>2
<1>12. CASE TakeOne
  <2>1. PICK m \in wire : wire' = wire \ {m} /\ serving' = serving \cup {Serving(m)}
    BY <1>12 DEF TakeOne
  <2>2. QED BY <1>1, <1>2, <1>12, <2>1, ServingTyped DEF TakeOne, Numbered
<1>13. ASSUME NEW s \in serving, Handle(s) \/ HandleEvent(s) \/ Reply(s) \/ ReplyFails(s) \/ EventHandled(s)
       PROVE  Numbered'
  <2>1. \A t \in serving' : \E u \in serving : t.message = u.message
    <3>1. s \in Servings BY DEF TypeInv
    <3>2. \A g, d, e : /\ [s EXCEPT !.stage = g].message = s.message
                       /\ [s EXCEPT !.todo = d, !.errors = e].message = s.message
      BY <3>1 DEF Servings
    <3>3. CASE Handle(s) BY <3>2, <3>3 DEF Handle
    <3>4. CASE HandleEvent(s)
      <4>1. PICK raised \in {0, 1} :
              serving' = (serving \ {s}) \cup {[s EXCEPT !.todo = Tail(@), !.errors = @ + raised]}
        BY <3>4 DEF HandleEvent
      <4>2. [s EXCEPT !.todo = Tail(@), !.errors = @ + raised].message = s.message
        BY <3>1 DEF Servings
      <4>3. QED BY <4>1, <4>2
    <3>5. CASE Reply(s) \/ ReplyFails(s) \/ EventHandled(s) BY <3>5 DEF Reply, ReplyFails, EventHandled
    <3>6. QED BY <1>13, <3>3, <3>4, <3>5
  <2>2. QED BY <1>3, <1>13, <2>1 DEF Handle, HandleEvent, Reply, ReplyFails, EventHandled
<1>14. CASE UNCHANGED msVars BY <1>3, <1>14 DEF msVars
<1>15. QED
  BY <1>5, <1>6, <1>7, <1>8, <1>9, <1>10, <1>11, <1>12, <1>13, <1>14
     DEF MicroservicesNext, ServerStep

-----------------------------------------------------------------------------
\* PendingAwaited, a call and a message at a time.
Sent(m) == \E p \in DOMAIN streams["requests"] : streams["requests"][p] = m
Awaits(c) == call[c].at = "waiting"
Calling(c) == call[c].at \in {"publishing", "waiting"}
PendingEach ==
  kind = "kafka" =>
    /\ \A c \in Clients : Awaits(c) => Current(c) \in pending
    /\ \A m \in pending : m \in orphans \/ \E c \in Clients : Calling(c) /\ m = Current(c)

LEMMA PendingSame == PendingEach <=> PendingAwaited
BY DEF PendingEach, PendingAwaited, Awaits, Calling

LEMMA KindKept == [MicroservicesNext]_msVars => kind' = kind
<1>1. ServerStep => kind' = kind
  BY DEF ServerStep, StartRead, ReadNothing, ReadSome, TakeNext, BatchDone, TakeOne, Handle,
         Reply, ReplyFails, HandleEvent, EventHandled
<1>2. QED
  BY <1>1 DEF MicroservicesNext, msVars, Send, SendRefused, PublishEnds, PublishFails, TimeOut, Receive,
              EmitEvent, CloseClient, StartListening, CloseServer, ListenerRaises

LEMMA PendingStep ==
  ASSUME TypeInv, TypeInv', PendingEach, [MicroservicesNext]_msVars
  PROVE  PendingEach'
<1>1. \A c \in Clients : /\ Current(c) = Request(c, call[c].tries) /\ call[c].tries \in Nat
                         /\ Current(c)' = Request(c, call'[c].tries)
  BY CurrentTyped DEF Current
<1>2. \A c, d \in Clients : Current(c) = Current(d) => c = d BY <1>1, RequestTyped
<1>3. kind' = kind BY KindKept
<1>. SUFFICES ASSUME kind = "kafka" PROVE PendingEach' BY <1>3 DEF PendingEach
<1>4. ASSUME NEW c \in Clients, \A d \in Clients \ {c} : call'[d] = call[d]
      PROVE  \A d \in Clients \ {c} : /\ Current(d)' = Current(d)
                                      /\ (Awaits(d)' <=> Awaits(d)) /\ (Calling(d)' <=> Calling(d))
  BY <1>4 DEF Current, Awaits, Calling
<1>5. ASSUME NEW c \in Clients, Send(c) PROVE PendingEach'
  <2>1. PICK m : m = Request(c, call[c].tries + 1) /\ pending' = pending \cup {m} /\ orphans' = orphans
    BY <1>5 DEF Send
  <2>2. AfterAttempt(c, TRUE) BY <1>5 DEF Send, Reaches, Sequential
  <2>3. /\ call'[c].at = "publishing" /\ call'[c].tries = call[c].tries + 1
        /\ \A d \in Clients \ {c} : call'[d] = call[d]
    BY <2>2, AttemptTyped
  <2>4. Current(c)' = m /\ ~Awaits(c)' /\ Calling(c)' BY <1>1, <2>1, <2>3 DEF Awaits, Calling
  <2>5. ~Calling(c) BY <1>5 DEF Send, Attempt, Calling
  <2>6. QED BY <1>4, <2>1, <2>3, <2>4, <2>5 DEF PendingEach
<1>6. ASSUME NEW c \in Clients, SendRefused(c) PROVE PendingEach'
  <2>1. PICK m : pending' = pending \cup {m} /\ orphans' = orphans \cup {m}
    BY <1>6 DEF SendRefused
  <2>2. AfterAttempt(c, FALSE) BY <1>6 DEF SendRefused
  <2>3. call'[c].at \in {"ended", "retry"} /\ \A d \in Clients \ {c} : call'[d] = call[d]
    BY <2>2, AttemptTyped
  <2>4. ~Awaits(c)' /\ ~Calling(c) BY <1>6, <2>3 DEF SendRefused, Attempt, Awaits, Calling
  <2>5. QED BY <1>4, <2>1, <2>3, <2>4 DEF PendingEach
<1>7. ASSUME NEW c \in Clients, PublishEnds(c) PROVE PendingEach'
  <2>1. UNCHANGED <<pending, orphans>> BY <1>7 DEF PublishEnds
  <2>2. CASE BeginsToWait(c) /\ Current(c) \in pending
    <3>1. Current(c)' = Current(c) /\ Calling(c)' BY <1>1, <2>2 DEF BeginsToWait, Calling
    <3>2. QED BY <1>4, <2>1, <2>2, <3>1 DEF PendingEach, BeginsToWait
  <2>3. CASE Answered(c) /\ Current(c) \notin pending
    <3>1. ~Awaits(c)' BY <2>3 DEF Answered, Awaits
    <3>2. QED BY <1>4, <2>1, <2>3, <3>1 DEF PendingEach, Answered
  <2>4. QED BY <1>7, <2>2, <2>3, PublishingMoves
<1>8. ASSUME NEW c \in Clients, PublishFails(c) PROVE PendingEach'
  <2>1. pending' = pending /\ orphans' = orphans \cup ({Current(c)} \cap pending) BY <1>8 DEF PublishFails
  <2>2. Answered(c) BY <1>8, FailsAnswers DEF PublishFails
  <2>3. ~Awaits(c)' BY <2>2 DEF Answered, Awaits
  <2>4. QED BY <1>4, <2>1, <2>2, <2>3 DEF PendingEach, Answered
<1>9. ASSUME NEW c \in Clients, Answered(c), pending' = pending \ {Current(c)}, orphans' = orphans
      PROVE  PendingEach'
  <2>1. ~Awaits(c)' BY <1>9 DEF Answered, Awaits
  <2>2. QED BY <1>2, <1>4, <1>9, <2>1 DEF PendingEach, Answered
<1>10. ASSUME NEW c \in Clients, TimeOut(c) PROVE PendingEach'
  BY <1>9, <1>10, FailsAnswers DEF TimeOut, PendingAfter
<1>11. ASSUME NEW r \in replies, Receive(r) PROVE PendingEach'
  BY <1>9, <1>11, ReceiveAnswers DEF Receive
<1>12. CASE CloseClient
  <2>1. ASSUME NEW c \in Clients, Awaits(c) PROVE ~Awaits(c)'
    <3>1. Current(c) \in pending BY <2>1 DEF PendingEach
    <3>2. call'[c] = [call[c] EXCEPT !.at = "ended"] BY <1>12, <2>1, <3>1 DEF CloseClient, Awaits
    <3>3. call[c] \in Calls BY DEF TypeInv
    <3>4. QED BY <3>2, <3>3 DEF Calls, Awaits
  <2>2. \A c \in Clients : Awaits(c)' => Awaits(c) BY <1>12, CloseCloses DEF ClosedAll, Awaits
  <2>3. pending' = {} BY <1>12 DEF CloseClient
  <2>4. QED BY <2>1, <2>2, <2>3 DEF PendingEach
<1>13. CASE UNCHANGED <<call, pending, orphans>>
  <2>1. \A c : Current(c)' = Current(c) /\ Awaits(c)' = Awaits(c) /\ Calling(c)' = Calling(c)
    BY <1>13 DEF Current, Awaits, Calling
  <2>2. QED BY <1>13, <2>1 DEF PendingEach
<1>14. CASE EmitEvent \/ StartListening \/ CloseServer \/ ListenerRaises \/ UNCHANGED msVars
  BY <1>13, <1>14 DEF EmitEvent, StartListening, CloseServer, ListenerRaises, msVars
<1>15. CASE ServerStep
  BY <1>13, <1>15 DEF ServerStep, StartRead, ReadNothing, ReadSome, TakeNext, BatchDone, TakeOne, Handle,
              Reply, ReplyFails, HandleEvent, EventHandled
<1>16. QED
  BY <1>5, <1>6, <1>7, <1>8, <1>10, <1>11, <1>12, <1>14, <1>15 DEF MicroservicesNext

-----------------------------------------------------------------------------
\* Streams only grow.
LEMMA StreamsGrow ==
  ASSUME TypeInv, [MicroservicesNext]_msVars
  PROVE  \A s \in Streams : /\ Len(streams'[s]) >= Len(streams[s])
                            /\ \A p \in DOMAIN streams[s] : streams'[s][p] = streams[s][p]
<1>1. \A s \in Streams : streams[s] \in Seq(Messages) BY DEF TypeInv
<1>2. CASE streams' = streams BY <1>1, <1>2
<1>3. ASSUME NEW m \in Messages, Publish(m)
      PROVE  \A s \in Streams : /\ Len(streams'[s]) >= Len(streams[s])
                                /\ \A p \in DOMAIN streams[s] : streams'[s][p] = streams[s][p]
  <2>1. CASE streams' = [streams EXCEPT ![StreamOf(m)] = Append(@, m)]
    <3>1. \A s \in Streams : streams'[s] = streams[s] \/ streams'[s] = Append(streams[s], m)
      BY <2>1 DEF TypeInv
    <3>2. QED BY <1>1, <3>1
  <2>2. QED BY <1>2, <1>3, <2>1, Published
<1>4. ASSUME NEW c \in Clients, Send(c)
      PROVE  \A s \in Streams : /\ Len(streams'[s]) >= Len(streams[s])
                                /\ \A p \in DOMAIN streams[s] : streams'[s][p] = streams[s][p]
  <2>1. PICK m : m = Request(c, call[c].tries + 1) /\ Publish(m) BY <1>4 DEF Send
  <2>2. m \in Messages BY <2>1, CurrentTyped, RequestTyped
  <2>3. QED BY <1>3, <2>1, <2>2
<1>5. CASE EmitEvent
  <2>1. EventMessage(events + 1) \in Messages BY RequestTyped DEF TypeInv
  <2>2. QED BY <1>3, <1>5, <2>1 DEF EmitEvent
<1>6. ServerStep => streams' = streams
  BY DEF ServerStep, StartRead, ReadNothing, ReadSome, TakeNext, BatchDone, TakeOne, Handle,
         Reply, ReplyFails, HandleEvent, EventHandled
<1>7. QED
  BY <1>2, <1>4, <1>5, <1>6
     DEF MicroservicesNext, msVars, SendRefused, PublishEnds, PublishFails, TimeOut, Receive,
         CloseClient, StartListening, CloseServer, ListenerRaises

\* A read begins at the cursor, and the listener takes what it read in order.
LEMMA ReadStep ==
  ASSUME TypeInv, TypeInv', ReadInv, IdleInv, [MicroservicesNext]_msVars
  PROVE  ReadInv'
<1>. USE DEF ReadInv
<1>1. \A s \in Streams : /\ cursor[s] \in Nat \cup {New} /\ from[s] \in Nat
                         /\ Len(streams[s]) \in Nat /\ Len(streams'[s]) \in Nat
                         /\ Len(streams'[s]) >= Len(streams[s])
  BY StreamsGrow DEF TypeInv
<1>2. batch \in Batches /\ \A i \in DOMAIN batch : batch[i] \in Streams \cup {Nothing}
  BY BatchTyped DEF BatchThere
<1>3. ASSUME UNCHANGED <<cursor, handled, from, batch, loop, server>>
      PROVE  ReadInv'
  BY <1>1, <1>2, <1>3 DEF BatchThere, NothingSkipped, ReadOn
<1>4. ASSUME UNCHANGED <<cursor, handled>>, batch' = <<>>, loop' \notin {"reading"},
             loop' = "none" \/ server'.up
      PROVE  ReadInv'
  BY <1>4 DEF BatchThere, Batches, NothingSkipped, ReadOn
<1>5. CASE StartListening
  <2>1. batch' = batch /\ from' = from /\ loop' = "idle" /\ handled' = {} /\ server'.up
        /\ batch = <<>>
    BY <1>5 DEF StartListening
  <2>2. BatchThere' BY <1>1, <1>2, <2>1 DEF BatchThere
  <2>3. QED BY <2>1, <2>2 DEF NothingSkipped
<1>6. CASE StartRead
  <2>1. batch' = batch /\ loop' = "reading" /\ cursor' = cursor /\ handled' = handled
        /\ server' = server /\ loop = "idle"
    BY <1>6 DEF StartRead
  <2>2. \A s \in Streams : ReadOn(s)' BY <1>6 DEF StartRead, ReadOn
  <2>3. batch = <<>> BY <1>6 DEF StartRead
  <2>4. QED BY <2>1, <2>2, <2>3 DEF BatchThere, Batches, NothingSkipped
<1>7. CASE ReadSome
  <2>. DEFINE a == IF Unread("requests") THEN "requests" ELSE Nothing
              b == IF Unread("events") THEN "events" ELSE Nothing
  <2>1. batch' = <<a, b>> BY <1>7 DEF ReadSome
  <2>2. batch' \in Batches /\ DOMAIN batch' = 1..2 /\ batch'[1] = a /\ batch'[2] = b
    BY <2>1 DEF Batches
  <2>3. \A i \in DOMAIN batch' : batch'[i] # Nothing => batch'[i] \in Streams /\ Unread(batch'[i])
    BY <2>2 DEF Streams
  <2>4. UNCHANGED <<streams, from, cursor, handled>> /\ loop = "reading" /\ loop' = "handling"
        /\ server' = server
    BY <1>7 DEF ReadSome
  <2>5. BatchThere' BY <1>1, <2>2, <2>3, <2>4 DEF BatchThere, Unread
  <2>6. QED BY <2>3, <2>4, <2>5 DEF ReadOn, NothingSkipped
<1>8. CASE TakeNext
  <2>1. /\ loop = "handling" /\ loop' = loop /\ batch # <<>> /\ batch' = Tail(batch)
        /\ UNCHANGED <<streams, from>>
    BY <1>8 DEF TakeNext
  <2>2. /\ batch' \in Batches /\ 1 \in DOMAIN batch /\ Head(batch) = batch[1]
        /\ Head(batch) \in Streams \cup {Nothing}
        /\ \A i \in DOMAIN batch' : i + 1 \in DOMAIN batch /\ batch'[i] = batch[i + 1]
        /\ \A i \in DOMAIN batch' : batch'[i] # Nothing => batch'[i] # Head(batch)
    BY <1>2, <2>1, BatchHead
  <2>3. BatchThere' BY <2>1, <2>2 DEF BatchThere
  <2>4. CASE Head(batch) = Nothing
    <3>1. UNCHANGED <<cursor, handled>> BY <1>8, <2>4 DEF TakeNext
    <3>2. QED BY <1>8, <2>1, <2>2, <2>3, <3>1 DEF TakeNext, ReadOn, NothingSkipped
  <2>5. CASE Head(batch) # Nothing
    <3>1. PICK s \in Streams : s = Head(batch) BY <2>2, <2>5
    <3>2. /\ cursor' = [cursor EXCEPT ![s] = from[s] + 1]
          /\ handled' = handled \cup {[stream |-> s, position |-> from[s] + 1]}
      BY <1>8, <2>5, <3>1 DEF TakeNext, ReadNext
    <3>3. cursor'[s] = from[s] + 1 /\ \A u \in Streams \ {s} : cursor'[u] = cursor[u]
      BY <3>2 DEF TypeInv
    <3>4. from[s] + 1 \in Nat /\ from[s] + 1 # New BY <1>1 DEF New
    <3>5. \A i \in DOMAIN batch' : batch'[i] # Nothing =>
            (cursor'[batch'[i]] # New => from'[batch'[i]] = cursor'[batch'[i]])
      BY <1>2, <2>1, <2>2, <3>1, <3>3 DEF ReadOn
    <3>6. \A h \in handled' : h.stream \in Streams /\ h.position \in Nat /\ cursor'[h.stream] # New
      BY <3>2, <3>3, <3>4
    <3>7. ReadOn(s) BY <2>1, <2>2, <3>1, <2>5
    <3>8. NothingSkipped'
      <4>. SUFFICES ASSUME NEW h \in handled', NEW u \in Streams, h.stream = u, cursor'[u] # New,
                           NEW p \in h.position .. cursor'[u]
                    PROVE  [stream |-> u, position |-> p] \in handled'
        BY DEF NothingSkipped
      <4>1. CASE u # s BY <3>2, <3>3, <4>1 DEF NothingSkipped
      <4>2. CASE u = s /\ h \in handled
        <5>1. cursor[s] # New /\ cursor[s] = from[s] BY <3>7, <4>2 DEF ReadOn
        <5>2. p \in h.position .. cursor[s] \/ p = from[s] + 1
          BY <1>1, <3>3, <4>2, <5>1
        <5>3. QED BY <3>2, <4>2, <5>1, <5>2 DEF NothingSkipped
      <4>3. CASE u = s /\ h = [stream |-> s, position |-> from[s] + 1]
        <5>1. p = from[s] + 1 BY <1>1, <3>3, <4>3
        <5>2. QED BY <3>2, <4>3, <5>1
      <4>4. QED BY <3>2, <4>1, <4>2, <4>3
    <3>9. QED BY <1>8, <2>1, <2>3, <3>5, <3>6, <3>8 DEF TakeNext, ReadOn
  <2>6. QED BY <2>4, <2>5
<1>9. CASE BatchDone \/ ReadNothing
  <2>1. loop' = "idle" /\ UNCHANGED <<cursor, handled, batch, streams, server>> /\ from' = NoRead
        /\ loop # "none"
    BY <1>9 DEF BatchDone, ReadNothing
  <2>2. batch = <<>> BY <1>9 DEF BatchDone, ReadNothing
  <2>3. QED BY <2>1, <2>2 DEF BatchThere, NothingSkipped
<1>10. CASE CloseServer \/ ListenerRaises BY <1>4, <1>10 DEF CloseServer, ListenerRaises
<1>11. ASSUME NEW c \in Clients, Send(c) \/ SendRefused(c) \/ PublishEnds(c) \/ PublishFails(c) \/ TimeOut(c)
       PROVE  ReadInv'
  BY <1>3, <1>11 DEF Send, SendRefused, PublishEnds, PublishFails, TimeOut
<1>12. CASE EmitEvent \/ CloseClient \/ TakeOne
  BY <1>3, <1>12 DEF EmitEvent, CloseClient, TakeOne
<1>13. ASSUME NEW s \in serving, Handle(s) \/ Reply(s) \/ HandleEvent(s) \/ EventHandled(s)
       PROVE  ReadInv'
  BY <1>3, <1>13 DEF Handle, Reply, ReplyFails, HandleEvent, EventHandled, LoopAfter
<1>14. ASSUME NEW r \in replies, Receive(r) PROVE ReadInv' BY <1>3, <1>14 DEF Receive
<1>15. CASE UNCHANGED msVars BY <1>3, <1>15 DEF msVars
<1>16. ASSUME NEW s \in serving, ReplyFails(s) PROVE ReadInv'
  <2>1. UNCHANGED <<cursor, handled, from, server>> BY <1>16 DEF ReplyFails
  <2>2. CASE Sequential
    <3>1. server.up BY <2>2 DEF IdleInv
    <3>2. loop' = "dead" /\ batch' = <<>> BY <1>16, <2>2 DEF ReplyFails
    <3>3. QED BY <1>4, <2>1, <3>1, <3>2
  <2>3. CASE ~Sequential
    <3>1. UNCHANGED <<loop, batch>> BY <1>16, <2>3 DEF ReplyFails
    <3>2. QED BY <1>3, <2>1, <3>1
  <2>4. QED BY <2>2, <2>3
<1>17. QED
  BY <1>5, <1>6, <1>7, <1>8, <1>9, <1>10, <1>11, <1>12, <1>13, <1>14, <1>15, <1>16
     DEF MicroservicesNext, ServerStep

LEMMA IdleStep ==
  ASSUME TypeInv, ReadInv, IdleInv, [MicroservicesNext]_msVars
  PROVE  IdleInv'
<1>1. kind' = kind /\ Sequential' = Sequential BY KindKept DEF Sequential
<1>. SUFFICES ASSUME Sequential, ~server'.up PROVE serving' = {} BY <1>1 DEF IdleInv
<1>2. ASSUME server' = server PROVE serving = {} BY <1>2 DEF IdleInv
<1>3. ASSUME NEW m \in Messages, Publish(m) PROVE serving' = serving
  BY <1>3, Published DEF Sequential
<1>4. ASSUME NEW c \in Clients, Send(c) PROVE serving' = {}
  <2>1. Request(c, call[c].tries + 1) \in Messages BY CurrentTyped, RequestTyped
  <2>2. QED BY <1>2, <1>3, <1>4, <2>1 DEF Send
<1>5. CASE EmitEvent
  <2>1. EventMessage(events + 1) \in Messages BY RequestTyped DEF TypeInv
  <2>2. QED BY <1>2, <1>3, <1>5, <2>1 DEF EmitEvent
<1>6. CASE StartListening BY <1>6 DEF StartListening
<1>7. CASE CloseServer BY <1>7 DEF CloseServer
<1>8. ASSUME NEW c \in Clients, SendRefused(c) \/ PublishEnds(c) \/ PublishFails(c) \/ TimeOut(c)
      PROVE  serving' = {}
  BY <1>2, <1>8 DEF SendRefused, PublishEnds, PublishFails, TimeOut, Sequential
<1>9. ASSUME NEW r \in replies, Receive(r) PROVE serving' = {} BY <1>2, <1>9 DEF Receive
<1>10. CASE CloseClient \/ ListenerRaises \/ UNCHANGED msVars
  BY <1>2, <1>10 DEF CloseClient, ListenerRaises, msVars
<1>11. CASE StartRead \/ ReadNothing \/ ReadSome \/ BatchDone
  BY <1>2, <1>11 DEF StartRead, ReadNothing, ReadSome, BatchDone
<1>12. CASE TakeOne BY <1>12 DEF TakeOne
<1>13. CASE TakeNext
  <2>1. loop = "handling" /\ server' = server BY <1>13 DEF TakeNext
  <2>2. QED BY <2>1 DEF ReadInv
<1>14. \A s \in serving : ~(Handle(s) \/ Reply(s) \/ ReplyFails(s) \/ HandleEvent(s) \/ EventHandled(s))
  BY <1>2 DEF Handle, Reply, ReplyFails, HandleEvent, EventHandled
<1>15. QED
  BY <1>4, <1>5, <1>6, <1>7, <1>8, <1>9, <1>10, <1>11, <1>12, <1>13, <1>14
     DEF MicroservicesNext, ServerStep

-----------------------------------------------------------------------------
\* What is ahead of the listener shrinks, but for what is sent.
LEMMA MarkTyped ==
  ASSUME TypeInv
  PROVE  /\ Mark \in Nat /\ streams["requests"] \in Seq(Messages) /\ streams["events"] \in Seq(Messages)
         /\ cursor["requests"] \in Nat \cup {New} /\ from["requests"] \in Nat
         /\ \A s \in serving : s.message \in Messages /\ s \in Servings
<1>1. /\ streams["requests"] \in Seq(Messages) /\ streams["events"] \in Seq(Messages)
      /\ cursor["requests"] \in Nat \cup {New} /\ from["requests"] \in Nat
  BY DEF TypeInv, Streams
<1>2. Mark \in Nat BY <1>1 DEF Mark
<1>3. QED BY <1>1, <1>2 DEF TypeInv, Servings

LEMMA AheadShrinks ==
  ASSUME TypeInv, TypeInv', streams' = streams, kind' = kind,
         cursor'["requests"] = cursor["requests"],
         \/ loop' \notin {"reading", "handling"}
         \/ loop \in {"reading", "handling"} /\ from'["requests"] = from["requests"]
         \/ from'["requests"] = Len(streams["requests"])
         \/ cursor["requests"] # New
  PROVE  \A m : Ahead(m)' => Ahead(m)
<1>1. /\ streams["requests"] \in Seq(Messages) /\ Mark \in Nat /\ cursor["requests"] \in Nat \cup {New}
      /\ from["requests"] \in Nat /\ from'["requests"] \in Nat
  BY MarkTyped DEF TypeInv, Streams
<1>2. Mark' = Mark \/ Mark' = Len(streams["requests"])
  BY <1>1 DEF Mark
<1>3. \A m : Ahead(m)' <=> \E p \in DOMAIN streams["requests"] : p > Mark' /\ streams["requests"][p] = m
  BY DEF Ahead
<1>4. CASE Mark' = Mark BY <1>3, <1>4 DEF Ahead
<1>5. CASE Mark' = Len(streams["requests"])
  <2>1. \A p \in DOMAIN streams["requests"] : ~(p > Mark') BY <1>1, <1>5
  <2>2. QED BY <1>3, <2>1
<1>6. QED BY <1>2, <1>4, <1>5

LEMMA AheadSent ==
  ASSUME TypeInv, TypeInv', NEW m \in Messages,
         streams'["requests"] \in {streams["requests"], Append(streams["requests"], m)},
         UNCHANGED <<kind, cursor, from, loop>>
  PROVE  \A x : Ahead(x)' => (Ahead(x) \/ (x = m /\ Sent(x)'))
<1>1. streams["requests"] \in Seq(Messages) /\ Mark \in Nat /\ Mark' \in Nat
  <2>1. /\ streams'["requests"] \in Seq(Messages)
        /\ cursor'["requests"] \in Nat \cup {New} /\ from'["requests"] \in Nat
    BY DEF TypeInv, Streams
  <2>2. Mark' \in Nat BY <2>1 DEF Mark
  <2>3. QED BY <2>2, MarkTyped
<1>2. Mark' >= Mark
  <2>1. Mark' = Mark \/ (Mark = Len(streams["requests"]) /\ Mark' = Len(streams'["requests"]))
    BY DEF Mark
  <2>2. QED BY <1>1, <2>1
<1>. SUFFICES ASSUME NEW x, Ahead(x)' PROVE Ahead(x) \/ (x = m /\ Sent(x)')
  OBVIOUS
<1>3. PICK p \in DOMAIN streams'["requests"] : p > Mark' /\ streams'["requests"][p] = x BY DEF Ahead
<1>4. CASE p \in DOMAIN streams["requests"]
  <2>1. streams["requests"][p] = x BY <1>1, <1>3, <1>4
  <2>2. p > Mark BY <1>1, <1>2, <1>3, <1>4
  <2>3. QED BY <1>4, <2>1, <2>2 DEF Ahead
<1>5. CASE p \notin DOMAIN streams["requests"]
  <2>1. x = m BY <1>1, <1>3, <1>5
  <2>2. QED BY <1>3, <2>1 DEF Sent
<1>6. QED BY <1>4, <1>5

\* The counts.
LEMMA OutstandingFinite ==
  ASSUME TypeInv, NEW c \in Clients
  PROVE  /\ IsFiniteSet(Outstanding(c)) /\ Cardinality(Outstanding(c)) \in Nat
         /\ Outstanding(c) \subseteq 1 .. call[c].tries /\ call[c].tries \in Nat /\ ran[c] \in Nat
<1>1. call[c].tries \in Nat /\ ran[c] \in Nat BY CurrentTyped DEF TypeInv
<1>2. IsFiniteSet(1 .. call[c].tries)
  <2>1. \A n \in Nat : IsFiniteSet(1 .. n) BY FS_Interval
  <2>2. QED BY <1>1, <2>1
<1>3. Outstanding(c) \subseteq 1 .. call[c].tries BY DEF Outstanding
<1>4. IsFiniteSet(Outstanding(c)) BY <1>2, <1>3, FS_Subset
<1>5. QED BY <1>1, <1>3, <1>4, FS_CardinalityType

LEMMA TriesMove ==
  ASSUME TypeInv, [MicroservicesNext]_msVars, NEW c \in Clients
  PROVE  call'[c].tries \in {call[c].tries, call[c].tries + 1}
BY CallMoves DEF Attempted, BeginsToWait, Answered, ClosedAll

LEMMA RunKept ==
  ASSUME TypeInv, TypeInv', RunInv, ran' = ran, [MicroservicesNext]_msVars,
         \A m \in Requests : CanRun(m)' => CanRun(m) \/ m.no = call[m.of].tries + 1
  PROVE  RunInv'
<1>. SUFFICES ASSUME NEW c \in Clients
              PROVE  ran[c] + Cardinality(Outstanding(c)') <= call'[c].tries
  BY DEF RunInv
<1>1. /\ IsFiniteSet(Outstanding(c)) /\ Cardinality(Outstanding(c)) \in Nat
      /\ call[c].tries \in Nat /\ ran[c] \in Nat
      /\ ran[c] + Cardinality(Outstanding(c)) <= call[c].tries
  BY OutstandingFinite DEF RunInv
<1>2. /\ call'[c].tries \in {call[c].tries, call[c].tries + 1}
  BY TriesMove
<1>3. \A n \in Outstanding(c)' : n \in 1 .. call'[c].tries /\ (n \in Outstanding(c) \/ n = call[c].tries + 1)
  <2>. SUFFICES ASSUME NEW n \in 1 .. call'[c].tries, CanRun(Request(c, n))'
                PROVE  n \in Outstanding(c) \/ n = call[c].tries + 1
    BY DEF Outstanding
  <2>1. Request(c, n) \in Requests /\ Request(c, n).no = n /\ Request(c, n).of = c
    BY <1>1, <1>2, RequestTyped DEF Request
  <2>2. CanRun(Request(c, n)) \/ n = call[c].tries + 1 BY <2>1
  <2>3. QED BY <1>1, <1>2, <2>2 DEF Outstanding
<1>4. CASE call'[c].tries = call[c].tries
  <2>1. Outstanding(c)' \subseteq Outstanding(c) BY <1>1, <1>3, <1>4
  <2>2. Cardinality(Outstanding(c)') <= Cardinality(Outstanding(c)) /\ IsFiniteSet(Outstanding(c)')
    BY <1>1, <2>1, FS_Subset
  <2>3. Cardinality(Outstanding(c)') \in Nat BY <2>2, FS_CardinalityType
  <2>4. QED BY <1>1, <1>4, <2>2, <2>3
<1>5. CASE call'[c].tries = call[c].tries + 1
  <2>. DEFINE more == Outstanding(c) \cup {call[c].tries + 1}
  <2>1. Outstanding(c)' \subseteq more BY <1>3
  <2>2. IsFiniteSet(more) /\ Cardinality(more) \in {Cardinality(Outstanding(c)), Cardinality(Outstanding(c)) + 1}
    BY <1>1, FS_AddElement
  <2>. HIDE DEF more
  <2>3. Cardinality(Outstanding(c)') <= Cardinality(more) /\ IsFiniteSet(Outstanding(c)')
    BY <2>1, <2>2, FS_Subset
  <2>4. Cardinality(Outstanding(c)') \in Nat BY <2>3, FS_CardinalityType
  <2>5. QED BY <1>1, <1>5, <2>2, <2>3, <2>4
<1>6. QED BY <1>2, <1>4, <1>5

-----------------------------------------------------------------------------
\* A step that only takes away.
LEMMA PlaceKept ==
  ASSUME OnePlace, wire' \subseteq wire, serving' \subseteq serving, UNCHANGED <<streams, kind>>,
         \A x : Ahead(x)' => Ahead(x)
  PROVE  OnePlace' /\ \A m : CanRun(m)' => CanRun(m)
<1>1. Sequential' = Sequential BY DEF Sequential
<1>2. OnePlace' BY <1>1 DEF OnePlace
<1>3. QED BY <1>2 DEF CanRun, Served

\* A message that is sent had no place before.
LEMMA PlaceSent ==
  ASSUME TypeInv, TypeInv', OnePlace, Numbered, NEW m \in Messages, Publish(m),
         ~m.event => m.no \notin 1 .. call[m.of].tries,
         UNCHANGED <<kind, cursor, from, loop>>
  PROVE  OnePlace' /\ \A x : CanRun(x)' => CanRun(x) \/ x = m
<1>. USE DEF OnePlace
<1>1. Sequential' = Sequential BY DEF Sequential
<1>2. /\ streams["requests"] \in Seq(Messages) /\ wire \subseteq Messages
      /\ \A s \in serving : s.message \in Messages
  BY MarkTyped DEF TypeInv
<1>3. ~m.event => /\ m \notin wire /\ ~Sent(m) /\ ~Ahead(m)
                  /\ \A s \in serving : s.message # m
  BY DEF Numbered, Made, Sent, Ahead
<1>4. CASE kind = "memory" /\ serving' = serving \cup {Serving(m)} /\ UNCHANGED <<streams, wire>>
  <2>1. \A x : Ahead(x)' => Ahead(x) BY <1>4, AheadShrinks
  <2>2. Serving(m).message = m BY ServingTyped
  <2>3. \A x : CanRun(x)' => CanRun(x) \/ x = m
    <3>1. \A x : Served(x)' => Served(x) \/ x = m BY <1>4, <2>2 DEF Served
    <3>2. QED BY <1>4, <2>1, <3>1 DEF CanRun
  <2>4. ~m.event => ~Ahead(m)' BY <1>3, <2>1
  <2>5. \A s \in serving' : ~s.message.event =>
          /\ s.message \notin wire' /\ ~Ahead(s.message)'
          /\ \A t \in serving' : s.message = t.message => s = t
    <3>. SUFFICES ASSUME NEW s \in serving', ~s.message.event
                  PROVE  /\ s.message \notin wire' /\ ~Ahead(s.message)'
                         /\ \A t \in serving' : s.message = t.message => s = t
      OBVIOUS
    <3>1. CASE s = Serving(m) BY <1>3, <1>4, <2>2, <2>4, <3>1
    <3>2. CASE s \in serving /\ s # Serving(m)
      <4>1. s.message # m BY <1>3, <3>2
      <4>2. s.message \notin wire' /\ ~Ahead(s.message)' BY <1>4, <2>1, <3>2
      <4>3. QED BY <1>4, <2>2, <3>2, <4>1, <4>2
    <3>3. QED BY <1>4, <3>1, <3>2
  <2>6. QED BY <1>1, <1>4, <2>3, <2>5
<1>5. CASE Sequential /\ streams' = [streams EXCEPT ![StreamOf(m)] = Append(@, m)]
           /\ UNCHANGED <<serving, wire>>
  <2>1. \/ streams'["requests"] = streams["requests"]
        \/ streams'["requests"] = Append(streams["requests"], m)
    BY <1>5 DEF StreamOf, Streams, TypeInv
  <2>2. \A x : Ahead(x)' => Ahead(x) \/ x = m BY <2>1, AheadSent
  <2>3. \A x : CanRun(x)' => CanRun(x) \/ x = m BY <1>5, <2>2 DEF CanRun, Served
  <2>4. \A p, q \in DOMAIN streams'["requests"] :
          streams'["requests"][p] = streams'["requests"][q] /\ ~streams'["requests"][p].event => p = q
    <3>1. CASE streams'["requests"] = streams["requests"] BY <3>1
    <3>2. CASE streams'["requests"] = Append(streams["requests"], m)
      <4>1. \A p \in DOMAIN streams'["requests"] :
              \/ /\ p \in DOMAIN streams["requests"]
                 /\ streams'["requests"][p] = streams["requests"][p]
              \/ p = Len(streams["requests"]) + 1 /\ streams'["requests"][p] = m
        BY <1>2, <3>2
      <4>2. QED BY <1>3, <4>1 DEF Sent
    <3>3. QED BY <2>1, <3>1, <3>2
  <2>5. \A s \in serving : ~s.message.event => ~Ahead(s.message)' BY <1>3, <2>2
  <2>6. QED BY <1>1, <1>5, <2>3, <2>4, <2>5
<1>6. CASE ~Sequential /\ kind # "memory" /\ wire' \in {wire, wire \cup {m}}
           /\ UNCHANGED <<serving, streams>>
  <2>1. \A x : Ahead(x)' => Ahead(x) BY <1>6, AheadShrinks
  <2>2. \A x : CanRun(x)' => CanRun(x) \/ x = m BY <1>6, <2>1 DEF CanRun, Served
  <2>3. \A s \in serving : ~s.message.event => s.message \notin wire' BY <1>3, <1>6
  <2>4. QED BY <1>1, <1>6, <2>1, <2>2, <2>3
<1>7. QED BY <1>4, <1>5, <1>6, Published

LEMMA TakeOnePlace ==
  ASSUME TypeInv, TypeInv', OnePlace, TakeOne
  PROVE  OnePlace' /\ \A x : CanRun(x)' => CanRun(x)
<1>. USE DEF OnePlace
<1>1. PICK m \in wire : wire' = wire \ {m} /\ serving' = serving \cup {Serving(m)}
  BY DEF TakeOne
<1>2. UNCHANGED <<kind, streams, cursor, from, loop>> BY DEF TakeOne
<1>3. m \in Messages /\ Serving(m).message = m BY ServingTyped DEF TypeInv
<1>4. Sequential' = Sequential /\ ~Sequential BY <1>2 DEF Sequential
<1>5. \A x : ~Ahead(x)
  BY <1>4 DEF Ahead
<1>6. \A x : ~Ahead(x)' BY <1>2, <1>4 DEF Ahead
<1>7. \A x : CanRun(x)' => CanRun(x)
  <2>1. \A x : Served(x)' => Served(x) \/ x = m BY <1>1, <1>3 DEF Served
  <2>2. QED BY <1>1, <1>6, <2>1 DEF CanRun
<1>8. \A s \in serving' : ~s.message.event =>
        /\ s.message \notin wire'
        /\ \A t \in serving' : s.message = t.message => s = t
  <2>. SUFFICES ASSUME NEW s \in serving', ~s.message.event
                PROVE  /\ s.message \notin wire'
                       /\ \A t \in serving' : s.message = t.message => s = t
    OBVIOUS
  <2>1. CASE s = Serving(m) BY <1>1, <1>3, <2>1
  <2>2. CASE s \in serving /\ s # Serving(m)
    <3>1. s.message \notin wire /\ s.message # m BY <2>2
    <3>2. QED BY <1>1, <1>3, <2>2, <3>1
  <2>3. QED BY <1>1, <2>1, <2>2
<1>9. QED BY <1>2, <1>4, <1>6, <1>7, <1>8

\* The listener's next message leaves what is ahead of it.
LEMMA TakeNextPlace ==
  ASSUME TypeInv, TypeInv', OnePlace, Numbered, ReadInv, TakeNext
  PROVE  OnePlace' /\ \A x : CanRun(x)' => CanRun(x)
<1>. USE DEF OnePlace
<1>1. /\ UNCHANGED <<kind, streams, from, loop, wire>> /\ loop = "handling" /\ batch # <<>> /\ serving = {}
  BY DEF TakeNext
<1>2. CASE Head(batch) = Nothing
  <2>1. UNCHANGED <<serving, cursor>> BY <1>2 DEF TakeNext
  <2>2. \A x : Ahead(x)' => Ahead(x) BY <1>1, <2>1, AheadShrinks
  <2>3. QED BY <1>1, <2>1, <2>2, PlaceKept
<1>3. CASE Head(batch) # Nothing
  <2>1. PICK s \in Streams, m \in Messages :
          /\ s = Head(batch) /\ from[s] + 1 \in DOMAIN streams[s]
          /\ m = streams[s][from[s] + 1]
    BY <1>1, <1>3, NextThere DEF ReadInv
  <2>2. serving' = {Serving(m)} /\ cursor' = [cursor EXCEPT ![s] = from[s] + 1]
    BY <1>3, <2>1 DEF TakeNext, ReadNext
  <2>3. Serving(m).message = m BY ServingTyped
  <2>4. Sequential' = Sequential BY <1>1 DEF Sequential
  <2>5. CASE s = "events"
    <3>1. m.event BY <2>1, <2>5 DEF Numbered
    <3>2. Serving(m).stage # "handler" BY <3>1 DEF Serving
    <3>3. cursor'["requests"] = cursor["requests"] BY <2>2, <2>5 DEF TypeInv, Streams
    <3>4. \A x : Ahead(x)' => Ahead(x) BY <1>1, <3>3, AheadShrinks
    <3>5. \A x : CanRun(x)' => CanRun(x) BY <1>1, <2>2, <3>2, <3>4 DEF CanRun, Served
    <3>6. QED BY <1>1, <2>2, <2>3, <2>4, <3>1, <3>4, <3>5
  <2>6. CASE s = "requests"
    <3>1. /\ streams["requests"] \in Seq(Messages) /\ from["requests"] \in Nat
          /\ cursor["requests"] \in Nat \cup {New}
      BY MarkTyped
    <3>2. cursor'["requests"] = from["requests"] + 1 BY <2>2, <2>6 DEF TypeInv
    <3>3. Mark' = from["requests"] + 1 BY <3>1, <3>2 DEF Mark, New
    <3>4. Mark <= from["requests"]
      <4>1. 1 \in DOMAIN batch /\ Head(batch) = batch[1] BY <1>1, BatchHead DEF ReadInv, BatchThere
      <4>2. ReadOn("requests") BY <1>1, <1>3, <2>1, <2>6, <4>1 DEF ReadInv
      <4>3. QED BY <1>1, <3>1, <4>2 DEF Mark, ReadOn
    <3>5. Mark \in Nat BY MarkTyped
    <3>6. Ahead(m)
      <4>1. from["requests"] + 1 > Mark BY <3>1, <3>4, <3>5
      <4>2. QED BY <2>1, <2>6, <4>1 DEF Ahead
    <3>7. \A x : Ahead(x)' => Ahead(x)
      <4>1. \A p \in DOMAIN streams["requests"] : p > Mark' => p > Mark
        BY <3>1, <3>3, <3>4, <3>5
      <4>2. QED BY <1>1, <4>1 DEF Ahead
    <3>8. ~m.event => ~Ahead(m)'
      <4>. SUFFICES ASSUME ~m.event, Ahead(m)' PROVE FALSE OBVIOUS
      <4>1. PICK p \in DOMAIN streams["requests"] : p > Mark' /\ streams["requests"][p] = m
        BY <1>1 DEF Ahead
      <4>2. p = from["requests"] + 1 BY <2>1, <2>6, <4>1
      <4>3. QED BY <3>1, <3>3, <4>1, <4>2
    <3>9. Sequential
      <4>1. streams["requests"] # <<>> BY <2>1, <2>6, <3>1
      <4>2. QED BY <4>1
    <3>10. \A x : CanRun(x)' => CanRun(x)
      <4>1. \A x : Served(x)' => x = m BY <2>2, <2>3 DEF Served
      <4>2. QED BY <1>1, <3>6, <3>7, <4>1 DEF CanRun
    <3>11. QED BY <1>1, <2>2, <2>3, <2>4, <3>7, <3>8, <3>9, <3>10
  <2>7. QED BY <2>5, <2>6 DEF Streams
<1>4. QED BY <1>2, <1>3

\* A message that is handled stays where it is.
LEMMA HandledPlace ==
  ASSUME TypeInv, TypeInv', OnePlace, NEW s \in serving, NEW t,
         serving' = (serving \ {s}) \cup {t}, t.message = s.message, t.stage # "handler",
         UNCHANGED <<kind, wire, streams, cursor, from, loop>>
  PROVE  /\ OnePlace' /\ \A x : CanRun(x)' => CanRun(x)
         /\ ~s.message.event => ~CanRun(s.message)'
<1>. USE DEF OnePlace
<1>1. Sequential' = Sequential BY DEF Sequential
<1>2. \A x : Ahead(x)' => Ahead(x) BY AheadShrinks
<1>3. \A x : Served(x)' => Served(x) BY DEF Served
<1>4. \A u \in serving' : ~u.message.event =>
        /\ u.message \notin wire' /\ ~Ahead(u.message)'
        /\ \A v \in serving' : u.message = v.message => u = v
  <2>. SUFFICES ASSUME NEW u \in serving', ~u.message.event
                PROVE  /\ u.message \notin wire' /\ ~Ahead(u.message)'
                       /\ \A v \in serving' : u.message = v.message => u = v
    OBVIOUS
  <2>1. CASE u = t
    <3>1. u.message \notin wire /\ ~Ahead(u.message) BY <2>1
    <3>2. \A v \in serving : s.message = v.message => s = v BY <2>1
    <3>3. QED BY <1>2, <2>1, <3>1, <3>2
  <2>2. CASE u \in serving /\ u # s
    <3>1. u.message \notin wire /\ ~Ahead(u.message) BY <2>2
    <3>2. \A v \in serving : u.message = v.message => u = v BY <2>2
    <3>3. QED BY <1>2, <2>2, <3>1, <3>2
  <2>3. QED BY <2>1, <2>2
<1>5. ~s.message.event => ~CanRun(s.message)'
  <2>. SUFFICES ASSUME ~s.message.event PROVE ~CanRun(s.message)' OBVIOUS
  <2>1. s.message \notin wire' /\ ~Ahead(s.message)' BY <1>2
  <2>2. \A u \in serving : s.message = u.message => s = u OBVIOUS
  <2>3. ~Served(s.message)' BY <2>2 DEF Served
  <2>4. QED BY <2>1, <2>3 DEF CanRun
<1>6. QED BY <1>1, <1>2, <1>3, <1>4, <1>5 DEF CanRun

LEMMA HandlePlace ==
  ASSUME TypeInv, TypeInv', OnePlace, NEW s \in serving, Handle(s) \/ HandleEvent(s)
  PROVE  /\ OnePlace' /\ \A x : CanRun(x)' => CanRun(x)
         /\ ~s.message.event => ~CanRun(s.message)'
<1>1. s \in Servings /\ UNCHANGED <<kind, wire, streams, cursor, from, loop>>
  BY DEF TypeInv, Handle, HandleEvent
<1>2. CASE Handle(s)
  <2>1. PICK stage \in {"result", "error"} : serving' = (serving \ {s}) \cup {[s EXCEPT !.stage = stage]}
    BY <1>2 DEF Handle
  <2>2. /\ [s EXCEPT !.stage = stage].message = s.message
        /\ [s EXCEPT !.stage = stage].stage # "handler"
    BY <1>1, <2>1 DEF Servings
  <2>3. QED BY <1>1, <2>1, <2>2, HandledPlace
<1>3. CASE HandleEvent(s)
  <2>1. PICK raised \in {0, 1} :
          serving' = (serving \ {s}) \cup {[s EXCEPT !.todo = Tail(@), !.errors = @ + raised]}
    BY <1>3 DEF HandleEvent
  <2>2. /\ [s EXCEPT !.todo = Tail(@), !.errors = @ + raised].message = s.message
        /\ [s EXCEPT !.todo = Tail(@), !.errors = @ + raised].stage = s.stage
    BY <1>1 DEF Servings
  <2>3. s.stage = "event" BY <1>3 DEF HandleEvent
  <2>4. QED BY <1>1, <2>1, <2>2, <2>3, HandledPlace
<1>4. QED BY <1>2, <1>3

LEMMA ListeningPlace ==
  ASSUME TypeInv, TypeInv', OnePlace, ReadInv, StartListening
  PROVE  \A x : Ahead(x)' => Ahead(x)
<1>1. UNCHANGED <<kind, streams>> /\ loop' = "idle" /\ ~server.up BY DEF StartListening
<1>2. loop = "none" BY <1>1 DEF ReadInv
<1>3. /\ streams["requests"] \in Seq(Messages) /\ Mark \in Nat /\ cursor["requests"] \in Nat \cup {New}
  BY MarkTyped
<1>4. cursor'["requests"] = IF kind = "kafka" /\ cursor["requests"] # New THEN cursor["requests"]
                            ELSE IF kind = "kafka" THEN 0 ELSE New
  BY DEF StartListening, Streams
<1>5. CASE kind = "kafka"
  <2>1. Mark' = Mark BY <1>1, <1>3, <1>4, <1>5 DEF Mark, New
  <2>2. QED BY <1>1, <2>1 DEF Ahead
<1>6. CASE kind # "kafka"
  <2>1. Mark' = Len(streams["requests"]) BY <1>1, <1>4, <1>6 DEF Mark
  <2>2. \A p \in DOMAIN streams["requests"] : ~(p > Len(streams["requests"])) BY <1>3
  <2>3. QED BY <1>1, <2>1, <2>2 DEF Ahead
<1>7. QED BY <1>5, <1>6

LEMMA PlaceStep ==
  ASSUME TypeInv, TypeInv', OnePlace, Numbered, ReadInv, ~Redelivers', [MicroservicesNext]_msVars
  PROVE  OnePlace' /\ \A m \in Requests : CanRun(m)' => CanRun(m) \/ m.no = call[m.of].tries + 1
<1>1. ASSUME NEW c \in Clients, Send(c)
      PROVE  OnePlace' /\ \A m \in Requests : CanRun(m)' => CanRun(m) \/ m.no = call[m.of].tries + 1
  <2>1. /\ Publish(Request(c, call[c].tries + 1)) /\ UNCHANGED <<kind, cursor, from, loop>>
    BY <1>1 DEF Send
  <2>2. /\ Request(c, call[c].tries + 1) \in Messages /\ call[c].tries \in Nat
        /\ Request(c, call[c].tries + 1).of = c /\ Request(c, call[c].tries + 1).no = call[c].tries + 1
    BY CurrentTyped, RequestTyped DEF Request
  <2>3. Request(c, call[c].tries + 1).no \notin 1 .. call[Request(c, call[c].tries + 1).of].tries
    BY <2>2
  <2>4. OnePlace' /\ \A x : CanRun(x)' => CanRun(x) \/ x = Request(c, call[c].tries + 1)
    BY <2>1, <2>2, <2>3, PlaceSent
  <2>5. QED BY <2>2, <2>4
<1>2. CASE EmitEvent
  <2>1. /\ Publish(EventMessage(events + 1)) /\ UNCHANGED <<kind, cursor, from, loop>> /\ events \in Nat
    BY <1>2 DEF EmitEvent, TypeInv
  <2>2. EventMessage(events + 1) \in Messages /\ EventMessage(events + 1) \notin Requests
        /\ EventMessage(events + 1).event
    BY <2>1, RequestTyped DEF EventMessage
  <2>3. OnePlace' /\ \A x : CanRun(x)' => CanRun(x) \/ x = EventMessage(events + 1)
    BY <2>1, <2>2, PlaceSent
  <2>4. QED BY <2>2, <2>3
<1>3. ASSUME UNCHANGED <<kind, streams, cursor, from, loop>>, wire' \subseteq wire, serving' \subseteq serving
      PROVE  OnePlace' /\ \A m : CanRun(m)' => CanRun(m)
  BY <1>3, AheadShrinks, PlaceKept
<1>4. ASSUME NEW c \in Clients, SendRefused(c) \/ PublishEnds(c) \/ PublishFails(c) \/ TimeOut(c)
      PROVE  OnePlace' /\ \A m : CanRun(m)' => CanRun(m)
  BY <1>3, <1>4 DEF SendRefused, PublishEnds, PublishFails, TimeOut
<1>5. ASSUME NEW r \in replies, Receive(r) PROVE OnePlace' /\ \A m : CanRun(m)' => CanRun(m)
  BY <1>3, <1>5 DEF Receive
<1>6. CASE CloseClient \/ UNCHANGED msVars BY <1>3, <1>6 DEF CloseClient, msVars
<1>7. CASE StartListening
  <2>1. UNCHANGED <<kind, streams, wire, serving>> BY <1>7 DEF StartListening
  <2>2. QED BY <1>7, <2>1, ListeningPlace, PlaceKept
<1>8. CASE CloseServer
  <2>1. UNCHANGED <<kind, streams, wire, cursor>> /\ loop' = "none" /\ serving' \subseteq serving
    <3>1. kind # "rabbitmq" BY <1>8 DEF CloseServer, Redelivers, TypeInv
    <3>2. QED BY <1>8, <3>1 DEF CloseServer
  <2>2. \A x : Ahead(x)' => Ahead(x) BY <2>1, AheadShrinks
  <2>3. QED BY <2>1, <2>2, PlaceKept
<1>9. CASE ListenerRaises \/ BatchDone \/ ReadNothing
  <2>1. UNCHANGED <<kind, streams, wire, cursor, serving>> /\ loop' \in {"dead", "idle"}
    BY <1>9 DEF ListenerRaises, BatchDone, ReadNothing
  <2>2. \A x : Ahead(x)' => Ahead(x) BY <2>1, AheadShrinks
  <2>3. QED BY <2>1, <2>2, PlaceKept
<1>10. CASE StartRead
  <2>1. UNCHANGED <<kind, streams, wire, cursor, serving>> BY <1>10 DEF StartRead
  <2>2. cursor["requests"] # New \/ from'["requests"] = Len(streams["requests"])
    BY <1>10 DEF StartRead, Streams
  <2>3. \A x : Ahead(x)' => Ahead(x) BY <2>1, <2>2, AheadShrinks
  <2>4. QED BY <2>1, <2>3, PlaceKept
<1>11. CASE ReadSome
  <2>1. UNCHANGED <<kind, streams, wire, cursor, serving, from>> /\ loop = "reading"
    BY <1>11 DEF ReadSome
  <2>2. \A x : Ahead(x)' => Ahead(x) BY <2>1, AheadShrinks
  <2>3. QED BY <2>1, <2>2, PlaceKept
<1>12. CASE TakeNext BY <1>12, TakeNextPlace
<1>13. CASE TakeOne BY <1>13, TakeOnePlace
<1>14. ASSUME NEW s \in serving, Handle(s) \/ HandleEvent(s)
       PROVE  OnePlace' /\ \A m : CanRun(m)' => CanRun(m)
  BY <1>14, HandlePlace
<1>15. ASSUME NEW s \in serving, Reply(s) \/ EventHandled(s)
       PROVE  OnePlace' /\ \A m : CanRun(m)' => CanRun(m)
  BY <1>3, <1>15 DEF Reply, EventHandled, LoopAfter
<1>16. ASSUME NEW s \in serving, ReplyFails(s) PROVE OnePlace' /\ \A m : CanRun(m)' => CanRun(m)
  <2>1. UNCHANGED <<kind, streams, wire, cursor, from>> /\ loop' \in {loop, "dead"} /\ serving' \subseteq serving
    BY <1>16 DEF ReplyFails
  <2>2. \A x : Ahead(x)' => Ahead(x)
    <3>1. CASE loop' = loop BY <1>3, <2>1, <3>1, AheadShrinks
    <3>2. CASE loop' = "dead" BY <2>1, <3>2, AheadShrinks
    <3>3. QED BY <2>1, <3>1, <3>2
  <2>3. QED BY <2>1, <2>2, PlaceKept
<1>17. QED
  BY <1>1, <1>2, <1>4, <1>5, <1>6, <1>7, <1>8, <1>9, <1>10, <1>11, <1>12, <1>13, <1>14, <1>15, <1>16
     DEF MicroservicesNext, ServerStep

LEMMA RunStep ==
  ASSUME TypeInv, TypeInv', OnePlace, Numbered, ReadInv, RunInv, ~Redelivers', [MicroservicesNext]_msVars
  PROVE  RunInv'
<1>1. \A m \in Requests : CanRun(m)' => CanRun(m) \/ m.no = call[m.of].tries + 1 BY PlaceStep
<1>2. CASE ran' = ran BY <1>1, <1>2, RunKept
<1>3. ASSUME NEW s \in serving, Handle(s) PROVE RunInv'
  <2>1. /\ s.stage = "handler" /\ UNCHANGED call /\ ran \in [Clients -> Nat]
        /\ ran' = [ran EXCEPT ![s.message.of] = @ + 1]
    BY <1>3 DEF Handle, TypeInv
  <2>2. s.message \in Requests /\ ~s.message.event
    BY <2>1, MarkTyped, RequestTyped DEF TypeInv
  <2>3. PICK c \in Clients, n \in Nat : s.message = Request(c, n) BY <2>2 DEF Requests
  <2>4. s.message.of = c /\ s.message.no = n BY <2>3 DEF Request
  <2>5. n \in 1 .. call[c].tries BY <2>2, <2>4 DEF Numbered, Made
  <2>6. n \in Outstanding(c)
    <3>1. CanRun(Request(c, n)) BY <2>1, <2>3 DEF CanRun, Served
    <3>2. QED BY <2>5, <3>1 DEF Outstanding
  <2>7. ~CanRun(s.message)' /\ \A x : CanRun(x)' => CanRun(x) BY <1>3, <2>2, HandlePlace
  <2>8. \A d \in Clients : Outstanding(d)' \subseteq Outstanding(d) BY <2>1, <2>7 DEF Outstanding
  <2>9. n \notin Outstanding(c)' BY <2>3, <2>7 DEF Outstanding
  <2>. SUFFICES ASSUME NEW d \in Clients
                PROVE  ran'[d] + Cardinality(Outstanding(d)') <= call'[d].tries
    BY DEF RunInv
  <2>10. /\ IsFiniteSet(Outstanding(d)) /\ Cardinality(Outstanding(d)) \in Nat
         /\ call[d].tries \in Nat /\ ran[d] \in Nat
         /\ ran[d] + Cardinality(Outstanding(d)) <= call[d].tries
    BY OutstandingFinite DEF RunInv
  <2>11. CASE d # c
    <3>1. ran'[d] = ran[d] BY <2>1, <2>4, <2>11
    <3>2. Cardinality(Outstanding(d)') <= Cardinality(Outstanding(d)) /\ IsFiniteSet(Outstanding(d)')
      BY <2>8, <2>10, FS_Subset
    <3>3. Cardinality(Outstanding(d)') \in Nat BY <3>2, FS_CardinalityType
    <3>4. QED BY <2>1, <2>10, <3>1, <3>2, <3>3
  <2>12. CASE d = c
    <3>. DEFINE left == Outstanding(c) \ {n}
    <3>1. ran'[c] = ran[c] + 1 BY <2>1, <2>4
    <3>2. IsFiniteSet(left) /\ Cardinality(left) = Cardinality(Outstanding(c)) - 1
      BY <2>6, <2>10, <2>12, FS_RemoveElement
    <3>3. Outstanding(c)' \subseteq left BY <2>8, <2>9
    <3>. HIDE DEF left
    <3>4. Cardinality(Outstanding(c)') <= Cardinality(left) /\ IsFiniteSet(Outstanding(c)')
      BY <3>2, <3>3, FS_Subset
    <3>5. Cardinality(Outstanding(c)') \in Nat BY <3>4, FS_CardinalityType
    <3>6. QED BY <2>1, <2>10, <2>12, <3>1, <3>2, <3>4, <3>5
  <2>13. QED BY <2>11, <2>12
<1>4. ServerStep => ran' = ran \/ \E s \in serving : Handle(s)
  BY DEF ServerStep, StartRead, ReadNothing, ReadSome, TakeNext, BatchDone, TakeOne, Reply, ReplyFails,
         HandleEvent, EventHandled
<1>5. ran' = ran \/ \E s \in serving : Handle(s)
  BY <1>4 DEF MicroservicesNext, msVars, Send, SendRefused, PublishEnds, PublishFails, TimeOut, Receive,
              EmitEvent, CloseClient, StartListening, CloseServer, ListenerRaises
<1>6. QED BY <1>2, <1>3, <1>5

\* A server that has been closed has been closed.
LEMMA RedeliversKept ==
  ASSUME TypeInv, [MicroservicesNext]_msVars, Redelivers
  PROVE  Redelivers'
<1>1. kind' = kind BY KindKept
<1>2. CASE server' = server BY <1>1, <1>2 DEF Redelivers
<1>3. CASE StartListening
  <2>1. server' = [up |-> TRUE, listens |-> server.listens + 1] /\ ~server.up BY <1>3 DEF StartListening
  <2>2. QED BY <1>1, <2>1 DEF Redelivers, TypeInv
<1>4. CASE CloseServer
  <2>1. server' = [server EXCEPT !.up = FALSE] /\ server.up BY <1>4 DEF CloseServer
  <2>2. server \in [up: BOOLEAN, listens: Nat] BY DEF TypeInv
  <2>3. server'.listens = server.listens /\ ~server'.up BY <2>1, <2>2
  <2>4. QED BY <1>1, <2>1, <2>2, <2>3 DEF Redelivers
<1>5. ServerStep => server' = server
  BY DEF ServerStep, StartRead, ReadNothing, ReadSome, TakeNext, BatchDone, TakeOne, Handle,
         Reply, ReplyFails, HandleEvent, EventHandled
<1>6. QED
  BY <1>2, <1>3, <1>4, <1>5
     DEF MicroservicesNext, msVars, Send, SendRefused, PublishEnds, PublishFails, TimeOut, Receive,
         EmitEvent, CloseClient, ListenerRaises

-----------------------------------------------------------------------------
(* The invariant, and what it implies.                                       *)
MicroservicesInv ==
  /\ TypeInv /\ CallInv /\ Numbered /\ PendingEach /\ ReadInv /\ IdleInv
  /\ Redelivers \/ (OnePlace /\ RunInv)

LEMMA InitInv == MicroservicesInit => MicroservicesInv
<1>. SUFFICES ASSUME MicroservicesInit PROVE MicroservicesInv OBVIOUS
<1>1. TypeInv BY TypeInit
<1>2. /\ call = [c \in Clients |-> [at |-> "idle", tries |-> 0, got |-> {}]]
      /\ streams = [s \in Streams |-> <<>>] /\ wire = {} /\ serving = {} /\ pending = {} /\ orphans = {}
      /\ ran = [c \in Clients |-> 0] /\ handled = {} /\ batch = <<>> /\ loop = "none"
      /\ cursor = [s \in Streams |-> New]
  BY DEF MicroservicesInit
<1>3. \A s \in Streams : DOMAIN streams[s] = {} BY <1>2
<1>4. DOMAIN streams["requests"] = {} /\ DOMAIN streams["events"] = {} /\ streams["requests"] = <<>>
  BY <1>2 DEF Streams
<1>5. CallInv BY <1>2, MicroservicesAssumption DEF CallInv
<1>6. Numbered BY <1>2, <1>4 DEF Numbered
<1>7. PendingEach BY <1>2 DEF PendingEach, Awaits
<1>8. ReadInv BY <1>2 DEF ReadInv, BatchThere, Batches, NothingSkipped
<1>9. OnePlace BY <1>2, <1>4 DEF OnePlace
<1>10. RunInv
  <2>. SUFFICES ASSUME NEW c \in Clients PROVE ran[c] + Cardinality(Outstanding(c)) <= call[c].tries
    BY DEF RunInv
  <2>1. ran[c] = 0 /\ call[c].tries = 0 BY <1>2
  <2>2. Outstanding(c) = {} BY <2>1 DEF Outstanding
  <2>3. QED BY <2>1, <2>2, FS_EmptySet
<1>11. IdleInv BY <1>2 DEF IdleInv
<1>12. QED BY <1>1, <1>5, <1>6, <1>7, <1>8, <1>9, <1>10, <1>11 DEF MicroservicesInv

LEMMA StepInv ==
  ASSUME MicroservicesInv, [MicroservicesNext]_msVars PROVE MicroservicesInv'
<1>. USE DEF MicroservicesInv
<1>1. BatchThere BY DEF ReadInv
<1>2. TypeInv' BY <1>1, TypeStep
<1>3. CallInv' BY <1>2, CallStep
<1>4. Numbered' BY <1>1, <1>2, NumberedStep
<1>5. PendingEach' BY <1>2, PendingStep
<1>6. ReadInv' BY <1>2, ReadStep
<1>7. IdleInv' BY IdleStep
<1>8. Redelivers' \/ (OnePlace' /\ RunInv')
  <2>. SUFFICES ASSUME ~Redelivers' PROVE OnePlace' /\ RunInv' OBVIOUS
  <2>1. OnePlace /\ RunInv BY RedeliversKept
  <2>2. QED BY <1>2, <2>1, PlaceStep, RunStep
<1>9. QED BY <1>2, <1>3, <1>4, <1>5, <1>6, <1>7, <1>8

LEMMA InvKept == MicroservicesSpec => []MicroservicesInv
BY InitInv, StepInv, PTL DEF MicroservicesSpec

\* On every transport, whatever is late, lost, refused or timed out and however
\* the server restarts: a call that returns has the reply to its own last
\* attempt, Retries[c] + 1 attempts are made at most and the handler runs once per
\* attempt at most, unless RabbitMQ delivers again what a closed server handled,
\* and Kafka keeps the futures of the calls that wait and, but for calls that are
\* publishing, only those whose publishing failed or was interrupted besides
\* (ClientProxy.send and the transports' send).
THEOREM CallsAnsweredKept == MicroservicesSpec => []CallsAnswered
<1>1. ASSUME MicroservicesInv PROVE CallsAnswered
  <2>. USE <1>1 DEF MicroservicesInv
  <2>1. OwnReply BY DEF OwnReply, CallInv
  <2>2. ASSUME NEW c \in Clients
        PROVE  call[c].tries <= Retries[c] + 1 /\ (Redelivers \/ ran[c] <= call[c].tries)
    <3>1. /\ Cardinality(Outstanding(c)) \in Nat /\ call[c].tries \in Nat /\ ran[c] \in Nat
          /\ Redelivers \/ ran[c] + Cardinality(Outstanding(c)) <= call[c].tries
      BY OutstandingFinite DEF RunInv
    <3>2. Redelivers \/ ran[c] <= call[c].tries BY <3>1
    <3>3. QED BY <3>2 DEF CallInv
  <2>3. PendingAwaited BY PendingSame
  <2>4. QED BY <2>1, <2>2, <2>3 DEF CallsAnswered, RunsBounded
<1>2. QED BY <1>1, InvKept, PTL

\* Once a listener of Redis or Kafka has begun to handle a stream it leaves out
\* no later message of it, whatever is sent while it reads, and whenever a read
\* returns nothing or ends it (the cursors of the two listen loops).
THEOREM NothingSkippedKept == MicroservicesSpec => []NothingSkipped
<1>1. MicroservicesInv => NothingSkipped BY DEF MicroservicesInv, ReadInv
<1>2. QED BY <1>1, InvKept, PTL

-----------------------------------------------------------------------------
(* Listeners in the order they are called *)

StrictOrder(R, S) ==
  /\ \A x \in S : <<x, x>> \notin R
  /\ \A x, y, z \in S : <<x, y>> \in R /\ <<y, z>> \in R => <<x, z>> \in R
  /\ \A x, y \in S : x # y => <<x, y>> \in R \/ <<y, x>> \in R

Under(R, S, x) == {w \in S : <<w, x>> \in R}

\* Things in a strict total order are told apart by how many come before them, and
\* every number below theirs is taken.
LEMMA Ranked ==
  ASSUME NEW S, NEW R, IsFiniteSet(S), StrictOrder(R, S)
  PROVE  /\ Cardinality(S) \in Nat
         /\ \A x \in S : Cardinality(Under(R, S, x)) \in 0..(Cardinality(S) - 1)
         /\ \A x, y \in S : Cardinality(Under(R, S, x)) = Cardinality(Under(R, S, y)) => x = y
         /\ \A i \in 1..Cardinality(S) : \E x \in S : Cardinality(Under(R, S, x)) = i - 1
<1> DEFINE Pred(x) == {w \in S : <<w, x>> \in R}
           n == Cardinality(S)
           f == [x \in S |-> Cardinality(Pred(x))]
<1> USE DEF StrictOrder, Under
<1>1. n \in Nat BY FS_CardinalityType
<1>2. ASSUME NEW x \in S PROVE IsFiniteSet(Pred(x)) /\ Cardinality(Pred(x)) \in 0..(n - 1) /\ Cardinality(Pred(x)) \in Int
  <2>1. Pred(x) \in SUBSET S /\ x \notin Pred(x) OBVIOUS
  <2>2. IsFiniteSet(Pred(x)) /\ Cardinality(Pred(x)) <= n /\ Cardinality(Pred(x)) # n BY <2>1, FS_Subset
  <2>3. Cardinality(Pred(x)) \in Nat BY <2>2, FS_CardinalityType
  <2> HIDE DEF Pred, n
  <2> QED BY <1>1, <2>2, <2>3
<1>3. ASSUME NEW x \in S, NEW y \in S, <<x, y>> \in R PROVE Cardinality(Pred(x)) < Cardinality(Pred(y))
  <2>1. Pred(x) \in SUBSET Pred(y) /\ x \in Pred(y) /\ x \notin Pred(x) BY <1>3
  <2>2. Cardinality(Pred(x)) <= Cardinality(Pred(y)) /\ Cardinality(Pred(x)) # Cardinality(Pred(y))
    BY <1>2, <2>1, FS_Subset
  <2>3. Cardinality(Pred(x)) \in Int /\ Cardinality(Pred(y)) \in Int BY <1>2
  <2> HIDE DEF Pred
  <2> QED BY <2>2, <2>3
<1>4. ASSUME NEW x \in S, NEW y \in S, Cardinality(Pred(x)) = Cardinality(Pred(y)) PROVE x = y
  <2>1. Cardinality(Pred(x)) \in Int /\ Cardinality(Pred(y)) \in Int BY <1>2
  <2>2. ~(<<x, y>> \in R) /\ ~(<<y, x>> \in R)
    <3>1. ~(Cardinality(Pred(x)) < Cardinality(Pred(y))) /\ ~(Cardinality(Pred(y)) < Cardinality(Pred(x)))
      <4> HIDE DEF Pred
      <4> QED BY <1>4, <2>1
    <3> QED BY <1>3, <3>1
  <2> QED BY <2>2
<1>5. f \in Injection(S, 0..(n - 1))
  <2>1. f \in [S -> 0..(n - 1)] BY <1>2
  <2>2. \A x, y \in S : f[x] = f[y] => x = y BY <1>4
  <2> QED BY <2>1, <2>2 DEF Injection, IsInjective
<1>6. IsFiniteSet(0..(n - 1)) /\ Cardinality(0..(n - 1)) = n
  <2> HIDE DEF n
  <2> QED BY <1>1, FS_Interval
<1>7. f \in Surjection(S, 0..(n - 1)) BY <1>5, <1>6, FS_Injection
<1>8. \A i \in 1..n : \E x \in S : f[x] = i - 1
  <2> HIDE DEF n, f
  <2>1. \A i \in 1..n : i - 1 \in 0..(n - 1) BY <1>1
  <2> QED BY <1>7, <2>1 DEF Surjection
<1>9. \A x, y \in S : Cardinality(Pred(x)) = Cardinality(Pred(y)) => x = y BY <1>4
<1>10. \A i \in 1..n : \E x \in S : Cardinality(Pred(x)) = i - 1 BY <1>8
<1>11. \A x \in S : Cardinality(Pred(x)) \in 0..(n - 1) BY <1>2
<1> QED BY <1>1, <1>9, <1>10, <1>11


-----------------------------------------------------------------------------
(* Who hears an emit() *)

Registrations == [name : Names, handler : Handlers, once : BOOLEAN, serial : Nat]

\* Each registration has a number of its own, a handler is in each list of a name
\* once, and no two names and handlers are ranked the same.
ListenersTyped ==
  /\ serial \in 0..MaxSerial /\ captures \in BOOLEAN
  /\ IsFiniteSet(listeners) /\ listeners \subseteq Registrations /\ \A l \in listeners : l.serial \in 1..serial
  /\ \A k, l \in listeners : k.serial = l.serial => k = l
  /\ \A k, l \in listeners : k.name = l.name /\ k.handler = l.handler /\ k.once = l.once => k = l
  /\ rank \in [Names \X Handlers -> [priority : Int, order : (-serial)..serial]]
  /\ \A l \in listeners : rank[<<l.name, l.handler>>].order # 0
  /\ \A x, y \in Names \X Handlers : rank[x].order = rank[y].order => x = y \/ rank[x].order = 0
  /\ onces \subseteq 1..serial

\* emit() calls each listener that matches, and calls it once.
LEMMA CollectsEach ==
  ASSUME ListenersTyped, NEW name
  PROVE  /\ Collected(name) \in Seq(Matching(name))
         /\ \A i, j \in DOMAIN Collected(name) : Collected(name)[i] = Collected(name)[j] => i = j
         /\ \A l \in Matching(name) : \E i \in DOMAIN Collected(name) : Collected(name)[i] = l
<1> DEFINE S == Matching(name)
           R == {x \in S \X S : Before(x[1], x[2])}
           Pred(l) == {k \in S : Before(k, l)}
           n == Cardinality(S)
<1>1. S \subseteq listeners /\ IsFiniteSet(S)
  <2>1. S \in SUBSET listeners BY DEF Matching
  <2> QED BY <2>1, FS_Subset DEF ListenersTyped
<1>2. \A k, l \in S : <<k, l>> \in R <=> Before(k, l) OBVIOUS
<1>3. ASSUME NEW l \in S
      PROVE  /\ l \in Registrations /\ <<l.name, l.handler>> \in Names \X Handlers
             /\ rank[<<l.name, l.handler>>].priority \in Int /\ rank[<<l.name, l.handler>>].order \in Int
  <2>1. l \in Registrations BY <1>1 DEF ListenersTyped
  <2>2. <<l.name, l.handler>> \in Names \X Handlers BY <2>1 DEF Registrations
  <2>3. serial \in Int BY EventsAssumption DEF ListenersTyped
  <2>4. PICK r \in [priority : Int, order : (-serial)..serial] : r = rank[<<l.name, l.handler>>]
    BY <2>2 DEF ListenersTyped
  <2>5. r.priority \in Int /\ r.order \in Int BY <2>3, <2>4
  <2> QED BY <2>1, <2>2, <2>4, <2>5
<1>4. \A l \in S : ~Before(l, l)
  <2> SUFFICES ASSUME NEW l \in S PROVE ~Before(l, l) OBVIOUS
  <2>1. rank[<<l.name, l.handler>>].priority \in Int /\ rank[<<l.name, l.handler>>].order \in Int BY <1>3
  <2>2. l.once \in BOOLEAN BY <1>3 DEF Registrations
  <2>3. ~(~l.once /\ l.once) OBVIOUS
  <2> QED BY <2>1, <2>3 DEF Before
<1>5. \A j, k, l \in S : Before(j, k) /\ Before(k, l) => Before(j, l) BY <1>3 DEF Before
<1>6. ASSUME NEW k \in S, NEW l \in S, k # l PROVE Before(k, l) \/ Before(l, k)
  <2>1. CASE <<k.name, k.handler>> = <<l.name, l.handler>>
    <3>1. k.once # l.once BY <1>1, <1>6, <2>1 DEF ListenersTyped
    <3>2. k.once \in BOOLEAN /\ l.once \in BOOLEAN BY <1>3 DEF Registrations
    <3>3. CASE k.once BY <2>1, <3>1, <3>2, <3>3 DEF Before
    <3>4. CASE ~k.once BY <2>1, <3>1, <3>2, <3>4 DEF Before
    <3> QED BY <3>3, <3>4
  <2>2. CASE <<k.name, k.handler>> # <<l.name, l.handler>>
    <3>1. rank[<<k.name, k.handler>>].order # rank[<<l.name, l.handler>>].order
      BY <1>1, <1>3, <2>2 DEF ListenersTyped
    <3> QED BY <1>3, <3>1 DEF Before
  <2> QED BY <2>1, <2>2
<1>7. /\ n \in Nat
      /\ \A l \in S : Cardinality(Pred(l)) \in 0..(n - 1)
      /\ \A k, l \in S : Cardinality(Pred(k)) = Cardinality(Pred(l)) => k = l
      /\ \A i \in 1..n : \E l \in S : Cardinality(Pred(l)) = i - 1
  <2>1. \A l \in S : <<l, l>> \notin R BY <1>4
  <2>2. \A j, k, l \in S : <<j, k>> \in R /\ <<k, l>> \in R => <<j, l>> \in R BY <1>2, <1>5
  <2>3. \A k, l \in S : k # l => <<k, l>> \in R \/ <<l, k>> \in R BY <1>2, <1>6
  <2>4. \A l \in S : Pred(l) = Under(R, S, l) BY <1>2 DEF Under
  <2>5. IsFiniteSet(S) BY <1>1
  <2>6. /\ Cardinality(S) \in Nat
        /\ \A l \in S : Cardinality(Under(R, S, l)) \in 0..(Cardinality(S) - 1)
        /\ \A k, l \in S : Cardinality(Under(R, S, k)) = Cardinality(Under(R, S, l)) => k = l
        /\ \A i \in 1..Cardinality(S) : \E l \in S : Cardinality(Under(R, S, l)) = i - 1
    <3> HIDE DEF S, R
    <3>1. StrictOrder(R, S) BY <2>1, <2>2, <2>3 DEF StrictOrder
    <3> QED BY <2>5, <3>1, Ranked
  <2> HIDE DEF S, R, Pred
  <2> QED BY <2>4, <2>6
<1>9. Collected(name) = [i \in 1..n |-> CHOOSE l \in S : Cardinality(Pred(l)) = i - 1]
  BY DEF Collected
<1>10. ASSUME NEW i \in 1..n PROVE Collected(name)[i] \in S /\ Cardinality(Pred(Collected(name)[i])) = i - 1
  <2> HIDE DEF S, n, Pred
  <2> QED BY <1>7, <1>9
<1>11. DOMAIN Collected(name) = 1..n BY <1>9
<1>12. Collected(name) \in Seq(S)
  <2> HIDE DEF S, n, Pred
  <2>1. Collected(name) = [i \in 1..n |-> Collected(name)[i]] BY <1>9
  <2>2. Collected(name) \in [1..n -> S] BY <1>10, <2>1
  <2> QED BY <1>7, <2>2
<1>13. ASSUME NEW l \in S PROVE \E i \in 1..n : Collected(name)[i] = l
  <2> DEFINE i == Cardinality(Pred(l)) + 1
  <2>1. i \in 1..n /\ i - 1 = Cardinality(Pred(l))
    <3> HIDE DEF S, n, Pred
    <3> QED BY <1>7
  <2>2. Cardinality(Pred(Collected(name)[i])) = Cardinality(Pred(l)) /\ Collected(name)[i] \in S
    <3> HIDE DEF i, S, n, Pred
    <3> QED BY <1>10, <2>1
  <2>3. Collected(name)[i] = l
    <3> HIDE DEF i, S, n, Pred
    <3> QED BY <1>7, <2>2
  <2> QED BY <2>1, <2>3
<1>14. \A i, j \in 1..n : Collected(name)[i] = Collected(name)[j] => i = j
  <2> HIDE DEF S, n, Pred
  <2>1. \A i, j \in 1..n : i - 1 = j - 1 => i = j BY <1>7
  <2> QED BY <1>10, <2>1
<1> HIDE DEF n, Pred, R
<1> QED BY <1>11, <1>12, <1>13, <1>14

LEMMA ListenersStep == ASSUME ListenersTyped, [EventsNext]_eventVars PROVE ListenersTyped'
<1>. USE DEF ListenersTyped
<1>0. serial \in Nat /\ MaxSerial \in Nat BY EventsAssumption
<1>1. ASSUME NEW o \in Offers, Listen(o.name, o.handler, o.once, o.priority, o.prepend) PROVE ListenersTyped'
  <2> DEFINE new == [name |-> o.name, handler |-> o.handler, once |-> o.once, serial |-> serial + 1]
             key == <<o.name, o.handler>>
             place == IF o.prepend THEN -(serial + 1) ELSE serial + 1
  <2>1. /\ serial' = serial + 1 /\ serial' \in 0..MaxSerial /\ captures' = captures
        /\ listeners' = listeners \cup {new}
        /\ rank' = [rank EXCEPT ![key] = [priority |-> o.priority, order |-> place]]
        /\ onces' \in {onces, onces \cup {serial + 1}}
        /\ \A l \in listeners : ~(l.name = o.name /\ l.handler = o.handler /\ l.once = o.once)
    BY <1>0, <1>1 DEF Listen
  <2>2. /\ o.name \in Names /\ o.handler \in Handlers /\ o.once \in BOOLEAN /\ o.priority \in Int /\ o.prepend \in BOOLEAN
        /\ key \in Names \X Handlers
    BY EventsAssumption
  <2>3. place \in (-(serial + 1))..(serial + 1) /\ place # 0 /\ place \notin (-serial)..serial BY <1>0, <2>2
  <2>4. new \in Registrations /\ new.name = o.name /\ new.handler = o.handler /\ new.once = o.once /\ new.serial = serial + 1
    BY <1>0, <2>2 DEF Registrations
  <2>5. PICK r \in [priority : Int, order : (-(serial + 1))..(serial + 1)] :
          r = [priority |-> o.priority, order |-> place] /\ r.order = place
    <3> HIDE DEF place
    <3>1. [priority |-> o.priority, order |-> place] \in [priority : Int, order : (-(serial + 1))..(serial + 1)]
      BY <2>2, <2>3
    <3>2. [priority |-> o.priority, order |-> place].order = place OBVIOUS
    <3> QED BY <3>1, <3>2
  <2>6. \A x \in Names \X Handlers : /\ rank[x] \in [priority : Int, order : (-serial)..serial]
                                     /\ rank[x].order \in (-serial)..serial
    OBVIOUS
  <2>7. [priority : Int, order : (-serial)..serial] \subseteq [priority : Int, order : (-(serial + 1))..(serial + 1)]
    BY <1>0
  <2> HIDE DEF new, key, place
  <2>8. rank' \in [Names \X Handlers -> [priority : Int, order : (-(serial + 1))..(serial + 1)]]
    BY <2>1, <2>2, <2>5, <2>6, <2>7
  <2>9. \A x \in Names \X Handlers : rank'[x] = IF x = key THEN r ELSE rank[x] BY <2>1, <2>2, <2>5
  <2>10. \A x, y \in Names \X Handlers : rank'[x].order = rank'[y].order => x = y \/ rank'[x].order = 0
    <3> SUFFICES ASSUME NEW x \in Names \X Handlers, NEW y \in Names \X Handlers, rank'[x].order = rank'[y].order, x # y
        PROVE  rank'[x].order = 0
      OBVIOUS
    <3>1. CASE x = key BY <2>3, <2>5, <2>6, <2>9, <3>1
    <3>2. CASE y = key BY <2>3, <2>5, <2>6, <2>9, <3>2
    <3>3. CASE x # key /\ y # key BY <2>9, <3>3
    <3> QED BY <3>1, <3>2, <3>3
  <2>11. \A l \in listeners : l.serial \in 1..serial /\ l.serial # serial + 1 BY <1>0
  <2>12. \A l \in listeners' : rank'[<<l.name, l.handler>>].order # 0
    <3> SUFFICES ASSUME NEW l \in listeners' PROVE rank'[<<l.name, l.handler>>].order # 0 OBVIOUS
    <3>1. CASE <<l.name, l.handler>> = key BY <2>2, <2>3, <2>5, <2>9, <3>1
    <3>2. CASE <<l.name, l.handler>> # key
      <4>1. l \in listeners BY <2>1, <2>4, <3>2 DEF key
      <4>2. <<l.name, l.handler>> \in Names \X Handlers BY <4>1 DEF Registrations
      <4> QED BY <2>9, <3>2, <4>1, <4>2
    <3> QED BY <3>1, <3>2
  <2>13. \A k, l \in listeners' : k.serial = l.serial => k = l BY <2>1, <2>4, <2>11
  <2>14. \A k, l \in listeners' : k.name = l.name /\ k.handler = l.handler /\ k.once = l.once => k = l
    BY <2>1, <2>4
  <2>15. IsFiniteSet(listeners') BY <2>1, FS_AddElement
  <2>16. listeners' \subseteq Registrations /\ \A l \in listeners' : l.serial \in 1..(serial + 1)
    BY <1>0, <2>1, <2>4, <2>11
  <2>17. Registrations' = Registrations BY DEF Registrations
  <2>18. onces' \subseteq 1..(serial + 1) BY <1>0, <2>1
  <2> QED BY <2>1, <2>8, <2>10, <2>12, <2>13, <2>14, <2>15, <2>16, <2>17, <2>18
<1>2. ASSUME UNCHANGED <<serial, captures, rank>>, listeners' \subseteq listeners, onces' \subseteq onces
      PROVE  ListenersTyped'
  <2>1. IsFiniteSet(listeners') BY <1>2, FS_Subset
  <2>2. Registrations' = Registrations BY DEF Registrations
  <2> QED BY <1>2, <2>1, <2>2
<1>3. CASE (\E n \in Names, h \in Handlers : Off(n, h)) \/ (\E ns \in {{n} : n \in Names} \cup {Names} : RemoveAll(ns))
  BY <1>2, <1>3 DEF Off, RemoveAll, Lose
<1>4. CASE \E n \in EmittedNames, strict \in BOOLEAN : Emit(n, strict) BY <1>2, <1>4 DEF Emit, Left
<1>5. CASE CallReturns \/ CallRaises \/ EmitReturns \/ ClearErrors \/ (\E t \in tasks : TaskEnds(t))
           \/ (\E n \in DOMAIN emits : AwaitEnds(n)) \/ UNCHANGED eventVars
  BY <1>2, <1>5 DEF CallReturns, CallRaises, EmitReturns, ClearErrors, TaskEnds, AwaitEnds, eventVars
<1> QED BY <1>1, <1>3, <1>4, <1>5 DEF EventsNext

\* A registration is about to be called by an emit(), f-th of those in progress, as
\* the i-th of those that are left.
Frame == [emit : Nat, todo : Seq(Registrations)]
WaitsAt(s, f, i) == f \in DOMAIN frames /\ i \in DOMAIN frames[f].todo /\ frames[f].todo[i].serial = s
Listed(s) == \E l \in listeners : l.serial = s

\* A once() registration is in one place.
OncePlaced(s) ==
  /\ Listed(s) => onceRuns[s] = 0 /\ \A f, i \in Nat : ~WaitsAt(s, f, i)
  /\ \A f, g, i, j \in Nat : WaitsAt(s, f, i) /\ WaitsAt(s, g, j) => f = g /\ i = j
  /\ (\E f, i \in Nat : WaitsAt(s, f, i)) => onceRuns[s] = 0
  /\ ~Listed(s) /\ (\A f, i \in Nat : ~WaitsAt(s, f, i)) => onceRuns[s] = 1

FramesTyped ==
  /\ frames \in Seq(Frame) /\ onceRuns \in [1..MaxSerial -> Nat]
  /\ \A l \in listeners : l.once <=> l.serial \in onces
  /\ \A s, f, i \in Nat : WaitsAt(s, f, i) =>
       s \in 1..serial /\ (s \in onces => frames[f].todo[i].once)
  /\ \A s \in 1..MaxSerial : s > serial => onceRuns[s] = 0

OnceInv == FramesTyped /\ \A s \in onces : OncePlaced(s)

LEMMA WaitsNat == ASSUME FramesTyped, NEW s, NEW f, NEW i, WaitsAt(s, f, i) PROVE s \in Nat /\ f \in Nat /\ i \in Nat
<1>1. f \in Nat /\ frames[f] \in Frame BY DEF FramesTyped, WaitsAt
<1>2. frames[f].todo \in Seq(Registrations) BY <1>1 DEF Frame
<1>3. i \in Nat /\ frames[f].todo[i] \in Registrations BY <1>2 DEF WaitsAt
<1> QED BY <1>1, <1>3 DEF WaitsAt, Registrations

\* What CalledOnce's sets count.
LEMMA OneWaits ==
  ASSUME ListenersTyped, FramesTyped, NEW s \in onces, OncePlaced(s)
  PROVE  Cardinality({l \in listeners : l.serial = s})
         + Cardinality({f \in DOMAIN frames : \E i \in DOMAIN frames[f].todo : frames[f].todo[i].serial = s})
         + onceRuns[s] = 1
<1> DEFINE L == {l \in listeners : l.serial = s}
           F == {f \in DOMAIN frames : \E i \in DOMAIN frames[f].todo : frames[f].todo[i].serial = s}
<1>1. \A f \in F : \E i : WaitsAt(s, f, i) BY DEF WaitsAt
<1>2. \A f, i : WaitsAt(s, f, i) => f \in F /\ f \in Nat /\ i \in Nat BY WaitsNat DEF WaitsAt
<1>3. CASE Listed(s)
  <2>1. PICK l \in listeners : l.serial = s BY <1>3 DEF Listed
  <2>2. L = {l} BY <2>1 DEF ListenersTyped
  <2>3. F = {} BY <1>1, <1>2, <1>3 DEF OncePlaced
  <2>4. Cardinality(L) = 1 /\ Cardinality(F) = 0 BY <2>2, <2>3, FS_Singleton, FS_EmptySet
  <2> HIDE DEF L, F
  <2>5. onceRuns[s] = 0 BY <1>3 DEF OncePlaced
  <2>6. Cardinality(L) + Cardinality(F) + onceRuns[s] = 1 BY <2>4, <2>5
  <2> QED BY <2>6 DEF L, F
<1>4. CASE ~Listed(s)
  <2>1. L = {} BY <1>4 DEF Listed
  <2>2. Cardinality(L) = 0 BY <2>1, FS_EmptySet
  <2>3. CASE F = {}
    <3>1. onceRuns[s] = 1 BY <1>2, <1>4, <2>3 DEF OncePlaced
    <3>2. Cardinality(F) = 0 BY <2>3, FS_EmptySet
    <3> HIDE DEF L, F
    <3>3. Cardinality(L) + Cardinality(F) + onceRuns[s] = 1 BY <2>2, <3>1, <3>2
    <3> QED BY <3>3 DEF L, F
  <2>4. CASE F # {}
    <3>1. PICK g \in F : TRUE BY <2>4
    <3>2. \A f \in F : f = g BY <1>1, <1>2, <3>1 DEF OncePlaced
    <3>3. F = {g} BY <3>1, <3>2
    <3>4. onceRuns[s] = 0 BY <1>1, <1>2, <3>1 DEF OncePlaced
    <3>5. Cardinality(F) = 1 BY <3>3, FS_Singleton
    <3> HIDE DEF L, F
    <3>6. Cardinality(L) + Cardinality(F) + onceRuns[s] = 1 BY <2>2, <3>4, <3>5
    <3> QED BY <3>6 DEF L, F
  <2> QED BY <2>3, <2>4
<1> QED BY <1>3, <1>4

LEMMA OuterFrames ==
  ASSUME frames \in Seq(Frame), InHandler
  PROVE  Outer \in Seq(Frame) /\ Len(Outer) = Len(frames) - 1 /\ \A f \in 1..(Len(frames) - 1) : Outer[f] = frames[f]
<1>1. Len(frames) \in Nat /\ Len(frames) # 0 BY DEF InHandler
<1>2. Outer \in Seq(Frame) /\ \A f \in DOMAIN Outer : Outer[f] = frames[f] BY <1>1 DEF Outer
<1>3. DOMAIN Outer = 1..(Len(frames) - 1) BY <1>1 DEF Outer
<1>4. Len(Outer) = Len(frames) - 1
  <2>1. Len(Outer) \in Nat /\ 1..Len(Outer) = 1..(Len(frames) - 1) BY <1>2, <1>3
  <2>2. Len(frames) \notin 1..Len(Outer) /\ Len(Outer) + 1 \notin 1..(Len(frames) - 1) BY <1>1, <2>1
  <2> QED BY <1>1, <2>1, <2>2
<1> QED BY <1>2, <1>3, <1>4

\* The innermost emit() goes on to the next listener it has taken.
LEMMA CalledNext ==
  ASSUME frames \in Seq(Frame), InHandler, Top.todo # <<>>, frames' = Called
  PROVE  /\ Len(frames) \in DOMAIN frames /\ frames[Len(frames)] = Top /\ Top \in Frame /\ 1 \in DOMAIN Top.todo
         /\ frames' \in Seq(Frame) /\ DOMAIN frames' = DOMAIN frames
         /\ \A f \in DOMAIN frames : f # Len(frames) => frames'[f] = frames[f]
         /\ frames'[Len(frames)].emit = Top.emit
         /\ \A i \in Nat : i \in DOMAIN frames'[Len(frames)].todo <=> i \in Nat \ {0} /\ i + 1 \in DOMAIN Top.todo
         /\ \A i \in DOMAIN frames'[Len(frames)].todo : frames'[Len(frames)].todo[i] = Top.todo[i + 1]
<1> DEFINE n == Len(frames)
           next == [Top EXCEPT !.todo = Tail(@)]
<1>1. n \in Nat \ {0} /\ n \in DOMAIN frames /\ Top = frames[n] /\ Top \in Frame BY DEF InHandler, Top
<1>2. Top.todo \in Seq(Registrations) /\ Top.emit \in Nat BY <1>1 DEF Frame
<1>3. /\ Tail(Top.todo) \in Seq(Registrations) /\ 1 \in DOMAIN Top.todo /\ Len(Tail(Top.todo)) = Len(Top.todo) - 1
      /\ \A i \in 1..Len(Tail(Top.todo)) : Tail(Top.todo)[i] = Top.todo[i + 1]
  BY <1>2
<1>4. next \in Frame /\ next.emit = Top.emit /\ next.todo = Tail(Top.todo) BY <1>1, <1>2, <1>3 DEF Frame
<1>5. Outer \in Seq(Frame) /\ Len(Outer) = n - 1 /\ \A f \in 1..(n - 1) : Outer[f] = frames[f]
  BY OuterFrames
<1>6. frames' = Append(Outer, next) BY DEF Called
<1> HIDE DEF next
<1>7. frames' \in Seq(Frame) /\ Len(frames') = n /\ frames'[n] = next /\ \A f \in 1..(n - 1) : frames'[f] = frames[f]
  BY <1>1, <1>4, <1>5, <1>6
<1>8. \A i \in Nat : i \in DOMAIN next.todo <=> i \in Nat \ {0} /\ i + 1 \in DOMAIN Top.todo BY <1>2, <1>3, <1>4
<1>9. \A i \in DOMAIN next.todo : next.todo[i] = Top.todo[i + 1] BY <1>3, <1>4
<1>10. DOMAIN frames' = DOMAIN frames /\ \A f \in DOMAIN frames : f # n => frames'[f] = frames[f]
  <2>1. DOMAIN frames' = 1..n /\ DOMAIN frames = 1..n BY <1>1, <1>7
  <2>2. \A f \in 1..n : f # n => f \in 1..(n - 1) BY <1>1
  <2> QED BY <1>7, <2>1, <2>2
<1> QED BY <1>1, <1>3, <1>4, <1>7, <1>8, <1>9, <1>10

\* What is about to be called after it.
LEMMA WaitsNext ==
  ASSUME frames \in Seq(Frame), InHandler, Top.todo # <<>>, frames' = Called
  PROVE  \A s, f, i \in Nat :
           WaitsAt(s, f, i)' <=> IF f = Len(frames) THEN i # 0 /\ WaitsAt(s, f, i + 1) ELSE WaitsAt(s, f, i)
<1> SUFFICES ASSUME NEW s \in Nat, NEW f \in Nat, NEW i \in Nat
    PROVE  WaitsAt(s, f, i)' <=> IF f = Len(frames) THEN i # 0 /\ WaitsAt(s, f, i + 1) ELSE WaitsAt(s, f, i)
  OBVIOUS
<1>1. CASE f = Len(frames) BY <1>1, CalledNext DEF WaitsAt
<1>2. CASE f # Len(frames) BY <1>2, CalledNext DEF WaitsAt
<1> QED BY <1>1, <1>2

\* emit() returns, or raises what a listener raised.
LEMMA WaitsOuter ==
  ASSUME frames \in Seq(Frame), InHandler, frames' = Outer
  PROVE  /\ frames' \in Seq(Frame)
         /\ DOMAIN frames' = DOMAIN frames \ {Len(frames)} /\ \A f \in DOMAIN frames' : frames'[f] = frames[f]
         /\ \A s, f, i \in Nat : WaitsAt(s, f, i)' <=> f # Len(frames) /\ WaitsAt(s, f, i)
<1>1. /\ frames' \in Seq(Frame) /\ DOMAIN frames' = DOMAIN frames \ {Len(frames)}
      /\ \A f \in DOMAIN frames' : frames'[f] = frames[f]
  BY DEF InHandler, Outer
<1> QED BY <1>1 DEF WaitsAt

\* emit() takes the listeners it is going to call.
LEMMA WaitsTaken ==
  ASSUME ListenersTyped, frames \in Seq(Frame), NEW name, NEW n \in Nat,
         frames' = Append(frames, [emit |-> n, todo |-> Collected(name)])
  PROVE  /\ frames' \in Seq(Frame) /\ DOMAIN frames' = DOMAIN frames \cup {Len(frames) + 1}
         /\ \A f \in DOMAIN frames : frames'[f] = frames[f]
         /\ frames'[Len(frames) + 1] = [emit |-> n, todo |-> Collected(name)]
         /\ \A s, f, i \in Nat :
              WaitsAt(s, f, i)' <=> IF f = Len(frames) + 1 THEN i \in DOMAIN Collected(name) /\ Collected(name)[i].serial = s
                                  ELSE WaitsAt(s, f, i)
<1> DEFINE new == [emit |-> n, todo |-> Collected(name)]
<1>1. Collected(name) \in Seq(Registrations)
  <2>1. Matching(name) \subseteq Registrations BY DEF Matching, ListenersTyped
  <2>2. Collected(name) \in Seq(Matching(name)) BY CollectsEach
  <2> QED BY <2>1, <2>2
<1>2. new \in Frame /\ new.todo = Collected(name) BY <1>1 DEF Frame
<1> HIDE DEF new
<1>3. /\ frames' \in Seq(Frame) /\ Len(frames') = Len(frames) + 1 /\ frames'[Len(frames) + 1] = new
      /\ \A f \in 1..Len(frames) : frames'[f] = frames[f]
  BY <1>2 DEF new
<1>4. DOMAIN frames' = DOMAIN frames \cup {Len(frames) + 1} /\ \A f \in DOMAIN frames : f # Len(frames) + 1 BY <1>3
<1>5. \A s, f, i \in Nat :
        WaitsAt(s, f, i)' <=> IF f = Len(frames) + 1 THEN i \in DOMAIN new.todo /\ new.todo[i].serial = s
                            ELSE WaitsAt(s, f, i)
  BY <1>3, <1>4 DEF WaitsAt
<1>6. \A s, f, i \in Nat :
        WaitsAt(s, f, i)' <=> IF f = Len(frames) + 1 THEN i \in DOMAIN Collected(name) /\ Collected(name)[i].serial = s
                            ELSE WaitsAt(s, f, i)
  BY <1>2, <1>5
<1> QED BY <1>3, <1>4, <1>6 DEF new

\* A listener has been called: the once() ones among those that wait are one fewer.
LEMMA CalledStep ==
  ASSUME ListenersTyped, ListenersTyped', OnceInv, InHandler, Top.todo # <<>>,
         onceRuns' = RunsAfter(Head(Top.todo)), UNCHANGED <<listeners, serial>>,
         (frames' = Called /\ onces' = onces) \/ (frames' = Outer /\ onces' = onces \ Dropped)
  PROVE  OnceInv'
<1>. USE DEF OnceInv
<1> DEFINE n == Len(frames)
<1>0. serial \in Nat /\ MaxSerial \in Nat /\ serial <= MaxSerial BY EventsAssumption DEF ListenersTyped
<1>1. frames \in Seq(Frame) /\ n \in Nat BY DEF FramesTyped
<1>2. PICK l : l = Head(Top.todo) OBVIOUS
<1>3. Top = frames[n] /\ n \in DOMAIN frames /\ Top.todo \in Seq(Registrations)
  <2>1. Top = frames[n] /\ n \in DOMAIN frames BY <1>1 DEF InHandler, Top
  <2>2. Top \in Frame BY <1>1, <2>1
  <2> QED BY <2>1, <2>2 DEF Frame
<1>4. 1 \in DOMAIN Top.todo /\ l = Top.todo[1] /\ l \in Registrations BY <1>2, <1>3
<1>5. l.serial \in Nat /\ WaitsAt(l.serial, n, 1) BY <1>3, <1>4 DEF WaitsAt, Registrations
<1>6. l.serial \in 1..serial /\ (l.serial \in onces => l.once)
  <2>1. frames[n].todo[1] = l BY <1>3, <1>4
  <2> QED BY <1>1, <1>5, <2>1 DEF FramesTyped
<1>7. onceRuns' = IF l.once THEN [onceRuns EXCEPT ![l.serial] = @ + 1] ELSE onceRuns BY <1>2 DEF RunsAfter
<1>8. onceRuns' \in [1..MaxSerial -> Nat] /\ \A s \in 1..MaxSerial : s > serial => onceRuns'[s] = 0
  <2>1. onceRuns \in [1..MaxSerial -> Nat] /\ \A s \in 1..MaxSerial : s > serial => onceRuns[s] = 0 BY DEF FramesTyped
  <2>2. l.serial \in 1..MaxSerial /\ onceRuns[l.serial] + 1 \in Nat /\ ~(l.serial > serial) BY <1>0, <1>6, <2>1
  <2>3. CASE l.once BY <1>7, <2>1, <2>2, <2>3
  <2>4. CASE ~l.once BY <1>7, <2>1, <2>4
  <2> QED BY <2>3, <2>4
<1>9. \A s \in 1..MaxSerial : onceRuns'[s] = IF l.once /\ s = l.serial THEN onceRuns[s] + 1 ELSE onceRuns[s]
  BY <1>7 DEF FramesTyped
<1>10. frames' \in Seq(Frame) /\ \A s, f, i \in Nat : WaitsAt(s, f, i)' =>
         \E j \in Nat : WaitsAt(s, f, j) /\ frames'[f].todo[i] = frames[f].todo[j]
  <2>1. CASE frames' = Called
    <3>1. frames' \in Seq(Frame) BY <1>1, <2>1, CalledNext
    <3> SUFFICES ASSUME NEW s \in Nat, NEW f \in Nat, NEW i \in Nat, WaitsAt(s, f, i)'
                 PROVE  \E j \in Nat : WaitsAt(s, f, j) /\ frames'[f].todo[i] = frames[f].todo[j]
      BY <3>1
    <3>2. CASE f = n
      <4>1. i + 1 \in Nat /\ WaitsAt(s, f, i + 1) BY <1>1, <2>1, <3>2, WaitsNext
      <4>2. frames'[f].todo[i] = Top.todo[i + 1] BY <1>1, <2>1, <3>2, CalledNext DEF WaitsAt
      <4> QED BY <1>3, <3>2, <4>1, <4>2
    <3>3. CASE f # n
      <4>1. WaitsAt(s, f, i) BY <1>1, <2>1, <3>3, WaitsNext
      <4>2. frames'[f] = frames[f] BY <1>1, <2>1, <3>3, <4>1, CalledNext DEF WaitsAt
      <4> QED BY <4>1, <4>2
    <3> QED BY <3>2, <3>3
  <2>2. CASE frames' = Outer BY <1>1, <2>2, WaitsOuter DEF WaitsAt
  <2> QED BY <2>1, <2>2
<1>11. Frame' = Frame BY DEF Frame, Registrations
<1>12. FramesTyped'
  <2>1. \A s, f, i \in Nat : WaitsAt(s, f, i)' => s \in 1..serial /\ (s \in onces' => frames'[f].todo[i].once)
    <3> SUFFICES ASSUME NEW s \in Nat, NEW f \in Nat, NEW i \in Nat, WaitsAt(s, f, i)'
                 PROVE  s \in 1..serial /\ (s \in onces' => frames'[f].todo[i].once)
      OBVIOUS
    <3>1. PICK j \in Nat : WaitsAt(s, f, j) /\ frames'[f].todo[i] = frames[f].todo[j] BY <1>10
    <3>2. s \in 1..serial /\ (s \in onces => frames[f].todo[j].once) BY <3>1 DEF FramesTyped
    <3>3. s \in onces' => s \in onces OBVIOUS
    <3> QED BY <3>1, <3>2, <3>3
  <2>2. ASSUME NEW k \in listeners, k.serial \in onces PROVE k.serial \notin Dropped
    <3>1. \A i \in Nat : ~WaitsAt(k.serial, n, i) BY <1>1, <2>2 DEF OncePlaced, Listed
    <3>2. \A i \in 2..Len(Top.todo) : i \in Nat /\ i \in DOMAIN Top.todo BY <1>3
    <3> QED BY <1>3, <3>1, <3>2 DEF Dropped, WaitsAt
  <2>3. \A k \in listeners : k.once <=> k.serial \in onces' BY <2>2 DEF FramesTyped
  <2> QED BY <1>8, <1>10, <1>11, <2>1, <2>3 DEF FramesTyped
<1>13. ASSUME frames' = Called, NEW s \in onces PROVE OncePlaced(s)'
  <2>1. s \in 1..serial /\ s \in Nat /\ s \in 1..MaxSerial BY <1>0 DEF ListenersTyped
  <2>2. \A f, i \in Nat : WaitsAt(s, f, i)' <=> IF f = n THEN i # 0 /\ WaitsAt(s, f, i + 1) ELSE WaitsAt(s, f, i)
    BY <1>1, <1>13, <2>1, WaitsNext
  <2>3. OncePlaced(s) BY <1>13
  <2>4. Listed(s)' <=> Listed(s) BY DEF Listed
  <2>5. CASE s = l.serial
    <3>1. l.once BY <1>6, <1>13, <2>5
    <3>2. WaitsAt(s, n, 1) /\ ~Listed(s) /\ onceRuns[s] = 0 BY <1>1, <1>5, <2>3, <2>5 DEF OncePlaced
    <3>3. \A f, i \in Nat : WaitsAt(s, f, i) => f = n /\ i = 1 BY <1>1, <2>3, <3>2 DEF OncePlaced
    <3>4. \A f, i \in Nat : ~WaitsAt(s, f, i)' BY <1>1, <2>2, <3>3
    <3>5. onceRuns'[s] = 1 BY <1>9, <2>1, <2>5, <3>1, <3>2
    <3> QED BY <2>4, <3>2, <3>4, <3>5 DEF OncePlaced
  <2>6. CASE s # l.serial
    <3>1. onceRuns'[s] = onceRuns[s] BY <1>9, <2>1, <2>6
    <3>2. ~WaitsAt(s, n, 1) BY <1>3, <1>4, <2>6 DEF WaitsAt
    <3>3. ~WaitsAt(s, n, 0) BY <1>3 DEF WaitsAt
    <3>4. \A f, i \in Nat : WaitsAt(s, f, i)' => \E j \in Nat : WaitsAt(s, f, j) /\ (f = n => j = i + 1) /\ (f # n => j = i)
      BY <2>2
    <3>5. \A f, j \in Nat : WaitsAt(s, f, j) => \E i \in Nat : WaitsAt(s, f, i)'
      <4> SUFFICES ASSUME NEW f \in Nat, NEW j \in Nat, WaitsAt(s, f, j) PROVE \E i \in Nat : WaitsAt(s, f, i)'
        OBVIOUS
      <4>1. CASE f = n
        <5>1. j - 1 \in Nat /\ j - 1 # 0 /\ (j - 1) + 1 = j BY <3>2, <3>3, <4>1
        <5> QED BY <2>2, <4>1, <5>1
      <4>2. CASE f # n BY <2>2, <4>2
      <4> QED BY <4>1, <4>2
    <3>6. \A f, g, i, j \in Nat : WaitsAt(s, f, i)' /\ WaitsAt(s, g, j)' => f = g /\ i = j
      <4> SUFFICES ASSUME NEW f \in Nat, NEW g \in Nat, NEW i \in Nat, NEW j \in Nat, WaitsAt(s, f, i)', WaitsAt(s, g, j)'
                   PROVE  f = g /\ i = j
        OBVIOUS
      <4>1. PICK a \in Nat : WaitsAt(s, f, a) /\ (f = n => a = i + 1) /\ (f # n => a = i) BY <3>4
      <4>2. PICK b \in Nat : WaitsAt(s, g, b) /\ (g = n => b = j + 1) /\ (g # n => b = j) BY <3>4
      <4>3. f = g /\ a = b BY <2>3, <4>1, <4>2 DEF OncePlaced
      <4> QED BY <4>1, <4>2, <4>3
    <3>7. (\E f, i \in Nat : WaitsAt(s, f, i)') <=> (\E f, i \in Nat : WaitsAt(s, f, i)) BY <3>4, <3>5
    <3> QED BY <2>3, <2>4, <3>1, <3>6, <3>7 DEF OncePlaced
  <2> QED BY <2>5, <2>6
<1>14. ASSUME frames' = Outer, NEW s \in onces \ Dropped PROVE OncePlaced(s)'
  <2>1. s \in 1..serial /\ s \in Nat /\ s \in 1..MaxSerial
    <3>1. s \in onces /\ onces \subseteq 1..serial BY <1>14 DEF ListenersTyped
    <3> QED BY <1>0, <3>1
  <2>2. \A f, i \in Nat : WaitsAt(s, f, i)' <=> f # n /\ WaitsAt(s, f, i) BY <1>1, <1>14, <2>1, WaitsOuter
  <2>3. OncePlaced(s) BY <1>14
  <2>4. Listed(s)' <=> Listed(s) BY DEF Listed
  <2>5. CASE s = l.serial
    <3>1. l.once BY <1>6, <1>14, <2>5
    <3>2. WaitsAt(s, n, 1) /\ ~Listed(s) /\ onceRuns[s] = 0 BY <1>1, <1>5, <2>3, <2>5 DEF OncePlaced
    <3>3. \A f, i \in Nat : ~WaitsAt(s, f, i)' BY <1>1, <2>2, <2>3, <3>2 DEF OncePlaced
    <3>4. onceRuns'[s] = 1 BY <1>9, <2>1, <2>5, <3>1, <3>2
    <3> QED BY <2>4, <3>2, <3>3, <3>4 DEF OncePlaced
  <2>6. CASE s # l.serial
    <3>1. onceRuns'[s] = onceRuns[s] BY <1>9, <2>1, <2>6
    <3>2. \A i \in Nat : ~WaitsAt(s, n, i)
      <4> SUFFICES ASSUME NEW i \in Nat, WaitsAt(s, n, i) PROVE FALSE OBVIOUS
      <4>1. i \in DOMAIN Top.todo /\ Top.todo[i].serial = s BY <1>3 DEF WaitsAt
      <4>2. i # 1 BY <1>4, <2>6, <4>1
      <4>3. i \in 2..Len(Top.todo) BY <1>3, <4>1, <4>2
      <4> QED BY <1>14, <4>1, <4>3 DEF Dropped
    <3>3. \A f, i \in Nat : WaitsAt(s, f, i)' <=> WaitsAt(s, f, i) BY <2>2, <3>2
    <3> QED BY <2>3, <2>4, <3>1, <3>3 DEF OncePlaced
  <2> QED BY <2>5, <2>6
<1> QED BY <1>12, <1>13, <1>14

LEMMA OnceStep == ASSUME ListenersTyped, ListenersTyped', OnceInv, [EventsNext]_eventVars PROVE OnceInv'
<1>. USE DEF OnceInv
<1>0. /\ serial \in Nat /\ MaxSerial \in Nat /\ serial <= MaxSerial /\ frames \in Seq(Frame)
      /\ Frame' = Frame /\ \A s \in onces : s \in Nat /\ s \in 1..MaxSerial /\ s <= serial
  BY EventsAssumption DEF ListenersTyped, FramesTyped, Frame, Registrations
<1>1. ASSUME NEW o \in Offers, Listen(o.name, o.handler, o.once, o.priority, o.prepend) PROVE OnceInv'
  <2> DEFINE new == [name |-> o.name, handler |-> o.handler, once |-> o.once, serial |-> serial + 1]
  <2>1. /\ serial' = serial + 1 /\ serial + 1 \in 1..MaxSerial /\ listeners' = listeners \cup {new}
        /\ onces' = (IF o.once THEN onces \cup {serial + 1} ELSE onces)
        /\ UNCHANGED <<frames, onceRuns>>
    BY <1>0, <1>1 DEF Listen
  <2>2. o.once \in BOOLEAN BY EventsAssumption
  <2>3. new.serial = serial + 1 /\ new.once = o.once OBVIOUS
  <2> HIDE DEF new
  <2>4. \A s, f, i \in Nat : WaitsAt(s, f, i)' <=> WaitsAt(s, f, i) BY <2>1 DEF WaitsAt
  <2>5. \A s, f, i \in Nat : WaitsAt(s, f, i) => s \in 1..serial /\ s # serial + 1 BY <1>0 DEF FramesTyped
  <2>6. \A l \in listeners : l.serial # serial + 1 BY <1>0 DEF ListenersTyped
  <2>7. FramesTyped'
    <3>1. \A l \in listeners' : l.once <=> l.serial \in onces'
      <4> SUFFICES ASSUME NEW l \in listeners' PROVE l.once <=> l.serial \in onces' OBVIOUS
      <4>1. CASE l = new
        <5>1. serial + 1 \notin onces BY <1>0
        <5> QED BY <2>1, <2>2, <2>3, <4>1, <5>1
      <4>2. CASE l # new
        <5>1. l \in listeners BY <2>1, <4>2
        <5> QED BY <2>1, <2>6, <5>1 DEF FramesTyped
      <4> QED BY <4>1, <4>2
    <3>2. \A s, f, i \in Nat : WaitsAt(s, f, i)' => s \in 1..serial' /\ (s \in onces' => frames'[f].todo[i].once)
      BY <1>0, <2>1, <2>4, <2>5 DEF FramesTyped
    <3>3. \A s \in 1..MaxSerial : s > serial' => onceRuns'[s] = 0 BY <1>0, <2>1 DEF FramesTyped
    <3>4. frames' \in Seq(Frame') /\ onceRuns' \in [1..MaxSerial -> Nat] BY <1>0, <2>1 DEF FramesTyped
    <3> QED BY <3>1, <3>2, <3>3, <3>4 DEF FramesTyped
  <2>8. ASSUME NEW s \in onces' PROVE OncePlaced(s)'
    <3>1. CASE s \in onces
      <4>1. Listed(s)' <=> Listed(s) BY <1>0, <2>1, <2>3, <3>1 DEF Listed
      <4>2. OncePlaced(s) BY <2>8, <3>1
      <4> QED BY <1>0, <2>1, <2>4, <3>1, <4>1, <4>2 DEF OncePlaced
    <3>2. CASE s = serial + 1
      <4>1. Listed(s)' BY <2>1, <2>3, <3>2 DEF Listed
      <4>2. \A f, i \in Nat : ~WaitsAt(s, f, i)' BY <1>0, <2>4, <2>5, <3>2
      <4>3. onceRuns'[s] = 0 BY <1>0, <2>1, <3>2 DEF FramesTyped
      <4> QED BY <4>1, <4>2, <4>3 DEF OncePlaced
    <3> QED BY <2>1, <3>1, <3>2
  <2> QED BY <2>1, <2>7, <2>8
<1>2. ASSUME NEW lost \in SUBSET listeners, Lose(lost) PROVE OnceInv'
  <2>1. /\ listeners' = listeners \ lost /\ onces' = onces \ {l.serial : l \in lost}
        /\ UNCHANGED <<serial, frames, onceRuns>>
    BY <1>2 DEF Lose
  <2>2. \A s, f, i \in Nat : WaitsAt(s, f, i)' <=> WaitsAt(s, f, i) BY <2>1 DEF WaitsAt
  <2>3. \A l \in listeners' : l \in listeners /\ l.serial \notin {k.serial : k \in lost} BY <2>1 DEF ListenersTyped
  <2>4. FramesTyped'
    <3>1. \A l \in listeners' : l.once <=> l.serial \in onces' BY <2>1, <2>3 DEF FramesTyped
    <3>2. \A s, f, i \in Nat : WaitsAt(s, f, i)' => s \in 1..serial' /\ (s \in onces' => frames'[f].todo[i].once)
      BY <2>1, <2>2 DEF FramesTyped
    <3> QED BY <1>0, <2>1, <3>1, <3>2 DEF FramesTyped
  <2>5. ASSUME NEW s \in onces' PROVE OncePlaced(s)'
    <3>1. s \in onces /\ \A l \in lost : l.serial # s BY <2>1
    <3>2. Listed(s)' <=> Listed(s) BY <2>1, <3>1 DEF Listed
    <3>3. OncePlaced(s) BY <2>5, <3>1
    <3> QED BY <1>0, <2>1, <2>2, <3>1, <3>2, <3>3 DEF OncePlaced
  <2> QED BY <2>1, <2>4, <2>5
<1>3. ASSUME NEW name, NEW strict, Emit(name, strict) PROVE OnceInv'
  <2> DEFINE todo == Collected(name)
  <2>0. PICK n : n = Len(frames) + 1 OBVIOUS
  <2>1. /\ frames' = Append(frames, [emit |-> Len(emits) + 1, todo |-> todo])
        /\ listeners' = listeners \ {l \in Matching(name) : l.once}
        /\ UNCHANGED <<serial, onces, onceRuns>>
    BY <1>3 DEF Emit, Left
  <2>2. Len(emits) + 1 \in Nat BY <1>3 DEF Emit
  <2>3. /\ todo \in Seq(Matching(name)) /\ Matching(name) \subseteq listeners
        /\ \A i, j \in DOMAIN todo : todo[i] = todo[j] => i = j
        /\ \A l \in Matching(name) : \E i \in DOMAIN todo : todo[i] = l
    BY CollectsEach DEF Matching
  <2>4. /\ frames' \in Seq(Frame) /\ frames'[n] = [emit |-> Len(emits) + 1, todo |-> todo]
        /\ \A f \in DOMAIN frames : frames'[f] = frames[f]
        /\ \A s, f, i \in Nat :
             WaitsAt(s, f, i)' <=> IF f = n THEN i \in DOMAIN todo /\ todo[i].serial = s ELSE WaitsAt(s, f, i)
    BY <1>0, <2>0, <2>1, <2>2, WaitsTaken
  <2>5. \A s, i \in Nat : ~WaitsAt(s, n, i) BY <1>0, <2>0 DEF WaitsAt
  <2>6. \A i \in DOMAIN todo : i \in Nat /\ todo[i] \in listeners /\ todo[i] \in Matching(name) BY <2>3
  <2>7. \A k, l \in listeners : k.serial = l.serial => k = l BY DEF ListenersTyped
  <2>8. n \in Nat BY <1>0, <2>0
  <2> HIDE DEF todo
  <2>9. FramesTyped'
    <3>1. ASSUME NEW s \in Nat, NEW f \in Nat, NEW i \in Nat, WaitsAt(s, f, i)'
          PROVE  s \in 1..serial /\ (s \in onces => frames'[f].todo[i].once)
      <4>1. CASE f = n
        <5>1. i \in DOMAIN todo /\ todo[i].serial = s /\ frames'[f].todo[i] = todo[i] BY <2>4, <3>1, <4>1
        <5>2. todo[i].serial \in 1..serial /\ (todo[i].serial \in onces => todo[i].once)
          BY <2>6, <5>1 DEF ListenersTyped, FramesTyped
        <5> QED BY <5>1, <5>2
      <4>2. CASE f # n
        <5>1. WaitsAt(s, f, i) BY <2>4, <3>1, <4>2
        <5>2. frames'[f] = frames[f] BY <2>4, <5>1 DEF WaitsAt
        <5> QED BY <5>1, <5>2 DEF FramesTyped
      <4> QED BY <4>1, <4>2
    <3>2. \A l \in listeners' : l.once <=> l.serial \in onces' BY <2>1 DEF FramesTyped
    <3> QED BY <1>0, <2>1, <2>4, <3>1, <3>2 DEF FramesTyped
  <2>10. ASSUME NEW s \in onces PROVE OncePlaced(s)'
    <3>1. OncePlaced(s) /\ s \in Nat BY <1>0, <2>10
    <3>2. CASE Listed(s)
      <4>1. PICK l \in listeners : l.serial = s BY <3>2 DEF Listed
      <4>2. l.once /\ onceRuns[s] = 0 /\ \A f, i \in Nat : ~WaitsAt(s, f, i)
        BY <2>10, <3>1, <3>2, <4>1 DEF FramesTyped, OncePlaced
      <4>3. \A f, i \in Nat : WaitsAt(s, f, i)' => f = n /\ i \in DOMAIN todo /\ todo[i] = l
        BY <2>4, <2>6, <2>7, <3>1, <4>1, <4>2
      <4>4. CASE l \in Matching(name)
        <5>1. ~Listed(s)' BY <2>1, <2>7, <4>1, <4>2, <4>4 DEF Listed
        <5>2. PICK i \in DOMAIN todo : todo[i] = l BY <2>3, <4>4
        <5>3. i \in Nat /\ WaitsAt(s, n, i)' BY <2>4, <2>6, <2>8, <3>1, <4>1, <5>2
        <5>4. \A f, g, j, k \in Nat : WaitsAt(s, f, j)' /\ WaitsAt(s, g, k)' => f = g /\ j = k BY <2>3, <4>3
        <5>5. onceRuns'[s] = 0 BY <2>1, <4>2
        <5> QED BY <2>8, <5>1, <5>3, <5>4, <5>5 DEF OncePlaced
      <4>5. CASE l \notin Matching(name)
        <5>1. Listed(s)' BY <2>1, <4>1, <4>5 DEF Listed
        <5>2. \A f, i \in Nat : ~WaitsAt(s, f, i)' BY <2>6, <4>3, <4>5
        <5>3. onceRuns'[s] = 0 BY <2>1, <4>2
        <5> QED BY <5>1, <5>2, <5>3 DEF OncePlaced
      <4> QED BY <4>4, <4>5
    <3>3. CASE ~Listed(s)
      <4>1. ~Listed(s)' BY <2>1, <3>3 DEF Listed
      <4>2. \A f, i \in Nat : WaitsAt(s, f, i)' <=> WaitsAt(s, f, i) 
        <5>1. \A i \in DOMAIN todo : todo[i].serial # s BY <2>6, <3>3 DEF Listed
        <5> QED BY <2>4, <2>5, <3>1, <5>1
      <4>3. onceRuns' = onceRuns BY <2>1
      <4> QED BY <3>1, <3>3, <4>1, <4>2, <4>3 DEF OncePlaced
    <3> QED BY <3>2, <3>3
  <2> QED BY <2>1, <2>9, <2>10
<1>4. CASE CallReturns BY <1>4, CalledStep DEF CallReturns
<1>5. CASE CallRaises BY <1>5, CalledStep DEF CallRaises, Capture
<1>6. ASSUME UNCHANGED <<listeners, serial, onces, onceRuns>>, frames' \in Seq(Frame),
             \A s, f, i \in Nat : WaitsAt(s, f, i)' <=> WaitsAt(s, f, i),
             \A f \in DOMAIN frames' : frames'[f] = frames[f]
      PROVE  OnceInv'
  <2>1. FramesTyped'
    <3>1. \A s, f, i \in Nat : WaitsAt(s, f, i)' => s \in 1..serial' /\ (s \in onces' => frames'[f].todo[i].once)
      <4> SUFFICES ASSUME NEW s \in Nat, NEW f \in Nat, NEW i \in Nat, WaitsAt(s, f, i)'
                   PROVE  s \in 1..serial' /\ (s \in onces' => frames'[f].todo[i].once)
        OBVIOUS
      <4>1. WaitsAt(s, f, i) BY <1>6
      <4>2. frames'[f] = frames[f] BY <1>6 DEF WaitsAt
      <4> QED BY <1>6, <4>1, <4>2 DEF FramesTyped
    <3> QED BY <1>0, <1>6, <3>1 DEF FramesTyped
  <2>2. ASSUME NEW s \in onces PROVE OncePlaced(s)'
    <3>1. OncePlaced(s) /\ s \in Nat BY <1>0, <2>2
    <3>2. Listed(s)' <=> Listed(s) BY <1>6 DEF Listed
    <3> QED BY <1>6, <3>1, <3>2 DEF OncePlaced
  <2> QED BY <1>6, <2>1, <2>2
<1>7. CASE EmitReturns
  <2>1. InHandler /\ Top.todo = <<>> /\ frames' = Outer BY <1>7 DEF EmitReturns
  <2>2. /\ frames' \in Seq(Frame) /\ \A f \in DOMAIN frames' : frames'[f] = frames[f]
        /\ \A s, f, i \in Nat : WaitsAt(s, f, i)' <=> f # Len(frames) /\ WaitsAt(s, f, i)
    BY <1>0, <2>1, WaitsOuter
  <2>3. \A s, i \in Nat : ~WaitsAt(s, Len(frames), i) BY <2>1 DEF WaitsAt, Top
  <2> QED BY <1>6, <1>7, <2>2, <2>3 DEF EmitReturns
<1>8. CASE ClearErrors \/ (\E t \in tasks : TaskEnds(t)) \/ (\E n \in DOMAIN emits : AwaitEnds(n)) \/ UNCHANGED eventVars
  <2>1. UNCHANGED <<listeners, serial, onces, onceRuns, frames>>
    BY <1>8 DEF ClearErrors, TaskEnds, AwaitEnds, eventVars
  <2>2. \A s, f, i \in Nat : WaitsAt(s, f, i)' <=> WaitsAt(s, f, i) BY <2>1 DEF WaitsAt
  <2> QED BY <1>0, <1>6, <2>1, <2>2
<1>9. CASE (\E n \in Names, h \in Handlers : Off(n, h)) \/ (\E ns \in {{n} : n \in Names} \cup {Names} : RemoveAll(ns))
  <2>1. PICK lost \in SUBSET listeners : Lose(lost) BY <1>9 DEF Off, RemoveAll
  <2> QED BY <1>2, <2>1
<1> QED BY <1>1, <1>3, <1>4, <1>5, <1>7, <1>8, <1>9 DEF EventsNext

\* A strict emission in progress in the middle of which no error was cleared.
Open(n) == emits[n].strict /\ emits[n].state \in {"calls", "awaits"} /\ n \notin cleared

\* An emission that has ended calls nobody any more and none of its tasks runs; a
\* failure of one that has not is among the errors captured since it began, or
\* its task has raised.
Emission == [strict : BOOLEAN, mark : Nat, state : {"calls", "awaits", "raised", "ended"}]
Among(n) == n \in DOMAIN emits

StrictInv ==
  /\ emits \in Seq(Emission) /\ errors \in Nat /\ failed \subseteq DOMAIN emits /\ cleared \subseteq DOMAIN emits
  /\ \A f \in DOMAIN frames : Among(frames[f].emit) /\ emits[frames[f].emit].state = "calls"
  /\ \A f, g \in DOMAIN frames : frames[f].emit = frames[g].emit => f = g
  /\ \A t \in tasks : Among(t.emit) /\ emits[t.emit].state # "ended"
  /\ \A n \in DOMAIN emits : Open(n) => emits[n].mark <= errors
  /\ \A n \in failed : Open(n) => IF captures THEN emits[n].mark < errors ELSE n \in broken
  /\ StrictReports

\* An emission's state is all that a step changes of it.
Moved(n, states) ==
  /\ emits' \in Seq(Emission) /\ DOMAIN emits' = DOMAIN emits
  /\ \A x \in DOMAIN emits : /\ emits'[x].strict = emits[x].strict /\ emits'[x].mark = emits[x].mark
                             /\ x # n => emits'[x] = emits[x]
                             /\ x = n => emits'[x].state \in states

LEMMA StateMoved ==
  ASSUME emits \in Seq(Emission), NEW n \in DOMAIN emits, NEW s \in {"awaits", "raised", "ended"},
         emits' = [emits EXCEPT ![n].state = s]
  PROVE  Moved(n, {s})
<1>1. emits[n] \in Emission BY DEF Moved
<1>2. PICK e \in Emission : e = [emits[n] EXCEPT !.state = s] /\ e.strict = emits[n].strict
                            /\ e.mark = emits[n].mark /\ e.state = s
  BY <1>1 DEF Emission
<1>3. emits' = [emits EXCEPT ![n] = e] BY <1>2
<1>4. emits' \in Seq(Emission) /\ DOMAIN emits' = DOMAIN emits BY <1>3
<1>5. \A x \in DOMAIN emits : emits'[x] = IF x = n THEN e ELSE emits[x] BY <1>3
<1> QED BY <1>2, <1>4, <1>5 DEF Moved

\* A captured error is counted.
LEMMA CaptureStep ==
  ASSUME errors \in Nat, NEW n \in Nat, Capture(n)
  PROVE  /\ failed' = failed \cup {n} /\ errors' \in Nat /\ errors <= errors' /\ (captures => errors < errors')
BY DEF Capture

\* What keeps StrictInv when emissions move on: those still open were open.
LEMMA StrictMoves ==
  ASSUME StrictInv, NEW n, NEW states, Moved(n, states) \/ emits' = emits,
         UNCHANGED <<captures, cleared>>, errors' \in Nat, errors <= errors', failed' \subseteq DOMAIN emits,
         \A x \in failed' : (x \in failed /\ errors = errors') \/ ~Open(x)' \/
                            (IF captures THEN errors < errors' ELSE x \in broken'),
         \A x \in broken : x \in broken' \/ ~Open(x)',
         \A x \in DOMAIN emits : emits'[x].state \in {"calls", "awaits"} => emits[x].state \in {"calls", "awaits"},
         \A f \in DOMAIN frames' : frames'[f].emit \in DOMAIN emits /\ emits'[frames'[f].emit].state = "calls",
         \A f, g \in DOMAIN frames' : frames'[f].emit = frames'[g].emit => f = g,
         \A t \in tasks' : t.emit \in DOMAIN emits /\ emits'[t.emit].state # "ended",
         StrictReports'
  PROVE  StrictInv'
<1>. USE DEF StrictInv, Among
<1>1. /\ emits' \in Seq(Emission) /\ DOMAIN emits' = DOMAIN emits
      /\ \A x \in DOMAIN emits : emits'[x].strict = emits[x].strict /\ emits'[x].mark = emits[x].mark /\ emits[x].mark \in Nat
  <2>1. \A x \in DOMAIN emits : emits[x] \in Emission OBVIOUS
  <2>2. \A e \in Emission : e.mark \in Nat BY DEF Emission
  <2> QED BY <2>1, <2>2 DEF Moved
<1>2. \A x \in DOMAIN emits : Open(x)' => Open(x) BY <1>1 DEF Open
<1>3. \A x \in DOMAIN emits : Open(x)' => emits'[x].mark <= errors' BY <1>1, <1>2
<1>4. ASSUME NEW x \in failed', Open(x)' PROVE IF captures THEN emits'[x].mark < errors' ELSE x \in broken'
  <2>1. x \in DOMAIN emits /\ Open(x) BY <1>2, <1>4
  <2>2. emits[x].mark <= errors /\ emits'[x].mark = emits[x].mark /\ emits[x].mark \in Nat BY <1>1, <2>1
  <2>3. CASE IF captures THEN errors < errors' ELSE x \in broken' BY <2>2, <2>3
  <2>4. CASE x \in failed /\ errors = errors' BY <1>4, <2>1, <2>2, <2>4
  <2> QED BY <1>4, <2>3, <2>4
<1>5. Emission' = Emission BY DEF Emission
<1> QED BY <1>1, <1>3, <1>4, <1>5

LEMMA StrictStep ==
  ASSUME ListenersTyped, FramesTyped, StrictInv, [EventsNext]_eventVars
  PROVE  StrictInv'
<1>. USE DEF StrictInv, Among
<1>0. /\ frames \in Seq(Frame) /\ \A n \in DOMAIN emits : emits[n] \in Emission /\ n \in Nat
      /\ errors \in Nat /\ captures \in BOOLEAN /\ failed \subseteq DOMAIN emits
  BY DEF FramesTyped, ListenersTyped
<1>a. /\ \A f \in DOMAIN frames : frames[f].emit \in DOMAIN emits /\ emits[frames[f].emit].state = "calls"
      /\ \A f, g \in DOMAIN frames : frames[f].emit = frames[g].emit => f = g
  OBVIOUS
<1>1. ASSUME NEW name, NEW strict \in BOOLEAN, Emit(name, strict) PROVE StrictInv'
  <2> DEFINE new == [strict |-> strict, mark |-> IF strict THEN errors ELSE 0, state |-> "calls"]
  <2>0. PICK k : k = Len(emits) + 1 OBVIOUS
  <2>1. /\ emits' = Append(emits, new) /\ UNCHANGED <<captures, errors, tasks, failed, broken, cleared>>
        /\ frames' = Append(frames, [emit |-> k, todo |-> Collected(name)])
    BY <1>1, <2>0 DEF Emit
  <2>2. new \in Emission /\ (strict => new.mark = errors) /\ new.strict = strict /\ new.state = "calls" BY <1>0 DEF Emission
  <2> HIDE DEF new
  <2>3. /\ emits' \in Seq(Emission) /\ DOMAIN emits' = DOMAIN emits \cup {k} /\ emits'[k] = new /\ k \in Nat
        /\ k \notin DOMAIN emits /\ \A n \in DOMAIN emits : emits'[n] = emits[n]
    <3>1. k \in Nat /\ Len(emits) \in Nat BY <2>0
    <3>2. emits' \in Seq(Emission) /\ Len(emits') = k /\ emits'[k] = new /\ \A n \in 1..Len(emits) : emits'[n] = emits[n]
      BY <2>0, <2>1, <2>2
    <3>3. DOMAIN emits' = 1..k /\ DOMAIN emits = 1..Len(emits) BY <3>2
    <3>4. 1..k = 1..Len(emits) \cup {k} /\ k \notin 1..Len(emits) BY <2>0, <3>1
    <3> QED BY <3>1, <3>2, <3>3, <3>4
  <2>4. /\ DOMAIN frames' = DOMAIN frames \cup {Len(frames) + 1} /\ Len(frames) + 1 \notin DOMAIN frames
        /\ \A f \in DOMAIN frames : frames'[f] = frames[f]
        /\ frames'[Len(frames) + 1].emit = k
    BY <1>0, <2>1, <2>3, WaitsTaken
  <2>5. StrictReports' BY <2>1, <2>2, <2>3 DEF StrictReports
  <2>6. \A n \in DOMAIN emits' : Open(n)' => emits'[n].mark <= errors'
    <3>1. \A n \in DOMAIN emits : Open(n)' => Open(n) BY <2>1, <2>3 DEF Open
    <3>2. Open(k)' => emits'[k].mark = errors BY <2>2, <2>3 DEF Open
    <3> QED BY <1>0, <2>1, <2>3, <3>1, <3>2
  <2>7. \A n \in failed' : Open(n)' => IF captures' THEN emits'[n].mark < errors' ELSE n \in broken'
    BY <2>1, <2>3 DEF Open
  <2>8. \A f \in DOMAIN frames' : frames'[f].emit \in DOMAIN emits' /\ emits'[frames'[f].emit].state = "calls"
    BY <2>2, <2>3, <2>4
  <2>9. \A f, g \in DOMAIN frames' : frames'[f].emit = frames'[g].emit => f = g BY <2>3, <2>4
  <2>10. \A t \in tasks' : t.emit \in DOMAIN emits' /\ emits'[t.emit].state # "ended" BY <2>1, <2>3
  <2> QED BY <2>1, <2>3, <2>5, <2>6, <2>7, <2>8, <2>9, <2>10
<1>2. ASSUME CallReturns PROVE StrictInv'
  <2>1. /\ InHandler /\ Top.todo # <<>> /\ frames' = Called /\ UNCHANGED <<captures, errors, emits, failed, broken, cleared>>
        /\ \A t \in tasks' : t \in tasks \/ t.emit = Top.emit
    BY <1>2 DEF CallReturns
  <2>2. /\ Len(frames) \in DOMAIN frames /\ frames[Len(frames)] = Top /\ DOMAIN frames' = DOMAIN frames
        /\ \A f \in DOMAIN frames : frames'[f].emit = frames[f].emit
    BY <1>0, <2>1, CalledNext
  <2>3. StrictReports' BY <2>1 DEF StrictReports
  <2> QED BY <2>1, <2>2, <2>3 DEF Open
<1>3. ASSUME CallRaises PROVE StrictInv'
  <2>0. PICK n : n = Top.emit OBVIOUS
  <2>1. InHandler /\ Top.todo # <<>> /\ UNCHANGED <<captures, broken, cleared>> /\ Capture(n) BY <1>3, <2>0 DEF CallRaises
  <2>2. Len(frames) \in DOMAIN frames /\ frames[Len(frames)] = Top BY <1>0, <2>1 DEF InHandler, Top
  <2>3. n \in DOMAIN emits /\ n \in Nat /\ emits[n].state = "calls" BY <1>0, <2>0, <2>2
  <2>4. /\ failed' = failed \cup {n} /\ errors' \in Nat /\ errors <= errors'
        /\ captures => errors < errors'
    <3> HIDE DEF StrictInv, Among
    <3> QED BY <1>0, <2>1, <2>3, CaptureStep
  <2>5. CASE captures /\ frames' = Called /\ emits' = emits /\ \A t \in tasks' : t \in tasks \/ t.emit = n
    <3>2. DOMAIN frames' = DOMAIN frames /\ \A f \in DOMAIN frames : frames'[f].emit = frames[f].emit
      BY <1>0, <2>1, <2>2, <2>5, CalledNext
    <3>3. StrictReports' BY <2>1, <2>3, <2>4, <2>5 DEF StrictReports
    <3>4. \A x \in failed' : IF captures THEN errors < errors' ELSE x \in broken' BY <2>4, <2>5
    <3>5. /\ \A f \in DOMAIN frames' : frames'[f].emit \in DOMAIN emits /\ emits'[frames'[f].emit].state = "calls"
          /\ \A f, g \in DOMAIN frames' : frames'[f].emit = frames'[g].emit => f = g
          /\ \A t \in tasks' : t.emit \in DOMAIN emits /\ emits'[t.emit].state # "ended"
      BY <2>3, <2>5, <3>2
    <3>6. failed' \subseteq DOMAIN emits BY <2>3, <2>4
    <3> QED BY <2>1, <2>4, <2>5, <3>3, <3>4, <3>5, <3>6, StrictMoves
  <2>6. CASE frames' = Outer /\ emits' = [emits EXCEPT ![n].state = "raised"] /\ tasks' \subseteq tasks
    <3>2. Moved(n, {"raised"}) BY <2>3, <2>6, StateMoved
    <3>3. DOMAIN frames' = DOMAIN frames \ {Len(frames)} /\ \A f \in DOMAIN frames' : frames'[f] = frames[f]
      BY <1>0, <2>1, <2>6, WaitsOuter
    <3>4. \A f \in DOMAIN frames' : frames'[f].emit # n BY <2>0, <2>2, <3>3
    <3>5. StrictReports' BY <2>1, <2>3, <2>4, <3>2 DEF StrictReports, Moved
    <3>6. \A x \in failed' : (IF captures THEN errors < errors' ELSE ~Open(x)') \/ x \in failed
      BY <2>3, <2>4, <3>2 DEF Moved, Open
    <3>7. ~captures => errors' = errors BY <2>1 DEF Capture
    <3>8. \A x \in failed' : (x \in failed /\ errors = errors') \/ ~Open(x)' \/
                             (IF captures THEN errors < errors' ELSE x \in broken')
      BY <1>0, <2>4, <3>6, <3>7
    <3>9. /\ \A f \in DOMAIN frames' : frames'[f].emit \in DOMAIN emits /\ emits'[frames'[f].emit].state = "calls"
          /\ \A f, g \in DOMAIN frames' : frames'[f].emit = frames'[g].emit => f = g
          /\ \A t \in tasks' : t.emit \in DOMAIN emits /\ emits'[t.emit].state # "ended"
          /\ \A x \in DOMAIN emits : emits'[x].state \in {"calls", "awaits"} => emits[x].state \in {"calls", "awaits"}
      BY <2>3, <2>6, <3>2, <3>3, <3>4 DEF Moved
    <3>10. failed' \subseteq DOMAIN emits BY <2>3, <2>4
    <3> HIDE DEF StrictInv, Among
    <3> QED BY <2>1, <2>4, <3>2, <3>5, <3>8, <3>9, <3>10, StrictMoves
  <2>7. ~captures => Outcomes = {"raises"} BY DEF Outcomes
  <2> HIDE DEF StrictInv, Among
  <2>8. \/ /\ Outcomes \cap {"continues", "coroutine"} # {} /\ frames' = Called /\ emits' = emits
           /\ \A t \in tasks' : t \in tasks \/ t.emit = n
        \/ frames' = Outer /\ emits' = [emits EXCEPT ![n].state = "raised"] /\ tasks' \subseteq tasks
    BY <1>3, <2>0 DEF CallRaises
  <2>9. Outcomes \cap {"continues", "coroutine"} # {} => captures BY <1>0, <2>7
  <2> QED BY <2>5, <2>6, <2>8, <2>9
<1>4. ASSUME EmitReturns PROVE StrictInv'
  <2>0. PICK n : n = Top.emit OBVIOUS
  <2>1. InHandler /\ frames' = Outer /\ UNCHANGED <<captures, tasks, errors, failed, broken, cleared>>
        /\ emits' = [emits EXCEPT ![n].state = "awaits"]
    BY <1>4, <2>0 DEF EmitReturns
  <2>2. Len(frames) \in DOMAIN frames /\ frames[Len(frames)] = Top BY <1>0, <2>1 DEF InHandler, Top
  <2>3. n \in DOMAIN emits /\ emits[n].state = "calls" BY <2>0, <2>2
  <2>4. Moved(n, {"awaits"}) BY <2>1, <2>3, StateMoved
  <2>5. DOMAIN frames' = DOMAIN frames \ {Len(frames)} /\ \A f \in DOMAIN frames' : frames'[f] = frames[f]
    BY <1>0, <2>1, WaitsOuter
  <2>6. \A f \in DOMAIN frames' : frames'[f].emit # n BY <2>0, <2>2, <2>5
  <2>7. StrictReports' BY <2>1, <2>4 DEF StrictReports, Moved
  <2>8. /\ \A f \in DOMAIN frames' : frames'[f].emit \in DOMAIN emits /\ emits'[frames'[f].emit].state = "calls"
        /\ \A f, g \in DOMAIN frames' : frames'[f].emit = frames'[g].emit => f = g
        /\ \A t \in tasks' : t.emit \in DOMAIN emits /\ emits'[t.emit].state # "ended"
        /\ \A x \in DOMAIN emits : emits'[x].state \in {"calls", "awaits"} => emits[x].state \in {"calls", "awaits"}
    BY <2>1, <2>3, <2>4, <2>5, <2>6 DEF Moved
  <2>9. \A x \in failed' : x \in failed /\ errors = errors' BY <2>1
  <2>10. errors' \in Nat /\ errors <= errors' /\ failed' \subseteq DOMAIN emits BY <1>0, <2>1
  <2> HIDE DEF StrictInv, Among
  <2> QED BY <2>1, <2>4, <2>7, <2>8, <2>9, <2>10, StrictMoves
<1>5. ASSUME NEW t \in tasks, TaskEnds(t) PROVE StrictInv'
  <2>1. UNCHANGED <<captures, frames, emits, cleared>> /\ (TaskReturns(t) \/ TaskRaises(t)) BY <1>5 DEF TaskEnds
  <2>2. t.emit \in DOMAIN emits /\ t.emit \in Nat /\ emits[t.emit].state # "ended" BY <1>0
  <2>3. \A u \in tasks' : u \in tasks \/ u.emit = t.emit BY <2>1 DEF TaskReturns, TaskRaises
  <2>4. broken \subseteq broken' BY <2>1 DEF TaskReturns, TaskRaises
  <2>5. \A u \in tasks' : u.emit \in DOMAIN emits /\ emits'[u.emit].state # "ended" BY <2>1, <2>2, <2>3
  <2>6. CASE TaskReturns(t)
    <3>1. UNCHANGED <<errors, failed>> BY <2>6 DEF TaskReturns
    <3>2. StrictReports' BY <2>1, <3>1 DEF StrictReports
    <3>3. \A x \in failed' : x \in failed /\ errors = errors' BY <3>1
    <3>4. failed' \subseteq DOMAIN emits /\ errors' \in Nat /\ errors <= errors' BY <1>0, <3>1
    <3> QED BY <2>1, <2>4, <2>5, <3>2, <3>3, <3>4, StrictMoves
  <2>7. CASE TaskRaises(t)
    <3>1. /\ failed' = failed \cup {t.emit} /\ errors' \in Nat /\ errors <= errors' /\ (captures => errors < errors')
      BY <1>0, <2>2, <2>7, CaptureStep DEF TaskRaises
    <3> HIDE DEF StrictInv, Among
    <3>2. StrictReports' BY <2>1, <2>2, <3>1 DEF StrictReports, StrictInv
    <3>3. ~captures => Outcomes = {"raises"} BY DEF Outcomes
    <3>4. ~captures => t.emit \in broken' /\ errors' = errors BY <2>7, <3>3 DEF TaskRaises, Capture
    <3>5. \A x \in failed' : (x \in failed /\ errors = errors') \/ (IF captures THEN errors < errors' ELSE x \in broken')
      BY <1>0, <3>1, <3>4
    <3>6. failed' \subseteq DOMAIN emits BY <1>0, <2>2, <3>1
    <3> QED BY <1>a, <2>1, <2>4, <2>5, <3>1, <3>2, <3>5, <3>6, StrictMoves
  <2> QED BY <2>1, <2>6, <2>7
<1>6. ASSUME NEW n \in DOMAIN emits, AwaitEnds(n) PROVE StrictInv'
  <2> DEFINE s == IF n \in broken \/ (emits[n].strict /\ Reported(n)) THEN "raised" ELSE "ended"
  <2>1. /\ emits[n].state = "awaits" /\ (\A t \in tasks : t.emit # n) /\ emits' = [emits EXCEPT ![n].state = s]
        /\ UNCHANGED <<captures, errors, frames, tasks, failed, cleared>> /\ broken' = broken \ {n}
    BY <1>6 DEF AwaitEnds
  <2>2. s \in {"raised", "ended"} OBVIOUS
  <2>3. s = "ended" /\ emits[n].strict /\ n \notin cleared => n \notin failed
    <3>1. SUFFICES ASSUME s = "ended", emits[n].strict, n \notin cleared, n \in failed PROVE FALSE OBVIOUS
    <3>2. Open(n) BY <2>1, <3>1 DEF Open
    <3>3. n \notin broken /\ ~(errors > emits[n].mark) BY <3>1 DEF Reported
    <3>4. IF captures THEN emits[n].mark < errors ELSE n \in broken BY <3>1, <3>2
    <3>5. emits[n].mark \in Nat BY <1>0 DEF Emission
    <3> QED BY <1>0, <3>3, <3>4, <3>5
  <2>4. PICK to \in {"awaits", "raised", "ended"} : to = s BY <2>2
  <2> HIDE DEF s
  <2>5. Moved(n, {to}) /\ to \in {"raised", "ended"} BY <2>1, <2>2, <2>4, StateMoved
  <2>6. \A f \in DOMAIN frames : frames[f].emit # n BY <2>1
  <2>7. StrictReports' BY <2>1, <2>3, <2>4, <2>5 DEF StrictReports, Moved
  <2>8. ~Open(n)' BY <2>5 DEF Open, Moved
  <2>9. /\ \A f \in DOMAIN frames' : frames'[f].emit \in DOMAIN emits /\ emits'[frames'[f].emit].state = "calls"
        /\ \A f, g \in DOMAIN frames' : frames'[f].emit = frames'[g].emit => f = g
        /\ \A t \in tasks' : t.emit \in DOMAIN emits /\ emits'[t.emit].state # "ended"
        /\ \A x \in DOMAIN emits : emits'[x].state \in {"calls", "awaits"} => emits[x].state \in {"calls", "awaits"}
    BY <2>1, <2>5, <2>6 DEF Moved
  <2>10. \A x \in broken : x \in broken' \/ ~Open(x)' BY <2>1, <2>8
  <2>11. \A x \in failed' : x \in failed /\ errors = errors' BY <2>1
  <2>12. errors' \in Nat /\ errors <= errors' /\ failed' \subseteq DOMAIN emits BY <1>0, <2>1
  <2> HIDE DEF StrictInv, Among
  <2> QED BY <2>1, <2>5, <2>7, <2>9, <2>10, <2>11, <2>12, StrictMoves
<1>7. ASSUME UNCHANGED <<captures, errors, emits, frames, tasks, failed, broken, cleared>> PROVE StrictInv'
  BY <1>7 DEF StrictReports, Open
<1>8. CASE (\E o \in Offers : Listen(o.name, o.handler, o.once, o.priority, o.prepend))
           \/ (\E n \in Names, h \in Handlers : Off(n, h)) \/ (\E ns \in {{n} : n \in Names} \cup {Names} : RemoveAll(ns))
           \/ UNCHANGED eventVars
  BY <1>7, <1>8 DEF Listen, Off, RemoveAll, Lose, eventVars
<1>9. ASSUME ClearErrors PROVE StrictInv'
  <2>1. /\ UNCHANGED <<captures, emits, frames, tasks, failed, broken>> /\ errors' = 0
        /\ cleared' = cleared \cup {n \in DOMAIN emits : emits[n].strict /\ emits[n].state \in {"calls", "awaits"}}
    BY <1>9 DEF ClearErrors
  <2>2. \A n \in DOMAIN emits : ~Open(n)' BY <2>1 DEF Open
  <2>3. StrictReports' BY <2>1 DEF StrictReports
  <2> QED BY <2>1, <2>2, <2>3
<1> QED BY <1>1, <1>2, <1>3, <1>4, <1>5, <1>6, <1>8, <1>9 DEF EventsNext

EventsInv == ListenersTyped /\ OnceInv /\ StrictInv

LEMMA EventsStart == EventsInit => EventsInv
<1> SUFFICES ASSUME EventsInit PROVE EventsInv OBVIOUS
<1>. USE DEF EventsInit
<1>1. NoRank \in [priority : Int, order : (-serial)..serial] /\ NoRank.order = 0 BY DEF NoRank
<1>2. ListenersTyped BY <1>1, EventsAssumption, FS_EmptySet DEF ListenersTyped
<1>3. OnceInv BY EventsAssumption DEF OnceInv, FramesTyped, WaitsAt
<1>4. StrictInv BY DEF StrictInv, StrictReports, Open
<1> QED BY <1>2, <1>3, <1>4 DEF EventsInv

LEMMA EventsKept == EventsInv /\ [EventsNext]_eventVars => EventsInv'
<1> SUFFICES ASSUME EventsInv, [EventsNext]_eventVars PROVE EventsInv' OBVIOUS
<1>1. ListenersTyped' BY ListenersStep DEF EventsInv
<1>2. OnceInv' BY <1>1, OnceStep DEF EventsInv
<1>3. StrictInv' BY StrictStep DEF EventsInv, OnceInv
<1> QED BY <1>1, <1>2, <1>3 DEF EventsInv

LEMMA EventsShown == EventsInv => ListenersHear
<1>1. ASSUME EventsInv, NEW s \in onces
      PROVE Cardinality({l \in listeners : l.serial = s})
            + Cardinality({f \in DOMAIN frames : \E i \in DOMAIN frames[f].todo : frames[f].todo[i].serial = s})
            + onceRuns[s] = 1
  BY <1>1, OneWaits DEF EventsInv, OnceInv
<1>2. EventsInv => OnceRunsOnce BY <1>1 DEF OnceRunsOnce
<1>3. EventsInv => StrictReports BY DEF EventsInv, StrictInv
<1> QED BY <1>2, <1>3 DEF ListenersHear

-----------------------------------------------------------------------------
(* Who hears an event of an aggregate *)

Occurrence == [no : Nat \ {0}, type : EventTypes]
SomePlaces == UNION {Places(t) : t \in EventTypes}
Pub == [todo : Seq(Occurrence), calls : SUBSET SomePlaces, commands : Nat, clears : BOOLEAN]

Nos(s) == {s[i].no : i \in DOMAIN s}
Distinct(s) == \A i, j \in DOMAIN s : s[i].no = s[j].no => i = j
Undelivered(given, n) == \A l \in Listeners : given[n][l] = 0

\* A caller that publishes nothing rests; each listener of its event waits once.
PubTyped(r) ==
  /\ r \in Pub /\ Distinct(r.todo)
  /\ r.todo = <<>> => r = Resting
  /\ \A p, q \in r.calls : Who(p) = Who(q) => p = q

\* Nothing that waits has been called, but for the listener whose commands run.
PubFresh(given, r) ==
  /\ \A i \in DOMAIN r.todo : i > 1 => Undelivered(given, r.todo[i].no)
  /\ \A p \in r.calls : given[r.todo[1].no][Who(p)] = 0 \/ (r.commands > 0 /\ Turn(r.calls, p))

CqrsTyped ==
  /\ applied \in 0..MaxApplied /\ overlapped \in BOOLEAN
  /\ uncommitted \in Seq(Occurrence) /\ Distinct(uncommitted) /\ \A n \in Nos(uncommitted) : n <= applied
  /\ DOMAIN publishing = Callers
  /\ \A c \in Callers : PubTyped(publishing[c]) /\ \A n \in Nos(publishing[c].todo) : n <= applied
  /\ delivered \in [EventNos -> [Listeners -> Nat]]
  /\ \A n \in EventNos : n > applied => Undelivered(delivered, n)

\* Publications do not meet: not each other, nor what is kept for a commit.
Apart ==
  /\ \A c, d \in Callers : c # d => ~(publishing[c].clears /\ publishing[d].clears)
  /\ \A c, d \in Callers : c # d => Nos(publishing[c].todo) \cap Nos(publishing[d].todo) = {}
  /\ \A c \in Callers : ~publishing[c].clears => Nos(publishing[c].todo) \cap Nos(uncommitted) = {}

Steady ==
  /\ Apart /\ \A n \in EventNos, l \in Listeners : delivered[n][l] <= 1
  /\ (\A c \in Callers : ~publishing[c].clears) => \A n \in Nos(uncommitted) : Undelivered(delivered, n)
  /\ \A c \in Callers : PubFresh(delivered, publishing[c])

CalledInv == CqrsTyped /\ (overlapped \/ Steady)

LEMMA PlacesKnown ==
  ASSUME NEW p \in SomePlaces
  PROVE  p[1] \in 1..5 /\ p[2] \in Nat /\ p = <<p[1], p[2]>> /\ Who(p) \in Listeners /\ Asked(p) \in Nat
<1>1. PICK t \in EventTypes : p \in Places(t) BY DEF SomePlaces
<1>2. PICK n \in 1..5 : p \in {<<n, i>> : i \in {i \in DOMAIN Looks(t)[n].among : Looks(t)[n].among[i].type \in Looks(t)[n].for}}
  BY <1>1, Zenon DEF Places
<1>3. PICK i \in DOMAIN Looks(t)[n].among : p = <<n, i>> BY <1>2
<1>4. Looks(t)[n].among = IF n <= 2 THEN Handling ELSE Sagas
  <2>1. CASE n = 1 BY <2>1 DEF Looks
  <2>2. CASE n = 2 BY <2>2 DEF Looks
  <2>3. CASE n = 3 BY <2>3 DEF Looks
  <2>4. CASE n = 4 BY <2>4 DEF Looks
  <2>5. CASE n = 5 BY <2>5 DEF Looks
  <2> QED BY <2>1, <2>2, <2>3, <2>4, <2>5
<1>5. p[1] = n /\ p[2] = i /\ p = <<p[1], p[2]>> BY <1>3
<1>6. DOMAIN Handling \subseteq Nat /\ DOMAIN Sagas \subseteq Nat BY CqrsAssumption
<1>7. CASE n <= 2
  <2>1. Who(p) = <<"handler", Handling[i].by>> /\ i \in DOMAIN Handling BY <1>3, <1>4, <1>5, <1>7 DEF Who
  <2>2. Asked(p) = 0 BY <2>1 DEF Asked
  <2> QED BY <1>5, <1>6, <2>1, <2>2 DEF Listeners
<1>8. CASE ~(n <= 2)
  <2>1. Who(p) = <<"saga", Sagas[i].by>> /\ i \in DOMAIN Sagas BY <1>3, <1>4, <1>5, <1>8 DEF Who
  <2>2. Asked(p) = Commands[Sagas[i].by] BY <2>1 DEF Asked
  <2>3. Commands[Sagas[i].by] \in Nat BY <2>1, CqrsAssumption
  <2> QED BY <1>5, <1>6, <2>1, <2>2, <2>3 DEF Listeners
<1> QED BY <1>7, <1>8

LEMMA OneTurn ==
  ASSUME NEW p \in SomePlaces, NEW q \in SomePlaces, ~Earlier(p, q), ~Earlier(q, p)
  PROVE  p = q
<1>1. p[1] = q[1] /\ p[2] = q[2] BY PlacesKnown DEF Earlier
<1> QED BY <1>1, PlacesKnown

\* Each listener of an event is called at one place.
LEMMA CalledAt ==
  ASSUME NEW t \in EventTypes
  PROVE  /\ CalledFor[t] \subseteq SomePlaces
         /\ \A p, q \in CalledFor[t] : Who(p) = Who(q) => p = q
<1>1. CalledFor[t] = {p \in Places(t) : \A q \in Places(t) : Who(q) = Who(p) => ~Earlier(q, p)} BY DEF CalledFor
<1>2. Places(t) \subseteq SomePlaces BY DEF SomePlaces
<1> QED BY <1>1, <1>2, OneTurn

LEMMA PublicationTyped ==
  ASSUME NEW s \in Seq(Occurrence), s # <<>>, Distinct(s), NEW b \in BOOLEAN
  PROVE  LET r == Publication(s, b)
         IN PubTyped(r) /\ r.todo = s /\ r.clears = b /\ r.commands = 0 /\ Head(s) = s[1] /\ 1 \in DOMAIN s
            /\ s[1].type \in EventTypes /\ r.calls = CalledFor[s[1].type]
<1>1. Head(s) = s[1] /\ 1 \in DOMAIN s /\ s[1] \in Occurrence OBVIOUS
<1>2. s[1].type \in EventTypes BY <1>1 DEF Occurrence
<1> DEFINE r == Publication(s, b)
<1>3. r = [todo |-> s, calls |-> CalledFor[s[1].type], commands |-> 0, clears |-> b] BY <1>1 DEF Publication
<1>4. r.todo = s /\ r.calls = CalledFor[s[1].type] /\ r.commands = 0 /\ r.clears = b BY <1>3
<1>5. r \in Pub BY <1>2, <1>3, CalledAt DEF Pub
<1> HIDE DEF r
<1>6. PubTyped(r) BY <1>2, <1>4, <1>5, CalledAt DEF PubTyped
<1> QED BY <1>1, <1>2, <1>4, <1>6 DEF r

-----------------------------------------------------------------------------
LEMMA Taken ==
  ASSUME NEW r \in Pub, NEW p
  PROVE  LET s == [r EXCEPT !.calls = @ \ {p}, !.commands = 0]
         IN s \in Pub /\ s.todo = r.todo /\ s.calls = r.calls \ {p} /\ s.commands = 0 /\ s.clears = r.clears
  BY DEF Pub

LEMMA Commanded ==
  ASSUME NEW r \in Pub, NEW n \in Nat
  PROVE  LET s == [r EXCEPT !.commands = n]
         IN s \in Pub /\ s.todo = r.todo /\ s.calls = r.calls /\ s.commands = n /\ s.clears = r.clears
  BY DEF Pub

LEMMA Rests ==
  /\ PubTyped(Resting) /\ Resting.todo = <<>> /\ ~Resting.clears /\ Resting.calls = {} /\ Nos(<<>>) = {}
  /\ \A given : PubFresh(given, Resting)
<1>1. Resting \in Pub BY DEF Resting, Pub
<1>2. Resting.todo = <<>> /\ ~Resting.clears /\ Resting.calls = {} BY DEF Resting
<1>3. Nos(<<>>) = {} /\ Distinct(<<>>) BY DEF Nos, Distinct
<1> QED BY <1>1, <1>2, <1>3 DEF PubTyped, PubFresh

LEMMA Gathered ==
  ASSUME NEW s \in Seq(Occurrence), Distinct(s), NEW a \in Nat, \A n \in Nos(s) : n <= a, NEW t \in EventTypes
  PROVE  LET e == [no |-> a + 1, type |-> t]
         IN /\ Append(s, e) \in Seq(Occurrence) /\ Distinct(Append(s, e)) /\ Nos(Append(s, e)) = Nos(s) \cup {a + 1}
            /\ <<e>> \in Seq(Occurrence) /\ Distinct(<<e>>) /\ Nos(<<e>>) = {a + 1} /\ <<e>> # <<>>
<1> DEFINE e == [no |-> a + 1, type |-> t]
<1>1. e \in Occurrence /\ e.no = a + 1 BY DEF Occurrence
<1> HIDE DEF e
<1>2. \A i \in DOMAIN s : s[i].no <= a BY DEF Nos
<1>3. Append(s, e) \in Seq(Occurrence) /\ DOMAIN Append(s, e) = 1..(Len(s) + 1) /\ Append(s, e)[Len(s) + 1] = e
      /\ Len(s) \in Nat /\ DOMAIN s = 1..Len(s) /\ \A i \in DOMAIN s : Append(s, e)[i] = s[i]
  BY <1>1
<1>4. \A i \in 1..(Len(s) + 1) : i \in DOMAIN s \/ i = Len(s) + 1 BY <1>3
<1>5. Distinct(Append(s, e))
  <2>1. SUFFICES ASSUME NEW i \in 1..(Len(s) + 1), NEW j \in 1..(Len(s) + 1), Append(s, e)[i].no = Append(s, e)[j].no
                 PROVE  i = j
    BY <1>3 DEF Distinct
  <2>2. a + 1 > a BY a \in Nat
  <2>3. CASE i \in DOMAIN s /\ j \in DOMAIN s BY <1>3, <2>1, <2>3 DEF Distinct
  <2>4. CASE i = Len(s) + 1 /\ j = Len(s) + 1 BY <2>4
  <2>5. CASE i \in DOMAIN s /\ j = Len(s) + 1
    <3>1. s[i].no = a + 1 BY <1>1, <1>3, <2>1, <2>5
    <3> QED BY <1>2, <2>5, <3>1
  <2>6. CASE j \in DOMAIN s /\ i = Len(s) + 1
    <3>1. s[j].no = a + 1 BY <1>1, <1>3, <2>1, <2>6
    <3> QED BY <1>2, <2>6, <3>1
  <2> QED BY <1>4, <2>3, <2>4, <2>5, <2>6
<1>6. Nos(Append(s, e)) = Nos(s) \cup {a + 1}
  <2>1. \A n \in Nos(Append(s, e)) : n \in Nos(s) \cup {a + 1} BY <1>1, <1>3, <1>4 DEF Nos
  <2>2. \A n \in Nos(s) : n \in Nos(Append(s, e)) BY <1>3 DEF Nos
  <2>3. a + 1 \in Nos(Append(s, e))
    <3>1. Len(s) + 1 \in DOMAIN Append(s, e) BY <1>3
    <3> QED BY <1>1, <1>3, <3>1 DEF Nos
  <2> QED BY <2>1, <2>2, <2>3
<1>7. <<e>> \in Seq(Occurrence) /\ Distinct(<<e>>) /\ Nos(<<e>>) = {a + 1} /\ <<e>> # <<>> BY <1>1 DEF Distinct, Nos
<1> QED BY <1>3, <1>5, <1>6, <1>7 DEF e

LEMMA Followed ==
  ASSUME NEW s \in Seq(Occurrence), Distinct(s), s # <<>>
  PROVE  /\ Head(s) = s[1] /\ 1 \in DOMAIN s /\ s[1] \in Occurrence
         /\ Tail(s) \in Seq(Occurrence) /\ Distinct(Tail(s)) /\ Nos(Tail(s)) \subseteq Nos(s)
         /\ \A i \in DOMAIN Tail(s) : i + 1 \in DOMAIN s /\ i + 1 > 1 /\ Tail(s)[i] = s[i + 1]
<1>1. \A i \in DOMAIN Tail(s) : i \in Nat /\ i + 1 \in DOMAIN s /\ i + 1 > 1 /\ Tail(s)[i] = s[i + 1] OBVIOUS
<1>2. Distinct(Tail(s))
  <2>1. SUFFICES ASSUME NEW i \in DOMAIN Tail(s), NEW j \in DOMAIN Tail(s), Tail(s)[i].no = Tail(s)[j].no
                 PROVE  i = j
    BY DEF Distinct
  <2>2. i + 1 = j + 1 BY <1>1, <2>1 DEF Distinct
  <2> QED BY <1>1, <2>2
<1>3. Nos(Tail(s)) \subseteq Nos(s) BY <1>1 DEF Nos
<1> QED BY <1>1, <1>2, <1>3

\* What a step of one caller leaves to show of the publications.
LEMMA OneMoves ==
  ASSUME CqrsTyped, NEW c \in Callers, NEW r, PubTyped(r), publishing' = [publishing EXCEPT ![c] = r],
         applied' \in 0..MaxApplied, applied <= applied', \A n \in Nos(r.todo) : n <= applied'
  PROVE  /\ DOMAIN publishing' = Callers
         /\ \A d \in Callers : publishing'[d] = IF d = c THEN r ELSE publishing[d]
         /\ \A d \in Callers : PubTyped(publishing'[d]) /\ \A n \in Nos(publishing'[d].todo) : n <= applied'
<1>1. DOMAIN publishing = Callers BY DEF CqrsTyped
<1>2. DOMAIN publishing' = Callers /\ \A d \in Callers : publishing'[d] = IF d = c THEN r ELSE publishing[d] BY <1>1
<1>3. ASSUME NEW d \in Callers PROVE PubTyped(publishing'[d]) /\ \A n \in Nos(publishing'[d].todo) : n <= applied'
  <2>1. CASE d = c BY <1>2, <2>1
  <2>2. CASE d # c
    <3>1. PubTyped(publishing[d]) /\ publishing[d].todo \in Seq(Occurrence) BY DEF CqrsTyped, PubTyped, Pub
    <3>2. \A n \in Nos(publishing[d].todo) : n \in Nat /\ n <= applied
      <4>1. \A i \in DOMAIN publishing[d].todo : publishing[d].todo[i] \in Occurrence BY <3>1
      <4>2. \A n \in Nos(publishing[d].todo) : n \in Nat BY <4>1 DEF Nos, Occurrence
      <4> QED BY <4>2 DEF CqrsTyped
    <3>3. applied \in Nat /\ applied' \in Nat BY CqrsAssumption DEF CqrsTyped
    <3> QED BY <1>2, <2>2, <3>1, <3>2, <3>3
  <2> QED BY <2>1, <2>2
<1> QED BY <1>2, <1>3

LEMMA Counted ==
  ASSUME CqrsTyped, NEW c \in Callers, NEW p \in publishing[c].calls, Active(c), Count(c, p)
  PROVE  /\ delivered' \in [EventNos -> [Listeners -> Nat]]
         /\ publishing[c].todo[1].no \in EventNos /\ publishing[c].todo[1].no <= applied
         /\ publishing[c].todo[1].no \in Nos(publishing[c].todo) /\ Who(p) \in Listeners
         /\ \A m \in EventNos, l \in Listeners :
              delivered'[m][l] = IF m = publishing[c].todo[1].no /\ l = Who(p) THEN delivered[m][l] + 1
                                 ELSE delivered[m][l]
<1>1. PubTyped(publishing[c]) /\ publishing[c] \in Pub BY DEF CqrsTyped, PubTyped
<1>2. publishing[c].todo \in Seq(Occurrence) /\ publishing[c].todo # <<>> /\ Distinct(publishing[c].todo) /\ p \in SomePlaces
  BY <1>1 DEF PubTyped, Pub, Active
<1>3. PICK n : n = publishing[c].todo[1].no OBVIOUS
<1>4. Head(publishing[c].todo).no = n /\ n \in Nat \ {0} /\ n \in Nos(publishing[c].todo) BY <1>2, <1>3, Followed DEF Occurrence, Nos
<1>5. n <= applied /\ n \in EventNos BY <1>4, CqrsAssumption DEF CqrsTyped, EventNos
<1>6. Who(p) \in Listeners BY <1>2, PlacesKnown
<1>7. delivered' = [delivered EXCEPT ![n][Who(p)] = @ + 1] BY <1>4 DEF Count
<1>8. delivered \in [EventNos -> [Listeners -> Nat]] BY DEF CqrsTyped
<1>9. delivered[n] \in [Listeners -> Nat] BY <1>5, <1>8
<1>10. PICK row : row = [delivered[n] EXCEPT ![Who(p)] = delivered[n][Who(p)] + 1] OBVIOUS
<1>11. row \in [Listeners -> Nat] /\ \A l \in Listeners : row[l] = IF l = Who(p) THEN delivered[n][l] + 1 ELSE delivered[n][l]
  BY <1>6, <1>9, <1>10
<1>12. delivered' = [delivered EXCEPT ![n] = row] BY <1>7, <1>10
<1>13. delivered' \in [EventNos -> [Listeners -> Nat]] /\ \A m \in EventNos : delivered'[m] = IF m = n THEN row ELSE delivered[m]
  BY <1>5, <1>8, <1>11, <1>12
<1> QED BY <1>3, <1>4, <1>5, <1>6, <1>11, <1>13

LEMMA Nobody == ASSUME CqrsTyped, NEW c \in Callers
  PROVE  /\ Active(c) => publishing[c].todo # <<>>
         /\ ~Active(c) => publishing[c].todo = <<>> /\ ~publishing[c].clears /\ Nos(publishing[c].todo) = {}
         /\ publishing[c].calls # {} => Active(c)
         /\ PubTyped(publishing[c]) /\ publishing[c] \in Pub /\ publishing[c].todo \in Seq(Occurrence)
         /\ publishing[c].clears \in BOOLEAN /\ applied \in Nat /\ publishing[c].calls \subseteq SomePlaces
<1>1. PubTyped(publishing[c]) /\ publishing[c] \in Pub BY DEF CqrsTyped, PubTyped
<1> QED BY <1>1, Rests, CqrsAssumption DEF PubTyped, Pub, Active, CqrsTyped

LEMMA ApplyKept ==
  ASSUME CalledInv, NEW t \in EventTypes, Apply(t)
  PROVE  CalledInv'
<1>1. PICK a \in Nat : a = applied /\ a < MaxApplied BY CqrsAssumption DEF CalledInv, CqrsTyped, Apply
<1>2. PICK e : e = [no |-> a + 1, type |-> t] OBVIOUS
<1>3. uncommitted' = Append(uncommitted, e) /\ applied' = a + 1 /\ UNCHANGED <<publishing, delivered, overlapped>>
  BY <1>1, <1>2 DEF Apply
<1>4. CqrsTyped BY DEF CalledInv
<1>5. uncommitted \in Seq(Occurrence) /\ Distinct(uncommitted) /\ \A n \in Nos(uncommitted) : n <= a
  BY <1>1, <1>4 DEF CqrsTyped
<1>6. uncommitted' \in Seq(Occurrence) /\ Distinct(uncommitted') /\ Nos(uncommitted') = Nos(uncommitted) \cup {a + 1}
  BY <1>2, <1>3, <1>5, Gathered
<1>7. \A n \in Nos(uncommitted) : n \in Nat
  <2>1. \A i \in DOMAIN uncommitted : uncommitted[i] \in Occurrence BY <1>5
  <2> QED BY <2>1 DEF Nos, Occurrence
<1>8. ASSUME NEW c \in Callers PROVE \A n \in Nos(publishing[c].todo) : n \in Nat /\ n <= a
  <2>1. publishing[c].todo \in Seq(Occurrence) BY <1>4, Nobody
  <2>2. \A i \in DOMAIN publishing[c].todo : publishing[c].todo[i] \in Occurrence BY <2>1
  <2>3. \A n \in Nos(publishing[c].todo) : n \in Nat BY <2>2 DEF Nos, Occurrence
  <2> QED BY <2>3, <1>1, <1>4 DEF CqrsTyped
<1>9. CqrsTyped'
  <2>1. applied' \in 0..MaxApplied BY <1>1, <1>3, CqrsAssumption
  <2>2. \A n \in Nos(uncommitted') : n <= applied' BY <1>3, <1>5, <1>6, <1>7
  <2>3. \A c \in Callers : PubTyped(publishing[c]) /\ \A n \in Nos(publishing[c].todo) : n <= a + 1
    <3>1. ASSUME NEW n \in Nat, n <= a PROVE n <= a + 1 BY <3>1
    <3> QED BY <1>4, <1>8, <3>1, Nobody
  <2>4. \A n \in EventNos : n > a + 1 => Undelivered(delivered, n)
    <3>1. \A n \in EventNos : n \in Nat BY DEF EventNos
    <3> QED BY <1>1, <1>4, <3>1 DEF CqrsTyped
  <2> QED BY <1>3, <1>4, <1>6, <2>1, <2>2, <2>3, <2>4 DEF CqrsTyped
<1>10. ASSUME Steady PROVE Steady'
  <2>1. Undelivered(delivered, a + 1)
    <3>1. a + 1 \in EventNos BY <1>1, CqrsAssumption DEF EventNos
    <3> QED BY <1>1, <1>4, <3>1 DEF CqrsTyped
  <2>2. Apart'
    <3>1. ASSUME NEW c \in Callers, ~publishing[c].clears PROVE Nos(publishing[c].todo) \cap Nos(uncommitted') = {}
      <4>1. Nos(publishing[c].todo) \cap Nos(uncommitted) = {} BY <1>10, <3>1 DEF Steady, Apart
      <4>2. a + 1 \notin Nos(publishing[c].todo) BY <1>8
      <4> QED BY <4>1, <4>2, <1>6
    <3> QED BY <1>3, <1>10, <3>1 DEF Steady, Apart
  <2>3. (\A c \in Callers : ~publishing[c].clears) => \A n \in Nos(uncommitted') : Undelivered(delivered, n)
    BY <1>6, <1>10, <2>1 DEF Steady
  <2> QED BY <1>3, <1>10, <2>2, <2>3 DEF Steady
<1> QED BY <1>3, <1>9, <1>10 DEF CalledInv

LEMMA UncommitKept ==
  ASSUME CalledInv, Uncommit
  PROVE  CalledInv'
<1>1. uncommitted' = <<>> /\ UNCHANGED <<applied, publishing, delivered, overlapped>> BY DEF Uncommit
<1>2. Nos(uncommitted') = {} /\ Distinct(uncommitted') /\ uncommitted' \in Seq(Occurrence) BY <1>1, Rests DEF Distinct
<1>3. CqrsTyped' BY <1>1, <1>2 DEF CalledInv, CqrsTyped
<1>4. Steady => Steady' BY <1>1, <1>2 DEF Steady, Apart
<1> QED BY <1>1, <1>3, <1>4 DEF CalledInv

LEMMA CommitKept ==
  ASSUME CalledInv, NEW c \in Callers, Commit(c)
  PROVE  CalledInv'
<1>1. CqrsTyped BY DEF CalledInv
<1>2. uncommitted \in Seq(Occurrence) /\ Distinct(uncommitted) /\ uncommitted # <<>> /\ \A n \in Nos(uncommitted) : n <= applied
  BY <1>1 DEF CqrsTyped, Commit
<1>3. PICK r : r = Publication(uncommitted, TRUE) OBVIOUS
<1>4. /\ PubTyped(r) /\ r.todo = uncommitted /\ r.clears /\ r.commands = 0 /\ 1 \in DOMAIN uncommitted
      /\ uncommitted[1].type \in EventTypes /\ r.calls = CalledFor[uncommitted[1].type]
  BY <1>2, <1>3, PublicationTyped
<1>5. publishing' = [publishing EXCEPT ![c] = r] /\ UNCHANGED <<uncommitted, applied, delivered>>
      /\ overlapped' = (overlapped \/ \E d \in Callers : publishing[d].clears)
  BY <1>3 DEF Commit
<1>6. applied \in 0..MaxApplied /\ applied <= applied BY <1>1, CqrsAssumption DEF CqrsTyped
<1>7. /\ DOMAIN publishing' = Callers
      /\ \A d \in Callers : publishing'[d] = IF d = c THEN r ELSE publishing[d]
      /\ \A d \in Callers : PubTyped(publishing'[d]) /\ \A n \in Nos(publishing'[d].todo) : n <= applied'
  BY <1>1, <1>2, <1>4, <1>5, <1>6, OneMoves
<1>8. CqrsTyped' BY <1>1, <1>5, <1>7 DEF CqrsTyped
<1>9. ASSUME Steady, \A d \in Callers : ~publishing[d].clears PROVE Steady'
  <2>1. \A d \in Callers : d # c => Nos(publishing[d].todo) \cap Nos(uncommitted) = {} BY <1>9 DEF Steady, Apart
  <2>2. Apart' BY <1>4, <1>5, <1>7, <1>9, <2>1 DEF Steady, Apart
  <2>3. \A n \in Nos(uncommitted) : Undelivered(delivered, n) BY <1>9 DEF Steady
  <2>4. PubFresh(delivered, r)
    <3>1. \A i \in DOMAIN uncommitted : uncommitted[i].no \in Nos(uncommitted) BY DEF Nos
    <3>2. \A p \in r.calls : Who(p) \in Listeners BY <1>4, CalledAt, PlacesKnown
    <3> QED BY <1>4, <2>3, <3>1, <3>2 DEF PubFresh, Undelivered
  <2>5. \A d \in Callers : PubFresh(delivered, publishing'[d]) BY <1>7, <1>9, <2>4 DEF Steady
  <2>6. publishing'[c].clears BY <1>4, <1>7
  <2> QED BY <1>5, <1>9, <2>2, <2>5, <2>6 DEF Steady
<1> QED BY <1>5, <1>8, <1>9 DEF CalledInv

LEMMA PublishKept ==
  ASSUME CalledInv, NEW c \in Callers, NEW t \in EventTypes, ApplyAndPublish(c, t)
  PROVE  CalledInv'
<1>1. CqrsTyped BY DEF CalledInv
<1>2. PICK a \in Nat : a = applied /\ a < MaxApplied /\ a + 1 \in EventNos
  BY <1>1, CqrsAssumption DEF CqrsTyped, ApplyAndPublish, EventNos
<1>3. PICK s : s = <<[no |-> a + 1, type |-> t]>> OBVIOUS
<1>4. s \in Seq(Occurrence) /\ s # <<>> /\ Distinct(s) /\ Nos(s) = {a + 1}
  <2>1. <<>> \in Seq(Occurrence) /\ Distinct(<<>>) /\ \A n \in Nos(<<>>) : n <= a BY Rests DEF Distinct
  <2> QED BY <1>3, <2>1, Gathered
<1>5. PICK r : r = Publication(s, FALSE) OBVIOUS
<1>6. /\ PubTyped(r) /\ r.todo = s /\ ~r.clears /\ r.commands = 0 /\ 1 \in DOMAIN s
      /\ s[1].type \in EventTypes /\ r.calls = CalledFor[s[1].type]
  BY <1>4, <1>5, PublicationTyped
<1>7. publishing' = [publishing EXCEPT ![c] = r] /\ UNCHANGED <<uncommitted, delivered, overlapped>> /\ applied' = a + 1
  BY <1>2, <1>3, <1>5 DEF ApplyAndPublish
<1>8. applied' \in 0..MaxApplied /\ applied <= applied' /\ \A n \in Nos(r.todo) : n <= applied'
  BY <1>2, <1>4, <1>6, <1>7 DEF EventNos
<1>9. /\ DOMAIN publishing' = Callers
      /\ \A d \in Callers : publishing'[d] = IF d = c THEN r ELSE publishing[d]
      /\ \A d \in Callers : PubTyped(publishing'[d]) /\ \A n \in Nos(publishing'[d].todo) : n <= applied'
  BY <1>1, <1>6, <1>7, <1>8, OneMoves
<1>10. uncommitted \in Seq(Occurrence) /\ \A n \in Nos(uncommitted) : n \in Nat /\ n <= a
  <2>1. uncommitted \in Seq(Occurrence) BY <1>1 DEF CqrsTyped
  <2>2. \A i \in DOMAIN uncommitted : uncommitted[i] \in Occurrence BY <2>1
  <2>3. \A n \in Nos(uncommitted) : n \in Nat BY <2>2 DEF Nos, Occurrence
  <2> QED BY <1>1, <1>2, <2>1, <2>3 DEF CqrsTyped
<1>11. Undelivered(delivered, a + 1) /\ \A n \in EventNos : n > a + 1 => Undelivered(delivered, n)
  <2>1. \A n \in EventNos : n \in Nat BY DEF EventNos
  <2> QED BY <1>1, <1>2, <2>1 DEF CqrsTyped
<1>12. CqrsTyped' BY <1>1, <1>7, <1>8, <1>9, <1>10, <1>11 DEF CqrsTyped
<1>13. ASSUME Steady PROVE Steady'
  <2>1. \A d \in Callers : a + 1 \notin Nos(publishing[d].todo)
    <3>1. ASSUME NEW d \in Callers, a + 1 \in Nos(publishing[d].todo) PROVE FALSE
      <4>1. a + 1 <= a BY <1>1, <1>2, <3>1 DEF CqrsTyped
      <4> QED BY <4>1
    <3> QED BY <3>1
  <2>2. a + 1 \notin Nos(uncommitted) BY <1>10
  <2>3. Apart' BY <1>4, <1>6, <1>7, <1>9, <1>13, <2>1, <2>2 DEF Steady, Apart
  <2>4. PubFresh(delivered, r)
    <3>1. \A i \in DOMAIN s : s[i].no = a + 1 BY <1>4 DEF Nos
    <3>2. \A p \in r.calls : Who(p) \in Listeners BY <1>6, CalledAt, PlacesKnown
    <3> QED BY <1>6, <1>11, <3>1, <3>2 DEF PubFresh, Undelivered
  <2>5. \A d \in Callers : PubFresh(delivered, publishing'[d]) BY <1>9, <1>13, <2>4 DEF Steady
  <2>6. (\A d \in Callers : ~publishing'[d].clears) => \A d \in Callers : ~publishing[d].clears
    <3>1. ~Active(c) BY DEF ApplyAndPublish
    <3>2. ~publishing[c].clears BY <1>1, <3>1, Nobody
    <3> QED BY <1>9, <3>2
  <2> QED BY <1>7, <1>13, <2>3, <2>5, <2>6 DEF Steady
<1> QED BY <1>7, <1>12, <1>13 DEF CalledInv

\* One listener of r is being called, or done with.
Goes(r, s, p) ==
  /\ PubTyped(s) /\ s.todo = r.todo /\ s.clears = r.clears
  /\ (s.calls = r.calls /\ s.commands > 0) \/ (s.calls = r.calls \ {p} /\ s.commands = 0)

LEMMA NextGoes ==
  ASSUME NEW r, PubTyped(r), r.todo # <<>>, NEW p \in r.calls
  PROVE  /\ Goes(r, [r EXCEPT !.calls = @ \ {p}, !.commands = 0], p)
         /\ \A n \in Nat : n > 0 => Goes(r, [r EXCEPT !.commands = n], p)
<1>1. r \in Pub BY DEF PubTyped
<1>2. PICK s : s = [r EXCEPT !.calls = @ \ {p}, !.commands = 0] OBVIOUS
<1>3. s \in Pub /\ s.todo = r.todo /\ s.calls = r.calls \ {p} /\ s.commands = 0 /\ s.clears = r.clears
  BY <1>1, <1>2, Taken
<1>4. Goes(r, s, p) BY <1>3 DEF PubTyped, Goes
<1>5. ASSUME NEW n \in Nat, n > 0 PROVE Goes(r, [r EXCEPT !.commands = n], p)
  <2>1. PICK u : u = [r EXCEPT !.commands = n] OBVIOUS
  <2>2. u \in Pub /\ u.todo = r.todo /\ u.calls = r.calls /\ u.commands = n /\ u.clears = r.clears
    BY <1>1, <2>1, Commanded
  <2>3. Goes(r, u, p) BY <1>5, <2>2 DEF PubTyped, Goes
  <2> QED BY <2>1, <2>3
<1> QED BY <1>2, <1>4, <1>5

LEMMA FailGoes ==
  ASSUME CqrsTyped, NEW c \in Callers, NEW p \in publishing[c].calls, Fails(c, p)
  PROVE  \E s : /\ publishing' = [publishing EXCEPT ![c] = s]
                /\ (Goes(publishing[c], s, p) /\ overlapped' = overlapped) \/ (s = Resting /\ overlapped')
<1>1. Active(c) /\ PubTyped(publishing[c]) /\ publishing[c].todo # <<>> BY Nobody
<1>2. CASE Raises(c) BY <1>2 DEF Raises
<1>3. CASE Captured(c, p)
  <2>1. PICK s : s = [publishing[c] EXCEPT !.calls = @ \ {p}, !.commands = 0] OBVIOUS
  <2>2. Goes(publishing[c], s, p) BY <1>1, <2>1, NextGoes
  <2>3. publishing' = [publishing EXCEPT ![c] = s] /\ overlapped' = overlapped BY <1>3, <2>1 DEF Captured, NextCall
  <2> QED BY <2>2, <2>3
<1> QED BY <1>2, <1>3 DEF Fails

LEMMA CallGoes ==
  ASSUME CqrsTyped, NEW c \in Callers, NEW p \in publishing[c].calls, CallListener(c, p) \/ Execute(c, p)
  PROVE  \E s : /\ publishing' = [publishing EXCEPT ![c] = s]
                /\ (Goes(publishing[c], s, p) /\ overlapped' = overlapped) \/ (s = Resting /\ overlapped')
<1>1. Active(c) /\ PubTyped(publishing[c]) /\ publishing[c].todo # <<>> /\ Asked(p) \in Nat /\ publishing[c].commands \in Nat
  BY Nobody, PlacesKnown DEF Pub
<1>2. CASE Fails(c, p) BY <1>2, FailGoes
<1>3. ASSUME NextCall(c, p), overlapped' = overlapped
      PROVE  \E s : publishing' = [publishing EXCEPT ![c] = s] /\ Goes(publishing[c], s, p) /\ overlapped' = overlapped
  <2>1. PICK s : s = [publishing[c] EXCEPT !.calls = @ \ {p}, !.commands = 0] OBVIOUS
  <2>2. Goes(publishing[c], s, p) BY <1>1, <2>1, NextGoes
  <2>3. publishing' = [publishing EXCEPT ![c] = s] BY <1>3, <2>1 DEF NextCall
  <2> QED BY <1>3, <2>2, <2>3
<1>4. ASSUME NEW n \in Nat, n > 0, publishing' = [publishing EXCEPT ![c].commands = n], overlapped' = overlapped
      PROVE  \E s : publishing' = [publishing EXCEPT ![c] = s] /\ Goes(publishing[c], s, p) /\ overlapped' = overlapped
  <2>1. PICK s : s = [publishing[c] EXCEPT !.commands = n] OBVIOUS
  <2>2. Goes(publishing[c], s, p) BY <1>1, <1>4, <2>1, NextGoes
  <2>3. publishing' = [publishing EXCEPT ![c] = s] BY <1>4, <2>1
  <2> QED BY <1>4, <2>2, <2>3
<1>5. CASE CallListener(c, p)
  <2>1. CASE Asked(p) > 0 /\ publishing' = [publishing EXCEPT ![c].commands = Asked(p)] /\ UNCHANGED overlapped
    BY <1>1, <1>4, <2>1
  <2>2. CASE NextCall(c, p) /\ UNCHANGED overlapped BY <1>3, <2>2
  <2> QED BY <1>2, <1>5, <2>1, <2>2 DEF CallListener
<1>6. CASE Execute(c, p)
  <2>1. CASE NextCall(c, p) /\ UNCHANGED overlapped BY <1>3, <2>1
  <2>2. CASE publishing[c].commands # 1 /\ publishing' = [publishing EXCEPT ![c].commands = @ - 1] /\ UNCHANGED overlapped
    <3>1. PICK n : n = publishing[c].commands - 1 OBVIOUS
    <3>2. n \in Nat /\ n > 0 BY <1>1, <1>6, <2>2, <3>1 DEF Execute
    <3>3. publishing' = [publishing EXCEPT ![c].commands = n] BY <2>2, <3>1
    <3> QED BY <1>4, <2>2, <3>2, <3>3
  <2> QED BY <1>2, <1>6, <2>1, <2>2 DEF Execute
<1> QED BY <1>5, <1>6

LEMMA CallKept ==
  ASSUME CalledInv, NEW c \in Callers, NEW p \in publishing[c].calls, CallListener(c, p) \/ Execute(c, p)
  PROVE  CalledInv'
<1>1. CqrsTyped BY DEF CalledInv
<1>2. /\ Active(c) /\ PubTyped(publishing[c]) /\ publishing[c].todo # <<>> /\ publishing[c].todo \in Seq(Occurrence)
      /\ publishing[c].calls \subseteq SomePlaces
  BY <1>1, Nobody
<1>3. UNCHANGED <<uncommitted, applied>> BY DEF CallListener, Execute
<1>4. PICK s : /\ publishing' = [publishing EXCEPT ![c] = s]
               /\ (Goes(publishing[c], s, p) /\ overlapped' = overlapped) \/ (s = Resting /\ overlapped')
  BY <1>1, CallGoes
<1>5. PubTyped(s) /\ (s = Resting \/ (s.todo = publishing[c].todo /\ s.clears = publishing[c].clears)) BY <1>4, Rests DEF Goes
<1>6. \A n \in Nos(s.todo) : n \in Nos(publishing[c].todo) /\ n <= applied BY <1>1, <1>5, Rests DEF CqrsTyped
<1>7. applied \in 0..MaxApplied /\ applied <= applied BY <1>1, CqrsAssumption DEF CqrsTyped
<1>8. /\ DOMAIN publishing' = Callers
      /\ \A d \in Callers : publishing'[d] = IF d = c THEN s ELSE publishing[d]
      /\ \A d \in Callers : PubTyped(publishing'[d]) /\ \A n \in Nos(publishing'[d].todo) : n <= applied'
  BY <1>1, <1>3, <1>4, <1>5, <1>6, <1>7, OneMoves
<1>9. PICK k : k = publishing[c].todo[1].no OBVIOUS
<1>10. k \in Nos(publishing[c].todo) BY <1>2, <1>9, Followed DEF Nos
<1>11. /\ delivered' \in [EventNos -> [Listeners -> Nat]]
       /\ \A m \in EventNos, l \in Listeners :
            delivered'[m][l] = IF CallListener(c, p) /\ m = k /\ l = Who(p) THEN delivered[m][l] + 1 ELSE delivered[m][l]
       /\ k <= applied /\ k \in EventNos
  <2>1. k <= applied /\ k \in EventNos
    <3>1. k \in Nat \ {0}
      <4>1. publishing[c].todo[1] \in Occurrence BY <1>2, Followed DEF PubTyped
      <4> QED BY <1>9, <4>1 DEF Occurrence
    <3> QED BY <1>1, <1>10, <3>1, CqrsAssumption DEF CqrsTyped, EventNos
  <2>2. CASE CallListener(c, p) BY <1>1, <1>2, <1>9, <2>1, <2>2, Counted DEF CallListener
  <2>3. CASE ~CallListener(c, p) BY <1>1, <2>1, <2>3 DEF Execute, CqrsTyped
  <2> QED BY <2>2, <2>3
<1>12. \A n \in EventNos : n # k => (Undelivered(delivered', n) <=> Undelivered(delivered, n)) BY <1>11 DEF Undelivered
<1>13. CqrsTyped'
  <2>1. \A n \in EventNos : n > applied => Undelivered(delivered', n)
    <3>1. ASSUME NEW n \in EventNos, n > applied PROVE n # k /\ Undelivered(delivered, n)
      <4>1. n \in Nat /\ k \in Nat BY <1>11 DEF EventNos
      <4> QED BY <1>1, <1>11, <3>1, <4>1, CqrsAssumption DEF CqrsTyped
    <3> QED BY <1>12, <3>1
  <2>2. overlapped' \in BOOLEAN BY <1>1, <1>4 DEF CqrsTyped
  <2> QED BY <1>1, <1>3, <1>8, <1>11, <2>1, <2>2 DEF CqrsTyped
<1>14. ASSUME Steady, Goes(publishing[c], s, p), overlapped' = overlapped, ~overlapped PROVE Steady'
  <2>1. s.todo = publishing[c].todo /\ s.clears = publishing[c].clears BY <1>14 DEF Goes
  <2>2. \A d \in Callers : publishing'[d].todo = publishing[d].todo /\ publishing'[d].clears = publishing[d].clears BY <1>8, <2>1
  <2>3. Apart' BY <1>3, <1>14, <2>2 DEF Steady, Apart
  <2>4. PubFresh(delivered, publishing[c]) BY <1>14 DEF Steady
  <2>5. Who(p) \in Listeners BY <1>2, PlacesKnown
  <2>6. ASSUME NEW m \in EventNos, NEW l \in Listeners PROVE delivered'[m][l] <= 1
    <3>1. delivered[m][l] \in Nat /\ delivered[m][l] <= 1 BY <1>1, <1>14 DEF CqrsTyped, Steady
    <3>2. CASE CallListener(c, p) /\ m = k /\ l = Who(p)
      <4>1. publishing[c].commands = 0 BY <3>2 DEF CallListener
      <4>2. delivered[m][l] = 0 BY <1>9, <2>4, <3>2, <4>1 DEF PubFresh
      <4> QED BY <1>11, <3>2, <4>2
    <3>3. CASE ~(CallListener(c, p) /\ m = k /\ l = Who(p)) BY <1>11, <3>1, <3>3
    <3> QED BY <3>2, <3>3
  <2>7. (\A d \in Callers : ~publishing'[d].clears) => \A n \in Nos(uncommitted) : Undelivered(delivered', n)
    <3>1. SUFFICES ASSUME \A d \in Callers : ~publishing[d].clears, NEW n \in Nos(uncommitted) PROVE Undelivered(delivered', n)
      BY <2>2
    <3>2. n # k BY <1>10, <1>14, <3>1 DEF Steady, Apart
    <3>3. n \in EventNos
      <4>1. \A i \in DOMAIN uncommitted : uncommitted[i] \in Occurrence BY <1>1 DEF CqrsTyped
      <4>2. n \in Nat \ {0} BY <4>1 DEF Nos, Occurrence
      <4> QED BY <1>1, <4>2, CqrsAssumption DEF CqrsTyped, EventNos
    <3> QED BY <1>12, <1>14, <3>1, <3>2, <3>3 DEF Steady
  <2>8. ASSUME NEW d \in Callers, d # c PROVE PubFresh(delivered', publishing[d])
    <3>1. \A i \in DOMAIN publishing[d].todo : publishing[d].todo[i].no \in EventNos /\ publishing[d].todo[i].no # k
      <4>1. k \notin Nos(publishing[d].todo) BY <1>10, <1>14, <2>8 DEF Steady, Apart
      <4>2. \A i \in DOMAIN publishing[d].todo : publishing[d].todo[i] \in Occurrence BY <1>1, Nobody
      <4>3. \A i \in DOMAIN publishing[d].todo : publishing[d].todo[i].no \in Nat \ {0} /\ publishing[d].todo[i].no \in Nos(publishing[d].todo)
        BY <4>2 DEF Occurrence, Nos
      <4>4. \A i \in DOMAIN publishing[d].todo : publishing[d].todo[i].no <= applied BY <1>1, <4>3 DEF CqrsTyped
      <4> QED BY <1>7, <4>1, <4>3, <4>4, CqrsAssumption DEF EventNos
    <3>2. PubFresh(delivered, publishing[d]) BY <1>14 DEF Steady
    <3>3. ASSUME NEW q \in publishing[d].calls PROVE delivered'[publishing[d].todo[1].no][Who(q)] = delivered[publishing[d].todo[1].no][Who(q)]
      <4>1. q \in SomePlaces /\ publishing[d].todo \in Seq(Occurrence) /\ publishing[d].todo # <<>> BY <1>1, <3>3, Nobody
      <4>2. 1 \in DOMAIN publishing[d].todo BY <4>1
      <4>3. Who(q) \in Listeners BY <4>1, PlacesKnown
      <4> QED BY <1>11, <3>1, <4>2, <4>3
    <3> QED BY <1>12, <3>1, <3>2, <3>3 DEF PubFresh
  <2>9. PubFresh(delivered', s)
    <3>1. ASSUME NEW i \in DOMAIN s.todo, i > 1 PROVE Undelivered(delivered', s.todo[i].no)
      <4>1. 1 \in DOMAIN s.todo /\ Distinct(s.todo) /\ s.todo \in Seq(Occurrence) BY <1>2, <2>1, Followed DEF PubTyped
      <4>2. s.todo[i].no # k BY <1>9, <2>1, <3>1, <4>1 DEF Distinct
      <4>3. s.todo[i].no \in EventNos
        <5>1. s.todo[i] \in Occurrence /\ s.todo[i].no \in Nos(s.todo) BY <4>1 DEF Nos
        <5> QED BY <1>6, <1>7, <5>1, CqrsAssumption DEF EventNos, Occurrence
      <4> QED BY <1>12, <2>1, <2>4, <3>1, <4>2, <4>3 DEF PubFresh
    <3>2. ASSUME NEW q \in s.calls PROVE delivered'[k][Who(q)] = 0 \/ (s.commands > 0 /\ Turn(s.calls, q))
      <4>1. q \in publishing[c].calls /\ q \in SomePlaces /\ p \in SomePlaces BY <1>2, <1>14, <3>2 DEF Goes
      <4>2. Turn(publishing[c].calls, p) BY DEF CallListener, Execute
      <4>3. Who(q) \in Listeners BY <4>1, PlacesKnown
      <4>4. CASE q = p BY <1>14, <3>2, <4>2, <4>4 DEF Goes
      <4>5. CASE q # p
        <5>1. Who(q) # Who(p) BY <1>2, <4>1, <4>5 DEF PubTyped
        <5>2. delivered'[k][Who(q)] = delivered[k][Who(q)] BY <1>11, <4>3, <5>1
        <5>3. ~Turn(publishing[c].calls, q) BY <4>1, <4>2, <4>5, OneTurn DEF Turn
        <5> QED BY <1>9, <2>4, <4>1, <5>2, <5>3 DEF PubFresh
      <4> QED BY <4>4, <4>5
    <3> QED BY <1>9, <2>1, <3>1, <3>2 DEF PubFresh
  <2>10. \A d \in Callers : PubFresh(delivered', publishing'[d]) BY <1>8, <2>8, <2>9
  <2> QED BY <1>3, <2>3, <2>6, <2>7, <2>10 DEF Steady
<1> QED BY <1>4, <1>13, <1>14 DEF CalledInv

LEMMA DoneKept ==
  ASSUME CalledInv, NEW c \in Callers, EventDone(c)
  PROVE  CalledInv'
<1>1. CqrsTyped BY DEF CalledInv
<1>2. /\ Active(c) /\ PubTyped(publishing[c]) /\ publishing[c].todo # <<>> /\ publishing[c].todo \in Seq(Occurrence)
      /\ publishing[c].clears \in BOOLEAN /\ Distinct(publishing[c].todo)
  BY <1>1, Nobody DEF EventDone, PubTyped
<1>3. UNCHANGED <<applied, delivered, overlapped>> BY DEF EventDone
<1>4. applied \in 0..MaxApplied /\ applied <= applied BY <1>1, CqrsAssumption DEF CqrsTyped
<1>5. PICK rest : rest = Tail(publishing[c].todo) OBVIOUS
<1>6. /\ rest \in Seq(Occurrence) /\ Distinct(rest) /\ Nos(rest) \subseteq Nos(publishing[c].todo)
      /\ \A i \in DOMAIN rest : i + 1 \in DOMAIN publishing[c].todo /\ i + 1 > 1 /\ rest[i] = publishing[c].todo[i + 1]
  BY <1>2, <1>5, Followed
<1>7. CASE rest # <<>>
  <2>1. PICK s : s = Publication(rest, publishing[c].clears) OBVIOUS
  <2>2. publishing' = [publishing EXCEPT ![c] = s] /\ UNCHANGED uncommitted BY <1>5, <1>7, <2>1 DEF EventDone
  <2>3. /\ PubTyped(s) /\ s.todo = rest /\ s.clears = publishing[c].clears /\ s.commands = 0 /\ 1 \in DOMAIN rest
        /\ rest[1].type \in EventTypes /\ s.calls = CalledFor[rest[1].type]
    BY <1>2, <1>6, <1>7, <2>1, PublicationTyped
  <2>4. \A n \in Nos(s.todo) : n <= applied BY <1>1, <1>6, <2>3 DEF CqrsTyped
  <2>5. /\ DOMAIN publishing' = Callers
        /\ \A d \in Callers : publishing'[d] = IF d = c THEN s ELSE publishing[d]
        /\ \A d \in Callers : PubTyped(publishing'[d]) /\ \A n \in Nos(publishing'[d].todo) : n <= applied'
    BY <1>1, <1>3, <1>4, <2>2, <2>3, <2>4, OneMoves
  <2>6. CqrsTyped' BY <1>1, <1>3, <2>2, <2>5 DEF CqrsTyped
  <2>7. ASSUME Steady PROVE Steady'
    <3>1. \A d \in Callers : publishing'[d].clears = publishing[d].clears
                             /\ Nos(publishing'[d].todo) \subseteq Nos(publishing[d].todo)
      BY <1>6, <2>3, <2>5
    <3>2. Apart' BY <2>2, <2>7, <3>1 DEF Steady, Apart
    <3>3. PubFresh(delivered, publishing[c]) BY <2>7 DEF Steady
    <3>4. \A i \in DOMAIN rest : Undelivered(delivered, rest[i].no) BY <1>6, <3>3 DEF PubFresh
    <3>5. \A p \in s.calls : Who(p) \in Listeners BY <2>3, CalledAt, PlacesKnown
    <3>6. PubFresh(delivered, s) BY <2>3, <3>4, <3>5 DEF PubFresh, Undelivered
    <3>7. \A d \in Callers : PubFresh(delivered, publishing'[d]) BY <2>5, <2>7, <3>6 DEF Steady
    <3> QED BY <1>3, <2>2, <2>7, <3>1, <3>2, <3>7 DEF Steady
  <2> QED BY <1>3, <2>6, <2>7 DEF CalledInv
<1>8. CASE rest = <<>>
  <2>1. publishing' = [publishing EXCEPT ![c] = Resting] /\ uncommitted' = IF publishing[c].clears THEN <<>> ELSE uncommitted
    BY <1>5, <1>8 DEF EventDone
  <2>2. /\ DOMAIN publishing' = Callers
        /\ \A d \in Callers : publishing'[d] = IF d = c THEN Resting ELSE publishing[d]
        /\ \A d \in Callers : PubTyped(publishing'[d]) /\ \A n \in Nos(publishing'[d].todo) : n <= applied'
    <3>1. PubTyped(Resting) /\ \A n \in Nos(Resting.todo) : n <= applied' BY Rests
    <3> QED BY <1>1, <1>3, <1>4, <2>1, <3>1, OneMoves
  <2>3. /\ uncommitted' \in Seq(Occurrence) /\ Distinct(uncommitted') /\ Nos(uncommitted') \subseteq Nos(uncommitted)
        /\ publishing[c].clears => Nos(uncommitted') = {}
    BY <1>1, <2>1, Rests DEF CqrsTyped, Distinct
  <2>4. CqrsTyped' BY <1>1, <1>3, <2>2, <2>3 DEF CqrsTyped
  <2>5. ASSUME Steady PROVE Steady'
    <3>1. ~publishing'[c].clears /\ Nos(publishing'[c].todo) = {} /\ PubFresh(delivered, publishing'[c]) BY <2>2, Rests
    <3>2. Apart' BY <2>2, <2>3, <2>5, <3>1 DEF Steady, Apart
    <3>3. (\A d \in Callers : ~publishing'[d].clears) => \A n \in Nos(uncommitted') : Undelivered(delivered, n)
      BY <2>2, <2>3, <2>5 DEF Steady
    <3>4. \A d \in Callers : PubFresh(delivered, publishing'[d]) BY <2>2, <2>5, <3>1 DEF Steady
    <3> QED BY <1>3, <2>5, <3>2, <3>3, <3>4 DEF Steady
  <2> QED BY <1>3, <2>4, <2>5 DEF CalledInv
<1> QED BY <1>7, <1>8

LEMMA CqrsStart == CqrsInit => CalledInv
<1> SUFFICES ASSUME CqrsInit PROVE CalledInv OBVIOUS
<1>1. /\ uncommitted = <<>> /\ applied = 0 /\ overlapped = FALSE /\ publishing = [c \in Callers |-> Resting]
      /\ delivered = [n \in EventNos |-> [l \in Listeners |-> 0]]
  BY DEF CqrsInit
<1>2. Nos(uncommitted) = {} /\ uncommitted \in Seq(Occurrence) /\ Distinct(uncommitted) BY <1>1, Rests DEF Distinct
<1>3. 0 \in 0..MaxApplied BY CqrsAssumption
<1>4. DOMAIN publishing = Callers /\ \A c \in Callers : publishing[c] = Resting BY <1>1
<1>5. delivered \in [EventNos -> [Listeners -> Nat]] /\ \A n \in EventNos, l \in Listeners : delivered[n][l] = 0 BY <1>1
<1>6. CqrsTyped BY <1>1, <1>2, <1>3, <1>4, <1>5, Rests DEF CqrsTyped, Undelivered
<1>7. Apart BY <1>2, <1>4, Rests DEF Apart
<1>8. Steady BY <1>2, <1>4, <1>5, <1>7, Rests DEF Steady
<1> QED BY <1>6, <1>8 DEF CalledInv

LEMMA CqrsKept ==
  ASSUME CalledInv, [CqrsNext]_cqrsVars
  PROVE  CalledInv'
<1>1. CASE UNCHANGED cqrsVars
  BY <1>1 DEF cqrsVars, CalledInv, CqrsTyped, Steady, Apart
<1>2. CASE CqrsNext BY <1>2, ApplyKept, UncommitKept, CommitKept, PublishKept, CallKept, DoneKept DEF CqrsNext
<1> QED BY <1>1, <1>2

LEMMA CqrsShown == CalledInv => CalledOnce
  BY DEF CalledInv, Steady, CalledOnce
-----------------------------------------------------------------------------
(* What a commit forgets *)

\* The listener whose commands run has been called.
Begun(given, r) ==
  \A p \in r.calls : r.commands > 0 /\ Turn(r.calls, p) => given[r.todo[1].no][Who(p)] > 0

\* The publication r still brings the event e to each of its listeners.
Brings(given, r, e) ==
  \/ \E i \in DOMAIN r.todo : i > 1 /\ r.todo[i] = e
  \/ r.todo # <<>> /\ r.todo[1] = e /\ \A p \in CalledFor[e.type] : p \in r.calls \/ given[e.no][Who(p)] > 0

\* A commit in progress forgets no safe event that it does not bring.
KeptInv ==
  /\ CqrsTyped
  /\ \A n \in safe : n \in Nat /\ n <= applied
  /\ \A c \in Callers : Begun(delivered, publishing[c])
  /\ \A c \in Callers : publishing[c].clears =>
       \A i \in DOMAIN uncommitted :
         uncommitted[i].no \in safe =>
           Delivered(uncommitted[i].no, uncommitted[i].type) \/ Brings(delivered, publishing[c], uncommitted[i])

LEMMA KeptStart == CqrsInit => KeptInv
<1> SUFFICES ASSUME CqrsInit PROVE KeptInv OBVIOUS
<1>1. CqrsTyped BY CqrsStart DEF CalledInv
<1>2. safe = {} /\ \A c \in Callers : publishing[c] = Resting BY DEF CqrsInit
<1> QED BY <1>1, <1>2, Rests DEF KeptInv, Begun

\* Events that are not new stay covered when no call is taken back.
LEMMA MoreGiven ==
  ASSUME CqrsTyped, CqrsTyped', \A m \in EventNos, l \in Listeners : delivered[m][l] <= delivered'[m][l],
         NEW n \in EventNos
  PROVE  /\ \A l \in Listeners : delivered[n][l] > 0 => delivered'[n][l] > 0
         /\ \A t \in EventTypes : Delivered(n, t) => Delivered(n, t)'
<1>1. ASSUME NEW l \in Listeners, delivered[n][l] > 0 PROVE delivered'[n][l] > 0
  <2>1. delivered[n][l] \in Nat /\ delivered'[n][l] \in Nat /\ delivered[n][l] <= delivered'[n][l] BY DEF CqrsTyped
  <2> QED BY <1>1, <2>1
<1>2. ASSUME NEW t \in EventTypes, Delivered(n, t) PROVE \A p \in CalledFor[t] : delivered'[n][Who(p)] > 0
  BY <1>1, <1>2, CalledAt, PlacesKnown DEF Delivered
<1> QED BY <1>1, <1>2 DEF Delivered

LEMMA KeptApply ==
  ASSUME KeptInv, CqrsTyped', NEW t \in EventTypes, Apply(t)
  PROVE  KeptInv'
<1>1. CqrsTyped BY DEF KeptInv
<1>2. PICK a \in Nat : a = applied BY CqrsAssumption DEF CqrsTyped, KeptInv
<1>3. PICK e : e = [no |-> a + 1, type |-> t] OBVIOUS
<1>4. uncommitted' = Append(uncommitted, e) /\ applied' = a + 1 /\ UNCHANGED <<publishing, delivered>>
      /\ safe' = IF \E c \in Callers : publishing[c].clears THEN safe ELSE safe \cup {a + 1}
  BY <1>2, <1>3 DEF Apply
<1>5. \A n \in safe' : n \in Nat /\ n <= applied' BY <1>2, <1>4 DEF KeptInv
<1>6. ASSUME NEW c \in Callers, publishing[c].clears, NEW i \in DOMAIN uncommitted', uncommitted'[i].no \in safe'
      PROVE  i \in DOMAIN uncommitted /\ uncommitted'[i] = uncommitted[i] /\ safe' = safe
  <2>1. safe' = safe BY <1>4, <1>6
  <2>2. uncommitted \in Seq(Occurrence) /\ e.no = a + 1 BY <1>1, <1>3 DEF CqrsTyped
  <2>3. i \in DOMAIN uncommitted \/ i = Len(uncommitted) + 1 BY <1>4, <2>2
  <2>4. \A j \in DOMAIN uncommitted : uncommitted'[j] = uncommitted[j] BY <1>4, <2>2
  <2>5. uncommitted'[Len(uncommitted) + 1] = e BY <1>4, <2>2
  <2>6. a + 1 \notin safe BY <1>2 DEF KeptInv
  <2> QED BY <1>6, <2>1, <2>2, <2>3, <2>4, <2>5, <2>6
<1> QED BY <1>4, <1>5, <1>6 DEF KeptInv, Delivered

LEMMA KeptUncommit ==
  ASSUME KeptInv, CqrsTyped', Uncommit
  PROVE  KeptInv'
<1>1. uncommitted' = <<>> /\ safe' \subseteq safe /\ UNCHANGED <<applied, publishing, delivered>> BY DEF Uncommit
<1>2. DOMAIN uncommitted' = {} BY <1>1
<1> QED BY <1>1, <1>2 DEF KeptInv

LEMMA KeptCommit ==
  ASSUME KeptInv, CqrsTyped', NEW c \in Callers, Commit(c)
  PROVE  KeptInv'
<1>1. CqrsTyped BY DEF KeptInv
<1>2. uncommitted \in Seq(Occurrence) /\ Distinct(uncommitted) /\ uncommitted # <<>> BY <1>1 DEF CqrsTyped, Commit
<1>3. PICK r : r = Publication(uncommitted, TRUE) OBVIOUS
<1>4. r.todo = uncommitted /\ r.commands = 0 /\ r.calls = CalledFor[uncommitted[1].type] BY <1>2, <1>3, PublicationTyped
<1>5. publishing' = [publishing EXCEPT ![c] = r] /\ UNCHANGED <<uncommitted, applied, delivered, safe>> BY <1>3 DEF Commit
<1>6. \A d \in Callers : publishing'[d] = IF d = c THEN r ELSE publishing[d] BY <1>1, <1>5 DEF CqrsTyped
<1>7. Begun(delivered, r) BY <1>4 DEF Begun
<1>8. \A i \in DOMAIN uncommitted : Brings(delivered, r, uncommitted[i])
  <2>1. \A i \in DOMAIN uncommitted : i = 1 \/ i > 1 BY <1>2
  <2> QED BY <1>2, <1>4, <2>1 DEF Brings
<1> QED BY <1>5, <1>6, <1>7, <1>8 DEF KeptInv, Delivered

LEMMA KeptPublish ==
  ASSUME KeptInv, CqrsTyped', NEW c \in Callers, NEW t \in EventTypes, ApplyAndPublish(c, t)
  PROVE  KeptInv'
<1>1. CqrsTyped BY DEF KeptInv
<1>2. PICK a \in Nat : a = applied BY CqrsAssumption DEF CqrsTyped, KeptInv
<1>3. PICK s : s = <<[no |-> a + 1, type |-> t]>> OBVIOUS
<1>4. s \in Seq(Occurrence) /\ s # <<>> /\ Distinct(s)
  <2>1. <<>> \in Seq(Occurrence) /\ Distinct(<<>>) /\ \A n \in Nos(<<>>) : n <= a BY Rests DEF Distinct
  <2> QED BY <1>3, <2>1, Gathered
<1>5. PICK r : r = Publication(s, FALSE) OBVIOUS
<1>6. r.commands = 0 /\ ~r.clears BY <1>4, <1>5, PublicationTyped
<1>7. publishing' = [publishing EXCEPT ![c] = r] /\ UNCHANGED <<uncommitted, delivered, safe>> /\ applied' = a + 1
  BY <1>2, <1>3, <1>5 DEF ApplyAndPublish
<1>8. \A d \in Callers : publishing'[d] = IF d = c THEN r ELSE publishing[d] BY <1>1, <1>7 DEF CqrsTyped
<1>9. Begun(delivered, r) BY <1>6 DEF Begun
<1>10. \A n \in safe : n \in Nat /\ n <= a + 1 BY <1>2 DEF KeptInv
<1> QED BY <1>6, <1>7, <1>8, <1>9, <1>10 DEF KeptInv, Delivered

LEMMA KeptCall ==
  ASSUME KeptInv, CqrsTyped', NEW c \in Callers, NEW p \in publishing[c].calls, CallListener(c, p) \/ Execute(c, p)
  PROVE  KeptInv'
<1>1. CqrsTyped BY DEF KeptInv
<1>2. /\ Active(c) /\ PubTyped(publishing[c]) /\ publishing[c].todo # <<>> /\ publishing[c].todo \in Seq(Occurrence)
      /\ publishing[c].calls \subseteq SomePlaces
  BY <1>1, Nobody
<1>3. UNCHANGED <<uncommitted, applied, safe>> BY DEF CallListener, Execute
<1>4. PICK s : /\ publishing' = [publishing EXCEPT ![c] = s]
               /\ (Goes(publishing[c], s, p) /\ overlapped' = overlapped) \/ (s = Resting /\ overlapped')
  BY <1>1, CallGoes
<1>5. \A d \in Callers : publishing'[d] = IF d = c THEN s ELSE publishing[d] BY <1>1, <1>4 DEF CqrsTyped
<1>6. PICK k : k = publishing[c].todo[1].no OBVIOUS
<1>7. Who(p) \in Listeners BY <1>2, PlacesKnown
<1>8. ASSUME NEW d \in Callers, NEW i \in DOMAIN publishing[d].todo PROVE publishing[d].todo[i].no \in EventNos
  <2>1. publishing[d].todo[i] \in Occurrence /\ publishing[d].todo[i].no \in Nos(publishing[d].todo) BY <1>1, Nobody DEF Nos
  <2>2. publishing[d].todo[i].no \in Nat \ {0} BY <2>1 DEF Occurrence
  <2>3. publishing[d].todo[i].no <= applied BY <1>1, <2>1 DEF CqrsTyped
  <2> QED BY <1>1, <2>2, <2>3, CqrsAssumption DEF CqrsTyped, EventNos
<1>9. k \in EventNos BY <1>2, <1>6, <1>8, Followed DEF PubTyped
<1>10. /\ \A m \in EventNos, l \in Listeners : delivered[m][l] <= delivered'[m][l]
       /\ delivered'[k][Who(p)] > 0
  <2>1. \A m \in EventNos, l \in Listeners : delivered[m][l] \in Nat BY <1>1 DEF CqrsTyped
  <2>2. CASE CallListener(c, p)
    <3>1. \A m \in EventNos, l \in Listeners :
            delivered'[m][l] = IF m = k /\ l = Who(p) THEN delivered[m][l] + 1 ELSE delivered[m][l]
      BY <1>1, <1>2, <1>6, <2>2, Counted DEF CallListener
    <3> QED BY <1>7, <1>9, <2>1, <3>1
  <2>3. CASE Execute(c, p)
    <3>1. delivered' = delivered BY <2>3 DEF Execute
    <3>2. delivered[k][Who(p)] > 0 BY <1>6, <2>3 DEF KeptInv, Begun, Execute
    <3> QED BY <2>1, <3>1, <3>2
  <2> QED BY <2>2, <2>3
<1>11. ASSUME NEW n \in EventNos
       PROVE  /\ \A l \in Listeners : delivered[n][l] > 0 => delivered'[n][l] > 0
              /\ \A t \in EventTypes : Delivered(n, t) => Delivered(n, t)'
  BY <1>1, <1>10, MoreGiven
<1>12. ASSUME NEW d \in Callers PROVE Begun(delivered', publishing'[d])
  <2>1. CASE s = Resting /\ d = c BY <1>5, <2>1, Rests DEF Begun
  <2>2. CASE d # c
    <3>1. SUFFICES ASSUME NEW q \in publishing[d].calls, publishing[d].commands > 0, Turn(publishing[d].calls, q)
                   PROVE  delivered'[publishing[d].todo[1].no][Who(q)] > 0
      BY <1>5, <2>2 DEF Begun
    <3>2. q \in SomePlaces /\ publishing[d].todo \in Seq(Occurrence) /\ publishing[d].todo # <<>> BY <1>1, <3>1, Nobody
    <3>3. 1 \in DOMAIN publishing[d].todo BY <3>2
    <3>4. delivered[publishing[d].todo[1].no][Who(q)] > 0 BY <3>1 DEF KeptInv, Begun
    <3> QED BY <1>8, <1>11, <3>2, <3>3, <3>4, PlacesKnown
  <2>3. CASE Goes(publishing[c], s, p) /\ d = c
    <3>1. SUFFICES ASSUME NEW q \in s.calls, s.commands > 0, Turn(s.calls, q) PROVE delivered'[s.todo[1].no][Who(q)] > 0
      BY <1>5, <2>3 DEF Begun
    <3>2. s.calls = publishing[c].calls /\ s.todo = publishing[c].todo BY <2>3, <3>1 DEF Goes
    <3>3. Turn(publishing[c].calls, p) BY DEF CallListener, Execute
    <3>4. q = p BY <1>2, <3>1, <3>2, <3>3, OneTurn DEF Turn
    <3> QED BY <1>6, <1>10, <3>2, <3>4
  <2> QED BY <1>4, <2>1, <2>2, <2>3
<1>13. ASSUME NEW d \in Callers, publishing'[d].clears, NEW i \in DOMAIN uncommitted, uncommitted[i].no \in safe
       PROVE  Delivered(uncommitted[i].no, uncommitted[i].type)' \/ Brings(delivered', publishing'[d], uncommitted[i])
  <2>1. PICK e : e = uncommitted[i] OBVIOUS
  <2>2. e.no \in EventNos /\ e.type \in EventTypes
    <3>1. e \in Occurrence /\ e.no \in Nos(uncommitted) BY <1>1, <2>1 DEF CqrsTyped, Nos
    <3> QED BY <1>1, <3>1, CqrsAssumption DEF CqrsTyped, EventNos, Occurrence
  <2>3. publishing[d].clears /\ (d # c \/ Goes(publishing[c], s, p)) BY <1>4, <1>5, <1>13, Rests DEF Goes
  <2>4. Delivered(e.no, e.type) \/ Brings(delivered, publishing[d], e) BY <1>13, <2>1, <2>3 DEF KeptInv
  <2>5. uncommitted'[i] = e BY <1>3, <2>1
  <2>6. CASE Delivered(e.no, e.type)
    <3>1. Delivered(e.no, e.type)' BY <1>11, <2>2, <2>6
    <3> QED BY <2>5, <3>1 DEF Delivered
  <2>7. CASE Brings(delivered, publishing[d], e)
    <3>1. publishing'[d].todo = publishing[d].todo BY <1>5, <2>3 DEF Goes
    <3>2. CASE \E j \in DOMAIN publishing[d].todo : j > 1 /\ publishing[d].todo[j] = e BY <2>1, <3>1, <3>2 DEF Brings
    <3>3. CASE publishing[d].todo # <<>> /\ publishing[d].todo[1] = e
               /\ \A q \in CalledFor[e.type] : q \in publishing[d].calls \/ delivered[e.no][Who(q)] > 0
      <4>1. ASSUME NEW q \in CalledFor[e.type] PROVE q \in publishing'[d].calls \/ delivered'[e.no][Who(q)] > 0
        <5>1. Who(q) \in Listeners BY <2>2, CalledAt, PlacesKnown
        <5>2. CASE delivered[e.no][Who(q)] > 0 BY <1>11, <2>2, <5>1, <5>2
        <5>3. CASE q \in publishing[d].calls /\ d # c BY <1>5, <5>3
        <5>4. CASE q \in publishing[d].calls /\ d = c
          <6>1. e.no = k BY <1>6, <3>3, <5>4
          <6>2. q = p \/ q \in s.calls BY <2>3, <5>4 DEF Goes
          <6> QED BY <1>5, <1>10, <5>4, <6>1, <6>2
        <5> QED BY <3>3, <5>2, <5>3, <5>4
      <4> QED BY <2>1, <3>1, <3>3, <4>1 DEF Brings
    <3> QED BY <2>7, <3>2, <3>3 DEF Brings
  <2> QED BY <2>4, <2>6, <2>7
<1> QED BY <1>3, <1>12, <1>13 DEF KeptInv, Delivered

LEMMA KeptDone ==
  ASSUME KeptInv, CqrsTyped', NEW c \in Callers, EventDone(c)
  PROVE  KeptInv'
<1>1. CqrsTyped BY DEF KeptInv
<1>2. /\ Active(c) /\ PubTyped(publishing[c]) /\ publishing[c].todo # <<>> /\ publishing[c].todo \in Seq(Occurrence)
      /\ publishing[c].clears \in BOOLEAN /\ Distinct(publishing[c].todo)
  BY <1>1, Nobody DEF EventDone, PubTyped
<1>3. UNCHANGED <<applied, delivered, safe>> /\ publishing[c].calls = {} BY DEF EventDone
<1>4. PICK rest : rest = Tail(publishing[c].todo) OBVIOUS
<1>5. rest \in Seq(Occurrence) /\ Distinct(rest) /\ DOMAIN publishing = Callers
  BY <1>1, <1>2, <1>4, Followed DEF CqrsTyped
<1>6. CASE rest # <<>>
  <2>1. PICK s : s = Publication(rest, publishing[c].clears) OBVIOUS
  <2>2. publishing' = [publishing EXCEPT ![c] = s] /\ UNCHANGED uncommitted BY <1>4, <1>6, <2>1 DEF EventDone
  <2>3. s.todo = rest /\ s.clears = publishing[c].clears /\ s.commands = 0 /\ s.calls = CalledFor[rest[1].type]
    BY <1>2, <1>5, <1>6, <2>1, PublicationTyped
  <2>4. \A d \in Callers : publishing'[d] = IF d = c THEN s ELSE publishing[d] BY <1>5, <2>2
  <2>5. Begun(delivered, s) BY <2>3 DEF Begun
  <2>6. ASSUME NEW e, Brings(delivered, publishing[c], e) PROVE Delivered(e.no, e.type) \/ Brings(delivered, s, e)
    <3>1. CASE publishing[c].todo[1] = e /\ \A p \in CalledFor[e.type] : p \in publishing[c].calls \/ delivered[e.no][Who(p)] > 0
      BY <1>3, <3>1 DEF Delivered
    <3>2. ASSUME NEW i \in DOMAIN publishing[c].todo, i > 1, publishing[c].todo[i] = e PROVE Brings(delivered, s, e)
      <4>1. i - 1 \in DOMAIN rest /\ rest[i - 1] = e BY <1>2, <1>4, <3>2
      <4>2. i - 1 = 1 \/ i - 1 > 1 BY <1>2, <3>2
      <4> QED BY <1>6, <2>3, <4>1, <4>2 DEF Brings
    <3> QED BY <2>6, <3>1, <3>2 DEF Brings
  <2>7. ASSUME NEW d \in Callers, publishing'[d].clears, NEW i \in DOMAIN uncommitted, uncommitted[i].no \in safe
        PROVE  Delivered(uncommitted[i].no, uncommitted[i].type) \/ Brings(delivered, publishing'[d], uncommitted[i])
    BY <2>3, <2>4, <2>6, <2>7 DEF KeptInv
  <2> QED BY <1>3, <2>2, <2>4, <2>5, <2>7 DEF KeptInv, Delivered
<1>7. CASE rest = <<>>
  <2>1. publishing' = [publishing EXCEPT ![c] = Resting] /\ uncommitted' = IF publishing[c].clears THEN <<>> ELSE uncommitted
    BY <1>4, <1>7 DEF EventDone
  <2>2. \A d \in Callers : publishing'[d] = IF d = c THEN Resting ELSE publishing[d] BY <1>5, <2>1
  <2>3. DOMAIN uncommitted' = {} \/ uncommitted' = uncommitted BY <2>1
  <2>4. Begun(delivered, Resting) /\ ~Resting.clears BY Rests DEF Begun
  <2> QED BY <1>3, <2>2, <2>3, <2>4 DEF KeptInv, Delivered
<1> QED BY <1>6, <1>7

LEMMA KeptKept ==
  ASSUME KeptInv, CqrsTyped', [CqrsNext]_cqrsVars
  PROVE  KeptInv'
<1>1. CASE UNCHANGED cqrsVars BY <1>1 DEF cqrsVars, KeptInv, Delivered
<1>2. CASE CqrsNext
  BY <1>2, KeptApply, KeptUncommit, KeptCommit, KeptPublish, KeptCall, KeptDone DEF CqrsNext
<1> QED BY <1>1, <1>2

LEMMA NothingLost ==
  ASSUME KeptInv, CqrsNext
  PROVE  \A e \in {uncommitted[i] : i \in DOMAIN uncommitted} :
           e.no \in safe' /\ ~Kept(e.no)' => Delivered(e.no, e.type)
<1>1. CqrsTyped BY DEF KeptInv
<1>2. SUFFICES ASSUME NEW e, NEW i \in DOMAIN uncommitted, e = uncommitted[i], e.no \in safe', ~Kept(e.no)'
               PROVE  Delivered(e.no, e.type)
  OBVIOUS
<1>3. \A j \in DOMAIN uncommitted' : uncommitted'[j].no # e.no BY <1>2 DEF Kept
<1>4. uncommitted' # uncommitted BY <1>2, <1>3
<1>5. ASSUME NEW t \in EventTypes, Apply(t) PROVE FALSE
  <2>1. uncommitted \in Seq(Occurrence) BY <1>1 DEF CqrsTyped
  <2>2. PICK f : uncommitted' = Append(uncommitted, f) BY <1>5 DEF Apply
  <2>3. i \in DOMAIN uncommitted' /\ uncommitted'[i] = uncommitted[i] BY <1>2, <2>1, <2>2
  <2> QED BY <1>2, <1>3, <2>3
<1>6. ASSUME Uncommit PROVE FALSE BY <1>2, <1>6 DEF Uncommit
<1>7. PICK c \in Callers : EventDone(c)
  BY <1>4, <1>5, <1>6 DEF CqrsNext, ApplyAndPublish, Commit, CallListener, Execute
<1>8. publishing[c].clears /\ Tail(publishing[c].todo) = <<>> /\ publishing[c].calls = {} /\ UNCHANGED safe
  BY <1>4, <1>7 DEF EventDone
<1>9. Delivered(e.no, e.type) \/ Brings(delivered, publishing[c], e) BY <1>2, <1>8 DEF KeptInv
<1>10. ASSUME Brings(delivered, publishing[c], e) PROVE Delivered(e.no, e.type)
  <2>1. publishing[c].todo \in Seq(Occurrence) /\ publishing[c].todo # <<>> BY <1>1, <1>7, Nobody DEF EventDone
  <2>2. Len(Tail(publishing[c].todo)) = Len(publishing[c].todo) - 1 BY <2>1
  <2>3. DOMAIN publishing[c].todo = 1..Len(publishing[c].todo) /\ Len(publishing[c].todo) = 1
    <3>1. Len(<<>>) = 0 OBVIOUS
    <3>2. Len(Tail(publishing[c].todo)) = 0 BY <1>8, <3>1, Zenon
    <3> QED BY <2>1, <2>2, <3>2
  <2> QED BY <1>8, <1>10, <2>3 DEF Brings, Delivered
<1> QED BY <1>9, <1>10

-----------------------------------------------------------------------------
(* The services together *)

ServicesInv == EventsInv /\ CalledInv /\ KeptInv

LEMMA ServicesKept == Spec => []ServicesInv
<1>1. Init => ServicesInv BY EventsStart, CqrsStart, KeptStart DEF Init, ServicesInv
<1>2. ServicesInv /\ [Next]_messagingVars => ServicesInv'
  <2>1. ASSUME ServicesInv, [Next]_messagingVars PROVE [EventsNext]_eventVars /\ [CqrsNext]_cqrsVars
    BY <2>1 DEF Next, In, InMicroservices, messagingVars
  <2>2. ASSUME ServicesInv, [EventsNext]_eventVars, [CqrsNext]_cqrsVars PROVE ServicesInv'
    <3>1. EventsInv' BY <2>2, EventsKept DEF ServicesInv
    <3>2. CalledInv' BY <2>2, CqrsKept DEF ServicesInv
    <3>3. KeptInv' BY <2>2, <3>2, KeptKept DEF ServicesInv, CalledInv
    <3> QED BY <3>1, <3>2, <3>3 DEF ServicesInv
  <2> QED BY <2>1, <2>2
<1> QED BY <1>1, <1>2, PTL DEF Spec

\* A once() listener is called once however emissions nest, and emit_strict() ends
\* only when its own listeners are done (events/module.py emit); a handler or saga
\* of cqrs is called once for an event unless two commits overlap or one raises
\* (cqrs/module.py publish, commit).
THEOREM EventsHeardAlways == Spec => []EventsHeard
<1>1. ServicesInv => EventsHeard BY EventsShown, CqrsShown DEF ServicesInv, EventsHeard
<1> QED BY <1>1, ServicesKept, PTL

\* An event applied while nobody commits is kept by the aggregate until every
\* handler and saga for it has been called, also when commits overlap or raise
\* (AggregateRoot.commit).
THEOREM NotLostKept == Spec => NotLost
<1>1. (ServicesInv /\ [Next]_messagingVars) =>
        [\A e \in {uncommitted[i] : i \in DOMAIN uncommitted} :
           e.no \in safe' /\ ~Kept(e.no)' => Delivered(e.no, e.type)]_cqrsVars
  <2>1. ASSUME ServicesInv, [Next]_messagingVars, ~UNCHANGED cqrsVars PROVE CqrsNext
    BY <2>1 DEF Next, In, InMicroservices, messagingVars
  <2> QED BY <2>1, NothingLost DEF ServicesInv
<1> QED BY <1>1, ServicesKept, PTL DEF Spec, NotLost
=============================================================================
