--------------------------- MODULE WebSocketGateway -------------------------
(***************************************************************************)
(* fanest.websockets.WebSocketManager, and the endpoint that               *)
(* FastApiAdapter._register_gateway makes of a gateway.                    *)
(*                                                                         *)
(* Every socket has a coroutine that accepts it, calls the listeners and   *)
(* the on_connect hook, hands its messages to handlers one at a time and   *)
(* takes it out of the manager at the end.  Broadcasts run beside them.    *)
(* Both lose control at every await: a send, a hook, a listener.           *)
(* A handler joins its own socket; anybody may make a socket leave.        *)
(***************************************************************************)
EXTENDS Integers, FiniteSets

CONSTANTS
  Sockets, Rooms, Namespaces,
  Root,            \* the namespace "/"
  Spellings,       \* namespaces as callers write them
  Normal,          \* _normalize_namespace, on the spellings
  Casts,           \* slots of broadcasts under way
  Raising,         \* what may raise: "hook", "listener", "payload"
  None

ASSUME GatewayAssumption ==
  /\ Root \in Namespaces
  /\ Normal \in [Spellings -> Namespaces]
  /\ Raising \subseteq {"hook", "listener", "payload"}
  /\ None \notin Sockets

VARIABLES
  m,        \* the manager
  pc,       \* where the coroutine of each socket is
  emitted,  \* "connect" and "disconnect" events listeners got for each socket
  gone,     \* sockets closed by either side
  failed,   \* sockets that a send to has failed
  cast      \* the broadcasts

vars == <<m, pc, emitted, gone, failed, cast>>

Keys == Namespaces \X Rooms

-----------------------------------------------------------------------------
(* WebSocketManager: an empty set stands for a key that is not there.      *)

JoinNamespace(x, s, ns) ==
  [x EXCEPT !.namespaces[ns] = @ \cup {s}, !.socketNamespaces[s] = @ \cup {ns}]

Connect(x, s) == JoinNamespace([x EXCEPT !.connections = @ \cup {s}], s, Root)

Join(x, s, k) ==
  [JoinNamespace(x, s, k[1]) EXCEPT !.rooms[k] = @ \cup {s}, !.socketRooms[s] = @ \cup {k}]

\* Variant: the socket's own list keeps the room.
LeaveHalf(x, s, k) == [x EXCEPT !.rooms[k] = @ \ {s}]

Leave(x, s, k) == [x EXCEPT !.rooms[k] = @ \ {s}, !.socketRooms[s] = @ \ {k}]

\* Leaves every room of the set K that s is in.
LeaveRooms(x, s, K) ==
  [x EXCEPT !.rooms = [k \in Keys |-> IF k \in K \cap x.socketRooms[s] THEN @[k] \ {s} ELSE @[k]],
            !.socketRooms[s] = @ \ K]

\* Variant: the rooms of the namespace are kept.
LeaveNamespaceOnly(x, s, ns) ==
  [x EXCEPT !.namespaces[ns] = @ \ {s}, !.socketNamespaces[s] = @ \ {ns}]

LeaveNamespace(x, s, ns) ==
  [LeaveRooms(x, s, {ns} \X Rooms) EXCEPT
     !.namespaces[ns] = @ \ {s}, !.socketNamespaces[s] = @ \ {ns}]

\* Variant: the namespaces are not left.
DisconnectRooms(x, s) == [LeaveRooms(x, s, Keys) EXCEPT !.connections = @ \ {s}]

\* Every room, then every namespace the socket knows of, then the connection.
Disconnect(x, s) ==
  [LeaveRooms(x, s, Keys) EXCEPT
     !.namespaces = [ns \in Namespaces |->
                       IF ns \in x.socketNamespaces[s] THEN @[ns] \ {s} ELSE @[ns]],
     !.socketNamespaces[s] = {}, !.connections = @ \ {s}]

\* Whom broadcast_all, broadcast_namespace and broadcast send to.
Audiences == {<<"all">>} \cup ({"namespace"} \X Namespaces) \cup ({"room"} \X Keys)
Audience(a) ==
  CASE a[1] = "all" -> m.connections
    [] a[1] = "namespace" -> m.namespaces[a[2]]
    [] a[1] = "room" -> m.rooms[a[2]]

-----------------------------------------------------------------------------
(* The endpoint *)

Idle == [sending |-> FALSE, start |-> {}, left |-> {}, sent |-> {}]

Init ==
  /\ m = [rooms |-> [k \in Keys |-> {}], socketRooms |-> [s \in Sockets |-> {}],
          namespaces |-> [ns \in Namespaces |-> {}],
          socketNamespaces |-> [s \in Sockets |-> {}], connections |-> {}]
  /\ pc = [s \in Sockets |-> "new"]
  /\ emitted = [s \in Sockets |-> [connect |-> 0, disconnect |-> 0]]
  /\ gone = {} /\ failed = {}
  /\ cast = [c \in Casts |-> Idle]

Goes(s, to) == pc' = [pc EXCEPT ![s] = to]

\* A guard or the transport refuses the socket before the manager knows it.
Refuse(s) ==
  /\ pc[s] = "new" /\ Goes(s, "ended")
  /\ UNCHANGED <<m, emitted, gone, failed, cast>>

\* accept(), connect() and the first listener, with no await in between.
Accept(s) ==
  /\ pc[s] = "new" /\ Goes(s, "connecting")
  /\ m' = Connect(m, s)
  /\ emitted' = [emitted EXCEPT ![s].connect = 1]
  /\ UNCHANGED <<gone, failed, cast>>

\* emit_lifecycle("connect"): what a listener raises ends the coroutine.
Connected(s) ==
  /\ pc[s] = "connecting"
  /\ \/ Goes(s, "hook") /\ UNCHANGED gone
     \/ "listener" \in Raising /\ Goes(s, "raised") /\ gone' = gone \cup {s}
  /\ UNCHANGED <<m, emitted, failed, cast>>

HookReturns(s) ==
  /\ pc[s] = "hook" /\ Goes(s, "serving")
  /\ UNCHANGED <<m, emitted, gone, failed, cast>>

\* on_connect raises: the error is sent first, unless the client has gone.
HookRaises(s) ==
  /\ pc[s] = "hook" /\ "hook" \in Raising
  /\ \/ Goes(s, "refusing") /\ UNCHANGED m
     \/ s \in gone /\ Goes(s, "leaving") /\ m' = Disconnect(m, s)
  /\ UNCHANGED <<emitted, gone, failed, cast>>

Refused(s) ==
  /\ pc[s] = "refusing" /\ Goes(s, "leaving")
  /\ m' = Disconnect(m, s)
  /\ UNCHANGED <<emitted, gone, failed, cast>>

\* A message is handed to its handler in a namespace the socket is in.
Receive(s, sp) ==
  /\ pc[s] = "serving" /\ Normal[sp] \in m.socketNamespaces[s]
  /\ Goes(s, "handling")
  /\ UNCHANGED <<m, emitted, gone, failed, cast>>

\* The handler has returned, and what is sent in answer has been.
Answer(s) ==
  /\ pc[s] = "handling" /\ Goes(s, "serving")
  /\ UNCHANGED <<m, emitted, gone, failed, cast>>

\* "disconnect" is emitted for the root namespace.
Emissions(s) == 1

\* The finally clause calls the first listener at once.
Closes(s) ==
  /\ Goes(s, "closing")
  /\ emitted' = [emitted EXCEPT ![s].disconnect = @ + Emissions(s)]

\* An answer, or the error for a bad message, cannot be sent; after a list of
\* answers the next message is received all the same.
AnswerFails(s) ==
  /\ pc[s] \in {"serving", "handling"} /\ s \in gone
  /\ \/ Closes(s)
     \/ pc[s] = "handling" /\ Goes(s, "serving") /\ UNCHANGED emitted
  /\ m' = Disconnect(m, s) /\ failed' = failed \cup {s}
  /\ UNCHANGED <<gone, cast>>

\* Variant: a closed socket is taken for one more bad message.
ReceiveRaisesNever(s) == FALSE

ReceiveRaises(s) == s \in gone

Close(s) ==
  /\ pc[s] = "serving" /\ ReceiveRaises(s) /\ Closes(s)
  /\ UNCHANGED <<m, gone, failed, cast>>

\* emit_lifecycle("disconnect"), then disconnect() unless a listener raised.
Closed(s) ==
  /\ pc[s] = "closing"
  /\ \/ Goes(s, "leaving") /\ m' = Disconnect(m, s)
     \/ "listener" \in Raising /\ Goes(s, "raised") /\ UNCHANGED m
  /\ gone' = gone \cup {s}
  /\ UNCHANGED <<emitted, failed, cast>>

\* on_disconnect has run, whatever it raised; the socket is closed.
Left(s) ==
  /\ pc[s] = "leaving" /\ Goes(s, "ended") /\ gone' = gone \cup {s}
  /\ UNCHANGED <<m, emitted, failed, cast>>

\* The client goes away, or a handler closes the socket.
Hangup(s) ==
  /\ pc[s] # "new" /\ s \notin gone /\ gone' = gone \cup {s}
  /\ UNCHANGED <<m, pc, emitted, failed, cast>>

-----------------------------------------------------------------------------
(* What the hooks and handlers do to the manager *)

Enters(s, sp, r) ==
  /\ pc[s] \in {"hook", "handling"}
  /\ m' = IF r = None THEN JoinNamespace(m, s, Normal[sp]) ELSE Join(m, s, <<Normal[sp], r>>)
  /\ UNCHANGED <<pc, emitted, gone, failed, cast>>

Exits(s, sp, r) ==
  /\ m' = IF r = None THEN LeaveNamespace(m, s, Normal[sp]) ELSE Leave(m, s, <<Normal[sp], r>>)
  /\ UNCHANGED <<pc, emitted, gone, failed, cast>>

CastStart(c, a, excluded) ==
  /\ ~cast[c].sending
  /\ LET to == Audience(a) \ {excluded}
     IN cast' = [cast EXCEPT ![c] = [sending |-> TRUE, start |-> to, left |-> to, sent |-> {}]]
  /\ UNCHANGED <<m, pc, emitted, gone, failed>>

Rest(left, t, ok) == left \ {t}

\* One send: a socket it fails for is disconnected.
Send(c, t) ==
  /\ t \in cast[c].left
  /\ \/ /\ t \notin gone \/ pc[t] \notin {"ended", "raised"}
        /\ cast' = [cast EXCEPT ![c].left = Rest(@, t, TRUE), ![c].sent = @ \cup {t}]
        /\ UNCHANGED <<m, failed>>
     \/ /\ t \in gone
        /\ cast' = [cast EXCEPT ![c].left = Rest(@, t, FALSE)]
        /\ m' = Disconnect(m, t) /\ failed' = failed \cup {t}
  /\ UNCHANGED <<pc, emitted, gone>>

\* The payload cannot be encoded: broadcast() raises.
SendRaises(c) ==
  /\ cast[c].left # {} /\ "payload" \in Raising
  /\ cast' = [cast EXCEPT ![c] = Idle]
  /\ UNCHANGED <<m, pc, emitted, gone, failed>>

CastReturns(c) ==
  /\ cast[c].sending /\ cast[c].left = {}
  /\ cast' = [cast EXCEPT ![c] = Idle]
  /\ UNCHANGED <<m, pc, emitted, gone, failed>>

-----------------------------------------------------------------------------

Endpoint(s) ==
  \/ Refuse(s) \/ Accept(s) \/ Connected(s) \/ HookReturns(s) \/ HookRaises(s) \/ Refused(s)
  \/ Answer(s) \/ AnswerFails(s) \/ Close(s) \/ Closed(s) \/ Left(s)
  \/ \E sp \in Spellings : Receive(s, sp)

Calls(s) ==
  \E sp \in Spellings, r \in Rooms \cup {None} : Enters(s, sp, r) \/ Exits(s, sp, r)

CastStep(c) == (\E t \in Sockets : Send(c, t)) \/ SendRaises(c) \/ CastReturns(c)

Next ==
  \/ \E s \in Sockets : Endpoint(s) \/ Hangup(s) \/ Calls(s)
  \/ \E c \in Casts : CastStep(c) \/ \E a \in Audiences, s \in Sockets \cup {None} : CastStart(c, a, s)

Spec == Init /\ [][Next]_vars

\* Listeners, hooks, handlers and sends end.  A closed socket has finitely
\* many messages left to receive, so that receive() raises in the end.
FairSpec ==
  /\ Spec
  /\ \A s \in Sockets :
       /\ WF_vars(Connected(s)) /\ WF_vars(HookReturns(s) \/ HookRaises(s)) /\ WF_vars(Refused(s))
       /\ WF_vars(Answer(s) \/ AnswerFails(s)) /\ SF_vars(Close(s)) /\ WF_vars(Closed(s)) /\ WF_vars(Left(s))
  /\ \A c \in Casts : WF_vars(CastStep(c))

-----------------------------------------------------------------------------
(* Properties *)

\* Types; an event is emitted once per socket at most (adapter.py:516).
TypeOK ==
  /\ m \in [rooms: [Keys -> SUBSET Sockets], socketRooms: [Sockets -> SUBSET Keys],
            namespaces: [Namespaces -> SUBSET Sockets],
            socketNamespaces: [Sockets -> SUBSET Namespaces], connections: SUBSET Sockets]
  /\ pc \in [Sockets -> {"new", "connecting", "hook", "refusing", "serving", "handling",
                         "closing", "leaving", "ended", "raised"}]
  /\ emitted \in [Sockets -> [connect: 0..1, disconnect: 0..1]]
  /\ gone \subseteq Sockets /\ failed \subseteq Sockets
  /\ cast \in [Casts -> [sending: BOOLEAN, start: SUBSET Sockets,
                         left: SUBSET Sockets, sent: SUBSET Sockets]]

\* The manager's two views agree: a room has exactly the sockets that have
\* the room, and so for namespaces.  disconnect() relies on it to find what a
\* socket must be taken out of.
ViewsAgree ==
  /\ \A s \in Sockets, k \in Keys : s \in m.rooms[k] <=> k \in m.socketRooms[s]
  /\ \A s \in Sockets, ns \in Namespaces :
       s \in m.namespaces[ns] <=> ns \in m.socketNamespaces[s]

\* A room never reaches a socket that has left its namespace
\* (manager.py, leave_namespace; test_cache_ws_bugfixes_r2.py:42).
RoomInNamespace ==
  \A s \in Sockets, k \in Keys : s \in m.rooms[k] => s \in m.namespaces[k[1]]

\* A socket in a room or a namespace is connected, unless a send to it failed
\* while its handler was about to join.
MemberConnected ==
  \A s \in Sockets :
    m.socketNamespaces[s] # {} \/ m.socketRooms[s] # {} => s \in m.connections \cup failed

\* Once its coroutine is over, the manager does not hold a socket any more,
\* unless a listener raised out of the coroutine.
Forgotten(s) ==
  /\ s \notin m.connections /\ \A k \in Keys : s \notin m.rooms[k]
  /\ \A ns \in Namespaces : s \notin m.namespaces[ns]
EndedIsGone == \A s \in Sockets : pc[s] \in {"leaving", "ended"} => Forgotten(s)

\* A broadcast that returns has reached all it set out to reach, but those a
\* send failed for, whatever left or disconnected under it.
CastReaches ==
  \A c \in Casts : cast[c].sending /\ cast[c].left = {} => cast[c].start \subseteq cast[c].sent \cup failed

\* Members of a room are connected, a socket whose coroutine has ended is in no
\* view, and a broadcast reaches everyone it should.
MembersServed == TypeOK /\ MemberConnected /\ EndedIsGone /\ CastReaches

\* The coroutine of a socket that is closed ends, and does not wait for a message
\* or go round its loop for ever.
HangupEnds == \A s \in Sockets : s \in gone ~> pc[s] \in {"ended", "raised"}
=============================================================================
