----------------------- MODULE WebSocketGateway_proofs ----------------------
(***************************************************************************)
(* WebSocketManager and the endpoints that use it, for any sockets, rooms, *)
(* namespaces and broadcasts, and whatever raises.  That the manager's     *)
(* tables stay consistent is a matter of the tables alone: every action    *)
(* leaves them as they are or performs one operation of the manager, and   *)
(* each operation preserves it.  That members are served takes the place   *)
(* of each socket's coroutine: a socket of which the manager knows is      *)
(* connected until a send fails, and its coroutine, which may put it back  *)
(* into rooms, never does so once it has taken it out for good.            *)
(***************************************************************************)
EXTENDS WebSocketGateway, TLAPS

Tables == [rooms: [Keys -> SUBSET Sockets], socketRooms: [Sockets -> SUBSET Keys],
           namespaces: [Namespaces -> SUBSET Sockets],
           socketNamespaces: [Sockets -> SUBSET Namespaces], connections: SUBSET Sockets]

\* The two views agree, and rooms are within namespaces.
Agree(x) ==
  /\ \A s \in Sockets, k \in Keys : s \in x.rooms[k] <=> k \in x.socketRooms[s]
  /\ \A s \in Sockets, ns \in Namespaces :
       s \in x.namespaces[ns] <=> ns \in x.socketNamespaces[s]
  /\ \A s \in Sockets, k \in Keys : s \in x.rooms[k] => s \in x.namespaces[k[1]]

Consistent(x) == x \in Tables /\ Agree(x)

\* Joining a namespace keeps the tables consistent.
LEMMA JoinNamespaceConsistent ==
  ASSUME NEW x, Consistent(x), NEW s \in Sockets, NEW ns \in Namespaces
  PROVE  Consistent(JoinNamespace(x, s, ns))
  <1> DEFINE y == JoinNamespace(x, s, ns)
  <1>1. y \in Tables
    BY DEF Consistent, Tables, JoinNamespace
  <1>2. Agree(y)
    BY DEF Consistent, Tables, Agree, JoinNamespace, Keys
  <1> QED BY <1>1, <1>2 DEF Consistent

\* connect() keeps the tables consistent.
LEMMA ConnectConsistent ==
  ASSUME NEW x, Consistent(x), NEW s \in Sockets
  PROVE  Consistent(Connect(x, s))
  <1> DEFINE y == [x EXCEPT !.connections = @ \cup {s}]
  <1>1. Consistent(y)
    BY DEF Consistent, Tables, Agree
  <1>2. Root \in Namespaces
    BY GatewayAssumption
  <1> QED BY <1>1, <1>2, JoinNamespaceConsistent DEF Connect

\* Joining a room joins its namespace first, and keeps the tables consistent.
LEMMA JoinConsistent ==
  ASSUME NEW x, Consistent(x), NEW s \in Sockets, NEW k \in Keys
  PROVE  Consistent(Join(x, s, k))
  <1> DEFINE y == JoinNamespace(x, s, k[1])
             z == [y EXCEPT !.rooms[k] = @ \cup {s}, !.socketRooms[s] = @ \cup {k}]
  <1>1. k[1] \in Namespaces
    BY DEF Keys
  <1>2. Consistent(y)
    BY <1>1, JoinNamespaceConsistent
  <1>3. s \in y.namespaces[k[1]]
    BY <1>1 DEF Consistent, Tables, JoinNamespace
  <1>4. Consistent(z)
    <2> HIDE DEF y
    <2>1. z \in Tables
      BY <1>2 DEF Consistent, Tables
    <2>2. Agree(z)
      BY <1>2, <1>3 DEF Consistent, Tables, Agree
    <2> QED BY <2>1, <2>2 DEF Consistent
  <1> QED BY <1>4 DEF Join

\* Leaving a room keeps the tables consistent.
LEMMA LeaveConsistent ==
  ASSUME NEW x, Consistent(x), NEW s \in Sockets, NEW k \in Keys
  PROVE  Consistent(Leave(x, s, k))
  <1> DEFINE y == Leave(x, s, k)
  <1>1. y \in Tables
    BY DEF Consistent, Tables, Leave
  <1>2. Agree(y)
    BY DEF Consistent, Tables, Agree, Leave
  <1> QED BY <1>1, <1>2 DEF Consistent

\* Leaving a set of rooms takes the socket out of exactly those.
LEMMA LeaveRoomsConsistent ==
  ASSUME NEW x, Consistent(x), NEW s \in Sockets, NEW K \in SUBSET Keys
  PROVE  /\ Consistent(LeaveRooms(x, s, K))
         /\ \A k \in K : s \notin LeaveRooms(x, s, K).rooms[k]
  <1> DEFINE y == LeaveRooms(x, s, K)
  <1>1. y \in Tables
    BY DEF Consistent, Tables, LeaveRooms
  <1>2. Agree(y)
    BY DEF Consistent, Tables, Agree, LeaveRooms
  <1>3. \A k \in K : s \notin y.rooms[k]
    BY DEF Consistent, Tables, Agree, LeaveRooms
  <1> QED BY <1>1, <1>2, <1>3 DEF Consistent

\* Leaving a namespace leaves its rooms, which keeps rooms within namespaces.
LEMMA LeaveNamespaceConsistent ==
  ASSUME NEW x, Consistent(x), NEW s \in Sockets, NEW ns \in Namespaces
  PROVE  Consistent(LeaveNamespace(x, s, ns))
  <1> DEFINE K == {ns} \X Rooms
             y == LeaveRooms(x, s, K)
             z == [y EXCEPT !.namespaces[ns] = @ \ {s}, !.socketNamespaces[s] = @ \ {ns}]
  <1>1. K \in SUBSET Keys
    BY DEF Keys
  <1>2. Consistent(y) /\ \A k \in K : s \notin y.rooms[k]
    BY <1>1, LeaveRoomsConsistent
  <1>3. \A k \in Keys : k[1] = ns => k \in K
    BY DEF Keys
  <1>4. Consistent(z)
    <2> HIDE DEF y, K
    <2>1. z \in Tables
      BY <1>2 DEF Consistent, Tables
    <2>2. \A k \in Keys : k[1] \in Namespaces
      BY DEF Keys
    <2>3. Agree(z)
      BY <1>2, <1>3, <2>2 DEF Consistent, Tables, Agree
    <2> QED BY <2>1, <2>3 DEF Consistent
  <1> QED BY <1>4 DEF LeaveNamespace

\* disconnect() leaves every room and namespace.
LEMMA DisconnectConsistent ==
  ASSUME NEW x, Consistent(x), NEW s \in Sockets
  PROVE  Consistent(Disconnect(x, s))
  <1> DEFINE y == LeaveRooms(x, s, Keys)
             z == [y EXCEPT
                     !.namespaces = [ns \in Namespaces |->
                                       IF ns \in x.socketNamespaces[s] THEN @[ns] \ {s} ELSE @[ns]],
                     !.socketNamespaces[s] = {}, !.connections = @ \ {s}]
  <1>1. Consistent(y) /\ \A k \in Keys : s \notin y.rooms[k]
    BY LeaveRoomsConsistent
  <1>2. y.socketNamespaces = x.socketNamespaces
    BY DEF Consistent, Tables, LeaveRooms
  <1>3. Consistent(z)
    <2> HIDE DEF y
    <2>1. z \in Tables
      BY <1>1 DEF Consistent, Tables
    <2>2. \A k \in Keys : k[1] \in Namespaces
      BY DEF Keys
    <2>3. Agree(z)
      BY <1>1, <1>2, <2>2 DEF Consistent, Tables, Agree
    <2> QED BY <2>1, <2>3 DEF Consistent
  <1> QED BY <1>3 DEF Disconnect

\* One operation of the manager, or none.
StepOf(x, y) ==
  \/ y = x
  \/ \E s \in Sockets :
       \/ y = Connect(x, s) \/ y = Disconnect(x, s)
       \/ \E ns \in Namespaces : y = JoinNamespace(x, s, ns) \/ y = LeaveNamespace(x, s, ns)
       \/ \E k \in Keys : y = Join(x, s, k) \/ y = Leave(x, s, k)

\* Every step leaves the manager alone or performs one of its operations.
LEMMA EveryStep ==
  ASSUME [Next]_vars
  PROVE  StepOf(m, m')
  <1>1. CASE UNCHANGED vars
    BY <1>1 DEF vars, StepOf
  <1>2. ASSUME NEW s \in Sockets, Endpoint(s) \/ Hangup(s)
        PROVE  StepOf(m, m')
    BY <1>2 DEF Endpoint, Hangup, Refuse, Accept, Connected, HookReturns, HookRaises, Refused,
                Receive, Answer, AnswerFails, Close, Closed, Left, StepOf
  <1>3. ASSUME NEW s \in Sockets, Calls(s)
        PROVE  StepOf(m, m')
    <2>1. PICK sp \in Spellings, r \in Rooms \cup {None} : Enters(s, sp, r) \/ Exits(s, sp, r)
      BY <1>3 DEF Calls
    <2>2. Normal[sp] \in Namespaces
      BY GatewayAssumption
    <2>3. r # None => <<Normal[sp], r>> \in Keys
      BY <2>2 DEF Keys
    <2>4. CASE Enters(s, sp, r)
      BY <2>2, <2>3, <2>4 DEF Enters, StepOf
    <2>5. CASE Exits(s, sp, r)
      BY <2>2, <2>3, <2>5 DEF Exits, StepOf
    <2> QED BY <2>1, <2>4, <2>5
  <1>4. ASSUME NEW c \in Casts, CastStep(c) \/ \E a \in Audiences, s \in Sockets \cup {None} : CastStart(c, a, s)
        PROVE  StepOf(m, m')
    BY <1>4 DEF CastStep, Send, SendRaises, CastReturns, CastStart, StepOf
  <1> QED BY <1>1, <1>2, <1>3, <1>4 DEF Next

\* The tables are consistent in every reachable state.
THEOREM TablesConsistent == Spec => []Consistent(m)
  <1>1. Init => Consistent(m)
    BY DEF Init, Consistent, Tables, Agree
  <1>2. Consistent(m) /\ [Next]_vars => Consistent(m)'
    <2> SUFFICES ASSUME Consistent(m), [Next]_vars
                 PROVE  Consistent(m')
      BY DEF Consistent, Tables, Agree
    <2>1. StepOf(m, m')
      BY EveryStep
    <2> QED
      BY <2>1, ConnectConsistent, DisconnectConsistent, JoinNamespaceConsistent,
         LeaveNamespaceConsistent, JoinConsistent, LeaveConsistent DEF StepOf
  <1> QED BY <1>1, <1>2, PTL DEF Spec

\* The rooms a socket has are the rooms that have it, and so for namespaces,
\* so that disconnect() finds all it must undo.
THEOREM Views == Spec => []ViewsAgree
  <1>1. Consistent(m) => ViewsAgree
    BY DEF Consistent, Agree, ViewsAgree
  <1> QED BY <1>1, TablesConsistent, PTL

\* No room reaches a socket that has left the room's namespace.
THEOREM RoomsInNamespaces == Spec => []RoomInNamespace
  <1>1. Consistent(m) => RoomInNamespace
    BY DEF Consistent, Agree, RoomInNamespace
  <1> QED BY <1>1, TablesConsistent, PTL

-----------------------------------------------------------------------------
(* The endpoint and the broadcasts *)

PCs == {"new", "connecting", "hook", "refusing", "serving", "handling",
        "closing", "leaving", "ended", "raised"}
CastRecords == [sending: BOOLEAN, start: SUBSET Sockets, left: SUBSET Sockets, sent: SUBSET Sockets]

Typed ==
  /\ pc \in [Sockets -> PCs] /\ emitted \in [Sockets -> [connect: 0..1, disconnect: 0..1]]
  /\ gone \subseteq Sockets /\ failed \subseteq Sockets /\ cast \in [Casts -> CastRecords]

\* The manager does not know socket s.
Out(x, s) == s \notin x.connections /\ x.socketRooms[s] = {} /\ x.socketNamespaces[s] = {}

\* The manager has a socket, unless a send to it failed, as long as its coroutine
\* may put it into rooms, and none that its coroutine has not begun or is done with.
SocketInv(s) ==
  /\ pc[s] \in {"new", "leaving", "ended"} => Out(m, s)
  /\ pc[s] \in {"connecting", "hook", "refusing", "serving", "handling"} =>
       s \in m.connections \cup failed /\ emitted[s].disconnect = 0
  /\ pc[s] = "new" => emitted[s].disconnect = 0
  /\ ~Out(m, s) => s \in m.connections \cup failed

CastInv == \A c \in Casts : cast[c].start \subseteq cast[c].sent \cup failed \cup cast[c].left

ServedInv == Typed /\ (\A s \in Sockets : SocketInv(s)) /\ CastInv

\* What an operation on s leaves alone.
Others(x, y, s) ==
  \A t \in Sockets \ {s} : /\ t \in y.connections <=> t \in x.connections
                           /\ y.socketRooms[t] = x.socketRooms[t]
                           /\ y.socketNamespaces[t] = x.socketNamespaces[t]

LEMMA JoinNamespaceFrame ==
  ASSUME NEW x \in Tables, NEW s \in Sockets, NEW ns \in Namespaces
  PROVE  LET y == JoinNamespace(x, s, ns)
         IN y \in Tables /\ Others(x, y, s) /\ y.connections = x.connections
  BY DEF Tables, Others, JoinNamespace

LEMMA ConnectFrame ==
  ASSUME NEW x \in Tables, NEW s \in Sockets
  PROVE  Others(x, Connect(x, s), s) /\ s \in Connect(x, s).connections
  <1> DEFINE y == [x EXCEPT !.connections = @ \cup {s}]
  <1>1. y \in Tables /\ Others(x, y, s) /\ s \in y.connections BY DEF Tables, Others
  <1> HIDE DEF y
  <1>2. Root \in Namespaces BY GatewayAssumption
  <1>3. Others(y, JoinNamespace(y, s, Root), s) /\ s \in JoinNamespace(y, s, Root).connections
    BY <1>1, <1>2, JoinNamespaceFrame
  <1> QED BY <1>1, <1>3 DEF Connect, Others, y

LEMMA JoinFrame ==
  ASSUME NEW x \in Tables, NEW s \in Sockets, NEW k \in Keys
  PROVE  Others(x, Join(x, s, k), s) /\ Join(x, s, k).connections = x.connections
  <1> DEFINE y == JoinNamespace(x, s, k[1])
             z == [y EXCEPT !.rooms[k] = @ \cup {s}, !.socketRooms[s] = @ \cup {k}]
  <1>1. y \in Tables /\ Others(x, y, s) /\ y.connections = x.connections
    BY JoinNamespaceFrame DEF Keys
  <1>2. Others(x, z, s) /\ z.connections = x.connections
    <2> HIDE DEF y
    <2> QED BY <1>1 DEF Tables, Others
  <1> QED BY <1>2 DEF Join

\* Leaving takes nothing but s, and s out of nothing but rooms and namespaces.
LEMMA LeaveFrame ==
  ASSUME NEW x \in Tables, NEW s \in Sockets, NEW k \in Keys
  PROVE  /\ Others(x, Leave(x, s, k), s) /\ Leave(x, s, k).connections = x.connections
         /\ Out(x, s) => Out(Leave(x, s, k), s)
  BY DEF Tables, Others, Leave, Out

LEMMA LeaveNamespaceFrame ==
  ASSUME NEW x \in Tables, NEW s \in Sockets, NEW ns \in Namespaces
  PROVE  /\ Others(x, LeaveNamespace(x, s, ns), s)
         /\ LeaveNamespace(x, s, ns).connections = x.connections
         /\ Out(x, s) => Out(LeaveNamespace(x, s, ns), s)
  BY DEF Tables, Others, LeaveNamespace, LeaveRooms, Out

LEMMA DisconnectFrame ==
  ASSUME NEW x \in Tables, NEW s \in Sockets
  PROVE  Others(x, Disconnect(x, s), s) /\ Out(Disconnect(x, s), s)
  <1> DEFINE y == LeaveRooms(x, s, Keys)
  <1>1. y \in Tables /\ Others(x, y, s) /\ y.socketRooms[s] = {}
    BY DEF Tables, Others, LeaveRooms
  <1>2. Disconnect(x, s) = [y EXCEPT
                     !.namespaces = [ns \in Namespaces |->
                                       IF ns \in x.socketNamespaces[s] THEN @[ns] \ {s} ELSE @[ns]],
                     !.socketNamespaces[s] = {}, !.connections = @ \ {s}]
    BY DEF Disconnect
  <1> HIDE DEF y
  <1> QED BY <1>1, <1>2 DEF Tables, Others, Out

\* A socket that keeps its place in the endpoint and in the manager.
LEMMA SocketKept ==
  ASSUME NEW s \in Sockets, SocketInv(s), pc'[s] = pc[s], emitted'[s] = emitted[s],
         failed \subseteq failed', s \in m'.connections <=> s \in m.connections,
         m'.socketRooms[s] = m.socketRooms[s], m'.socketNamespaces[s] = m.socketNamespaces[s]
  PROVE  SocketInv(s)'
  BY DEF SocketInv, Out

\* The endpoint of s is a step of s alone.
LEMMA EndpointStep ==
  ASSUME NEW s \in Sockets, m \in Tables, Typed, SocketInv(s), Endpoint(s)
  PROVE  SocketInv(s)' /\ Others(m, m', s) /\ Typed' /\ failed \subseteq failed'
  <1> USE DEF Typed, PCs
  <1>0. emitted[s].connect \in 0..1 OBVIOUS
  <1>1. CASE Refuse(s) BY <1>1 DEF Refuse, Goes, SocketInv, Others, Out
  <1>2. CASE Accept(s)
    <2>1. m' = Connect(m, s) /\ failed' = failed BY <1>2 DEF Accept
    <2>2. Others(m, m', s) /\ s \in m'.connections BY <2>1, ConnectFrame
    <2> QED BY <1>2, <2>1, <2>2 DEF Accept, Goes, SocketInv, Out
  <1>3. CASE Connected(s) \/ HookReturns(s) \/ Answer(s) \/ \E sp \in Spellings : Receive(s, sp)
    BY <1>3 DEF Connected, HookReturns, Answer, Receive, Goes, SocketInv, Others, Out
  <1>4. CASE HookRaises(s)
    BY <1>4, DisconnectFrame DEF HookRaises, Goes, SocketInv, Others, Out
  <1>5. CASE Refused(s)
    BY <1>5, DisconnectFrame DEF Refused, Goes, SocketInv
  <1>6. CASE AnswerFails(s)
    <2>1. m' = Disconnect(m, s) /\ failed' = failed \cup {s} BY <1>6 DEF AnswerFails
    <2>2. Others(m, m', s) /\ Out(m', s) BY <2>1, DisconnectFrame
    <2>3. /\ Typed' /\ pc'[s] \in {"closing", "serving"}
          /\ pc'[s] = "serving" => emitted'[s].disconnect = 0
      BY <1>6 DEF AnswerFails, Closes, Goes, Emissions, SocketInv
    <2> QED BY <2>1, <2>2, <2>3 DEF SocketInv
  <1>7. CASE Close(s)
    <2>1. /\ Typed' /\ pc'[s] = "closing" /\ UNCHANGED <<m, failed>>
      BY <1>7 DEF Close, Closes, Goes, Emissions, SocketInv
    <2> QED BY <2>1 DEF SocketInv, Others, Out
  <1>8. CASE Closed(s)
    BY <1>8, DisconnectFrame DEF Closed, Goes, SocketInv, Others, Out
  <1>9. CASE Left(s)
    BY <1>9 DEF Left, Goes, SocketInv, Others, Out
  <1> QED BY <1>1, <1>2, <1>3, <1>4, <1>5, <1>6, <1>7, <1>8, <1>9 DEF Endpoint

LEMMA ServedStep ==
  ASSUME Consistent(m), ServedInv, [Next]_vars
  PROVE  ServedInv'
  <1>0. m \in Tables /\ Typed /\ (\A s \in Sockets : SocketInv(s)) /\ CastInv BY DEF Consistent, ServedInv
  <1>1. CASE UNCHANGED vars
    BY <1>0, <1>1 DEF vars, Typed, SocketInv, Out, CastInv, ServedInv
  <1>2. ASSUME NEW s \in Sockets, Endpoint(s) PROVE ServedInv'
    <2>1. SocketInv(s)' /\ Others(m, m', s) /\ Typed' /\ failed \subseteq failed'
      BY <1>0, <1>2, EndpointStep
    <2>2. cast' = cast /\ \A t \in Sockets \ {s} : pc'[t] = pc[t] /\ emitted'[t] = emitted[t]
      BY <1>0, <1>2 DEF Endpoint, Refuse, Accept, Connected, HookReturns, HookRaises, Refused, Receive,
                        Answer, AnswerFails, Close, Closed, Left, Closes, Goes, Typed
    <2>3. \A t \in Sockets \ {s} : SocketInv(t)' BY <1>0, <2>1, <2>2, SocketKept DEF Others
    <2>4. CastInv' BY <1>0, <2>1, <2>2 DEF CastInv
    <2> QED BY <2>1, <2>3, <2>4 DEF ServedInv
  <1>3. ASSUME NEW s \in Sockets, Hangup(s) PROVE ServedInv'
    BY <1>0, <1>3 DEF Hangup, Typed, SocketInv, Out, CastInv, ServedInv
  <1>4. ASSUME NEW s \in Sockets, Calls(s) PROVE ServedInv'
    <2>1. PICK sp \in Spellings, r \in Rooms \cup {None} : Enters(s, sp, r) \/ Exits(s, sp, r)
      BY <1>4 DEF Calls
    <2>2. UNCHANGED <<pc, emitted, gone, failed, cast>> BY <2>1 DEF Enters, Exits
    <2>3. Normal[sp] \in Namespaces /\ (r # None => <<Normal[sp], r>> \in Keys)
      BY GatewayAssumption DEF Keys
    <2>4. Others(m, m', s) /\ m'.connections = m.connections
      <3>1. CASE Enters(s, sp, r) /\ r = None BY <1>0, <2>3, <3>1, JoinNamespaceFrame DEF Enters
      <3>2. CASE Enters(s, sp, r) /\ r # None BY <1>0, <2>3, <3>2, JoinFrame DEF Enters
      <3>3. CASE Exits(s, sp, r) /\ r = None
        <4>1. m' = LeaveNamespace(m, s, Normal[sp]) BY <3>3 DEF Exits
        <4> QED BY <1>0, <2>3, <4>1, LeaveNamespaceFrame
      <3>4. CASE Exits(s, sp, r) /\ r # None BY <1>0, <2>3, <3>4, LeaveFrame DEF Exits
      <3> QED BY <2>1, <3>1, <3>2, <3>3, <3>4
    <2>5. SocketInv(s)'
      <3>1. CASE Enters(s, sp, r)
        <4>1. pc[s] \in {"hook", "handling"} BY <3>1 DEF Enters
        <4> QED BY <1>0, <2>2, <2>4, <4>1 DEF SocketInv
      <3>2. CASE Exits(s, sp, r)
        <4>1. Out(m, s) => Out(m', s)
          <5>1. CASE r = None
            <6>1. m' = LeaveNamespace(m, s, Normal[sp]) BY <3>2, <5>1 DEF Exits
            <6> QED BY <1>0, <2>3, <6>1, LeaveNamespaceFrame
          <5>2. CASE r # None BY <1>0, <2>3, <3>2, <5>2, LeaveFrame DEF Exits
          <5> QED BY <5>1, <5>2
        <4> QED BY <1>0, <2>2, <2>4, <4>1 DEF SocketInv
      <3> QED BY <2>1, <3>1, <3>2
    <2>6. \A t \in Sockets \ {s} : SocketInv(t)' BY <1>0, <2>2, <2>4, SocketKept DEF Others
    <2> QED BY <1>0, <2>2, <2>5, <2>6 DEF ServedInv, Typed, CastInv
  <1>5. ASSUME NEW c \in Casts, NEW t \in Sockets, Send(c, t) PROVE ServedInv'
    <2>1. UNCHANGED <<pc, emitted, gone>> /\ t \in cast[c].left BY <1>5 DEF Send
    <2>2. cast[c] \in CastRecords BY <1>0 DEF Typed
    <2>3. CASE UNCHANGED <<m, failed>> /\ cast' = [cast EXCEPT ![c].left = Rest(@, t, TRUE), ![c].sent = @ \cup {t}]
      <3>1. Typed' BY <1>0, <2>1, <2>2, <2>3 DEF Typed, CastRecords, Rest
      <3>2. \A s \in Sockets : SocketInv(s)' BY <1>0, <2>1, <2>3 DEF SocketInv, Out
      <3>3. CastInv'
        <4>1. /\ cast'[c].start = cast[c].start /\ cast'[c].left = cast[c].left \ {t}
              /\ cast'[c].sent = cast[c].sent \cup {t}
          BY <1>0, <2>2, <2>3 DEF Typed, CastRecords, Rest
        <4>2. \A d \in Casts \ {c} : cast'[d] = cast[d] BY <1>0, <2>3 DEF Typed
        <4> QED BY <1>0, <2>3, <4>1, <4>2 DEF CastInv
      <3> QED BY <3>1, <3>2, <3>3 DEF ServedInv
    <2>4. CASE /\ m' = Disconnect(m, t) /\ failed' = failed \cup {t}
               /\ cast' = [cast EXCEPT ![c].left = Rest(@, t, FALSE)]
      <3>1. Typed' BY <1>0, <2>1, <2>2, <2>4 DEF Typed, CastRecords, Rest
      <3>2. Others(m, m', t) /\ Out(m', t) BY <1>0, <2>4, DisconnectFrame
      <3>3. SocketInv(t)' BY <1>0, <2>1, <2>4, <3>2 DEF SocketInv
      <3>4. \A s \in Sockets \ {t} : SocketInv(s)' BY <1>0, <2>1, <2>4, <3>2, SocketKept DEF Others
      <3>5. CastInv'
        <4>1. /\ cast'[c].start = cast[c].start /\ cast'[c].left = cast[c].left \ {t}
              /\ cast'[c].sent = cast[c].sent
          BY <1>0, <2>2, <2>4 DEF Typed, CastRecords, Rest
        <4>2. \A d \in Casts \ {c} : cast'[d] = cast[d] BY <1>0, <2>4 DEF Typed
        <4> QED BY <1>0, <2>4, <4>1, <4>2 DEF CastInv
      <3> QED BY <3>1, <3>3, <3>4, <3>5 DEF ServedInv
    <2> QED BY <1>5, <2>3, <2>4 DEF Send
  <1>6. ASSUME NEW c \in Casts, SendRaises(c) \/ CastReturns(c) PROVE ServedInv'
    <2>1. UNCHANGED <<m, pc, emitted, gone, failed>> /\ cast' = [cast EXCEPT ![c] = Idle]
      BY <1>6 DEF SendRaises, CastReturns
    <2>2. Typed' BY <1>0, <2>1 DEF Typed, Idle, CastRecords
    <2>3. \A s \in Sockets : SocketInv(s)' BY <1>0, <2>1 DEF SocketInv, Out
    <2>4. CastInv'
      <3>1. cast'[c].start = {} /\ \A d \in Casts \ {c} : cast'[d] = cast[d] BY <1>0, <2>1 DEF Typed, Idle
      <3> QED BY <1>0, <2>1, <3>1 DEF CastInv
    <2> QED BY <2>2, <2>3, <2>4 DEF ServedInv
  <1>7. ASSUME NEW c \in Casts, NEW a \in Audiences, NEW s \in Sockets \cup {None}, CastStart(c, a, s)
        PROVE  ServedInv'
    <2>1. Audience(a) \subseteq Sockets
      BY <1>0 DEF Audiences, Audience, Tables
    <2>2. PICK to \in SUBSET Sockets :
            cast' = [cast EXCEPT ![c] = [sending |-> TRUE, start |-> to, left |-> to, sent |-> {}]]
      BY <1>7, <2>1 DEF CastStart
    <2>3. UNCHANGED <<m, pc, emitted, gone, failed>> BY <1>7 DEF CastStart
    <2> QED BY <1>0, <2>2, <2>3 DEF Typed, CastRecords, SocketInv, Out, CastInv, ServedInv
  <1> QED BY <1>1, <1>2, <1>3, <1>4, <1>5, <1>6, <1>7 DEF Next, CastStep

LEMMA ServedInit == Init => ServedInv
  BY DEF Init, Idle, ServedInv, Typed, PCs, CastRecords, SocketInv, Out, CastInv

\* Members of a room are connected, a socket whose coroutine is over is in no
\* table, and a broadcast that returns has reached all it set out to reach
\* (WebSocketManager, FastApiAdapter._register_gateway).
THEOREM ServedAlways == Spec => []MembersServed
  <1>1. Consistent(m) /\ ServedInv /\ [Next]_vars => ServedInv' BY ServedStep
  <1>2. Consistent(m) /\ ServedInv => MembersServed
    <2> SUFFICES ASSUME Consistent(m), ServedInv PROVE MembersServed OBVIOUS
    <2> USE DEF Consistent, ServedInv
    <2>1. TypeOK BY DEF Typed, PCs, CastRecords, Tables, TypeOK
    <2>2. MemberConnected BY DEF SocketInv, Out, MemberConnected
    <2>3. EndedIsGone BY DEF SocketInv, Out, Agree, Forgotten, EndedIsGone
    <2>4. CastReaches BY DEF CastInv, CastReaches
    <2> QED BY <2>1, <2>2, <2>3, <2>4 DEF MembersServed
  <1> QED BY ServedInit, <1>1, <1>2, TablesConsistent, PTL DEF Spec
=============================================================================
