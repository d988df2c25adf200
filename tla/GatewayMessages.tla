--------------------------- MODULE GatewayMessages --------------------------
(***************************************************************************)
(* The message loop of a gateway's websocket endpoint (platform_fastapi):  *)
(* what a client gets for each frame it sends, while its connection may    *)
(* fail at any send.  Connecting, rooms and broadcasts are                 *)
(* WebSocketGateway's subject.  A handler may acknowledge a frame itself,  *)
(* more than once, and leave a task behind that does so later.             *)
(***************************************************************************)
EXTENDS Naturals, Sequences, FiniteSets

CONSTANTS MaxFrames, MaxAcks \* bounds: frames, acks by the handler of one

ASSUME MessagesAssumption == {MaxFrames, MaxAcks} \subseteq Nat

VARIABLES
  up,        \* whether the connection is up: a send on one that is down fails
  registered,\* whether the manager still has the socket
  loop,      \* where the endpoint is
  frame,     \* the frame it handles
  answers,   \* what has been sent for the frame: [kind, by]
  toSend,    \* what is left to send of a list of answers
  acked,     \* ack_callback.sent
  frames,    \* frames received
  tasks      \* tasks of handlers that will acknowledge: [of, ack, at], of a frame

messageVars == <<up, registered, loop, frame, answers, toSend, acked, frames, tasks>>

\* Frames, by how far they get: no JSON (or an Engine.IO frame), no object, no
\* string for an event or a namespace; a namespace the socket is not in; no
\* handler; one that is handled.
Defects == {"unreadable", "shapeless", "elsewhere", "unknown", "none"}

\* What a handler returns: nothing, a value that JSON can or cannot express, an
\* event of its own (a WsResponse, or a dictionary like one), a list of them.
Results == {"nothing", "value", "odd", "event", "list", "empty"}

\* The frame's ack id, none when it is a boolean; whether the handler has an
\* Ack parameter, and how the frame fares.
Frames ==
  {f \in [defect : Defects, ack : BOOLEAN, takesAck : BOOLEAN, result : Results] :
     f.defect # "none" => ~f.takesAck /\ f.result = "nothing"}

NoFrame == [defect |-> "none", ack |-> FALSE, takesAck |-> FALSE, result |-> "empty"]

MessagesInit ==
  /\ up = TRUE /\ registered = TRUE /\ loop = "receive" /\ frame = NoFrame
  /\ answers = <<>> /\ toSend = 0 /\ acked = FALSE /\ frames = 0 /\ tasks = {}

-----------------------------------------------------------------------------
(* _send_websocket_event and _send_websocket_ack *)

Answer(kind, by) == [kind |-> kind, by |-> by]

\* JSON cannot express the data: it is sent as a string, and with the data of
\* an ack its id goes.
Delivered(kind) == IF frame.result = "odd" /\ kind = "ack" THEN "garbled" ELSE kind

\* A send that fails takes the socket out of the manager.
Arrives(answer) == up /\ answers' = Append(answers, answer) /\ UNCHANGED registered
SendFails == ~up /\ registered' = FALSE /\ UNCHANGED answers

\* It ends the loop unless it was one of a list.
Send(kind, then, orElse) ==
  \/ Arrives(Answer(Delivered(kind), "gateway")) /\ loop' = then
  \/ SendFails /\ loop' = orElse

Drop == up /\ up' = FALSE /\ UNCHANGED <<registered, loop, frame, answers, toSend, acked, frames, tasks>>

-----------------------------------------------------------------------------
\* _receive_websocket_payload: a client that is gone ends the loop.
ReceiveFrame ==
  /\ loop = "receive"
  /\ \/ /\ up /\ frames < MaxFrames /\ frames' = frames + 1
        /\ frame' \in Frames
        /\ loop' = IF frame'.defect = "none" THEN "guard" ELSE "reject"
        /\ answers' = <<>> /\ acked' = FALSE
     \/ ~up /\ loop' = "ended" /\ UNCHANGED <<frame, answers, acked, frames>>
  /\ UNCHANGED <<up, registered, toSend, tasks>>

\* A frame that no handler gets, or whose guards, pipes or parameters fail, or
\* whose handler or interceptors raise, is answered with one error event; what
\* the filters return is its data.
SendError ==
  /\ loop \in {"reject", "failed"}
  /\ Send("error", "receive", "ended")
  /\ UNCHANGED <<up, frame, toSend, acked, frames, tasks>>

\* _run_guards, _run_websocket_pipes, _bind_websocket_parameters
Bind ==
  /\ loop = "guard"
  /\ loop' \in {"call", "failed"}
  /\ UNCHANGED <<up, registered, frame, answers, toSend, acked, frames, tasks>>

AckKinds == {"ack", "garbled"}

\* _WebSocketAckCallback.__call__, awaited by the handler; without an ack id it
\* sends nothing and counts as sent.
CallAck ==
  /\ loop = "call" /\ frame.takesAck /\ Len(answers) < MaxAcks
  /\ IF frame.ack
       THEN /\ acked' = up
            /\ SendFails \/ \E kind \in AckKinds : Arrives(Answer(kind, "handler"))
       ELSE acked' = TRUE /\ UNCHANGED <<registered, answers>>
  /\ UNCHANGED <<up, loop, frame, toSend, frames, tasks>>

\* The handler leaves a task behind that is to call it.
LeaveTask ==
  /\ loop = "call" /\ frame.takesAck /\ Len(answers) < MaxAcks
  /\ ~\E t \in tasks : t.of = frames
  /\ tasks' = tasks \cup {[of |-> frames, ack |-> frame.ack, at |-> "begins"]}
  /\ UNCHANGED <<up, registered, loop, frame, answers, toSend, acked, frames>>

\* The task sends its ack, whatever the endpoint does meanwhile ...
TaskSends(t) ==
  /\ t.at = "begins" /\ t.ack
  /\ tasks' = (tasks \ {t}) \cup {[t EXCEPT !.at = IF up THEN "sent" ELSE "failed"]}
  /\ \/ SendFails
     \/ t.of # frames /\ up /\ UNCHANGED <<registered, answers>>
     \/ t.of = frames /\ \E kind \in AckKinds : Arrives(Answer(kind, "task"))
  /\ UNCHANGED <<up, loop, frame, toSend, acked, frames>>

\* ... and only then is sent set, on the callback of its own frame.
TaskEnds(t) ==
  /\ t.at # "begins" \/ ~t.ack
  /\ tasks' = tasks \ {t}
  /\ acked' = IF t.of = frames THEN t.at # "failed" ELSE acked
  /\ UNCHANGED <<up, registered, loop, frame, answers, toSend, frames>>

\* The handler returns, or it or an interceptor raises.
ReturnResult ==
  /\ loop = "call"
  /\ loop' \in {"reply", "failed"}
  /\ UNCHANGED <<up, registered, frame, answers, toSend, acked, frames, tasks>>

\* The handler took the answer upon itself.  Variant: only one that returned
\* nothing did.
ReturnedNothing == frame.takesAck /\ frame.result = "nothing"
AnsweredItself == acked \/ (frame.takesAck /\ frame.result = "nothing")

\* What becomes of the result.
ReplyFrame ==
  /\ loop = "reply"
  /\ IF AnsweredItself THEN loop' = "receive" /\ UNCHANGED <<registered, answers, toSend>>
     ELSE CASE frame.result \in {"list", "empty"} ->
                 /\ loop' = "list" /\ toSend' = IF frame.result = "list" THEN 2 ELSE 0
                 /\ UNCHANGED <<registered, answers>>
            [] frame.result = "event" -> Send("event", "receive", "ended") /\ UNCHANGED toSend
            [] frame.result \in {"value", "odd"} ->
                 Send(IF frame.ack THEN "ack" ELSE "event", "receive", "ended") /\ UNCHANGED toSend
            [] frame.result = "nothing" /\ frame.ack -> Send("ack", "receive", "ended") /\ UNCHANGED toSend
            [] OTHER -> loop' = "receive" /\ UNCHANGED <<registered, answers, toSend>>
  /\ UNCHANGED <<up, frame, acked, frames, tasks>>

\* _send_websocket_response_item for each answer of a list; the break at a send
\* that fails leaves the list only.
SendItem ==
  /\ loop = "list"
  /\ IF toSend = 0 THEN loop' = "receive" /\ UNCHANGED <<registered, answers, toSend>>
     ELSE Send("event", "list", "receive") /\ toSend' = toSend - 1
  /\ UNCHANGED <<up, frame, acked, frames, tasks>>

HandleFrame ==
  \/ ReceiveFrame \/ SendError \/ Bind \/ CallAck \/ LeaveTask \/ ReturnResult \/ ReplyFrame \/ SendItem
  \/ \E t \in tasks : TaskSends(t) \/ TaskEnds(t)

MessagesNext == HandleFrame \/ Drop

MessagesSpec == MessagesInit /\ [][MessagesNext]_messageVars

-----------------------------------------------------------------------------
\* What the gateway itself answered, other than with events.
OwnReplies == {i \in DOMAIN answers : answers[i].by = "gateway" /\ answers[i].kind # "event"}

HandlerAcked == \E i \in DOMAIN answers : answers[i].by = "handler"

\* The gateway answers a frame with one ack or one error at most.  To an ack that
\* the handler awaited it adds nothing but the error that was raised after it.
\* And when the handler left the ack to the gateway and returned a value that
\* JSON can express or nothing, the frame has exactly one answer before the
\* next one is received (adapter.py:458).
Acknowledged ==
  /\ Cardinality(OwnReplies) <= 1
  /\ HandlerAcked => \A i \in DOMAIN answers : answers[i].by = "gateway" => answers[i].kind = "error"
  /\ (loop = "receive" /\ up /\ frame.ack /\ ~frame.takesAck
      /\ frame.defect = "none" /\ frame.result \in {"nothing", "value"}) => Len(answers) = 1
=============================================================================
