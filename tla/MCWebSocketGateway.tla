------------------------- MODULE MCWebSocketGateway -------------------------
(* Sockets, namespaces and rooms on which WebSocketGateway is checked. *)
EXTENDS WebSocketGateway

CONSTANTS ann, bob, root, chat, bare, lobby, c1, c2

\* The namespace /chat may be written "chat".
MCNormal == [sp \in Spellings |-> IF sp = bare THEN chat ELSE sp]
=============================================================================
