-------------------------- MODULE MCWebSocketSession --------------------------
(* Instances of WebSocketSession for TLC. *)
EXTENDS WebSocketSession

Messages == [client |-> 1, server |-> 2]

====
