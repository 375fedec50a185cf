-------------------------- MODULE MCWebSocketBridge -------------------------
(* One connection on which the client and the handler send up to two messages each. *)
EXTENDS WebSocketBridge
=============================================================================
