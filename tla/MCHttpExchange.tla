--------------------------- MODULE MCHttpExchange ---------------------------
(* One exchange on any server, with a body of two chunks and two tasks. *)
EXTENDS HttpExchange

TwoTasks == <<1, 2>>
=============================================================================
