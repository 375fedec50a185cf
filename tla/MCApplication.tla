--------------------------- MODULE MCApplication ----------------------------
(* Instance: one of everything that is registered, one connection. *)
EXTENDS Application

TheMountPaths == {<<"a", "">>}
RequestPaths == {<<"a", "b">>, <<"s">>}
Sockets == {<<"s">>}
=============================================================================
