----------------------------- MODULE MCAsyncCall ----------------------------
(***************************************************************************)
(* One process with a thread that runs an event loop (an ASGI server or a  *)
(* TestClient) and a thread of the native server, neither of which has     *)
(* used the worker loop before.                                            *)
(***************************************************************************)
EXTENDS AsyncCall, TLC

CONSTANTS asgi, native, cAsgi, cBare, cFail, cIo

MCThreads == {asgi, native}
MCLoopThreads == {asgi}
MCCalls == {cAsgi, cBare, cFail, cIo}

MCThreadOf == cAsgi :> asgi @@ cBare :> native @@ cFail :> asgi @@ cIo :> native

MCBody == cAsgi :> <<"code", "io", "code">>
       @@ cBare :> <<"code", "bare", "io">>
       @@ cFail :> <<"bare", "fail", "code">>
       @@ cIo :> <<"code", "io", "code">>

\* A handler that reads the body of its Request.
MCServerCalls == {cAsgi}
MCServerThreads == {asgi}
MCServerThreadOf == cAsgi :> asgi
MCServerBody == cAsgi :> <<"code", "server">>
=============================================================================
