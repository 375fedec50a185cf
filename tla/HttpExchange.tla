---------------------------- MODULE HttpExchange ----------------------------
(***************************************************************************)
(* One HTTP request around the dispatcher, on each of the servers:         *)
(*   "asgi"  _core_http_app (applications.py) inside the two Starlette     *)
(*           middlewares that _build_middleware_stack always adds;         *)
(*   "h1"    handle_request (server.rs), HTTP/1.1 and HTTP/2;              *)
(*   "h3"    the stream task of run_http3_server (server.rs).              *)
(*                                                                         *)
(* The client sends its body in chunks; it may leave at any time, and its  *)
(* body may break off.  What the dispatcher does is in Dispatch; here it   *)
(* is one step with all its outcomes.  What was sent to a client that left *)
(* is dropped by the server.                                               *)
(***************************************************************************)
EXTENDS Naturals, Sequences, SequencesExt

CONSTANTS
    Servers,    \* subset of "asgi", "h1", "h3"
    Chunks,     \* chunks of the request body
    Parts,      \* bound: parts of a streamed response
    Tasks,      \* what a handler adds to its BackgroundTasks
    None        \* nothing yet

\* The task of a streaming response that comes with one of its own.
OwnTask == 0

\* Whose response it is; "empty" stands for a streaming one in the native server.
Senders == {"route", "handler", "error", "empty"}

\* What can fail after the dispatch.
Faults == {"headers", "stream", "task"}

ASSUME ExchangeAssumption ==
    /\ None \notin Senders \cup Faults
    /\ Servers \subseteq {"asgi", "h1", "h3"}
    /\ Chunks \in Nat \ {0}
    /\ Parts \in Nat
    /\ Tasks \in Seq(Nat)

(***************************************************************************)
(* "page": /openapi.json or a docs page; "mount": under a mounted          *)
(* application; "trivial": in the native server's map; "plain": the rest.  *)
(***************************************************************************)
Routes == {"page", "mount", "trivial", "plain"}

\* HTTPException has a handler by default, "registered" one by add_exception_handler.
Handled == {"http", "registered"}

Exceptions == Handled \cup {"other"}

VARIABLES
    server, route,
    sent,        \* chunks the client has sent
    gone,        \* the client has left
    broken,      \* the body breaks off: a malformed chunk, a stream that was reset
    stage,       \* where the request is
    body,        \* the chunks received
    dispatched,  \* the body the dispatcher was given
    outcome,     \* how the dispatch or the route ended
    raised,      \* the exception on its way up
    by,          \* whose response is being sent
    started,     \* the middlewares' response_started
    wire,        \* what the client got
    added,       \* the background tasks to run after the response
    ran,         \* the ones begun
    fault        \* what failed first after the dispatch

request == <<server, route>>
client == <<sent, gone, broken>>
response == <<by, started, wire>>
background == <<added, ran>>
vars == <<server, route, sent, gone, broken, stage, body, dispatched, outcome, raised, by, started,
          wire, added, ran, fault>>

Init ==
    /\ server \in Servers
    /\ route \in Routes
    /\ sent = 0 /\ gone = FALSE /\ broken = FALSE
    /\ stage = "receive"
    /\ body = <<>> /\ dispatched = None
    /\ outcome = "none" /\ raised = None
    /\ by = None /\ started = FALSE /\ wire = <<>>
    /\ added = <<>> /\ ran = <<>>
    /\ fault = None

Goto(place) == stage' = place

\* What the innermost application raises goes to the middleware next to it.
Raise(what) == raised' = what /\ Goto("middleware")

-----------------------------------------------------------------------------
(* The client *)

SendChunk ==
    /\ ~gone /\ ~broken /\ sent < Chunks
    /\ sent' = sent + 1
    /\ UNCHANGED <<request, gone, broken, stage, body, dispatched, outcome, raised, response,
                   background, fault>>

Leave ==
    /\ ~gone
    /\ gone' = TRUE
    /\ UNCHANGED <<request, sent, broken, stage, body, dispatched, outcome, raised, response,
                   background, fault>>

\* The rest of the body cannot be read, and the client waits for its answer.  An ASGI
\* server refuses such a request itself and reports http.disconnect: that is Leave.
BodyBreaks ==
    /\ server # "asgi"
    /\ ~gone /\ ~broken /\ sent < Chunks
    /\ broken' = TRUE
    /\ UNCHANGED <<request, sent, gone, stage, body, dispatched, outcome, raised, response,
                   background, fault>>

-----------------------------------------------------------------------------
(* Up to the dispatcher *)

\* What is answered without the body: the pages of _core_http_app, and a trivial route.
Early == \/ server = "asgi" /\ route \in {"page", "mount"}
         \/ server = "h1" /\ route = "trivial"

\* Receive the next chunk: `more_body`, frames of the Incoming body, recv_data.
ReceiveChunk ==
    /\ stage = "receive" /\ ~Early
    /\ Len(body) < sent
    /\ body' = Append(body, Len(body) + 1)
    /\ Goto(IF Len(body) + 1 = Chunks THEN "dispatch" ELSE "receive")
    /\ UNCHANGED <<request, client, dispatched, outcome, raised, response, background,
                   fault>>

\* Fault: the body received so far is dispatched.
ReceiveDisconnect_Dispatches ==
    /\ stage = "receive" /\ ~Early
    /\ gone \/ broken
    /\ Goto("dispatch")
    /\ UNCHANGED <<request, client, body, dispatched, outcome, raised, response, background,
                   fault>>

(***************************************************************************)
(* The body cannot be read to its end; what is in flight may be lost.      *)
(* ASGI: http.disconnect, and _core_http_app returns.  "h1": the body      *)
(* future fails and Bytes::new() stands for it, unless the client is gone  *)
(* and hyper drops the service with the connection.  "h3": the loop over   *)
(* recv_data ends with what it has.                                        *)
(***************************************************************************)
ReceiveDisconnect ==
    /\ stage = "receive" /\ ~Early
    /\ gone \/ broken
    /\ \/ server = "asgi" /\ Goto("done") /\ UNCHANGED body
       \/ server = "h1" /\ Goto("dispatch") /\ body' = <<>>
       \/ server = "h1" /\ gone /\ Goto("done") /\ UNCHANGED body
       \/ server = "h3" /\ Goto("dispatch") /\ UNCHANGED body
    /\ UNCHANGED <<request, client, dispatched, outcome, raised, response, background,
                   fault>>

\* A page is sent by _core_http_app; a mounted application sends what it likes.
AnswerEarly ==
    /\ stage = "receive" /\ Early /\ server = "asgi"
    /\ IF route = "page"
       THEN outcome' = "returned" /\ by' = "route" /\ Goto("send")
       ELSE outcome' = "streamed" /\ by' = "route" /\ Goto("stream")
    /\ UNCHANGED <<request, client, body, dispatched, raised, started, wire, background,
                   fault>>

\* dispatch_trivial: any error is a 500.
DispatchTrivial ==
    /\ stage = "receive" /\ Early /\ server = "h1"
    /\ \E how \in {"returned"} \cup Exceptions :
          /\ outcome' = how
          /\ by' = IF how = "returned" THEN "route" ELSE "error"
    /\ Goto("send")
    /\ UNCHANGED <<request, client, body, dispatched, raised, started, wire, background,
                   fault>>

-----------------------------------------------------------------------------
(* The dispatcher *)

Returns == {"returned", "streamed"}

\* A streaming response's own task goes before the injected ones, which are dropped.
Background(how) ==
    {<<>>} \cup (IF route = "plain" THEN {Tasks} ELSE {})
           \cup (IF how = "streamed" THEN {<<OwnTask>>} ELSE {})

\* _dispatch_async; its background tasks are lost with an exception.
DispatchAsgi ==
    /\ stage = "dispatch" /\ server = "asgi"
    /\ dispatched' = body
    /\ \E how \in Returns \cup Exceptions :
          /\ outcome' = how
          /\ IF how \in Exceptions
             THEN Raise(how) /\ UNCHANGED <<by, added>>
             ELSE /\ Goto(IF how = "streamed" THEN "stream" ELSE "send")
                  /\ by' = "route"
                  /\ added' \in Background(how)
                  /\ UNCHANGED raised
    /\ UNCHANGED <<request, client, body, started, wire, ran, fault>>

(***************************************************************************)
(* python_dispatch: whatever is raised is a 500, a streaming response      *)
(* comes as an empty body with status 0 (sent as 200), and nobody reads    *)
(* the BackgroundTasks.                                                    *)
(***************************************************************************)
DispatchNative ==
    /\ stage = "dispatch" /\ server # "asgi"
    /\ dispatched' = body
    /\ \E how \in Returns \cup Exceptions :
          /\ route \in {"page", "mount"} => how = "returned"
          /\ outcome' = how
          /\ by' = CASE how = "returned" -> "route"
                     [] how = "streamed" -> "empty"
                     [] OTHER -> "error"
    /\ Goto("send")
    /\ UNCHANGED <<request, client, body, raised, started, wire, background, fault>>

-----------------------------------------------------------------------------
(* Sending *)

Send(kind) ==
    wire' = IF gone THEN wire ELSE Append(wire, [kind |-> kind, by |-> by])

\* Headers that do not encode: an exception, an empty 500, or a stream that is dropped.
HeadersFail ==
    /\ stage = "send" /\ by = "route" /\ ~started
    /\ route = "plain" \/ (route = "trivial" /\ ~Early)
    /\ fault' = "headers"
    /\ \/ server = "asgi" /\ Raise("other") /\ UNCHANGED by
       \/ server = "h1" /\ by' = "error" /\ UNCHANGED <<stage, raised>>
       \/ server = "h3" /\ Goto("done") /\ UNCHANGED <<by, raised>>
    /\ UNCHANGED <<request, client, body, dispatched, outcome, started, wire, background>>

SendStart ==
    /\ stage = "send" /\ ~started
    /\ Send("start")
    /\ started' = TRUE
    /\ UNCHANGED <<request, client, stage, body, dispatched, outcome, raised, by, background,
                   fault>>

\* Fault: the tasks are run before the body is sent.
SendBody_AfterTasks ==
    /\ stage = "send" /\ started
    /\ IF by = "route" /\ Len(ran) < Len(added)
       THEN ran' = Append(ran, added[Len(ran) + 1]) /\ UNCHANGED <<stage, wire>>
       ELSE Send("end") /\ Goto("done") /\ UNCHANGED ran
    /\ UNCHANGED <<request, client, body, dispatched, outcome, raised, by, started, added,
                   fault>>

SendBody ==
    /\ stage = "send" /\ started
    /\ Send("end")
    /\ Goto(IF by = "route" THEN "tasks" ELSE "done")
    /\ UNCHANGED <<request, client, body, dispatched, outcome, raised, by, started,
                   background, fault>>

\* A streaming response, or a mounted application, sends on its own.
StreamStart ==
    /\ stage = "stream" /\ ~started
    /\ Send("start")
    /\ started' = TRUE
    /\ UNCHANGED <<request, client, stage, body, dispatched, outcome, raised, by, background,
                   fault>>

StreamPart ==
    /\ stage = "stream" /\ started
    /\ Len(wire) <= Parts
    /\ Send("part")
    /\ UNCHANGED <<request, client, stage, body, dispatched, outcome, raised, by, started,
                   background, fault>>

\* The iterator is exhausted, or cancelled because the client left.
StreamEnds ==
    /\ stage = "stream"
    /\ started \/ gone
    /\ Send("end")
    /\ Goto("tasks")
    /\ UNCHANGED <<request, client, body, dispatched, outcome, raised, by, started,
                   background, fault>>

StreamFails ==
    /\ stage = "stream"
    /\ \E what \in Exceptions : Raise(what)
    /\ fault' = "stream"
    /\ UNCHANGED <<request, client, body, dispatched, outcome, response, background>>

-----------------------------------------------------------------------------
(* After the response *)

\* `await background()`: the next task, which may raise.
RunTask ==
    /\ stage = "tasks" /\ Len(ran) < Len(added)
    /\ ran' = Append(ran, added[Len(ran) + 1])
    /\ \/ UNCHANGED <<stage, raised, fault>>
       \/ fault' = "task" /\ \E what \in Exceptions : Raise(what)
    /\ UNCHANGED <<request, client, body, dispatched, outcome, response, added>>

TasksEnd ==
    /\ stage = "tasks" /\ Len(ran) = Len(added)
    /\ Goto("done")
    /\ UNCHANGED <<request, client, body, dispatched, outcome, raised, response, background,
                   fault>>

-----------------------------------------------------------------------------
(* Exceptions under ASGI *)

\* Fault: a started response does not stop the handler.
ExceptionMiddleware_Again ==
    /\ stage = "middleware"
    /\ \/ /\ raised \in Handled
          /\ by' = "handler" /\ started' = FALSE /\ Goto("send")
       \/ raised = "other" /\ Goto("error") /\ UNCHANGED <<by, started>>
    /\ UNCHANGED <<request, client, body, dispatched, outcome, raised, wire, background,
                   fault>>

\* Fault: a handler is found for any exception.
ExceptionMiddleware_CatchAll ==
    /\ stage = "middleware"
    /\ IF started
       THEN Goto("error") /\ UNCHANGED by
       ELSE by' = "handler" /\ Goto("send")
    /\ UNCHANGED <<request, client, body, dispatched, outcome, raised, started, wire,
                   background, fault>>

\* Starlette: the handler of the class answers, unless a response has begun; it may raise.
ExceptionMiddleware ==
    /\ stage = "middleware"
    /\ \/ raised \in Handled /\ ~started /\ by' = "handler" /\ Goto("send")
       \/ Goto("error") /\ UNCHANGED by
    /\ UNCHANGED <<request, client, body, dispatched, outcome, raised, started, wire,
                   background, fault>>

\* Fault: no 500 is sent.
ServerErrorMiddleware_Silent ==
    /\ stage = "error"
    /\ Goto("done")
    /\ UNCHANGED <<request, client, body, dispatched, outcome, raised, by, started, wire,
                   background, fault>>

\* Starlette: a 500, unless a response has begun; the server gets the exception.
ServerErrorMiddleware ==
    /\ stage = "error"
    /\ IF started
       THEN Goto("done") /\ UNCHANGED by
       ELSE Goto("send") /\ by' = "error"
    /\ UNCHANGED <<request, client, body, dispatched, outcome, raised, started, wire,
                   background, fault>>

-----------------------------------------------------------------------------

Server ==
    \/ ReceiveChunk \/ ReceiveDisconnect \/ AnswerEarly \/ DispatchTrivial
    \/ DispatchAsgi \/ DispatchNative
    \/ HeadersFail \/ SendStart \/ SendBody
    \/ StreamStart \/ StreamPart \/ StreamEnds \/ StreamFails
    \/ RunTask \/ TasksEnd
    \/ ExceptionMiddleware \/ ServerErrorMiddleware

Over == stage = "done" /\ UNCHANGED vars

Next == SendChunk \/ Leave \/ BodyBreaks \/ Server \/ Over

Spec == Init /\ [][Next]_vars

(***************************************************************************)
(* Fairness: the event loop or the tokio runtime runs what is ready, user  *)
(* code and streamed bodies end, and a client finishes its body, breaks it *)
(* off or leaves.                                                          *)
(***************************************************************************)
FairSpec == Spec /\ WF_vars(Server) /\ WF_vars(SendChunk \/ BodyBreaks \/ (sent < Chunks /\ Leave))

-----------------------------------------------------------------------------

Stages == {"receive", "dispatch", "send", "stream", "tasks", "middleware", "error", "done"}

Message == [kind : {"start", "part", "end"}, by : Senders]

\* Shape of an exchange.
TypeOK ==
    /\ server \in Servers /\ route \in Routes
    /\ sent \in 0..Chunks /\ gone \in BOOLEAN /\ broken \in BOOLEAN
    /\ stage \in Stages
    /\ body \in Seq(1..Chunks)
    /\ dispatched \in Seq(1..Chunks) \cup {None}
    /\ outcome \in {"none"} \cup Returns \cup Exceptions
    /\ raised \in Exceptions \cup {None}
    /\ by \in Senders \cup {None}
    /\ started \in BOOLEAN
    /\ wire \in Seq(Message)
    /\ added \in {<<>>, Tasks, <<OwnTask>>}
    /\ ran \in Seq(Nat)
    /\ fault \in Faults \cup {None}

WireEnded == wire # <<>> /\ Last(wire).kind = "end"

(***************************************************************************)
(* A client never gets two responses mixed, although a route, a registered *)
(* handler and the 500 of ServerErrorMiddleware all send on one connection *)
(* and any of them may fail after it began: one start, first; one end,     *)
(* last; all by the same sender.                                           *)
(***************************************************************************)
OneResponse ==
    \A i \in DOMAIN wire :
        /\ wire[i].kind = "start" <=> i = 1
        /\ wire[i].kind = "end" => i = Len(wire)
        /\ wire[i].by = wire[1].by

(***************************************************************************)
(* What a handler is called on.  Under ASGI: the whole body the client     *)
(* sent.  Natively also what stands for a body that could not be read to   *)
(* its end, the client being gone or not: nothing at all over HTTP/1 and   *)
(* HTTP/2, the chunks that came over HTTP/3.  No chunk is ever missing in  *)
(* the middle, or comes out of order.                                      *)
(***************************************************************************)
BodyIsWhole ==
    dispatched # None =>
        /\ \A i \in 1..Len(dispatched) : dispatched[i] = i
        /\ \/ Len(dispatched) = Chunks
           \/ (gone \/ broken) /\ server = "h1" /\ dispatched = <<>>
           \/ (gone \/ broken) /\ server = "h3"

(***************************************************************************)
(* "BackgroundTasks: run after body sent. FIFO order" (applications.py):   *)
(* none begins before the whole response is out or after a failure; they   *)
(* begin in order; and unless one raises, all have when the exchange ends. *)
(***************************************************************************)
TasksAfterBody ==
    /\ ran # <<>> => (WireEnded \/ gone) /\ fault # "headers" /\ fault # "stream"
    /\ Len(ran) <= Len(added) /\ \A i \in 1..Len(ran) : ran[i] = added[i]
    /\ stage = "done" /\ fault = None => ran = added

\* Whose response answers an exception, if the answer had not begun.
AnsweredBy ==
    IF outcome \in Handled \/ (fault = "stream" /\ raised \in Handled)
    THEN {"handler", "error"}
    ELSE {"error"}

(***************************************************************************)
(* Under ASGI "HTTPException + custom registered handlers" answer what a   *)
(* handler raises and "anything not caught downstream" is a 500: an        *)
(* exception is never answered as a success, and only those with a handler *)
(* get one's answer.                                                       *)
(***************************************************************************)
ExceptionsAreAnswered ==
    server = "asgi" /\ wire # <<>> =>
        IF wire[1].by = "route"
        THEN outcome \in Returns /\ fault # "headers"
        ELSE /\ outcome \in Exceptions \/ fault \in {"headers", "stream"}
             /\ wire[1].by \in AnsweredBy

(***************************************************************************)
(* A client that stays gets its answer to the end; only a streamed body    *)
(* that failed on the way, or headers HTTP/3 cannot encode, cut it off.    *)
(***************************************************************************)
Answered ==
    <>(/\ stage = "done"
       /\ gone \/ WireEnded \/ fault = "stream" \/ (fault = "headers" /\ server = "h3"))
=============================================================================
