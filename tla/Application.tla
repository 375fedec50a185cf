---------------------------- MODULE Application -----------------------------
(***************************************************************************)
(* The Python side of an application under ASGI (applications.py): what    *)
(* is registered on it, the middleware stack built from that on the first  *)
(* request and kept, the lifespan task, and connections on the http and    *)
(* websocket scopes up to the dispatcher or the handler.                   *)
(*                                                                         *)
(* Everything runs on the server's event loop; a step is what happens      *)
(* between two awaits.  Registration is user code: at import, in a         *)
(* startup function or in a handler.                                       *)
(***************************************************************************)
EXTENDS Naturals, Sequences, SequencesExt

CONSTANTS
    Classes,        \* exception classes handlers are registered for
    Defaults,       \* those ExceptionMiddleware has handlers for by itself
    Middlewares,    \* middleware classes
    Events,         \* functions given to on_event
    MountPaths,       \* paths given to mount
    Connections,    \* http requests and websocket connections
    Paths,          \* paths they ask for
    SocketPaths,    \* paths of @app.websocket
    None,           \* no stack, no mount
    MaxRegistered   \* bound: middlewares, mounts and event functions together

ASSUME ConstantsAssumption ==
    /\ MountPaths \subseteq Seq(STRING)
    /\ MaxRegistered \in Nat

VARIABLES
    handlers,       \* _exception_handlers: classes with a handler of the user
    middleware,     \* _user_middleware
    mounts,         \* _mounts, paths as sequences of segments
    on_startup, on_shutdown,
    stack,          \* _middleware_stack: what it was built from, or None
    _lifespan_user, \* lifespan= was given
    lifespan,       \* where the lifespan task is
    told, answers,  \* what the server announced and was answered
    started_up, shut_down,  \* history: functions that have run
    known,          \* history: how many startup functions there were when the task began
    conn            \* what each connection was given, and what it came to

registered == <<handlers, middleware, mounts, on_startup, on_shutdown>>
task == <<_lifespan_user, lifespan, told, answers, started_up, shut_down, known>>
vars == <<registered, stack, task, conn>>
others == <<registered, stack, conn, _lifespan_user>>   \* what the lifespan task leaves alone

NoConnection == [at |-> "none", scope |-> None, stack |-> None, target |-> None,
                 raised |-> None, open |-> FALSE, gone |-> FALSE, closed |-> <<>>]

Init ==
    /\ handlers = {} /\ middleware = <<>> /\ mounts = <<>>
    /\ on_startup = <<>> /\ on_shutdown = <<>>
    /\ stack = None
    /\ _lifespan_user \in BOOLEAN
    /\ lifespan = "new" /\ told = <<>> /\ answers = <<>>
    /\ started_up = <<>> /\ shut_down = <<>> /\ known = 0
    /\ conn = [c \in Connections |-> NoConnection]

-----------------------------------------------------------------------------
(* Registration *)

Room == Len(middleware) + Len(mounts) + Len(on_startup) + Len(on_shutdown) < MaxRegistered

\* Fault: the stack is kept.
AddExceptionHandler_Keeps(class) ==
    /\ handlers' = handlers \cup {class}
    /\ UNCHANGED <<middleware, mounts, on_startup, on_shutdown, stack, task, conn>>

AddExceptionHandler(class) ==
    /\ handlers' = handlers \cup {class}
    /\ stack' = None
    /\ UNCHANGED <<middleware, mounts, on_startup, on_shutdown, task, conn>>

\* insert(0, ...): newest first.
AddMiddleware(m) ==
    /\ Room
    /\ middleware' = <<m>> \o middleware
    /\ stack' = None
    /\ UNCHANGED <<handlers, mounts, on_startup, on_shutdown, task, conn>>

Normalised(path) == IF Len(path) > 1 /\ Last(path) = "" THEN Front(path) ELSE path

Mount(path) ==
    /\ Room
    /\ mounts' = Append(mounts, Normalised(path))
    /\ UNCHANGED <<handlers, middleware, on_startup, on_shutdown, stack, task, conn>>

OnEvent(type, fn) ==
    /\ Room
    /\ IF type = "startup"
       THEN on_startup' = Append(on_startup, fn) /\ UNCHANGED on_shutdown
       ELSE on_shutdown' = Append(on_shutdown, fn) /\ UNCHANGED on_startup
    /\ UNCHANGED <<handlers, middleware, mounts, stack, task, conn>>

-----------------------------------------------------------------------------
(* The lifespan task *)

\* The server: after startup it announces shutdown or cancels the task.  A cancellation
\* while the shutdown functions run is one of them that raises (Fails).
Announce ==
    /\ \/ told = <<>> /\ told' = <<"startup">>
       \/ told = <<"startup">> /\ answers = <<"startup.complete">>
          /\ told' = <<"startup", "shutdown">>
       \/ told = <<"startup">> /\ answers # <<"startup.failed">>
          /\ told' = <<"startup", "cancelled">>
    /\ UNCHANGED <<others, lifespan, answers, started_up, shut_down, known>>

Answer(message) == answers' = Append(answers, message)

\* Outside of the try: the user's lifespan function raises when it is called, or
\* `await receive()` is cancelled.  The task ends and nothing is sent.
IsLost ==
    /\ lifespan = "new" /\ told # <<>>
    /\ _lifespan_user \/ told = <<"startup", "cancelled">>
    /\ lifespan' = "lost"
    /\ UNCHANGED <<others, told, answers, started_up, shut_down, known>>

\* `await receive()  # lifespan.startup`
BeginLifespan ==
    /\ lifespan = "new" /\ told = <<"startup">>
    /\ lifespan' = "starting"
    /\ known' = Len(on_startup)
    /\ UNCHANGED <<others, told, answers, started_up, shut_down>>

\* The next function of the list as it is now; a user's lifespan takes their place.
Startup ==
    /\ lifespan = "starting" /\ ~_lifespan_user
    /\ Len(started_up) < Len(on_startup)
    /\ started_up' = Append(started_up, on_startup[Len(started_up) + 1])
    /\ UNCHANGED <<others, lifespan, told, answers, shut_down, known>>

\* Fault: the functions are those that were registered when the walk began.
Started_Snapshot ==
    /\ lifespan = "starting"
    /\ _lifespan_user \/ Len(started_up) = known
    /\ lifespan' = "running"
    /\ Answer("startup.complete")
    /\ UNCHANGED <<others, told, started_up, shut_down, known>>

\* The context manager has been entered.
Started ==
    /\ lifespan = "starting"
    /\ _lifespan_user \/ Len(started_up) = Len(on_startup)
    /\ lifespan' = "running"
    /\ Answer("startup.complete")
    /\ UNCHANGED <<others, told, started_up, shut_down, known>>

\* `await receive()  # lifespan.shutdown`
BeginShutdown ==
    /\ lifespan = "running" /\ told = <<"startup", "shutdown">>
    /\ lifespan' = "stopping"
    /\ UNCHANGED <<others, told, answers, started_up, shut_down, known>>

Shutdown ==
    /\ lifespan = "stopping" /\ ~_lifespan_user
    /\ Len(shut_down) < Len(on_shutdown)
    /\ shut_down' = Append(shut_down, on_shutdown[Len(shut_down) + 1])
    /\ UNCHANGED <<others, lifespan, told, answers, started_up, known>>

Stopped ==
    /\ lifespan = "stopping"
    /\ _lifespan_user \/ Len(shut_down) = Len(on_shutdown)
    /\ lifespan' = "ended"
    /\ Answer("shutdown.complete")
    /\ UNCHANGED <<others, told, started_up, shut_down, known>>

\* Fault: the synthetic lifespan runs the shutdown functions in a finally.
Fails_ThenStops ==
    /\ lifespan \in {"starting", "stopping"}
    /\ lifespan' = IF lifespan = "starting" THEN "stopping" ELSE "ended"
    /\ Answer(IF lifespan = "starting" THEN "startup.failed" ELSE "shutdown.failed")
    /\ UNCHANGED <<others, told, started_up, shut_down, known>>

\* Fault: what fails is always reported as the shutdown.
Fails_AsShutdown ==
    /\ lifespan \in {"starting", "stopping"}
    /\ lifespan' = "ended"
    /\ Answer("shutdown.failed")
    /\ UNCHANGED <<others, told, started_up, shut_down, known>>

\* A function raises, or the user's lifespan: the functions after it do not run.
Fails ==
    /\ lifespan \in {"starting", "stopping"}
    /\ lifespan' = "ended"
    /\ Answer(IF lifespan = "starting" THEN "startup.failed" ELSE "shutdown.failed")
    /\ UNCHANGED <<others, told, started_up, shut_down, known>>

\* Fault: `except Exception` lets the cancellation through.
Interrupted_Unseen ==
    /\ lifespan = "running" /\ told = <<"startup", "cancelled">>
    /\ lifespan' = "ended"
    /\ UNCHANGED <<others, told, answers, started_up, shut_down, known>>

\* `except BaseException`: receive() is cancelled.  The synthetic generator ends at its
\* yield, without the shutdown functions; a user's lifespan may also suppress it.
Interrupted ==
    /\ lifespan = "running" /\ told = <<"startup", "cancelled">>
    /\ lifespan' = "ended"
    /\ Answer("shutdown.failed") \/ (_lifespan_user /\ Answer("shutdown.complete"))
    /\ UNCHANGED <<others, told, started_up, shut_down, known>>

-----------------------------------------------------------------------------
(* Connections *)

\* Outermost first: ServerErrorMiddleware and ExceptionMiddleware are always there.
BuildStack == [handlers |-> handlers, middleware |-> middleware]

Current == IF stack = None THEN BuildStack ELSE stack

\* "first prefix wins"; only http scopes are forwarded.
MountOf(path) ==
    LET under == {i \in DOMAIN mounts : IsPrefix(mounts[i], path)} IN
    IF under = {} THEN None ELSE CHOOSE i \in under : \A j \in under : i <= j

\* __call__: built when there is none, and then called.
Connect(c, scope, path) ==
    /\ conn[c].at = "none"
    /\ stack' = Current
    /\ conn' = [conn EXCEPT ![c] =
           [@ EXCEPT !.at = "app", !.scope = scope, !.stack = Current,
                     !.target = IF scope = "websocket" THEN IF path \in SocketPaths THEN path ELSE None
                                ELSE MountOf(path)]]
    /\ UNCHANGED <<registered, task>>

\* The dispatcher or the mounted application has answered.
Serve(c) ==
    /\ conn[c].at = "app" /\ conn[c].scope = "http"
    /\ conn' = [conn EXCEPT ![c].at = "done"]
    /\ UNCHANGED <<registered, stack, task>>

\* What is sent to a client that is gone is dropped, or raises.
Close(c, code) == [conn[c] EXCEPT !.closed = IF conn[c].gone THEN @ ELSE Append(@, code),
                                  !.open = FALSE]

\* No handler has the path.
RefuseSocket(c) ==
    /\ conn[c].at = "app" /\ conn[c].scope = "websocket" /\ conn[c].target = None
    /\ conn' = [conn EXCEPT ![c] = [Close(c, "1000") EXCEPT !.at = "done"]]
    /\ UNCHANGED <<registered, stack, task>>

HandlerHas(c) == conn[c].at = "app" /\ conn[c].scope = "websocket" /\ conn[c].target # None

Accept(c) ==
    /\ HandlerHas(c) /\ ~conn[c].open /\ conn[c].closed = <<>>
    /\ conn' = [conn EXCEPT ![c].open = TRUE]
    /\ UNCHANGED <<registered, stack, task>>

HandlerCloses(c) ==
    /\ HandlerHas(c) /\ conn[c].closed = <<>>
    /\ conn' = [conn EXCEPT ![c] = Close(c, "1000")]
    /\ UNCHANGED <<registered, stack, task>>

ClientLeaves(c) ==
    /\ HandlerHas(c) /\ ~conn[c].gone
    /\ conn' = [conn EXCEPT ![c].gone = TRUE]
    /\ UNCHANGED <<registered, stack, task>>

HandlerReturns(c) ==
    /\ HandlerHas(c)
    /\ conn' = [conn EXCEPT ![c].at = "done"]
    /\ UNCHANGED <<registered, stack, task>>

\* Fault: the close is sent whether or not there was one.
HandlerRaises_Again(c, exception) ==
    /\ HandlerHas(c)
    /\ conn' = [conn EXCEPT ![c] =
           [Close(c, "1011") EXCEPT !.at = "raised", !.raised = exception]]
    /\ UNCHANGED <<registered, stack, task>>

\* Starlette's WebSocket raises when it is closed already, and that is swallowed; the
\* exception of the handler goes on, up the middleware stack.
HandlerRaises(c, exception) ==
    /\ HandlerHas(c)
    /\ conn' = [conn EXCEPT ![c] =
           [IF conn[c].closed = <<>> THEN Close(c, "1011") ELSE conn[c]
              EXCEPT !.at = "raised", !.raised = exception]]
    /\ UNCHANGED <<registered, stack, task>>

\* ExceptionMiddleware, for a class it has a handler for.  The handler is given another
\* WebSocket, which knows of no close: what it sends, a close or a response, goes out.
\* Only a user's handler may send nothing.
ExceptionHandler(c) ==
    /\ conn[c].at = "raised"
    /\ \/ /\ conn[c].raised \in Defaults \cup conn[c].stack.handlers
          /\ conn' = [conn EXCEPT ![c] = [Close(c, "handled") EXCEPT !.at = "handled"]]
       \/ /\ conn[c].raised \in conn[c].stack.handlers
          /\ conn' = [conn EXCEPT ![c].at = "handled"]
    /\ UNCHANGED <<registered, stack, task>>

-----------------------------------------------------------------------------

Register ==
    \/ \E class \in Classes : AddExceptionHandler(class)
    \/ \E m \in Middlewares : AddMiddleware(m)
    \/ \E path \in MountPaths : Mount(path)
    \/ \E type \in {"startup", "shutdown"}, fn \in Events : OnEvent(type, fn)

Lifespan ==
    IsLost \/ BeginLifespan \/ Startup \/ Started \/ BeginShutdown \/ Shutdown \/ Stopped
        \/ Fails \/ Interrupted

Connection(c) ==
    \/ \E scope \in {"http", "websocket"}, path \in Paths : Connect(c, scope, path)
    \/ Serve(c) \/ RefuseSocket(c)
    \/ Accept(c) \/ HandlerCloses(c) \/ ClientLeaves(c) \/ HandlerReturns(c)
    \/ \E exception \in Classes \cup Defaults : HandlerRaises(c, exception)
    \/ ExceptionHandler(c)

Next == Register \/ Announce \/ Lifespan \/ \E c \in Connections : Connection(c)

\* The server's loop resumes the lifespan task, and its functions end.
Spec == Init /\ [][Next]_vars /\ WF_vars(Lifespan)

-----------------------------------------------------------------------------

Functions == Seq(Events)

\* Shape of the state.
TypeOK ==
    /\ handlers \subseteq Classes
    /\ middleware \in Seq(Middlewares)
    /\ mounts \in Seq(Seq(STRING))
    /\ on_startup \in Functions /\ on_shutdown \in Functions
    /\ stack \in {None} \cup [handlers : SUBSET Classes, middleware : Seq(Middlewares)]
    /\ _lifespan_user \in BOOLEAN
    /\ lifespan \in {"new", "starting", "running", "stopping", "ended", "lost"}
    /\ told \in Seq({"startup", "shutdown", "cancelled"})
    /\ answers \in Seq({"startup.complete", "startup.failed",
                        "shutdown.complete", "shutdown.failed"})
    /\ started_up \in Functions /\ shut_down \in Functions /\ known \in Nat

(***************************************************************************)
(* "Reset middleware stack so the next request rebuilds with the new map": *)
(* the stack that is kept is the one a request would build now, whenever   *)
(* handlers and middleware are registered, between requests, in a startup  *)
(* function or by a handler.                                               *)
(***************************************************************************)
StackIsCurrent == stack # None => stack = BuildStack

(***************************************************************************)
(* _lifespan: nothing is stopped in an application that did not start.  A  *)
(* shutdown function runs only after startup was complete and shutdown was *)
(* announced; the functions run in the order they were registered, each    *)
(* once.                                                                   *)
(***************************************************************************)
StopsOnlyWhatStarted ==
    /\ IsPrefix(started_up, on_startup) /\ IsPrefix(shut_down, on_shutdown)
    /\ shut_down # <<>> =>
          /\ told = <<"startup", "shutdown">>
          /\ answers # <<>> /\ Head(answers) = "startup.complete"

(***************************************************************************)
(* "a synthetic one composed from on_event handlers": what was registered  *)
(* while a list was walked, by one of its functions, has run as well when  *)
(* the server is told that startup, or shutdown, is complete.              *)
(***************************************************************************)
CompleteMeansAll ==
    [][/\ answers = <<>> /\ answers' = <<"startup.complete">> /\ ~_lifespan_user
             => started_up' = on_startup'
       /\ answers # answers' /\ Last(answers') = "shutdown.complete" /\ ~_lifespan_user
             => shut_down' = on_shutdown']_vars

(***************************************************************************)
(* _handle_websocket: "If handler raises, ensure the connection is         *)
(* closed".  A connection whose handler raised, or that has none, is       *)
(* closed, unless the client is gone, and before a handler of the          *)
(* exception has its turn; and nothing closes it again, though its handler *)
(* may have done it before, but for that handler of the exception.         *)
(***************************************************************************)
SocketsAreClosed ==
    \A c \in Connections :
        LET closed == conn[c].closed IN
        /\ Len(closed) <= IF conn[c].at = "handled" THEN 2 ELSE 1
        /\ conn[c].scope = "websocket"
              /\ (conn[c].at \in {"raised", "handled"} \/ (conn[c].at = "done" /\ conn[c].target = None))
           => conn[c].gone \/ (closed # <<>> /\ Head(closed) # "handled")

Protocol == INSTANCE LifespanProtocol

(***************************************************************************)
(* _lifespan keeps to the protocol of the lifespan scope: "startup raises, *)
(* the app must not become 'ready'" (tests, test_lifespan.py), and what it *)
(* has reported it does not report again.                                  *)
(***************************************************************************)
KeepsProtocol == Protocol!Spec

(***************************************************************************)
(* "Failures bubble up as lifespan.{startup,shutdown}.failed": a server    *)
(* that waits for an answer gets one, be it that a function raises or that *)
(* the task is cancelled; unless the task is lost before it has received   *)
(* the first message.                                                      *)
(***************************************************************************)
LifespanAnswered ==
    /\ told # <<>> ~> answers # <<>> \/ lifespan = "lost"
    /\ Len(told) = 2 ~> Len(answers) = 2 \/ answers = <<"startup.failed">> \/ lifespan = "lost"
=============================================================================
