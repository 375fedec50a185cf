# Verification of hyperfastapi

hyperfastapi is a FastAPI work-alike: routing, parameter extraction and dispatch are written in
Rust (`crates/fr-pyiface`, a PyO3 extension), dependencies, coroutines and the ASGI side in Python
(`python/hyperfastapi`). A program is served in one of two ways:

* **ASGI** - uvicorn or a TestClient calls `FastAPI.__call__` on its event loop;
* **native** - `run_native` starts tokio, hyper (HTTP/1.1, HTTP/2), quinn/h3 (HTTP/3) and
  tokio-tungstenite (WebSocket) inside the process, and its threads call Python.

Both ways meet in one *synchronous* dispatcher, `FastAPI._dispatch`. Two design decisions make the
system hard to get right, and most of this project is about them: the per-request state of a
dispatch lives in module globals (`_bg.py`), and coroutines are run to their end by blocking the
thread that dispatches (`call_with_async_handling`), on a worker event loop that is created the
first time somebody needs it.

In the modules, `applications.py`, `_routing.py`, `_bg.py` and `_ws.py` are in
`src/python/hyperfastapi/`, `app.rs`, `server.rs` and `ws.rs` in `src/crates/fr-pyiface/src/`.

## Inventory

| Component | State | Operations | Interacts through |
|---|---|---|---|
| Worker event loop (`_routing.py`) | `_WORKER_LOOP`, `_WORKER_LOOP_LOCK`, the loop and its thread | `_ensure_worker_loop` | called by coroutine calls and by native WebSockets, from any thread |
| Coroutine calls (`_routing.py`, `server.rs`) | coroutine objects, the ready queues of the loops | `call_with_async_handling`, `_run_coro_blocking`, `try_drive_async` | called by the dispatcher for dependencies, teardowns and handlers; submits to the worker loop |
| Dispatcher (`app.rs`, `applications.py`, `_routing.py`) | the globals of `_bg`: open generators, tasks, request, streaming response | `_dispatch_async`, `_dispatch_native`, `_dispatch`, `resolve_dependencies`, `drain_yield_deps` | called by the HTTP exchange; reads the route tables |
| HTTP exchange (`applications.py`, `server.rs`) | body buffer, what has been sent, background tasks | `_core_http_app` in its middlewares, `handle_request`, `dispatch_trivial`, the h3 stream task | ASGI messages, hyper bodies, h3 streams; calls the dispatcher |
| Native WebSocket bridge (`ws.rs`, `_ws.py`) | mpsc channel, asyncio.Queue, `_closed`, tungstenite's state | `drive_websocket` (read and write loop), `NativeWebSocket.*`, `_native_create`, `_native_push_frame` | tokio tasks, `call_soon_threadsafe`, the worker loop |
| Route tables (`app.rs`, `server.rs`) | a table per application and per APIRouter; the native snapshot of trivial routes | decorators, `add_api_route`, `api_route`, `include_router`, the search in `_dispatch`, `is_trivial_route`, `snapshot_trivial_routes` | filled at import, read by every request |
| Application state (`applications.py`) | exception handlers, user middleware, mounts, the kept stack | `add_exception_handler`, `add_middleware`, `mount`, `_build_middleware_stack`, `__call__` | wraps the HTTP exchange |
| Lifespan (`applications.py`) | startup and shutdown functions, the user's context manager | `on_event`, `_lifespan` | ASGI lifespan messages |
| ASGI WebSockets (`applications.py`) | one connection per task | `_handle_websocket` | ASGI websocket messages, the user's handler |
| Route plans (`_routing.py`) | plans computed at registration | `compile_route_plan`, `expand_route_level_dependencies` | read by `_dispatch` and `resolve_dependencies` |
| Parameter and body extraction (`app.rs`, `_routing.py`) | none | `extract_one_param`, `cast_scalar`, `run_validators`, `extract_body_params`, the replica `_extract_simple` | called by `_dispatch` and `resolve_dependencies` |
| Forms (`app.rs`) | none | `parse_form_body`, `_parse_multipart` | called by `_dispatch` where a plan has a form parameter |
| Dependency resolution (`_routing.py`) | per-request cache, overrides, security scopes | `resolve_dependencies` and the recursion in it | called by `_dispatch` after the extraction |
| Responses, OpenAPI, security classes, transports | none, or I/O only | | |

What is hard in each, and what makes it correct:

* **Worker loop** - several threads may make the first call at once. Correct: a caller gets a loop
  whose thread has begun (it may still be on its way to `run_forever`, and what is submitted
  meanwhile waits); the block under the lock is exclusive; one lock never yields two loops.
* **Coroutine calls** - on a thread without a loop a coroutine is first driven by one `send(None)`
  there; if it suspends it is closed and *run again* on the worker loop, while the caller blocks; if
  its await asks for the running loop, that is a RuntimeError. Correct: never two copies under way;
  what runs twice is only the prefix up to the first await; no coroutine ever sees its caller's loop;
  every call returns.
* **Dispatcher** - every failure point between opening a `yield` dependency and tearing it down;
  state left by an earlier request; several native threads on one set of globals. Correct:
  each generator torn down once, after the handler, last opened first, with its own handler's
  exception, none outliving its request; slots read only by the request that filled them.
* **HTTP exchange** - the client may leave, or its body break off, between any two messages; the handler, the headers, a
  stream or a background task may fail before or after the response has begun. Correct: one
  response; no handler on half a body that it could take for the whole; background tasks only after the whole response; an answer in
  the end, and the right one for an exception.
* **WebSocket bridge** - five queues, two runtimes, both sides may close at any time, and the worker
  loop is looked up anew for every frame, when it may be another. Correct: FIFO without gaps in both
  directions, Close last, a waiting handler unblocked, both loops end.
* **Route tables** - the first match must win whatever is registered later; the native map must stand
  for the search it replaces; segments must match exactly; nested routers keep their guards.
* **Application state** - registration is allowed at any time, also from a startup function or a
  handler, and the stack is built on the first request. Correct: the kept stack is always what a new
  one would be.
* **Lifespan** - a startup or shutdown function may raise, the server may cancel, functions may be
  registered while others run. Correct: the lifespan protocol (each announcement answered once, nothing
  after a failure), shutdown functions only after a complete startup, functions in order, "complete"
  meaning all of them, an answer in the end.
* **ASGI WebSockets** - the handler may raise before or after it closed, the client may leave,
  and the exception goes on to `ExceptionMiddleware`, which may answer as well. Correct: not left open by
  a handler that raised, and closed once but for that answer.
* **Route plans, extraction, forms** - a parameter can be declared in a dozen ways, and what is compiled
  from the declaration, read from the request and left to Python's default must fit together. Correct:
  whoever is called has an argument for every parameter without a default, or there is a 422 before; a
  422 names every parameter at fault and no other.
* **Dependency resolution** - shared and cyclic dependencies, overrides, security schemes, a cache.
  Correct: a cached dependency is called once; each parameter gets the value of what it asks for,
  overrides applied; the resolution ends whatever the graph.

## Modules

| Module | Models | Correspondence |
|---|---|---|
| `WorkerLoop` | `_ensure_worker_loop` | One action per stretch of bytecode between two points where CPython can switch threads (a call, a blocking acquire, a blocking wait). Locks and loops are named by the thread that creates them. |
| `AsyncCall` | `call_with_async_handling`, `_run_coro_blocking`, `try_drive_async`; composed with `WorkerLoop` | EXTENDS `WorkerLoop`: its actions are steps of a call. A coroutine is the sequence of what its body does (`code`, `bare` suspension, `io`, which asks for the running loop, an await of the `server`'s own loop, `fail`). Loops have a ready queue and run one task at a time. |
| `Dispatch` | `_dispatch_async`, `_dispatch_native`, `_dispatch`, `drain_yield_deps`, `_bg.py` | `current` is the list the global names, `lists` the heap of list objects, `genState` the life of each generator; a drain keeps the list it read first. `Entry` selects the ASGI or the native entry; user code begins and ends a step. |
| `HttpExchange` | `_core_http_app` and the middlewares around it, `handle_request`, `dispatch_trivial`, the h3 stream task | One request on one of the servers `asgi`, `h1`, `h3`, whose body may break off while its client stays. The dispatcher is one step with all its outcomes. `ExceptionMiddleware` and `ServerErrorMiddleware` are Starlette's, as `_build_middleware_stack` composes them. |
| `WebSocketBridge` | `ws.rs` and `_ws.py` | Every queue on the way is a sequence; read loop, write loop, worker-loop callbacks, handler and client are the actors. `scheduled` has what waits on each of two loops: the handler's own and one that may be published later; a frame is scheduled on the loop published when it comes. TCP and tungstenite's protocol states are external. |
| `MessagePipe` | the abstract specification of one direction of a WebSocket | what goes in is taken out in order, without gaps, each message delivered or refused (and lost), nothing after the end |
| `PathTemplate` | `match_path_template` | the loop over segments as a recursive function, a reference definition of what a template matches, and what it means that the loop is exact (`Exact`) |
| `Routing` | tables, decorators, `include_router`, the search, redirects, `snapshot_trivial_routes` | EXTENDS `PathTemplate`. One action per registering operation; a route is a record of what decides how it is found and run. |
| `Extraction` | `extract_one_param`, `cast_scalar`, `run_validators`, `extract_body_params`, `parse_form_body`, `_parse_multipart`, `_extract_simple` | Pure operators. A raw value is a record of what the conversions and validators make of it; a form is the list of its parts. |
| `RoutePlan` | `compile_route_plan` | EXTENDS `Extraction`: from the declaration of a parameter (type, default, marker in the metadata) to its plan entry. |
| `Preparation` | the middle of `_dispatch`, `resolve_dependencies`, `expand_route_level_dependencies` | EXTENDS `RoutePlan`. From a matched route to the call of the handler, for one declared program and one request. The recursion is a stack of frames. A nested plan is looked up when its entry is resolved; the frame keeps the `seen` set the compiler had there (`PlanFor`). A callable that cannot take its arguments (`Takes`) ends the resolution (`refused`). |
| `LifespanProtocol` | the abstract specification of the lifespan scope | what the server announces and what it is answered |
| `Application` | registration, the kept stack, `_lifespan`, `_handle_websocket`, `mount` and the choice between them in `__call__` | A step is what the event loop runs between two awaits. `conn` is what each connection was given and what it came to; `ExceptionHandler` is the turn of `ExceptionMiddleware` after a websocket handler raised. A lifespan task is `lost` if it ends before it has received a message. |
| `MC*` | instances for TLC | constants, and where an instance looks at the specification in scopes (`MCRouting`) the constraint on the next state. `MCRouting` also probes the matching with every template on every path (`MatchIsExact`). |
| `*_proofs` | theorems | each EXTENDS its module and TLAPS; `DispatchAsgi_proofs` EXTENDS `Dispatch_proofs`; `Routing_proofs` EXTENDS `MCRouting`; `AsyncCall_proofs` also holds the theorems about `WorkerLoop` |

`AsyncCall` composes with `WorkerLoop` (and is proved to implement it), `Routing` with
`PathTemplate`; `Dispatch` and `HttpExchange` meet at the dispatcher's outcomes: `Dispatch` shows
how a dispatch can end, `HttpExchange` takes any of these ends and shows what the client sees.
`Preparation` looks at one dispatch from inside, up to the call of the handler, which `Dispatch` sees as
a list of dependencies that open generators; `Application` shows which stack a connection goes through,
and `HttpExchange` what the two middlewares that are always in it do. `WebSocketBridge` implements
`MessagePipe` twice (once per direction) and `Application` implements `LifespanProtocol`; both
refinements are checked and proved.

Definitions named `X_Something` with a comment that begins with "Fault:" are what-if variants of the
definition `X` after them: a plausible bug, under which the property next to them in `PROJECT.json`
fails. They are not part of any specification.

## Runs

| Run | Question | Shows |
|---|---|---|
| `async_call` | Four coroutines from an event-loop thread and a native thread, neither of which has used the worker loop | no two copies of a coroutine (`OneFrame`), only the prefix up to the first await runs twice, and nothing after an await that found no loop (`OnlyPrefixRunsTwice`), callers get loops whose threads have begun and share them per lock, no coroutine sees its caller's loop, every call returns |
| `async_blocked` (violated) | An async handler under ASGI reads its request's body | the event-loop thread is blocked by the call, and what the handler waits for needs that thread |
| `async_no_loop` (violated) | A coroutine on a native thread awaits something that asks for the running loop, as `asyncio.sleep(1)` does | the call ends with a RuntimeError; the re-run on the worker loop that two comments promise does not come |
| `dispatch_asgi` | Three requests one after another, failing anywhere | generators are torn down after the handler, last opened first, with their own handler's exception, which reaches all of them; none outlives its request; the slots do not leak; every request is answered |
| `dispatch_native` | Two native threads on one set of globals, one request on a shadowed route | no generator is torn down twice, even so (`TornDownOnce`) |
| `dispatch_drain_order` (violated) | The same with the promise about *when* | a drain tears down dependencies of a request whose handler is still running |
| `http_exchange` | One request on every server and kind of route, the client leaving or the body breaking off | one response; a handler is called on the whole body, or in the native server on what stands for one that could not be read; tasks after the body, exceptions answered, an answer in the end |
| `websocket` | Two messages each way, either side closing at any time, the connection breaking, a second worker loop published at any time | the direction to the client implements `MessagePipe`, a server close loses nothing and ends both loops; until the second loop is published the direction to the handler implements `MessagePipe` too, and a waiting `receive_*` is unblocked unless its frame came from the other loop's thread |
| `websocket_loops` (violated) | The handler returns after the client closed | its `close()` sends nothing, so the write loop waits for ever |
| `routing` | Every table of up to three routes of four shapes, two methods and three templates; three routers included in one another and in the application, in every order; every template and path of up to four segments | later registrations take nothing away, the native map agrees with the dispatcher where one route only can answer (and no documentation page, and the application has no response class), every route has the dependencies of each router on its way, the segment loop accepts and captures exactly what it should |
| `preparation` | One request from its route to its handler: parameters of every type and style with missing, wrong and huge values, bodies and forms in every layout, every dependency graph a few signatures can make of three functions and a security scheme | cached dependencies are called once, arguments are values of what asks for them and nobody lacks one, a replacement included if it has the parameters of what it replaces; a 422 names every fault, the resolution ends |
| `application` | Registration at any moment beside the lifespan task and a connection | the stack is current, shutdown only after startup, "complete" means every function registered by then, the lifespan protocol is kept and every announcement answered unless the task is lost before its first message, sockets are closed, once but for the answer of an exception's handler |

Type invariants, the exclusiveness of the block under the lock and "Close is last" are in no run's list:
they are proved for every value of the constants.

### Bounds

* `async_call`: four calls on two threads. Two threads are what the race for the lock needs; the
  bodies contain every kind of step, and each thread makes two calls, so one of them comes to a loop
  that exists, or is being made. The theorems remove the bound on threads, calls and bodies.
* `dispatch_*`: three requests; one opens a sync, a sync and an async generator before a dependency
  that may fail (three generators are the least for an order to be wrong in the middle), one uses
  every slot, one is trivial and so does not touch them. Two threads for the native entry.
* `http_exchange`: two chunks (a client can leave in the middle), two tasks (an order), `Parts`
  bounds the parts of a streamed response. One exchange: exchanges share state only through the
  dispatcher.
* `websocket`: `MaxIn` and `MaxOut`, two messages each way, so that order, loss and duplication show; one
  worker loop besides the handler's own, since a frame either wakes the handler's loop or does not.
  `websocket_loops` has one message each way: its counterexample needs none.
* `routing`: `MaxRoutes` and `MaxSegments`. Three routes are an early, a middle and a late one. Four
  segments are a literal, a placeholder and a catch-all with something left over on either side. The
  tables are looked at in two scopes: `TableScope` (only the application's table fills, with routes of
  every shape) and `NestedScope` (two handlers, at most two routes in a table, three routers, so that a
  route passes through all of them, and through one of them twice).
* `preparation`: `MaxDepth`, six nested calls: three callables, each entered on the way to the others and
  once more where a cycle is cut, fit into it; a resolution that reached it would not end, and
  `ResolutionEnds` says that none does. Two parameters per handler show that one error does not hide
  another.
* `application`: `MaxRegistered`, three registrations besides exception handlers, and one connection; two
  events give an order, and a registration can come before, between and after two steps of the lifespan
  task. The theorems remove both bounds.

### Fairness

* `AsyncCall`: threads that can run are scheduled; `threading.Lock` does not starve a waiter for ever
  (strong fairness of the acquire: every holder releases in finite time and at most one holder per
  other thread comes before); loops run what is ready; timers and sockets fire (not the ASGI
  `receive`, which only the server's own loop can deliver); user code between two awaits ends.
* `Dispatch`: a waiting request gets a thread, a thread in the dispatcher gets the GIL again, user
  code ends.
* `HttpExchange`: the server's steps are taken; a client finishes its body or leaves, or its
  body breaks off.
* `WebSocketBridge`: tokio polls its tasks, each worker loop runs its callbacks and the handler's
  resumes it when it was woken for a frame, the client reads its socket and answers a Close (`ws.rs`
  has no timeout for one that does not, so `ServerCloseEndsLoops` rests on it). Nothing is assumed of
  when the handler or the client sends, closes or leaves.
* `Preparation`: the thread in the dispatcher is scheduled and the callables end.
* `Application`: the server's loop resumes the lifespan task and its functions end. Nothing is assumed of
  the server (it may never announce anything) or of connections.

## Proofs

TLAPS proves the following for every value of the constants; their names are in `PROJECT.json`.

* **AsyncCall_proofs**, the worker loop - for any set of threads: types, `ReturnedLoopIsReady`,
  `ExclusivePerLock`, `OneLoopPerLock`. The inductive invariant relates the program counter of each caller to the lock it
  evaluated, the holder of that lock and the life of its loop: a thread in the block holds its lock
  object; a loop that exists is published unless its creator is still in the block; so the second
  caller under one lock finds `_WORKER_LOOP` set. It does not say that there is one lock, because
  there need not be.
* **AsyncCall_proofs**, the calls - every step of `AsyncCall` is a step or a stutter of `WorkerLoop`
  (`UsesWorkerLoop`, a refinement with the identity as mapping), so that the theorems above carry over
  (`CallsGetReadyLoops`, `CallsShareLoops`). Three invariants on top of each other give the rest:
  queues and turns hold only calls that were submitted to that loop (`AskedLoopIsWorkers`); a queue or a
  turn has a call at most once, and only one that is queued, while the frames of a call fit its stage
  (`OneFrame`); and the counters of the steps at each stage (`RunsFit`): the first run counted what it
  began once, all of it code but for the await it ended at, and the second adds one to what it begins;
  a call that ends with "no loop" has had the first run only (`OnlyPrefixRunsTwice`). The last needs that the first await and the last step exist, which is the
  well-foundedness of the natural numbers.
* **Dispatch_proofs** - types, and `TornDownOnce` for any requests, plans, threads and both entries.
  The invariant: a generator that is in some list or about to be appended is open, is in one place of
  one list only, and one that is being advanced is in none. `Advance` alone changes a generator that
  is not open, and `PopGenerator` takes out of the list what it advances in the same step, so a second
  advance has nothing to take.
* **DispatchAsgi_proofs** - the other six invariants of `dispatch_asgi`, for any requests, plans and
  classes of routes, behind the ASGI entry (`Entry = "asgi"`). One request is active at a time, so
  the list the global names is its own; that list is sorted and holds every open generator, so a drain
  finds all of them, last opened first (`LastOpenedFirstClosed`, `ReleasedWhenDone`,
  `TeardownAfterHandler`); the drain after the handler comes before any drain of leftovers
  (`ExceptionIsOwn`, `FailureReachesEveryDependency`); and the slots are reset before they are read
  (`SlotsAreOwn`). None of them holds on the native entry: `dispatch_drain_order` shows one.
* **HttpExchange_proofs** - for any number of chunks, parts and tasks: types, `OneResponse` (before
  the start nothing is on the wire, after it everything comes from the present sender, and an end is
  put there only by a step that leaves the stages that send), `TasksAfterBody` (no task is begun and
  nothing has failed up to the stage that runs them; whatever leads elsewhere has no tasks or a
  failure to show), `BodyIsWhole` (chunks are received in order, and the dispatcher is entered with
  all of them, or natively after a read that failed) and `ExceptionsAreAnswered` (what is on its way up
  has a handler or a 500 that answers it, the sender does not change after the start, and a client that
  was gone with nothing on the wire never gets anything).
* **Routing_proofs** - for every table: types, `FirstRegisteredWins` (a step only appends, and the
  search takes the least index among the routes that serve the request, which appending cannot
  change), `ShortcutAgrees` (where one route only can answer, the last insertion into the map
  is the first match of the search), `GuardsInherited` (a route has the dependencies of its chain in
  every table, which an inclusion keeps because it puts a router in front of the chain and the router's dependencies in front of the route's;
  that the dependencies of a chain are defined by its head and its tail is proved for chains of every
  length first), and `MatchIsExact`: `match_path_template` accepts a path if and only if it corresponds
  to the template, and what it captures spells the path, for any literals and any number of segments
  (`AlwaysExact`). Both the loop and the path written out are recursive functions that look towards the
  end, so the proof goes down from there: from a segment on, the loop succeeds if and only if the rest
  corresponds, and what is written out from it is the rest of the path.
* **WebSocketBridge_proofs** - for any number of messages: types, Close is last, and the two directions.
  The invariant (`PipesInv`) says that the frames of a direction, queue after queue from the reader's
  end to the writer's, are consecutive numbers that continue what has arrived, with nothing behind an
  end; a client that saw a Close it did not ask for has therefore got everything
  (`ServerCloseLosesNothing`). For the direction to the client, and for how the client's end shows
  (`EndInv`), it says so whichever worker loops there are; for the messages to the handler only until a
  second loop is published (`OneLoop`), and so does `InboundPipe`.
* **Application_proofs** - for any registrations in any number: types, `StackIsCurrent`,
  `StopsOnlyWhatStarted`, `CompleteMeansAll` (the step that answers is enabled only when every function
  of the list has run, and the next function to run is looked up in the list as it is then) and the
  refinement of `LifespanProtocol`, from one invariant that relates the stage of the lifespan task to
  what was announced, answered and run (`Conversation`); and `SocketsAreClosed`, from an invariant on one
  connection's record: nobody has closed one that was not given to a handler, and behind a close there
  is at most what a handler of the exception sent.
* **Preparation_proofs** - the four invariants of `Preparation`, for any callables, declarations,
  overrides and requests, and any depth. Four invariants on top of each other:
  * `ValuesInv` (`ValuesAreTheirs`): the arguments a frame has collected belong to entries of its plan,
    what the cache and the calls hold belongs to what was called (a
    replacement counts where its signature is the original's), and the frame above is of the entry
    its caller has come to. The entries themselves are `compile_route_plan`'s (`PlanOfSignature`).
  * `OnceInv` (`CachedOnce`): whoever uses the cache and is on the stack has no value in the cache, and
    a cached call has one. The step that enters a dependency keeps it because `Layered` gives ranks that
    fall along the stack, so that what is entered is not on it already.
  * `FaultsInv` (`EveryFaultReported`): the list of errors is exactly that of the parameters, each about
    the parameter it comes from; `extract_one_param` is shown to give an error where and only where
    `AtFault` says so (`OneFault`), over every source, type and validator.
  * `FilledInv` (`NobodyLacksAnArgument`): a frame is past an entry only with an argument for it or
    where none is needed (`Passed`); where nothing comes round no nested plan is cut, because what is
    `seen` is on the stack; what the extraction leaves out has a default or is one of the cases the
    property names; and a parameter that needs an argument has an entry in the plan (`NeededEntry`,
    `NeededPlanned`).

Assumptions are the named `ASSUME`s of the modules: `None` differs from the values it stands beside,
constants have their types, `SegmentsAssumption` (the bound of the paths probed is a number),
`ScenariosAssumption` (signatures, values and form parts are sequences, what
depends on something depends on one of `Callables`, overrides are total, and the path that was matched
has a value for each placeholder of the route), and `EventLoopAssumption`: under ASGI one thread enters the dispatcher,
which is so because `_dispatch_async` contains no `await`. TLC evaluates all of them in the runs.

`Filter` is `SelectSeq` written as a recursive function: `SelectSeq` takes an operator and is recursive
in the library, which no proof can unfold. What it keeps is shown by induction over the indices, once for
any set of indices (`PicksHold`), and applied to each test the model filters by.

Only model-checked:

* everything under fairness (`CallsReturn`, `EveryRequestLeaves`, `Answered`, `ReceiveUnblocks`,
  `ServerCloseEndsLoops`, `ResolutionEnds`, `LifespanAnswered`): liveness and ENABLED are out of the
  prover's reach.

## Divergences met while modelling

Four are shown by runs (see "findings" in `PROJECT.json`): dependencies torn down under another
request's running handler with two native threads; the write loop of a WebSocket that never ends
after a client close; an async handler that waits for its own ASGI server; and a coroutine whose first
await asks for a running loop, which ends with a RuntimeError on a native thread instead of being run
again (`server.rs:460` and `_routing.py:137` promise the re-run). The models contain the following as
well, because the code does it, or leave it out where that is said; no run is devoted to them:

* `_WORKER_LOOP_LOCK` is itself created without a lock (`_routing.py:60`): two first callers can hold
  different lock objects and start two worker loops. `OneLoopPerLock` says what still holds.
* When `_dispatch` raises, the `finally` of `_dispatch_async` drains without the exception
  (`applications.py:472`): dependencies opened before one that failed are resumed as after a success.
* A synchronous teardown that raises ends a drain that carries no exception (`_routing.py:219`); the
  rest is closed by the reset that follows.
* The native snapshot of trivial routes lets a later route replace an earlier one and knows nothing of
  template routes registered before, of documentation pages or of the application's
  `default_response_class` (`server.rs:378`, `:412`), although it is for "routes that the trivial
  dispatch fast path inside `_dispatch` will match" (`server.rs:340`). `ShortcutAgrees` therefore asks
  for all three.
* `is_trivial_route` is not "conservative" (`app.rs:1977`) in the same ways (`app.rs:1978`-`2001`), so
  that `_dispatch_native` may skip the reset of `_bg` for a route with dependencies (the `"shadowed"`
  class of `Dispatch`).
* The Location of a redirect is the other path as it is (`app.rs:1434`). For `//b/` it is `//b`, which a
  client reads as the host b; for `//` it is empty, which is the same URL again. `Dispatched` says which
  path is put there, not what a client makes of it.
* The native server has no `ExceptionMiddleware`: registered exception handlers never run there, and the
  answer is a 500 (`server.rs:633`), although README.md:246 of the repository says "exception handlers
  all run".
* In the native server a streaming response is sent as an empty 200, and `BackgroundTasks` never run.
* A streaming response's own `background` replaces the injected `BackgroundTasks`
  (`applications.py:379`), and a plain `Response`'s own is dropped.
* A body that cannot be read to its end - the client left, but also a malformed chunk or a reset of one
  stream while the client is still there - is dispatched as an empty body over HTTP/1 and HTTP/2
  (`server.rs:627`) and as the part received over HTTP/3 (`server.rs:266`); `BodyIsWhole` states exactly
  this.
* An HTTP/3 response whose headers do not encode is dropped without an answer (`server.rs:305`).
* `router.include_router(router)` locks the same mutex twice and never returns (`app.rs:2398`); it is
  excluded in `IncludeInRouter`.

WebSockets:

* `_native_push_frame` looks the worker loop up for every frame (`_ws.py:170`), though it is to schedule
  "on the queue's owning event loop" (`_ws.py:168`). If two first callers have raced and a second loop was
  published after the handler had started, the frame is put into the queue on the other loop's thread:
  the waiting `get()` is completed, but nothing wakes the handler's loop (`unnoticed`), and frames on the
  two loops have no order. `InboundPipe` and `ReceiveUnblocks` say what holds until then.
* `receive_text`, `receive_bytes` and `receive_json` take a frame from the queue before they look at its
  kind (`_ws.py:83`-`93`): what they refuse with a RuntimeError is lost. `MessagePipe` has such a message
  taken and not delivered.

Applications:

* The native server knows nothing of mounts. Under ASGI a websocket is never forwarded to one, a mounted
  application gets no lifespan, and `mount("/")` serves only `/` itself.
* Under ASGI a websocket handler's exception goes on to `ExceptionMiddleware` after the close with 1011
  (`applications.py:429`, `:192`). If that has a handler for it - its own for `WebSocketException` and
  `HTTPException`, or a registered one - its close or response comes behind the close, so the code it
  asks for never counts. `SocketsAreClosed` allows for that one message.
* The user's lifespan function is called, and the first message received, outside of the `try` that
  answers (`applications.py:235`, `:254`): a function that raises at the call, or a cancellation at the
  first `receive()`, ends the task without `lifespan.startup.failed`. `LifespanAnswered` excepts that
  (`lifespan = "lost"`).
* Exception handlers for status codes are ignored (`applications.py:130`), and so are `on_event`
  functions when `lifespan=` is given.

Plans and extraction:

* `required = not (has_default or optional)` (`_routing.py:1131`): an absent Optional parameter without a
  Python default is left to "the handler's own default" (`app.rs:3309`), which it has not: the call is a
  TypeError. `NobodyLacksAnArgument` leaves it out, with `bytes` without a marker, which is skipped.
* The default of a marker is read from an attribute that the keyword form `Query(default=5)` does not
  set (`params.rs`), so that the parameter is required although `params.rs:7` has `Query(default=None)`
  still work; an absent `q = Query(5)` leaves the marker itself as the argument.
* `Path(ge=1)` as the default of a placeholder loses its validators (`_routing.py:1086`); a placeholder
  that comes from a router's prefix only is taken from the query.
* `list[bool]` and `list[UUID]` become `list[str]`. With two `Depends` markers the default's `use_cache`
  wins although the comment (`_routing.py:1192`) prefers the Annotated one.
* For the parameters of dependencies the replica skips the validators, takes `bool("maybe")` as true and
  integers of any size; it never gives a dependency the Request, BackgroundTasks or a body, nor a path
  placeholder; a handler's own SecurityScopes are never supplied.
* A form parameter of a route-level dependency is never parsed (`app.rs:1609`); form errors have the
  location "query"; a wrong content type can report `json_invalid` twice; an exception other than a
  ValidationError in a model is swallowed and the handler called without the body; a multipart body
  without its closing boundary loses its last field.
* The cache of dependencies is keyed by the replacement and ignores scopes; overrides and cycles can make a cached dependency be called twice
  (`Layered` in `CachedOnce`).
* A replacement is called with the arguments that the plan of the *original* asked for
  (`_routing.py:493`): with other parameters it gets a TypeError or a value meant for the original. A
  security scheme replaced by a plain function fails at `_routing.py:484`, and a function replaced by a
  scheme object cannot be called. `Preparation` does this (`Takes`, the phase `refused`);
  `ValuesAreTheirs` and `NobodyLacksAnArgument` therefore speak of replacements with the parameters of what
  they replace (`Alike`).

## Not modelled, and why

* Formatting and parsing of JSON, headers and URLs, the OpenAPI document and the documentation pages:
  data without control. That the pages are answered before the routes is in `Routing` and
  `HttpExchange`.
* Rendering of results (response models, `response_class`): that and when it happens, and that it may
  fail, is in `Dispatch` and `HttpExchange`; what text comes out is data.
* TLS, ALPN, accept loops, the WebSocket upgrade, QUIC and HTTP framing: I/O of rustls, hyper,
  tungstenite, quinn and h3.
* User middleware: it may do anything with a request; only the two middlewares that are always there
  are modelled, and which of the user's are in the stack.
* Security classes: stateless dependencies that read one value of the request; `Preparation` has them as
  schemes that return or raise.
* Reading signatures and type hints: Python's; `RoutePlan` begins with what they say.
* `ws-bench`, `fr-json`, `json_fast.rs`: a benchmark client, a CPU probe and JSON text.

## Plan

Order: what several actors share first, what is data last.

1. *(done)* `WorkerLoop`, `AsyncCall`, `Dispatch`, `WebSocketBridge`, `PathTemplate`, `Routing`,
   `HttpExchange`, their runs and theorems.
2. *(done)* `LifespanProtocol`, `Application`: the application's state, its lifespan task and its
   connections, with the refinement.
3. *(done)* `Extraction`, `RoutePlan`, `Preparation`: plans, extraction and the resolution of dependencies.
4. *(done)* Proofs of the ASGI dispatcher, of both pipes of a WebSocket, of the coroutine objects and
   their reruns, of the exceptions and the connections.
5. *(done)* Proofs of the resolution: whose values, once, every fault, nobody lacks an argument; proof of
   the guards of nested routers; proof that the matching of paths is exact.
6. *(left)* A refinement from `Preparation` to the flattened plans of `Dispatch`, so that the generators
   of nested dependencies are opened in the order the resolution calls them; several connections that
   register while others are served.
