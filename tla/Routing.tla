------------------------------- MODULE Routing ------------------------------
(***************************************************************************)
(* The route tables of crates/fr-pyiface/src/app.rs and the two ways they  *)
(* are searched: by _dispatch, and through the map of trivial routes that  *)
(* server.rs takes when the native server starts.                          *)
(*                                                                         *)
(* The application and every APIRouter own a table.  A decorator appends   *)
(* to its owner's table; include_router appends a copy of another table    *)
(* as it is at that moment.  A route keeps what decides how it is found    *)
(* and run; `own` and `via` are history: the dependencies its decorator    *)
(* kept, and the routers it came through, outermost first.                 *)
(***************************************************************************)
EXTENDS Naturals, Sequences, SequencesExt, PathTemplate

CONSTANTS
    App,           \* the application, as the owner of a table
    Routers,       \* the APIRouter objects
    None,          \* no response class
    Methods,       \* HTTP methods of routes and requests
    Templates,     \* path templates given to decorators
    IncludePrefixes,      \* prefixes given to include_router
    Paths,         \* paths requests ask for
    Shapes,        \* plan, response class and dependencies given to decorators
    Classes,       \* response classes
    RouterPrefix,  \* each router's prefix
    RouterDeps,    \* each router's dependencies
    RouterClass,   \* each router's default_response_class
    AppDeps,       \* the application's dependencies
    AppClass,      \* the application's default_response_class
    DocsPaths,     \* openapi_url, docs_url, redoc_url
    MaxRoutes      \* bound: longest table

Owners == {App} \cup Routers

Shape == [plan : BOOLEAN, class : Classes \cup {None}, deps : Seq(STRING)]

ASSUME ConstantsAssumption ==
    /\ App \notin Routers
    /\ None \notin Classes
    /\ MaxRoutes \in Nat
    /\ Templates \subseteq Seq(STRING)
    /\ IncludePrefixes \subseteq Seq(STRING)
    /\ Shapes \subseteq Shape
    /\ RouterPrefix \in [Routers -> Seq(STRING)]
    /\ RouterDeps \in [Routers -> Seq(STRING)]
    /\ RouterClass \in [Routers -> Classes \cup {None}]
    /\ AppClass \in Classes \cup {None}

VARIABLES
    tables,     \* the routes of each owner, in the order they were added
    handlers,   \* handlers registered so far; a handler is its number
    serving,    \* run_native has started
    shortcut    \* PyAppHandle.trivial_routes: a handler for each request, or 0

vars == <<tables, handlers, serving, shortcut>>

Requests == Methods \X Paths

Init ==
    /\ tables = [o \in Owners |-> <<>>]
    /\ handlers = 0
    /\ serving = FALSE
    /\ shortcut = [q \in Requests |-> 0]

-----------------------------------------------------------------------------
(* Reading a table *)

First(indices) ==
    IF indices = {} THEN 0 ELSE CHOOSE i \in indices : \A j \in indices : i <= j

\* Routes that serve the method and match the path.
Serving(table, method, path) ==
    {i \in DOMAIN table :
        table[i].method = method /\ match_path_template(table[i].path, path).ok}

\* Fault: the search does not stop at the first match.
FindRoute_Last(table, method, path) ==
    LET own == Serving(table, method, path)
        get == Serving(table, "GET", path)
        LastOf(indices) ==
            IF indices = {} THEN 0 ELSE CHOOSE i \in indices : \A j \in indices : j <= i
    IN  IF own # {} THEN LastOf(own)
        ELSE IF method = "HEAD" THEN LastOf(get) ELSE 0

\* The two passes of _dispatch: the exact method first, then GET for a HEAD.
FindRoute(table, method, path) ==
    LET own == Serving(table, method, path)
        get == Serving(table, "GET", path)
    IN  IF own # {} THEN First(own)
        ELSE IF method = "HEAD" THEN First(get) ELSE 0

\* trim_end_matches('/')
WithoutSlashes(path) ==
    SubSeq(path, 1, CHOOSE n \in 0..Len(path) :
                        /\ n > 0 => path[n] # ""
                        /\ \A i \in n + 1..Len(path) : path[i] = "")

\* The path redirect_slashes tries.
Alternate(path) == IF Last(path) = "" THEN WithoutSlashes(path) ELSE Append(path, "")

\* What the map asks of a route.
IsBare(route) == ~route.plan /\ route.deps = <<>> /\ route.class = None

\* What the fast path of _dispatch asks.
TakesFastPath(route, path) ==
    /\ ~route.plan
    /\ route.deps = <<>>
    /\ AppDeps = <<>>
    /\ route.class = None /\ AppClass = None
    /\ match_path_template(route.path, path).params = <<>>

Reply(kind, handler, fast, to) ==
    [kind |-> kind, handler |-> handler, fast |-> fast, to |-> to]

Redirects(table, method, path) ==
    /\ path # <<"">>
    /\ Serving(table, method, Alternate(path)) # {}

\* What _dispatch does with a request: its handler, or 307, 405, 404.
Dispatched(table, method, path) ==
    LET i == FindRoute(table, method, path) IN
    IF path \in DocsPaths /\ method \in {"GET", "HEAD"}
    THEN Reply("docs", 0, FALSE, <<>>)
    ELSE IF i # 0
    THEN Reply("handler", table[i].handler, TakesFastPath(table[i], path), <<>>)
    ELSE IF Redirects(table, method, path)
    THEN Reply("redirect", 0, FALSE, Alternate(path))
    ELSE IF \E m \in Methods : Serving(table, m, path) # {}
    THEN Reply("not_allowed", 0, FALSE, <<>>)
    ELSE Reply("not_found", 0, FALSE, <<>>)

\* Fault: a route with dependencies counts as trivial.
Inserts_Guarded(route, method, path) ==
    /\ ~HasPlaceholder(route.path)
    /\ ~route.plan /\ route.class = None
    /\ route.path = path
    /\ route.method = method \/ (route.method = "GET" /\ method = "HEAD")

\* The entries one route inserts; a GET route inserts its HEAD as well.
Inserts(route, method, path) ==
    /\ ~HasPlaceholder(route.path)
    /\ IsBare(route)
    /\ route.path = path
    /\ route.method = method \/ (route.method = "GET" /\ method = "HEAD")

\* A later insertion replaces an earlier one.
snapshot_trivial_routes(table) ==
    [q \in Requests |->
        LET from == {i \in DOMAIN table : Inserts(table[i], q[1], q[2])} IN
        IF AppDeps # <<>> \/ from = {} THEN 0
        ELSE table[CHOOSE i \in from : \A j \in from : j <= i].handler]

-----------------------------------------------------------------------------
(* Filling the tables *)

NewRoute(method, path, shape) ==
    [method |-> method, path |-> path, handler |-> handlers + 1, plan |-> shape.plan,
     class |-> shape.class, deps |-> shape.deps, own |-> shape.deps, via |-> <<>>]

Room(owner, n) == Len(tables[owner]) + n <= MaxRoutes

AddRoutes(owner, routes) == tables' = [tables EXCEPT ![owner] = @ \o routes]

Decorate(owner, method, path, shape) ==
    /\ ~serving
    /\ Room(owner, 1)
    /\ AddRoutes(owner, <<NewRoute(method, path, shape)>>)
    /\ handlers' = handlers + 1
    /\ UNCHANGED <<serving, shortcut>>

\* @app.get(path) and its siblings.
DecorateApp(method, path, shape) == Decorate(App, method, path, shape)

\* @router.get(path) and its siblings; the router's own prefix is added when it is included.
DecorateRouter(router, method, path, shape) == Decorate(router, method, path, shape)

\* One route per method, without the dependencies that were asked for.
OnePerMethod(methods, path, shape) ==
    [i \in 1..Len(methods) |-> NewRoute(methods[i], path, [shape EXCEPT !.deps = <<>>])]

\* add_api_route
AddApiRoute(methods, path, shape) ==
    /\ ~serving
    /\ Room(App, Len(methods))
    /\ AddRoutes(App, OnePerMethod(methods, path, shape))
    /\ handlers' = handlers + 1
    /\ UNCHANGED <<serving, shortcut>>

\* @app.api_route drops the response class as well.
ApiRoute(methods, path, shape) == AddApiRoute(methods, path, [shape EXCEPT !.class = None])

ClassOr(class, default) == IF class # None THEN class ELSE default

\* Fault: the router's own dependencies are forgotten.
Included_NoDeps(router, route, prefix, class) ==
    [route EXCEPT !.path = prefix \o RouterPrefix[router] \o @,
                  !.class = ClassOr(@, class),
                  !.via = <<router>> \o @]

\* A route as include_router copies it: "parent first" for the dependencies.
Included(router, route, prefix, class) ==
    [route EXCEPT !.path = prefix \o RouterPrefix[router] \o @,
                  !.class = ClassOr(@, class),
                  !.deps = RouterDeps[router] \o @,
                  !.via = <<router>> \o @]

Copies(router, prefix, class) ==
    [i \in DOMAIN tables[router] |-> Included(router, tables[router][i], prefix, class)]

\* FastAPI.include_router: the keyword's response class, else the router's.
IncludeInApp(router, prefix, class) ==
    /\ ~serving
    /\ Room(App, Len(tables[router]))
    /\ AddRoutes(App, Copies(router, prefix, ClassOr(class, RouterClass[router])))
    /\ UNCHANGED <<handlers, serving, shortcut>>

\* APIRouter.include_router: no response class is inherited.  Including a router in
\* itself locks its table twice and never returns.
IncludeInRouter(outer, inner, prefix) ==
    /\ ~serving
    /\ outer # inner
    /\ Room(outer, Len(tables[inner]))
    /\ AddRoutes(outer, Copies(inner, prefix, None))
    /\ UNCHANGED <<handlers, serving, shortcut>>

\* run_native: "Run-time changes to the route table are unsupported".
Start ==
    /\ ~serving
    /\ serving' = TRUE
    /\ shortcut' = snapshot_trivial_routes(tables[App])
    /\ UNCHANGED <<tables, handlers>>

Next ==
    \/ \E m \in Methods, p \in Templates, s \in Shapes :
          DecorateApp(m, p, s) \/ \E r \in Routers : DecorateRouter(r, m, p, s)
    \/ \E m, n \in Methods, p \in Templates, s \in Shapes :
          AddApiRoute(<<m>>, p, s) \/ (m # n /\ AddApiRoute(<<m, n>>, p, s))
    \/ \E m \in Methods, p \in Templates, s \in Shapes : ApiRoute(<<m>>, p, s)
    \/ \E r \in Routers, x \in IncludePrefixes, c \in Classes \cup {None} : IncludeInApp(r, x, c)
    \/ \E o, r \in Routers, x \in IncludePrefixes : IncludeInRouter(o, r, x)
    \/ Start

Spec == Init /\ [][Next]_vars

-----------------------------------------------------------------------------

Route ==
    [method : Methods, path : Seq(STRING), handler : Nat, plan : BOOLEAN,
     class : Classes \cup {None}, deps : Seq(STRING), own : Seq(STRING), via : Seq(Routers)]

\* Shape of the tables.
TypeOK ==
    /\ tables \in [Owners -> Seq(Route)]
    /\ handlers \in Nat
    /\ serving \in BOOLEAN
    /\ shortcut \in [Requests -> Nat]

KeepsHandlers ==
    \A m \in Methods, p \in Paths :
        Serving(tables[App], m, p) # {} =>
            Dispatched(tables'[App], m, p) = Dispatched(tables[App], m, p)

(***************************************************************************)
(* "FastAPI uses first-match semantics" (tests/conformance/test_router.py, *)
(* two routers with the same path): a request that has a route of its own  *)
(* method keeps its handler whatever is registered or included later.      *)
(***************************************************************************)
FirstRegisteredWins == [][KeepsHandlers]_vars

ChainOf[via \in Seq(Routers)] ==
    IF via = <<>> THEN <<>> ELSE RouterDeps[Head(via)] \o ChainOf[Tail(via)]

(***************************************************************************)
(* "Router-level deps run BEFORE the route's own - parent first" (app.rs): *)
(* a route that came through routers has the dependencies of each of them, *)
(* outermost first, and then its own, however deep it was nested and       *)
(* whenever the routers were filled.                                       *)
(***************************************************************************)
GuardsInherited ==
    \A o \in Owners : \A i \in DOMAIN tables[o] :
        tables[o][i].deps = ChainOf[tables[o][i].via] \o tables[o][i].own

\* One route only could answer the request.
Unambiguous(table, method, path) ==
    \A i, j \in Serving(table, method, path)
                  \cup IF method = "HEAD" THEN Serving(table, "GET", path) ELSE {} : i = j

(***************************************************************************)
(* "handler shortcut for routes that the trivial dispatch fast path inside *)
(* `_dispatch` will match" (server.rs): an entry of the native server's    *)
(* map stands for what _dispatch would do, the same handler on the fast    *)
(* path. It holds where the application sets no response class, no         *)
(* documentation page has the path, and one route only could answer the    *)
(* request; the map knows nothing of the order of the routes, of the       *)
(* documentation pages or of default_response_class, so it fails without   *)
(* each of these conditions.                                               *)
(***************************************************************************)
ShortcutAgrees ==
    serving /\ AppClass = None =>
        \A m \in Methods, p \in Paths \ DocsPaths :
            shortcut[<<m, p>>] # 0 /\ Unambiguous(tables[App], m, p) =>
                Dispatched(tables[App], m, p) =
                    Reply("handler", shortcut[<<m, p>>], TRUE, <<>>)
=============================================================================
