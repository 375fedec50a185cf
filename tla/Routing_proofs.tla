--------------------------- MODULE Routing_proofs ---------------------------
(***************************************************************************)
(* Proofs about Routing, for every set of routes, paths, routers and       *)
(* prefixes: the tables keep their shape, the first registered route wins, *)
(* the native server's map agrees with _dispatch if the application has no *)
(* response class, for a path that is no documentation page and one route  *)
(* only could answer, a route has the guards of every router on its way,   *)
(* and match_path_template accepts and captures exactly what it should     *)
(* (MatchIsExact, a property of MCRouting, which probes the templates).    *)
(***************************************************************************)
EXTENDS MCRouting, WellFoundedInduction, TLAPS

-----------------------------------------------------------------------------
(* Operators *)

\* First is the least element of a set of indices.
LEMMA FirstIsLeast ==
    ASSUME NEW I \in SUBSET Nat, I # {}
    PROVE  First(I) \in I /\ \A j \in I : First(I) <= j
<1> DEFINE Less == {s \in Nat \X Nat : s[1] < s[2]}
<1>1. IsWellFoundedOn(Less, Nat)
  BY NatLessThanWellFounded DEF OpToRel
<1>2. PICK i \in I : \A j \in I : <<j, i>> \notin Less
  <2> HIDE DEF Less
  <2> QED
    BY <1>1, WFMin
<1>3. ASSUME NEW j \in I PROVE i <= j
  <2>1. <<j, i>> \in Nat \X Nat /\ <<j, i>>[1] = j /\ <<j, i>>[2] = i
    OBVIOUS
  <2>2. ~(j < i)
    BY <1>2, <2>1
  <2> QED
    BY <2>2
<1> QED
  BY <1>3 DEF First

\* A set of indices into a table has a greatest element.
LEMMA GreatestIndex ==
    ASSUME NEW n \in Nat, NEW I \in SUBSET (1..n), I # {}
    PROVE  \E i \in I : \A j \in I : j <= i
<1> DEFINE Mirror == {n - i : i \in I}
<1>1. Mirror \in SUBSET Nat /\ Mirror # {}
  <2>1. \A i \in I : n - i \in Nat
    OBVIOUS
  <2> QED
    BY <2>1
<1>2. First(Mirror) \in Mirror /\ \A k \in Mirror : First(Mirror) <= k
  <2> HIDE DEF Mirror
  <2> QED
    BY <1>1, FirstIsLeast
<1>3. PICK i \in I : First(Mirror) = n - i
  BY <1>2
<1>4. ASSUME NEW j \in I PROVE j <= i
  <2>1. n - j \in Mirror
    OBVIOUS
  <2>2. n - i <= n - j
    BY <1>2, <1>3, <2>1
  <2> QED
    BY <2>2
<1> QED
  BY <1>4

\* A template without placeholders matches the path it spells, and captures nothing.
LEMMA StaticMatch ==
    ASSUME NEW t, ~HasPlaceholder(t)
    PROVE  match_path_template(t, t) = Matched(<<>>)
BY DEF match_path_template

\* Indices into a table are positive numbers.
LEMMA ServingIndices ==
    ASSUME NEW table \in Seq(Route), NEW m, NEW p
    PROVE  Serving(table, m, p) \subseteq 1..Len(table)
BY DEF Serving

\* Appending routes leaves the ones a request already had in front.
LEMMA ServingAppended ==
    ASSUME NEW table \in Seq(Route), NEW more \in Seq(Route), NEW m, NEW p
    PROVE  /\ Serving(table, m, p) \subseteq Serving(table \o more, m, p)
           /\ \A i \in Serving(table \o more, m, p) :
                 i \in Serving(table, m, p) \/ i > Len(table)
<1>1. \A i \in 1..Len(table) : (table \o more)[i] = table[i]
  OBVIOUS
<1>2. Len(table \o more) = Len(table) + Len(more) /\ Len(more) \in Nat /\ Len(table) \in Nat
  OBVIOUS
<1>3. table \o more \in Seq(Route)
  OBVIOUS
<1>4. DOMAIN table = 1..Len(table) /\ DOMAIN (table \o more) = 1..Len(table \o more)
  BY <1>3
<1> QED
  BY <1>1, <1>2, <1>4 DEF Serving

\* So the search finds the same route for a method that had one.
LEMMA FirstAppended ==
    ASSUME NEW table \in Seq(Route), NEW more \in Seq(Route), NEW m, NEW p,
           Serving(table, m, p) # {}
    PROVE  /\ First(Serving(table \o more, m, p)) = First(Serving(table, m, p))
           /\ First(Serving(table, m, p)) \in 1..Len(table)
<1> DEFINE I == Serving(table, m, p)
           J == Serving(table \o more, m, p)
<1>1. I \subseteq J /\ \A j \in J : j \in I \/ j > Len(table)
  BY ServingAppended
<1>2. I \subseteq 1..Len(table) /\ Len(table) \in Nat
  BY ServingIndices
<1>3. J \subseteq Nat
  <2>1. table \o more \in Seq(Route)
    OBVIOUS
  <2>2. J \subseteq 1..Len(table \o more)
    BY <2>1, ServingIndices
  <2> QED
    BY <2>2
<1>4. First(I) \in I /\ \A j \in I : First(I) <= j
  BY <1>2, FirstIsLeast
<1>5. J # {}
  BY <1>1, <1>4
<1>6. First(J) \in J /\ \A j \in J : First(J) <= j
  BY <1>3, <1>5, FirstIsLeast
<1>7. First(I) \in 1..Len(table) /\ First(I) \in J /\ First(J) <= First(I)
  BY <1>1, <1>2, <1>4, <1>6
<1>8. First(J) \in I
  BY <1>1, <1>2, <1>3, <1>6, <1>7
<1>9. First(I) <= First(J) /\ First(J) \in Nat
  BY <1>3, <1>4, <1>6, <1>8
<1> QED
  BY <1>7, <1>9

-----------------------------------------------------------------------------
(* Shape of the tables *)

\* What a decorator adds is a route.
LEMMA NewRouteType ==
    ASSUME handlers \in Nat, NEW m \in Methods, NEW p \in Templates, NEW s \in Shape
    PROVE  NewRoute(m, p, s) \in Route
<1>1. p \in Seq(STRING) /\ s.plan \in BOOLEAN /\ s.class \in Classes \cup {None}
      /\ s.deps \in Seq(STRING)
  BY ConstantsAssumption DEF Shape
<1>2. handlers + 1 \in Nat /\ <<>> \in Seq(Routers)
  OBVIOUS
<1> QED
  BY <1>1, <1>2 DEF NewRoute, Route

\* What include_router adds is a sequence of routes.
LEMMA CopiesType ==
    ASSUME tables \in [Owners -> Seq(Route)], NEW r \in Routers,
           NEW x \in IncludePrefixes, NEW c \in Classes \cup {None}
    PROVE  Copies(r, x, c) \in Seq(Route)
<1>1. tables[r] \in Seq(Route)
  BY DEF Owners
<1>2. ASSUME NEW route \in Route PROVE Included(r, route, x, c) \in Route
  <2>1. x \in Seq(STRING) /\ RouterPrefix[r] \in Seq(STRING) /\ RouterDeps[r] \in Seq(STRING)
    BY ConstantsAssumption
  <2>2. route.path \in Seq(STRING) /\ route.deps \in Seq(STRING) /\ route.via \in Seq(Routers)
        /\ route.class \in Classes \cup {None}
    BY DEF Route
  <2>3. x \o RouterPrefix[r] \o route.path \in Seq(STRING)
    BY <2>1, <2>2
  <2>4. RouterDeps[r] \o route.deps \in Seq(STRING) /\ <<r>> \o route.via \in Seq(Routers)
    BY <2>1, <2>2
  <2>5. ClassOr(route.class, c) \in Classes \cup {None}
    BY <2>2 DEF ClassOr
  <2> QED
    BY <2>3, <2>4, <2>5 DEF Included, Route
<1>3. DOMAIN tables[r] = 1..Len(tables[r]) /\ Len(tables[r]) \in Nat
  BY <1>1
<1>4. \A i \in 1..Len(tables[r]) : Included(r, tables[r][i], x, c) \in Route
  BY <1>1, <1>2
<1> QED
  BY <1>3, <1>4 DEF Copies

\* A new route has its own dependencies only; a copy those of the router and the copied route's.
Decorated(route) == route.via = <<>> /\ route.deps = route.own

Copied(route) ==
    \E r \in Routers : \E i \in DOMAIN tables[r] :
        LET original == tables[r][i] IN
        /\ route.via = <<r>> \o original.via
        /\ route.deps = RouterDeps[r] \o original.deps
        /\ route.own = original.own

Appends(owner, more) ==
    /\ ~serving /\ AddRoutes(owner, more)
    /\ \A i \in DOMAIN more : Decorated(more[i]) \/ Copied(more[i])

\* What include_router adds it copied.
LEMMA CopiesAreCopied ==
    ASSUME tables \in [Owners -> Seq(Route)], NEW r \in Routers, NEW x, NEW c
    PROVE  \A i \in DOMAIN Copies(r, x, c) : Copied(Copies(r, x, c)[i])
<1> SUFFICES ASSUME NEW i \in DOMAIN Copies(r, x, c) PROVE Copied(Copies(r, x, c)[i])
  OBVIOUS
<1> DEFINE original == tables[r][i]
<1>1. i \in DOMAIN tables[r] /\ Copies(r, x, c)[i] = Included(r, original, x, c)
  BY DEF Copies
<1>2. original \in Route
  <2>1. tables[r] \in Seq(Route)
    BY DEF Owners
  <2> QED
    BY <1>1, <2>1
<1>3. /\ Included(r, original, x, c).via = <<r>> \o original.via
      /\ Included(r, original, x, c).deps = RouterDeps[r] \o original.deps
      /\ Included(r, original, x, c).own = original.own
  <2> HIDE DEF original
  <2> QED
    BY <1>2 DEF Included, Route
<1> QED
  BY <1>1, <1>3 DEF Copied

\* Every step leaves the tables alone or appends routes to one of them.
LEMMA StepAppends ==
    ASSUME TypeOK, [Next]_vars
    PROVE  \/ UNCHANGED tables
           \/ \E o \in Owners, more \in Seq(Route) : Appends(o, more)
<1> USE DEF TypeOK
<1>1. ASSUME NEW o \in Owners, NEW m \in Methods, NEW p \in Templates, NEW s \in Shapes,
             Decorate(o, m, p, s)
      PROVE  \E more \in Seq(Route) : Appends(o, more)
  <2> DEFINE new == NewRoute(m, p, s)
  <2>1. s \in Shape
    BY ConstantsAssumption
  <2>2. new \in Route
    BY <2>1, NewRouteType
  <2>3. Decorated(new)
    BY DEF NewRoute, Decorated
  <2>4. ~serving /\ AddRoutes(o, <<new>>)
    BY <1>1 DEF Decorate
  <2> HIDE DEF new
  <2>5. <<new>> \in Seq(Route) /\ \A i \in DOMAIN <<new>> : <<new>>[i] = new
    BY <2>2
  <2> QED
    BY <2>3, <2>4, <2>5 DEF Appends
<1>2. ASSUME NEW ms \in Seq(Methods), NEW p \in Templates, NEW s \in Shape,
             AddApiRoute(ms, p, s)
      PROVE  \E more \in Seq(Route) : Appends(App, more)
  <2> DEFINE shape == [s EXCEPT !.deps = <<>>]
             more == [i \in 1..Len(ms) |-> NewRoute(ms[i], p, shape)]
  <2>1. shape \in Shape
    <3>1. s \in Shape /\ <<>> \in Seq(STRING)
      BY ConstantsAssumption
    <3> QED
      BY <3>1 DEF Shape
  <2>2. \A i \in 1..Len(ms) : NewRoute(ms[i], p, shape) \in Route
    <3> HIDE DEF shape
    <3> QED
      BY <2>1, NewRouteType
  <2>3. more \in Seq(Route)
    <3> HIDE DEF shape
    <3> QED
      BY <2>2
  <2>4. AddRoutes(App, more) /\ ~serving
    BY <1>2 DEF AddApiRoute, OnePerMethod
  <2>5. \A i \in DOMAIN more : Decorated(more[i])
    <3> HIDE DEF shape
    <3> QED
      BY DEF NewRoute, Decorated
  <2> HIDE DEF more
  <2> QED
    BY <2>3, <2>4, <2>5 DEF Appends
<1>3. ASSUME NEW r \in Routers, NEW x \in IncludePrefixes, NEW c \in Classes \cup {None},
             IncludeInApp(r, x, c)
      PROVE  \E more \in Seq(Route) : Appends(App, more)
  <2>1. ClassOr(c, RouterClass[r]) \in Classes \cup {None}
    BY ConstantsAssumption DEF ClassOr
  <2> QED
    BY <1>3, <2>1, CopiesType, CopiesAreCopied DEF IncludeInApp, Appends
<1>4. ASSUME NEW o \in Routers, NEW r \in Routers, NEW x \in IncludePrefixes,
             IncludeInRouter(o, r, x)
      PROVE  \E more \in Seq(Route) : Appends(o, more)
  BY <1>4, CopiesType, CopiesAreCopied DEF IncludeInRouter, Appends
<1>8. ASSUME NEW ms \in Seq(Methods), NEW p \in Templates, NEW s \in Shapes,
             ApiRoute(ms, p, s)
      PROVE  \E more \in Seq(Route) : Appends(App, more)
  <2>1. [s EXCEPT !.class = None] \in Shape
    <3>1. s \in Shape
      BY ConstantsAssumption
    <3> QED
      BY <3>1 DEF Shape
  <2> QED
    BY <1>2, <1>8, <2>1 DEF ApiRoute
<1>9. Shapes \subseteq Shape
  BY ConstantsAssumption
<1>5. \A m, n \in Methods : <<m>> \in Seq(Methods) /\ <<m, n>> \in Seq(Methods)
  OBVIOUS
<1>6. CASE Start
  BY <1>6 DEF Start
<1>7. CASE UNCHANGED vars
  BY <1>7 DEF vars
<1> QED
  BY <1>1, <1>2, <1>3, <1>4, <1>5, <1>6, <1>7, <1>8, <1>9
     DEF Next, Owners, DecorateApp, DecorateRouter

\* An entry of the map is the handler of the last route that inserts it.
LEMMA SnapshotEntry ==
    ASSUME NEW table \in Seq(Route), NEW q \in Requests
    PROVE  \/ snapshot_trivial_routes(table)[q] = 0
           \/ AppDeps = <<>> /\ \E i \in 1..Len(table) :
                 /\ Inserts(table[i], q[1], q[2])
                 /\ snapshot_trivial_routes(table)[q] = table[i].handler
<1> DEFINE from == {i \in DOMAIN table : Inserts(table[i], q[1], q[2])}
           last == CHOOSE i \in from : \A j \in from : j <= i
<1>1. snapshot_trivial_routes(table)[q] =
          IF AppDeps # <<>> \/ from = {} THEN 0 ELSE table[last].handler
  BY Zenon DEF snapshot_trivial_routes
<1>2. ASSUME from # {} PROVE last \in from
  <2>1. from \in SUBSET (1..Len(table)) /\ Len(table) \in Nat
    OBVIOUS
  <2>2. \E i \in from : \A j \in from : j <= i
    <3> HIDE DEF from
    <3> QED
      BY <1>2, <2>1, GreatestIndex
  <2> QED
    BY <2>2
<1>3. DOMAIN table = 1..Len(table)
  OBVIOUS
<1> HIDE DEF last
<1> QED
  BY <1>1, <1>2, <1>3

\* So every entry is the number of a handler, or 0.
LEMMA SnapshotType ==
    ASSUME NEW table \in Seq(Route)
    PROVE  snapshot_trivial_routes(table) \in [Requests -> Nat]
<1> DEFINE from(q) == {i \in DOMAIN table : Inserts(table[i], q[1], q[2])}
           entry(q) == IF AppDeps # <<>> \/ from(q) = {} THEN 0
                       ELSE table[CHOOSE i \in from(q) : \A j \in from(q) : j <= i].handler
<1>1. \A i \in 1..Len(table) : table[i].handler \in Nat
  <2>1. \A i \in 1..Len(table) : table[i] \in Route
    OBVIOUS
  <2> QED
    BY <2>1 DEF Route
<1>2. \A q \in Requests : snapshot_trivial_routes(table)[q] \in Nat
  BY <1>1, SnapshotEntry
<1>3. snapshot_trivial_routes(table) = [q \in Requests |-> entry(q)]
  BY DEF snapshot_trivial_routes
<1> HIDE DEF entry
<1>4. \A q \in Requests : entry(q) \in Nat
  BY <1>2, <1>3
<1> QED
  BY <1>3, <1>4

\* The type invariant, for every value of the constants.
THEOREM TypeCorrect == Spec => []TypeOK
<1>1. Init => TypeOK
  <2>1. <<>> \in Seq(Route) /\ 0 \in Nat
    OBVIOUS
  <2> QED
    BY <2>1 DEF Init, TypeOK
<1>2. TypeOK /\ [Next]_vars => TypeOK'
  <2> SUFFICES ASSUME TypeOK, [Next]_vars PROVE TypeOK'
    OBVIOUS
  <2>1. tables' \in [Owners -> Seq(Route)]
    <3>1. ASSUME NEW o \in Owners, NEW more \in Seq(Route), AddRoutes(o, more)
          PROVE  tables' \in [Owners -> Seq(Route)]
      <4>1. tables \in [Owners -> Seq(Route)]
        BY DEF TypeOK
      <4>2. tables[o] \o more \in Seq(Route)
        BY <4>1
      <4> QED
        BY <3>1, <4>1, <4>2 DEF AddRoutes
    <3>2. CASE UNCHANGED tables
      BY <3>2 DEF TypeOK
    <3> QED
      BY <3>1, <3>2, StepAppends DEF Appends
  <2>2. CASE Start
    <3>1. tables[App] \in Seq(Route)
      BY DEF TypeOK, Owners
    <3> QED
      BY <2>1, <2>2, <3>1, SnapshotType DEF TypeOK, Start
  <2>3. ASSUME ~Start PROVE shortcut' = shortcut /\ serving' = serving /\ handlers' \in Nat
    <3>1. handlers \in Nat /\ handlers + 1 \in Nat
      BY DEF TypeOK
    <3> QED
      BY <2>3, <3>1 DEF Next, vars, DecorateApp, DecorateRouter, Decorate, ApiRoute, AddApiRoute,
              IncludeInApp, IncludeInRouter
  <2> QED
    BY <2>1, <2>2, <2>3 DEF TypeOK
<1> QED
  BY <1>1, <1>2, PTL DEF Spec

-----------------------------------------------------------------------------
(* The dependencies of the routers a route came through *)

(***************************************************************************)
(* ChainOf is defined by recursion: the provers know its equation only     *)
(* once a function is shown to satisfy it.  It is put together from        *)
(* functions that do so up to a length, which agree where both are.        *)
(***************************************************************************)
Chains(n) == {via \in Seq(Routers) : Len(via) <= n}
ChainStep(f, via) == IF via = <<>> THEN <<>> ELSE RouterDeps[Head(via)] \o f[Tail(via)]
ChainTo(f, n) == f = [via \in Chains(n) |-> ChainStep(f, via)]

\* What is left of a sequence of routers without the first.
LEMMA ViaTail ==
    ASSUME NEW via \in Seq(Routers), via # <<>>
    PROVE  /\ Head(via) \in Routers /\ Tail(via) \in Seq(Routers)
           /\ Len(via) \in Nat \ {0} /\ Len(Tail(via)) = Len(via) - 1
OBVIOUS

LEMMA ChainsAgree ==
    ASSUME NEW n \in Nat, NEW f, NEW g, ChainTo(f, n), ChainTo(g, n + 1)
    PROVE  \A via \in Chains(n) : f[via] = g[via]
<1> DEFINE Differ == {k \in Nat : \E via \in Chains(n) : Len(via) = k /\ f[via] # g[via]}
<1>1. Differ = {}
  <2> SUFFICES ASSUME Differ # {} PROVE FALSE
    OBVIOUS
  <2> DEFINE k == First(Differ)
  <2>1. k \in Differ /\ \A j \in Differ : k <= j
    <3> HIDE DEF Differ
    <3>1. Differ \in SUBSET Nat
      BY DEF Differ
    <3> QED
      BY <3>1, FirstIsLeast
  <2> HIDE DEF k
  <2>2. PICK via \in Chains(n) : Len(via) = k /\ f[via] # g[via]
    BY <2>1
  <2>3. f[via] = ChainStep(f, via) /\ g[via] = ChainStep(g, via)
    BY <2>2 DEF ChainTo, Chains
  <2>4. via # <<>>
    BY <2>2, <2>3 DEF ChainStep
  <2>5. Tail(via) \in Chains(n) /\ Len(Tail(via)) \in Nat /\ Len(Tail(via)) < k
    BY <2>1, <2>2, <2>4, ViaTail DEF Chains
  <2>6. f[Tail(via)] = g[Tail(via)]
    <3>1. Len(Tail(via)) \notin Differ
      BY <2>1, <2>5
    <3> QED
      BY <2>5, <3>1
  <2> QED
    BY <2>2, <2>3, <2>6 DEF ChainStep
<1>2. ASSUME NEW via \in Chains(n) PROVE Len(via) \in Nat
  BY DEF Chains
<1> QED
  BY <1>1, <1>2

LEMMA ChainsExist == \A n \in Nat : \E f : ChainTo(f, n)
<1> DEFINE Lacking == {n \in Nat : ~ \E f : ChainTo(f, n)}
<1> SUFFICES ASSUME Lacking # {} PROVE FALSE
  OBVIOUS
<1> DEFINE n == First(Lacking)
<1>1. n \in Lacking /\ \A j \in Lacking : n <= j
  <2> HIDE DEF Lacking
  <2>1. Lacking \in SUBSET Nat
    BY DEF Lacking
  <2> QED
    BY <2>1, FirstIsLeast
<1> HIDE DEF n
<1>2. n \in Nat
  BY <1>1
<1>3. CASE n = 0
  <2> DEFINE f == [via \in Chains(0) |-> <<>>]
  <2>1. \A via \in Chains(0) : via = <<>>
    BY DEF Chains
  <2>2. \A via \in Chains(0) : ChainStep(f, via) = <<>>
    BY <2>1 DEF ChainStep
  <2>3. ChainTo(f, n)
    <3> HIDE DEF f
    <3>1. f = [via \in Chains(0) |-> ChainStep(f, via)]
      BY <2>2 DEF f
    <3> QED
      BY <1>3, <3>1 DEF ChainTo
  <2> QED
    BY <1>1, <2>3
<1>4. CASE n > 0
  <2>1. n - 1 \in Nat /\ n - 1 \notin Lacking
    BY <1>1, <1>2, <1>4
  <2>2. PICK g : ChainTo(g, n - 1)
    BY <2>1
  <2> DEFINE f == [via \in Chains(n) |-> ChainStep(g, via)]
  <2>3. ASSUME NEW via \in Chains(n) PROVE ChainStep(f, via) = ChainStep(g, via)
    <3>1. CASE via = <<>>
      BY <3>1 DEF ChainStep
    <3>2. CASE via # <<>>
      <4>1. Tail(via) \in Chains(n - 1) /\ Tail(via) \in Chains(n)
        BY <1>2, <3>2, ViaTail DEF Chains
      <4>2. f[Tail(via)] = ChainStep(g, Tail(via))
        BY <4>1
      <4>3. g[Tail(via)] = ChainStep(g, Tail(via))
        BY <2>2, <4>1 DEF ChainTo
      <4> HIDE DEF f
      <4> QED
        BY <4>2, <4>3, <3>2 DEF ChainStep
    <3> QED
      BY <3>1, <3>2
  <2>4. ChainTo(f, n)
    <3>1. f = [via \in Chains(n) |-> ChainStep(f, via)]
      BY <2>3, Zenon
    <3> QED
      BY <3>1 DEF ChainTo
  <2> QED
    BY <1>1, <2>4
<1> QED
  BY <1>2, <1>3, <1>4

\* The equation ChainOf is defined by.
LEMMA ChainUnfolds ==
    \A via \in Seq(Routers) : ChainOf[via] =
        IF via = <<>> THEN <<>> ELSE RouterDeps[Head(via)] \o ChainOf[Tail(via)]
<1> DEFINE Pick(n) == CHOOSE f : ChainTo(f, n)
           whole == [via \in Seq(Routers) |-> Pick(Len(via))[via]]
<1>1. \A n \in Nat : ChainTo(Pick(n), n)
  BY ChainsExist
<1> HIDE DEF Pick
<1>2. ASSUME NEW via \in Seq(Routers)
      PROVE  whole[via] =
                 IF via = <<>> THEN <<>> ELSE RouterDeps[Head(via)] \o whole[Tail(via)]
  <2> DEFINE n == Len(via)
  <2>1. n \in Nat /\ via \in Chains(n) /\ whole[via] = Pick(n)[via]
    BY DEF Chains
  <2>2. whole[via] = ChainStep(Pick(n), via)
    BY <1>1, <2>1 DEF ChainTo
  <2>3. CASE via = <<>>
    BY <2>2, <2>3 DEF ChainStep
  <2>4. CASE via # <<>>
    <3>1. n - 1 \in Nat /\ Tail(via) \in Seq(Routers) /\ Len(Tail(via)) = n - 1
          /\ Tail(via) \in Chains(n - 1)
      BY <2>4, ViaTail DEF Chains
    <3>2. whole[Tail(via)] = Pick(n - 1)[Tail(via)]
      BY <3>1
    <3>3. Pick(n - 1)[Tail(via)] = Pick(n)[Tail(via)]
      <4>1. ChainTo(Pick(n - 1), n - 1) /\ ChainTo(Pick(n), (n - 1) + 1)
        BY <1>1, <2>1, <3>1
      <4> QED
        BY <3>1, <4>1, ChainsAgree
    <3> HIDE DEF whole
    <3> QED
      BY <2>2, <2>4, <3>2, <3>3 DEF ChainStep
  <2> QED
    BY <2>3, <2>4
<1>3. whole = [via \in Seq(Routers) |->
                  IF via = <<>> THEN <<>> ELSE RouterDeps[Head(via)] \o whole[Tail(via)]]
  <2> DEFINE body(via) ==
          IF via = <<>> THEN <<>> ELSE RouterDeps[Head(via)] \o whole[Tail(via)]
  <2>1. \A via \in Seq(Routers) : whole[via] = body(via)
    BY <1>2
  <2>2. whole = [via \in Seq(Routers) |-> whole[via]]
    OBVIOUS
  <2> HIDE DEF whole, body
  <2>3. whole = [via \in Seq(Routers) |-> body(via)]
    BY <2>1, <2>2
  <2> QED
    BY <2>3 DEF body
<1>4. ChainOf = [via \in Seq(Routers) |->
                    IF via = <<>> THEN <<>> ELSE RouterDeps[Head(via)] \o ChainOf[Tail(via)]]
  <2> HIDE DEF whole
  <2> QED
    BY <1>3 DEF ChainOf
<1> QED
  BY <1>4

\* It is a sequence of dependencies.
LEMMA ChainType == \A via \in Seq(Routers) : ChainOf[via] \in Seq(STRING)
<1> DEFINE Odd == {k \in Nat : \E via \in Seq(Routers) :
                                  Len(via) = k /\ ChainOf[via] \notin Seq(STRING)}
<1>1. Odd = {}
  <2> SUFFICES ASSUME Odd # {} PROVE FALSE
    OBVIOUS
  <2> DEFINE k == First(Odd)
  <2>1. k \in Odd /\ \A j \in Odd : k <= j
    <3> HIDE DEF Odd
    <3>1. Odd \in SUBSET Nat
      BY DEF Odd
    <3> QED
      BY <3>1, FirstIsLeast
  <2> HIDE DEF k
  <2>2. PICK via \in Seq(Routers) : Len(via) = k /\ ChainOf[via] \notin Seq(STRING)
    BY <2>1
  <2>3. via # <<>>
    BY <2>2, ChainUnfolds
  <2>4. Len(Tail(via)) \in Nat /\ Len(Tail(via)) < k /\ Tail(via) \in Seq(Routers)
        /\ Head(via) \in Routers
    BY <2>1, <2>2, <2>3, ViaTail
  <2>5. ChainOf[Tail(via)] \in Seq(STRING)
    <3>1. Len(Tail(via)) \notin Odd
      BY <2>1, <2>4
    <3> QED
      BY <2>4, <3>1
  <2>6. RouterDeps[Head(via)] \in Seq(STRING)
    BY <2>4, ConstantsAssumption
  <2>7. RouterDeps[Head(via)] \o ChainOf[Tail(via)] \in Seq(STRING)
    BY <2>5, <2>6
  <2> QED
    BY <2>2, <2>3, <2>7, ChainUnfolds
<1> QED
  BY <1>1

\* One router more is one router's dependencies more, in front.
LEMMA ChainOneMore ==
    ASSUME NEW r \in Routers, NEW via \in Seq(Routers)
    PROVE  ChainOf[<<r>> \o via] = RouterDeps[r] \o ChainOf[via]
<1>1. <<r>> \o via \in Seq(Routers) /\ <<r>> \o via # <<>>
      /\ Head(<<r>> \o via) = r /\ Tail(<<r>> \o via) = via
  OBVIOUS
<1> QED
  BY <1>1, ChainUnfolds, Zenon

LEMMA ConcatAssociates ==
    ASSUME NEW a \in Seq(STRING), NEW b \in Seq(STRING), NEW c \in Seq(STRING)
    PROVE  (a \o b) \o c = a \o (b \o c)
OBVIOUS

GuardOf(route) == route.deps = ChainOf[route.via] \o route.own

\* A route that is added is guarded as it should be when those of the tables are.
LEMMA AddedGuarded ==
    ASSUME TypeOK, GuardsInherited, NEW route \in Route, Decorated(route) \/ Copied(route)
    PROVE  GuardOf(route)
<1>1. CASE Decorated(route)
  <2>1. ChainOf[route.via] = <<>>
    <3>1. route.via = <<>> /\ <<>> \in Seq(Routers)
      BY <1>1 DEF Decorated
    <3> QED
      BY <3>1, ChainUnfolds
  <2>2. <<>> \o route.own = route.own
    BY DEF Route
  <2> QED
    BY <1>1, <2>1, <2>2 DEF Decorated, GuardOf
<1>2. CASE Copied(route)
  <2> PICK r \in Routers : \E i \in DOMAIN tables[r] :
        LET original == tables[r][i] IN
        /\ route.via = <<r>> \o original.via
        /\ route.deps = RouterDeps[r] \o original.deps
        /\ route.own = original.own
    BY <1>2 DEF Copied
  <2>1. PICK i \in DOMAIN tables[r] :
            /\ route.via = <<r>> \o tables[r][i].via
            /\ route.deps = RouterDeps[r] \o tables[r][i].deps
            /\ route.own = tables[r][i].own
    OBVIOUS
  <2> DEFINE original == tables[r][i]
  <2>2. original \in Route
    <3>1. tables[r] \in Seq(Route)
      BY DEF TypeOK, Owners
    <3> QED
      BY <3>1
  <2>3. original.deps = ChainOf[original.via] \o original.own
    BY DEF GuardsInherited, Owners
  <2> HIDE DEF original
  <2>4. original.via \in Seq(Routers) /\ original.own \in Seq(STRING)
        /\ ChainOf[original.via] \in Seq(STRING) /\ RouterDeps[r] \in Seq(STRING)
    BY <2>2, ChainType, ConstantsAssumption DEF Route
  <2>5. (RouterDeps[r] \o ChainOf[original.via]) \o original.own =
            RouterDeps[r] \o (ChainOf[original.via] \o original.own)
    BY <2>4, ConcatAssociates
  <2>6. ChainOf[<<r>> \o original.via] = RouterDeps[r] \o ChainOf[original.via]
    BY <2>4, ChainOneMore
  <2> QED
    BY <2>1, <2>3, <2>5, <2>6, Zenon DEF original, GuardOf
<1> QED
  BY <1>1, <1>2

(***************************************************************************)
(* "Router-level deps run BEFORE the route's own - parent first": however  *)
(* the routers are nested and in whatever order they are filled and        *)
(* included, every route has the dependencies of each router it came       *)
(* through, outermost first, and then its own.                             *)
(***************************************************************************)
THEOREM GuardsAreInherited == Spec => []GuardsInherited
<1>1. Init => GuardsInherited
  BY DEF Init, GuardsInherited
<1>2. TypeOK /\ GuardsInherited /\ [Next]_vars => GuardsInherited'
  <2> SUFFICES ASSUME TypeOK, GuardsInherited, [Next]_vars PROVE GuardsInherited'
    OBVIOUS
  <2>1. CASE UNCHANGED tables
    BY <2>1 DEF GuardsInherited
  <2>2. ASSUME NEW o \in Owners, NEW more \in Seq(Route), Appends(o, more)
        PROVE  GuardsInherited'
    <3>1. \A i \in 1..Len(more) : GuardOf(more[i])
      BY <2>2, AddedGuarded DEF Appends
    <3>2. \A p \in Owners : \A i \in DOMAIN tables[p] : GuardOf(tables[p][i])
      BY DEF GuardsInherited, GuardOf
    <3>3. \A p \in Owners : tables'[p] = IF p = o THEN tables[o] \o more ELSE tables[p]
      BY <2>2 DEF Appends, AddRoutes, TypeOK
    <3>4. tables[o] \in Seq(Route)
      BY DEF TypeOK
    <3>5. ASSUME NEW i \in DOMAIN (tables[o] \o more) PROVE GuardOf((tables[o] \o more)[i])
      <4>1. CASE i \in DOMAIN tables[o]
        <5>1. (tables[o] \o more)[i] = tables[o][i]
          BY <3>4, <4>1
        <5> QED
          BY <3>2, <4>1, <5>1
      <4>2. CASE i \notin DOMAIN tables[o]
        <5>1. i - Len(tables[o]) \in 1..Len(more)
              /\ (tables[o] \o more)[i] = more[i - Len(tables[o])]
          BY <3>4, <4>2
        <5> QED
          BY <3>1, <5>1
      <4> QED
        BY <4>1, <4>2
    <3>6. \A p \in Owners : \A i \in DOMAIN tables'[p] : GuardOf(tables'[p][i])
      <4> QED
        BY <3>2, <3>3, <3>5
    <3> QED
      BY <3>6 DEF GuardsInherited, GuardOf
  <2> QED
    BY <2>1, <2>2, StepAppends
<1> QED
  BY <1>1, <1>2, TypeCorrect, PTL DEF Spec

-----------------------------------------------------------------------------
(* The first registered route wins *)

\* What _dispatch does with a request does not change when routes are appended.
LEMMA DispatchAppended ==
    ASSUME NEW table \in Seq(Route), NEW more \in Seq(Route), NEW m, NEW p,
           Serving(table, m, p) # {}
    PROVE  Dispatched(table \o more, m, p) = Dispatched(table, m, p)
<1> DEFINE i == First(Serving(table, m, p))
<1>1. i \in 1..Len(table) /\ First(Serving(table \o more, m, p)) = i
  BY FirstAppended
<1>2. Serving(table \o more, m, p) # {}
  BY ServingAppended
<1>3. (table \o more)[i] = table[i] /\ i # 0
  BY <1>1
<1>4. FindRoute(table, m, p) = i /\ FindRoute(table \o more, m, p) = i
  BY <1>1, <1>2 DEF FindRoute
<1> HIDE DEF i
<1> QED
  BY <1>3, <1>4 DEF Dispatched

\* A request that has a route of its own method keeps its handler, whatever is
\* registered or included later.
THEOREM FirstRegistered == Spec => FirstRegisteredWins
<1>1. ASSUME TypeOK, [Next]_vars PROVE KeepsHandlers
  <2>1. App \in Owners /\ tables[App] \in Seq(Route)
    BY <1>1 DEF TypeOK, Owners
  <2>2. CASE UNCHANGED tables
    BY <2>2 DEF KeepsHandlers
  <2>3. ASSUME NEW o \in Owners, NEW more \in Seq(Route), AddRoutes(o, more)
        PROVE  KeepsHandlers
    <3>1. tables'[App] = tables[App] \/ tables'[App] = tables[App] \o more
      BY <1>1, <2>1, <2>3 DEF AddRoutes, TypeOK
    <3> SUFFICES ASSUME NEW m \in Methods, NEW p \in Paths, Serving(tables[App], m, p) # {}
                 PROVE  Dispatched(tables'[App], m, p) = Dispatched(tables[App], m, p)
      BY DEF KeepsHandlers
    <3>2. Dispatched(tables[App] \o more, m, p) = Dispatched(tables[App], m, p)
      BY <2>1, DispatchAppended
    <3> QED
      BY <3>1, <3>2
  <2> QED
    BY <1>1, <2>2, <2>3, StepAppends DEF Appends
<1> QED
  BY <1>1, TypeCorrect, PTL DEF Spec, FirstRegisteredWins

-----------------------------------------------------------------------------
(* The native server's map *)

\* Inductive: the map is the snapshot of the table, which is frozen while serving.
Frozen == serving => shortcut = snapshot_trivial_routes(tables[App])

\* An entry agrees with _dispatch where one route only could answer.
LEMMA EntryAgrees ==
    ASSUME NEW table \in Seq(Route), NEW m \in Methods, NEW p \in Paths \ DocsPaths,
           AppClass = None,
           snapshot_trivial_routes(table)[<<m, p>>] # 0,
           Unambiguous(table, m, p)
    PROVE  Dispatched(table, m, p) =
               Reply("handler", snapshot_trivial_routes(table)[<<m, p>>], TRUE, <<>>)
<1>1. <<m, p>> \in Requests /\ <<m, p>>[1] = m /\ <<m, p>>[2] = p
  BY DEF Requests
<1>2. PICK i \in 1..Len(table) :
         /\ AppDeps = <<>>
         /\ Inserts(table[i], m, p)
         /\ snapshot_trivial_routes(table)[<<m, p>>] = table[i].handler
  BY <1>1, SnapshotEntry
<1>3. match_path_template(table[i].path, p) = Matched(<<>>)
  BY <1>2, StaticMatch DEF Inserts
<1>4. i \in Serving(table, table[i].method, p)
  BY <1>2, <1>3 DEF Serving, Matched
<1> DEFINE own == Serving(table, m, p)
           get == Serving(table, "GET", p)
<1>5. own \in SUBSET Nat /\ get \in SUBSET Nat
  BY ServingIndices
<1>6. FindRoute(table, m, p) = i
  <2>1. CASE own # {}
    <3>1. First(own) \in own /\ FindRoute(table, m, p) = First(own)
      BY <1>5, <2>1, FirstIsLeast DEF FindRoute
    <3>2. i \in own \/ (m = "HEAD" /\ i \in get)
      BY <1>2, <1>4 DEF Inserts
    <3> QED
      BY <3>1, <3>2 DEF Unambiguous
  <2>2. CASE own = {}
    <3>1. m = "HEAD" /\ i \in get
      BY <1>2, <1>4, <2>2 DEF Inserts
    <3>2. First(get) \in get /\ FindRoute(table, m, p) = First(get)
      BY <1>5, <2>2, <3>1, FirstIsLeast DEF FindRoute
    <3> QED
      BY <3>1, <3>2 DEF Unambiguous
  <2> QED
    BY <2>1, <2>2
<1>7. TakesFastPath(table[i], p)
  BY <1>2, <1>3 DEF TakesFastPath, Inserts, IsBare, Matched
<1>8. TakesFastPath(table[i], p) = TRUE
  BY <1>7 DEF TakesFastPath
<1>9. p \notin DocsPaths /\ i # 0
  OBVIOUS
<1>10. Dispatched(table, m, p) =
           Reply("handler", table[i].handler, TakesFastPath(table[i], p), <<>>)
  <2> HIDE DEF own, get
  <2> QED
    BY <1>6, <1>9, Zenon DEF Dispatched
<1> QED
  BY <1>2, <1>8, <1>10

\* If the application sets no response class, then for a path that is no documentation
\* page and a request that one route only could answer, a hit in the native server's map
\* runs the handler that _dispatch would run, on the fast path.  The map asks for none of
\* the conditions: it is built without regard to any of them.
THEOREM ShortcutSound == Spec => []ShortcutAgrees
<1>1. Init => Frozen
  BY DEF Init, Frozen
<1>2. TypeOK /\ Frozen /\ [Next]_vars => Frozen'
  <2> SUFFICES ASSUME TypeOK, Frozen, [Next]_vars PROVE Frozen'
    OBVIOUS
  <2>1. CASE Start
    BY <2>1 DEF Start, Frozen
  <2>2. CASE UNCHANGED vars
    BY <2>2 DEF vars, Frozen
  <2>3. CASE ~Start /\ Next
    BY <2>3 DEF Next, Frozen, DecorateApp, DecorateRouter, Decorate, ApiRoute, AddApiRoute,
            IncludeInApp, IncludeInRouter
  <2> QED
    BY <2>1, <2>2, <2>3
<1>3. TypeOK /\ Frozen => ShortcutAgrees
  <2>1. TypeOK => tables[App] \in Seq(Route)
    BY DEF TypeOK, Owners
  <2> QED
    BY <2>1, EntryAgrees DEF Frozen, ShortcutAgrees
<1> QED
  BY <1>1, <1>2, <1>3, TypeCorrect, PTL DEF Spec

-----------------------------------------------------------------------------
(* The segments of a path *)

\* Downward induction, for a set of indices.
LEMMA Downward ==
    ASSUME NEW c \in Nat, NEW P, c \in P, \A i \in 1..c - 1 : i + 1 \in P => i \in P
    PROVE  \A i \in 1..c : i \in P
<1> DEFINE Rest == (1..c) \ P
<1>1. Rest = {}
  <2> SUFFICES ASSUME Rest # {} PROVE FALSE
    OBVIOUS
  <2>1. PICK i \in Rest : \A j \in Rest : j <= i
    <3>1. Rest \in SUBSET (1..c)
      OBVIOUS
    <3> HIDE DEF Rest
    <3> QED
      BY <3>1, GreatestIndex
  <2>2. i \in 1..c - 1 /\ i + 1 \in 1..c /\ i + 1 \notin Rest
    BY <2>1
  <2> QED
    BY <2>1, <2>2
<1> QED
  BY <1>1

(***************************************************************************)
(* Both recursions of PathTemplate run from the end of the template to its *)
(* beginning: there is a function given by its last value and a step from  *)
(* each value to the one before.                                           *)
(***************************************************************************)
Backward(f, last, step, n) ==
    f = [i \in 1..n + 1 |-> IF i = n + 1 THEN last ELSE step[<<i, f[i + 1]>>]]

LEMMA BackwardExists ==
    ASSUME NEW n \in Nat, NEW X, NEW last \in X, NEW step \in [(1..n) \X X -> X]
    PROVE  \E f \in [1..n + 1 -> X] : Backward(f, last, step, n)
<1> DEFINE Tails(f, i) ==
        /\ f \in [i..n + 1 -> X]
        /\ \A j \in i..n + 1 : f[j] = IF j = n + 1 THEN last ELSE step[<<j, f[j + 1]>>]
           P == {i \in 1..n + 1 : \E f : Tails(f, i)}
<1>1. n + 1 \in P
  <2> DEFINE f == [j \in n + 1..n + 1 |-> last]
  <2>1. Tails(f, n + 1)
    OBVIOUS
  <2> HIDE DEF Tails
  <2> QED
    BY <2>1
<1>2. ASSUME NEW i \in 1..n, i + 1 \in P PROVE i \in P
  <2>1. PICK g : Tails(g, i + 1)
    BY <1>2
  <2>2. g[i + 1] \in X /\ step[<<i, g[i + 1]>>] \in X
    BY <2>1
  <2> DEFINE f == [j \in i..n + 1 |-> IF j = i THEN step[<<i, g[i + 1]>>] ELSE g[j]]
  <2>3. \A j \in i..n + 1 : j = i \/ j \in i + 1..n + 1
    OBVIOUS
  <2>4. f \in [i..n + 1 -> X]
    BY <2>1, <2>2, <2>3
  <2>5. ASSUME NEW j \in i..n + 1
        PROVE  f[j] = IF j = n + 1 THEN last ELSE step[<<j, f[j + 1]>>]
    <3>1. CASE j = i
      <4>1. i # n + 1 /\ i + 1 \in i..n + 1 /\ i + 1 # i
        OBVIOUS
      <4>2. f[i + 1] = g[i + 1] /\ f[i] = step[<<i, g[i + 1]>>]
        BY <4>1
      <4> HIDE DEF f
      <4> QED
        BY <3>1, <4>1, <4>2
    <3>2. CASE j # i
      <4>1. j \in i + 1..n + 1 /\ f[j] = g[j]
        BY <2>3, <3>2
      <4>2. j # n + 1 => j + 1 \in i + 1..n + 1 /\ f[j + 1] = g[j + 1]
        BY <4>1
      <4> QED
        BY <2>1, <4>1, <4>2
    <3> QED
      BY <3>1, <3>2
  <2>6. Tails(f, i)
    <3> HIDE DEF f
    <3> QED
      BY <2>4, <2>5
  <2> HIDE DEF Tails, f
  <2> QED
    BY <2>6
<1>3. 1 \in P
  <2>1. \A i \in 1..(n + 1) - 1 : i + 1 \in P => i \in P
    <3> HIDE DEF P
    <3>1. (n + 1) - 1 = n
      OBVIOUS
    <3> QED
      BY <1>2, <3>1
  <2> HIDE DEF P
  <2> QED
    BY <1>1, <2>1, Downward
<1>4. PICK f : Tails(f, 1)
  BY <1>3
<1>5. Backward(f, last, step, n)
  BY <1>4 DEF Backward
<1> QED
  BY <1>4, <1>5

\* The loop of match_path_template, at its end and at a segment.
Results(S) == [ok : BOOLEAN, params : Seq(Seq(S))]
WalkEnd(template, path) == IF Len(path) = Len(template) THEN Matched(<<>>) ELSE NoMatch
WalkStep(template, path, i, next) ==
    IF i > Len(path) THEN NoMatch
    ELSE IF template[i] = CatchAll THEN Matched(<<SubSeq(path, i, Len(path))>>)
    ELSE IF template[i] = Param THEN Capture(<<path[i]>>, next)
    ELSE IF template[i] = path[i] THEN next
    ELSE NoMatch

IsWalk(f, template, path) ==
    f = [i \in 1..Len(template) + 1 |->
            IF i > Len(template)
            THEN IF Len(path) = Len(template) THEN Matched(<<>>) ELSE NoMatch
            ELSE IF i > Len(path) THEN NoMatch
            ELSE IF template[i] = CatchAll THEN Matched(<<SubSeq(path, i, Len(path))>>)
            ELSE IF template[i] = Param THEN Capture(<<path[i]>>, f[i + 1])
            ELSE IF template[i] = path[i] THEN f[i + 1]
            ELSE NoMatch]

LEMMA WalkResults ==
    ASSUME NEW S, NEW template \in Seq(S), NEW path \in Seq(S)
    PROVE  /\ WalkEnd(template, path) \in Results(S)
           /\ \A i \in 1..Len(template), next \in Results(S) :
                 WalkStep(template, path, i, next) \in Results(S)
<1>1. NoMatch \in Results(S) /\ Matched(<<>>) \in Results(S)
  BY DEF NoMatch, Matched, Results
<1>2. ASSUME NEW i \in 1..Len(template), NEW next \in Results(S)
      PROVE  WalkStep(template, path, i, next) \in Results(S)
  <2>1. CASE i > Len(path)
    BY <1>1, <2>1 DEF WalkStep
  <2>2. CASE i <= Len(path)
    <3>1. path[i] \in S /\ <<path[i]>> \in Seq(S)
      BY <2>2
    <3>2. Matched(<<SubSeq(path, i, Len(path))>>) \in Results(S)
      <4>1. SubSeq(path, i, Len(path)) \in Seq(S)
        BY <2>2
      <4>2. <<SubSeq(path, i, Len(path))>> \in Seq(Seq(S))
        BY <4>1
      <4> QED
        BY <4>2 DEF Matched, Results
    <3>3. Capture(<<path[i]>>, next) \in Results(S)
      <4>1. <<(<<path[i]>>)>> \in Seq(Seq(S)) /\ next.params \in Seq(Seq(S))
        BY <3>1 DEF Results
      <4>2. <<(<<path[i]>>)>> \o next.params \in Seq(Seq(S))
        BY <4>1
      <4> QED
        BY <1>1, <4>2 DEF Capture, Matched, Results
    <3> QED
      BY <1>1, <3>2, <3>3 DEF WalkStep
  <2> QED
    BY <2>1, <2>2
<1> QED
  BY <1>1, <1>2 DEF WalkEnd

LEMMA WalkExists ==
    ASSUME NEW S, NEW template \in Seq(S), NEW path \in Seq(S)
    PROVE  \E f : IsWalk(f, template, path)
<1> DEFINE n == Len(template)
           X == Results(S)
           last == WalkEnd(template, path)
           step == [s \in (1..n) \X X |-> WalkStep(template, path, s[1], s[2])]
<1>1. n \in Nat /\ last \in X
  BY WalkResults
<1>2. step \in [(1..n) \X X -> X]
  BY WalkResults
<1>3. PICK f \in [1..n + 1 -> X] : Backward(f, last, step, n)
  <2> HIDE DEF n, X, last, step
  <2> QED
    BY <1>1, <1>2, BackwardExists
<1>4. \A i \in 1..n + 1 : i # n + 1 => step[<<i, f[i + 1]>>] = WalkStep(template, path, i, f[i + 1])
  <2>1. ASSUME NEW i \in 1..n + 1, i # n + 1 PROVE <<i, f[i + 1]>> \in (1..n) \X X
    <3>1. i \in 1..n /\ i + 1 \in 1..n + 1
      BY <1>1, <2>1
    <3> HIDE DEF X, n
    <3> QED
      BY <3>1
  <2> QED
    BY <2>1
<1>5. f = [i \in 1..n + 1 |-> IF i = n + 1 THEN last ELSE step[<<i, f[i + 1]>>]]
  <2> HIDE DEF n, last, step
  <2> QED
    BY <1>3 DEF Backward
<1>6. \A i \in 1..n + 1 : (i = n + 1) <=> (i > n)
  BY <1>1
<1>7. f = [i \in 1..n + 1 |-> IF i > n THEN last ELSE WalkStep(template, path, i, f[i + 1])]
  <2> HIDE DEF n, last, step
  <2> QED
    BY <1>4, <1>5, <1>6
<1> QED
  BY <1>7 DEF IsWalk, WalkStep, WalkEnd

\* What a walk is at each segment, with results all along.
LEMMA WalkValues ==
    ASSUME NEW S, NEW template \in Seq(S), NEW path \in Seq(S), NEW f, IsWalk(f, template, path)
    PROVE  /\ \A i \in 1..Len(template) + 1 : f[i] \in Results(S)
           /\ f[Len(template) + 1] = WalkEnd(template, path)
           /\ \A i \in 1..Len(template) : f[i] = WalkStep(template, path, i, f[i + 1])
<1> PICK n : n = Len(template)
  OBVIOUS
<1>1. n \in Nat /\ n + 1 \in 1..n + 1 /\ n + 1 > n
  OBVIOUS
<1>2. f[n + 1] = WalkEnd(template, path)
  BY <1>1 DEF IsWalk, WalkEnd
<1>3. ASSUME NEW i \in 1..n PROVE f[i] = WalkStep(template, path, i, f[i + 1])
  <2>1. i \in 1..n + 1 /\ ~(i > n)
    BY <1>1
  <2> QED
    BY <2>1 DEF IsWalk, WalkStep
<1>4. \A i \in 1..n + 1 : f[i] \in Results(S)
  <2> DEFINE P == {i \in 1..n + 1 : f[i] \in Results(S)}
  <2>1. n + 1 \in P
    BY <1>1, <1>2, WalkResults
  <2>2. \A i \in 1..(n + 1) - 1 : i + 1 \in P => i \in P
    <3>1. ASSUME NEW i \in 1..n, f[i + 1] \in Results(S) PROVE f[i] \in Results(S)
      BY <1>3, <3>1, WalkResults
    <3> QED
      BY <1>1, <3>1
  <2>3. \A i \in 1..n + 1 : i \in P
    <3> HIDE DEF P
    <3> QED
      BY <1>1, <2>1, <2>2, Downward
  <2> QED
    BY <2>3
<1> QED
  BY <1>2, <1>3, <1>4

LEMMA MatchFromWalks ==
    ASSUME NEW S, NEW template \in Seq(S), NEW path \in Seq(S)
    PROVE  \E f : IsWalk(f, template, path) /\ MatchFrom(template, path) = f[1]
<1> PICK f : f = CHOOSE g : IsWalk(g, template, path)
  OBVIOUS
<1>1. IsWalk(f, template, path)
  BY WalkExists
<1>2. MatchFrom(template, path) = f[1]
  BY DEF MatchFrom, IsWalk
<1> QED
  BY <1>1, <1>2

\* Cut is the first catch-all, or past the end.
LEMMA CutIsFirst ==
    ASSUME NEW S, NEW template \in Seq(S), NEW c, c = Cut(template)
    PROVE  /\ c \in 1..Len(template) + 1
           /\ c <= Len(template) => template[c] = CatchAll
           /\ \A j \in 1..c - 1 : template[j] # CatchAll
<1> DEFINE n == Len(template)
           I == {i \in 1..n + 1 : i <= n => template[i] = CatchAll}
<1>1. n \in Nat /\ I \in SUBSET Nat /\ n + 1 \in I
  OBVIOUS
<1>2. PICK i \in I : \A j \in I : i <= j
  <2> HIDE DEF I
  <2> QED
    BY <1>1, FirstIsLeast
<1>3. \A j \in 1..i - 1 : template[j] # CatchAll
  <2>1. ASSUME NEW j \in 1..i - 1, template[j] = CatchAll PROVE FALSE
    <3>1. j \in I /\ j < i
      BY <1>1, <2>1
    <3> QED
      BY <1>2, <3>1
  <2> QED
    BY <2>1
<1>4. i \in 1..n + 1 /\ (i <= n => template[i] = CatchAll)
  OBVIOUS
<1> QED
  BY <1>3, <1>4 DEF Cut

\* A walk is ok from a segment on if and only if the rest corresponds.
Corresponds(template, path, i) ==
    /\ IF Cut(template) > Len(template)
       THEN Len(path) = Len(template)
       ELSE Len(path) >= Cut(template)
    /\ \A j \in i..Cut(template) - 1 : template[j] \in {Param, path[j]}

LEMMA WalkCorresponds ==
    ASSUME NEW S, NEW template \in Seq(S), NEW path \in Seq(S), NEW f, IsWalk(f, template, path)
    PROVE  \A i \in 1..Cut(template) : f[i].ok <=> Corresponds(template, path, i)
<1> PICK n, m, c : n = Len(template) /\ m = Len(path) /\ c = Cut(template)
  OBVIOUS
<1>1. n \in Nat /\ m \in Nat /\ c \in Nat
  BY CutIsFirst
<1>2. c \in 1..n + 1 /\ (c <= n => template[c] = CatchAll) /\ \A j \in 1..c - 1 : template[j] # CatchAll
  BY CutIsFirst
<1>3. f[n + 1] = WalkEnd(template, path)
  BY WalkValues
<1>4. \A i \in 1..n : f[i] = WalkStep(template, path, i, f[i + 1])
  BY WalkValues
<1>5. NoMatch.ok = FALSE /\ \A params : Matched(params).ok = TRUE
  BY DEF NoMatch, Matched
<1>6. \A i \in Nat : Corresponds(template, path, i)
          <=> /\ IF c > n THEN m = n ELSE m >= c
              /\ \A j \in i..c - 1 : template[j] \in {Param, path[j]}
  BY DEF Corresponds
<1> DEFINE P == {i \in 1..c : f[i].ok <=> Corresponds(template, path, i)}
<1>7. c \in P
  <2>1. Corresponds(template, path, c) <=> IF c > n THEN m = n ELSE m >= c
    BY <1>1, <1>6
  <2>2. CASE c = n + 1
    BY <1>1, <1>3, <1>5, <2>1, <2>2 DEF WalkEnd
  <2>3. CASE c <= n
    <3>1. f[c] = IF c > m THEN NoMatch ELSE Matched(<<SubSeq(path, c, m)>>)
      <4>1. c \in 1..n /\ template[c] = CatchAll
        BY <1>1, <1>2, <2>3
      <4>2. f[c] = WalkStep(template, path, c, f[c + 1])
        BY <1>4, <4>1
      <4> QED
        BY <4>1, <4>2 DEF WalkStep
    <3> QED
      BY <1>1, <1>2, <1>5, <2>1, <2>3, <3>1
  <2> QED
    BY <1>2, <2>2, <2>3
<1>8. ASSUME NEW i \in 1..c - 1, i + 1 \in P PROVE i \in P
  <2>1. i \in 1..n /\ i \in 1..c /\ i + 1 \in Nat /\ i \in Nat
    BY <1>1, <1>2
  <2>2. f[i + 1].ok <=> Corresponds(template, path, i + 1)
    BY <1>8
  <2>3. Corresponds(template, path, i)
            <=> template[i] \in {Param, path[i]} /\ Corresponds(template, path, i + 1)
    <3>1. \A j \in i..c - 1 : j = i \/ j \in i + 1..c - 1
      BY <1>1
    <3>2. i \in i..c - 1 /\ \A j \in i + 1..c - 1 : j \in i..c - 1
      BY <1>1
    <3> QED
      BY <1>6, <2>1, <3>1, <3>2
  <2>4. Corresponds(template, path, i + 1) => i <= m
    BY <1>1, <1>2, <1>6, <2>1
  <2>5. f[i] = IF i > m THEN NoMatch
               ELSE IF template[i] = Param THEN Capture(<<path[i]>>, f[i + 1])
               ELSE IF template[i] = path[i] THEN f[i + 1] ELSE NoMatch
    BY <1>2, <1>4, <2>1 DEF WalkStep
  <2>6. Capture(<<path[i]>>, f[i + 1]).ok <=> f[i + 1].ok
    BY <1>5 DEF Capture
  <2>7. f[i].ok <=> Corresponds(template, path, i)
    BY <1>1, <1>5, <2>1, <2>2, <2>3, <2>4, <2>5, <2>6
  <2> QED
    BY <2>1, <2>7
<1>9. \A i \in 1..c : i \in P
  <2> HIDE DEF P
  <2> QED
    BY <1>1, <1>7, <1>8, Downward
<1> QED
  BY <1>9

\* The writing out of a path, at its end and at a segment.
RenderStep(template, params, i, next) ==
    [k \in 1..Len(params) + 1 |->
        IF template[i] \notin Placeholders THEN <<template[i]>> \o next[k]
        ELSE IF k > Len(params) THEN <<>>
        ELSE IF template[i] = CatchAll THEN params[k]
        ELSE params[k] \o next[k + 1]]

IsRendering(r, template, params) ==
    r = [i \in 1..Len(template) + 1 |->
            [k \in 1..Len(params) + 1 |->
                IF i > Len(template) THEN <<>>
                ELSE IF template[i] \notin Placeholders THEN <<template[i]>> \o r[i + 1][k]
                ELSE IF k > Len(params) THEN <<>>
                ELSE IF template[i] = CatchAll THEN params[k]
                ELSE params[k] \o r[i + 1][k + 1]]]

LEMMA RenderingExists ==
    ASSUME NEW S, NEW template \in Seq(S), NEW params \in Seq(Seq(S))
    PROVE  \E r : IsRendering(r, template, params)
<1> DEFINE n == Len(template)
           X == [1..Len(params) + 1 -> Seq(S)]
           last == [k \in 1..Len(params) + 1 |-> <<>>]
           step == [s \in (1..n) \X X |-> RenderStep(template, params, s[1], s[2])]
<1>1. n \in Nat /\ last \in X
  OBVIOUS
<1>2. ASSUME NEW i \in 1..n, NEW next \in X PROVE RenderStep(template, params, i, next) \in X
  <2>1. ASSUME NEW k \in 1..Len(params) + 1
        PROVE  /\ template[i] \in S /\ next[k] \in Seq(S) /\ <<template[i]>> \o next[k] \in Seq(S)
               /\ ~(k > Len(params)) => /\ params[k] \in Seq(S) /\ next[k + 1] \in Seq(S)
                                        /\ params[k] \o next[k + 1] \in Seq(S)
    <3>1. template[i] \in S /\ next[k] \in Seq(S)
      OBVIOUS
    <3>2. <<template[i]>> \in Seq(S)
      BY <3>1
    <3>3. ASSUME ~(k > Len(params)) PROVE params[k] \in Seq(S) /\ next[k + 1] \in Seq(S)
      <4>1. Len(params) \in Nat
        OBVIOUS
      <4>2. k \in 1..Len(params) /\ k + 1 \in 1..Len(params) + 1
        BY <3>3, <4>1
      <4>3. params[k] \in Seq(S)
        BY <4>2
      <4> QED
        BY <4>2, <4>3
    <3> QED
      BY <3>1, <3>2, <3>3
  <2> QED
    BY <2>1 DEF RenderStep
<1>3. step \in [(1..n) \X X -> X]
  <2> HIDE DEF X
  <2> QED
    BY <1>2
<1>4. PICK r \in [1..n + 1 -> X] : Backward(r, last, step, n)
  <2> HIDE DEF n, X, last, step
  <2> QED
    BY <1>1, <1>3, BackwardExists
<1>5. ASSUME NEW i \in 1..n + 1, i # n + 1
      PROVE  step[<<i, r[i + 1]>>] = RenderStep(template, params, i, r[i + 1])
  <2>1. <<i, r[i + 1]>> \in (1..n) \X X
    <3>1. i \in 1..n /\ i + 1 \in 1..n + 1
      BY <1>1, <1>5
    <3> HIDE DEF X, n
    <3> QED
      BY <3>1
  <2> HIDE DEF X, n
  <2> QED
    BY <2>1
<1>6. r = [i \in 1..n + 1 |-> IF i = n + 1 THEN last ELSE step[<<i, r[i + 1]>>]]
  <2> HIDE DEF n, last, step
  <2> QED
    BY <1>4 DEF Backward
<1>7. \A i \in 1..n + 1 : (i = n + 1) <=> (i > n)
  BY <1>1
<1>8. r = [i \in 1..n + 1 |->
              IF i > n THEN last ELSE RenderStep(template, params, i, r[i + 1])]
  <2> HIDE DEF n, last, step
  <2> QED
    BY <1>5, <1>6, <1>7
<1>9. \A i \in 1..n + 1 :
          (IF i > n THEN last ELSE RenderStep(template, params, i, r[i + 1]))
              = [k \in 1..Len(params) + 1 |->
                    IF i > n THEN <<>>
                    ELSE IF template[i] \notin Placeholders THEN <<template[i]>> \o r[i + 1][k]
                    ELSE IF k > Len(params) THEN <<>>
                    ELSE IF template[i] = CatchAll THEN params[k]
                    ELSE params[k] \o r[i + 1][k + 1]]
  <2> HIDE DEF n
  <2> QED
    BY DEF RenderStep
<1>10. IsRendering(r, template, params)
  <2> HIDE DEF last, step
  <2> QED
    BY <1>8, <1>9 DEF IsRendering
<1> QED
  BY <1>10

LEMMA RenderedRenders ==
    ASSUME NEW S, NEW template \in Seq(S), NEW params \in Seq(Seq(S))
    PROVE  \E r : IsRendering(r, template, params) /\ Rendered(template, params) = r[1][1]
<1> PICK r : r = CHOOSE g : IsRendering(g, template, params)
  OBVIOUS
<1>1. IsRendering(r, template, params)
  BY RenderingExists
<1>2. Rendered(template, params) = r[1][1]
  BY DEF Rendered, IsRendering
<1> QED
  BY <1>1, <1>2

RendersAt(r, template, params, i, k) ==
    /\ template[i] \notin Placeholders => r[i][k] = <<template[i]>> \o r[i + 1][k]
    /\ template[i] = CatchAll /\ k <= Len(params) => r[i][k] = params[k]
    /\ template[i] = Param /\ k <= Len(params) => r[i][k] = params[k] \o r[i + 1][k + 1]

Renders(r, template, params) ==
    /\ \A k \in 1..Len(params) + 1 : r[Len(template) + 1][k] = <<>>
    /\ \A i \in 1..Len(template), k \in 1..Len(params) + 1 : RendersAt(r, template, params, i, k)

LEMMA RenderValues ==
    ASSUME NEW S, NEW template \in Seq(S), NEW params \in Seq(Seq(S)),
           NEW r, IsRendering(r, template, params)
    PROVE  Renders(r, template, params)
<1> DEFINE n == Len(template)
           m == Len(params)
<1>1. n \in Nat /\ m \in Nat /\ n + 1 \in 1..n + 1 /\ n + 1 > n
  OBVIOUS
<1>2. \A k \in 1..m + 1 : r[n + 1][k] = <<>>
  BY <1>1 DEF IsRendering
<1>3. ASSUME NEW i \in 1..n, NEW k \in 1..m + 1
      PROVE  r[i][k] = IF template[i] \notin Placeholders THEN <<template[i]>> \o r[i + 1][k]
                       ELSE IF k > m THEN <<>>
                       ELSE IF template[i] = CatchAll THEN params[k]
                       ELSE params[k] \o r[i + 1][k + 1]
  <2>1. i \in 1..n + 1 /\ ~(i > n)
    BY <1>1
  <2>2. r[i] = [j \in 1..m + 1 |->
                   IF i > n THEN <<>>
                   ELSE IF template[i] \notin Placeholders THEN <<template[i]>> \o r[i + 1][j]
                   ELSE IF j > m THEN <<>>
                   ELSE IF template[i] = CatchAll THEN params[j]
                   ELSE params[j] \o r[i + 1][j + 1]]
    BY <2>1, Zenon DEF IsRendering
  <2> QED
    BY <2>1, <2>2
<1>4. \A k \in 1..m + 1 : k <= m <=> ~(k > m)
  BY <1>1
<1>5. Param \in Placeholders /\ CatchAll \in Placeholders /\ Param # CatchAll
  BY DEF Placeholders, Param, CatchAll
<1>6. \A i \in 1..n, k \in 1..m + 1 : RendersAt(r, template, params, i, k)
  BY <1>3, <1>4, <1>5 DEF RendersAt
<1> QED
  BY <1>2, <1>6 DEF Renders

\* What is left of a path, by its first segment.
LEMMA RestOfPath ==
    ASSUME NEW S, NEW path \in Seq(S), NEW i \in 1..Len(path)
    PROVE  SubSeq(path, i, Len(path)) = <<path[i]>> \o SubSeq(path, i + 1, Len(path))
OBVIOUS

\* From its k-th on, the captures are those of a walk.
Continues(params, k, captures) ==
    /\ Len(params) = (k - 1) + Len(captures)
    /\ \A j \in 1..Len(captures) : params[(k - 1) + j] = captures[j]

LEMMA ContinuesNext ==
    ASSUME NEW T, NEW params \in Seq(T), NEW k \in 1..Len(params) + 1, NEW x, NEW rest \in Seq(T),
           Continues(params, k, <<x>> \o rest)
    PROVE  k <= Len(params) /\ params[k] = x /\ Continues(params, k + 1, rest)
<1> PICK captures, n, m : captures = <<x>> \o rest /\ n = Len(rest) /\ m = Len(params)
  OBVIOUS
<1>1. n \in Nat /\ m \in Nat /\ k \in Nat \ {0}
  OBVIOUS
<1>2. Len(captures) = n + 1 /\ captures[1] = x
  OBVIOUS
<1>3. \A j \in 1..n : captures[j + 1] = rest[j]
  BY <1>1
<1>4. m = (k - 1) + (n + 1) /\ \A j \in 1..n + 1 : params[(k - 1) + j] = captures[j]
  BY <1>2 DEF Continues
<1>5. k <= m /\ params[k] = x
  <2>1. 1 \in 1..n + 1 /\ (k - 1) + 1 = k
    BY <1>1
  <2> QED
    BY <1>1, <1>2, <1>4, <2>1
<1>6. m = ((k + 1) - 1) + n
  BY <1>1, <1>4
<1>7. ASSUME NEW j \in 1..n PROVE params[((k + 1) - 1) + j] = rest[j]
  <2>1. j + 1 \in 1..n + 1 /\ (k - 1) + (j + 1) = ((k + 1) - 1) + j
    BY <1>1
  <2> QED
    BY <1>3, <1>4, <2>1
<1> QED
  BY <1>5, <1>6, <1>7 DEF Continues

(***************************************************************************)
(* What a walk captured from a segment on, written out from that segment   *)
(* on, is the rest of the path.                                            *)
(***************************************************************************)
LEMMA WalkSpells ==
    ASSUME NEW S, NEW template \in Seq(S), NEW path \in Seq(S), NEW f, IsWalk(f, template, path),
           NEW params \in Seq(Seq(S)), NEW r, IsRendering(r, template, params)
    PROVE  \A i \in 1..Cut(template) : f[i].ok =>
               \A k \in 1..Len(params) + 1 :
                   Continues(params, k, f[i].params) => r[i][k] = SubSeq(path, i, Len(path))
<1> PICK n, m, c : n = Len(template) /\ m = Len(path) /\ c = Cut(template)
  OBVIOUS
<1>1. n \in Nat /\ m \in Nat /\ c \in Nat /\ Len(params) \in Nat
  BY CutIsFirst
<1>2. c \in 1..n + 1 /\ (c <= n => template[c] = CatchAll) /\ \A j \in 1..c - 1 : template[j] # CatchAll
  BY CutIsFirst
<1>3. /\ f[n + 1] = WalkEnd(template, path)
      /\ \A i \in 1..n : f[i] = WalkStep(template, path, i, f[i + 1])
      /\ \A i \in 1..n + 1 : f[i] \in Results(S)
  BY WalkValues
<1>4. /\ \A k \in 1..Len(params) + 1 : r[n + 1][k] = <<>>
      /\ \A i \in 1..n, k \in 1..Len(params) + 1 : RendersAt(r, template, params, i, k)
  BY RenderValues DEF Renders
<1>5. ~NoMatch.ok /\ \A captures : Matched(captures).params = captures
  BY DEF NoMatch, Matched
<1> DEFINE Spells(i) ==
        f[i].ok => \A k \in 1..Len(params) + 1 :
            Continues(params, k, f[i].params) => r[i][k] = SubSeq(path, i, m)
           P == {i \in 1..c : Spells(i)}
<1>6. Spells(c)
  <2> SUFFICES ASSUME f[c].ok, NEW k \in 1..Len(params) + 1, Continues(params, k, f[c].params)
               PROVE  r[c][k] = SubSeq(path, c, m)
    OBVIOUS
  <2>1. CASE c = n + 1
    <3>1. m = n
      BY <1>3, <1>5, <2>1 DEF WalkEnd
    <3>2. SubSeq(path, n + 1, n) = <<>>
      BY <1>1
    <3> QED
      BY <1>4, <2>1, <3>1, <3>2
  <2>2. CASE c <= n
    <3>1. c \in 1..n /\ template[c] = CatchAll
      BY <1>1, <1>2, <2>2
    <3>2. f[c] = Matched(<<SubSeq(path, c, m)>>)
      <4>1. f[c] = WalkStep(template, path, c, f[c + 1])
        BY <1>3, <3>1
      <4> QED
        BY <1>5, <3>1, <4>1 DEF WalkStep
    <3>3. Continues(params, k, <<SubSeq(path, c, m)>> \o <<>>)
      <4>1. <<SubSeq(path, c, m)>> \o <<>> = <<SubSeq(path, c, m)>>
        OBVIOUS
      <4> QED
        BY <1>5, <3>2, <4>1
    <3>4. k <= Len(params) /\ params[k] = SubSeq(path, c, m)
      <4>1. <<>> \in Seq(Seq(S))
        OBVIOUS
      <4> QED
        BY <3>3, <4>1, ContinuesNext
    <3> QED
      BY <1>4, <3>1, <3>4 DEF RendersAt
  <2> QED
    BY <1>1, <1>2, <2>1, <2>2
<1>7. ASSUME NEW i \in 1..c - 1, Spells(i + 1) PROVE Spells(i)
  <2> SUFFICES ASSUME f[i].ok, NEW k \in 1..Len(params) + 1, Continues(params, k, f[i].params)
               PROVE  r[i][k] = SubSeq(path, i, m)
    OBVIOUS
  <2> HIDE DEF Spells
  <2>1. i \in 1..n /\ i + 1 \in 1..n + 1 /\ template[i] # CatchAll
    BY <1>1, <1>2
  <2>2. f[i] = IF i > m THEN NoMatch
               ELSE IF template[i] = Param THEN Capture(<<path[i]>>, f[i + 1])
               ELSE IF template[i] = path[i] THEN f[i + 1] ELSE NoMatch
    <3>1. f[i] = WalkStep(template, path, i, f[i + 1])
      BY <1>3, <2>1
    <3> QED
      BY <2>1, <3>1 DEF WalkStep
  <2>3. i \in 1..m
    BY <1>1, <1>5, <2>1, <2>2
  <2>4. SubSeq(path, i, m) = <<path[i]>> \o SubSeq(path, i + 1, m)
    BY <2>3, RestOfPath
  <2>5. CASE template[i] = Param
    <3>1. f[i] = Capture(<<path[i]>>, f[i + 1])
      BY <1>1, <2>2, <2>3, <2>5
    <3>2. f[i + 1].ok /\ f[i].params = <<(<<path[i]>>)>> \o f[i + 1].params
      BY <1>5, <3>1 DEF Capture
    <3>3. f[i + 1].params \in Seq(Seq(S))
      BY <1>3, <2>1 DEF Results
    <3>4. k <= Len(params) /\ params[k] = <<path[i]>> /\ Continues(params, k + 1, f[i + 1].params)
      <4>1. Continues(params, k, <<(<<path[i]>>)>> \o f[i + 1].params)
        BY <3>2
      <4> QED
        BY <3>3, <4>1, ContinuesNext
    <3>5. k + 1 \in 1..Len(params) + 1
      BY <1>1, <3>4
    <3>6. r[i + 1][k + 1] = SubSeq(path, i + 1, m)
      BY <1>7, <3>2, <3>4, <3>5 DEF Spells
    <3>7. r[i][k] = params[k] \o r[i + 1][k + 1]
      BY <1>4, <2>1, <2>5, <3>4 DEF RendersAt
    <3> QED
      BY <2>4, <3>4, <3>6, <3>7
  <2>6. CASE template[i] # Param
    <3>1. f[i] = f[i + 1] /\ template[i] = path[i]
      BY <1>1, <1>5, <2>2, <2>3, <2>6
    <3>2. template[i] \notin Placeholders
      BY <2>1, <2>6 DEF Placeholders
    <3>3. r[i + 1][k] = SubSeq(path, i + 1, m)
      BY <1>7, <3>1 DEF Spells
    <3>4. r[i][k] = <<template[i]>> \o r[i + 1][k]
      BY <1>4, <2>1, <3>2 DEF RendersAt
    <3> QED
      BY <2>4, <3>1, <3>3, <3>4
  <2> QED
    BY <2>5, <2>6
<1>8. c \in P
  BY <1>1, <1>2, <1>6
<1>9. \A i \in 1..c - 1 : i + 1 \in P => i \in P
  <2>1. \A i \in 1..c - 1 : i \in 1..c
    BY <1>1
  <2> HIDE DEF Spells
  <2> QED
    BY <1>7, <2>1
<1>10. \A i \in 1..c : i \in P
  <2> HIDE DEF P
  <2> QED
    BY <1>1, <1>8, <1>9, Downward
<1> QED
  BY <1>10

\* Without placeholders, what is written out is the template.
LEMMA StaticSpells ==
    ASSUME NEW S, NEW template \in Seq(S), ~HasPlaceholder(template)
    PROVE  Rendered(template, <<>>) = template
<1> PICK n : n = Len(template)
  OBVIOUS
<1>1. <<>> \in Seq(Seq(S)) /\ Len(<<>>) = 0 /\ n \in Nat /\ 1 \in 1..Len(<<>>) + 1
  OBVIOUS
<1>2. PICK r : IsRendering(r, template, <<>>) /\ Rendered(template, <<>>) = r[1][1]
  BY <1>1, RenderedRenders
<1>3. \A i \in 1..n : template[i] \notin Placeholders
  BY DEF HasPlaceholder
<1>4. r[n + 1][1] = <<>> /\ \A i \in 1..n : r[i][1] = <<template[i]>> \o r[i + 1][1]
  <2>1. Renders(r, template, <<>>)
    BY <1>1, <1>2, RenderValues
  <2> QED
    BY <1>1, <1>3, <2>1 DEF Renders, RendersAt
<1> DEFINE P == {i \in 1..n + 1 : r[i][1] = SubSeq(template, i, n)}
<1>5. n + 1 \in P
  <2>1. SubSeq(template, n + 1, n) = <<>>
    BY <1>1
  <2>2. r[n + 1][1] = SubSeq(template, n + 1, n)
    BY <1>4, <2>1
  <2> QED
    BY <1>1, <2>2
<1>6. \A i \in 1..(n + 1) - 1 : i + 1 \in P => i \in P
  <2>1. ASSUME NEW i \in 1..n, r[i + 1][1] = SubSeq(template, i + 1, n)
        PROVE  r[i][1] = SubSeq(template, i, n)
    BY <1>4, <2>1, RestOfPath
  <2> QED
    BY <1>1, <2>1
<1>7. 1 \in P
  <2> HIDE DEF P
  <2> QED
    BY <1>1, <1>5, <1>6, Downward
<1>8. SubSeq(template, 1, n) = template
  BY <1>1
<1> QED
  BY <1>2, <1>7, <1>8

\* match_path_template is exact, for templates and paths of any length.
LEMMA AlwaysExact ==
    ASSUME NEW S, NEW template \in Seq(S), NEW path \in Seq(S)
    PROVE  Exact(template, path)
<1> PICK n, m, c : n = Len(template) /\ m = Len(path) /\ c = Cut(template)
  OBVIOUS
<1>1. n \in Nat /\ m \in Nat /\ c \in Nat
  BY CutIsFirst
<1>2. c \in 1..n + 1 /\ (c <= n => template[c] = CatchAll) /\ \A j \in 1..c - 1 : template[j] # CatchAll
  BY CutIsFirst
<1> PICK result : result = match_path_template(template, path)
  OBVIOUS
<1>3. CASE HasPlaceholder(template)
  <2>1. PICK f : IsWalk(f, template, path) /\ MatchFrom(template, path) = f[1]
    BY MatchFromWalks
  <2>2. result = f[1]
    BY <1>3, <2>1 DEF match_path_template
  <2>3. 1 \in 1..c /\ 1 \in 1..n + 1
    BY <1>1, <1>2
  <2>4. result.ok <=> Matches(template, path)
    BY <2>1, <2>2, <2>3, WalkCorresponds DEF Corresponds, Matches
  <2>5. ASSUME result.ok PROVE Rendered(template, result.params) = path
    <3> PICK params : params = result.params
      OBVIOUS
    <3>1. params \in Seq(Seq(S))
      BY <2>1, <2>2, <2>3, WalkValues DEF Results
    <3>2. PICK r : IsRendering(r, template, params) /\ Rendered(template, params) = r[1][1]
      BY <3>1, RenderedRenders
    <3>3. Len(params) \in Nat /\ 1 \in 1..Len(params) + 1
      BY <3>1
    <3>4. Continues(params, 1, params)
      BY <3>3 DEF Continues
    <3>5. r[1][1] = SubSeq(path, 1, m)
      BY <2>1, <2>2, <2>3, <2>5, <3>1, <3>2, <3>3, <3>4, WalkSpells
    <3>6. SubSeq(path, 1, m) = path
      BY <1>1
    <3> QED
      BY <3>2, <3>5, <3>6
  <2> QED
    BY <2>4, <2>5 DEF Exact
<1>4. CASE ~HasPlaceholder(template)
  <2>1. result = IF template = path THEN Matched(<<>>) ELSE NoMatch
    BY <1>4 DEF match_path_template
  <2>2. \A i \in 1..n : template[i] # CatchAll /\ template[i] # Param
    BY <1>4 DEF HasPlaceholder, Placeholders
  <2>3. c = n + 1
    BY <1>1, <1>2, <2>2
  <2>4. Matches(template, path) <=> template = path
    <3>1. Matches(template, path) <=> m = n /\ \A i \in 1..n : template[i] = path[i]
      BY <1>1, <2>2, <2>3 DEF Matches
    <3>2. m = n /\ (\A i \in 1..n : template[i] = path[i]) => template = path
      <4>1. template = [i \in 1..n |-> template[i]] /\ path = [i \in 1..m |-> path[i]]
        OBVIOUS
      <4> QED
        BY <4>1
    <3> QED
      BY <3>1, <3>2
  <2> QED
    BY <1>4, <2>1, <2>4, StaticSpells DEF Exact, Matched, NoMatch
<1> QED
  BY <1>3, <1>4

(***************************************************************************)
(* match_path_template accepts exactly the paths that correspond to the    *)
(* template, and what it captures spells the path: for any literals and    *)
(* any number of segments.                                                 *)
(***************************************************************************)
THEOREM MatchingIsExact == ScopedSpec => []MatchIsExact
<1> DEFINE Probed == probe \in {<<>>} \cup AllTemplates
<1>1. ScopedInit => Probed
  BY DEF ScopedInit
<1>2. Probed /\ [ScopedNext]_<<vars, probe>> => Probed'
  BY DEF ScopedNext
<1>3. Probed => MatchIsExact
  <2> SUFFICES ASSUME NEW template \in AllTemplates, NEW path \in AllPaths
               PROVE  Exact(template, path)
    BY DEF MatchIsExact
  <2> DEFINE S == Literals \cup Placeholders
  <2>1. \A k \in 1..MaxSegments : k \in Nat
    BY SegmentsAssumption
  <2>2. template \in Seq(S)
    BY <2>1 DEF AllTemplates
  <2>3. path \in Seq(S)
    BY <2>1 DEF AllPaths, Placeholders
  <2> HIDE DEF S
  <2> QED
    BY <2>2, <2>3, AlwaysExact
<1> QED
  BY <1>1, <1>2, <1>3, PTL DEF ScopedSpec

=============================================================================
