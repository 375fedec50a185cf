------------------------------ MODULE MCRouting -----------------------------
(***************************************************************************)
(* One instance, looked at in two scopes: the application's own table      *)
(* filling up with routes of all shapes, and three routers that include    *)
(* one another and are included in the application.  The matching they     *)
(* rest on is checked beside them, on every template and every path up to  *)
(* a length: one template in each further initial state.                   *)
(***************************************************************************)
EXTENDS Routing

CONSTANTS
    Outer, Inner, Leaf,
    Literals,       \* literal segments, "" among them
    MaxSegments     \* bound: segments of a template and of a path

ASSUME SegmentsAssumption == MaxSegments \in Nat

VARIABLE probe  \* the template looked at, <<>> where the tables are

Bare == [plan |-> FALSE, class |-> None, deps |-> <<>>]
Planned == [Bare EXCEPT !.plan = TRUE]
Guarded == [Bare EXCEPT !.deps = <<"own">>]
Html == [Bare EXCEPT !.class = "html"]

MCShapes == {Bare, Planned, Guarded, Html}
LeafTemplate == <<"leaf">>
MCTemplates == {<<"a">>, <<"{}">>, <<"a", "">>, LeafTemplate}
MCPaths == {<<"">>, <<"a">>, <<"a", "">>, <<"a", "", "">>, <<"b">>, <<"b", "">>, <<"docs">>}
DocsPath == {<<"docs">>}
MCPrefixes == {<<"p">>}
MCRouterPrefix == [r \in Routers |-> CASE r = Outer -> <<"o">> [] r = Inner -> <<"i">> [] OTHER -> <<>>]
MCRouterDeps == [r \in Routers |-> CASE r = Outer -> <<"outer">> [] r = Inner -> <<"inner">> [] OTHER -> <<>>]
NoClass == [r \in Routers |-> None]
NoDeps == <<>>

-----------------------------------------------------------------------------

TableScope ==
    /\ \A r \in Routers : tables[r] = <<>>
    /\ \A i \in DOMAIN tables[App] : tables[App][i].path # LeafTemplate

\* Two handlers, of one shape and one template, at most two routes in a table.
NestedScope ==
    /\ ~serving
    /\ handlers <= 2
    /\ \A o \in Owners :
          /\ Len(tables[o]) <= 2
          /\ \A i \in DOMAIN tables[o] :
                LET route == tables[o][i] IN
                /\ route.method = "GET" /\ ~route.plan /\ route.class = None
                /\ route.own = Guarded.deps
                /\ Last(route.path) = "leaf"

AllTemplates == UNION {[1..k -> Literals \cup Placeholders] : k \in 1..MaxSegments}

\* No request path holds a placeholder, except that {name} may be sent as it is.
AllPaths == UNION {[1..k -> Literals \cup {Param}] : k \in 1..MaxSegments}

ScopedInit == Init /\ probe \in {<<>>} \cup AllTemplates

ScopedNext ==
    /\ probe = <<>> /\ UNCHANGED probe
    /\ Next
    /\ (TableScope \/ NestedScope)'

ScopedSpec == ScopedInit /\ [][ScopedNext]_<<vars, probe>>

-----------------------------------------------------------------------------

(***************************************************************************)
(* match_path_template: the loop with its early returns accepts the paths  *)
(* that correspond to the template segment by segment up to the first      *)
(* catch-all, empty segments and "consumes the rest of the URL" included;  *)
(* and what it captures, put back in place of the placeholders, is the     *)
(* path: nothing is lost or captured twice.                                *)
(***************************************************************************)
MatchIsExact == probe # <<>> => \A path \in AllPaths : Exact(probe, path)
=============================================================================
