----------------------------- MODULE RoutePlan ------------------------------
(***************************************************************************)
(* compile_route_plan (_routing.py): the plan of a handler, or of a        *)
(* dependency, from the declarations of its parameters.                    *)
(*                                                                         *)
(* A declaration is what inspect.signature and get_type_hints show of a    *)
(* parameter: its type without Optional and Annotated, its default and the *)
(* marker found in the Annotated metadata.  Default and metadata are       *)
(* records with a kind: that of a marker (Query, Depends, ...), "value"    *)
(* for any other default and "none".  path_names are the placeholders of   *)
(* the path given to the decorator; a router's prefix is joined later and  *)
(* has no part in it.                                                      *)
(***************************************************************************)
EXTENDS Extraction, FiniteSets

Calling == {"depends", "security"}
Markers == OwnSources \cup {"body"} \cup Calling
IsMarker(default) == default.kind \in Markers

\* "filled by the resolver"
Injected == {"request", "background_tasks", "security_scopes"}
IsInjected(param) == param.type \in Injected /\ ~param.list

\* Kinds of list but these are lists of strings, and an UploadFile is no kind.
_type_kind(param) ==
    IF param.list THEN IF param.type \in {"int", "float", "model"} THEN param.type ELSE "str"
    ELSE IF param.type \in Castable \cup {"bytes", "str", "model", "raw"} THEN param.type
    ELSE "any"

\* "1. Path placeholder", "2. Default-as-marker", "3. Annotated", "4. Fallback by type"
Source(param, path_names) ==
    CASE param.name \in path_names -> "path"
      [] param.name \notin path_names /\ IsMarker(param.default) -> param.default.kind
      [] OTHER ->
            IF IsMarker(param.annotated) THEN param.annotated.kind
            ELSE IF _type_kind(param) \in {"model", "raw"} THEN "body"
            ELSE IF _type_kind(param) = "bytes" THEN "skipped"
            ELSE "query"

\* The default is looked into as a marker of something to extract.
Unwrapped(param, path_names) ==
    /\ param.name \notin path_names
    /\ IsMarker(param.default) /\ param.default.kind \notin Calling

\* Keyword arguments of a marker; Depends and Security have none that are kept here.
NoOptions ==
    [alias |-> None, validators |-> {}, convert_underscores |-> TRUE, embed |-> FALSE,
     json_media |-> TRUE]

marker_kwargs(param, path_names) ==
    IF Unwrapped(param, path_names) /\ param.default.options # NoOptions
    THEN param.default.options
    ELSE IF IsMarker(param.annotated) /\ param.annotated.kind \notin Calling
    THEN param.annotated.options
    ELSE NoOptions

\* Fault: a marker in the metadata counts as a default.
HasDefault_Metadata(param, path_names) ==
    IsMarker(param.annotated) \/
        IF Unwrapped(param, path_names) THEN param.default.given ELSE param.default.kind # "none"

\* A marker has a default if its first argument is not None.
HasDefault(param, path_names) ==
    IF Unwrapped(param, path_names) THEN param.default.given ELSE param.default.kind # "none"

-----------------------------------------------------------------------------
(* Dependencies *)

\* The markers of a parameter that call something, Annotated first.
Callers(param) ==
    Filter(<<param.annotated, param.default>>, LAMBDA m : m.kind \in Calling)

\* Depends() without an argument: the annotation is the dependency.
_resolve_depends_callable(param) ==
    LET named == Filter(Callers(param), LAMBDA m : m.dep # None) IN
    IF named = <<>> THEN param.type ELSE Head(named).dep

ScopesOf(param) ==
    LET scoped == Filter(Callers(param), LAMBDA m : m.scopes # {}) IN
    IF scoped = <<>> THEN {} ELSE Head(scoped).scopes

Called(dep, use_cache, scopes) == [dep |-> dep, use_cache |-> use_cache, scopes |-> scopes]
CallsNothing == Called(None, TRUE, {})

-----------------------------------------------------------------------------
(* Entries *)

Entry(name, source, type, list, required, options, calls, internal) ==
    [name |-> name, source |-> source, type |-> type, list |-> list, required |-> required,
     alias |-> options.alias, validators |-> options.validators,
     convert_underscores |-> source = "header" => options.convert_underscores,
     embed |-> options.embed, json_media |-> options.json_media,
     dep |-> calls.dep, use_cache |-> calls.use_cache, scopes |-> calls.scopes,
     internal |-> internal]

\* "UploadFile detection": what would be a query parameter, or is marked as a file.
IsUpload(param, source) == param.type = "uploadfile" /\ source \in {"query", "file"}

\* Of several markers that call something the last one says whether to use the cache.
Compiled(param, path_names) ==
    LET source == Source(param, path_names) IN
    IF IsInjected(param)
    THEN Entry(param.name, param.type, "any", FALSE, FALSE, NoOptions, CallsNothing, FALSE)
    ELSE Entry(param.name,
               IF IsUpload(param, source) THEN "file" ELSE source,
               IF IsUpload(param, source) THEN "uploadfile" ELSE _type_kind(param),
               param.list,
               ~HasDefault(param, path_names) /\ ~param.optional,
               marker_kwargs(param, path_names),
               IF source \in Calling
               THEN Called(_resolve_depends_callable(param),
                           Last(Callers(param)).use_cache, ScopesOf(param))
               ELSE CallsNothing,
               FALSE)

\* "If 2+ body params ... every JSON body param is wrapped under its name"
Embedded(plan) ==
    LET bodies == {i \in DOMAIN plan : IsBody(plan[i])} IN
    IF Cardinality(bodies) < 2 THEN plan
    ELSE [i \in DOMAIN plan |-> IF i \in bodies THEN [plan[i] EXCEPT !.embed = TRUE] ELSE plan[i]]

compile_route_plan(signature, path_names) ==
    LET Kept(param) == IsInjected(param) \/ Source(param, path_names) # "skipped"
        kept == Filter(signature, Kept)
    IN  Embedded([i \in DOMAIN kept |-> Compiled(kept[i], path_names)])

\* `dependencies=[Depends(...), ...]` of a route, its routers and the application.
expand_route_level_dependencies(markers) ==
    LET named == Filter(markers, LAMBDA m : m.dep # None) IN
    [i \in DOMAIN named |->
        Entry("_internal_dep", "depends", "any", FALSE, TRUE, NoOptions,
              Called(named[i].dep, named[i].use_cache, named[i].scopes), TRUE)]
=============================================================================
