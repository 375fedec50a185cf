--------------------------- MODULE MCPreparation ----------------------------
(***************************************************************************)
(* Instances: handlers with a parameter of every type, declared in every   *)
(* style, bodies in every layout, and every dependency graph of three      *)
(* functions and a security scheme that a few signatures can make, cycles  *)
(* included.                                                               *)
(***************************************************************************)
EXTENDS Preparation

CONSTANTS A, B, C, Scheme

AllCallables == {A, B, C, Scheme}
TheScheme == {Scheme}

MCDashed == "a_b" :> "a-b"
MCLower == "X-Key" :> "x-key"

Nothing == [kind |-> "none"]
PlainDefault == [kind |-> "value"]
Marker(kind, options) == [kind |-> kind, given |-> FALSE, options |-> options]

Depends(callable, use_cache, scopes) ==
    [kind |-> "depends", dep |-> callable, use_cache |-> use_cache, scopes |-> scopes]

Declared(name, type) ==
    [name |-> name, type |-> type, list |-> FALSE, optional |-> FALSE, default |-> Nothing,
     annotated |-> Nothing]

NoForm == [encoding |-> "none", boundary |-> TRUE, closed |-> TRUE, parts |-> <<>>]

NoRequest ==
    [path |-> <<>>, query |-> <<>>, header |-> <<>>, cookie |-> <<>>, form |-> NoForm,
     object |-> TRUE,
     body |-> [json |-> "empty", whole |-> "valid", fields |-> <<>>, content_type |-> "json"]]

NoSignatures == [c \in Callables |-> <<>>]
NoOverride == [c \in Callables |-> c]

Program(handler, path_names, dependencies, signatures, overrides) ==
    [handler |-> handler, path_names |-> path_names, dependencies |-> dependencies,
     signatures |-> signatures, overrides |-> overrides]

Plain(handler) == Program(handler, {}, <<>>, NoSignatures, NoOverride)

-----------------------------------------------------------------------------
(* Parameters: one in every style, and a header that may be missing *)

Good == [text |-> TRUE, parses |-> {"int"}, lenient |-> {"int"}, breaks |-> {}]
Word == [Good EXCEPT !.parses = {}, !.lenient = {}]
\* Beyond i64, which Python's int() takes.
Huge == [Good EXCEPT !.parses = {}]
Off == [Good EXCEPT !.breaks = {"ge", "min_length"}]
Upload == [Word EXCEPT !.text = FALSE]

RawLists == {<<>>, <<Good>>, <<Word>>, <<Off>>, <<Huge, Good>>, <<Good, Word>>, <<Upload>>}

Options(alias) == [NoOptions EXCEPT !.alias = alias, !.validators = {"ge", "min_length"}]

\* Annotated[T, Query()], = Query(), Annotated[T, Query()] = 1, = Query(1),
\* Annotated[T | None, Query()].
Styles(param, marker) ==
    {[param EXCEPT !.annotated = marker],
     [param EXCEPT !.default = marker],
     [param EXCEPT !.annotated = marker, !.default = PlainDefault],
     [param EXCEPT !.default = [marker EXCEPT !.given = TRUE]],
     [param EXCEPT !.annotated = marker, !.optional = TRUE]}

Unmarked(param) ==
    {param, [param EXCEPT !.default = PlainDefault], [param EXCEPT !.optional = TRUE]}

Xs ==
    {[Declared("x", type) EXCEPT !.list = list] : type \in {"str", "int"}, list \in BOOLEAN}
    \cup {Declared("x", type) : type \in {"uploadfile", "bytes"}}

HeaderParam == [Declared("a_b", "int") EXCEPT !.annotated = Marker("header", NoOptions)]

\* A single value, if any: path and cookie; text: all but form and file.
Fits(source, raws) ==
    /\ source = "path" => Len(raws) = 1
    /\ source = "cookie" => Len(raws) <= 1
    /\ source \notin {"form", "file"} => \A i \in DOMAIN raws : raws[i].text

FormOf(key, raws) ==
    [NoForm EXCEPT !.encoding = IF \A i \in DOMAIN raws : raws[i].text
                                THEN "urlencoded" ELSE "multipart",
                   !.parts = [i \in DOMAIN raws |->
                                 [name |-> key, raw |-> raws[i], headers |-> TRUE]]]

Headed(header) == IF header = <<>> THEN <<>> ELSE "a-b" :> header

Carrying(source, key, raws, header) ==
    LET values == IF raws = <<>> THEN <<>> ELSE key :> raws
        all == [NoRequest EXCEPT !.header = Headed(header)]
    IN  CASE source \in {"form", "file"} -> [all EXCEPT !.form = FormOf(key, raws)]
          [] source = "header" -> [all EXCEPT !.header = @ @@ values]
          [] OTHER -> [all EXCEPT ![source] = values]

Marked(xs, source, aliases) ==
    UNION {Styles(x, Marker(source, Options(alias))) : x \in xs, alias \in aliases}

Handlers(params, path_names) ==
    {Program(<<param, HeaderParam>>, path_names, <<>>, NoSignatures, NoOverride) : param \in params}

Requests(source, keys, headers) ==
    {Carrying(source, key, raws, header) :
        key \in keys, raws \in {r \in RawLists : Fits(source, r)}, header \in headers}

\* Every type and style; without a marker, also where only a prefix has the placeholder;
\* and every source and key.
ParamScenarios ==
    UNION {Handlers(Marked(Xs, source, {None}), {})
               \X Requests(source, {"x"}, {<<>>, <<Good>>, <<Word>>}) :
           source \in {"query", "form", "file"}}
    \cup UNION {Handlers(UNION {Unmarked(x) : x \in Xs}, {}) \X Requests(source, {"x"}, {<<Good>>}) :
           source \in {"query", "form", "path"}}
    \cup UNION {Handlers(Marked({Declared("x", "int")}, source, {None, "X-Key"}), {})
               \X Requests(source, {"x", "x-key", "X-Key"}, {<<Good>>}) :
           source \in OwnSources \ {"path"}}
    \cup (Handlers(Marked({Declared("x", "int")}, "path", {None, "X-Key"}), {"x"})
               \X Requests("path", {"x"}, {<<Good>>}))

\* Uploads of two fields, complete or cut off, with fields that are skipped.
Part(name, raw, headers) == [name |-> name, raw |-> raw, headers |-> headers]

FormScenarios ==
    {<<Plain(<<[Declared("x", "int") EXCEPT !.annotated = Marker("form", Options(None))],
               Declared("y", "uploadfile")>>),
       [NoRequest EXCEPT !.form =
           [encoding |-> encoding, boundary |-> boundary, closed |-> closed, parts |-> parts]]>> :
        encoding \in {"multipart", "other"}, boundary \in BOOLEAN, closed \in BOOLEAN,
        parts \in {<<Part("x", Good, TRUE), Part("y", Upload, TRUE)>>,
                   <<Part("y", Upload, TRUE), Part("x", Good, FALSE), Part("x", Good, TRUE)>>,
                   <<Part(None, Good, TRUE), Part("y", Upload, TRUE), Part("y", Upload, TRUE)>>}}

\* The same, asked for by a dependency.
SubScenarios ==
    {<<Program(<<[Declared("a", "any") EXCEPT !.default = Depends(A, TRUE, {})]>>, {}, <<>>,
               [NoSignatures EXCEPT ![A] = s[1].handler], NoOverride), s[2]>> :
        s \in {t \in ParamScenarios \cup FormScenarios : t[1].path_names = {}}}

-----------------------------------------------------------------------------
(* Bodies *)

Embed == Marker("body", [NoOptions EXCEPT !.embed = TRUE])

\* A model or a dict needs no marker; two of them are embedded without one.
BodyParams(name, type) ==
    {[param EXCEPT !.annotated = marker] :
        param \in Unmarked(Declared(name, type)), marker \in {Nothing, Embed}}

BodySignatures ==
    {<<b>> : b \in BodyParams("b", "model") \cup BodyParams("b", "raw")}
    \cup {<<Declared("b", "model"), HeaderParam, c>> :
        c \in Unmarked(Declared("c", "model")) \cup Unmarked(Declared("c", "raw"))}

Models == {"valid", "invalid", "raises"}

Bodies ==
    [json : {"empty", "bad", "other"}, whole : Models, fields : {<<>>}, content_type : {"json", "other"}]
    \cup
    [json : {"object"}, whole : Models,
     fields : [{"b", "c"} -> Models] \cup [{"c"} -> Models], content_type : {"json", "other"}]

BodyScenarios ==
    {<<Plain(signature), [NoRequest EXCEPT !.header = Headed(header), !.body = body]>> :
        signature \in BodySignatures, body \in Bodies, header \in {<<>>, <<Good>>}}

-----------------------------------------------------------------------------
(* Dependencies *)

\* Three ways to say it: with the default, with the metadata, with the annotation.
Dep(name, callable, use_cache, scopes) ==
    [Declared(name, "any") EXCEPT !.default = Depends(callable, use_cache, scopes)]
AnnotatedDep(name, callable) ==
    [Declared(name, "any") EXCEPT !.annotated = Depends(callable, TRUE, {})]
ClassDep(name, callable) ==
    [Declared(name, callable) EXCEPT !.default = Depends(None, TRUE, {})]

Value == [Declared("v", "int") EXCEPT !.default = PlainDefault]
Scopes == Declared("s", "security_scopes")
Tasks == Declared("t", "background_tasks")
TheRequest == Declared("r", "request")

\* Up to two dependencies of a dependency.
SubSignatures ==
    {<<>>, <<Value, Scopes>>}
    \cup {<<AnnotatedDep("p", d)>> : d \in {A, B, C}}
    \cup {<<Dep("p", d, TRUE, {"sub"}), ClassDep("q", e)>> : d, e \in {A, B, C}}
    \cup {<<Dep("p", Scheme, TRUE, {}), Dep("q", C, FALSE, {})>>}

Graphs ==
    {[NoSignatures EXCEPT ![A] = a, ![B] = b, ![C] = c] :
        a, b \in SubSignatures, c \in {<<Value, Scopes>>, <<AnnotatedDep("p", A)>>}}

Overrides ==
    {NoOverride, [NoOverride EXCEPT ![A] = B, ![B] = A], [NoOverride EXCEPT ![C] = B],
     [NoOverride EXCEPT ![Scheme] = C]}

Handler == <<Dep("a", A, TRUE, {"top"}), Tasks, TheRequest, AnnotatedDep("b", B)>>
Dependencies == <<Depends(C, TRUE, {"extra"})>>

DepScenarios ==
    {<<Program(Handler, {}, dependencies, graph, overrides), NoRequest>> :
        dependencies \in {<<>>, Dependencies}, graph \in Graphs, overrides \in Overrides}
    \cup
    {<<Program(Handler, {}, Dependencies, graph, NoOverride),
       [NoRequest EXCEPT !.query = "v" :> <<Word>>, !.object = FALSE]>> : graph \in Graphs}

MCScenarios ==
    ParamScenarios \cup FormScenarios \cup SubScenarios \cup BodyScenarios \cup DepScenarios
=============================================================================
