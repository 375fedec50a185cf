---------------------------- MODULE Preparation -----------------------------
(***************************************************************************)
(* From a matched route to the call of its handler: the middle of          *)
(* FastAPI._dispatch (crates/fr-pyiface/src/app.rs), which takes the       *)
(* arguments out of the request, and resolve_dependencies with             *)
(* expand_route_level_dependencies (_routing.py), which calls the          *)
(* dependencies for the rest.                                              *)
(*                                                                         *)
(* The plans come from RoutePlan.  compile_route_plan nests the plan of a  *)
(* dependency in the entry that asks for it and cuts a cycle where it      *)
(* meets a callable again.  Here a nested plan is looked up when its entry *)
(* is resolved: a frame of the recursion keeps `seen`, which is all the    *)
(* compiler knew there.                                                    *)
(***************************************************************************)
EXTENDS RoutePlan

CONSTANTS
    Callables,  \* everything that is used as a dependency or replaces one
    Schemes,    \* those that are instances of a security class
    Scenarios,  \* pairs of a declared program and a request
    MaxDepth    \* bound: nested calls of _resolve_dep

ASSUME CallablesAssumption == IsFiniteSet(Callables) /\ Schemes \subseteq Callables

IsSequence(s) == s \in Seq(ToSet(s))

\* What a parameter depends on, if anything, is among the callables.
Signature(params, path_names) ==
    /\ IsSequence(params)
    /\ \A i \in DOMAIN params :
          Source(params[i], path_names) \in Calling =>
              _resolve_depends_callable(params[i]) \in Callables

\* The values of a key, and the fields of a form, are in the order they were sent.
Sent(sent) ==
    /\ DOMAIN sent = {"path", "query", "header", "cookie", "form", "object", "body"}
    /\ \A source \in {"path", "query", "header", "cookie"} :
          \A key \in DOMAIN sent[source] : IsSequence(sent[source][key])
    /\ IsSequence(sent.form.parts)

\* The path of the route matched, so that its placeholders have values.
ASSUME ScenariosAssumption ==
    \A s \in Scenarios :
        LET declared == s[1] IN
        /\ Sent(s[2])
        /\ \A name \in declared.path_names : At(s[2].path, name) # <<>>
        /\ Signature(declared.handler, declared.path_names)
        /\ \A c \in Callables : Signature(declared.signatures[c], {})
        /\ IsSequence(declared.dependencies)
        /\ \A i \in DOMAIN declared.dependencies :
              declared.dependencies[i].dep \in Callables \cup {None}
        /\ declared.overrides \in [Callables -> Callables]

VARIABLES
    program,    \* what was declared, and the plans compiled from it
    request,    \* what the client sent
    phase,      \* "extract", "resolve", and the ends "handler", "invalid", "raised", "refused"
    kwargs,     \* the handler's arguments so far, <<name, value>>
    reported,   \* the detail of a 422
    stack,      \* the frames of the resolution; the first is its loop over the plan
    cache,      \* for a callable the call that produced its value, or 0
    calls       \* history: the calls of dependencies that returned

vars == <<program, request, phase, kwargs, reported, stack, cache, calls>>

\* A value is the number of the call that returned it, or this: it is from the request.
FromRequest == 0

IsDependency(entry) == entry.source \in Calling

Frame(entry, callable, params, seen, scopes) ==
    [entry |-> entry, callable |-> callable, params |-> params, seen |-> seen,
     scopes |-> scopes, at |-> 1, kwargs |-> {}]

\* Plans of the handler and of everything it may depend on, made once at registration.
Registered(declared) ==
    [declared |-> declared,
     plan |-> compile_route_plan(declared.handler, declared.path_names),
     extra |-> expand_route_level_dependencies(declared.dependencies),
     dep_plan |-> [c \in Callables |->
        IF c \in Schemes THEN <<>> ELSE compile_route_plan(declared.signatures[c], {})],
     overrides |-> declared.overrides]

Init ==
    /\ \E s \in Scenarios : program = Registered(s[1]) /\ request = s[2]
    /\ phase = "extract"
    /\ kwargs = {}
    /\ reported = <<>>
    /\ stack = <<>>
    /\ cache = [c \in Callables |-> 0]
    /\ calls = <<>>

-----------------------------------------------------------------------------
(* Out of the request *)

\* Callables that the plan reaches through the nested plans of its dependencies.
Reached ==
    LET Asked(params) == {params[i].dep : i \in {j \in DOMAIN params : IsDependency(params[j])}}
        within[n \in Nat] ==
            IF n = 0 THEN Asked(program.plan)
            ELSE within[n - 1] \cup UNION {Asked(program.dep_plan[c]) : c \in within[n - 1]}
    IN  within[Cardinality(Callables)]

HasForm(params) == \E i \in DOMAIN params : params[i].source \in {"form", "file"}

\* plan_has_form: "markers are opaque from Rust", so the extra dependencies do not count.
NeedsForm ==
    HasForm(program.plan) \/ \E c \in Reached : HasForm(program.dep_plan[c])

\* The request as the extraction sees it.
Seen == [request EXCEPT !.form = IF NeedsForm THEN parse_form_body(@) ELSE <<>>]

\* Fault: the first error ends the loop.
ParamErrors_First ==
    LET results == [i \in DOMAIN program.plan |-> extract_one_param(program.plan[i], Seen)]
        errors == Filter(results, LAMBDA r : r.is = "error")
    IN  IF errors = <<>> THEN <<>> ELSE <<errors[1].error>>

ParamErrors ==
    LET results == [i \in DOMAIN program.plan |-> extract_one_param(program.plan[i], Seen)]
        errors == Filter(results, LAMBDA r : r.is = "error")
    IN  [i \in DOMAIN errors |-> errors[i].error]

ParamArgs ==
    {<<program.plan[i].name, FromRequest>> :
        i \in {j \in DOMAIN program.plan : extract_one_param(program.plan[j], Seen).is = "value"}}

\* All errors together are one 422; without any the dependencies are next.
Extract ==
    LET body == extract_body_params(program.plan, request.body)
        wrong == IF WrongContentType(program.plan, request.body) THEN <<json_invalid>> ELSE <<>>
        errors == ParamErrors \o wrong \o body.errors
    IN
    /\ phase = "extract"
    /\ kwargs' = ParamArgs \cup body.args
    /\ reported' = errors
    /\ IF errors # <<>>
       THEN phase' = "invalid" /\ UNCHANGED stack
       ELSE /\ phase' = "resolve"
            /\ stack' = <<Frame(None, None, program.extra \o program.plan, {}, {})>>
    /\ UNCHANGED <<program, request, cache, calls>>

-----------------------------------------------------------------------------
(* Dependencies *)

Top == Last(stack)
InLoop == Len(stack) = 1
Next1 == Top.params[Top.at]     \* the entry whose turn it is

More == phase = "resolve" /\ Top.at <= Len(Top.params)

\* app.dependency_overrides
Effective(callable) == program.overrides[callable]

Callee == Effective(Next1.dep)

Reusable == Next1.use_cache /\ cache[Callee] # 0

\* The frame goes on with a value for the entry; an extra dependency forwards none.
Supplied(frame, entry, value) ==
    [frame EXCEPT !.at = @ + 1,
                  !.kwargs = IF entry.internal THEN @ ELSE @ \cup {<<entry.name, value>>}]

Supply(value) == stack' = Front(stack) \o <<Supplied(Top, Next1, value)>>

Skip == stack' = Front(stack) \o <<[Top EXCEPT !.at = @ + 1]>>

\* Fault: the cache is filled under the name of what was replaced.
Record_Original(entry, callable, args, scopes) ==
    /\ calls' = Append(calls, [callable |-> callable, dep |-> entry.dep,
                               cached |-> entry.use_cache, kwargs |-> args, scopes |-> scopes])
    /\ cache' = IF entry.use_cache THEN [cache EXCEPT ![entry.dep] = Len(calls) + 1] ELSE cache

\* A call that returned, and `if use_cache: cache[cid] = value`.
Record(entry, callable, args, scopes) ==
    /\ calls' = Append(calls, [callable |-> callable, dep |-> entry.dep,
                               cached |-> entry.use_cache, kwargs |-> args, scopes |-> scopes])
    /\ cache' = IF entry.use_cache THEN [cache EXCEPT ![callable] = Len(calls) + 1] ELSE cache

Raise == phase' = "raised" /\ UNCHANGED <<stack, cache, calls>>

Reuse ==
    /\ More /\ IsDependency(Next1) /\ Reusable
    /\ Supply(cache[Callee])
    /\ UNCHANGED <<program, request, phase, kwargs, reported, cache, calls>>

\* `security_class` is of the original: a replacement without _extract raises.
ExtractScheme ==
    /\ More /\ IsDependency(Next1) /\ ~Reusable /\ Next1.dep \in Schemes
    /\ \/ /\ Callee \in Schemes
          /\ Record(Next1, Callee, {}, {})
          /\ Supply(Len(calls) + 1)
          /\ UNCHANGED phase
       \/ Raise
    /\ UNCHANGED <<program, request, kwargs, reported>>

\* Fault: cycles are not cut.
PlanFor_Uncut(entry, seen) == program.dep_plan[entry.dep]

\* The plan compiled for the entry; an extra dependency is compiled on its own.
PlanFor(entry, seen) ==
    IF ~entry.internal /\ entry.dep \in seen THEN <<>> ELSE program.dep_plan[entry.dep]

\* `entry.get("scopes") or parent_scopes or []`
ScopesFor(entry, parent) == IF entry.scopes # {} THEN entry.scopes ELSE parent

Enter ==
    /\ More /\ IsDependency(Next1) /\ ~Reusable /\ Next1.dep \notin Schemes
    /\ Len(stack) < MaxDepth
    /\ stack' = Append(stack,
                   Frame(Next1, Callee, PlanFor(Next1, Top.seen),
                         IF Next1.internal THEN {} ELSE Top.seen \cup {Next1.dep},
                         ScopesFor(Next1, Top.scopes)))
    /\ UNCHANGED <<program, request, phase, kwargs, reported, cache, calls>>

\* A parameter of a dependency; the first error is the 422.
TakeValue ==
    LET result == _extract_simple(Next1, Seen) IN
    /\ More /\ ~InLoop /\ ~IsDependency(Next1)
    /\ \/ /\ Next1.source = "security_scopes" \/ result.is = "value"
          /\ Supply(FromRequest)
          /\ UNCHANGED <<phase, reported>>
       \/ /\ Next1.source # "security_scopes" /\ result.is = "default"
          /\ Skip
          /\ UNCHANGED <<phase, reported>>
       \/ /\ Next1.source # "security_scopes" /\ result.is = "error"
          /\ phase' = "invalid"
          /\ reported' = <<result.error>>
          /\ UNCHANGED stack
    /\ UNCHANGED <<program, request, kwargs, cache, calls>>

\* The loop fills in the tasks and the Request, where there is one, and nothing else.
TakeOther ==
    /\ More /\ InLoop /\ ~IsDependency(Next1)
    /\ IF Next1.source = "background_tasks" \/ (Next1.source = "request" /\ request.object)
       THEN Supply(FromRequest) ELSE Skip
    /\ UNCHANGED <<program, request, phase, kwargs, reported, cache, calls>>

Names(args) == {arg[1] : arg \in args}

\* What Python asks of a call with keyword arguments: each is a parameter, and each
\* parameter without a default is among them.
Takes(callable, args) ==
    LET signature == ToSet(program.declared.signatures[callable]) IN
    /\ Names(args) \subseteq {param.name : param \in signature}
    /\ {param.name : param \in {p \in signature : p.default.kind = "none"}} \subseteq Names(args)

\* A TypeError, before the first line of the callable.
Refuse == phase' = "refused" /\ UNCHANGED <<stack, cache, calls>>

\* call_with_async_handling: what is called is the replacement, with the arguments that the
\* plan of the original asked for.  A security scheme cannot be called.
CallDependency ==
    /\ phase = "resolve" /\ ~More /\ ~InLoop
    /\ \/ /\ Top.callable \notin Schemes /\ Takes(Top.callable, Top.kwargs)
          /\ Record(Top.entry, Top.callable, Top.kwargs, Top.scopes)
          /\ LET parent == stack[Len(stack) - 1] IN
             stack' = SubSeq(stack, 1, Len(stack) - 2)
                        \o <<Supplied(parent, Top.entry, Len(calls) + 1)>>
          /\ UNCHANGED phase
       \/ /\ Top.callable \notin Schemes /\ ~Takes(Top.callable, Top.kwargs)
          /\ Refuse
       \/ /\ Top.callable \in Schemes \/ Takes(Top.callable, Top.kwargs)
          /\ Raise
    /\ UNCHANGED <<program, request, kwargs, reported>>

\* "Merge resolved dep kwargs into kwargs"; the handler is called with them.
CallHandler ==
    /\ phase = "resolve" /\ ~More /\ InLoop
    /\ phase' = "handler"
    /\ kwargs' = kwargs \cup Top.kwargs
    /\ UNCHANGED <<program, request, reported, stack, cache, calls>>

Next ==
    \/ Extract
    \/ Reuse \/ ExtractScheme \/ Enter \/ TakeValue \/ TakeOther \/ CallDependency
    \/ CallHandler

\* The dispatcher's thread is scheduled and the callables return or raise.
Spec == Init /\ [][Next]_vars /\ WF_vars(Next)

-----------------------------------------------------------------------------

\* Whoever asks for a dependency ranks above whatever is called for it.
Layered ==
    \E rank \in [Callables -> 0..Cardinality(Callables)] :
        \A c \in Callables : \A i \in DOMAIN program.dep_plan[c] :
            LET entry == program.dep_plan[c][i] IN
            IsDependency(entry) => rank[Effective(entry.dep)] < rank[Effective(c)]

(***************************************************************************)
(* "leaf reached from two paths is called once per request" (tests,        *)
(* test_nested.py): however many plans ask for it and whatever it is the   *)
(* replacement of, a callable is called at most once for the entries that  *)
(* use the cache.  Unless it is called for itself, which overrides can     *)
(* bring about as well as a cycle.                                         *)
(***************************************************************************)
CachedOnce ==
    \/ \A i, j \in DOMAIN calls :
          /\ calls[i].cached /\ calls[j].cached
          /\ calls[i].callable = calls[j].callable
          => i = j
    \/ ~Layered

\* The number n is of a call that returned the value some entry asks for.
ValueOf(entry, n) ==
    n # FromRequest => n \in DOMAIN calls /\ calls[n].callable = Effective(entry.dep)

\* Every argument has an entry of its name that it is a value of.
Answers(args, params) ==
    \A arg \in args : \E i \in DOMAIN params :
        /\ params[i].name = arg[1]
        /\ IsDependency(params[i]) => arg[2] # FromRequest /\ ValueOf(params[i], arg[2])

\* The calls of dependencies, the one that was refused with them.
Attempts ==
    {[callable |-> calls[i].callable, dep |-> calls[i].dep, kwargs |-> calls[i].kwargs] :
        i \in DOMAIN calls}
    \cup {[callable |-> f.callable, dep |-> f.entry.dep, kwargs |-> f.kwargs] :
            f \in IF phase = "refused" THEN {Top} ELSE {}}

\* What is called is what the entry names, or replaces it with the same parameters.
Alike(call) ==
    /\ program.declared.signatures[call.callable] = program.declared.signatures[call.dep]
    /\ call.callable \in Schemes <=> call.dep \in Schemes

HasItsValues(call) == Answers(call.kwargs, program.dep_plan[call.callable])

(***************************************************************************)
(* resolve_dependencies: a dependency is called with values of what its    *)
(* own parameters ask for, the overrides of those applied, and with        *)
(* nothing else; and so is the handler. It does not hold for a replacement *)
(* with other parameters than the original, which gets what the original   *)
(* asks for, and is left out.                                              *)
(***************************************************************************)
ValuesAreTheirs ==
    /\ \A call \in Attempts : Alike(call) => HasItsValues(call)
    /\ phase = "handler" => Answers(kwargs, program.plan)

\* Without a default and without an argument: an Optional that is absent, unmarked bytes.
LeftOut(param, path_names, plan) ==
    \/ Source(param, path_names) = "skipped"
    \/ /\ param.optional
       /\ \E i \in DOMAIN plan : plan[i].name = param.name /\ Found(plan[i], Seen) = <<>>

\* Python has nothing of its own for these, or the Depends object.
Needs(signature, path_names, plan, supplied) ==
    {param.name : param \in {p \in ToSet(signature) :
        /\ p.default.kind \in {"none"} \cup Calling
        /\ IF IsInjected(p) THEN p.type \in supplied ELSE ~LeftOut(p, path_names, plan)}}

\* Body parameters whose model raises something else than a ValidationError.
Dropped ==
    LET Verdicts(param) ==
            IF param.embed THEN {request.body.fields[n] : n \in DOMAIN request.body.fields \cap {param.name}}
            ELSE {request.body.whole}
    IN  {program.plan[i].name : i \in {j \in DOMAIN program.plan :
            IsBody(program.plan[j]) /\ "raises" \in Verdicts(program.plan[j])}}

LacksNothing(call) ==
    Needs(program.declared.signatures[call.callable], {}, program.dep_plan[call.callable],
          {"security_scopes"}) \subseteq Names(call.kwargs)

(***************************************************************************)
(* "No value found and the param has a Python default" (ParamExtraction):  *)
(* a handler, and each dependency where no cycle was cut, is called with   *)
(* an argument for every parameter that was declared without a default.    *)
(* What is missing or does not convert is answered with a 422 before,      *)
(* never by a TypeError of the call.  Left out are the parameters for      *)
(* which it does not hold: an Optional without a default, bytes without a  *)
(* marker, what the code supplies in one of the two places only, and a     *)
(* body whose model raises something else than a ValidationError; and the  *)
(* replacements with other parameters than the original.                   *)
(***************************************************************************)
NobodyLacksAnArgument ==
    LET declared == program.declared IN
    /\ phase = "handler" =>
          Needs(declared.handler, declared.path_names, program.plan,
                {"background_tasks"} \cup IF request.object THEN {"request"} ELSE {})
             \ Dropped \subseteq Names(kwargs)
    /\ \A call \in Attempts :
          Layered /\ Alike(call) /\ call.dep \notin Schemes => LacksNothing(call)

\* A value that is there and cannot be the argument.
Wrong(param, raws) ==
    /\ ~IsFile(param)
    /\ \E i \in DOMAIN raws :
          /\ param.list \/ i = 1
          /\ \/ param.type \in Castable \ raws[i].parses
             \/ /\ ~param.list
                /\ param.validators \cap Applicable(param.type) \cap raws[i].breaks # {}

AtFault(param) ==
    /\ param.source \in OwnSources
    /\ IF Found(param, Seen) = <<>> THEN param.required ELSE Wrong(param, Found(param, Seen))

About(error, param) ==
    Len(error.loc) = 2 /\ error.loc[2] \in {param.name, LookupKey(param)}

(***************************************************************************)
(* "all errors come back at once (not first-fail)" (tests,                 *)
(* test_validation_errors.py): the 422 of the handler's own parameters     *)
(* names each one that is at fault, and what it names is at fault, or is   *)
(* part of a body.                                                         *)
(***************************************************************************)
EveryFaultReported ==
    phase = "invalid" /\ stack = <<>> =>
        /\ \A i \in DOMAIN program.plan :
              AtFault(program.plan[i]) =>
                  \E j \in DOMAIN reported : About(reported[j], program.plan[i])
        /\ \A j \in DOMAIN reported :
              Len(reported[j].loc) = 2 =>
                  \E i \in DOMAIN program.plan :
                      /\ About(reported[j], program.plan[i])
                      /\ AtFault(program.plan[i]) \/ IsBody(program.plan[i])

(***************************************************************************)
(* "Cycles are guarded by the `_seen` set" (compile_route_plan): whatever  *)
(* the dependencies ask for, themselves included, the resolution ends.     *)
(***************************************************************************)
ResolutionEnds == <>(phase \in {"handler", "invalid", "raised", "refused"})
=============================================================================
