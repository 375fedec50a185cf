----------------------------- MODULE Extraction -----------------------------
(***************************************************************************)
(* How an argument is taken out of a request: extract_one_param,           *)
(* cast_scalar, run_validators and extract_body_params                     *)
(* (crates/fr-pyiface/src/app.rs), parse_form_body and _extract_simple,    *)
(* the Python replica that serves the parameters of dependencies           *)
(* (_routing.py).                                                          *)
(*                                                                         *)
(* A parameter is an entry of a compiled plan.  Of a raw value only the    *)
(* kinds it parses as and the bounds it breaks are kept; of a form its     *)
(* fields; of a body what its JSON is and what the model says of the whole *)
(* and of each field.                                                      *)
(***************************************************************************)
EXTENDS Naturals, Sequences, SequencesExt

CONSTANTS
    None,       \* no alias
    Dashed,     \* name -> the name with its underscores replaced, where that differs
    Lower       \* key -> the key in lower case, where that differs

Castable == {"int", "float", "bool", "uuid"}
OwnSources == {"path", "query", "header", "cookie", "form", "file"}

\* In the order run_validators looks at them.
Bounds == <<"gt", "ge", "lt", "le", "min_length", "max_length", "pattern">>

\* Which of them a value of this kind is compared with.
Applicable(kind) ==
    CASE kind \in {"int", "float", "bool"} -> {"gt", "ge", "lt", "le"}
      [] kind = "uuid" -> {}
      [] OTHER -> {"min_length", "max_length", "pattern"}

Error(type, in, key) == [type |-> type, loc |-> <<in, key>>]

\* "value": an argument; "default": the handler's own default; "error": a 422.
Given(value) == [is |-> "value", value |-> value]
UseDefault == [is |-> "default"]
Refused(error) == [is |-> "error", error |-> error]

\* SelectSeq, written so that the proofs can unfold it.
Filter(s, Test(_)) ==
    LET upto[n \in 0..Len(s)] ==
            IF n = 0 THEN <<>>
            ELSE IF Test(s[n]) THEN Append(upto[n - 1], s[n]) ELSE upto[n - 1]
    IN  upto[Len(s)]

-----------------------------------------------------------------------------
(* One parameter *)

Or(f, x) == IF x \in DOMAIN f THEN f[x] ELSE x
At(f, key) == IF key \in DOMAIN f THEN f[key] ELSE <<>>

LookupKey(param) ==
    IF param.alias # None THEN param.alias
    ELSE IF param.source = "header" /\ param.convert_underscores
    THEN Or(Dashed, param.name)
    ELSE param.name

IsText(raw) == raw.text

\* What is handed over as it came: UploadFile, list[UploadFile], bytes.
IsFile(param) ==
    /\ param.source \in {"form", "file"}
    /\ param.type = "uploadfile" \/ (param.type = "bytes" /\ ~param.list)

\* The raw values a parameter of the handler is made from.
Found(param, request) ==
    LET form == At(request.form, LookupKey(param)) IN
    CASE param.source = "path" -> At(request.path, param.name)
      [] param.source = "query" -> At(request.query, LookupKey(param))
      [] param.source = "header" -> At(request.header, Or(Lower, LookupKey(param)))
      [] param.source = "cookie" -> At(request.cookie, LookupKey(param))
      [] param.source \in {"form", "file"} ->
            IF IsFile(param) THEN form
            ELSE IF param.type \in Castable \cup {"str", "any"} \/ param.list
            THEN Filter(form, IsText)
            ELSE <<>>
      [] OTHER -> <<>>

\* The first element of "loc".
Location(param) == IF param.source \in {"form", "file"} THEN "body" ELSE param.source

missing(param) == Error("missing", Location(param), LookupKey(param))

cast_scalar(kind, raw) == kind \in Castable => kind \in raw.parses

Uncast(param) == Error(param.type, Location(param), param.name)

\* Those of the validators the value fails, first one first.
Broken(param, raw) ==
    Filter(Bounds,
        LAMBDA b : b \in param.validators \cap Applicable(param.type) \cap raw.breaks)

\* run_validators does not know the source "body": a form field is reported in "query".
run_validators(param, raw) ==
    LET in == IF Location(param) = "body" THEN "query" ELSE Location(param) IN
    IF Broken(param, raw) = <<>> THEN Given(<<raw>>)
    ELSE Refused(Error(Head(Broken(param, raw)), in, param.name))

\* Lists are cast item by item and not validated; of a scalar the first value counts.
Converted(param, raws) ==
    IF param.list
    THEN IF \A i \in DOMAIN raws : cast_scalar(param.type, raws[i])
         THEN Given(raws) ELSE Refused(Uncast(param))
    ELSE IF cast_scalar(param.type, raws[1])
         THEN run_validators(param, raws[1]) ELSE Refused(Uncast(param))

Absent(param) == IF param.required THEN Refused(missing(param)) ELSE UseDefault

extract_one_param(param, request) ==
    LET raws == Found(param, request) IN
    IF param.source \notin OwnSources THEN UseDefault
    ELSE IF raws = <<>> THEN Absent(param)
    ELSE IF IsFile(param) THEN Given(raws)
    ELSE Converted(param, raws)

-----------------------------------------------------------------------------
(* A parameter of a dependency *)

\* Files are not told from text; what no source names is absent.
FoundSimple(param, request) ==
    IF param.source \in {"form", "file"} THEN At(request.form, LookupKey(param))
    ELSE Found(param, request)

\* Python's constructors; bool() takes any text.
_cast(kind, raw) == kind \in {"int", "float", "uuid"} => kind \in raw.lenient

\* No validators; a path parameter is one value, and not cast when it is to be a list.
_extract_simple(param, request) ==
    LET raws == FoundSimple(param, request)
        cast == IF ~param.list THEN {raws[1]}
                ELSE IF param.source = "path" THEN {} ELSE ToSet(raws)
    IN  IF raws = <<>> THEN Absent(param)
        ELSE IF \A raw \in cast : _cast(param.type, raw) THEN Given(raws)
        ELSE Refused(Uncast(param))

-----------------------------------------------------------------------------
(* Forms: fields in the order they were sent *)

\* A field with neither headers and a body nor a name is skipped.
IsField(part) == part.headers /\ part.name # None

\* `parts[1:-1]`: what follows the last boundary, be it the closer or a field cut short.
_parse_multipart(form) ==
    IF ~form.boundary THEN <<>>
    ELSE Filter(IF form.closed \/ form.parts = <<>> THEN form.parts ELSE Front(form.parts), IsField)

\* Field name -> its values.
parse_form_body(form) ==
    LET fields == CASE form.encoding = "urlencoded" -> form.parts
                    [] form.encoding = "multipart" -> _parse_multipart(form)
                    [] OTHER -> <<>>
    IN  [key \in {fields[i].name : i \in DOMAIN fields} |->
            LET own == Filter(fields, LAMBDA f : f.name = key) IN
            [i \in DOMAIN own |-> own[i].raw]]

-----------------------------------------------------------------------------
(* The body *)

Verdict(args, errors) == [args |-> args, errors |-> errors]

\* An exception that is no ValidationError has no errors() to report, and no value.
Validated(param, value, verdict, loc) ==
    IF param.type # "model" \/ verdict = "valid"
    THEN Verdict({<<param.name, value>>}, <<>>)
    ELSE IF verdict = "raises" THEN Verdict({}, <<>>)
    ELSE Verdict({}, <<[type |-> "model", loc |-> loc]>>)

MissingBody(param, loc) ==
    IF param.required THEN Verdict({}, <<[type |-> "missing", loc |-> loc]>>)
    ELSE Verdict({}, <<>>)

json_invalid == [type |-> "json_invalid", loc |-> <<"body">>]

IsBody(param) == param.source = "body"

\* "Single Pydantic body"
WholeBody(param, body) ==
    IF body.json = "empty" THEN MissingBody(param, <<param.name>>)
    ELSE IF body.json = "bad" THEN Verdict({}, <<json_invalid>>)
    ELSE Validated(param, <<>>, body.whole, <<"body">>)

\* One key of the envelope.
Enveloped(param, body) ==
    LET loc == <<"body", param.name>> IN
    IF body.json = "object" /\ param.name \in DOMAIN body.fields
    THEN Validated(param, <<>>, body.fields[param.name], loc)
    ELSE MissingBody(param, loc)

Join(verdicts) ==
    Verdict(UNION {verdicts[i].args : i \in DOMAIN verdicts},
            FlattenSeq([i \in DOMAIN verdicts |-> verdicts[i].errors]))

extract_body_params(plan, body) ==
    LET entries == Filter(plan, IsBody) IN
    IF entries = <<>> THEN Verdict({}, <<>>)
    ELSE IF Len(entries) = 1 /\ ~entries[1].embed THEN WholeBody(entries[1], body)
    ELSE IF body.json = "bad" THEN Verdict({}, <<json_invalid>>)
    ELSE Join([i \in DOMAIN entries |-> Enveloped(entries[i], body)])

\* "reject wrong Content-Type before even attempting to validate"
WrongContentType(plan, body) ==
    /\ \E i \in DOMAIN plan : IsBody(plan[i]) /\ plan[i].json_media
    /\ body.json # "empty"
    /\ body.content_type = "other"
=============================================================================
