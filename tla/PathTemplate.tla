---------------------------- MODULE PathTemplate ----------------------------
(***************************************************************************)
(* match_path_template (crates/fr-pyiface/src/app.rs): which URL paths a   *)
(* route's path template matches, and what its placeholders capture.       *)
(*                                                                         *)
(* A path is the sequence of its segments, "/a/b" is <<"a", "b">> and      *)
(* "/a/" is <<"a", "">>.  A template segment is a literal, {name} or       *)
(* {name:path}; any other type hint matches like {name}.                   *)
(***************************************************************************)
EXTENDS Naturals, Sequences, SequencesExt

Param == "{}"
CatchAll == "{:path}"

Placeholders == {Param, CatchAll}

NoMatch == [ok |-> FALSE, params |-> <<>>]

Matched(params) == [ok |-> TRUE, params |-> params]

\* Prefix a capture to what the rest of the template captures.
Capture(segments, rest) ==
    IF rest.ok THEN Matched(<<segments>> \o rest.params) ELSE NoMatch

\* Fault: left-over path segments are not noticed.
MatchFrom_NoEndTest(template, path) ==
    LET walk[i \in 1..Len(template) + 1] ==
            IF i > Len(template) THEN Matched(<<>>)
            ELSE IF i > Len(path) THEN NoMatch
            ELSE IF template[i] = CatchAll THEN Matched(<<SubSeq(path, i, Len(path))>>)
            ELSE IF template[i] = Param THEN Capture(<<path[i]>>, walk[i + 1])
            ELSE IF template[i] = path[i] THEN walk[i + 1]
            ELSE NoMatch
    IN  walk[1]

\* The loop over the segments: t_idx and p_idx advance together.
MatchFrom(template, path) ==
    LET walk[i \in 1..Len(template) + 1] ==
            IF i > Len(template)
            THEN IF Len(path) = Len(template) THEN Matched(<<>>) ELSE NoMatch
            ELSE IF i > Len(path) THEN NoMatch
            ELSE IF template[i] = CatchAll THEN Matched(<<SubSeq(path, i, Len(path))>>)
            ELSE IF template[i] = Param THEN Capture(<<path[i]>>, walk[i + 1])
            ELSE IF template[i] = path[i] THEN walk[i + 1]
            ELSE NoMatch
    IN  walk[1]

\* `template.contains('{')`
HasPlaceholder(template) == \E i \in 1..Len(template) : template[i] \in Placeholders

match_path_template(template, path) ==
    IF HasPlaceholder(template)
    THEN MatchFrom(template, path)
    ELSE IF template = path THEN Matched(<<>>) ELSE NoMatch

-----------------------------------------------------------------------------
(* The same, by what a match is *)

\* Position of the first catch-all, or of the end of the template.
Cut(template) ==
    CHOOSE i \in 1..Len(template) + 1 :
        /\ i <= Len(template) => template[i] = CatchAll
        /\ \A j \in 1..i - 1 : template[j] # CatchAll

\* Up to the catch-all, segments correspond one to one; the catch-all takes at least one.
Matches(template, path) ==
    /\ IF Cut(template) > Len(template)
       THEN Len(path) = Len(template)
       ELSE Len(path) >= Cut(template)
    /\ \A i \in 1..Cut(template) - 1 : template[i] \in {Param, path[i]}

\* The path written out: literals from the template, the rest from the captures.
Rendered(template, params) ==
    LET from[i \in 1..Len(template) + 1] ==
            [k \in 1..Len(params) + 1 |->
                IF i > Len(template) THEN <<>>
                ELSE IF template[i] \notin Placeholders THEN <<template[i]>> \o from[i + 1][k]
                ELSE IF k > Len(params) THEN <<>>
                ELSE IF template[i] = CatchAll THEN params[k]
                ELSE params[k] \o from[i + 1][k + 1]]
    IN  from[1][1]

\* A path is matched if and only if it corresponds, and what is captured spells it.
Exact(template, path) ==
    LET result == match_path_template(template, path) IN
    /\ result.ok <=> Matches(template, path)
    /\ result.ok => Rendered(template, result.params) = path
=============================================================================
