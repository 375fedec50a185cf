------------------------- MODULE Preparation_proofs -------------------------
(***************************************************************************)
(* Proofs about Preparation, for any callables, declarations, overrides    *)
(* and requests: arguments are values of what asks for them, a cached      *)
(* dependency is called once, a 422 names what is at fault, and nothing is *)
(* called without an argument it needs.                                    *)
(***************************************************************************)
EXTENDS Preparation, FiniteSetTheorems, WellFoundedInduction, TLAPS

-----------------------------------------------------------------------------
(* Natural numbers *)

\* A set of numbers has a least element.
LEMMA LeastOf ==
    ASSUME NEW I \in SUBSET Nat, I # {}
    PROVE  \E i \in I : \A j \in I : i <= j
<1> DEFINE Less == {s \in Nat \X Nat : s[1] < s[2]}
<1>1. IsWellFoundedOn(Less, Nat)
  BY NatLessThanWellFounded DEF OpToRel
<1>2. PICK i \in I : \A j \in I : <<j, i>> \notin Less
  <2> HIDE DEF Less
  <2> QED
    BY <1>1, WFMin
<1>3. ASSUME NEW j \in I PROVE i <= j
  <2>1. <<j, i>> \in Nat \X Nat /\ <<j, i>>[1] = j /\ <<j, i>>[2] = i
    OBVIOUS
  <2>2. ~(j < i)
    BY <1>2, <2>1
  <2> QED
    BY <2>2
<1> QED
  BY <1>3

\* Induction up to a bound, for a set of numbers.
LEMMA Induction ==
    ASSUME NEW N \in Nat, NEW P, 0 \in P, \A n \in 0..N - 1 : n \in P => n + 1 \in P
    PROVE  \A n \in 0..N : n \in P
<1> DEFINE Rest == (0..N) \ P
<1>1. Rest = {}
  <2> SUFFICES ASSUME Rest # {} PROVE FALSE
    OBVIOUS
  <2>1. PICK n \in Rest : \A j \in Rest : n <= j
    <3>1. Rest \in SUBSET Nat
      OBVIOUS
    <3> HIDE DEF Rest
    <3> QED
      BY <3>1, LeastOf
  <2>2. n - 1 \in 0..N - 1 /\ n - 1 \notin Rest
    BY <2>1
  <2> QED
    BY <2>1, <2>2
<1> QED
  BY <1>1

\* A function given by its first value and a step from each value to the next.
Stepping(step, N, X) == step \in [(1..N) \X X -> X]
Iterates(f, first, step, N, X) ==
    /\ f \in [0..N -> X]
    /\ f[0] = first
    /\ \A n \in 1..N : f[n] = step[<<n, f[n - 1]>>]

LEMMA Recursion ==
    ASSUME NEW N \in Nat, NEW X, NEW first \in X, NEW step, Stepping(step, N, X)
    PROVE  \E f : Iterates(f, first, step, N, X)
<1> USE DEF Stepping
<1> DEFINE Upto(k) == \E f \in [0..k -> X] :
                         f[0] = first /\ \A n \in 1..k : f[n] = step[<<n, f[n - 1]>>]
           P == {k \in 0..N : Upto(k)}
<1>1. 0 \in P
  <2> DEFINE f == [n \in 0..0 |-> first]
  <2>1. f \in [0..0 -> X] /\ f[0] = first /\ 1..0 = {}
    OBVIOUS
  <2>2. Upto(0)
    BY <2>1, Zenon
  <2> QED
    BY <2>2
<1>2. ASSUME NEW k \in 0..N - 1, k \in P PROVE k + 1 \in P
  <2>1. PICK f \in [0..k -> X] :
            f[0] = first /\ \A n \in 1..k : f[n] = step[<<n, f[n - 1]>>]
    BY <1>2
  <2> DEFINE g == [n \in 0..k + 1 |-> IF n <= k THEN f[n] ELSE step[<<k + 1, f[k]>>]]
  <2>2. k + 1 \in 1..N /\ f[k] \in X
    OBVIOUS
  <2>3. step[<<k + 1, f[k]>>] \in X
    BY <2>2
  <2>4. g \in [0..k + 1 -> X]
    BY <2>3
  <2>5. g[0] = first
    BY <2>1
  <2>6. ASSUME NEW n \in 1..k + 1 PROVE g[n] = step[<<n, g[n - 1]>>]
    <3>1. CASE n <= k
      BY <2>1, <3>1
    <3>2. CASE n = k + 1
      BY <3>2
    <3> QED
      BY <3>1, <3>2
  <2> HIDE DEF g
  <2>7. Upto(k + 1)
    BY <2>4, <2>5, <2>6
  <2> QED
    BY <2>7
<1> HIDE DEF P
<1>3. N \in P
  BY <1>1, <1>2, Induction
<1> QED
  BY <1>3 DEF P, Iterates

-----------------------------------------------------------------------------
(* Filter *)

\* r holds the elements of s at these indices, and no other.
Holds(r, s, indices) ==
    /\ r \in Seq(ToSet(s))
    /\ \A i \in indices : \E j \in 1..Len(r) : r[j] = s[i]
    /\ \A j \in 1..Len(r) : \E i \in indices : r[j] = s[i]
    /\ Len(r) <= 1 \/ \E i, k \in indices : i # k

\* What Filter's recursion is, for a set of indices.
Picks(f, s, indices) ==
    f = [n \in 0..Len(s) |->
            IF n = 0 THEN <<>>
            ELSE IF n \in indices THEN Append(f[n - 1], s[n]) ELSE f[n - 1]]

LEMMA SequenceFacts ==
    ASSUME NEW s, IsSequence(s)
    PROVE  /\ DOMAIN s = 1..Len(s) /\ Len(s) \in Nat
           /\ \A i \in 1..Len(s) : s[i] \in ToSet(s)
           /\ \A x \in ToSet(s) : \E i \in 1..Len(s) : x = s[i]
BY DEF IsSequence, ToSet

LEMMA PicksExist == ASSUME NEW s, IsSequence(s), NEW indices PROVE \E f : Picks(f, s, indices)
<1> DEFINE X == Seq(ToSet(s))
           step == [p \in (1..Len(s)) \X X |->
                       IF p[1] \in indices THEN Append(p[2], s[p[1]]) ELSE p[2]]
<1>1. Len(s) \in Nat /\ <<>> \in X
  BY SequenceFacts
<1>2. Stepping(step, Len(s), X)
  <2> SUFFICES ASSUME NEW p \in (1..Len(s)) \X X
               PROVE  (IF p[1] \in indices THEN Append(p[2], s[p[1]]) ELSE p[2]) \in X
    BY DEF Stepping
  <2>1. p[1] \in 1..Len(s) /\ p[2] \in X /\ s[p[1]] \in ToSet(s)
    BY SequenceFacts
  <2> QED
    BY <2>1
<1> HIDE DEF X
<1>3. PICK f : Iterates(f, <<>>, step, Len(s), X)
  <2> HIDE DEF step
  <2> QED
    BY <1>1, <1>2, Recursion
<1>4. ASSUME NEW n \in 1..Len(s)
      PROVE  f[n] = IF n \in indices THEN Append(f[n - 1], s[n]) ELSE f[n - 1]
  <2>1. <<n, f[n - 1]>> \in (1..Len(s)) \X X
    BY <1>1, <1>3 DEF Iterates
  <2> QED
    BY <1>3, <2>1 DEF Iterates
<1>5. f = [n \in 0..Len(s) |-> IF n = 0 THEN <<>>
                               ELSE IF n \in indices THEN Append(f[n - 1], s[n]) ELSE f[n - 1]]
  <2> HIDE DEF step
  <2>1. \A n \in 0..Len(s) : n = 0 \/ n \in 1..Len(s)
    BY <1>1
  <2> QED
    BY <1>3, <1>4, <2>1 DEF Iterates
<1> QED
  BY <1>5 DEF Picks

LEMMA PicksHold ==
    ASSUME NEW s, IsSequence(s), NEW indices \in SUBSET DOMAIN s, NEW f, Picks(f, s, indices)
    PROVE  Holds(f[Len(s)], s, indices)
<1> DEFINE T == ToSet(s)
           Good(r, n) ==
               /\ r \in Seq(T)
               /\ \A i \in indices : i <= n => \E j \in 1..Len(r) : r[j] = s[i]
               /\ \A j \in 1..Len(r) : \E i \in indices : r[j] = s[i]
               /\ \/ Len(r) = 0
                  \/ Len(r) = 1 /\ \E i \in indices : i <= n
                  \/ \E i, k \in indices : i # k
           P == {n \in 0..Len(s) : Good(f[n], n)}
<1>1. Len(s) \in Nat /\ DOMAIN s = 1..Len(s) /\ \A i \in 1..Len(s) : s[i] \in T
  BY SequenceFacts
<1>2. f[0] = <<>>
  BY <1>1 DEF Picks
<1>3. ASSUME NEW n \in 1..Len(s)
      PROVE  f[n] = IF n \in indices THEN Append(f[n - 1], s[n]) ELSE f[n - 1]
  <2>1. n \in 0..Len(s) /\ n # 0
    BY <1>1
  <2> QED
    BY <2>1 DEF Picks
<1> HIDE DEF T
<1>4. 0 \in P
  <2>1. Good(<<>>, 0)
    BY <1>1
  <2> HIDE DEF Good
  <2>2. Good(f[0], 0)
    BY <1>2, <2>1
  <2> QED
    BY <1>1, <2>2
<1>5. ASSUME NEW n \in 0..Len(s) - 1, n \in P PROVE n + 1 \in P
  <2>1. n + 1 \in 1..Len(s) /\ (n + 1) - 1 = n /\ n \in Nat
    BY <1>1
  <2> DEFINE a == f[n]
             b == f[n + 1]
  <2>0. Good(a, n)
    BY <1>5
  <2>2. a \in Seq(T) /\ Len(a) \in Nat
    BY <2>0 DEF a
  <2>3. b = IF n + 1 \in indices THEN Append(a, s[n + 1]) ELSE a
    BY <1>3, <2>1
  <2>4. ASSUME n + 1 \in indices PROVE Good(b, n + 1)
    <3>1. b = Append(a, s[n + 1]) /\ s[n + 1] \in T
      BY <1>1, <2>1, <2>3, <2>4
    <3> HIDE DEF a, b
    <3>2. /\ b \in Seq(T) /\ Len(b) = Len(a) + 1
          /\ \A j \in 1..Len(a) : b[j] = a[j]
          /\ b[Len(a) + 1] = s[n + 1]
      BY <2>2, <3>1
    <3>3. ASSUME NEW i \in indices, i <= n + 1 PROVE \E j \in 1..Len(b) : b[j] = s[i]
      <4>1. CASE i = n + 1
        BY <2>2, <3>2, <4>1
      <4>2. CASE i # n + 1
        <5>1. i <= n
          BY <1>1, <2>1, <3>3, <4>2
        <5>2. PICK j \in 1..Len(a) : a[j] = s[i]
          BY <2>0, <5>1 DEF a
        <5>3. j \in 1..Len(b) /\ b[j] = s[i]
          BY <2>2, <3>2, <5>2
        <5> QED
          BY <5>3
      <4> QED
        BY <4>1, <4>2
    <3>5. Len(b) = 1 \/ \E i, k \in indices : i # k
      <4>1. CASE Len(a) = 0
        BY <3>2, <4>1
      <4>2. CASE \E i \in indices : i <= n
        <5>1. PICK i \in indices : i <= n
          BY <4>2
        <5>2. i # n + 1
          BY <1>1, <2>1, <5>1
        <5> QED
          BY <2>4, <5>2
      <4>3. CASE \E i, k \in indices : i # k
        BY <4>3
      <4> QED
        BY <2>0, <4>1, <4>2, <4>3 DEF a
    <3>4. ASSUME NEW j \in 1..Len(b) PROVE \E i \in indices : b[j] = s[i]
      <4>1. CASE j = Len(a) + 1
        BY <2>4, <3>2, <4>1
      <4>2. CASE j # Len(a) + 1
        <5>1. j \in 1..Len(a) /\ b[j] = a[j]
          BY <2>2, <3>2, <4>2
        <5> QED
          BY <2>0, <5>1 DEF a
      <4> QED
        BY <4>1, <4>2
    <3>6. n + 1 <= n + 1
      BY <2>1
    <3> QED
      BY <2>4, <3>2, <3>3, <3>4, <3>5, <3>6
  <2>5. ASSUME n + 1 \notin indices PROVE Good(b, n + 1)
    <3>1. b = a
      BY <2>3, <2>5
    <3>2. \A i \in indices : (i <= n + 1 => i <= n) /\ (i <= n => i <= n + 1)
      BY <1>1, <2>1, <2>5
    <3> HIDE DEF a, b
    <3> QED
      BY <2>0, <3>1, <3>2
  <2>6. Good(b, n + 1)
    BY <2>4, <2>5
  <2> HIDE DEF Good
  <2> QED
    BY <1>1, <2>1, <2>6 DEF P, b
<1> HIDE DEF P
<1>6. Len(s) \in P
  BY <1>1, <1>4, <1>5, Induction
<1> PICK r : r = f[Len(s)]
  OBVIOUS
<1>7. Good(r, Len(s))
  BY <1>6 DEF P
<1>8. Len(r) <= 1 \/ \E i, k \in indices : i # k
  BY <1>7
<1>9. \A i \in indices : i <= Len(s)
  BY <1>1
<1> QED
  BY <1>7, <1>8, <1>9 DEF Holds, T

LEMMA BodiesHeld ==
    ASSUME NEW s, IsSequence(s)
    PROVE  Holds(Filter(s, IsBody), s, {i \in DOMAIN s : IsBody(s[i])})
<1> DEFINE indices == {i \in DOMAIN s : IsBody(s[i])}
           upto == CHOOSE f : f = [n \in 0..Len(s) |->
                      IF n = 0 THEN <<>>
                      ELSE IF IsBody(s[n]) THEN Append(f[n - 1], s[n]) ELSE f[n - 1]]
<1>1. ASSUME NEW f
      PROVE  Picks(f, s, indices) <=>
                 f = [n \in 0..Len(s) |->
                         IF n = 0 THEN <<>>
                         ELSE IF IsBody(s[n]) THEN Append(f[n - 1], s[n]) ELSE f[n - 1]]
  <2>1. \A n \in 0..Len(s) : n # 0 => (n \in indices <=> IsBody(s[n]))
    BY SequenceFacts
  <2> HIDE DEF indices
  <2> QED
    BY <2>1 DEF Picks
<1>2. \E f : Picks(f, s, indices)
  BY PicksExist
<1>3. Picks(upto, s, indices)
  <2> HIDE DEF indices
  <2> QED
    BY <1>1, <1>2
<1>4. Filter(s, IsBody) = upto[Len(s)]
  BY DEF Filter
<1> HIDE DEF upto
<1> QED
  BY <1>3, <1>4, PicksHold

-----------------------------------------------------------------------------
(* Compiled plans *)

LEMMA FunctionIsSequence ==
    ASSUME NEW n \in Nat, NEW q, q = [i \in 1..n |-> q[i]]
    PROVE  IsSequence(q) /\ DOMAIN q = 1..n /\ Len(q) = n
<1>1. DOMAIN q = 1..n
  OBVIOUS
<1>2. \A i \in 1..n : q[i] \in ToSet(q)
  BY <1>1 DEF ToSet
<1>3. q \in Seq(ToSet(q))
  <2> DEFINE T == ToSet(q)
  <2>1. q \in [1..n -> T]
    BY <1>2
  <2> HIDE DEF T
  <2>2. q \in Seq(T)
    BY <2>1
  <2> QED
    BY <2>2 DEF T
<1>4. Len(q) = n
  BY <1>1, <1>3
<1> QED
  BY <1>1, <1>3, <1>4 DEF IsSequence

IsKept(param, path_names) == IsInjected(param) \/ Source(param, path_names) # "skipped"

LEMMA KeptHeld ==
    ASSUME NEW s, IsSequence(s), NEW path_names
    PROVE  Holds(Filter(s, LAMBDA param : IsKept(param, path_names)), s,
                 {i \in DOMAIN s : IsKept(s[i], path_names)})
<1> DEFINE indices == {i \in DOMAIN s : IsKept(s[i], path_names)}
           upto == CHOOSE f : f = [n \in 0..Len(s) |->
                      IF n = 0 THEN <<>>
                      ELSE IF IsKept(s[n], path_names) THEN Append(f[n - 1], s[n]) ELSE f[n - 1]]
<1>1. ASSUME NEW f
      PROVE  Picks(f, s, indices) <=>
                 f = [n \in 0..Len(s) |->
                         IF n = 0 THEN <<>>
                         ELSE IF IsKept(s[n], path_names) THEN Append(f[n - 1], s[n])
                         ELSE f[n - 1]]
  <2>1. \A n \in 0..Len(s) : n # 0 => (n \in indices <=> IsKept(s[n], path_names))
    BY SequenceFacts
  <2> HIDE DEF indices
  <2> QED
    BY <2>1 DEF Picks
<1>2. \E f : Picks(f, s, indices)
  BY PicksExist
<1>3. Picks(upto, s, indices)
  <2> HIDE DEF indices
  <2> QED
    BY <1>1, <1>2
<1>4. Filter(s, LAMBDA param : IsKept(param, path_names)) = upto[Len(s)]
  BY DEF Filter
<1> HIDE DEF upto
<1> QED
  BY <1>3, <1>4, PicksHold

NamesOne(marker) == marker.dep # None

LEMMA NamedHeld ==
    ASSUME NEW s, IsSequence(s)
    PROVE  Holds(Filter(s, NamesOne), s, {i \in DOMAIN s : NamesOne(s[i])})
<1> DEFINE indices == {i \in DOMAIN s : NamesOne(s[i])}
           upto == CHOOSE f : f = [n \in 0..Len(s) |->
                      IF n = 0 THEN <<>>
                      ELSE IF NamesOne(s[n]) THEN Append(f[n - 1], s[n]) ELSE f[n - 1]]
<1>1. ASSUME NEW f
      PROVE  Picks(f, s, indices) <=>
                 f = [n \in 0..Len(s) |->
                         IF n = 0 THEN <<>>
                         ELSE IF NamesOne(s[n]) THEN Append(f[n - 1], s[n]) ELSE f[n - 1]]
  <2>1. \A n \in 0..Len(s) : n # 0 => (n \in indices <=> NamesOne(s[n]))
    BY SequenceFacts
  <2> HIDE DEF indices
  <2> QED
    BY <2>1 DEF Picks
<1>2. \E f : Picks(f, s, indices)
  BY PicksExist
<1>3. Picks(upto, s, indices)
  <2> HIDE DEF indices
  <2> QED
    BY <1>1, <1>2
<1>4. Filter(s, NamesOne) = upto[Len(s)]
  BY DEF Filter
<1> HIDE DEF upto
<1> QED
  BY <1>3, <1>4, PicksHold

\* An entry says what was compiled from the parameter; Embedded decides on `embed`.
CompiledFrom(entry, param, path_names) ==
    LET compiled == Compiled(param, path_names) IN
    entry = compiled \/ entry = [compiled EXCEPT !.embed = TRUE]

LEMMA PlanOfSignature ==
    ASSUME NEW params, IsSequence(params), NEW path_names
    PROVE  LET plan == compile_route_plan(params, path_names) IN
           /\ IsSequence(plan)
           /\ \A i \in DOMAIN plan : \E k \in DOMAIN params :
                 CompiledFrom(plan[i], params[k], path_names)
           /\ \A k \in DOMAIN params : IsKept(params[k], path_names) =>
                 \E i \in DOMAIN plan : CompiledFrom(plan[i], params[k], path_names)
<1> DEFINE kept == Filter(params, LAMBDA param : IsKept(param, path_names))
           flat == [i \in DOMAIN kept |-> Compiled(kept[i], path_names)]
           plan == Embedded(flat)
<1>1. compile_route_plan(params, path_names) = plan
  BY DEF compile_route_plan, Filter, IsKept
<1>2. Holds(kept, params, {i \in DOMAIN params : IsKept(params[i], path_names)})
  BY KeptHeld
<1> HIDE DEF kept
<1>3. DOMAIN kept = 1..Len(kept) /\ Len(kept) \in Nat
  BY <1>2 DEF Holds
<1>4. DOMAIN plan = DOMAIN flat /\ plan = [i \in 1..Len(kept) |-> plan[i]]
  BY <1>3 DEF Embedded
<1>5. ASSUME NEW i \in 1..Len(kept) PROVE CompiledFrom(plan[i], kept[i], path_names)
  <2>1. flat[i] = Compiled(kept[i], path_names)
    BY <1>3
  <2>2. plan[i] = flat[i] \/ plan[i] = [flat[i] EXCEPT !.embed = TRUE]
    BY <1>3 DEF Embedded
  <2> HIDE DEF flat, plan
  <2> QED
    BY <2>1, <2>2 DEF CompiledFrom
<1> HIDE DEF plan
<1>6. IsSequence(plan) /\ DOMAIN plan = 1..Len(kept)
  BY <1>3, <1>4, FunctionIsSequence
<1>7. \A i \in DOMAIN plan : \E k \in DOMAIN params :
          CompiledFrom(plan[i], params[k], path_names)
  BY <1>2, <1>5, <1>6 DEF Holds
<1>8. \A k \in DOMAIN params : IsKept(params[k], path_names) =>
          \E i \in DOMAIN plan : CompiledFrom(plan[i], params[k], path_names)
  BY <1>2, <1>5, <1>6 DEF Holds
<1> QED
  BY <1>1, <1>6, <1>7, <1>8

\* What an entry and its parameter have in common.
LEMMA CompiledEntry ==
    ASSUME NEW param, NEW path_names, NEW entry, CompiledFrom(entry, param, path_names)
    PROVE  /\ entry.name = param.name
           /\ ~entry.internal
           /\ IsDependency(entry) =>
                 /\ Source(param, path_names) \in Calling
                 /\ entry.dep = _resolve_depends_callable(param)
<1> DEFINE compiled == Compiled(param, path_names)
<1>1. /\ compiled.name = param.name
      /\ ~compiled.internal
      /\ IsDependency(compiled) =>
            /\ Source(param, path_names) \in Calling
            /\ compiled.dep = _resolve_depends_callable(param)
  <2>1. CASE IsInjected(param)
    BY <2>1 DEF Compiled, Entry, IsInjected, Injected, IsDependency, Calling
  <2>2. CASE ~IsInjected(param)
    BY <2>2 DEF Compiled, Entry, IsDependency, Calling, IsUpload, Called
  <2> QED
    BY <2>1, <2>2
<1>2. /\ entry.name = compiled.name /\ entry.internal = compiled.internal
      /\ entry.source = compiled.source /\ entry.dep = compiled.dep
  <2>1. CASE entry = compiled
    BY <2>1
  <2>2. CASE entry = [compiled EXCEPT !.embed = TRUE]
    BY <2>2 DEF Compiled, Entry
  <2> QED
    BY <2>1, <2>2 DEF CompiledFrom
<1> QED
  BY <1>1, <1>2 DEF IsDependency

LEMMA ExtraPlan ==
    ASSUME NEW markers, IsSequence(markers),
           \A i \in DOMAIN markers : markers[i].dep \in Callables \cup {None}
    PROVE  LET extra == expand_route_level_dependencies(markers) IN
           /\ IsSequence(extra)
           /\ \A i \in DOMAIN extra :
                 extra[i].internal /\ IsDependency(extra[i]) /\ extra[i].dep \in Callables
<1> DEFINE named == Filter(markers, NamesOne)
           extra == [i \in DOMAIN named |->
                        Entry("_internal_dep", "depends", "any", FALSE, TRUE, NoOptions,
                              Called(named[i].dep, named[i].use_cache, named[i].scopes), TRUE)]
<1>1. expand_route_level_dependencies(markers) = extra
  BY DEF expand_route_level_dependencies, Filter, NamesOne
<1>2. Holds(named, markers, {i \in DOMAIN markers : NamesOne(markers[i])})
  BY NamedHeld
<1> HIDE DEF named
<1>3. DOMAIN named = 1..Len(named) /\ Len(named) \in Nat
  BY <1>2 DEF Holds
<1>4. extra = [i \in 1..Len(named) |-> extra[i]]
  BY <1>3
<1>5. ASSUME NEW i \in 1..Len(named)
      PROVE  extra[i].internal /\ IsDependency(extra[i]) /\ extra[i].dep \in Callables
  <2>1. PICK k \in DOMAIN markers : named[i] = markers[k] /\ markers[k].dep # None
    BY <1>2 DEF Holds, NamesOne
  <2>2. named[i].dep \in Callables
    BY <2>1
  <2>3. extra[i].dep = named[i].dep /\ extra[i].internal /\ extra[i].source = "depends"
    BY <1>3 DEF Entry, Called
  <2> QED
    BY <2>2, <2>3 DEF IsDependency, Calling
<1> HIDE DEF extra
<1> QED
  BY <1>1, <1>3, <1>4, <1>5, FunctionIsSequence

-----------------------------------------------------------------------------
(* The inductive invariant *)

CallsCallables(params) ==
    /\ IsSequence(params)
    /\ \A i \in DOMAIN params : IsDependency(params[i]) => params[i].dep \in Callables

\* What registration makes of the declarations.
ProgramInv ==
    /\ CallsCallables(program.plan) /\ CallsCallables(program.extra)
    /\ \A i \in DOMAIN program.plan : ~program.plan[i].internal
    /\ \A i \in DOMAIN program.extra : program.extra[i].internal
    /\ \A c \in Callables :
          /\ CallsCallables(program.dep_plan[c])
          /\ \A i \in DOMAIN program.dep_plan[c] : ~program.dep_plan[c][i].internal
    /\ program.overrides \in [Callables -> Callables]

IsFrame(f) ==
    f = [entry |-> f.entry, callable |-> f.callable, params |-> f.params, seen |-> f.seen,
         scopes |-> f.scopes, at |-> f.at, kwargs |-> f.kwargs]

\* An argument is a value of an entry that forwards one.
ValueFor(entry, value) ==
    IsDependency(entry) => value # FromRequest /\ ValueOf(entry, value)

FrameInv(f) ==
    /\ IsFrame(f)
    /\ CallsCallables(f.params)
    /\ f.at \in 1..Len(f.params) + 1
    /\ \A arg \in f.kwargs : \E i \in DOMAIN f.params :
          /\ ~f.params[i].internal
          /\ f.params[i].name = arg[1]
          /\ ValueFor(f.params[i], arg[2])

\* A frame is of the entry its caller has come to.
Linked(f, caller) ==
    /\ caller.at <= Len(caller.params)
    /\ f.entry = caller.params[caller.at]
    /\ IsDependency(f.entry)
    /\ f.callable = Effective(f.entry.dep)
    /\ f.params \in {<<>>, program.dep_plan[f.entry.dep]}

StackInv ==
    /\ IsSequence(stack)
    /\ phase = "extract" => stack = <<>>
    /\ phase \in {"resolve", "refused"} => stack # <<>>
    /\ \A k \in DOMAIN stack : FrameInv(stack[k])
    /\ stack # <<>> => stack[1].params = program.extra \o program.plan
    /\ \A k \in 2..Len(stack) : Linked(stack[k], stack[k - 1])

CacheInv ==
    /\ cache \in [Callables -> Nat]
    /\ \A c \in Callables :
          cache[c] # 0 => cache[c] \in DOMAIN calls /\ calls[cache[c]].callable = c

CallsInv ==
    /\ IsSequence(calls)
    /\ \A i \in DOMAIN calls :
          /\ calls[i].dep \in Callables /\ calls[i].callable \in Callables
          /\ Answers(calls[i].kwargs, program.dep_plan[calls[i].dep])

ValuesInv == ProgramInv /\ StackInv /\ CacheInv /\ CallsInv /\ Answers(kwargs, program.plan)

LEMMA CompiledPlan ==
    ASSUME NEW params, NEW path_names, Signature(params, path_names)
    PROVE  LET plan == compile_route_plan(params, path_names) IN
           CallsCallables(plan) /\ \A i \in DOMAIN plan : ~plan[i].internal
<1> DEFINE plan == compile_route_plan(params, path_names)
<1>1. IsSequence(params)
  BY DEF Signature
<1>2. /\ IsSequence(plan)
      /\ \A i \in DOMAIN plan : \E k \in DOMAIN params :
            CompiledFrom(plan[i], params[k], path_names)
  BY <1>1, PlanOfSignature
<1> HIDE DEF plan
<1>3. ASSUME NEW i \in DOMAIN plan
      PROVE  ~plan[i].internal /\ (IsDependency(plan[i]) => plan[i].dep \in Callables)
  <2>1. PICK k \in DOMAIN params : CompiledFrom(plan[i], params[k], path_names)
    BY <1>2
  <2> QED
    BY <2>1, CompiledEntry DEF Signature
<1> QED
  BY <1>2, <1>3 DEF CallsCallables, plan

LEMMA InitProgram == Init => ProgramInv
<1> SUFFICES ASSUME Init PROVE ProgramInv
  OBVIOUS
<1>1. PICK s \in Scenarios : program = Registered(s[1])
  BY DEF Init
<1> DEFINE declared == s[1]
<1>2. /\ Signature(declared.handler, declared.path_names)
      /\ \A c \in Callables : Signature(declared.signatures[c], {})
      /\ IsSequence(declared.dependencies)
      /\ \A i \in DOMAIN declared.dependencies :
            declared.dependencies[i].dep \in Callables \cup {None}
      /\ declared.overrides \in [Callables -> Callables]
  BY ScenariosAssumption
<1> HIDE DEF declared
<1>3. /\ program.plan = compile_route_plan(declared.handler, declared.path_names)
      /\ program.extra = expand_route_level_dependencies(declared.dependencies)
      /\ program.overrides = declared.overrides
      /\ \A c \in Callables : program.dep_plan[c] =
            IF c \in Schemes THEN <<>> ELSE compile_route_plan(declared.signatures[c], {})
  BY <1>1 DEF Registered, declared
<1>4. CallsCallables(program.plan) /\ \A i \in DOMAIN program.plan : ~program.plan[i].internal
  BY <1>2, <1>3, CompiledPlan
<1>5. CallsCallables(program.extra) /\ \A i \in DOMAIN program.extra : program.extra[i].internal
  BY <1>2, <1>3, ExtraPlan DEF CallsCallables
<1>6. ASSUME NEW c \in Callables
      PROVE  /\ CallsCallables(program.dep_plan[c])
             /\ \A i \in DOMAIN program.dep_plan[c] : ~program.dep_plan[c][i].internal
  <2>1. CASE c \in Schemes
    <3>1. program.dep_plan[c] = <<>> /\ DOMAIN <<>> = {} /\ IsSequence(<<>>)
      BY <1>3, <2>1 DEF IsSequence, ToSet
    <3> QED
      BY <3>1 DEF CallsCallables
  <2>2. CASE c \notin Schemes
    BY <1>2, <1>3, <2>2, CompiledPlan
  <2> QED
    BY <2>1, <2>2
<1> QED
  BY <1>2, <1>3, <1>4, <1>5, <1>6 DEF ProgramInv

LEMMA InitValues == Init => ValuesInv
<1> SUFFICES ASSUME Init PROVE ValuesInv
  OBVIOUS
<1>1. IsSequence(<<>>) /\ DOMAIN <<>> = {} /\ Len(<<>>) = 0
  BY DEF IsSequence, ToSet
<1>2. StackInv
  BY <1>1 DEF Init, StackInv
<1>3. CacheInv /\ CallsInv
  BY <1>1 DEF Init, CacheInv, CallsInv
<1>4. Answers(kwargs, program.plan)
  BY DEF Init, Answers
<1> QED
  BY InitProgram, <1>2, <1>3, <1>4 DEF ValuesInv

-----------------------------------------------------------------------------
(* What the steps do to the stack *)

LEMMA OwnElements == ASSUME NEW S, NEW s \in Seq(S) PROVE IsSequence(s)
<1>1. s = [i \in 1..Len(s) |-> s[i]] /\ Len(s) \in Nat
  OBVIOUS
<1> QED
  BY <1>1, FunctionIsSequence

\* A sequence cut to a length, with another last element.
LEMMA LastReplaced ==
    ASSUME NEW s, IsSequence(s), NEW n \in 1..Len(s), NEW f
    PROVE  LET t == SubSeq(s, 1, n - 1) \o <<f>> IN
           /\ IsSequence(t) /\ DOMAIN t = 1..n /\ Len(t) = n
           /\ t[n] = f /\ \A k \in 1..n - 1 : t[k] = s[k]
<1> DEFINE S == ToSet(s) \cup {f}
           t == SubSeq(s, 1, n - 1) \o <<f>>
<1>1. s \in Seq(S) /\ f \in S
  <2>1. s \in Seq(ToSet(s))
    BY DEF IsSequence
  <2> DEFINE T == ToSet(s)
  <2> HIDE DEF T
  <2> QED
    BY <2>1 DEF T
<1> HIDE DEF S
<1>2. SubSeq(s, 1, n - 1) \in Seq(S) /\ Len(SubSeq(s, 1, n - 1)) = n - 1
      /\ \A k \in 1..n - 1 : SubSeq(s, 1, n - 1)[k] = s[k]
  BY <1>1
<1>3. t \in Seq(S) /\ Len(t) = n /\ t[n] = f /\ \A k \in 1..n - 1 : t[k] = s[k]
  BY <1>1, <1>2
<1> HIDE DEF t
<1>4. IsSequence(t) /\ DOMAIN t = 1..n
  BY <1>3, OwnElements
<1> QED
  BY <1>3, <1>4 DEF t

LEMMA Appended ==
    ASSUME NEW s, IsSequence(s), NEW f
    PROVE  LET t == Append(s, f) IN
           /\ IsSequence(t) /\ DOMAIN t = 1..Len(s) + 1 /\ Len(t) = Len(s) + 1
           /\ t[Len(s) + 1] = f /\ \A k \in 1..Len(s) : t[k] = s[k]
<1> DEFINE S == ToSet(s) \cup {f}
           t == Append(s, f)
<1>1. s \in Seq(S) /\ f \in S
  <2>1. s \in Seq(ToSet(s))
    BY DEF IsSequence
  <2> DEFINE T == ToSet(s)
  <2> HIDE DEF T
  <2> QED
    BY <2>1 DEF T
<1> HIDE DEF S
<1>2. /\ t \in Seq(S) /\ Len(t) = Len(s) + 1
      /\ t[Len(s) + 1] = f /\ \A k \in 1..Len(s) : t[k] = s[k]
  BY <1>1
<1> HIDE DEF t
<1>3. IsSequence(t) /\ DOMAIN t = 1..Len(s) + 1
  BY <1>2, OwnElements
<1> QED
  BY <1>2, <1>3 DEF t

\* Calls are only added.
CallsKept ==
    /\ UNCHANGED program
    /\ \A n \in DOMAIN calls : n \in DOMAIN calls' /\ calls'[n] = calls[n]

LEMMA ValueKept ==
    ASSUME CallsKept, NEW entry, NEW value, ValueFor(entry, value)
    PROVE  ValueFor(entry, value)'
BY DEF CallsKept, ValueFor, ValueOf, Effective

LEMMA FrameKept == ASSUME CallsKept, NEW f, FrameInv(f) PROVE FrameInv(f)'
<1>1. ASSUME NEW arg \in f.kwargs
      PROVE  \E i \in DOMAIN f.params :
                 ~f.params[i].internal /\ f.params[i].name = arg[1]
                 /\ ValueFor(f.params[i], arg[2])'
  <2>1. PICK i \in DOMAIN f.params :
            ~f.params[i].internal /\ f.params[i].name = arg[1] /\ ValueFor(f.params[i], arg[2])
    BY DEF FrameInv
  <2> QED
    BY <2>1, ValueKept
<1> QED
  BY <1>1 DEF FrameInv

LEMMA FrameFields ==
    ASSUME NEW f, IsFrame(f), NEW at, NEW args
    PROVE  [f EXCEPT !.at = at, !.kwargs = args] =
              [entry |-> f.entry, callable |-> f.callable, params |-> f.params,
               seen |-> f.seen, scopes |-> f.scopes, at |-> at, kwargs |-> args]
<1> DEFINE g == [f EXCEPT !.at = at]
<1>1. g = [entry |-> f.entry, callable |-> f.callable, params |-> f.params,
           seen |-> f.seen, scopes |-> f.scopes, at |-> at, kwargs |-> f.kwargs]
  BY DEF IsFrame
<1> HIDE DEF g
<1>2. /\ g.entry = f.entry /\ g.callable = f.callable /\ g.params = f.params
      /\ g.seen = f.seen /\ g.scopes = f.scopes /\ g.at = at /\ g.kwargs = f.kwargs
  BY <1>1
<1>3. g = [entry |-> g.entry, callable |-> g.callable, params |-> g.params,
           seen |-> g.seen, scopes |-> g.scopes, at |-> g.at, kwargs |-> g.kwargs]
  BY <1>1, <1>2
<1>4. [g EXCEPT !.kwargs = args] =
          [entry |-> g.entry, callable |-> g.callable, params |-> g.params,
           seen |-> g.seen, scopes |-> g.scopes, at |-> g.at, kwargs |-> args]
  BY <1>3
<1> QED
  BY <1>2, <1>4 DEF g

\* g is what comes of f when it is supplied with the value.
IsSupplied(g, f, entry, value) ==
    /\ IsFrame(g) /\ g.params = f.params /\ g.entry = f.entry /\ g.callable = f.callable
    /\ g.seen = f.seen /\ g.at = f.at + 1
    /\ g.kwargs = IF entry.internal THEN f.kwargs ELSE f.kwargs \cup {<<entry.name, value>>}

LEMMA SuppliedFrame ==
    ASSUME NEW f, IsFrame(f), NEW entry, NEW value
    PROVE  IsSupplied(Supplied(f, entry, value), f, entry, value)
<1> DEFINE g == Supplied(f, entry, value)
           args == IF entry.internal THEN f.kwargs ELSE f.kwargs \cup {<<entry.name, value>>}
<1>1. g = [f EXCEPT !.at = f.at + 1, !.kwargs = args]
  BY DEF Supplied
<1> HIDE DEF g, args
<1>2. g = [entry |-> f.entry, callable |-> f.callable, params |-> f.params,
           seen |-> f.seen, scopes |-> f.scopes, at |-> f.at + 1, kwargs |-> args]
  BY <1>1, FrameFields
<1>3. g.entry = f.entry /\ g.callable = f.callable /\ g.params = f.params /\ g.seen = f.seen
      /\ g.scopes = f.scopes /\ g.at = f.at + 1 /\ g.kwargs = args
  BY <1>2
<1>4. IsFrame(g)
  BY <1>2, <1>3 DEF IsFrame
<1>5. IsSupplied(g, f, entry, value)
  BY <1>3, <1>4 DEF IsSupplied, args
<1> QED
  BY <1>5 DEF g

\* A frame that is supplied with a value.
LEMMA FrameSupplied ==
    ASSUME NEW f, FrameInv(f), CallsKept, f.at <= Len(f.params),
           NEW entry, entry = f.params[f.at], NEW value, ValueFor(entry, value)'
    PROVE  LET g == Supplied(f, entry, value) IN
           /\ FrameInv(g)'
           /\ g.params = f.params /\ g.entry = f.entry /\ g.callable = f.callable
<1> DEFINE g == Supplied(f, entry, value)
<1>0. IsSupplied(g, f, entry, value)
  BY SuppliedFrame DEF FrameInv
<1>1. /\ IsFrame(g) /\ g.params = f.params /\ g.entry = f.entry /\ g.callable = f.callable
      /\ g.at = f.at + 1
      /\ g.kwargs = IF entry.internal THEN f.kwargs ELSE f.kwargs \cup {<<entry.name, value>>}
  BY <1>0 DEF IsSupplied
<1>2. /\ Len(f.params) \in Nat /\ DOMAIN f.params = 1..Len(f.params)
      /\ f.at \in DOMAIN f.params /\ g.at \in 1..Len(g.params) + 1
  BY <1>1, SequenceFacts DEF FrameInv, CallsCallables
<1>3. FrameInv(f)'
  BY FrameKept
<1>4. ASSUME NEW arg \in g.kwargs
      PROVE  \E i \in DOMAIN f.params :
                 ~f.params[i].internal /\ f.params[i].name = arg[1]
                 /\ ValueFor(f.params[i], arg[2])'
  <2>1. CASE arg \in f.kwargs
    BY <1>3, <2>1 DEF FrameInv
  <2>2. CASE ~entry.internal /\ arg = <<entry.name, value>>
    BY <1>2, <2>2
  <2> HIDE DEF g
  <2> QED
    BY <1>1, <1>4, <2>1, <2>2
<1> HIDE DEF g
<1>5. FrameInv(g)'
  BY <1>1, <1>2, <1>4 DEF FrameInv
<1> QED
  BY <1>1, <1>5 DEF g

\* A frame changes that is at the top, or comes there because those above it are left.
LEMMA StackReplaced ==
    ASSUME StackInv, CallsKept, phase' # "extract", NEW n \in 1..Len(stack), NEW f,
           stack' = SubSeq(stack, 1, n - 1) \o <<f>>, FrameInv(f)',
           f.params = stack[n].params, f.entry = stack[n].entry, f.callable = stack[n].callable
    PROVE  StackInv'
<1>1. /\ IsSequence(stack)' /\ DOMAIN stack' = 1..n /\ Len(stack') = n
      /\ stack'[n] = f /\ \A k \in 1..n - 1 : stack'[k] = stack[k]
  BY LastReplaced DEF StackInv
<1>2. n \in Nat \ {0} /\ DOMAIN stack = 1..Len(stack) /\ Len(stack) \in Nat /\ stack # <<>>
  BY SequenceFacts DEF StackInv
<1>3. ASSUME NEW k \in DOMAIN stack' PROVE FrameInv(stack[k])'
  <2>1. CASE k = n
    BY <1>1, <2>1
  <2>2. CASE k # n
    <3>1. k \in 1..n - 1 /\ k \in DOMAIN stack
      BY <1>1, <1>2, <2>2
    <3>2. FrameInv(stack[k])
      BY <3>1 DEF StackInv
    <3>3. \A g : FrameInv(g) => FrameInv(g)'
      BY FrameKept
    <3> QED
      BY <1>1, <3>1, <3>2, <3>3
  <2> QED
    BY <2>1, <2>2
<1>4. stack'[1].params = stack[1].params
  BY <1>1, <1>2
<1>5. ASSUME NEW k \in 2..Len(stack') PROVE Linked(stack[k], stack[k - 1])'
  <2>1. k - 1 \in 1..n - 1 /\ k \in 2..Len(stack) /\ k \in 1..n
    BY <1>1, <1>2
  <2>2. Linked(stack[k], stack[k - 1]) /\ stack'[k - 1] = stack[k - 1]
    BY <1>1, <2>1 DEF StackInv
  <2>3. stack'[k].entry = stack[k].entry /\ stack'[k].callable = stack[k].callable
        /\ stack'[k].params = stack[k].params
    BY <1>1, <1>2, <2>1
  <2> QED
    BY <2>2, <2>3 DEF Linked, Effective, CallsKept
<1>6. program' = program
  BY DEF CallsKept
<1> QED
  BY <1>1, <1>2, <1>3, <1>4, <1>5, <1>6 DEF StackInv

\* The loop of the topmost frame, where there is one.
LEMMA TopFrame ==
    ASSUME StackInv, phase \in {"resolve", "refused"}
    PROVE  /\ Len(stack) \in Nat \ {0} /\ DOMAIN stack = 1..Len(stack)
           /\ Top = stack[Len(stack)] /\ FrameInv(Top)
           /\ Front(stack) = SubSeq(stack, 1, Len(stack) - 1)
           /\ More => /\ Top.at \in DOMAIN Top.params
                      /\ IsDependency(Next1) => Next1.dep \in Callables
<1>1. Len(stack) \in Nat /\ DOMAIN stack = 1..Len(stack) /\ stack # <<>>
  BY SequenceFacts DEF StackInv
<1>2. Len(stack) # 0
  BY <1>1 DEF StackInv, IsSequence
<1>3. Top = stack[Len(stack)] /\ FrameInv(Top)
  BY <1>1, <1>2 DEF Top, Last, StackInv
<1>4. CallsCallables(Top.params) /\ DOMAIN Top.params = 1..Len(Top.params)
      /\ Len(Top.params) \in Nat
  BY <1>3, SequenceFacts DEF FrameInv, CallsCallables
<1>5. ASSUME More PROVE Top.at \in DOMAIN Top.params
  BY <1>3, <1>4, <1>5 DEF More, FrameInv
<1> QED
  BY <1>1, <1>2, <1>3, <1>4, <1>5 DEF Front, Next1, CallsCallables

LEMMA TopSupplied ==
    ASSUME StackInv, CallsKept, phase' # "extract", More,
           NEW entry, entry = Next1, NEW value, Supply(value), ValueFor(entry, value)'
    PROVE  StackInv'
<1> PICK n, top : n = Len(stack) /\ top = Top
  OBVIOUS
<1> DEFINE g == Supplied(top, entry, value)
<1>1. n \in 1..Len(stack) /\ top = stack[n] /\ FrameInv(top)
      /\ Front(stack) = SubSeq(stack, 1, n - 1)
  BY TopFrame DEF More
<1>2. entry = top.params[top.at] /\ top.at <= Len(top.params)
  BY DEF More, Next1
<1>3. FrameInv(g)' /\ g.params = top.params /\ g.entry = top.entry /\ g.callable = top.callable
  <2>1. \A f : FrameInv(f) /\ f.at <= Len(f.params) /\ entry = f.params[f.at] =>
            LET h == Supplied(f, entry, value) IN
            FrameInv(h)' /\ h.params = f.params /\ h.entry = f.entry /\ h.callable = f.callable
    BY FrameSupplied
  <2> QED
    BY <1>1, <1>2, <2>1
<1>4. stack' = SubSeq(stack, 1, n - 1) \o <<g>>
  BY <1>1 DEF Supply
<1> HIDE DEF g
<1> QED
  BY <1>1, <1>3, <1>4, StackReplaced

LEMMA SkippedFrame ==
    ASSUME NEW f, IsFrame(f)
    PROVE  LET g == [f EXCEPT !.at = @ + 1] IN
           /\ IsFrame(g) /\ g.params = f.params /\ g.entry = f.entry /\ g.callable = f.callable
           /\ g.seen = f.seen /\ g.at = f.at + 1 /\ g.kwargs = f.kwargs
<1> DEFINE g == [f EXCEPT !.at = @ + 1]
<1>1. g = [entry |-> f.entry, callable |-> f.callable, params |-> f.params,
           seen |-> f.seen, scopes |-> f.scopes, at |-> f.at + 1, kwargs |-> f.kwargs]
  BY DEF IsFrame
<1> HIDE DEF g
<1>2. /\ g.params = f.params /\ g.entry = f.entry /\ g.callable = f.callable
      /\ g.seen = f.seen /\ g.scopes = f.scopes /\ g.at = f.at + 1 /\ g.kwargs = f.kwargs
  BY <1>1
<1>3. IsFrame(g)
  BY <1>1, <1>2 DEF IsFrame
<1> QED
  BY <1>2, <1>3 DEF g

\* A frame that goes on without.
LEMMA FrameSkipped ==
    ASSUME NEW f, FrameInv(f), CallsKept, f.at <= Len(f.params)
    PROVE  LET g == [f EXCEPT !.at = @ + 1] IN
           /\ FrameInv(g)'
           /\ g.params = f.params /\ g.entry = f.entry /\ g.callable = f.callable
<1> DEFINE g == [f EXCEPT !.at = @ + 1]
<1>2. /\ IsFrame(g) /\ g.params = f.params /\ g.entry = f.entry /\ g.callable = f.callable
      /\ g.at = f.at + 1 /\ g.kwargs = f.kwargs
  BY SkippedFrame DEF FrameInv
<1> HIDE DEF g
<1>4. g.at \in 1..Len(g.params) + 1
  BY <1>2, SequenceFacts DEF FrameInv, CallsCallables
<1>5. FrameInv(f)'
  BY FrameKept
<1>6. FrameInv(g)'
  BY <1>2, <1>4, <1>5 DEF FrameInv
<1> QED
  BY <1>2, <1>6 DEF g

LEMMA TopSkipped ==
    ASSUME StackInv, CallsKept, phase' # "extract", More, Skip
    PROVE  StackInv'
<1> PICK n, top : n = Len(stack) /\ top = Top
  OBVIOUS
<1> DEFINE g == [top EXCEPT !.at = @ + 1]
<1>1. n \in 1..Len(stack) /\ top = stack[n] /\ FrameInv(top)
      /\ Front(stack) = SubSeq(stack, 1, n - 1)
  BY TopFrame DEF More
<1>2. top.at <= Len(top.params)
  BY DEF More
<1>3. FrameInv(g)' /\ g.params = top.params /\ g.entry = top.entry /\ g.callable = top.callable
  <2>1. \A f : FrameInv(f) /\ f.at <= Len(f.params) =>
            LET h == [f EXCEPT !.at = @ + 1] IN
            FrameInv(h)' /\ h.params = f.params /\ h.entry = f.entry /\ h.callable = f.callable
    BY FrameSkipped
  <2> QED
    BY <1>1, <1>2, <2>1
<1>4. stack' = SubSeq(stack, 1, n - 1) \o <<g>>
  BY <1>1 DEF Skip
<1> HIDE DEF g
<1> QED
  BY <1>1, <1>3, <1>4, StackReplaced

\* The dependency of an entry is entered.
Grown(n, f) ==
    /\ IsSequence(stack)' /\ DOMAIN stack' = 1..n + 1 /\ Len(stack') = n + 1
    /\ stack'[n + 1] = f /\ \A k \in 1..n : stack'[k] = stack[k]

LEMMA StackGrown ==
    ASSUME ProgramInv, StackInv, CallsKept, phase' # "extract", More, IsDependency(Next1),
           NEW f, IsFrame(f), f.entry = Next1, f.callable = Callee, f.at = 1, f.kwargs = {},
           f.params \in {<<>>, program.dep_plan[Next1.dep]}, Grown(Len(stack), f)
    PROVE  StackInv'
<1> PICK n, top : n = Len(stack) /\ top = Top
  OBVIOUS
<1>1. /\ n \in Nat \ {0} /\ DOMAIN stack = 1..n /\ top = stack[n]
      /\ \A k \in 1..n : FrameInv(stack[k])
  BY TopFrame DEF More, StackInv
<1>2. top.at <= Len(top.params) /\ f.entry = top.params[top.at] /\ f.entry.dep \in Callables
  BY TopFrame DEF More, Next1
<1>3. /\ IsSequence(stack)' /\ DOMAIN stack' = 1..n + 1 /\ Len(stack') = n + 1
      /\ stack'[n + 1] = f /\ \A k \in 1..n : stack'[k] = stack[k]
  BY DEF Grown
<1>4. FrameInv(f)
  <2>1. IsSequence(<<>>) /\ DOMAIN <<>> = {}
    BY DEF IsSequence, ToSet
  <2>2. CallsCallables(f.params)
    BY <1>2, <2>1 DEF ProgramInv, CallsCallables
  <2>3. Len(f.params) \in Nat
    BY <2>2, SequenceFacts DEF CallsCallables
  <2> QED
    BY <2>2, <2>3 DEF FrameInv
<1>5. Linked(f, top)
  BY <1>2 DEF Linked, Callee
<1>6. \A k \in 2..n : Linked(stack[k], stack[k - 1])
  BY DEF StackInv
<1>7. /\ \A k \in 1..n + 1 : FrameInv(stack'[k])
      /\ \A k \in 2..n + 1 : Linked(stack'[k], stack'[k - 1])
      /\ stack'[1] = stack[1] /\ stack # <<>> /\ stack' # <<>>
  <2>1. ASSUME NEW k \in 1..n + 1, k # n + 1 PROVE k \in 1..n
    BY <1>1, <2>1
  <2>2. ASSUME NEW k \in 1..n + 1 PROVE FrameInv(stack'[k])
    BY <1>1, <1>3, <1>4, <2>1
  <2>3. ASSUME NEW k \in 2..n + 1 PROVE Linked(stack'[k], stack'[k - 1])
    <3>1. k - 1 \in 1..n /\ stack'[k - 1] = stack[k - 1]
      BY <1>1, <1>3
    <3>2. CASE k = n + 1
      BY <1>1, <1>3, <1>5, <3>1, <3>2
    <3>3. CASE k # n + 1
      <4>1. k \in 1..n /\ k \in 2..n
        BY <1>1, <3>3
      <4> QED
        BY <1>3, <1>6, <3>1, <4>1
    <3> QED
      BY <3>2, <3>3
  <2>4. 1 \in DOMAIN stack /\ 1 \in DOMAIN stack' /\ DOMAIN <<>> = {}
    BY <1>1, <1>3
  <2> QED
    BY <1>1, <1>3, <2>2, <2>3, <2>4
<1>8. (\A g : FrameInv(g) => FrameInv(g)') /\ program' = program
  BY FrameKept DEF CallsKept
<1>9. \A g, caller : Linked(g, caller) => Linked(g, caller)'
  BY <1>8 DEF Linked, Effective
<1> QED
  BY <1>3, <1>7, <1>8, <1>9 DEF StackInv

LEMMA StackPushed ==
    ASSUME ProgramInv, StackInv, CallsKept, phase' # "extract", More, IsDependency(Next1),
           NEW f, IsFrame(f), f.entry = Next1, f.callable = Callee, f.at = 1, f.kwargs = {},
           f.params \in {<<>>, program.dep_plan[Next1.dep]}, stack' = Append(stack, f)
    PROVE  StackInv'
<1>1. Grown(Len(stack), f)
  BY Appended DEF StackInv, Grown
<1> QED
  BY <1>1, StackGrown

\* A call returned: the caller has its value.
LEMMA StackPopped ==
    ASSUME StackInv, CallsKept, phase = "resolve", phase' # "extract", ~InLoop,
           NEW entry, entry = Top.entry, NEW value, ValueFor(entry, value)',
           stack' = SubSeq(stack, 1, Len(stack) - 2)
                        \o <<Supplied(stack[Len(stack) - 1], entry, value)>>
    PROVE  StackInv'
<1> PICK n, parent : n = Len(stack) - 1 /\ parent = stack[n]
  OBVIOUS
<1> DEFINE g == Supplied(parent, entry, value)
<1>1. /\ n \in 1..Len(stack) /\ n + 1 \in 2..Len(stack) /\ n \in DOMAIN stack
      /\ Top = stack[n + 1] /\ Len(stack) - 2 = n - 1 /\ (n + 1) - 1 = n
  BY TopFrame DEF InLoop
<1>2. FrameInv(parent) /\ parent.at <= Len(parent.params) /\ entry = parent.params[parent.at]
  <2>1. \A k \in 2..Len(stack) : Linked(stack[k], stack[k - 1])
    BY DEF StackInv
  <2>2. Linked(stack[n + 1], stack[n])
    BY <1>1, <2>1
  <2> QED
    BY <1>1, <2>2 DEF StackInv, Linked
<1>3. /\ FrameInv(g)' /\ g.params = parent.params /\ g.entry = parent.entry
      /\ g.callable = parent.callable
  <2>1. \A f : FrameInv(f) /\ f.at <= Len(f.params) /\ entry = f.params[f.at] =>
            LET h == Supplied(f, entry, value) IN
            FrameInv(h)' /\ h.params = f.params /\ h.entry = f.entry /\ h.callable = f.callable
    BY FrameSupplied
  <2> QED
    BY <1>2, <2>1
<1>4. stack' = SubSeq(stack, 1, n - 1) \o <<g>>
  BY <1>1
<1> HIDE DEF g
<1> QED
  BY <1>1, <1>3, <1>4, StackReplaced

LEMMA StackUnchanged ==
    ASSUME StackInv, CallsKept, UNCHANGED stack,
           phase' = phase \/ (phase = "resolve" /\ phase' \notin {"extract", "resolve"})
    PROVE  StackInv'
<1>1. \A f : FrameInv(f) => FrameInv(f)'
  BY FrameKept
<1>2. program' = program
  BY DEF CallsKept
<1>3. \A k \in 2..Len(stack) : Linked(stack[k], stack[k - 1])'
  BY <1>2 DEF StackInv, Linked, Effective
<1> QED
  BY <1>1, <1>2, <1>3 DEF StackInv

\* What a frame is linked to is an entry of its caller.
LEMMA LinkedEntry ==
    ASSUME NEW f, NEW caller, Linked(f, caller), FrameInv(caller)
    PROVE  caller.at \in DOMAIN caller.params /\ f.entry.dep \in Callables
<1>1. /\ CallsCallables(caller.params) /\ caller.at \in 1..Len(caller.params) + 1
      /\ caller.at <= Len(caller.params)
  BY DEF Linked, FrameInv
<1>2. DOMAIN caller.params = 1..Len(caller.params) /\ Len(caller.params) \in Nat
  BY <1>1, SequenceFacts DEF CallsCallables
<1>3. caller.at \in DOMAIN caller.params
  BY <1>1, <1>2
<1> QED
  BY <1>1, <1>3 DEF Linked, CallsCallables

\* The frame of a dependency is of an entry of the frame below.
LEMMA TopLinked ==
    ASSUME StackInv, phase \in {"resolve", "refused"}, ~InLoop
    PROVE  /\ Len(stack) - 1 \in 1..Len(stack) /\ FrameInv(Top)
           /\ Linked(Top, stack[Len(stack) - 1]) /\ Top.entry.dep \in Callables
<1> PICK n : n = Len(stack) - 1
  OBVIOUS
<1>1. /\ n \in 1..Len(stack) /\ n + 1 \in 2..Len(stack) /\ n \in DOMAIN stack
      /\ Top = stack[n + 1] /\ (n + 1) - 1 = n /\ FrameInv(Top)
  BY TopFrame DEF InLoop
<1>2. \A k \in 2..Len(stack) : Linked(stack[k], stack[k - 1])
  BY DEF StackInv
<1>3. Linked(Top, stack[n])
  BY <1>1, <1>2
<1>4. FrameInv(stack[n])
  BY <1>1 DEF StackInv
<1>5. Top.entry.dep \in Callables
  BY <1>3, <1>4, LinkedEntry
<1> QED
  BY <1>1, <1>3, <1>5

-----------------------------------------------------------------------------
(* What the steps do to the cache and the calls *)

\* A call's record, which the cache has under the callable if it may.
Recorded(entry, callable, args) ==
    /\ entry.dep \in Callables
    /\ callable = Effective(entry.dep)
    /\ Answers(args, program.dep_plan[entry.dep])

LEMMA AnswersKept ==
    ASSUME CallsKept, NEW args, NEW params, Answers(args, params) PROVE Answers(args, params)'
<1>1. ASSUME NEW entry, NEW value, IsDependency(entry) => value # FromRequest /\ ValueOf(entry, value)
      PROVE  IsDependency(entry) => value # FromRequest /\ ValueOf(entry, value)'
  <2>1. ValueFor(entry, value)
    BY <1>1 DEF ValueFor
  <2>2. ValueFor(entry, value)'
    BY <2>1, ValueKept
  <2> QED
    BY <2>2 DEF ValueFor
<1> QED
  BY <1>1 DEF Answers

LEMMA CallsRecorded ==
    ASSUME ProgramInv, CacheInv, CallsInv, UNCHANGED program,
           NEW entry, NEW callable, NEW args, NEW scopes, Recorded(entry, callable, args),
           Record(entry, callable, args, scopes), NEW n, n = Len(calls) + 1
    PROVE  CallsKept /\ CacheInv' /\ CallsInv' /\ ValueFor(entry, n)'
<1> PICK call : call = [callable |-> callable, dep |-> entry.dep,
                        cached |-> entry.use_cache, kwargs |-> args, scopes |-> scopes]
  OBVIOUS
<1>1. /\ IsSequence(calls)' /\ DOMAIN calls' = 1..n /\ calls'[n] = call
      /\ \A k \in 1..n - 1 : calls'[k] = calls[k]
      /\ DOMAIN calls = 1..n - 1 /\ n \in Nat \ {0}
  BY Appended, SequenceFacts DEF CallsInv, Record
<1>2. CallsKept
  BY <1>1 DEF CallsKept
<1>3. callable \in Callables /\ call.callable = callable
  BY DEF Recorded, ProgramInv, Effective
<1>4. CacheInv'
  <2>1. cache' = IF entry.use_cache THEN [cache EXCEPT ![callable] = n] ELSE cache
    BY DEF Record
  <2>2. cache' \in [Callables -> Nat]
    BY <1>1, <2>1 DEF CacheInv
  <2>3. ASSUME NEW c \in Callables, cache'[c] # 0
        PROVE  cache'[c] \in DOMAIN calls' /\ calls'[cache'[c]].callable = c
    <3>1. CASE cache'[c] = cache[c]
      BY <1>1, <2>3, <3>1 DEF CacheInv
    <3>2. CASE cache'[c] # cache[c]
      <4>1. c = callable /\ cache'[c] = n
        BY <1>3, <2>1, <3>2 DEF CacheInv
      <4> QED
        BY <1>1, <1>3, <4>1
    <3> QED
      BY <3>1, <3>2
  <2> QED
    BY <2>2, <2>3 DEF CacheInv
<1>5. CallsInv'
  <2>1. ASSUME NEW i \in DOMAIN calls'
        PROVE  /\ calls'[i].dep \in Callables /\ calls'[i].callable \in Callables
               /\ Answers(calls'[i].kwargs, program.dep_plan[calls'[i].dep])
    <3>1. CASE i = n
      BY <1>1, <1>3, <3>1 DEF Recorded
    <3>2. CASE i # n
      BY <1>1, <3>2 DEF CallsInv
    <3> QED
      BY <3>1, <3>2
  <2>2. \A xs, params : Answers(xs, params) => Answers(xs, params)'
    BY <1>2, AnswersKept
  <2> QED
    BY <1>1, <2>1, <2>2 DEF CallsInv
<1>6. ValueFor(entry, n)'
  BY <1>1, <1>3 DEF ValueFor, ValueOf, Effective, FromRequest, Recorded
<1> QED
  BY <1>2, <1>4, <1>5, <1>6

-----------------------------------------------------------------------------
(* The steps *)

\* r is s followed by t.
IsJoined(r, s, t) ==
    /\ IsSequence(r) /\ DOMAIN r = 1..Len(s) + Len(t)
    /\ \A i \in 1..Len(s) + Len(t) : r[i] = IF i <= Len(s) THEN s[i] ELSE t[i - Len(s)]
    /\ \A i \in DOMAIN r :
          (\E k \in DOMAIN s : r[i] = s[k]) \/ (\E k \in DOMAIN t : r[i] = t[k])
    /\ \A k \in DOMAIN s : \E i \in DOMAIN r : r[i] = s[k]

LEMMA Joined ==
    ASSUME NEW s, IsSequence(s), NEW t, IsSequence(t) PROVE IsJoined(s \o t, s, t)
<1> DEFINE S == ToSet(s) \cup ToSet(t)
           r == s \o t
<1>1. s \in Seq(ToSet(s)) /\ t \in Seq(ToSet(t))
  BY DEF IsSequence
<1>2. s \in Seq(S) /\ t \in Seq(S)
  <2> DEFINE A == ToSet(s)
             B == ToSet(t)
  <2> HIDE DEF A, B
  <2> QED
    BY <1>1 DEF A, B
<1> HIDE DEF S
<1>3. Len(s) \in Nat /\ Len(t) \in Nat
  BY <1>2
<1>4. r \in Seq(S) /\ Len(r) = Len(s) + Len(t)
  BY <1>2
<1>5. \A i \in 1..Len(s) + Len(t) : r[i] = IF i <= Len(s) THEN s[i] ELSE t[i - Len(s)]
  BY <1>2, <1>3
<1> HIDE DEF r
<1>6. IsSequence(r) /\ DOMAIN r = 1..Len(s) + Len(t)
  BY <1>4, OwnElements
<1>7. DOMAIN s = 1..Len(s) /\ DOMAIN t = 1..Len(t)
  BY SequenceFacts
<1>8. ASSUME NEW i \in DOMAIN r
      PROVE  (\E k \in DOMAIN s : r[i] = s[k]) \/ (\E k \in DOMAIN t : r[i] = t[k])
  <2>1. CASE i <= Len(s)
    BY <1>3, <1>5, <1>6, <1>7, <2>1
  <2>2. CASE ~(i <= Len(s))
    <3>1. i - Len(s) \in DOMAIN t
      BY <1>3, <1>6, <1>7, <2>2
    <3> QED
      BY <1>5, <1>6, <2>2, <3>1
  <2> QED
    BY <2>1, <2>2
<1>9. ASSUME NEW k \in DOMAIN s PROVE \E i \in DOMAIN r : r[i] = s[k]
  <2>1. k \in 1..Len(s) + Len(t) /\ k <= Len(s)
    BY <1>3, <1>7
  <2>2. k \in DOMAIN r /\ r[k] = s[k]
    BY <1>5, <1>6, <2>1
  <2> QED
    BY <2>2
<1>10. IsJoined(r, s, t)
  BY <1>5, <1>6, <1>8, <1>9 DEF IsJoined
<1> QED
  BY <1>10 DEF r

\* The entries of the dispatcher's loop.
LEMMA PlansJoined ==
    ASSUME ProgramInv
    PROVE  LET params == program.extra \o program.plan IN
           /\ CallsCallables(params)
           /\ \A i \in DOMAIN params : ~params[i].internal =>
                 \E k \in DOMAIN program.plan : params[i] = program.plan[k]
<1> PICK s, t, r : s = program.extra /\ t = program.plan /\ r = s \o t
  OBVIOUS
<1>1. IsSequence(s) /\ IsSequence(t)
  BY DEF ProgramInv, CallsCallables
<1>2. IsJoined(r, s, t)
  BY <1>1, Joined
<1>4. ASSUME NEW i \in DOMAIN r
      PROVE  (\E k \in DOMAIN s : r[i] = s[k]) \/ (\E k \in DOMAIN t : r[i] = t[k])
  BY <1>2 DEF IsJoined
<1>5. ASSUME NEW i \in DOMAIN r, IsDependency(r[i]) PROVE r[i].dep \in Callables
  <2>1. \/ \E k \in DOMAIN program.extra : r[i] = program.extra[k]
        \/ \E k \in DOMAIN program.plan : r[i] = program.plan[k]
    BY <1>4
  <2> QED
    BY <1>5, <2>1 DEF ProgramInv, CallsCallables
<1>6. ASSUME NEW i \in DOMAIN r, ~r[i].internal
      PROVE  \E k \in DOMAIN program.plan : r[i] = program.plan[k]
  BY <1>4, <1>6 DEF ProgramInv
<1> QED
  BY <1>2, <1>5, <1>6 DEF CallsCallables, IsJoined

\* An argument from the body is of a body parameter.
LEMMA BodyArgs ==
    ASSUME NEW plan, IsSequence(plan), NEW body,
           NEW arg \in extract_body_params(plan, body).args
    PROVE  \E i \in DOMAIN plan : IsBody(plan[i]) /\ plan[i].name = arg[1]
<1> DEFINE entries == Filter(plan, IsBody)
<1>1. Holds(entries, plan, {i \in DOMAIN plan : IsBody(plan[i])})
  BY BodiesHeld
<1>2. ASSUME NEW param, arg \in WholeBody(param, body).args PROVE arg[1] = param.name
  BY <1>2 DEF WholeBody, MissingBody, Verdict, Validated
<1>3. ASSUME NEW param, arg \in Enveloped(param, body).args PROVE arg[1] = param.name
  BY <1>3 DEF Enveloped, MissingBody, Verdict, Validated
<1>4. \E j \in DOMAIN entries : arg[1] = entries[j].name
  <2>1. entries # <<>>
    BY DEF extract_body_params, Verdict
  <2>2. 1 \in DOMAIN entries
    BY <1>1, <2>1 DEF Holds
  <2>3. CASE Len(entries) = 1 /\ ~entries[1].embed
    <3>1. arg \in WholeBody(entries[1], body).args
      BY <2>1, <2>3 DEF extract_body_params
    <3> QED
      BY <1>2, <2>2, <3>1
  <2>4. CASE ~(Len(entries) = 1 /\ ~entries[1].embed)
    <3>1. arg \in Join([i \in DOMAIN entries |-> Enveloped(entries[i], body)]).args
      BY <2>1, <2>4 DEF extract_body_params, Verdict
    <3>2. PICK j \in DOMAIN entries : arg \in Enveloped(entries[j], body).args
      <4> HIDE DEF entries
      <4> QED
        BY <3>1 DEF Join, Verdict
    <3> QED
      BY <1>3, <3>2
  <2> QED
    BY <2>3, <2>4
<1> HIDE DEF entries
<1> PICK j \in DOMAIN entries : arg[1] = entries[j].name
  BY <1>4
<1>5. j \in 1..Len(entries)
  <2>1. entries \in Seq(ToSet(plan))
    BY <1>1 DEF Holds
  <2> QED
    BY <2>1
<1> QED
  BY <1>1, <1>5 DEF Holds

LEMMA ParamArgsAnswer ==
    ASSUME ProgramInv PROVE Answers(ParamArgs, program.plan)
<1> SUFFICES ASSUME NEW j \in DOMAIN program.plan,
                    extract_one_param(program.plan[j], Seen).is = "value"
             PROVE  ~IsDependency(program.plan[j])
  BY DEF Answers, ParamArgs
<1>1. program.plan[j].source \in OwnSources
  BY DEF extract_one_param, UseDefault
<1> QED
  BY <1>1 DEF OwnSources, IsDependency, Calling

\* What all steps but those that call something have in common.
Prepares ==
    UNCHANGED <<program, cache, calls>>

LEMMA UncalledKept ==
    ASSUME ValuesInv, Prepares
    PROVE  CallsKept /\ ProgramInv' /\ CacheInv' /\ CallsInv'
<1>1. CallsKept
  BY DEF Prepares, CallsKept
<1>2. \A xs, params : Answers(xs, params) => Answers(xs, params)'
  BY <1>1, AnswersKept
<1> QED
  BY <1>1, <1>2 DEF ValuesInv, Prepares, ProgramInv, CacheInv, CallsInv

LEMMA ExtractValues == ASSUME ValuesInv, Extract PROVE ValuesInv'
<1>1. CallsKept /\ ProgramInv' /\ CacheInv' /\ CallsInv'
  BY UncalledKept DEF Prepares, Extract
<1>2. Answers(kwargs', program.plan)
  <2> DEFINE body == extract_body_params(program.plan, request.body)
  <2>1. IsSequence(program.plan) /\ Answers(ParamArgs, program.plan)
    BY ParamArgsAnswer DEF ValuesInv, ProgramInv, CallsCallables
  <2>2. Answers(body.args, program.plan)
    <3>1. ASSUME NEW arg \in body.args
          PROVE  \E i \in DOMAIN program.plan :
                     program.plan[i].name = arg[1] /\ ~IsDependency(program.plan[i])
      <4>1. PICK i \in DOMAIN program.plan :
                IsBody(program.plan[i]) /\ program.plan[i].name = arg[1]
        BY <2>1, BodyArgs
      <4> QED
        BY <4>1 DEF IsBody, IsDependency, Calling
    <3> HIDE DEF body
    <3> QED
      BY <3>1 DEF Answers
  <2>3. kwargs' = ParamArgs \cup body.args
    BY DEF Extract
  <2> HIDE DEF body
  <2> QED
    BY <2>1, <2>2, <2>3 DEF Answers
<1>3. Answers(kwargs, program.plan)'
  <2>1. \A xs, params : Answers(xs, params) => Answers(xs, params)'
    BY <1>1, AnswersKept
  <2>2. program' = program
    BY DEF Extract
  <2> QED
    BY <1>2, <2>1, <2>2
<1>4. StackInv'
  <2>1. CASE UNCHANGED stack /\ phase' = "invalid"
    <3>1. stack = <<>> /\ DOMAIN <<>> = {} /\ Len(<<>>) = 0
      BY DEF Extract, ValuesInv, StackInv
    <3> QED
      BY <2>1, <3>1 DEF ValuesInv, StackInv
  <2>2. CASE /\ phase' = "resolve"
             /\ stack' = <<Frame(None, None, program.extra \o program.plan, {}, {})>>
    <3> PICK f : f = Frame(None, None, program.extra \o program.plan, {}, {})
      OBVIOUS
    <3>1. IsFrame(f) /\ f.params = program.extra \o program.plan /\ f.at = 1 /\ f.kwargs = {}
      BY DEF Frame, IsFrame
    <3>2. IsSequence(stack') /\ DOMAIN stack' = {1} /\ Len(stack') = 1 /\ stack'[1] = f
      <4>1. stack' = <<f>>
        BY <2>2
      <4>2. <<f>> \in Seq({f}) /\ Len(<<f>>) = 1 /\ DOMAIN <<f>> = {1} /\ <<f>>[1] = f
        OBVIOUS
      <4> QED
        BY <4>1, <4>2, OwnElements
    <3>3. CallsCallables(f.params)
      BY <3>1, PlansJoined DEF ValuesInv
    <3>4. FrameInv(f)'
      <4>1. Len(f.params) \in Nat
        BY <3>3, SequenceFacts DEF CallsCallables
      <4> QED
        BY <3>1, <3>3, <4>1 DEF FrameInv
    <3>5. program' = program
      BY DEF Extract
    <3>6. \A k \in DOMAIN stack' : FrameInv(stack[k])'
      BY <3>2, <3>4
    <3>7. 2..Len(stack') = {} /\ stack' # <<>> /\ phase' # "extract"
      BY <2>2, <3>2
    <3> QED
      BY <3>1, <3>2, <3>5, <3>6, <3>7 DEF StackInv
  <2> QED
    BY <2>1, <2>2 DEF Extract
<1> QED
  BY <1>1, <1>3, <1>4 DEF ValuesInv

\* The arguments of the handler only change at the ends.
LEMMA KwargsKept ==
    ASSUME ValuesInv, CallsKept, UNCHANGED kwargs PROVE Answers(kwargs, program.plan)'
<1>1. \A xs, params : Answers(xs, params) => Answers(xs, params)'
  BY AnswersKept
<1> QED
  BY <1>1 DEF ValuesInv, CallsKept

LEMMA ReuseValues == ASSUME ValuesInv, Reuse PROVE ValuesInv'
<1>1. CallsKept /\ ProgramInv' /\ CacheInv' /\ CallsInv'
  BY UncalledKept DEF Prepares, Reuse
<1>2. StackInv'
  <2> PICK entry, value : entry = Next1 /\ value = cache[Callee]
    OBVIOUS
  <2>1. phase' # "extract" /\ More /\ Supply(value) /\ IsDependency(entry)
    BY DEF Reuse, More
  <2>2. entry.dep \in Callables /\ Callee = Effective(entry.dep)
    BY <2>1, TopFrame DEF ValuesInv, More, Callee
  <2>3. Callee \in Callables
    BY <2>2 DEF ValuesInv, ProgramInv, Effective
  <2>4. ValueFor(entry, value)
    BY <2>2, <2>3 DEF Reuse, Reusable, ValuesInv, CacheInv, ValueFor, ValueOf, FromRequest
  <2>5. ValueFor(entry, value)'
    BY <1>1, <2>4, ValueKept
  <2> QED
    BY <1>1, <2>1, <2>5, TopSupplied DEF ValuesInv
<1> QED
  BY <1>1, <1>2, KwargsKept DEF ValuesInv, Reuse

LEMMA EnterValues == ASSUME ValuesInv, Enter PROVE ValuesInv'
<1>1. CallsKept /\ ProgramInv' /\ CacheInv' /\ CallsInv'
  BY UncalledKept DEF Prepares, Enter
<1>2. StackInv'
  <2> PICK f : f = Frame(Next1, Callee, PlanFor(Next1, Top.seen),
                         IF Next1.internal THEN {} ELSE Top.seen \cup {Next1.dep},
                         ScopesFor(Next1, Top.scopes))
    OBVIOUS
  <2>1. IsFrame(f) /\ f.entry = Next1 /\ f.callable = Callee /\ f.at = 1 /\ f.kwargs = {}
        /\ f.params = PlanFor(Next1, Top.seen)
    BY DEF Frame, IsFrame
  <2>2. f.params \in {<<>>, program.dep_plan[Next1.dep]}
    BY <2>1 DEF PlanFor
  <2>3. phase' # "extract" /\ More /\ IsDependency(Next1) /\ stack' = Append(stack, f)
    BY DEF Enter, More
  <2> QED
    BY <1>1, <2>1, <2>2, <2>3, StackPushed DEF ValuesInv
<1> QED
  BY <1>1, <1>2, KwargsKept DEF ValuesInv, Enter

LEMMA TakeOtherValues == ASSUME ValuesInv, TakeOther PROVE ValuesInv'
<1>1. CallsKept /\ ProgramInv' /\ CacheInv' /\ CallsInv'
  BY UncalledKept DEF Prepares, TakeOther
<1>2. phase' # "extract" /\ More
  BY DEF TakeOther, More
<1>3. ASSUME Supply(FromRequest) PROVE StackInv'
  <2> PICK entry : entry = Next1
    OBVIOUS
  <2>1. ValueFor(entry, FromRequest)'
    BY DEF TakeOther, ValueFor
  <2> QED
    BY <1>1, <1>2, <1>3, <2>1, TopSupplied DEF ValuesInv
<1>4. StackInv'
  BY <1>1, <1>2, <1>3, TopSkipped DEF ValuesInv, TakeOther
<1> QED
  BY <1>1, <1>4, KwargsKept DEF ValuesInv, TakeOther

LEMMA TakeValueValues == ASSUME ValuesInv, TakeValue PROVE ValuesInv'
<1>1. CallsKept /\ ProgramInv' /\ CacheInv' /\ CallsInv'
  BY UncalledKept DEF Prepares, TakeValue
<1>2. phase' # "extract" /\ More
  BY DEF TakeValue, More
<1>3. ASSUME Supply(FromRequest) PROVE StackInv'
  <2> PICK entry : entry = Next1
    OBVIOUS
  <2>1. ValueFor(entry, FromRequest)'
    BY DEF TakeValue, ValueFor
  <2> QED
    BY <1>1, <1>2, <1>3, <2>1, TopSupplied DEF ValuesInv
<1>4. ASSUME UNCHANGED stack, phase' = "invalid" PROVE StackInv'
  BY <1>1, <1>4, StackUnchanged DEF ValuesInv, TakeValue, More
<1>5. StackInv'
  BY <1>1, <1>2, <1>3, <1>4, TopSkipped DEF ValuesInv, TakeValue
<1> QED
  BY <1>1, <1>5, KwargsKept DEF ValuesInv, TakeValue

LEMMA ExtractSchemeValues == ASSUME ValuesInv, ExtractScheme PROVE ValuesInv'
<1>1. /\ More /\ IsDependency(Next1) /\ Next1.dep \in Callables /\ phase' # "extract"
      /\ UNCHANGED <<program, kwargs>>
  BY TopFrame DEF ExtractScheme, ValuesInv, More, Raise
<1>2. ProgramInv'
  BY <1>1 DEF ValuesInv, ProgramInv
<1>3. CASE Raise
  <2>1. CallsKept /\ CacheInv' /\ CallsInv'
    BY <1>1, <1>3, UncalledKept DEF Prepares, Raise
  <2>2. StackInv'
    BY <1>1, <1>3, <2>1, StackUnchanged DEF ValuesInv, Raise, More
  <2> QED
    BY <1>1, <1>2, <2>1, <2>2, KwargsKept DEF ValuesInv
<1>4. CASE Record(Next1, Callee, {}, {}) /\ Supply(Len(calls) + 1)
  <2> PICK entry, callable, n : entry = Next1 /\ callable = Callee /\ n = Len(calls) + 1
    OBVIOUS
  <2>1. Recorded(entry, callable, {})
    BY <1>1 DEF Recorded, Callee, Answers
  <2>2. CallsKept /\ CacheInv' /\ CallsInv' /\ ValueFor(entry, n)'
    <3>1. Record(entry, callable, {}, {})
      BY <1>4
    <3> QED
      BY <1>1, <2>1, <3>1, CallsRecorded DEF ValuesInv
  <2>3. StackInv'
    <3>1. Supply(n)
      BY <1>4
    <3> QED
      BY <1>1, <2>2, <3>1, TopSupplied DEF ValuesInv
  <2> QED
    BY <1>1, <1>2, <2>2, <2>3, KwargsKept DEF ValuesInv
<1> QED
  BY <1>3, <1>4 DEF ExtractScheme

\* The arguments that a frame has are of the dependency's own plan.
LEMMA FrameAnswers ==
    ASSUME NEW f, FrameInv(f), NEW plan, f.params \in {<<>>, plan} PROVE Answers(f.kwargs, plan)
<1>1. ASSUME NEW arg \in f.kwargs
      PROVE  \E i \in DOMAIN f.params :
                 f.params[i].name = arg[1] /\ ValueFor(f.params[i], arg[2])
  BY DEF FrameInv
<1>2. DOMAIN <<>> = {}
  OBVIOUS
<1> QED
  BY <1>1, <1>2 DEF Answers, ValueFor

LEMMA CallDependencyValues == ASSUME ValuesInv, CallDependency PROVE ValuesInv'
<1>1. phase = "resolve" /\ ~InLoop /\ phase' # "extract" /\ UNCHANGED <<program, kwargs>>
  BY DEF CallDependency, Raise, Refuse
<1>2. ProgramInv'
  BY <1>1 DEF ValuesInv, ProgramInv
<1>3. CASE Raise \/ Refuse
  <2>1. CallsKept /\ CacheInv' /\ CallsInv'
    BY <1>1, <1>3, UncalledKept DEF Prepares, Raise, Refuse
  <2>2. StackInv'
    BY <1>1, <1>3, <2>1, StackUnchanged DEF ValuesInv, Raise, Refuse
  <2> QED
    BY <1>1, <1>2, <2>1, <2>2, KwargsKept DEF ValuesInv
<1>4. CASE /\ Record(Top.entry, Top.callable, Top.kwargs, Top.scopes)
           /\ LET parent == stack[Len(stack) - 1] IN
              stack' = SubSeq(stack, 1, Len(stack) - 2)
                           \o <<Supplied(parent, Top.entry, Len(calls) + 1)>>
  <2> PICK top, entry, n : top = Top /\ entry = Top.entry /\ n = Len(calls) + 1
    OBVIOUS
  <2>1. /\ FrameInv(top) /\ entry = top.entry /\ IsDependency(entry)
        /\ top.callable = Effective(entry.dep)
        /\ top.params \in {<<>>, program.dep_plan[entry.dep]}
        /\ entry.dep \in Callables
    <3> PICK caller : caller = stack[Len(stack) - 1]
      OBVIOUS
    <3>1. FrameInv(top) /\ Linked(top, caller) /\ top.entry.dep \in Callables
      BY <1>1, TopLinked DEF ValuesInv
    <3> QED
      BY <3>1 DEF Linked
  <2>2. Recorded(entry, top.callable, top.kwargs)
    <3>1. Answers(top.kwargs, program.dep_plan[entry.dep])
      BY <2>1, FrameAnswers
    <3> QED
      BY <2>1, <3>1 DEF Recorded
  <2>3. CallsKept /\ CacheInv' /\ CallsInv' /\ ValueFor(entry, n)'
    <3>1. Record(entry, top.callable, top.kwargs, top.scopes)
      BY <1>4
    <3> QED
      BY <1>1, <2>2, <3>1, CallsRecorded DEF ValuesInv
  <2>4. StackInv'
    <3>1. stack' = SubSeq(stack, 1, Len(stack) - 2)
                       \o <<Supplied(stack[Len(stack) - 1], entry, n)>>
      BY <1>4
    <3> QED
      BY <1>1, <2>3, <3>1, StackPopped DEF ValuesInv
  <2> QED
    BY <1>1, <1>2, <2>3, <2>4, KwargsKept DEF ValuesInv
<1> QED
  BY <1>3, <1>4 DEF CallDependency

LEMMA CallHandlerValues == ASSUME ValuesInv, CallHandler PROVE ValuesInv'
<1>1. CallsKept /\ ProgramInv' /\ CacheInv' /\ CallsInv'
  BY UncalledKept DEF Prepares, CallHandler
<1>2. StackInv'
  BY <1>1, StackUnchanged DEF ValuesInv, CallHandler
<1>3. Answers(Top.kwargs, program.plan)
  <2>1. FrameInv(Top) /\ Top.params = program.extra \o program.plan
    <3>1. Len(stack) = 1 /\ phase = "resolve"
      BY DEF CallHandler, InLoop
    <3> QED
      BY <3>1, TopFrame DEF ValuesInv, StackInv
  <2>2. ASSUME NEW arg \in Top.kwargs
        PROVE  \E i \in DOMAIN program.plan :
                   program.plan[i].name = arg[1] /\ ValueFor(program.plan[i], arg[2])
    <3> PICK params : params = program.extra \o program.plan
      OBVIOUS
    <3>1. PICK i \in DOMAIN params :
              ~params[i].internal /\ params[i].name = arg[1] /\ ValueFor(params[i], arg[2])
      BY <2>1 DEF FrameInv
    <3>2. PICK k \in DOMAIN program.plan : params[i] = program.plan[k]
      BY <3>1, PlansJoined DEF ValuesInv
    <3> QED
      BY <3>1, <3>2
  <2> QED
    BY <2>2 DEF Answers, ValueFor
<1>4. Answers(kwargs, program.plan)'
  <2>1. Answers(kwargs', program.plan)
    BY <1>3 DEF CallHandler, ValuesInv, Answers
  <2>2. \A xs, params : Answers(xs, params) => Answers(xs, params)'
    BY <1>1, AnswersKept
  <2> QED
    BY <2>1, <2>2 DEF CallHandler
<1> QED
  BY <1>1, <1>2, <1>4 DEF ValuesInv

LEMMA NextValues == ValuesInv /\ [Next]_vars => ValuesInv'
<1> SUFFICES ASSUME ValuesInv, [Next]_vars PROVE ValuesInv'
  OBVIOUS
<1>1. CASE Extract
  BY <1>1, ExtractValues
<1>2. CASE Reuse
  BY <1>2, ReuseValues
<1>3. CASE ExtractScheme
  BY <1>3, ExtractSchemeValues
<1>4. CASE Enter
  BY <1>4, EnterValues
<1>5. CASE TakeValue
  BY <1>5, TakeValueValues
<1>6. CASE TakeOther
  BY <1>6, TakeOtherValues
<1>7. CASE CallDependency
  BY <1>7, CallDependencyValues
<1>8. CASE CallHandler
  BY <1>8, CallHandlerValues
<1>9. CASE UNCHANGED vars
  <2>1. CallsKept /\ ProgramInv' /\ CacheInv' /\ CallsInv'
    BY <1>9, UncalledKept DEF Prepares, vars
  <2>2. StackInv'
    BY <1>9, <2>1, StackUnchanged DEF ValuesInv, vars
  <2> QED
    BY <1>9, <2>1, <2>2, KwargsKept DEF ValuesInv, vars
<1> QED
  BY <1>1, <1>2, <1>3, <1>4, <1>5, <1>6, <1>7, <1>8, <1>9 DEF Next

\* The plans are compiled from the declarations, and the path has their placeholders.
DeclaredInv ==
    LET declared == program.declared IN
    /\ IsSequence(declared.handler)
    /\ program.plan = compile_route_plan(declared.handler, declared.path_names)
    /\ \A c \in Callables :
          /\ IsSequence(declared.signatures[c])
          /\ program.dep_plan[c] =
                IF c \in Schemes THEN <<>> ELSE compile_route_plan(declared.signatures[c], {})
    /\ \A name \in declared.path_names : At(request.path, name) # <<>>

LEMMA DeclaredKept == ASSUME DeclaredInv, UNCHANGED <<program, request>> PROVE DeclaredInv'
BY DEF DeclaredInv

LEMMA InitDeclared == Init => DeclaredInv
<1> SUFFICES ASSUME Init PROVE DeclaredInv
  OBVIOUS
<1>1. PICK s \in Scenarios : program = Registered(s[1]) /\ request = s[2]
  BY DEF Init
<1>2. /\ program.declared = s[1]
      /\ program.plan = compile_route_plan(s[1].handler, s[1].path_names)
      /\ \A c \in Callables : program.dep_plan[c] =
            IF c \in Schemes THEN <<>> ELSE compile_route_plan(s[1].signatures[c], {})
  BY <1>1 DEF Registered
<1>3. /\ \A name \in s[1].path_names : At(s[2].path, name) # <<>>
      /\ IsSequence(s[1].handler)
      /\ \A c \in Callables : IsSequence(s[1].signatures[c])
  BY ScenariosAssumption DEF Signature
<1> QED
  BY <1>1, <1>2, <1>3 DEF DeclaredInv

\* A dependency that was refused is on top of the stack, with arguments of its entry.
RefusedInv == phase = "refused" => ~InLoop /\ ~(Top.at <= Len(Top.params))

LEMMA AlikePlans ==
    ASSUME DeclaredInv, NEW call, call.dep \in Callables, call.callable \in Callables, Alike(call)
    PROVE  program.dep_plan[call.callable] = program.dep_plan[call.dep]
BY DEF DeclaredInv, Alike

\* What the frame of a refused dependency is.
LEMMA RefusedTop ==
    ASSUME StackInv, ProgramInv, phase = "refused", ~InLoop
    PROVE  /\ Top.entry.dep \in Callables /\ Top.callable \in Callables
           /\ Answers(Top.kwargs, program.dep_plan[Top.entry.dep])
<1>1. FrameInv(Top) /\ Linked(Top, stack[Len(stack) - 1]) /\ Top.entry.dep \in Callables
  BY TopLinked
<1>2. Answers(Top.kwargs, program.dep_plan[Top.entry.dep])
  <2> PICK top, plan : top = Top /\ plan = program.dep_plan[top.entry.dep]
    OBVIOUS
  <2>1. FrameInv(top) /\ top.params \in {<<>>, plan}
    BY <1>1 DEF Linked
  <2> QED
    BY <2>1, FrameAnswers
<1> QED
  BY <1>1, <1>2 DEF Linked, ProgramInv, Effective

LEMMA AttemptAnswers ==
    ASSUME ValuesInv, RefusedInv, NEW call \in Attempts
    PROVE  /\ call.dep \in Callables /\ call.callable \in Callables
           /\ Answers(call.kwargs, program.dep_plan[call.dep])
<1>1. CASE \E i \in DOMAIN calls :
             call = [callable |-> calls[i].callable, dep |-> calls[i].dep,
                     kwargs |-> calls[i].kwargs]
  BY <1>1 DEF ValuesInv, CallsInv
<1>2. CASE /\ phase = "refused"
           /\ call = [callable |-> Top.callable, dep |-> Top.entry.dep, kwargs |-> Top.kwargs]
  BY <1>2, RefusedTop DEF ValuesInv, RefusedInv
<1> QED
  BY <1>1, <1>2 DEF Attempts

LEMMA NextRefused == ValuesInv /\ RefusedInv /\ [Next]_vars => RefusedInv'
<1> SUFFICES ASSUME ValuesInv, RefusedInv, [Next]_vars, phase' = "refused" PROVE RefusedInv'
  BY DEF RefusedInv
<1>1. CASE CallDependency
  <2>1. UNCHANGED stack /\ phase = "resolve" /\ ~(Top.at <= Len(Top.params)) /\ ~InLoop
    BY <1>1 DEF CallDependency, Raise, Refuse, More
  <2> QED
    BY <2>1 DEF RefusedInv, InLoop, Top
<1>2. CASE UNCHANGED vars
  BY <1>2 DEF vars, RefusedInv, InLoop, Top
<1> QED
  BY <1>1, <1>2 DEF Next, Extract, Reuse, ExtractScheme, Enter, TakeValue, TakeOther, CallHandler,
         More, Raise

\* A dependency, and the handler, is called with values of what its own parameters ask for;
\* a replacement, if its parameters are those of the original.
THEOREM ArgumentsAreTheirs == Spec => []ValuesAreTheirs
<1>1. ValuesInv /\ RefusedInv /\ DeclaredInv => ValuesAreTheirs
  <2> SUFFICES ASSUME ValuesInv, RefusedInv, DeclaredInv PROVE ValuesAreTheirs
    OBVIOUS
  <2>1. ASSUME NEW call \in Attempts, Alike(call) PROVE HasItsValues(call)
    BY <2>1, AttemptAnswers, AlikePlans DEF HasItsValues
  <2> QED
    BY <2>1 DEF ValuesInv, ValuesAreTheirs
<1>2. Init => RefusedInv
  BY DEF Init, RefusedInv
<1>3. DeclaredInv /\ [Next]_vars => DeclaredInv'
  BY DeclaredKept DEF Next, vars, Extract, Reuse, ExtractScheme, Enter, TakeValue, TakeOther,
         CallDependency, CallHandler
<1> QED
  BY InitValues, NextValues, NextRefused, InitDeclared, <1>1, <1>2, <1>3, PTL DEF Spec

-----------------------------------------------------------------------------
(* Calls that use the cache *)

Ranks(rank) ==
    /\ rank \in [Callables -> 0..Cardinality(Callables)]
    /\ \A c \in Callables : \A i \in DOMAIN program.dep_plan[c] :
          LET entry == program.dep_plan[c][i] IN
          IsDependency(entry) => rank[Effective(entry.dep)] < rank[Effective(c)]

\* What is cached has not been called, or is in the cache.
Uncached(f) == f.entry.use_cache => cache[f.callable] = 0

OnceInv ==
    Layered =>
        /\ \A k \in 2..Len(stack) : Uncached(stack[k])
        /\ \A i \in DOMAIN calls :
              calls[i].cached => calls[i].callable \in Callables /\ cache[calls[i].callable] # 0
        /\ \A i, j \in DOMAIN calls :
              /\ calls[i].cached /\ calls[j].cached
              /\ calls[i].callable = calls[j].callable
              => i = j

LEMMA LayeredRanks == ASSUME Layered PROVE \E rank : Ranks(rank)
BY DEF Layered, Ranks

LEMMA RankValues ==
    ASSUME NEW rank, Ranks(rank), NEW c \in Callables PROVE rank[c] \in Nat
<1>1. Cardinality(Callables) \in Nat
  BY CallablesAssumption, FS_CardinalityType
<1> QED
  BY <1>1 DEF Ranks

\* The frames above the loop are of callables.
LEMMA FrameLinked ==
    ASSUME ProgramInv, StackInv, NEW k \in 2..Len(stack)
    PROVE  /\ k - 1 \in 1..Len(stack)
           /\ stack[k].entry.dep \in Callables /\ stack[k].callable \in Callables
           /\ stack[k].callable = Effective(stack[k].entry.dep)
           /\ stack[k].params \in {<<>>, program.dep_plan[stack[k].entry.dep]}
           /\ IsDependency(stack[k].entry)
           /\ \E i \in DOMAIN stack[k - 1].params : stack[k].entry = stack[k - 1].params[i]
<1> PICK f, caller : f = stack[k] /\ caller = stack[k - 1]
  OBVIOUS
<1>1. k - 1 \in 1..Len(stack) /\ k - 1 \in DOMAIN stack
  <2>1. DOMAIN stack = 1..Len(stack) /\ Len(stack) \in Nat
    BY SequenceFacts DEF StackInv
  <2> QED
    BY <2>1
<1>2. Linked(f, caller) /\ FrameInv(caller)
  BY <1>1 DEF StackInv
<1>3. caller.at \in DOMAIN caller.params /\ f.entry.dep \in Callables
  BY <1>2, LinkedEntry
<1>5. f.callable \in Callables
  BY <1>2, <1>3 DEF Linked, ProgramInv, Effective
<1> QED
  BY <1>1, <1>2, <1>3, <1>5 DEF Linked

\* What a dependency asks for ranks below it.
LEMMA AskedBelow ==
    ASSUME ProgramInv, StackInv, NEW rank, Ranks(rank), NEW k \in 2..Len(stack),
           NEW i \in DOMAIN stack[k].params, IsDependency(stack[k].params[i])
    PROVE  rank[Effective(stack[k].params[i].dep)] < rank[stack[k].callable]
<1> PICK f : f = stack[k]
  OBVIOUS
<1>1. f.entry.dep \in Callables /\ f.callable = Effective(f.entry.dep)
      /\ f.params \in {<<>>, program.dep_plan[f.entry.dep]}
  BY FrameLinked
<1>2. f.params = program.dep_plan[f.entry.dep]
  BY <1>1
<1> QED
  BY <1>1, <1>2 DEF Ranks

LEMMA RanksFall ==
    ASSUME ProgramInv, StackInv, NEW rank, Ranks(rank)
    PROVE  \A k \in 2..Len(stack) : \A j \in 2..k - 1 :
               rank[stack[k].callable] < rank[stack[j].callable]
<1> DEFINE R(k) == rank[stack[k].callable]
           P == {k \in 0..Len(stack) : \A j \in 2..k - 1 : R(k) < R(j)}
<1>1. Len(stack) \in Nat
  BY SequenceFacts DEF StackInv
<1>2. \A k \in 2..Len(stack) : R(k) \in Nat
  BY FrameLinked, RankValues
<1>3. ASSUME NEW k \in 3..Len(stack) PROVE R(k) < R(k - 1)
  <2>1. k \in 2..Len(stack) /\ k - 1 \in 2..Len(stack)
    BY <1>1
  <2>2. PICK i \in DOMAIN stack[k - 1].params : stack[k].entry = stack[k - 1].params[i]
    BY <2>1, FrameLinked
  <2>3. IsDependency(stack[k].entry) /\ stack[k].callable = Effective(stack[k].entry.dep)
    BY <2>1, FrameLinked
  <2> QED
    BY <2>1, <2>2, <2>3, AskedBelow
<1>4. 0 \in P
  BY <1>1
<1>5. ASSUME NEW k \in 0..Len(stack) - 1, k \in P PROVE k + 1 \in P
  <2> HIDE DEF R
  <2>1. ASSUME NEW j \in 2..(k + 1) - 1 PROVE R(k + 1) < R(j)
    <3>1. k + 1 \in 3..Len(stack) /\ (k + 1) - 1 = k /\ k \in 2..Len(stack)
          /\ j \in 2..Len(stack) /\ k + 1 \in 2..Len(stack)
      BY <1>1
    <3>2. R(k + 1) < R(k)
      BY <1>3, <3>1
    <3>3. R(k) < R(j) \/ j = k
      BY <1>1, <1>5, <3>1
    <3>4. R(k) \in Nat /\ R(j) \in Nat /\ R(k + 1) \in Nat
      BY <1>2, <3>1
    <3> QED
      BY <3>2, <3>3, <3>4
  <2> QED
    BY <1>1, <2>1
<1> HIDE DEF P
<1>6. \A k \in 0..Len(stack) : k \in P
  BY <1>1, <1>4, <1>5, Induction
<1> QED
  BY <1>1, <1>6 DEF P

\* Nothing that is being prepared is asked for again.
LEMMA CalleeIsNew ==
    ASSUME ProgramInv, StackInv, Layered, More, IsDependency(Next1)
    PROVE  \A k \in 2..Len(stack) : stack[k].callable # Callee
<1> PICK n : n = Len(stack)
  OBVIOUS
<1>1. PICK rank : Ranks(rank)
  BY LayeredRanks
<1>2. n \in Nat \ {0} /\ Top = stack[n] /\ Top.at \in DOMAIN stack[n].params
      /\ Next1 = stack[n].params[Top.at]
  BY TopFrame DEF More, Next1
<1>3. ASSUME NEW k \in 2..n, stack[k].callable = Callee PROVE FALSE
  <2>1. n \in 2..n
    BY <1>2
  <2>2. rank[Callee] < rank[stack[n].callable]
    BY <1>1, <1>2, <2>1, AskedBelow DEF Callee
  <2>3. k = n \/ (k \in 2..n - 1 /\ rank[stack[n].callable] < rank[stack[k].callable])
    BY <1>1, <1>2, <2>1, RanksFall
  <2>4. rank[stack[n].callable] \in Nat /\ rank[stack[k].callable] \in Nat
    BY <1>1, <2>1, FrameLinked, RankValues
  <2> QED
    BY <1>3, <2>2, <2>3, <2>4
<1> QED
  BY <1>3

LEMMA TopIsNew ==
    ASSUME ProgramInv, StackInv, Layered, phase = "resolve", ~InLoop
    PROVE  \A k \in 2..Len(stack) - 1 : stack[k].callable # Top.callable
<1> PICK n : n = Len(stack)
  OBVIOUS
<1>1. PICK rank : Ranks(rank)
  BY LayeredRanks
<1>2. n \in 2..n /\ n \in Nat /\ Top = stack[n]
  BY TopFrame DEF InLoop
<1>3. ASSUME NEW k \in 2..n - 1 PROVE stack[k].callable # Top.callable
  <2>1. k \in 2..n
    BY <1>2
  <2>2. rank[Top.callable] < rank[stack[k].callable]
    BY <1>1, <1>2, RanksFall
  <2>3. rank[stack[k].callable] \in Nat
    BY <1>1, <2>1, FrameLinked, RankValues
  <2> QED
    BY <2>2, <2>3
<1> QED
  BY <1>3

\* Frames leave and go on; none is added.
NoneAdded(n) ==
    \A k \in 2..Len(stack') :
        k \in 2..n /\ stack'[k].entry = stack[k].entry /\ stack'[k].callable = stack[k].callable

LEMMA ReplacedAddsNone ==
    ASSUME StackInv, NEW n \in 1..Len(stack), NEW f, stack' = SubSeq(stack, 1, n - 1) \o <<f>>,
           f.entry = stack[n].entry, f.callable = stack[n].callable
    PROVE  NoneAdded(n)
<1>1. /\ Len(stack') = n /\ stack'[n] = f /\ n \in Nat
      /\ \A k \in 1..n - 1 : stack'[k] = stack[k]
  BY LastReplaced, SequenceFacts DEF StackInv
<1>2. ASSUME NEW k \in 2..n
      PROVE  stack'[k].entry = stack[k].entry /\ stack'[k].callable = stack[k].callable
  <2>1. k = n \/ k \in 1..n - 1
    BY <1>1
  <2> QED
    BY <1>1, <2>1
<1> QED
  BY <1>1, <1>2 DEF NoneAdded

LEMMA SupplyAddsNone ==
    ASSUME StackInv, More, NEW value, Supply(value) PROVE NoneAdded(Len(stack))
<1> PICK n, top, entry : n = Len(stack) /\ top = Top /\ entry = Next1
  OBVIOUS
<1> DEFINE g == Supplied(top, entry, value)
<1>1. n \in 1..Len(stack) /\ top = stack[n] /\ IsFrame(top)
      /\ Front(stack) = SubSeq(stack, 1, n - 1)
  BY TopFrame DEF More, FrameInv
<1>2. IsSupplied(g, top, entry, value)
  BY <1>1, SuppliedFrame
<1>3. stack' = SubSeq(stack, 1, n - 1) \o <<g>>
  BY <1>1 DEF Supply
<1> HIDE DEF g
<1> QED
  BY <1>1, <1>2, <1>3, ReplacedAddsNone DEF IsSupplied

LEMMA SkipAddsNone ==
    ASSUME StackInv, More, Skip PROVE NoneAdded(Len(stack))
<1> PICK n, top : n = Len(stack) /\ top = Top
  OBVIOUS
<1> DEFINE g == [top EXCEPT !.at = @ + 1]
<1>1. n \in 1..Len(stack) /\ top = stack[n] /\ IsFrame(top)
      /\ Front(stack) = SubSeq(stack, 1, n - 1)
  BY TopFrame DEF More, FrameInv
<1>2. g.entry = top.entry /\ g.callable = top.callable
  BY <1>1, SkippedFrame
<1>3. stack' = SubSeq(stack, 1, n - 1) \o <<g>>
  BY <1>1 DEF Skip
<1> HIDE DEF g
<1> QED
  BY <1>1, <1>2, <1>3, ReplacedAddsNone

LEMMA LayeredKept == ASSUME UNCHANGED program PROVE Layered' <=> Layered
BY DEF Layered, IsDependency, Effective

\* Steps that call nothing and enter nothing.
LEMMA OnceKept ==
    ASSUME OnceInv, UNCHANGED <<program, cache, calls>>, NoneAdded(Len(stack))
    PROVE  OnceInv'
<1> SUFFICES ASSUME Layered PROVE OnceInv'
  BY LayeredKept DEF OnceInv
<1>1. \A k \in 2..Len(stack') : Uncached(stack[k])'
  BY DEF OnceInv, NoneAdded, Uncached
<1> QED
  BY <1>1 DEF OnceInv

\* A call of what is not in the cache, by a frame that leaves with it.
LEMMA OnceRecorded ==
    ASSUME ValuesInv, OnceInv, UNCHANGED program,
           NEW entry, NEW callable, NEW args, NEW scopes, Recorded(entry, callable, args),
           Record(entry, callable, args, scopes),
           entry.use_cache => cache[callable] = 0,
           NEW n, NoneAdded(n), n <= Len(stack), n \in Nat,
           Layered => \A k \in 2..n : stack[k].callable # callable
    PROVE  OnceInv'
<1> SUFFICES ASSUME Layered PROVE OnceInv'
  BY LayeredKept DEF OnceInv
<1> PICK m, call : m = Len(calls) + 1
                   /\ call = [callable |-> callable, dep |-> entry.dep,
                              cached |-> entry.use_cache, kwargs |-> args, scopes |-> scopes]
  OBVIOUS
<1>1. /\ DOMAIN calls' = 1..m /\ calls'[m] = call
      /\ \A k \in 1..m - 1 : calls'[k] = calls[k]
      /\ DOMAIN calls = 1..m - 1 /\ m \in Nat \ {0}
  BY Appended, SequenceFacts DEF ValuesInv, CallsInv, Record
<1>2. callable \in Callables /\ call.callable = callable /\ call.cached = entry.use_cache
  BY DEF Recorded, ValuesInv, ProgramInv, Effective
<1>3. /\ \A c \in Callables : c # callable => cache'[c] = cache[c]
      /\ cache'[callable] = IF entry.use_cache THEN m ELSE cache[callable]
  BY <1>2 DEF Record, ValuesInv, CacheInv
<1>4. ASSUME NEW k \in 2..Len(stack') PROVE Uncached(stack[k])'
  <2>1. k \in 2..Len(stack) /\ k \in 2..n
    BY SequenceFacts DEF NoneAdded, ValuesInv, StackInv
  <2>2. stack[k].callable \in Callables /\ stack[k].callable # callable
    BY <2>1, FrameLinked DEF ValuesInv
  <2>3. cache'[stack[k].callable] = cache[stack[k].callable]
    BY <1>3, <2>2
  <2> QED
    BY <2>1, <2>3 DEF Uncached, OnceInv, NoneAdded
<1>5. \A i \in DOMAIN calls : calls[i].cached =>
          calls[i].callable \in Callables /\ cache[calls[i].callable] # 0
  BY DEF OnceInv
<1>6. ASSUME NEW i \in DOMAIN calls', calls'[i].cached
      PROVE  calls'[i].callable \in Callables /\ cache'[calls'[i].callable] # 0
  <2>1. CASE i = m
    BY <1>1, <1>2, <1>3, <1>6, <2>1
  <2>2. CASE i # m
    <3>1. i \in DOMAIN calls /\ calls'[i] = calls[i]
      BY <1>1, <2>2
    <3>2. calls[i].callable \in Callables /\ cache[calls[i].callable] # 0
      BY <1>5, <1>6, <3>1
    <3>3. calls[i].callable = callable => entry.use_cache \/ cache'[callable] = cache[callable]
      BY <1>3
    <3> QED
      BY <1>1, <1>3, <3>1, <3>2, <3>3
  <2> QED
    BY <2>1, <2>2
<1>7. ASSUME NEW i \in DOMAIN calls', NEW j \in DOMAIN calls',
             calls'[i].cached, calls'[j].cached, calls'[i].callable = calls'[j].callable
      PROVE  i = j
  <2>1. ASSUME NEW k \in 1..m - 1, calls[k].cached, entry.use_cache, calls[k].callable = callable
        PROVE  FALSE
    BY <1>1, <1>5, <2>1
  <2>2. \A k \in 1..m : k = m \/ (k \in 1..m - 1 /\ calls'[k] = calls[k])
    BY <1>1
  <2>3. CASE i = m /\ j # m
    BY <1>1, <1>2, <1>7, <2>1, <2>2, <2>3
  <2>4. CASE i # m /\ j = m
    BY <1>1, <1>2, <1>7, <2>1, <2>2, <2>4
  <2>5. CASE i # m /\ j # m
    BY <1>1, <1>7, <2>2, <2>5 DEF OnceInv
  <2> QED
    BY <2>3, <2>4, <2>5
<1> QED
  BY <1>4, <1>6, <1>7 DEF OnceInv

LEMMA EnterOnce == ASSUME ValuesInv, OnceInv, Enter PROVE OnceInv'
<1> SUFFICES ASSUME Layered PROVE OnceInv'
  BY LayeredKept DEF OnceInv, Enter
<1> PICK f, n : /\ n = Len(stack)
                /\ f = Frame(Next1, Callee, PlanFor(Next1, Top.seen),
                             IF Next1.internal THEN {} ELSE Top.seen \cup {Next1.dep},
                             ScopesFor(Next1, Top.scopes))
  OBVIOUS
<1>1. f.entry = Next1 /\ f.callable = Callee
  BY DEF Frame
<1>2. /\ Len(stack') = n + 1 /\ stack'[n + 1] = f /\ n \in Nat
      /\ \A k \in 1..n : stack'[k] = stack[k]
  BY Appended, SequenceFacts DEF Enter, ValuesInv, StackInv
<1>3. Uncached(f)
  BY <1>1 DEF Enter, Reusable, Uncached
<1>4. UNCHANGED <<cache, calls>>
  BY DEF Enter
<1>5. ASSUME NEW k \in 2..Len(stack') PROVE Uncached(stack[k])'
  <2>1. k = n + 1 \/ (k \in 2..n /\ stack'[k] = stack[k])
    BY <1>2
  <2>2. Uncached(stack'[k])
    BY <1>2, <1>3, <2>1 DEF OnceInv
  <2> QED
    BY <1>4, <2>2 DEF Uncached
<1> QED
  BY <1>4, <1>5 DEF OnceInv

LEMMA UnchangedAddsNone == ASSUME UNCHANGED stack PROVE NoneAdded(Len(stack))
BY DEF NoneAdded

LEMMA ExtractSchemeOnce == ASSUME ValuesInv, OnceInv, ExtractScheme PROVE OnceInv'
<1>1. More /\ IsDependency(Next1) /\ ~Reusable /\ UNCHANGED program
  BY DEF ExtractScheme
<1>2. CASE Raise
  BY <1>1, <1>2, UnchangedAddsNone, OnceKept DEF Raise
<1>3. CASE Record(Next1, Callee, {}, {}) /\ Supply(Len(calls) + 1)
  <2> PICK entry, callable, n, value :
          entry = Next1 /\ callable = Callee /\ n = Len(stack) /\ value = Len(calls) + 1
    OBVIOUS
  <2>1. Recorded(entry, callable, {})
    BY <1>1, TopFrame DEF ValuesInv, Recorded, Callee, Answers, More
  <2>2. n \in Nat /\ n <= Len(stack)
    BY SequenceFacts DEF ValuesInv, StackInv
  <2>3. NoneAdded(n)
    <3>1. Supply(value)
      BY <1>3
    <3> QED
      BY <1>1, <3>1, SupplyAddsNone DEF ValuesInv
  <2>4. Layered => \A k \in 2..n : stack[k].callable # callable
    BY <1>1, CalleeIsNew DEF ValuesInv
  <2>5. Record(entry, callable, {}, {}) /\ (entry.use_cache => cache[callable] = 0)
    BY <1>1, <1>3 DEF Reusable
  <2> QED
    BY <1>1, <2>1, <2>2, <2>3, <2>4, <2>5, OnceRecorded
<1> QED
  BY <1>2, <1>3 DEF ExtractScheme

LEMMA CallDependencyOnce == ASSUME ValuesInv, OnceInv, CallDependency PROVE OnceInv'
<1>1. phase = "resolve" /\ ~InLoop /\ UNCHANGED program
  BY DEF CallDependency
<1>2. CASE Raise \/ Refuse
  BY <1>1, <1>2, UnchangedAddsNone, OnceKept DEF Raise, Refuse
<1>3. CASE /\ Record(Top.entry, Top.callable, Top.kwargs, Top.scopes)
           /\ LET parent == stack[Len(stack) - 1] IN
              stack' = SubSeq(stack, 1, Len(stack) - 2)
                           \o <<Supplied(parent, Top.entry, Len(calls) + 1)>>
  <2> SUFFICES ASSUME Layered PROVE OnceInv'
    BY <1>1, LayeredKept DEF OnceInv
  <2> PICK top, entry, n, parent, value :
          /\ top = Top /\ entry = Top.entry /\ n = Len(stack) - 1 /\ parent = stack[n]
          /\ value = Len(calls) + 1
    OBVIOUS
  <2>1. /\ FrameInv(top) /\ entry = top.entry /\ IsDependency(entry)
        /\ top.callable = Effective(entry.dep)
        /\ top.params \in {<<>>, program.dep_plan[entry.dep]}
        /\ entry.dep \in Callables /\ n \in 1..Len(stack)
    <3> PICK caller : caller = stack[Len(stack) - 1]
      OBVIOUS
    <3>1. /\ FrameInv(top) /\ Linked(top, caller) /\ top.entry.dep \in Callables
          /\ n \in 1..Len(stack)
      BY <1>1, TopLinked DEF ValuesInv
    <3> QED
      BY <3>1 DEF Linked
  <2>2. Recorded(entry, top.callable, top.kwargs)
    <3>1. Answers(top.kwargs, program.dep_plan[entry.dep])
      BY <2>1, FrameAnswers
    <3> QED
      BY <2>1, <3>1 DEF Recorded
  <2>3. n \in Nat /\ n <= Len(stack) /\ Len(stack) - 2 = n - 1 /\ Len(stack) \in 2..Len(stack)
        /\ top = stack[Len(stack)]
    BY <1>1, <2>1, TopFrame DEF ValuesInv, InLoop
  <2>4. NoneAdded(n)
    <3> DEFINE g == Supplied(parent, entry, value)
    <3>1. IsFrame(parent)
      BY <2>1, SequenceFacts DEF ValuesInv, StackInv, FrameInv
    <3>2. IsSupplied(g, parent, entry, value)
      BY <3>1, SuppliedFrame
    <3>3. stack' = SubSeq(stack, 1, n - 1) \o <<g>>
      BY <1>3, <2>3
    <3> HIDE DEF g
    <3> QED
      BY <2>1, <3>2, <3>3, ReplacedAddsNone DEF IsSupplied, ValuesInv
  <2>5. \A k \in 2..n : stack[k].callable # top.callable
    BY <1>1, TopIsNew DEF ValuesInv
  <2>6. /\ Record(entry, top.callable, top.kwargs, top.scopes)
        /\ entry.use_cache => cache[top.callable] = 0
    BY <1>3, <2>1, <2>3 DEF OnceInv, Uncached
  <2> QED
    BY <1>1, <2>2, <2>3, <2>4, <2>5, <2>6, OnceRecorded
<1> QED
  BY <1>2, <1>3 DEF CallDependency

LEMMA NextOnce == ValuesInv /\ OnceInv /\ [Next]_vars => OnceInv'
<1> SUFFICES ASSUME ValuesInv, OnceInv, [Next]_vars PROVE OnceInv'
  OBVIOUS
<1>1. CASE Extract
  <2>1. UNCHANGED <<program, cache, calls>>
    BY <1>1 DEF Extract
  <2>2. Len(stack') \in {0, 1}
    <3>1. stack = <<>>
      BY <1>1 DEF Extract, ValuesInv, StackInv
    <3> QED
      BY <1>1, <3>1 DEF Extract
  <2>3. NoneAdded(Len(stack))
    BY <2>2 DEF NoneAdded
  <2> QED
    BY <2>1, <2>3, OnceKept
<1>2. CASE Reuse
  <2> PICK value : value = cache[Callee]
    OBVIOUS
  <2>1. More /\ Supply(value) /\ UNCHANGED <<program, cache, calls>>
    BY <1>2 DEF Reuse
  <2> QED
    BY <2>1, SupplyAddsNone, OnceKept DEF ValuesInv
<1>3. CASE ExtractScheme
  BY <1>3, ExtractSchemeOnce
<1>4. CASE Enter
  BY <1>4, EnterOnce
<1>5. CASE TakeValue
  <2>1. More /\ UNCHANGED <<program, cache, calls>>
        /\ (Supply(FromRequest) \/ Skip \/ UNCHANGED stack)
    BY <1>5 DEF TakeValue
  <2> QED
    BY <2>1, SupplyAddsNone, SkipAddsNone, UnchangedAddsNone, OnceKept DEF ValuesInv
<1>6. CASE TakeOther
  <2>1. More /\ UNCHANGED <<program, cache, calls>> /\ (Supply(FromRequest) \/ Skip)
    BY <1>6 DEF TakeOther
  <2> QED
    BY <2>1, SupplyAddsNone, SkipAddsNone, OnceKept DEF ValuesInv
<1>7. CASE CallDependency
  BY <1>7, CallDependencyOnce
<1>8. CASE CallHandler
  BY <1>8, UnchangedAddsNone, OnceKept DEF CallHandler
<1>9. CASE UNCHANGED vars
  BY <1>9, UnchangedAddsNone, OnceKept DEF vars
<1> QED
  BY <1>1, <1>2, <1>3, <1>4, <1>5, <1>6, <1>7, <1>8, <1>9 DEF Next

\* A callable is called at most once for the entries that use the cache.
THEOREM CalledOnce == Spec => []CachedOnce
<1>1. Init => OnceInv
  <2>1. ASSUME Init PROVE Len(stack) = 0 /\ DOMAIN calls = {}
    BY <2>1 DEF Init
  <2> QED
    BY <2>1 DEF OnceInv
<1>2. OnceInv => CachedOnce
  BY DEF OnceInv, CachedOnce
<1> QED
  BY InitValues, NextValues, NextOnce, <1>1, <1>2, PTL DEF Spec

-----------------------------------------------------------------------------
(* The errors of the request *)

IsError(result) == result.is = "error"

LEMMA ErrorsHeld ==
    ASSUME NEW s, IsSequence(s)
    PROVE  Holds(Filter(s, IsError), s, {i \in DOMAIN s : IsError(s[i])})
<1> DEFINE indices == {i \in DOMAIN s : IsError(s[i])}
           upto == CHOOSE f : f = [n \in 0..Len(s) |->
                      IF n = 0 THEN <<>>
                      ELSE IF IsError(s[n]) THEN Append(f[n - 1], s[n]) ELSE f[n - 1]]
<1>1. ASSUME NEW f
      PROVE  Picks(f, s, indices) <=>
                 f = [n \in 0..Len(s) |->
                         IF n = 0 THEN <<>>
                         ELSE IF IsError(s[n]) THEN Append(f[n - 1], s[n]) ELSE f[n - 1]]
  <2>1. \A n \in 0..Len(s) : n # 0 => (n \in indices <=> IsError(s[n]))
    BY SequenceFacts
  <2> HIDE DEF indices
  <2> QED
    BY <2>1 DEF Picks
<1>2. \E f : Picks(f, s, indices)
  BY PicksExist
<1>3. Picks(upto, s, indices)
  <2> HIDE DEF indices
  <2> QED
    BY <1>1, <1>2
<1>4. Filter(s, IsError) = upto[Len(s)]
  BY DEF Filter
<1> HIDE DEF upto
<1> QED
  BY <1>3, <1>4, PicksHold

Breaks(b, param, raw) == b \in param.validators \cap Applicable(param.type) \cap raw.breaks

LEMMA BreaksHeld ==
    ASSUME IsSequence(Bounds), NEW param, NEW raw
    PROVE  Holds(Broken(param, raw), Bounds,
                 {i \in DOMAIN Bounds : Breaks(Bounds[i], param, raw)})
<1> DEFINE indices == {i \in DOMAIN Bounds : Breaks(Bounds[i], param, raw)}
           upto == CHOOSE f : f = [n \in 0..Len(Bounds) |->
                      IF n = 0 THEN <<>>
                      ELSE IF Breaks(Bounds[n], param, raw) THEN Append(f[n - 1], Bounds[n]) ELSE f[n - 1]]
<1>1. ASSUME NEW f
      PROVE  Picks(f, Bounds, indices) <=>
                 f = [n \in 0..Len(Bounds) |->
                         IF n = 0 THEN <<>>
                         ELSE IF Breaks(Bounds[n], param, raw) THEN Append(f[n - 1], Bounds[n])
                         ELSE f[n - 1]]
  <2>1. \A n \in 0..Len(Bounds) : n # 0 => (n \in indices <=> Breaks(Bounds[n], param, raw))
    BY SequenceFacts
  <2> HIDE DEF indices
  <2> QED
    BY <2>1 DEF Picks
<1>2. \E f : Picks(f, Bounds, indices)
  BY PicksExist
<1>3. Picks(upto, Bounds, indices)
  <2> HIDE DEF indices
  <2> QED
    BY <1>1, <1>2
<1>4. Broken(param, raw) = upto[Len(Bounds)]
  BY DEF Broken, Filter, Breaks
<1> HIDE DEF upto
<1> QED
  BY <1>3, <1>4, PicksHold

\* A value breaks no bound that is looked at if and only if none is broken.
LEMMA NothingBroken ==
    ASSUME NEW param, NEW raw
    PROVE  Broken(param, raw) = <<>>
               <=> param.validators \cap Applicable(param.type) \cap raw.breaks = {}
<1> DEFINE broken == Broken(param, raw)
<1>1. /\ IsSequence(Bounds) /\ DOMAIN Bounds = 1..7
      /\ \A b \in Applicable(param.type) : \E i \in 1..7 : b = Bounds[i]
  <2>1. Bounds = [i \in 1..7 |-> Bounds[i]]
    BY DEF Bounds
  <2>2. IsSequence(Bounds) /\ DOMAIN Bounds = 1..7
    BY <2>1, FunctionIsSequence
  <2>3. /\ Bounds[1] = "gt" /\ Bounds[2] = "ge" /\ Bounds[3] = "lt" /\ Bounds[4] = "le"
        /\ Bounds[5] = "min_length" /\ Bounds[6] = "max_length" /\ Bounds[7] = "pattern"
    BY DEF Bounds
  <2>4. Applicable(param.type) \in {{"gt", "ge", "lt", "le"}, {},
                                   {"min_length", "max_length", "pattern"}}
    BY DEF Applicable
  <2> QED
    BY <2>2, <2>3, <2>4
<1>3. Holds(broken, Bounds, {i \in DOMAIN Bounds : Breaks(Bounds[i], param, raw)})
  BY <1>1, BreaksHeld
<1> HIDE DEF broken
<1>4. broken = <<>> <=> \A i \in 1..7 : ~Breaks(Bounds[i], param, raw)
  <2>1. Len(broken) \in Nat /\ DOMAIN broken = 1..Len(broken) /\ (broken = <<>> <=> Len(broken) = 0)
    BY <1>3 DEF Holds
  <2>2. \A i \in 1..7 : Breaks(Bounds[i], param, raw) => \E j \in 1..Len(broken) : TRUE
    BY <1>1, <1>3 DEF Holds
  <2>3. \A j \in 1..Len(broken) : \E i \in 1..7 : Breaks(Bounds[i], param, raw)
    BY <1>1, <1>3 DEF Holds
  <2> QED
    BY <2>1, <2>2, <2>3
<1>5. (\A i \in 1..7 : ~Breaks(Bounds[i], param, raw))
          <=> param.validators \cap Applicable(param.type) \cap raw.breaks = {}
  BY <1>1 DEF Breaks
<1> QED
  BY <1>4, <1>5 DEF broken

LEMMA TextHeld ==
    ASSUME NEW s, IsSequence(s)
    PROVE  Holds(Filter(s, IsText), s, {i \in DOMAIN s : IsText(s[i])})
<1> DEFINE indices == {i \in DOMAIN s : IsText(s[i])}
           upto == CHOOSE f : f = [n \in 0..Len(s) |->
                      IF n = 0 THEN <<>>
                      ELSE IF IsText(s[n]) THEN Append(f[n - 1], s[n]) ELSE f[n - 1]]
<1>1. ASSUME NEW f
      PROVE  Picks(f, s, indices) <=>
                 f = [n \in 0..Len(s) |->
                         IF n = 0 THEN <<>>
                         ELSE IF IsText(s[n]) THEN Append(f[n - 1], s[n]) ELSE f[n - 1]]
  <2>1. \A n \in 0..Len(s) : n # 0 => (n \in indices <=> IsText(s[n]))
    BY SequenceFacts
  <2> HIDE DEF indices
  <2> QED
    BY <2>1 DEF Picks
<1>2. \E f : Picks(f, s, indices)
  BY PicksExist
<1>3. Picks(upto, s, indices)
  <2> HIDE DEF indices
  <2> QED
    BY <1>1, <1>2
<1>4. Filter(s, IsText) = upto[Len(s)]
  BY DEF Filter
<1> HIDE DEF upto
<1> QED
  BY <1>3, <1>4, PicksHold

LEMMA FieldsHeld ==
    ASSUME NEW s, IsSequence(s)
    PROVE  Holds(Filter(s, IsField), s, {i \in DOMAIN s : IsField(s[i])})
<1> DEFINE indices == {i \in DOMAIN s : IsField(s[i])}
           upto == CHOOSE f : f = [n \in 0..Len(s) |->
                      IF n = 0 THEN <<>>
                      ELSE IF IsField(s[n]) THEN Append(f[n - 1], s[n]) ELSE f[n - 1]]
<1>1. ASSUME NEW f
      PROVE  Picks(f, s, indices) <=>
                 f = [n \in 0..Len(s) |->
                         IF n = 0 THEN <<>>
                         ELSE IF IsField(s[n]) THEN Append(f[n - 1], s[n]) ELSE f[n - 1]]
  <2>1. \A n \in 0..Len(s) : n # 0 => (n \in indices <=> IsField(s[n]))
    BY SequenceFacts
  <2> HIDE DEF indices
  <2> QED
    BY <2>1 DEF Picks
<1>2. \E f : Picks(f, s, indices)
  BY PicksExist
<1>3. Picks(upto, s, indices)
  <2> HIDE DEF indices
  <2> QED
    BY <1>1, <1>2
<1>4. Filter(s, IsField) = upto[Len(s)]
  BY DEF Filter
<1> HIDE DEF upto
<1> QED
  BY <1>3, <1>4, PicksHold

IsNamed(field, key) == field.name = key

LEMMA NamedFieldsHeld ==
    ASSUME NEW s, IsSequence(s), NEW key
    PROVE  Holds(Filter(s, LAMBDA f : f.name = key), s, {i \in DOMAIN s : IsNamed(s[i], key)})
<1> DEFINE indices == {i \in DOMAIN s : IsNamed(s[i], key)}
           upto == CHOOSE f : f = [n \in 0..Len(s) |->
                      IF n = 0 THEN <<>>
                      ELSE IF IsNamed(s[n], key) THEN Append(f[n - 1], s[n]) ELSE f[n - 1]]
<1>1. ASSUME NEW f
      PROVE  Picks(f, s, indices) <=>
                 f = [n \in 0..Len(s) |->
                         IF n = 0 THEN <<>>
                         ELSE IF IsNamed(s[n], key) THEN Append(f[n - 1], s[n]) ELSE f[n - 1]]
  <2>1. \A n \in 0..Len(s) : n # 0 => (n \in indices <=> IsNamed(s[n], key))
    BY SequenceFacts
  <2> HIDE DEF indices
  <2> QED
    BY <2>1 DEF Picks
<1>2. \E f : Picks(f, s, indices)
  BY PicksExist
<1>3. Picks(upto, s, indices)
  <2> HIDE DEF indices
  <2> QED
    BY <1>1, <1>2
<1>4. Filter(s, LAMBDA f : f.name = key) = upto[Len(s)]
  BY DEF Filter, IsNamed
<1> HIDE DEF upto
<1> QED
  BY <1>3, <1>4, PicksHold

LEMMA MultipartIsSequence ==
    ASSUME NEW form, IsSequence(form.parts) PROVE IsSequence(_parse_multipart(form))
<1>1. IsSequence(<<>>)
  BY DEF IsSequence, ToSet
<1>2. ASSUME form.parts # <<>> PROVE IsSequence(Front(form.parts))
  <2> PICK s : s = form.parts
    OBVIOUS
  <2> DEFINE T == ToSet(s)
  <2>1. s \in Seq(T) /\ s # <<>>
    BY <1>2 DEF IsSequence
  <2> HIDE DEF T
  <2>2. Front(s) \in Seq(T)
    BY <2>1 DEF Front
  <2> QED
    BY <2>2, OwnElements
<1>3. ASSUME NEW s, IsSequence(s) PROVE IsSequence(Filter(s, IsField))
  BY <1>3, FieldsHeld, OwnElements DEF Holds
<1> QED
  BY <1>1, <1>2, <1>3 DEF _parse_multipart

\* The values that a parameter is made from are in a sequence.
LEMMA FoundIsSequence ==
    ASSUME Sent(request), NEW param PROVE IsSequence(Found(param, Seen))
<1> DEFINE key == LookupKey(param)
<1>1. /\ Seen.path = request.path /\ Seen.query = request.query
      /\ Seen.header = request.header /\ Seen.cookie = request.cookie
      /\ Seen.form = IF NeedsForm THEN parse_form_body(request.form) ELSE <<>>
  BY DEF Seen, Sent
<1>2. IsSequence(<<>>) /\ DOMAIN <<>> = {}
  BY DEF IsSequence, ToSet
<1>3. ASSUME NEW fields, \A k \in DOMAIN fields : IsSequence(fields[k]), NEW k
      PROVE  IsSequence(At(fields, k))
  BY <1>2, <1>3 DEF At
<1>4. \A k \in DOMAIN Seen.form : IsSequence(Seen.form[k])
  <2>1. ASSUME NEW k \in DOMAIN parse_form_body(request.form)
        PROVE  IsSequence(parse_form_body(request.form)[k])
    <3> DEFINE form == request.form
               fields == CASE form.encoding = "urlencoded" -> form.parts
                           [] form.encoding = "multipart" -> _parse_multipart(form)
                           [] OTHER -> <<>>
               own == Filter(fields, LAMBDA f : f.name = k)
    <3>1. IsSequence(fields)
      BY <1>2, MultipartIsSequence DEF Sent
    <3>2. parse_form_body(form)[k] = [i \in DOMAIN own |-> own[i].raw]
      BY DEF parse_form_body
    <3> HIDE DEF fields
    <3>3. Holds(own, fields, {i \in DOMAIN fields : IsNamed(fields[i], k)})
      BY <3>1, NamedFieldsHeld
    <3> HIDE DEF own
    <3>4. DOMAIN own = 1..Len(own) /\ Len(own) \in Nat
      BY <3>3 DEF Holds
    <3> DEFINE q == [i \in DOMAIN own |-> own[i].raw]
    <3>5. q = [i \in 1..Len(own) |-> q[i]]
      BY <3>4
    <3> HIDE DEF q
    <3>6. IsSequence(q)
      BY <3>4, <3>5, FunctionIsSequence
    <3> QED
      BY <3>2, <3>6 DEF q
  <2> QED
    BY <1>1, <1>2, <2>1
<1>5. IsSequence(At(Seen.form, key))
  BY <1>3, <1>4
<1>6. IsSequence(Filter(At(Seen.form, key), IsText))
  BY <1>5, TextHeld, OwnElements DEF Holds
<1>7. /\ IsSequence(At(Seen.path, param.name)) /\ IsSequence(At(Seen.query, key))
      /\ IsSequence(At(Seen.header, Or(Lower, key))) /\ IsSequence(At(Seen.cookie, key))
  <2>1. \A fields : (\A k \in DOMAIN fields : IsSequence(fields[k])) =>
            \A k : IsSequence(At(fields, k))
    BY <1>3
  <2> QED
    BY <1>1, <2>1 DEF Sent
<1> QED
  BY <1>2, <1>5, <1>6, <1>7 DEF Found

\* The result is an error if the parameter is at fault, and the error is about it.
Tells(result, param) ==
    /\ result.is = "error" <=> AtFault(param)
    /\ result.is = "error" => About(result.error, param)

LEMMA RefusedTells ==
    ASSUME NEW param, AtFault(param), NEW type, NEW in, NEW key \in {param.name, LookupKey(param)}
    PROVE  Tells(Refused(Error(type, in, key)), param)
BY DEF Tells, Refused, Error, About

LEMMA GivenTells ==
    ASSUME NEW param, ~AtFault(param), NEW raws
    PROVE  Tells(Given(raws), param) /\ Tells(UseDefault, param)
BY DEF Tells, Given, UseDefault

LEMMA OneFault ==
    ASSUME Sent(request), NEW param PROVE Tells(extract_one_param(param, Seen), param)
<1> PICK raws, result : raws = Found(param, Seen) /\ result = extract_one_param(param, Seen)
  OBVIOUS
<1> SUFFICES Tells(result, param)
  OBVIOUS
<1>1. IsSequence(raws)
  BY FoundIsSequence
<1>2. raws # <<>> => 1 \in DOMAIN raws
  <2>1. raws # <<>> => Len(raws) # 0
    BY <1>1 DEF IsSequence
  <2> QED
    BY <1>1, <2>1, SequenceFacts
<1>3. CASE param.source \notin OwnSources
  <2>1. result = UseDefault /\ ~AtFault(param)
    BY <1>3 DEF extract_one_param, AtFault
  <2> QED
    BY <2>1, GivenTells
<1>4. CASE param.source \in OwnSources /\ raws = <<>>
  <2>1. result = Absent(param) /\ (AtFault(param) <=> param.required)
    BY <1>4 DEF extract_one_param, AtFault
  <2>2. CASE param.required
    <3>1. result = Refused(Error("missing", Location(param), LookupKey(param)))
      BY <2>1, <2>2 DEF Absent, missing
    <3> QED
      BY <2>1, <2>2, <3>1, RefusedTells
  <2>3. CASE ~param.required
    <3>1. result = UseDefault
      BY <2>1, <2>3 DEF Absent
    <3> QED
      BY <2>1, <2>3, <3>1, GivenTells
  <2> QED
    BY <2>2, <2>3
<1>5. CASE param.source \in OwnSources /\ raws # <<>> /\ IsFile(param)
  <2>1. result = Given(raws) /\ ~AtFault(param)
    BY <1>5 DEF extract_one_param, AtFault, Wrong
  <2> QED
    BY <2>1, GivenTells
<1>6. CASE param.source \in OwnSources /\ raws # <<>> /\ ~IsFile(param)
  <2>1. result = Converted(param, raws) /\ (AtFault(param) <=> Wrong(param, raws))
    BY <1>6 DEF extract_one_param, AtFault
  <2>2. CASE param.list /\ \A i \in DOMAIN raws : cast_scalar(param.type, raws[i])
    <3>1. result = Given(raws) /\ ~Wrong(param, raws)
      BY <2>1, <2>2 DEF Converted, Wrong, cast_scalar
    <3> QED
      BY <2>1, <3>1, GivenTells
  <2>3. CASE \/ param.list /\ ~(\A i \in DOMAIN raws : cast_scalar(param.type, raws[i]))
             \/ ~param.list /\ ~cast_scalar(param.type, raws[1])
    <3>1. result = Refused(Error(param.type, Location(param), param.name))
      BY <2>1, <2>3 DEF Converted, Uncast
    <3>2. Wrong(param, raws)
      BY <1>2, <1>6, <2>3 DEF Wrong, cast_scalar
    <3> QED
      BY <2>1, <3>1, <3>2, RefusedTells
  <2>4. CASE ~param.list /\ cast_scalar(param.type, raws[1])
    <3>1. Wrong(param, raws) <=> Broken(param, raws[1]) # <<>>
      BY <1>2, <1>6, <2>4, NothingBroken DEF Wrong, cast_scalar
    <3>2. result = run_validators(param, raws[1])
      BY <2>1, <2>4 DEF Converted
    <3>3. CASE Broken(param, raws[1]) = <<>>
      <4>1. result = Given(<<raws[1]>>)
        BY <3>2, <3>3 DEF run_validators
      <4> QED
        BY <2>1, <3>1, <3>3, <4>1, GivenTells
    <3>4. CASE Broken(param, raws[1]) # <<>>
      <4>1. PICK type, in : result = Refused(Error(type, in, param.name))
        BY <3>2, <3>4 DEF run_validators
      <4> QED
        BY <2>1, <3>1, <3>4, <4>1, RefusedTells
    <3> QED
      BY <3>3, <3>4
  <2> QED
    BY <2>2, <2>3, <2>4
<1> QED
  BY <1>3, <1>4, <1>5, <1>6

\* A sequence of sequences, in a row: each element is of one of them.
FlatOf(r, seqs) ==
    /\ IsSequence(r)
    /\ \A j \in DOMAIN r : \E i \in DOMAIN seqs : \E k \in DOMAIN seqs[i] : r[j] = seqs[i][k]

Flattens(f, seqs) ==
    f = [i \in 1..Len(seqs) |-> IF i = 1 THEN seqs[i] ELSE f[i - 1] \o seqs[i]]

LEMMA FlattensExist ==
    ASSUME NEW seqs, NEW n \in Nat, Len(seqs) = n + 1, DOMAIN seqs = 1..n + 1,
           NEW S, \A i \in DOMAIN seqs : seqs[i] \in Seq(S)
    PROVE  \E f : Flattens(f, seqs)
<1> DEFINE X == Seq(S)
           step == [p \in (1..n) \X X |-> p[2] \o seqs[p[1] + 1]]
<1>1. Stepping(step, n, X)
  <2> SUFFICES ASSUME NEW p \in (1..n) \X X PROVE p[2] \o seqs[p[1] + 1] \in X
    BY DEF Stepping
  <2>1. p[1] \in 1..n /\ p[2] \in X /\ seqs[p[1] + 1] \in X
    OBVIOUS
  <2> QED
    BY <2>1
<1>2. seqs[1] \in X
  OBVIOUS
<1> HIDE DEF X
<1>3. PICK g : Iterates(g, seqs[1], step, n, X)
  <2> HIDE DEF step
  <2> QED
    BY <1>1, <1>2, Recursion
<1>4. ASSUME NEW i \in 1..n PROVE g[i] = g[i - 1] \o seqs[i + 1]
  <2>1. <<i, g[i - 1]>> \in (1..n) \X X
    BY <1>3 DEF Iterates
  <2> QED
    BY <1>3, <2>1 DEF Iterates
<1> DEFINE f == [i \in 1..n + 1 |-> g[i - 1]]
<1>5. ASSUME NEW i \in 1..n + 1
      PROVE  f[i] = IF i = 1 THEN seqs[i] ELSE f[i - 1] \o seqs[i]
  <2>1. CASE i = 1
    <3>1. f[1] = g[0]
      OBVIOUS
    <3> QED
      BY <1>3, <2>1, <3>1 DEF Iterates
  <2>2. CASE i # 1
    <3>1. i - 1 \in 1..n /\ (i - 1) + 1 = i /\ i - 1 \in 1..n + 1
      BY <2>2
    <3>2. g[i - 1] = g[(i - 1) - 1] \o seqs[i]
      BY <1>4, <3>1
    <3>3. f[i] = g[i - 1] /\ f[i - 1] = g[(i - 1) - 1]
      BY <3>1
    <3> QED
      BY <2>2, <3>2, <3>3
  <2> QED
    BY <2>1, <2>2
<1>6. f = [i \in 1..Len(seqs) |-> f[i]]
  OBVIOUS
<1> HIDE DEF f
<1>7. Flattens(f, seqs)
  BY <1>5, <1>6 DEF Flattens
<1> QED
  BY <1>7

LEMMA Flattened ==
    ASSUME NEW seqs, NEW n \in Nat, Len(seqs) = n + 1, DOMAIN seqs = 1..n + 1,
           \A i \in DOMAIN seqs : IsSequence(seqs[i])
    PROVE  FlatOf(FlattenSeq(seqs), seqs)
<1> DEFINE S == UNION {ToSet(seqs[i]) : i \in DOMAIN seqs}
           f == CHOOSE f : f = [i \in 1..Len(seqs) |->
                                   IF i = 1 THEN seqs[i] ELSE f[i - 1] \o seqs[i]]
<1>1. \A i \in DOMAIN seqs : seqs[i] \in Seq(S)
  <2> SUFFICES ASSUME NEW i \in DOMAIN seqs PROVE seqs[i] \in Seq(S)
    OBVIOUS
  <2> DEFINE T == ToSet(seqs[i])
  <2>1. seqs[i] \in Seq(T) /\ T \subseteq S
    BY DEF IsSequence
  <2> HIDE DEF T, S
  <2> QED
    BY <2>1
<1> HIDE DEF S
<1>2. \E g : Flattens(g, seqs)
  BY <1>1, FlattensExist
<1>3. Flattens(f, seqs)
  BY <1>2 DEF Flattens
<1>4. FlattenSeq(seqs) = f[n + 1]
  BY DEF FlattenSeq
<1> HIDE DEF f
<1> DEFINE P == {i \in 0..n : f[i + 1] \in Seq(S)}
<1>5. \A i \in 1..n + 1 : f[i] = IF i = 1 THEN seqs[i] ELSE f[i - 1] \o seqs[i]
  BY <1>3 DEF Flattens
<1>6. 0 \in P
  BY <1>1, <1>5
<1>7. ASSUME NEW i \in 0..n - 1, i \in P PROVE i + 1 \in P
  <2>1. (i + 1) + 1 \in 1..n + 1 /\ (i + 1) + 1 # 1 /\ ((i + 1) + 1) - 1 = i + 1 /\ i + 1 \in 0..n
    OBVIOUS
  <2>2. f[(i + 1) + 1] = f[i + 1] \o seqs[(i + 1) + 1]
    BY <1>5, <2>1
  <2>3. f[i + 1] \in Seq(S) /\ seqs[(i + 1) + 1] \in Seq(S)
    BY <1>1, <1>7, <2>1
  <2>4. f[(i + 1) + 1] \in Seq(S)
    BY <2>2, <2>3
  <2> QED
    BY <2>1, <2>4
<1> HIDE DEF P
<1>8. f[n + 1] \in Seq(S)
  <2>1. n \in P
    BY <1>6, <1>7, Induction
  <2> QED
    BY <2>1 DEF P
<1>9. IsSequence(f[n + 1]) /\ \A j \in DOMAIN f[n + 1] : f[n + 1][j] \in S
  BY <1>8, OwnElements
<1>10. \A x \in S : \E i \in DOMAIN seqs : \E k \in DOMAIN seqs[i] : x = seqs[i][k]
  BY DEF S, ToSet
<1> QED
  BY <1>4, <1>9, <1>10 DEF FlatOf

LEMMA OneOrNone ==
    ASSUME NEW x
    PROVE  /\ IsSequence(<<x>>) /\ DOMAIN <<x>> = {1} /\ <<x>>[1] = x
           /\ IsSequence(<<>>) /\ DOMAIN <<>> = {}
<1>1. <<x>> \in Seq({x}) /\ DOMAIN <<x>> = {1} /\ <<x>>[1] = x
  OBVIOUS
<1>2. IsSequence(<<x>>)
  BY <1>1, OwnElements
<1>3. IsSequence(<<>>) /\ DOMAIN <<>> = {}
  BY DEF IsSequence, ToSet
<1> QED
  BY <1>1, <1>2, <1>3

\* Errors that are about the whole body, or about the parameter.
ErrorsOf(errors, param) ==
    /\ IsSequence(errors)
    /\ \A j \in DOMAIN errors : Len(errors[j].loc) = 2 => About(errors[j], param)

LEMMA NoErrors == ASSUME NEW param, NEW args PROVE ErrorsOf(Verdict(args, <<>>).errors, param)
<1>1. IsSequence(<<>>) /\ DOMAIN <<>> = {}
  BY OneOrNone
<1>2. Verdict(args, <<>>).errors = <<>>
  BY DEF Verdict
<1> QED
  BY <1>1, <1>2 DEF ErrorsOf

LEMMA OneError ==
    ASSUME NEW param, NEW args, NEW error, Len(error.loc) = 2 => About(error, param)
    PROVE  ErrorsOf(Verdict(args, <<error>>).errors, param)
<1>1. IsSequence(<<error>>) /\ DOMAIN <<error>> = {1} /\ <<error>>[1] = error
  BY OneOrNone
<1>2. Verdict(args, <<error>>).errors = <<error>>
  BY DEF Verdict
<1> QED
  BY <1>1, <1>2 DEF ErrorsOf

\* An error at the body, or at a field of the parameter's name.
Located(loc, param) == Len(loc) # 2 \/ loc[2] = param.name

LEMMA LocatedError ==
    ASSUME NEW param, NEW args, NEW type, NEW loc, Located(loc, param)
    PROVE  ErrorsOf(Verdict(args, <<[type |-> type, loc |-> loc]>>).errors, param)
<1> PICK error : error = [type |-> type, loc |-> loc]
  OBVIOUS
<1>1. Len(error.loc) = 2 => About(error, param)
  BY DEF Located, About
<1> QED
  BY <1>1, OneError

LEMMA ValidatedErrors ==
    ASSUME NEW param, NEW value, NEW verdict, NEW loc, Located(loc, param)
    PROVE  ErrorsOf(Validated(param, value, verdict, loc).errors, param)
BY NoErrors, LocatedError DEF Validated

LEMMA MissingErrors ==
    ASSUME NEW param, NEW loc, Located(loc, param)
    PROVE  ErrorsOf(MissingBody(param, loc).errors, param)
BY NoErrors, LocatedError DEF MissingBody

LEMMA BadErrors == ASSUME NEW param PROVE ErrorsOf(Verdict({}, <<json_invalid>>).errors, param)
<1>1. Located(<<"body">>, param)
  BY DEF Located
<1> QED
  BY <1>1, LocatedError DEF json_invalid

LEMMA WholeErrors ==
    ASSUME NEW param, NEW body PROVE ErrorsOf(WholeBody(param, body).errors, param)
<1>1. Located(<<"body">>, param) /\ Located(<<param.name>>, param)
  BY DEF Located
<1> QED
  BY <1>1, MissingErrors, BadErrors, ValidatedErrors DEF WholeBody

LEMMA EnvelopedErrors ==
    ASSUME NEW param, NEW body PROVE ErrorsOf(Enveloped(param, body).errors, param)
<1>1. Located(<<"body", param.name>>, param)
  BY DEF Located
<1> QED
  BY <1>1, MissingErrors, ValidatedErrors DEF Enveloped

\* An error with a name is about a body parameter.
BodyErrorsOf(errors, plan) ==
    /\ IsSequence(errors)
    /\ \A j \in DOMAIN errors : Len(errors[j].loc) = 2 =>
          \E i \in DOMAIN plan : IsBody(plan[i]) /\ About(errors[j], plan[i])

LEMMA BodyErrors ==
    ASSUME NEW plan, IsSequence(plan), NEW body
    PROVE  BodyErrorsOf(extract_body_params(plan, body).errors, plan)
<1> DEFINE entries == Filter(plan, IsBody)
<1> PICK errors : errors = extract_body_params(plan, body).errors
  OBVIOUS
<1> SUFFICES BodyErrorsOf(errors, plan)
  OBVIOUS
<1>1. Holds(entries, plan, {i \in DOMAIN plan : IsBody(plan[i])})
  BY BodiesHeld
<1>2. ASSUME NEW param, ErrorsOf(errors, param), \E j \in DOMAIN entries : param = entries[j]
      PROVE  BodyErrorsOf(errors, plan)
  <2> HIDE DEF entries
  <2>1. PICK j \in DOMAIN entries : param = entries[j]
    BY <1>2
  <2>2. j \in 1..Len(entries)
    <3>1. entries \in Seq(ToSet(plan))
      BY <1>1 DEF Holds
    <3> QED
      BY <3>1
  <2>3. PICK i \in DOMAIN plan : IsBody(plan[i]) /\ param = plan[i]
    BY <1>1, <2>1, <2>2 DEF Holds
  <2> QED
    BY <1>2, <2>3 DEF ErrorsOf, BodyErrorsOf
<1>3. CASE entries = <<>>
  <2>1. errors = <<>>
    BY <1>3 DEF extract_body_params, Verdict
  <2> QED
    BY <2>1, OneOrNone DEF BodyErrorsOf
<1>4. CASE entries # <<>>
  <2>1. Len(entries) \in Nat /\ DOMAIN entries = 1..Len(entries) /\ Len(entries) # 0
    <3> HIDE DEF entries
    <3> QED
      BY <1>1, <1>4 DEF Holds
  <2>2. 1 \in DOMAIN entries
    BY <2>1
  <2>3. CASE Len(entries) = 1 /\ ~entries[1].embed
    <3>1. errors = WholeBody(entries[1], body).errors
      BY <1>4, <2>3 DEF extract_body_params
    <3> QED
      BY <1>2, <2>2, <3>1, WholeErrors
  <2>4. CASE ~(Len(entries) = 1 /\ ~entries[1].embed) /\ body.json = "bad"
    <3>1. errors = Verdict({}, <<json_invalid>>).errors
      BY <1>4, <2>4 DEF extract_body_params
    <3> QED
      BY <1>2, <2>2, <3>1, BadErrors
  <2>5. CASE ~(Len(entries) = 1 /\ ~entries[1].embed) /\ body.json # "bad"
    <3> DEFINE verdicts == [i \in DOMAIN entries |-> Enveloped(entries[i], body)]
               lists == [i \in DOMAIN verdicts |-> verdicts[i].errors]
    <3>1. errors = FlattenSeq(lists)
      BY <1>4, <2>5 DEF extract_body_params, Join, Verdict
    <3>2. DOMAIN lists = 1..Len(entries) /\ lists = [i \in 1..Len(entries) |-> lists[i]]
      BY <2>1
    <3>3. \A i \in DOMAIN lists : ErrorsOf(lists[i], entries[i])
      BY EnvelopedErrors
    <3> HIDE DEF lists, entries
    <3>4. Len(lists) = Len(entries)
      BY <2>1, <3>2, FunctionIsSequence
    <3>5. FlatOf(errors, lists)
      <4> PICK n : n = Len(entries) - 1
        OBVIOUS
      <4>1. n \in Nat /\ Len(lists) = n + 1 /\ DOMAIN lists = 1..n + 1
        BY <2>1, <3>2, <3>4
      <4>2. \A i \in DOMAIN lists : IsSequence(lists[i])
        BY <3>3 DEF ErrorsOf
      <4> QED
        BY <3>1, <4>1, <4>2, Flattened
    <3>6. ASSUME NEW j \in DOMAIN errors, Len(errors[j].loc) = 2
          PROVE  \E i \in DOMAIN plan : IsBody(plan[i]) /\ About(errors[j], plan[i])
      <4>1. PICK i \in DOMAIN lists : \E k \in DOMAIN lists[i] : errors[j] = lists[i][k]
        BY <3>5 DEF FlatOf
      <4>2. About(errors[j], entries[i])
        BY <3>3, <3>6, <4>1 DEF ErrorsOf
      <4>3. i \in 1..Len(entries)
        BY <3>2
      <4> QED
        BY <1>1, <4>2, <4>3 DEF Holds
    <3> QED
      BY <3>5, <3>6 DEF FlatOf, BodyErrorsOf
  <2> QED
    BY <2>3, <2>4, <2>5
<1> QED
  BY <1>3, <1>4

-----------------------------------------------------------------------------
(* The 422 of the handler's own parameters *)

IsFault(error) ==
    Len(error.loc) = 2 => \E i \in DOMAIN program.plan :
                             /\ About(error, program.plan[i])
                             /\ AtFault(program.plan[i]) \/ IsBody(program.plan[i])

LEMMA ParamFaults ==
    ASSUME ProgramInv, Sent(request)
    PROVE  /\ IsSequence(ParamErrors)
           /\ \A j \in DOMAIN ParamErrors : IsFault(ParamErrors[j])
           /\ \A i \in DOMAIN program.plan : AtFault(program.plan[i]) =>
                 \E j \in DOMAIN ParamErrors : About(ParamErrors[j], program.plan[i])
<1> DEFINE results == [i \in DOMAIN program.plan |-> extract_one_param(program.plan[i], Seen)]
           errors == Filter(results, IsError)
<1> PICK list : list = ParamErrors
  OBVIOUS
<1>1. list = [i \in DOMAIN errors |-> errors[i].error]
  BY DEF ParamErrors, Filter, IsError
<1>2. \A i \in DOMAIN program.plan : Tells(results[i], program.plan[i])
  BY OneFault
<1>3. DOMAIN results = DOMAIN program.plan /\ IsSequence(results)
  <2>1. DOMAIN program.plan = 1..Len(program.plan) /\ Len(program.plan) \in Nat
    BY SequenceFacts DEF ProgramInv, CallsCallables
  <2>2. results = [i \in 1..Len(program.plan) |-> results[i]]
    BY <2>1
  <2> HIDE DEF results
  <2> QED
    BY <2>1, <2>2, FunctionIsSequence
<1> HIDE DEF results
<1>4. Holds(errors, results, {i \in DOMAIN results : IsError(results[i])})
  BY <1>3, ErrorsHeld
<1> HIDE DEF errors
<1>5. DOMAIN errors = 1..Len(errors) /\ Len(errors) \in Nat
  BY <1>4 DEF Holds
<1>6. IsSequence(list) /\ DOMAIN list = 1..Len(errors)
  <2>1. list = [i \in 1..Len(errors) |-> list[i]]
    BY <1>1, <1>5
  <2> QED
    BY <1>5, <2>1, FunctionIsSequence
<1>7. \A j \in DOMAIN list : list[j] = errors[j].error
  BY <1>1
<1>8. ASSUME NEW j \in DOMAIN list PROVE IsFault(list[j])
  <2>1. PICK i \in DOMAIN results : errors[j] = results[i] /\ IsError(results[i])
    BY <1>4, <1>6 DEF Holds
  <2>2. AtFault(program.plan[i]) /\ About(list[j], program.plan[i])
    BY <1>2, <1>3, <1>7, <2>1 DEF Tells, IsError
  <2> QED
    BY <1>3, <2>2 DEF IsFault
<1>9. ASSUME NEW i \in DOMAIN program.plan, AtFault(program.plan[i])
      PROVE  \E j \in DOMAIN list : About(list[j], program.plan[i])
  <2>1. IsError(results[i]) /\ About(results[i].error, program.plan[i])
    BY <1>2, <1>9 DEF Tells, IsError
  <2>2. PICK j \in 1..Len(errors) : errors[j] = results[i]
    BY <1>3, <1>4, <2>1 DEF Holds
  <2> QED
    BY <1>6, <1>7, <2>1, <2>2
<1> QED
  BY <1>6, <1>8, <1>9

FaultsReported ==
    /\ \A i \in DOMAIN program.plan : AtFault(program.plan[i]) =>
          \E j \in DOMAIN reported : About(reported[j], program.plan[i])
    /\ \A j \in DOMAIN reported : IsFault(reported[j])

FaultsInv == Sent(request) /\ (phase = "invalid" /\ stack = <<>> => FaultsReported)

LEMMA InitFaults == Init => FaultsInv
<1> SUFFICES ASSUME Init PROVE FaultsInv
  OBVIOUS
<1>1. PICK s \in Scenarios : request = s[2]
  BY DEF Init
<1>2. Sent(request)
  BY <1>1, ScenariosAssumption
<1> QED
  BY <1>2 DEF Init, FaultsInv

LEMMA ReachedKept == ASSUME UNCHANGED program PROVE Reached' = Reached
BY DEF Reached, IsDependency

LEMMA SeenKept == ASSUME UNCHANGED <<program, request>> PROVE Seen' = Seen
BY ReachedKept DEF Seen, NeedsForm, HasForm

\* The same errors, of the same request and program.
LEMMA FaultsKept ==
    ASSUME UNCHANGED <<program, request>>,
           NEW list, \A i \in DOMAIN program.plan : AtFault(program.plan[i]) =>
                        \E j \in DOMAIN list : About(list[j], program.plan[i]),
           \A j \in DOMAIN list : IsFault(list[j]), reported' = list
    PROVE  FaultsReported'
<1>1. \A param : AtFault(param)' <=> AtFault(param)
  BY SeenKept DEF AtFault
<1>2. \A error : IsFault(error) => IsFault(error)'
  BY <1>1 DEF IsFault
<1> QED
  BY <1>1, <1>2 DEF FaultsReported

LEMMA ExtractFaults == ASSUME ValuesInv, FaultsInv, Extract PROVE FaultsReported'
<1> DEFINE body == extract_body_params(program.plan, request.body)
           wrong == IF WrongContentType(program.plan, request.body) THEN <<json_invalid>> ELSE <<>>
           first == ParamErrors \o wrong
           errors == first \o body.errors
<1>1. reported' = errors /\ UNCHANGED <<program, request>>
  BY DEF Extract
<1>2. /\ IsSequence(ParamErrors)
      /\ \A j \in DOMAIN ParamErrors : IsFault(ParamErrors[j])
      /\ \A i \in DOMAIN program.plan : AtFault(program.plan[i]) =>
            \E j \in DOMAIN ParamErrors : About(ParamErrors[j], program.plan[i])
  BY ParamFaults DEF ValuesInv, FaultsInv
<1>3. IsSequence(wrong) /\ \A j \in DOMAIN wrong : IsFault(wrong[j])
  <2>1. Len(json_invalid.loc) # 2
    BY DEF json_invalid
  <2> QED
    BY <2>1, OneOrNone DEF IsFault
<1>4. IsSequence(body.errors) /\ \A j \in DOMAIN body.errors : IsFault(body.errors[j])
  <2>1. BodyErrorsOf(body.errors, program.plan)
    BY BodyErrors DEF ValuesInv, ProgramInv, CallsCallables
  <2> HIDE DEF body
  <2> QED
    BY <2>1 DEF BodyErrorsOf, IsFault
<1> HIDE DEF body, wrong
<1>5. /\ IsSequence(first)
      /\ \A j \in DOMAIN first : IsFault(first[j])
      /\ \A i \in DOMAIN program.plan : AtFault(program.plan[i]) =>
            \E j \in DOMAIN first : About(first[j], program.plan[i])
  <2> PICK s, r : s = ParamErrors /\ r = first
    OBVIOUS
  <2>1. IsJoined(r, s, wrong)
    BY <1>2, <1>3, Joined
  <2> HIDE DEF first
  <2> QED
    BY <1>2, <1>3, <2>1 DEF IsJoined
<1> HIDE DEF first
<1>6. /\ \A j \in DOMAIN errors : IsFault(errors[j])
      /\ \A i \in DOMAIN program.plan : AtFault(program.plan[i]) =>
            \E j \in DOMAIN errors : About(errors[j], program.plan[i])
  <2> PICK t, r : t = body.errors /\ r = errors
    OBVIOUS
  <2>1. IsJoined(r, first, t)
    BY <1>4, <1>5, Joined
  <2> HIDE DEF errors
  <2> QED
    BY <1>4, <1>5, <2>1 DEF IsJoined
<1> HIDE DEF errors
<1> QED
  BY <1>1, <1>6, FaultsKept

\* Only the extraction ends in a 422 with nothing on the stack.
LEMMA NextFaults == ValuesInv /\ FaultsInv /\ [Next]_vars => FaultsInv'
<1> SUFFICES ASSUME ValuesInv, FaultsInv, [Next]_vars PROVE FaultsInv'
  OBVIOUS
<1>1. UNCHANGED <<program, request>>
  BY DEF Next, vars, Extract, Reuse, ExtractScheme, Enter, TakeValue, TakeOther, CallDependency,
         CallHandler
<1>2. Sent(request)'
  BY <1>1 DEF FaultsInv
<1>3. CASE Extract
  BY <1>2, <1>3, ExtractFaults DEF FaultsInv
<1>4. CASE UNCHANGED vars
  BY <1>1, <1>2, <1>4, FaultsKept DEF FaultsInv, FaultsReported, vars
<1>5. CASE TakeValue
  <2>1. phase' = "invalid" => UNCHANGED stack
    BY <1>5 DEF TakeValue, More
  <2>2. stack # <<>>
    BY <1>5 DEF TakeValue, More, ValuesInv, StackInv
  <2> QED
    BY <1>2, <2>1, <2>2 DEF FaultsInv
<1>6. CASE Reuse \/ ExtractScheme \/ Enter \/ TakeOther \/ CallDependency \/ CallHandler
  <2>1. phase' # "invalid"
    BY <1>6 DEF Reuse, ExtractScheme, Enter, TakeOther, CallDependency, CallHandler, More, Raise,
           Refuse
  <2> QED
    BY <1>2, <2>1 DEF FaultsInv
<1> QED
  BY <1>3, <1>4, <1>5, <1>6 DEF Next

\* The 422 names each parameter of the handler that is at fault, and what it names is.
THEOREM FaultsAreReported == Spec => []EveryFaultReported
<1>1. FaultsInv => EveryFaultReported
  BY DEF FaultsInv, FaultsReported, EveryFaultReported, IsFault
<1> QED
  BY InitValues, NextValues, InitFaults, NextFaults, <1>1, PTL DEF Spec

-----------------------------------------------------------------------------
(* Arguments for all *)

\* The loop of the dispatcher is past an entry: it has taken what it can.
LoopPassed(entry, names) ==
    \/ entry.internal \/ entry.name \in names
    \/ ~(\/ IsDependency(entry) \/ entry.source = "background_tasks"
         \/ entry.source = "request" /\ request.object)

\* The frame of a dependency is past an entry: Python has a default for it, or None.
DepPassed(entry, names) ==
    \/ entry.name \in names
    \/ /\ ~IsDependency(entry) /\ entry.source # "security_scopes"
       /\ ~entry.required /\ Found(entry, Seen) = <<>>

Passed(entry, names, k) == IF k = 1 THEN LoopPassed(entry, names) ELSE DepPassed(entry, names)

FrameFull(f, k) == \A i \in 1..f.at - 1 : Passed(f.params[i], Names(f.kwargs), k)

FramesFull == \A k \in DOMAIN stack : FrameFull(stack[k], k)

\* No more is seen than what is on the stack; where nothing comes round, no plan is cut.
SeenInv ==
    /\ stack # <<>> => stack[1].seen = {}
    /\ \A k \in 2..Len(stack) : \A d \in stack[k].seen : \E j \in 2..k : stack[j].entry.dep = d
    /\ Layered => \A k \in 2..Len(stack) : stack[k].params = program.dep_plan[stack[k].entry.dep]

\* A call of a dependency has an argument for each entry of its plan, or needs none.
CallFull(call) ==
    /\ call.dep \in Callables
    /\ \A j \in DOMAIN program.dep_plan[call.dep] :
          DepPassed(program.dep_plan[call.dep][j], Names(call.kwargs))

CallsFull == Layered => \A i \in DOMAIN calls : CallFull(calls[i])

\* What the extraction leaves to the handler's own default, or to nobody.
Extracted(entry, names) ==
    /\ entry.source \in OwnSources =>
          entry.name \in names \/ (~entry.required /\ Found(entry, Seen) = <<>>)
    /\ IsBody(entry) => entry.name \in names \/ ~entry.required \/ entry.name \in Dropped

HandlerFull ==
    /\ phase \in {"resolve", "handler"} =>
          \A i \in DOMAIN program.plan : Extracted(program.plan[i], Names(kwargs))
    /\ phase = "handler" =>
          \A i \in DOMAIN program.plan : LoopPassed(program.plan[i], Names(kwargs))

FilledInv == DeclaredInv /\ SeenInv /\ FramesFull /\ CallsFull /\ HandlerFull

LEMMA MoreNames ==
    ASSUME NEW args, NEW more, args \subseteq more PROVE Names(args) \subseteq Names(more)
BY DEF Names

LEMMA PassedMore ==
    ASSUME NEW entry, NEW names, NEW more, names \subseteq more, NEW k, Passed(entry, names, k)
    PROVE  Passed(entry, more, k)
BY DEF Passed, LoopPassed, DepPassed

LEMMA PassedKept ==
    ASSUME UNCHANGED <<program, request>>, NEW entry, NEW names, NEW k
    PROVE  /\ Passed(entry, names, k)' <=> Passed(entry, names, k)
           /\ LoopPassed(entry, names)' <=> LoopPassed(entry, names)
           /\ DepPassed(entry, names)' <=> DepPassed(entry, names)
BY SeenKept DEF Passed, LoopPassed, DepPassed, IsDependency

LEMMA ExtractedKept ==
    ASSUME UNCHANGED <<program, request>>, NEW entry, NEW names
    PROVE  Extracted(entry, names)' <=> Extracted(entry, names)
<1>1. Dropped' = Dropped
  BY DEF Dropped
<1> QED
  BY <1>1, SeenKept DEF Extracted

\* The frame goes on to its next entry and is past this one.
Advances(g, f, k) ==
    /\ g.params = f.params /\ g.entry = f.entry /\ g.seen = f.seen /\ g.at = f.at + 1
    /\ Names(f.kwargs) \subseteq Names(g.kwargs)
    /\ Passed(f.params[f.at], Names(g.kwargs), k)

LEMMA AdvancedFull ==
    ASSUME NEW f, FrameInv(f), NEW k, FrameFull(f, k), NEW g, Advances(g, f, k)
    PROVE  FrameFull(g, k)
<1>1. f.at \in Nat \ {0}
  BY SequenceFacts DEF FrameInv, CallsCallables
<1>2. ASSUME NEW i \in 1..g.at - 1 PROVE Passed(g.params[i], Names(g.kwargs), k)
  <2>1. CASE i = f.at
    BY <2>1 DEF Advances
  <2>2. CASE i # f.at
    <3>1. i \in 1..f.at - 1
      BY <1>1, <2>2 DEF Advances
    <3>2. Passed(f.params[i], Names(f.kwargs), k)
      BY <3>1 DEF FrameFull
    <3> QED
      BY <3>2, PassedMore DEF Advances
  <2> QED
    BY <2>1, <2>2
<1> QED
  BY <1>2 DEF FrameFull

\* A frame goes on, at the top or because those above it are left.
LEMMA FullReplaced ==
    ASSUME StackInv, SeenInv, FramesFull, UNCHANGED <<program, request>>,
           NEW n \in 1..Len(stack), NEW g, Advances(g, stack[n], n),
           stack' = SubSeq(stack, 1, n - 1) \o <<g>>
    PROVE  FramesFull' /\ SeenInv'
<1>1. /\ DOMAIN stack' = 1..n /\ Len(stack') = n
      /\ stack'[n] = g /\ \A k \in 1..n - 1 : stack'[k] = stack[k]
  BY LastReplaced DEF StackInv
<1>2. n \in Nat \ {0} /\ DOMAIN stack = 1..Len(stack) /\ Len(stack) \in Nat /\ stack # <<>>
  BY SequenceFacts DEF StackInv
<1>3. \A k \in 1..n : k = n \/ k \in 1..n - 1
  BY <1>2
<1>4. ASSUME NEW k \in DOMAIN stack' PROVE FrameFull(stack'[k], k)
  <2>1. CASE k = n
    BY <1>1, <1>2, <2>1, AdvancedFull DEF StackInv, FramesFull
  <2>2. CASE k # n
    BY <1>1, <1>2, <1>3, <2>2 DEF FramesFull
  <2> QED
    BY <2>1, <2>2
<1>5. FramesFull'
  <2>1. \A f, k : FrameFull(f, k) => FrameFull(f, k)'
    BY PassedKept DEF FrameFull
  <2> QED
    BY <1>4, <2>1 DEF FramesFull
<1>6. \A k \in 1..n : /\ stack'[k].seen = stack[k].seen /\ stack'[k].entry = stack[k].entry
                      /\ stack'[k].params = stack[k].params
  BY <1>1, <1>3 DEF Advances
<1>7. stack'[1].seen = {}
  BY <1>2, <1>6 DEF SeenInv
<1>8. ASSUME NEW k \in 2..Len(stack'), NEW d \in stack'[k].seen
      PROVE  \E j \in 2..k : stack'[j].entry.dep = d
  <2>0. k \in 2..n /\ n \in 1..Len(stack) /\ Len(stack) \in Nat
    BY <1>1, <1>2
  <2>1. k \in 2..Len(stack) /\ k \in 1..n /\ \A j \in 2..k : j \in 1..n
    BY <2>0
  <2>2. PICK j \in 2..k : stack[j].entry.dep = d
    BY <1>6, <2>1 DEF SeenInv
  <2> QED
    BY <1>6, <2>1, <2>2
<1>9. ASSUME Layered, NEW k \in 2..Len(stack')
      PROVE  stack'[k].params = program.dep_plan[stack'[k].entry.dep]
  <2>1. k \in 2..Len(stack) /\ k \in 1..n
    BY <1>1, <1>2
  <2> QED
    BY <1>6, <1>9, <2>1 DEF SeenInv
<1> QED
  BY <1>5, <1>7, <1>8, <1>9, LayeredKept DEF SeenInv

LEMMA SupplyAdvances ==
    ASSUME NEW f, IsFrame(f), NEW entry, entry = f.params[f.at], NEW value,
           NEW k, entry.internal => k = 1
    PROVE  Advances(Supplied(f, entry, value), f, k)
<1> PICK g : g = Supplied(f, entry, value)
  OBVIOUS
<1>1. IsSupplied(g, f, entry, value)
  BY SuppliedFrame
<1>2. Names(f.kwargs) \subseteq Names(g.kwargs)
  BY <1>1, MoreNames DEF IsSupplied
<1>3. CASE entry.internal
  BY <1>1, <1>2, <1>3 DEF Advances, IsSupplied, Passed, LoopPassed
<1>4. CASE ~entry.internal
  <2>1. <<entry.name, value>> \in g.kwargs /\ <<entry.name, value>>[1] = entry.name
    BY <1>1, <1>4 DEF IsSupplied
  <2>2. entry.name \in Names(g.kwargs)
    BY <2>1 DEF Names
  <2> QED
    BY <1>1, <1>2, <2>2 DEF Advances, IsSupplied, Passed, LoopPassed, DepPassed
<1> QED
  BY <1>3, <1>4

\* Extra dependencies are in the dispatcher's loop only.
LEMMA InternalInLoop ==
    ASSUME ProgramInv, StackInv, NEW k \in 2..Len(stack), NEW i \in DOMAIN stack[k].params
    PROVE  ~stack[k].params[i].internal
<1>1. DOMAIN <<>> = {}
  OBVIOUS
<1> QED
  BY <1>1, FrameLinked DEF ProgramInv

LEMMA TopSuppliedFull ==
    ASSUME ProgramInv, StackInv, SeenInv, FramesFull, UNCHANGED <<program, request>>,
           More, NEW value, Supply(value)
    PROVE  FramesFull' /\ SeenInv'
<1> PICK n, top, entry : n = Len(stack) /\ top = Top /\ entry = Next1
  OBVIOUS
<1> DEFINE g == Supplied(top, entry, value)
<1>1. /\ n \in 1..Len(stack) /\ top = stack[n] /\ IsFrame(top)
      /\ Front(stack) = SubSeq(stack, 1, n - 1)
      /\ top.at \in DOMAIN top.params /\ entry = top.params[top.at] /\ n \in Nat
  BY TopFrame DEF More, FrameInv, Next1
<1>2. entry.internal => n = 1
  <2>1. n # 1 => n \in 2..Len(stack)
    BY <1>1
  <2> QED
    BY <1>1, <2>1, InternalInLoop
<1>3. Advances(g, top, n)
  BY <1>1, <1>2, SupplyAdvances
<1>4. stack' = SubSeq(stack, 1, n - 1) \o <<g>>
  BY <1>1 DEF Supply
<1> HIDE DEF g
<1> QED
  BY <1>1, <1>3, <1>4, FullReplaced

LEMMA TopSkippedFull ==
    ASSUME StackInv, SeenInv, FramesFull, UNCHANGED <<program, request>>,
           More, Skip, NEW n, n = Len(stack), NEW names, names = Names(Top.kwargs),
           Passed(Next1, names, n)
    PROVE  FramesFull' /\ SeenInv'
<1> PICK top, entry : top = Top /\ entry = Next1
  OBVIOUS
<1> DEFINE g == [top EXCEPT !.at = @ + 1]
<1>1. /\ n \in 1..Len(stack) /\ top = stack[n] /\ IsFrame(top)
      /\ Front(stack) = SubSeq(stack, 1, n - 1)
      /\ entry = top.params[top.at]
  BY TopFrame DEF More, FrameInv, Next1
<1>2. Advances(g, top, n)
  BY <1>1, SkippedFrame DEF Advances
<1>3. stack' = SubSeq(stack, 1, n - 1) \o <<g>>
  BY <1>1 DEF Skip
<1> HIDE DEF g
<1> QED
  BY <1>1, <1>2, <1>3, FullReplaced

\* The call of the topmost frame returned.
LEMMA TopPoppedFull ==
    ASSUME ProgramInv, StackInv, SeenInv, FramesFull, UNCHANGED <<program, request>>,
           phase = "resolve", ~InLoop, NEW entry, entry = Top.entry, NEW value,
           stack' = SubSeq(stack, 1, Len(stack) - 2)
                        \o <<Supplied(stack[Len(stack) - 1], entry, value)>>
    PROVE  FramesFull' /\ SeenInv'
<1> PICK n, parent : n = Len(stack) - 1 /\ parent = stack[n]
  OBVIOUS
<1> DEFINE g == Supplied(parent, entry, value)
<1>1. /\ n \in 1..Len(stack) /\ n \in DOMAIN stack /\ Len(stack) - 2 = n - 1 /\ n \in Nat
      /\ Linked(Top, parent) /\ (n # 1 => n \in 2..Len(stack))
  BY TopLinked, TopFrame DEF InLoop
<1>2. /\ FrameInv(parent) /\ parent.at \in DOMAIN parent.params
      /\ entry = parent.params[parent.at]
  <2>1. FrameInv(parent)
    BY <1>1 DEF StackInv
  <2>2. /\ DOMAIN parent.params = 1..Len(parent.params) /\ Len(parent.params) \in Nat
        /\ parent.at \in 1..Len(parent.params) + 1
    BY <2>1, SequenceFacts DEF FrameInv, CallsCallables
  <2>3. parent.at <= Len(parent.params) /\ Top.entry = parent.params[parent.at]
    BY <1>1 DEF Linked
  <2> QED
    BY <2>1, <2>2, <2>3
<1>3. entry.internal => n = 1
  BY <1>1, <1>2, InternalInLoop
<1>4. Advances(g, parent, n)
  BY <1>2, <1>3, SupplyAdvances DEF FrameInv
<1>5. stack' = SubSeq(stack, 1, n - 1) \o <<g>>
  BY <1>1
<1> HIDE DEF g
<1> QED
  BY <1>1, <1>4, <1>5, FullReplaced

LEMMA StackUnchangedFull ==
    ASSUME SeenInv, FramesFull, UNCHANGED <<program, request, stack>>
    PROVE  FramesFull' /\ SeenInv'
<1>1. \A f, k : FrameFull(f, k) => FrameFull(f, k)'
  BY PassedKept DEF FrameFull
<1> QED
  BY <1>1, LayeredKept DEF FramesFull, SeenInv

\* What is entered is not on the stack already, where nothing comes round.
LEMMA EnterFull ==
    ASSUME ProgramInv, StackInv, SeenInv, FramesFull, Enter PROVE FramesFull' /\ SeenInv'
<1> PICK f, n, entry, seen :
        /\ n = Len(stack) /\ entry = Next1 /\ seen = Top.seen
        /\ f = Frame(entry, Callee, PlanFor(entry, seen),
                     IF entry.internal THEN {} ELSE seen \cup {entry.dep},
                     ScopesFor(entry, Top.scopes))
  OBVIOUS
<1>1. /\ f.entry = entry /\ f.params = PlanFor(entry, seen) /\ f.at = 1
      /\ f.seen \subseteq seen \cup {entry.dep}
  BY DEF Frame
<1>2. /\ n \in Nat \ {0} /\ DOMAIN stack = 1..n /\ seen = stack[n].seen
      /\ stack # <<>>
  BY TopFrame, SequenceFacts DEF Enter, More, StackInv
<1>3. /\ DOMAIN stack' = 1..n + 1 /\ Len(stack') = n + 1
      /\ stack'[n + 1] = f /\ \A k \in 1..n : stack'[k] = stack[k]
  <2>1. stack' = Append(stack, f)
    BY DEF Enter
  <2> QED
    BY <2>1, Appended DEF StackInv
<1>4. UNCHANGED <<program, request>> /\ More /\ IsDependency(entry)
  BY DEF Enter
<1>5. \A k \in 1..n + 1 : k = n + 1 \/ k \in 1..n
  BY <1>2
<1>6. \A k \in 1..n + 1 : FrameFull(stack'[k], k)
  <2>1. FrameFull(f, n + 1)
    BY <1>1 DEF FrameFull
  <2> QED
    BY <1>2, <1>3, <1>5, <2>1 DEF FramesFull
<1>7. FramesFull'
  <2>1. \A g, k : FrameFull(g, k) => FrameFull(g, k)'
    BY <1>4, PassedKept DEF FrameFull
  <2> QED
    BY <1>3, <1>6, <2>1 DEF FramesFull
<1>8. \A d \in seen : \E j \in 2..n : stack[j].entry.dep = d
  <2>1. CASE n = 1
    BY <1>2, <2>1 DEF SeenInv
  <2>2. CASE n # 1
    <3>1. n \in 2..n
      BY <1>2, <2>2
    <3> QED
      BY <1>2, <3>1 DEF SeenInv
  <2> QED
    BY <2>1, <2>2
<1>9. ASSUME NEW k \in 2..n + 1, NEW d \in stack'[k].seen
      PROVE  \E j \in 2..k : stack'[j].entry.dep = d
  <2>1. CASE k = n + 1
    <3>1. CASE d = entry.dep
      BY <1>1, <1>3, <2>1, <3>1
    <3>2. CASE d # entry.dep
      <4>1. PICK j \in 2..n : stack[j].entry.dep = d
        BY <1>1, <1>3, <1>8, <1>9, <2>1, <3>2
      <4>2. j \in 2..k /\ j \in 1..n
        BY <1>2, <2>1
      <4> QED
        BY <1>3, <4>1, <4>2
    <3> QED
      BY <3>1, <3>2
  <2>2. CASE k # n + 1
    <3>1. k \in 2..n /\ k \in 1..n /\ \A j \in 2..k : j \in 1..n
      BY <1>2, <2>2
    <3>2. PICK j \in 2..k : stack[j].entry.dep = d
      BY <1>3, <1>9, <3>1 DEF SeenInv
    <3> QED
      BY <1>3, <3>1, <3>2
  <2> QED
    BY <2>1, <2>2
<1>10. ASSUME Layered PROVE f.params = program.dep_plan[entry.dep]
  <2>1. ASSUME entry.dep \in seen PROVE FALSE
    <3>1. PICK j \in 2..n : stack[j].entry.dep = entry.dep
      BY <1>8, <2>1
    <3>2. stack[j].callable = Effective(entry.dep)
      BY <3>1, FrameLinked
    <3> QED
      BY <1>4, <1>10, <3>2, CalleeIsNew DEF Callee
  <2> QED
    BY <1>1, <2>1 DEF PlanFor
<1>11. ASSUME Layered, NEW k \in 2..n + 1
       PROVE  stack'[k].params = program.dep_plan[stack'[k].entry.dep]
  <2>1. CASE k = n + 1
    BY <1>1, <1>3, <1>10, <1>11, <2>1
  <2>2. CASE k # n + 1
    <3>1. k \in 2..n /\ k \in 1..n
      BY <1>2, <2>2
    <3> QED
      BY <1>3, <1>11, <3>1 DEF SeenInv
  <2> QED
    BY <2>1, <2>2
<1>12. stack'[1].seen = {}
  BY <1>2, <1>3 DEF SeenInv
<1> QED
  BY <1>3, <1>4, <1>7, <1>9, <1>11, <1>12, LayeredKept DEF SeenInv

LEMMA CallsKeptFull ==
    ASSUME CallsFull, UNCHANGED <<program, request, calls>> PROVE CallsFull'
<1>1. \A call : CallFull(call) => CallFull(call)'
  BY PassedKept DEF CallFull
<1> QED
  BY <1>1, LayeredKept DEF CallsFull

LEMMA CallsRecordedFull ==
    ASSUME CallsInv, CallsFull, UNCHANGED <<program, request>>,
           NEW call, calls' = Append(calls, call), Layered => CallFull(call)
    PROVE  CallsFull'
<1>1. /\ DOMAIN calls' = 1..Len(calls) + 1 /\ calls'[Len(calls) + 1] = call
      /\ \A k \in 1..Len(calls) : calls'[k] = calls[k]
      /\ DOMAIN calls = 1..Len(calls) /\ Len(calls) \in Nat
  BY Appended, SequenceFacts DEF CallsInv
<1>2. ASSUME Layered, NEW i \in DOMAIN calls' PROVE CallFull(calls'[i])
  <2>1. i = Len(calls) + 1 \/ i \in 1..Len(calls)
    BY <1>1
  <2> QED
    BY <1>1, <1>2, <2>1 DEF CallsFull
<1>3. \A c : CallFull(c) => CallFull(c)'
  BY PassedKept DEF CallFull
<1> QED
  BY <1>2, <1>3, LayeredKept DEF CallsFull

\* What the replica does not find is not there.
LEMMA SimpleFinds ==
    ASSUME NEW param, FoundSimple(param, Seen) = <<>> PROVE Found(param, Seen) = <<>>
<1>1. Filter(<<>>, IsText) = <<>>
  <2>1. IsSequence(<<>>) /\ DOMAIN <<>> = {}
    BY DEF IsSequence, ToSet
  <2> PICK r : r = Filter(<<>>, IsText)
    OBVIOUS
  <2>2. Holds(r, <<>>, {i \in DOMAIN <<>> : IsText(<<>>[i])})
    BY <2>1, TextHeld
  <2>3. r \in Seq(ToSet(<<>>)) /\ 1..Len(r) = {}
    BY <2>1, <2>2 DEF Holds
  <2> DEFINE T == ToSet(<<>>)
  <2> HIDE DEF T
  <2>4. r \in Seq(T)
    BY <2>3 DEF T
  <2>5. Len(r) = 0
    <3>1. Len(r) \in Nat /\ 1..Len(r) = {}
      BY <2>3, <2>4
    <3>2. \A n \in Nat : 1..n = {} => n = 0
      OBVIOUS
    <3> QED
      BY <3>1, <3>2
  <2> QED
    BY <2>4, <2>5
<1>2. CASE param.source \in {"form", "file"}
  BY <1>1, <1>2 DEF FoundSimple, Found
<1>3. CASE param.source \notin {"form", "file"}
  BY <1>3 DEF FoundSimple
<1> QED
  BY <1>2, <1>3

LEMMA SimpleDefault ==
    ASSUME NEW param, _extract_simple(param, Seen).is = "default"
    PROVE  ~param.required /\ Found(param, Seen) = <<>>
<1>1. FoundSimple(param, Seen) = <<>> /\ Absent(param).is = "default"
  BY DEF _extract_simple, Given, Refused
<1>2. ~param.required
  BY <1>1 DEF Absent, Refused
<1> QED
  BY <1>1, <1>2, SimpleFinds

\* A call without arguments is of a scheme, or has taken what its frame has.
LEMMA SchemeFull ==
    ASSUME DeclaredInv, NEW entry, entry.dep \in Callables, entry.dep \in Schemes,
           NEW call, call.dep = entry.dep
    PROVE  CallFull(call)
<1>1. program.dep_plan[entry.dep] = <<>> /\ DOMAIN <<>> = {}
  BY DEF DeclaredInv
<1> QED
  BY <1>1 DEF CallFull

\* A frame that has no entry left is past all of them.
LEMMA AtTheEnd ==
    ASSUME NEW f, FrameInv(f), ~(f.at <= Len(f.params)) PROVE DOMAIN f.params = 1..f.at - 1
<1>1. DOMAIN f.params = 1..Len(f.params) /\ Len(f.params) \in Nat
      /\ f.at \in 1..Len(f.params) + 1
  BY SequenceFacts DEF FrameInv, CallsCallables
<1> QED
  BY <1>1

LEMMA TopFull ==
    ASSUME ProgramInv, StackInv, SeenInv, FramesFull, Layered,
           phase \in {"resolve", "refused"}, ~(Top.at <= Len(Top.params)), ~InLoop,
           NEW call, call.dep = Top.entry.dep, call.kwargs = Top.kwargs
    PROVE  CallFull(call)
<1> PICK n, top : n = Len(stack) /\ top = Top
  OBVIOUS
<1>1. n \in 2..Len(stack) /\ n \in DOMAIN stack /\ n \in Nat /\ top = stack[n] /\ FrameInv(top)
  BY TopFrame DEF InLoop
<1>2. top.params = program.dep_plan[top.entry.dep] /\ top.entry.dep \in Callables
  BY <1>1, FrameLinked DEF SeenInv
<1>3. DOMAIN top.params = 1..top.at - 1
  BY <1>1, AtTheEnd
<1>4. \A i \in DOMAIN top.params : DepPassed(top.params[i], Names(top.kwargs))
  <2>1. FrameFull(top, n) /\ n # 1
    BY <1>1 DEF FramesFull
  <2> QED
    BY <1>3, <2>1 DEF FrameFull, Passed
<1> QED
  BY <1>2, <1>4 DEF CallFull

LEMMA HandlerKept ==
    ASSUME HandlerFull, UNCHANGED <<program, request, kwargs>>,
           phase' \notin {"resolve", "handler"} \/ phase' = phase
    PROVE  HandlerFull'
BY PassedKept, ExtractedKept DEF HandlerFull

LEMMA ExtractedMore ==
    ASSUME NEW entry, NEW names, Extracted(entry, names), NEW more, names \subseteq more
    PROVE  Extracted(entry, more)
BY DEF Extracted

\* The second sequence is in what is joined.
LEMMA SecondJoined ==
    ASSUME NEW s, IsSequence(s), NEW t, IsSequence(t), NEW r, IsJoined(r, s, t), NEW i \in DOMAIN t
    PROVE  \E j \in DOMAIN r : r[j] = t[i]
<1>1. /\ DOMAIN t = 1..Len(t) /\ Len(t) \in Nat /\ Len(s) \in Nat
      /\ DOMAIN r = 1..Len(s) + Len(t)
  BY SequenceFacts DEF IsJoined
<1> PICK j : j = Len(s) + i
  OBVIOUS
<1>2. j \in 1..Len(s) + Len(t) /\ ~(j <= Len(s)) /\ j - Len(s) = i
  BY <1>1
<1>3. r[j] = t[i]
  BY <1>2 DEF IsJoined
<1> QED
  BY <1>1, <1>2, <1>3

\* What the dispatcher's loop is past has the entries of the plan.
LEMMA LoopEntries ==
    ASSUME ProgramInv, StackInv, phase = "resolve", InLoop
    PROVE  /\ Top = stack[1] /\ 1 \in DOMAIN stack /\ FrameInv(Top)
           /\ \A i \in DOMAIN program.plan : \E j \in DOMAIN Top.params :
                 Top.params[j] = program.plan[i]
<1>1. Top = stack[1] /\ 1 \in DOMAIN stack /\ FrameInv(Top) /\ stack # <<>>
  <2>1. Top = stack[1] /\ 1 \in DOMAIN stack /\ FrameInv(Top)
    BY TopFrame DEF InLoop
  <2> QED
    BY <2>1 DEF StackInv
<1>2. Top.params = program.extra \o program.plan
  BY <1>1 DEF StackInv
<1>3. IsJoined(Top.params, program.extra, program.plan)
  BY <1>2, Joined DEF ProgramInv, CallsCallables
<1> QED
  BY <1>1, <1>3, SecondJoined DEF ProgramInv, CallsCallables

LEMMA CallHandlerFull ==
    ASSUME ValuesInv, FramesFull, HandlerFull, CallHandler PROVE HandlerFull'
<1> PICK top, plan : top = Top /\ plan = program.plan
  OBVIOUS
<1>1. /\ InLoop /\ phase = "resolve" /\ UNCHANGED <<program, request>>
      /\ kwargs' = kwargs \cup top.kwargs /\ ~(top.at <= Len(top.params))
  BY DEF CallHandler, More
<1>2. /\ top = stack[1] /\ 1 \in DOMAIN stack /\ FrameInv(top)
      /\ \A i \in DOMAIN plan : \E j \in DOMAIN top.params : top.params[j] = plan[i]
  BY <1>1, LoopEntries DEF ValuesInv
<1>3. DOMAIN top.params = 1..top.at - 1
  BY <1>1, <1>2, AtTheEnd
<1>4. \A j \in DOMAIN top.params : LoopPassed(top.params[j], Names(top.kwargs))
  <2>1. FrameFull(top, 1)
    BY <1>2 DEF FramesFull
  <2> QED
    BY <1>3, <2>1 DEF FrameFull, Passed
<1>5. ASSUME NEW i \in DOMAIN plan PROVE LoopPassed(plan[i], Names(kwargs'))
  <2>1. Names(top.kwargs) \subseteq Names(kwargs')
    BY <1>1, MoreNames
  <2>2. LoopPassed(plan[i], Names(top.kwargs))
    BY <1>2, <1>4
  <2> QED
    BY <2>1, <2>2 DEF LoopPassed
<1>6. ASSUME NEW i \in DOMAIN plan PROVE Extracted(plan[i], Names(kwargs'))
  <2>1. Names(kwargs) \subseteq Names(kwargs')
    BY <1>1, MoreNames
  <2> QED
    BY <1>1, <2>1, ExtractedMore DEF HandlerFull
<1> QED
  BY <1>1, <1>5, <1>6, PassedKept, ExtractedKept DEF HandlerFull

LEMMA EmptyRange == ASSUME NEW n \in Nat, 1..n = {} PROVE n = 0
OBVIOUS

LEMMA EmptySequence == ASSUME NEW s, IsSequence(s), DOMAIN s = {} PROVE s = <<>>
<1>1. s \in Seq(ToSet(s))
  BY DEF IsSequence
<1> DEFINE T == ToSet(s)
<1> HIDE DEF T
<1>2. s \in Seq(T)
  BY <1>1 DEF T
<1>3. Len(s) = 0
  BY <1>2, EmptyRange
<1> QED
  BY <1>2, <1>3

\* Nothing in a row of sequences means nothing in any of them.
LEMMA EmptyJoin ==
    ASSUME NEW s, IsSequence(s), NEW t, IsSequence(t), s \o t = <<>> PROVE s = <<>> /\ t = <<>>
<1>1. IsJoined(<<>>, s, t)
  BY Joined
<1>2. 1..Len(s) + Len(t) = {} /\ Len(s) \in Nat /\ Len(t) \in Nat
      /\ DOMAIN s = 1..Len(s) /\ DOMAIN t = 1..Len(t)
  BY <1>1, SequenceFacts DEF IsJoined
<1>3. Len(s) + Len(t) = 0
  BY <1>2, EmptyRange
<1>4. DOMAIN s = {} /\ DOMAIN t = {}
  BY <1>2, <1>3
<1> QED
  BY <1>4, EmptySequence

LEMMA EmptyRow ==
    ASSUME NEW seqs, NEW n \in Nat, Len(seqs) = n + 1, DOMAIN seqs = 1..n + 1,
           \A i \in DOMAIN seqs : IsSequence(seqs[i]), FlattenSeq(seqs) = <<>>
    PROVE  \A i \in DOMAIN seqs : seqs[i] = <<>>
<1> DEFINE S == UNION {ToSet(seqs[i]) : i \in DOMAIN seqs}
           f == CHOOSE f : f = [i \in 1..Len(seqs) |->
                                   IF i = 1 THEN seqs[i] ELSE f[i - 1] \o seqs[i]]
<1>1. \A i \in DOMAIN seqs : seqs[i] \in Seq(S)
  <2> SUFFICES ASSUME NEW i \in DOMAIN seqs PROVE seqs[i] \in Seq(S)
    OBVIOUS
  <2> DEFINE T == ToSet(seqs[i])
  <2>1. seqs[i] \in Seq(T) /\ T \subseteq S
    BY DEF IsSequence
  <2> HIDE DEF T, S
  <2> QED
    BY <2>1
<1> HIDE DEF S
<1>2. \E g : Flattens(g, seqs)
  BY <1>1, FlattensExist
<1>3. Flattens(f, seqs)
  BY <1>2 DEF Flattens
<1>4. FlattenSeq(seqs) = f[n + 1]
  BY DEF FlattenSeq
<1> HIDE DEF f
<1>5. \A i \in 1..n + 1 : f[i] = IF i = 1 THEN seqs[i] ELSE f[i - 1] \o seqs[i]
  BY <1>3 DEF Flattens
<1> DEFINE Fits(r, k) ==
               r \in Seq(S) /\ (r = <<>> => \A i \in 1..k : seqs[i] = <<>>)
           P == {i \in 0..n : Fits(f[i + 1], i + 1)}
<1>6. 0 \in P
  <2>1. f[1] = seqs[1] /\ seqs[1] \in Seq(S)
    BY <1>1, <1>5
  <2>2. Fits(f[1], 1)
    BY <2>1
  <2> QED
    BY <2>2
<1>7. ASSUME NEW k \in 0..n - 1, k \in P PROVE k + 1 \in P
  <2> PICK a, b, c : a = f[k + 1] /\ b = seqs[(k + 1) + 1] /\ c = f[(k + 1) + 1]
    OBVIOUS
  <2>1. (k + 1) + 1 \in 1..n + 1 /\ (k + 1) + 1 # 1 /\ ((k + 1) + 1) - 1 = k + 1 /\ k + 1 \in 0..n
    OBVIOUS
  <2>2. c = a \o b
    BY <1>5, <2>1
  <2>3. Fits(a, k + 1) /\ b \in Seq(S)
    BY <1>1, <1>7, <2>1
  <2>4. c \in Seq(S) /\ (c = <<>> => a = <<>> /\ b = <<>>)
    <3>1. a \in Seq(S) /\ b \in Seq(S)
      BY <2>3
    <3>2. IsSequence(a) /\ IsSequence(b)
      BY <3>1, OwnElements
    <3>3. a \o b \in Seq(S)
      BY <3>1
    <3> QED
      BY <2>2, <3>2, <3>3, EmptyJoin
  <2>5. \A i \in 1..(k + 1) + 1 : i = (k + 1) + 1 \/ i \in 1..k + 1
    BY <2>1
  <2>6. Fits(c, (k + 1) + 1)
    BY <2>3, <2>4, <2>5
  <2> HIDE DEF Fits
  <2> QED
    BY <2>1, <2>6
<1> HIDE DEF P
<1>8. n \in P
  BY <1>6, <1>7, Induction
<1>9. Fits(<<>>, n + 1)
  BY <1>4, <1>8 DEF P
<1> QED
  BY <1>9

\* "If 2+ body params ... every JSON body param is wrapped under its name"
LEMMA TwoBodies ==
    ASSUME NEW params, IsSequence(params), NEW path_names,
           NEW plan, plan = compile_route_plan(params, path_names),
           NEW i \in DOMAIN plan, NEW k \in DOMAIN plan, i # k, IsBody(plan[i]), IsBody(plan[k])
    PROVE  plan[i].embed
<1> DEFINE kept == Filter(params, LAMBDA param : IsKept(param, path_names))
           flat == [j \in DOMAIN kept |-> Compiled(kept[j], path_names)]
           bodies == {j \in DOMAIN flat : IsBody(flat[j])}
<1>1. plan = Embedded(flat)
  BY DEF compile_route_plan, Filter, IsKept
<1>2. Holds(kept, params, {j \in DOMAIN params : IsKept(params[j], path_names)})
  BY KeptHeld
<1> HIDE DEF kept
<1>3. DOMAIN flat = 1..Len(kept) /\ Len(kept) \in Nat
  BY <1>2 DEF Holds
<1>4. \A j \in DOMAIN flat : /\ [flat[j] EXCEPT !.embed = TRUE].source = flat[j].source
                              /\ [flat[j] EXCEPT !.embed = TRUE].embed
  BY DEF Compiled, Entry
<1> HIDE DEF flat
<1>5. /\ DOMAIN plan = DOMAIN flat
      /\ \A j \in DOMAIN flat : plan[j].source = flat[j].source
  BY <1>1, <1>4 DEF Embedded
<1>6. i \in bodies /\ k \in bodies
  BY <1>5 DEF IsBody
<1>7. ~(Cardinality(bodies) < 2)
  <2>1. IsFiniteSet(bodies)
    <3>1. IsFiniteSet(1..Len(kept))
      BY <1>3, FS_Interval
    <3>2. bodies \subseteq 1..Len(kept)
      BY <1>3
    <3> QED
      BY <3>1, <3>2, FS_Subset
  <2> HIDE DEF bodies
  <2>2. Cardinality(bodies) \in Nat
    BY <2>1, FS_CardinalityType
  <2>3. Cardinality(bodies) # 0
    BY <1>6, <2>1, FS_EmptySet
  <2>4. Cardinality(bodies) # 1
    BY <1>6, <2>1, FS_Singleton
  <2> QED
    BY <2>2, <2>3, <2>4
<1>8. plan[i] = [flat[i] EXCEPT !.embed = TRUE]
  BY <1>1, <1>5, <1>6, <1>7 DEF Embedded
<1> QED
  BY <1>4, <1>5, <1>8

\* A verdict without an error has the argument, unless it needs none or the model raised.
Accepts(verdict, param, raised) ==
    verdict.errors = <<>> => param.name \in Names(verdict.args) \/ ~param.required \/ raised

LEMMA ValidatedFull ==
    ASSUME NEW param, NEW value, NEW verdict, NEW loc
    PROVE  Accepts(Validated(param, value, verdict, loc), param, verdict = "raises")
<1>1. <<param.name, value>>[1] = param.name
  OBVIOUS
<1>2. param.name \in Names({<<param.name, value>>})
  BY <1>1 DEF Names
<1>3. \A x : <<x>> # <<>>
  OBVIOUS
<1> QED
  BY <1>2, <1>3 DEF Accepts, Validated, Verdict

LEMMA MissingFull ==
    ASSUME NEW param, NEW loc PROVE Accepts(MissingBody(param, loc), param, FALSE)
<1>1. \A x : <<x>> # <<>>
  OBVIOUS
<1> QED
  BY <1>1 DEF Accepts, MissingBody, Verdict

LEMMA WholeFull ==
    ASSUME NEW param, NEW body
    PROVE  Accepts(WholeBody(param, body), param, body.whole = "raises")
<1>1. Verdict({}, <<json_invalid>>).errors # <<>>
  BY DEF Verdict
<1> QED
  BY <1>1, MissingFull, ValidatedFull DEF WholeBody, Accepts

LEMMA EnvelopedFull ==
    ASSUME NEW param, NEW body
    PROVE  Accepts(Enveloped(param, body), param,
                   param.name \in DOMAIN body.fields /\ body.fields[param.name] = "raises")
BY MissingFull, ValidatedFull DEF Enveloped, Accepts

LEMMA BodyFull ==
    ASSUME NEW plan, plan = program.plan, IsSequence(plan),
           \A i, k \in DOMAIN plan :
               i # k /\ IsBody(plan[i]) /\ IsBody(plan[k]) => plan[i].embed,
           NEW body, body = request.body, extract_body_params(plan, body).errors = <<>>,
           NEW m \in DOMAIN plan, IsBody(plan[m])
    PROVE  \/ plan[m].name \in Names(extract_body_params(plan, body).args)
           \/ ~plan[m].required
           \/ plan[m].name \in Dropped
<1> DEFINE entries == Filter(plan, IsBody)
<1> PICK errors, args : /\ errors = extract_body_params(plan, body).errors
                        /\ args = extract_body_params(plan, body).args
  OBVIOUS
<1> SUFFICES plan[m].name \in Names(args) \/ ~plan[m].required \/ plan[m].name \in Dropped
  OBVIOUS
<1>1. Holds(entries, plan, {i \in DOMAIN plan : IsBody(plan[i])})
  BY BodiesHeld
<1>2. /\ Len(entries) \in Nat /\ DOMAIN entries = 1..Len(entries)
      /\ \E j \in DOMAIN entries : entries[j] = plan[m]
      /\ \A j \in DOMAIN entries : \E i \in DOMAIN plan : IsBody(plan[i]) /\ entries[j] = plan[i]
      /\ Len(entries) <= 1 \/ \A j \in DOMAIN entries : entries[j].embed
  <2> HIDE DEF entries
  <2>1. Len(entries) \in Nat /\ DOMAIN entries = 1..Len(entries)
    BY <1>1 DEF Holds
  <2>2. ASSUME NEW i \in DOMAIN plan, NEW k \in DOMAIN plan, i # k, IsBody(plan[i]), IsBody(plan[k]),
               NEW j \in DOMAIN entries
        PROVE  entries[j].embed
    <3>1. PICK x \in DOMAIN plan : IsBody(plan[x]) /\ entries[j] = plan[x]
      BY <1>1, <2>1 DEF Holds
    <3>2. x # i \/ x # k
      BY <2>2
    <3> QED
      BY <2>2, <3>1, <3>2
  <2> QED
    BY <1>1, <2>1, <2>2 DEF Holds
<1>3. PICK mine \in DOMAIN entries : entries[mine] = plan[m]
  BY <1>2
<1>4. entries # <<>>
  <2> HIDE DEF entries
  <2>1. DOMAIN <<>> = {}
    OBVIOUS
  <2> QED
    BY <1>3, <2>1
<1>5. CASE Len(entries) = 1 /\ ~entries[1].embed
  <2>1. errors = WholeBody(entries[1], body).errors /\ args = WholeBody(entries[1], body).args
    BY <1>4, <1>5 DEF extract_body_params
  <2>2. entries[1] = plan[m] /\ ~plan[m].embed
    <3> HIDE DEF entries
    <3> QED
      BY <1>2, <1>3, <1>5
  <2>3. body.whole = "raises" => plan[m].name \in Dropped
    BY <2>2 DEF Dropped
  <2>4. Accepts(WholeBody(plan[m], body), plan[m], body.whole = "raises")
    BY WholeFull
  <2> HIDE DEF entries
  <2> QED
    BY <2>1, <2>2, <2>3, <2>4 DEF Accepts
<1>6. CASE ~(Len(entries) = 1 /\ ~entries[1].embed)
  <2>1. body.json # "bad"
    <3>1. ASSUME body.json = "bad" PROVE errors = <<json_invalid>>
      BY <1>4, <1>6, <3>1 DEF extract_body_params, Verdict
    <3> QED
      BY <3>1
  <2> DEFINE verdicts == [j \in DOMAIN entries |-> Enveloped(entries[j], body)]
             lists == [j \in DOMAIN verdicts |-> verdicts[j].errors]
  <2>2. errors = FlattenSeq(lists) /\ args = UNION {verdicts[j].args : j \in DOMAIN verdicts}
    BY <1>4, <1>6, <2>1 DEF extract_body_params, Join, Verdict
  <2>3. DOMAIN lists = 1..Len(entries) /\ lists = [j \in 1..Len(entries) |-> lists[j]]
    BY <1>2
  <2>4. \A j \in DOMAIN lists : lists[j] = Enveloped(entries[j], body).errors
    OBVIOUS
  <2>5. Enveloped(plan[m], body).args \subseteq args
    BY <1>3, <2>2
  <2>6. \A j \in DOMAIN lists : IsSequence(lists[j])
    BY <2>4, EnvelopedErrors DEF ErrorsOf
  <2>7. entries[mine].embed
    <3> HIDE DEF entries, verdicts, lists
    <3>1. Len(entries) = 1 => mine = 1
      BY <1>2, <1>3
    <3>2. Len(entries) # 0
      BY <1>2, <1>3
    <3> QED
      BY <1>2, <1>3, <1>6, <3>1, <3>2
  <2> HIDE DEF lists, verdicts, entries
  <2>8. \A j \in DOMAIN lists : lists[j] = <<>>
    <3> PICK n : n = Len(entries) - 1
      OBVIOUS
    <3>1. n \in Nat /\ DOMAIN lists = 1..n + 1 /\ Len(entries) = n + 1
      BY <1>2, <1>3, <2>3
    <3>2. Len(lists) = n + 1
      BY <1>2, <2>3, <3>1, FunctionIsSequence
    <3> QED
      BY <2>2, <2>6, <3>1, <3>2, EmptyRow
  <2>9. Enveloped(plan[m], body).errors = <<>>
    BY <1>2, <1>3, <2>3, <2>4, <2>8
  <2>10. Accepts(Enveloped(plan[m], body), plan[m],
                 plan[m].name \in DOMAIN body.fields /\ body.fields[plan[m].name] = "raises")
    BY EnvelopedFull
  <2>11. plan[m].name \in DOMAIN body.fields /\ body.fields[plan[m].name] = "raises"
            => plan[m].name \in Dropped
    BY <1>3, <2>7 DEF Dropped
  <2>12. Names(Enveloped(plan[m], body).args) \subseteq Names(args)
    BY <2>5, MoreNames
  <2> QED
    BY <2>9, <2>10, <2>11, <2>12 DEF Accepts
<1> QED
  BY <1>5, <1>6

\* Without an error each parameter of its own is taken or left to its default.
LEMMA ParamFull ==
    ASSUME ProgramInv, Sent(request), ParamErrors = <<>>, NEW i \in DOMAIN program.plan,
           program.plan[i].source \in OwnSources
    PROVE  \/ program.plan[i].name \in Names(ParamArgs)
           \/ ~program.plan[i].required /\ Found(program.plan[i], Seen) = <<>>
<1> PICK entry, result : entry = program.plan[i] /\ result = extract_one_param(entry, Seen)
  OBVIOUS
<1>1. ~AtFault(entry)
  <2>1. DOMAIN <<>> = {}
    OBVIOUS
  <2> QED
    BY <2>1, ParamFaults
<1>2. result.is # "error"
  BY <1>1, OneFault DEF Tells
<1>3. CASE result.is = "value"
  <2>1. <<entry.name, FromRequest>> \in ParamArgs /\ <<entry.name, FromRequest>>[1] = entry.name
    BY <1>3 DEF ParamArgs
  <2> QED
    BY <2>1 DEF Names
<1>4. CASE result.is # "value"
  <2>1. Found(entry, Seen) = <<>>
    <3> SUFFICES ASSUME Found(entry, Seen) # <<>> PROVE FALSE
      OBVIOUS
    <3>1. result \in {Given(Found(entry, Seen)), Converted(entry, Found(entry, Seen))}
      BY DEF extract_one_param
    <3>2. ASSUME NEW raws PROVE Converted(entry, raws).is \in {"value", "error"}
      BY DEF Converted, Given, Refused, run_validators
    <3> QED
      BY <1>2, <1>4, <3>1, <3>2 DEF Given
  <2> QED
    BY <1>1, <2>1 DEF AtFault
<1> QED
  BY <1>3, <1>4

LEMMA ExtractHandlerFull ==
    ASSUME ValuesInv, Sent(request), DeclaredInv, HandlerFull, Extract PROVE HandlerFull'
<1> PICK plan, body, wrong, params, first :
        /\ plan = program.plan /\ body = extract_body_params(program.plan, request.body)
        /\ wrong = IF WrongContentType(program.plan, request.body) THEN <<json_invalid>> ELSE <<>>
        /\ params = ParamErrors /\ first = params \o wrong
  OBVIOUS
<1>1. /\ UNCHANGED <<program, request>> /\ phase' \in {"invalid", "resolve"}
      /\ kwargs' = ParamArgs \cup body.args
      /\ phase' = "resolve" => first \o body.errors = <<>>
  BY DEF Extract
<1> SUFFICES ASSUME phase' = "resolve", NEW i \in DOMAIN plan
             PROVE  Extracted(plan[i], Names(kwargs'))
  BY <1>1, ExtractedKept DEF HandlerFull
<1>2. params = <<>> /\ body.errors = <<>>
  <2>1. IsSequence(params) /\ IsSequence(wrong) /\ IsSequence(body.errors)
    BY ParamFaults, BodyErrors, OneOrNone DEF ValuesInv, ProgramInv, CallsCallables, BodyErrorsOf
  <2>2. IsSequence(first)
    <3>1. IsJoined(first, params, wrong)
      BY <2>1, Joined
    <3> QED
      BY <3>1 DEF IsJoined
  <2>3. first = <<>> /\ body.errors = <<>>
    BY <1>1, <2>1, <2>2, EmptyJoin
  <2> QED
    BY <2>1, <2>3, EmptyJoin
<1>3. Names(ParamArgs) \subseteq Names(kwargs') /\ Names(body.args) \subseteq Names(kwargs')
  BY <1>1, MoreNames
<1>4. ASSUME plan[i].source \in OwnSources
      PROVE  plan[i].name \in Names(kwargs') \/ (~plan[i].required /\ Found(plan[i], Seen) = <<>>)
  BY <1>2, <1>3, <1>4, ParamFull DEF ValuesInv
<1>5. ASSUME IsBody(plan[i])
      PROVE  plan[i].name \in Names(kwargs') \/ ~plan[i].required \/ plan[i].name \in Dropped
  <2>1. IsSequence(plan)
    BY DEF ValuesInv, ProgramInv, CallsCallables
  <2>2. \A j, k \in DOMAIN plan : j # k /\ IsBody(plan[j]) /\ IsBody(plan[k]) => plan[j].embed
    BY TwoBodies DEF DeclaredInv
  <2>3. \/ plan[i].name \in Names(body.args) \/ ~plan[i].required \/ plan[i].name \in Dropped
    BY <1>2, <1>5, <2>1, <2>2, BodyFull
  <2> QED
    BY <1>3, <2>3
<1> QED
  BY <1>4, <1>5 DEF Extracted

LEMMA ExtractFull ==
    ASSUME ValuesInv, Extract PROVE FramesFull' /\ SeenInv'
<1>1. stack = <<>>
  BY DEF Extract, ValuesInv, StackInv
<1>2. CASE UNCHANGED stack
  BY <1>1, <1>2 DEF FramesFull, SeenInv
<1>3. CASE stack' = <<Frame(None, None, program.extra \o program.plan, {}, {})>>
  <2> PICK f : f = Frame(None, None, program.extra \o program.plan, {}, {})
    OBVIOUS
  <2>1. f.at = 1 /\ f.seen = {}
    BY DEF Frame
  <2>2. stack' = <<f>> /\ DOMAIN <<f>> = {1} /\ Len(<<f>>) = 1 /\ <<f>>[1] = f
    BY <1>3
  <2>3. FrameFull(f, 1)'
    BY <2>1 DEF FrameFull
  <2>4. 2..Len(stack') = {}
    BY <2>2
  <2> QED
    BY <2>1, <2>2, <2>3, <2>4 DEF FramesFull, SeenInv
<1> QED
  BY <1>2, <1>3 DEF Extract

LEMMA InitFilled == Init => FilledInv
<1> SUFFICES ASSUME Init PROVE FilledInv
  OBVIOUS
<1>2. DeclaredInv
  BY InitDeclared
<1>3. SeenInv /\ FramesFull
  BY DEF Init, SeenInv, FramesFull
<1>4. CallsFull /\ HandlerFull
  <2>1. DOMAIN <<>> = {}
    OBVIOUS
  <2> QED
    BY <2>1 DEF Init, CallsFull, HandlerFull
<1> QED
  BY <1>2, <1>3, <1>4 DEF FilledInv

LEMMA NextFilled == ValuesInv /\ FaultsInv /\ FilledInv /\ [Next]_vars => FilledInv'
<1> SUFFICES ASSUME ValuesInv, FaultsInv, FilledInv, [Next]_vars PROVE FilledInv'
  OBVIOUS
<1>1. UNCHANGED <<program, request>>
  BY DEF Next, vars, Extract, Reuse, ExtractScheme, Enter, TakeValue, TakeOther, CallDependency,
         CallHandler
<1>2. DeclaredInv'
  BY <1>1, DeclaredKept DEF FilledInv
<1> USE DEF FilledInv
<1>3. CASE Extract
  <2>1. CallsFull' /\ HandlerFull'
    BY <1>1, <1>3, CallsKeptFull, ExtractHandlerFull DEF Extract, FaultsInv
  <2> QED
    BY <1>2, <1>3, <2>1, ExtractFull
<1>4. CASE Reuse
  <2>1. CallsFull' /\ HandlerFull'
    BY <1>1, <1>4, CallsKeptFull, HandlerKept DEF Reuse
  <2>2. FramesFull' /\ SeenInv'
    <3> PICK value : value = cache[Callee]
      OBVIOUS
    <3>1. More /\ Supply(value)
      BY <1>4 DEF Reuse
    <3> QED
      BY <1>1, <3>1, TopSuppliedFull DEF ValuesInv
  <2> QED
    BY <1>2, <2>1, <2>2
<1>5. CASE Enter
  <2>1. CallsFull' /\ HandlerFull'
    BY <1>1, <1>5, CallsKeptFull, HandlerKept DEF Enter
  <2> QED
    BY <1>2, <1>5, <2>1, EnterFull DEF ValuesInv
<1>6. CASE TakeOther
  <2>1. CallsFull' /\ HandlerFull'
    BY <1>1, <1>6, CallsKeptFull, HandlerKept DEF TakeOther
  <2>2. FramesFull' /\ SeenInv'
    <3>1. More /\ InLoop /\ ~IsDependency(Next1)
      BY <1>6 DEF TakeOther
    <3>2. CASE Supply(FromRequest)
      BY <1>1, <3>1, <3>2, TopSuppliedFull DEF ValuesInv
    <3>3. CASE /\ Skip
               /\ ~(\/ Next1.source = "background_tasks"
                    \/ Next1.source = "request" /\ request.object)
      <4> PICK names, n : names = Names(Top.kwargs) /\ n = Len(stack)
        OBVIOUS
      <4>1. Passed(Next1, names, n)
        BY <3>1, <3>3 DEF Passed, LoopPassed, InLoop
      <4> QED
        BY <1>1, <3>1, <3>3, <4>1, TopSkippedFull DEF ValuesInv
    <3> QED
      BY <1>6, <3>2, <3>3 DEF TakeOther
  <2> QED
    BY <1>2, <2>1, <2>2
<1>7. CASE TakeValue
  <2>1. CallsFull' /\ HandlerFull'
    BY <1>1, <1>7, CallsKeptFull, HandlerKept DEF TakeValue
  <2>2. FramesFull' /\ SeenInv'
    <3>1. More /\ ~InLoop /\ ~IsDependency(Next1)
      BY <1>7 DEF TakeValue
    <3>2. CASE Supply(FromRequest)
      BY <1>1, <3>1, <3>2, TopSuppliedFull DEF ValuesInv
    <3>3. CASE /\ Skip /\ Next1.source # "security_scopes"
               /\ _extract_simple(Next1, Seen).is = "default"
      <4> PICK names, n, entry : names = Names(Top.kwargs) /\ n = Len(stack) /\ entry = Next1
        OBVIOUS
      <4>1. ~entry.required /\ Found(entry, Seen) = <<>>
        BY <3>3, SimpleDefault
      <4>2. Passed(entry, names, n)
        BY <3>1, <3>3, <4>1 DEF Passed, DepPassed, InLoop
      <4> QED
        BY <1>1, <3>1, <3>3, <4>2, TopSkippedFull DEF ValuesInv
    <3>4. CASE UNCHANGED stack
      BY <1>1, <3>4, StackUnchangedFull
    <3> QED
      BY <1>7, <3>2, <3>3, <3>4 DEF TakeValue
  <2> QED
    BY <1>2, <2>1, <2>2
<1>8. CASE ExtractScheme
  <2>1. /\ More /\ IsDependency(Next1) /\ Next1.dep \in Schemes /\ Next1.dep \in Callables
        /\ phase' \in {phase, "raised"} /\ UNCHANGED kwargs
    BY <1>8, TopFrame DEF ExtractScheme, Raise, More, ValuesInv
  <2>2. HandlerFull'
    BY <1>1, <2>1, HandlerKept
  <2>3. CASE Raise
    BY <1>1, <1>2, <2>2, <2>3, CallsKeptFull, StackUnchangedFull DEF Raise
  <2>4. CASE Record(Next1, Callee, {}, {}) /\ Supply(Len(calls) + 1)
    <3> PICK value, entry, call :
            /\ value = Len(calls) + 1 /\ entry = Next1
            /\ call = [callable |-> Callee, dep |-> entry.dep, cached |-> entry.use_cache,
                       kwargs |-> {}, scopes |-> {}]
      OBVIOUS
    <3>1. calls' = Append(calls, call) /\ call.dep = entry.dep
      BY <2>4 DEF Record
    <3>2. CallFull(call)
      BY <2>1, <3>1, SchemeFull
    <3>3. CallsFull'
      BY <1>1, <3>1, <3>2, CallsRecordedFull DEF ValuesInv
    <3>4. FramesFull' /\ SeenInv'
      BY <1>1, <2>1, <2>4, TopSuppliedFull DEF ValuesInv
    <3> QED
      BY <1>2, <2>2, <3>3, <3>4
  <2> QED
    BY <1>8, <2>3, <2>4 DEF ExtractScheme
<1>9. CASE CallDependency
  <2>1. /\ phase = "resolve" /\ ~More /\ ~(Top.at <= Len(Top.params)) /\ ~InLoop
        /\ phase' \in {phase, "raised", "refused"} /\ UNCHANGED kwargs
    BY <1>9 DEF CallDependency, Raise, Refuse, More
  <2>2. HandlerFull'
    BY <1>1, <2>1, HandlerKept
  <2>3. CASE Raise \/ Refuse
    BY <1>1, <1>2, <2>2, <2>3, CallsKeptFull, StackUnchangedFull DEF Raise, Refuse
  <2>4. CASE /\ Record(Top.entry, Top.callable, Top.kwargs, Top.scopes)
             /\ LET parent == stack[Len(stack) - 1] IN
                stack' = SubSeq(stack, 1, Len(stack) - 2)
                             \o <<Supplied(parent, Top.entry, Len(calls) + 1)>>
    <3> PICK value, entry, call :
            /\ value = Len(calls) + 1 /\ entry = Top.entry
            /\ call = [callable |-> Top.callable, dep |-> entry.dep, cached |-> entry.use_cache,
                       kwargs |-> Top.kwargs, scopes |-> Top.scopes]
      OBVIOUS
    <3>1. calls' = Append(calls, call) /\ call.dep = Top.entry.dep /\ call.kwargs = Top.kwargs
      BY <2>4 DEF Record
    <3>2. Layered => CallFull(call)
      BY <2>1, <3>1, TopFull DEF ValuesInv
    <3>3. CallsFull'
      BY <1>1, <3>1, <3>2, CallsRecordedFull DEF ValuesInv
    <3>4. FramesFull' /\ SeenInv'
      <4>1. stack' = SubSeq(stack, 1, Len(stack) - 2)
                         \o <<Supplied(stack[Len(stack) - 1], entry, value)>>
        BY <2>4
      <4> QED
        BY <1>1, <2>1, <4>1, TopPoppedFull DEF ValuesInv
    <3> QED
      BY <1>2, <2>2, <3>3, <3>4
  <2> QED
    BY <1>9, <2>3, <2>4 DEF CallDependency
<1>10. CASE CallHandler
  BY <1>1, <1>2, <1>10, CallsKeptFull, StackUnchangedFull, CallHandlerFull DEF CallHandler
<1>11. CASE UNCHANGED vars
  BY <1>1, <1>2, <1>11, CallsKeptFull, StackUnchangedFull, HandlerKept DEF vars
<1> QED
  BY <1>3, <1>4, <1>5, <1>6, <1>7, <1>8, <1>9, <1>10, <1>11 DEF Next

\* The entry of a parameter without a default: where it comes from and whether it is required.
LEMMA NeededEntry ==
    ASSUME NEW param, NEW path_names, NEW entry, CompiledFrom(entry, param, path_names),
           param.default.kind \in {"none"} \cup Calling
    PROVE  /\ entry.name = param.name /\ ~entry.internal
           /\ IsInjected(param) => entry.source = param.type
           /\ ~IsInjected(param) =>
                 /\ entry.source \in OwnSources \cup Calling \cup {"body", "skipped"}
                 /\ entry.source = "skipped" => Source(param, path_names) = "skipped"
                 /\ \/ entry.required \/ param.optional \/ IsDependency(entry)
                    \/ entry.source = "path" /\ param.name \in path_names
<1> DEFINE source == Source(param, path_names)
           compiled == Compiled(param, path_names)
<1>1. entry.name = param.name /\ ~entry.internal
  BY CompiledEntry
<1>2. entry.source = compiled.source /\ entry.required = compiled.required
  <2>1. CASE entry = compiled
    BY <2>1
  <2>2. CASE entry = [compiled EXCEPT !.embed = TRUE]
    BY <2>2 DEF Compiled, Entry
  <2> QED
    BY <2>1, <2>2 DEF CompiledFrom
<1>3. CASE IsInjected(param)
  BY <1>1, <1>2, <1>3 DEF Compiled, Entry
<1>4. CASE ~IsInjected(param)
  <2>1. /\ entry.source = IF IsUpload(param, source) THEN "file" ELSE source
        /\ entry.required = (~HasDefault(param, path_names) /\ ~param.optional)
    BY <1>2, <1>4 DEF Compiled, Entry
  <2>2. source \in OwnSources \cup Calling \cup {"body", "skipped"}
    BY DEF Source, IsMarker, Markers, OwnSources
  <2>3. HasDefault(param, path_names) <=> param.default.kind # "none"
    BY DEF HasDefault, Unwrapped, IsMarker, Markers, OwnSources, Calling
  <2>4. param.default.kind # "none" =>
            \/ source = "path" /\ param.name \in path_names
            \/ source \in Calling
    BY DEF Source, IsMarker, Markers
  <2>5. IsUpload(param, source) => source \in {"query", "file"}
    BY DEF IsUpload
  <2> HIDE DEF source
  <2>6. /\ entry.source \in OwnSources \cup Calling \cup {"body", "skipped"}
        /\ entry.source = "skipped" => source = "skipped"
    BY <2>1, <2>2 DEF OwnSources
  <2>7. \/ entry.required \/ param.optional \/ IsDependency(entry)
        \/ entry.source = "path" /\ param.name \in path_names
    BY <2>1, <2>3, <2>4, <2>5 DEF IsDependency, Calling
  <2> QED
    BY <1>1, <1>4, <2>6, <2>7 DEF source
<1> QED
  BY <1>3, <1>4

\* A parameter that needs an argument has an entry in the plan.
NeededBy(plan, path_names, supplied, name) ==
    \E i \in DOMAIN plan :
        /\ plan[i].name = name /\ ~plan[i].internal
        /\ \/ plan[i].source \in supplied
           \/ IsDependency(plan[i])
           \/ /\ plan[i].source \in OwnSources \cup {"body"}
              /\ \/ ~(~plan[i].required /\ Found(plan[i], Seen) = <<>>)
                 \/ plan[i].source = "path" /\ name \in path_names

LEMMA NeededPlanned ==
    ASSUME NEW signature, IsSequence(signature), NEW path_names,
           NEW plan, plan = compile_route_plan(signature, path_names),
           NEW supplied, supplied \subseteq Injected,
           NEW name \in Needs(signature, path_names, plan, supplied)
    PROVE  NeededBy(plan, path_names, supplied, name)
<1>1. PICK param \in ToSet(signature) :
          /\ name = param.name
          /\ param.default.kind \in {"none"} \cup Calling
          /\ IF IsInjected(param) THEN param.type \in supplied
             ELSE ~LeftOut(param, path_names, plan)
  BY DEF Needs
<1>2. PICK k \in DOMAIN signature : signature[k] = param
  BY SequenceFacts
<1>3. IsKept(param, path_names)
  BY <1>1 DEF IsKept, LeftOut
<1>4. PICK i \in DOMAIN plan : CompiledFrom(plan[i], param, path_names)
  BY <1>2, <1>3, PlanOfSignature
<1> PICK entry : entry = plan[i]
  OBVIOUS
<1>5. /\ entry.name = param.name /\ ~entry.internal
      /\ IsInjected(param) => entry.source = param.type
      /\ ~IsInjected(param) =>
            /\ entry.source \in OwnSources \cup Calling \cup {"body", "skipped"}
            /\ entry.source = "skipped" => Source(param, path_names) = "skipped"
            /\ \/ entry.required \/ param.optional \/ IsDependency(entry)
               \/ entry.source = "path" /\ param.name \in path_names
  <2>1. CompiledFrom(entry, param, path_names) /\ param.default.kind \in {"none"} \cup Calling
    BY <1>1, <1>4
  <2> QED
    BY <2>1, NeededEntry
<1>6. CASE IsInjected(param)
  BY <1>1, <1>5, <1>6 DEF NeededBy
<1>7. CASE ~IsInjected(param)
  <2>1. entry.source # "skipped" /\ (param.optional => Found(entry, Seen) # <<>>)
    <3>1. /\ Source(param, path_names) # "skipped"
          /\ param.optional => ~(plan[i].name = param.name /\ Found(plan[i], Seen) = <<>>)
      BY <1>1, <1>7 DEF LeftOut
    <3> QED
      BY <1>1, <1>5, <1>7, <3>1
  <2>2. entry.source \in OwnSources \cup {"body"} \/ IsDependency(entry)
    BY <1>5, <1>7, <2>1 DEF IsDependency
  <2>3. \/ IsDependency(entry)
        \/ ~(~entry.required /\ Found(entry, Seen) = <<>>)
        \/ entry.source = "path" /\ name \in path_names
    BY <1>1, <1>5, <1>7, <2>1
  <2> QED
    BY <1>1, <1>5, <2>2, <2>3 DEF NeededBy
<1> QED
  BY <1>6, <1>7

LEMMA HandlerLacksNone ==
    ASSUME DeclaredInv, HandlerFull, phase = "handler",
           NEW declared, declared = program.declared, NEW plan, plan = program.plan,
           NEW supplied, supplied = {"background_tasks"} \cup IF request.object THEN {"request"} ELSE {},
           NEW name \in Needs(declared.handler, declared.path_names, plan, supplied)
    PROVE  name \in Names(kwargs) \cup Dropped
<1>1. supplied \subseteq Injected
  BY DEF Injected
<1>2. NeededBy(plan, declared.path_names, supplied, name)
  BY <1>1, NeededPlanned DEF DeclaredInv
<1> PICK i \in DOMAIN plan :
          /\ plan[i].name = name /\ ~plan[i].internal
          /\ \/ plan[i].source \in supplied
             \/ IsDependency(plan[i])
             \/ /\ plan[i].source \in OwnSources \cup {"body"}
                /\ \/ ~(~plan[i].required /\ Found(plan[i], Seen) = <<>>)
                   \/ plan[i].source = "path" /\ name \in declared.path_names
  BY <1>2 DEF NeededBy
<1> PICK entry, names : entry = plan[i] /\ names = Names(kwargs)
  OBVIOUS
<1>3. Extracted(entry, names) /\ LoopPassed(entry, names)
  BY DEF HandlerFull
<1>4. CASE entry.source \in supplied \/ IsDependency(entry)
  BY <1>2, <1>3, <1>4 DEF LoopPassed
<1>5. CASE entry.source = "path" /\ name \in declared.path_names
  <2>1. Found(entry, Seen) # <<>>
    <3>1. Found(entry, Seen) = At(request.path, name)
      <4>1. Seen.path = request.path
        BY DEF Seen
      <4> QED
        BY <1>2, <1>5, <4>1 DEF Found
    <3> QED
      BY <1>5, <3>1 DEF DeclaredInv
  <2> QED
    BY <1>2, <1>3, <1>5, <2>1 DEF Extracted, OwnSources
<1>6. CASE /\ entry.source \in OwnSources
           /\ ~(~entry.required /\ Found(entry, Seen) = <<>>)
  BY <1>2, <1>3, <1>6 DEF Extracted
<1>7. CASE /\ entry.source = "body"
           /\ ~(~entry.required /\ Found(entry, Seen) = <<>>)
  <2>1. Found(entry, Seen) = <<>>
    BY <1>7 DEF Found
  <2> QED
    BY <1>2, <1>3, <1>7, <2>1 DEF Extracted, IsBody
<1> QED
  BY <1>2, <1>4, <1>5, <1>6, <1>7

LEMMA CallLacksNone ==
    ASSUME DeclaredInv, NEW call, CallFull(call), call.dep \notin Schemes,
           NEW plan, plan = program.dep_plan[call.dep],
           NEW name \in Needs(program.declared.signatures[call.dep], {}, plan, {"security_scopes"})
    PROVE  name \in Names(call.kwargs)
<1>1. /\ IsSequence(program.declared.signatures[call.dep])
      /\ plan = compile_route_plan(program.declared.signatures[call.dep], {})
      /\ {"security_scopes"} \subseteq Injected
  BY DEF DeclaredInv, CallFull, Injected
<1>2. NeededBy(plan, {}, {"security_scopes"}, name)
  <2> PICK signature : signature = program.declared.signatures[call.dep]
    OBVIOUS
  <2> QED
    BY <1>1, NeededPlanned
<1> PICK i \in DOMAIN plan :
          /\ plan[i].name = name /\ ~plan[i].internal
          /\ \/ plan[i].source \in {"security_scopes"}
             \/ IsDependency(plan[i])
             \/ /\ plan[i].source \in OwnSources \cup {"body"}
                /\ \/ ~(~plan[i].required /\ Found(plan[i], Seen) = <<>>)
                   \/ plan[i].source = "path" /\ name \in {}
  BY <1>2 DEF NeededBy
<1>3. DepPassed(plan[i], Names(call.kwargs))
  BY DEF CallFull
<1> QED
  BY <1>2, <1>3 DEF DepPassed

\* The call that was refused has taken what its frame has.
LEMMA AttemptFull ==
    ASSUME ValuesInv, RefusedInv, FilledInv, Layered, NEW call \in Attempts PROVE CallFull(call)
<1>1. CASE \E i \in DOMAIN calls :
             call = [callable |-> calls[i].callable, dep |-> calls[i].dep,
                     kwargs |-> calls[i].kwargs]
  BY <1>1 DEF FilledInv, CallsFull, CallFull
<1>2. CASE /\ phase = "refused"
           /\ call = [callable |-> Top.callable, dep |-> Top.entry.dep, kwargs |-> Top.kwargs]
  BY <1>2, TopFull DEF ValuesInv, RefusedInv, FilledInv
<1> QED
  BY <1>1, <1>2 DEF Attempts

\* The handler and its dependencies are called with an argument for every parameter that was
\* declared without a default; a replacement, if its parameters are those of the original.
THEOREM ArgumentsComplete == Spec => []NobodyLacksAnArgument
<1>1. ValuesInv /\ RefusedInv /\ FilledInv => NobodyLacksAnArgument
  <2> SUFFICES ASSUME ValuesInv, RefusedInv, FilledInv PROVE NobodyLacksAnArgument
    OBVIOUS
  <2>1. ASSUME phase = "handler"
        PROVE  Needs(program.declared.handler, program.declared.path_names, program.plan,
                     {"background_tasks"} \cup IF request.object THEN {"request"} ELSE {})
                   \ Dropped \subseteq Names(kwargs)
    BY <2>1, HandlerLacksNone DEF FilledInv
  <2>2. ASSUME Layered, NEW call \in Attempts, Alike(call), call.dep \notin Schemes
        PROVE  LacksNothing(call)
    <3>1. CallFull(call) /\ call.dep \in Callables /\ call.callable \in Callables
      BY <2>2, AttemptFull, AttemptAnswers
    <3>2. Needs(program.declared.signatures[call.dep], {}, program.dep_plan[call.dep],
                {"security_scopes"}) \subseteq Names(call.kwargs)
      BY <2>2, <3>1, CallLacksNone DEF FilledInv
    <3>3. /\ program.dep_plan[call.callable] = program.dep_plan[call.dep]
          /\ program.declared.signatures[call.callable] = program.declared.signatures[call.dep]
      BY <2>2, <3>1, AlikePlans DEF FilledInv, Alike
    <3> QED
      BY <3>2, <3>3 DEF LacksNothing
  <2> QED
    BY <2>1, <2>2 DEF NobodyLacksAnArgument
<1>2. Init => RefusedInv
  BY DEF Init, RefusedInv
<1> QED
  BY InitValues, NextValues, NextRefused, InitFaults, NextFaults, InitFilled, NextFilled,
     <1>1, <1>2, PTL DEF Spec

=============================================================================
