-------------------------- MODULE Dispatch_proofs --------------------------
(***************************************************************************)
(* Proofs about Dispatch: its state keeps its shape, and no generator is   *)
(* torn down twice, for any number of threads and requests, any plans and  *)
(* both entry points.                                                      *)
(***************************************************************************)
EXTENDS Dispatch, TLAPS, SequenceTheorems

-----------------------------------------------------------------------------
(* Lists as stacks *)

\* Popping a non-empty list of generators (gens.pop()).
LEMMA PopFacts ==
    ASSUME NEW S, NEW s \in Seq(S), s # <<>>
    PROVE  /\ Last(s) \in S
           /\ Front(s) \in Seq(S)
           /\ Len(s) \in Nat \ {0}
           /\ Last(s) = s[Len(s)]
           /\ Len(Front(s)) = Len(s) - 1
           /\ \A i \in 1..Len(Front(s)) : Front(s)[i] = s[i]
<1>1. Len(s) \in Nat \ {0} /\ Last(s) = s[Len(s)] /\ Last(s) \in S
  BY EmptySeq, LenProperties, ElementOfSeq DEF Last
<1>2. Front(s) = SubSeq(s, 1, Len(s) - 1)
  BY DEF Front
<1>3. \A i \in 1..(Len(s) - 1) : s[i] \in S
  BY <1>1, ElementOfSeq
<1>4. /\ Front(s) \in Seq(S)
      /\ Len(Front(s)) = Len(s) - 1
      /\ \A i \in 1..(Len(s) - 1) : Front(s)[i] = s[i]
  <2> DEFINE n == Len(s) - 1
  <2>1. n \in Nat /\ 1 \in Int
    BY <1>1
  <2>2. n \in Int
    BY <2>1
  <2> HIDE DEF n
  <2>3. \A i \in 1..n : s[i] \in S
    BY <1>3 DEF n
  <2>4. /\ SubSeq(s, 1, n) \in Seq(S)
        /\ Len(SubSeq(s, 1, n)) = IF 1 <= n THEN n - 1 + 1 ELSE 0
        /\ \A i \in 1..(n - 1 + 1) : SubSeq(s, 1, n)[i] = s[1 + i - 1]
    BY <2>1, <2>2, <2>3, SubSeqProperties
  <2>5. /\ Len(SubSeq(s, 1, n)) = n
        /\ \A i \in 1..n : SubSeq(s, 1, n)[i] = s[i]
    BY <2>1, <2>4
  <2>6. QED
    BY <1>2, <2>4, <2>5 DEF n
<1>5. QED
  BY <1>1, <1>4

\* Appending a generator (_current_yield_gens.append).
LEMMA PushFacts ==
    ASSUME NEW S, NEW s \in Seq(S), NEW e \in S
    PROVE  /\ Append(s, e) \in Seq(S)
           /\ Len(Append(s, e)) = Len(s) + 1
           /\ \A i \in 1..Len(s) : Append(s, e)[i] = s[i]
           /\ Append(s, e)[Len(s) + 1] = e
  OBVIOUS

\* The elements of a list.
LEMMA MemberFacts ==
    ASSUME NEW S, NEW s \in Seq(S), NEW e
    PROVE  e \in ToSet(s) <=> \E i \in 1..Len(s) : s[i] = e
  BY DEF ToSet

\* A plan position is a position of Gens.
LEMMA PlanBound ==
    ASSUME NEW r \in Requests
    PROVE  Len(Plan[r]) \in Nat /\ Len(Plan[r]) <= MaxDeps
  BY ConstantsAssumption

-----------------------------------------------------------------------------
(***************************************************************************)
(* The inductive invariant.  A list holds open generators only, a          *)
(* generator is in at most one list and there once, the generator between  *)
(* its first yield and its append is open and in no list, and a plan       *)
(* position not reached yet has created nothing.                           *)
(***************************************************************************)
InList(g) == \E l \in Lists : \E i \in 1..Len(lists[l]) : lists[l][i] = g

HeapTypeOK ==
    /\ lists \in [Lists -> Seq(Gens)]
    /\ genState \in [Gens -> GenStates]

ListsHoldOpen ==
    \A l \in Lists : \A i \in 1..Len(lists[l]) : genState[lists[l][i]] = "open"

ListsDisjoint ==
    \A l, m \in Lists : \A i \in 1..Len(lists[l]), j \in 1..Len(lists[m]) :
        lists[l][i] = lists[m][j] => l = m /\ i = j

HeapOK == HeapTypeOK /\ ListsHoldOpen /\ ListsDisjoint /\ TornDownOnce

PendingIsOwned ==
    \A r \in Requests : pc[r] = "append" =>
        /\ pos[r] <= Len(Plan[r])
        /\ genState[<<r, pos[r]>>] = "open"
        /\ ~InList(<<r, pos[r]>>)

Early == {"waiting", "match", "deps"}

FutureIsUnborn ==
    \A r \in Requests : \A k \in 1..MaxDeps :
        \/ pc[r] \in Early /\ k >= pos[r]
        \/ pc[r] = "append" /\ k > pos[r]
        => genState[<<r, k>>] = "unborn"

DrainHasList ==
    \A r \in Requests : pc[r] \in {"test", "pop", "teardown"} => draining[r] \in Lists

IInv == TypeOK /\ HeapOK /\ PendingIsOwned /\ FutureIsUnborn /\ DrainHasList

LEMMA InitIInv == Init => IInv
<1> SUFFICES ASSUME Init PROVE IInv
  OBVIOUS
<1>1. TypeOK
  BY ConstantsAssumption, EmptySeq
     DEF Init, TypeOK, Lists, ModuleList, Steps, Outcomes, GenStates
<1>2. HeapOK
  BY <1>1, EmptySeq DEF Init, TypeOK, HeapOK, HeapTypeOK, ListsHoldOpen, ListsDisjoint, TornDownOnce
<1>3. PendingIsOwned /\ FutureIsUnborn /\ DrainHasList
  BY ConstantsAssumption DEF Init, PendingIsOwned, FutureIsUnborn, DrainHasList, Gens
<1>4. QED
  BY <1>1, <1>2, <1>3 DEF IInv

-----------------------------------------------------------------------------
(* What a step may do to the lists and the generators *)

(***************************************************************************)
(* Every step but the two that create and append a generator leaves the    *)
(* lists with fewer or the same generators, and touches no generator that  *)
(* is outside the lists.                                                   *)
(***************************************************************************)
Shrinks ==
    /\ HeapOK'
    /\ \A g \in Gens : genState[g] = "unborn" => genState'[g] = "unborn"
    /\ \A g \in Gens : genState[g] = "open" /\ ~InList(g) => genState'[g] = "open"
    /\ \A g \in Gens : ~InList(g) => ~InList(g)'

LEMMA UnchangedShrinks ==
    ASSUME HeapOK, UNCHANGED <<lists, genState>>
    PROVE  Shrinks
  BY DEF Shrinks, HeapOK, HeapTypeOK, ListsHoldOpen, ListsDisjoint, TornDownOnce, InList

\* Dropping a reference to a list (Drop).
LEMMA DropShrinks ==
    ASSUME HeapOK, NEW l \in Lists, NEW drains, Drop(l, drains)
    PROVE  Shrinks
<1>1. CASE UNCHANGED <<lists, genState>>
  BY <1>1, UnchangedShrinks
<1>2. CASE /\ lists' = [lists EXCEPT ![l] = <<>>]
           /\ genState' = [g \in Gens |->
                IF g \in ToSet(lists[l]) /\ genState[g] = "open"
                THEN "collected"
                ELSE genState[g]]
  <2>1. lists[l] \in Seq(Gens)
    BY DEF HeapOK, HeapTypeOK
  <2>2. HeapTypeOK' /\ TornDownOnce'
    BY <1>2, EmptySeq DEF HeapOK, HeapTypeOK, GenStates, TornDownOnce
  <2>3. /\ lists'[l] = <<>>
        /\ \A m \in Lists \ {l} : lists'[m] = lists[m]
    BY <1>2 DEF HeapOK, HeapTypeOK
  <2>4. \A m \in Lists \ {l} : \A i \in 1..Len(lists[m]) :
           /\ lists[m][i] \in Gens
           /\ lists[m][i] \notin ToSet(lists[l])
    BY <2>1, MemberFacts DEF HeapOK, HeapTypeOK, ListsDisjoint
  <2>5. ListsHoldOpen'
    <3> SUFFICES ASSUME NEW m \in Lists, NEW i \in 1..Len(lists'[m])
                 PROVE  genState'[lists'[m][i]] = "open"
      BY DEF ListsHoldOpen
    <3>1. m # l
      BY <2>3, EmptySeq
    <3>2. QED
      BY <1>2, <2>3, <2>4, <3>1 DEF HeapOK, ListsHoldOpen
  <2>6. ListsDisjoint'
    BY <2>3 DEF HeapOK, ListsDisjoint
  <2>7. \A g \in Gens : genState[g] = "unborn" => genState'[g] = "unborn"
    BY <1>2
  <2>8. \A g \in Gens : genState[g] = "open" /\ ~InList(g) => genState'[g] = "open"
    BY <1>2, <2>1, MemberFacts DEF InList
  <2>9. \A g \in Gens : ~InList(g) => ~InList(g)'
    BY <2>3 DEF InList
  <2>10. QED
    BY <2>2, <2>5, <2>6, <2>7, <2>8, <2>9 DEF Shrinks, HeapOK
<1>3. QED
  BY <1>1, <1>2 DEF Drop

\* gens.pop() and the teardown of what it returned.
LEMMA PopShrinks ==
    ASSUME HeapOK, NEW l \in Lists, lists[l] # <<>>,
           NEW how \in {"resumed", "thrown"},
           lists' = [lists EXCEPT ![l] = Front(@)],
           Advance(Last(lists[l]), how)
    PROVE  Shrinks /\ Last(lists[l]) \in Gens
<1> DEFINE s == lists[l]
           g0 == Last(lists[l])
<1>1. s \in Seq(Gens)
  BY DEF HeapOK, HeapTypeOK
<1>2. /\ g0 \in Gens
      /\ Front(s) \in Seq(Gens)
      /\ Len(s) \in Nat \ {0}
      /\ g0 = s[Len(s)]
      /\ Len(Front(s)) = Len(s) - 1
      /\ \A i \in 1..Len(Front(s)) : Front(s)[i] = s[i]
  BY <1>1, PopFacts
<1>3. genState[g0] = "open"
  BY <1>2 DEF HeapOK, ListsHoldOpen
<1>4. genState' = [genState EXCEPT ![g0] = how]
  BY <1>2, <1>3 DEF Advance, HeapOK, HeapTypeOK
<1>5. HeapTypeOK' /\ TornDownOnce'
  BY <1>2, <1>4 DEF HeapOK, HeapTypeOK, GenStates, TornDownOnce
<1>6. /\ lists'[l] = Front(s)
      /\ \A m \in Lists \ {l} : lists'[m] = lists[m]
  BY DEF HeapOK, HeapTypeOK
<1>7. \A m \in Lists : \A i \in 1..Len(lists'[m]) :
         /\ i \in 1..Len(lists[m])
         /\ lists'[m][i] = lists[m][i]
         /\ m = l => i < Len(s)
  BY <1>2, <1>6
<1>8. \A m \in Lists : \A i \in 1..Len(lists'[m]) : lists'[m][i] \in Gens /\ lists'[m][i] # g0
  BY <1>2, <1>7 DEF HeapOK, HeapTypeOK, ListsDisjoint
<1>9. ListsHoldOpen'
  BY <1>4, <1>7, <1>8 DEF HeapOK, HeapTypeOK, ListsHoldOpen
<1>10. ListsDisjoint'
  BY <1>7 DEF HeapOK, ListsDisjoint
<1>11. \A g \in Gens : genState[g] = "unborn" => genState'[g] = "unborn"
  BY <1>3, <1>4 DEF HeapOK, HeapTypeOK
<1>12. InList(g0)
  BY <1>2 DEF InList
<1>13. \A g \in Gens : genState[g] = "open" /\ ~InList(g) => genState'[g] = "open"
  BY <1>4, <1>12 DEF HeapOK, HeapTypeOK
<1>14. \A g \in Gens : ~InList(g) => ~InList(g)'
  BY <1>7 DEF InList
<1>15. QED
  BY <1>2, <1>5, <1>9, <1>10, <1>11, <1>13, <1>14 DEF Shrinks, HeapOK

-----------------------------------------------------------------------------
(* Every step but OpenGenerator and AppendGenerator shrinks the lists *)

Growing(r) == OpenGenerator(r) \/ AppendGenerator(r)

LEMMA EndDrainShrinks ==
    ASSUME IInv, NEW r \in Requests, pc[r] \in {"test", "pop", "teardown"}, EndDrain(r)
    PROVE  Shrinks
<1>1. HeapOK /\ draining[r] \in Lists
  BY DEF IInv, DrainHasList
<1>2. CASE draining[r] = current
  BY <1>1, <1>2, UnchangedShrinks DEF EndDrain
<1>3. CASE draining[r] # current
  BY <1>1, <1>3, DropShrinks DEF EndDrain
<1>4. QED
  BY <1>2, <1>3

LEMMA PopGeneratorShrinks ==
    ASSUME IInv, NEW r \in Requests, PopGenerator(r)
    PROVE  Shrinks
<1> DEFINE l == draining[r]
           how == IF Throws(r) THEN "thrown" ELSE "resumed"
<1>1. pc[r] = "pop" /\ HeapOK /\ l \in Lists
  BY DEF IInv, DrainHasList, PopGenerator
<1>2. CASE lists[l] = <<>>
  BY <1>1, <1>2, EndDrainShrinks DEF PopGenerator
<1>3. CASE lists[l] # <<>>
  <2>1. lists' = [lists EXCEPT ![l] = Front(@)] /\ Advance(Last(lists[l]), how)
    BY <1>3 DEF PopGenerator
  <2>2. how \in {"resumed", "thrown"}
    OBVIOUS
  <2> HIDE DEF l, how
  <2>3. QED
    BY <1>1, <1>3, <2>1, <2>2, PopShrinks
<1>4. QED
  BY <1>2, <1>3

LEMMA ResetShrinks ==
    ASSUME IInv, NEW l, NEW q, Reset(l, q)
    PROVE  Shrinks
  BY DropShrinks DEF IInv, TypeOK, Reset

LEMMA StepShrinks ==
    ASSUME IInv, NEW r \in Requests, Step(r), ~Growing(r)
    PROVE  Shrinks
<1>1. HeapOK
  BY DEF IInv
<1>2. CASE Reject(r)
  BY <1>1, <1>2, UnchangedShrinks DEF Reject, bgVars
<1>2a. CASE RejectParameters(r)
  BY <1>1, <1>2a, UnchangedShrinks DEF RejectParameters, bgVars
<1>3. CASE TrivialHandler(r)
  BY <1>1, <1>3, UnchangedShrinks DEF TrivialHandler, bgVars
<1>4. CASE StartDependencies(r)
  BY <1>1, <1>4, UnchangedShrinks DEF StartDependencies, bgVars
<1>5. CASE ResolveValue(r)
  BY <1>1, <1>5, UnchangedShrinks DEF ResolveValue, bgVars
<1>6. CASE InjectRequest(r)
  BY <1>1, <1>6, UnchangedShrinks DEF InjectRequest, bgVars
<1>7. CASE InjectTasks(r)
  BY <1>1, <1>7, UnchangedShrinks DEF InjectTasks, bgVars
<1>8. CASE FailDependency(r)
  BY <1>1, <1>8, UnchangedShrinks DEF FailDependency, bgVars
<1>9. CASE CallHandler(r)
  BY <1>1, <1>9, UnchangedShrinks DEF CallHandler, bgVars
<1>10. CASE HandlerEnds(r)
  BY <1>1, <1>10, UnchangedShrinks DEF HandlerEnds, bgVars
<1>11. CASE LoadList(r)
  BY <1>1, <1>11, UnchangedShrinks DEF LoadList, bgVars
<1>12. CASE Render(r)
  BY <1>1, <1>12, UnchangedShrinks DEF Render, bgVars
<1>13. CASE LeaveNative(r)
  BY <1>1, <1>13, UnchangedShrinks DEF LeaveNative, bgVars
<1>14. CASE LeaveTry(r)
  BY <1>1, <1>14, UnchangedShrinks DEF LeaveTry, bgVars
<1>15. CASE Finally(r)
  BY <1>1, <1>15, UnchangedShrinks DEF Finally, bgVars
<1>16. CASE TestList(r)
  BY <1>1, <1>16, UnchangedShrinks, EndDrainShrinks DEF TestList
<1>17. CASE PopGenerator(r)
  BY <1>17, PopGeneratorShrinks
<1>18. CASE TeardownEnds(r)
  BY <1>1, <1>18, UnchangedShrinks, EndDrainShrinks DEF TeardownEnds
<1>19. CASE Clear(r)
  BY <1>19, ResetShrinks DEF Clear
<1>20. QED
  BY <1>2, <1>2a, <1>3, <1>4, <1>5, <1>6, <1>7, <1>8, <1>9, <1>10, <1>11, <1>12, <1>13, <1>14,
     <1>15, <1>16, <1>17, <1>18, <1>19
     DEF Step, Growing

LEMMA ArriveShrinks ==
    ASSUME IInv, NEW t \in Threads, NEW r \in Requests, Arrive(t, r)
    PROVE  Shrinks
<1>1. CASE SkipsReset(r)
  BY <1>1, UnchangedShrinks DEF Arrive, bgVars, IInv
<1>2. CASE ~SkipsReset(r)
  BY <1>2, ResetShrinks DEF Arrive
<1>3. QED
  BY <1>1, <1>2

-----------------------------------------------------------------------------
(* The control state *)

\* TypeOK without the lists and the generators.
ControlTypeOK ==
    /\ current \in Lists
    /\ tasksSlot \in Requests \cup {None}
    /\ requestSlot \in Requests \cup {None}
    /\ rawSlot \in Requests \cup {None}
    /\ busy \in [Threads -> Requests \cup {None}]
    /\ pc \in [Requests -> Steps]
    /\ pos \in [Requests -> 1..(MaxDeps + 1)]
    /\ outcome \in [Requests -> Outcomes]
    /\ draining \in [Requests -> Lists \cup {None}]
    /\ popped \in [Requests -> Gens \cup {None}]
    /\ leftover \in [Requests -> BOOLEAN]
    /\ received \in [Requests -> [request : Requests \cup {None},
                                  tasks   : Requests \cup {None},
                                  raw     : Requests \cup {None}]]

LEMMA TypeSplit == TypeOK <=> ControlTypeOK /\ HeapTypeOK
  BY DEF TypeOK, ControlTypeOK, HeapTypeOK

\* A request never gets back to the plan positions it has passed.
PlanAdvances ==
    \A r \in Requests :
        /\ pc'[r] = "append" => pc[r] = "append" /\ pos'[r] = pos[r]
        /\ pc'[r] \in Early => pc[r] \in Early /\ pos'[r] >= pos[r]

\* What a request has read from the slots of _bg.
Slots == [request : Requests \cup {None}, tasks : Requests \cup {None}, raw : Requests \cup {None}]

LEMMA SlotsUpdate ==
    ASSUME NEW s \in Slots, NEW x \in Requests \cup {None}, NEW y \in Requests \cup {None}
    PROVE  /\ [s EXCEPT !.request = x] \in Slots
           /\ [s EXCEPT !.tasks = x, !.raw = y] \in Slots
  BY DEF Slots

LEMMA ListsFacts ==
    /\ ModuleList \in Lists
    /\ \A r \in Requests : <<r, "start">> \in Lists /\ <<r, "final">> \in Lists
  BY DEF Lists, ModuleList

LEMMA NextPositionType ==
    ASSUME ControlTypeOK, NEW r \in Requests, pos[r] <= Len(Plan[r]), NextPosition(r)
    PROVE  /\ pos' \in [Requests -> 1..(MaxDeps + 1)]
           /\ pos'[r] = pos[r] + 1
           /\ \A q \in Requests \ {r} : pos'[q] = pos[q]
           /\ pos[r] \in 1..MaxDeps
  BY PlanBound, ConstantsAssumption DEF ControlTypeOK, NextPosition

LEMMA EndDrainControl ==
    ASSUME ControlTypeOK, DrainHasList, NEW r \in Requests,
           pc[r] \in {"test", "pop", "teardown"}, EndDrain(r),
           UNCHANGED <<current, tasksSlot, requestSlot, rawSlot, busy, pos, outcome, leftover,
                       received>>
    PROVE  ControlTypeOK' /\ DrainHasList' /\ PlanAdvances
  BY DEF EndDrain, AfterDrain, Goto, ControlTypeOK, DrainHasList, PlanAdvances, Early, Steps

LEMMA ArriveControl ==
    ASSUME IInv, NEW t \in Threads, NEW r \in Requests, Arrive(t, r)
    PROVE  ControlTypeOK' /\ DrainHasList' /\ PlanAdvances
<1>1. ControlTypeOK /\ DrainHasList
  BY TypeSplit DEF IInv
<1>2. /\ current' \in Lists
      /\ tasksSlot' \in Requests \cup {None}
      /\ requestSlot' \in Requests \cup {None}
      /\ rawSlot' \in Requests \cup {None}
  <2>1. CASE SkipsReset(r)
    BY <1>1, <2>1 DEF Arrive, ControlTypeOK, bgVars
  <2>2. CASE ~SkipsReset(r)
    BY <2>2, ListsFacts DEF Arrive, Reset
  <2>3. QED
    BY <2>1, <2>2
<1>3. ControlTypeOK'
  BY <1>1, <1>2 DEF Arrive, Goto, ControlTypeOK, Steps, drainVars
<1>4. DrainHasList' /\ PlanAdvances
  BY <1>1 DEF Arrive, Goto, ControlTypeOK, DrainHasList, PlanAdvances, Early, drainVars
<1>5. QED
  BY <1>3, <1>4

LEMMA StepControl ==
    ASSUME IInv, NEW r \in Requests, Step(r), ~Growing(r)
    PROVE  ControlTypeOK' /\ DrainHasList' /\ PlanAdvances
<1>1. ControlTypeOK /\ DrainHasList
  BY TypeSplit DEF IInv
<1>2. CASE Reject(r)
  BY <1>1, <1>2 DEF Reject, Finish,
         Goto, ControlTypeOK, DrainHasList, PlanAdvances, Early, Steps, Outcomes, bgVars, drainVars
<1>2a. CASE RejectParameters(r)
  BY <1>1, <1>2a DEF RejectParameters, Finish,
         Goto, ControlTypeOK, DrainHasList, PlanAdvances, Early, Steps, Outcomes, bgVars, drainVars
<1>3. CASE TrivialHandler(r)
  BY <1>1, <1>3 DEF TrivialHandler, Finish,
         Goto, ControlTypeOK, DrainHasList, PlanAdvances, Early, Steps, Outcomes, bgVars, drainVars
<1>4. CASE StartDependencies(r)
  BY <1>1, <1>4 DEF StartDependencies,
         Goto, ControlTypeOK, DrainHasList, PlanAdvances, Early, Steps, Outcomes, bgVars, drainVars
<1>5. CASE ResolveValue(r)
  <2>1. ControlTypeOK'
    BY <1>1, <1>5, NextPositionType DEF ResolveValue, NextIs, Goto, ControlTypeOK, Steps, bgVars, drainVars
  <2>2. DrainHasList'
    BY <1>1, <1>5, NextPositionType DEF ResolveValue, NextIs, Goto, ControlTypeOK, DrainHasList, bgVars, drainVars
  <2>3. PlanAdvances
    BY <1>1, <1>5, NextPositionType DEF ResolveValue, NextIs, Goto, ControlTypeOK, PlanAdvances, Early, bgVars, drainVars
  <2>4. QED
    BY <2>1, <2>2, <2>3
<1>6. CASE InjectRequest(r)
  <2> DEFINE new == [received[r] EXCEPT !.request = requestSlot]
  <2>a. new \in Slots
    <3>1. received[r] \in Slots /\ requestSlot \in Requests \cup {None}
      BY <1>1 DEF ControlTypeOK, Slots
    <3> QED
      BY <3>1, SlotsUpdate
  <2>b. received' = [received EXCEPT ![r] = new]
    BY <1>6 DEF InjectRequest
  <2> HIDE DEF new
  <2>c. received' \in [Requests -> Slots]
    BY <1>1, <2>a, <2>b DEF ControlTypeOK, Slots
  <2>1. ControlTypeOK'
    BY <1>1, <1>6, <2>c, NextPositionType
       DEF InjectRequest, NextIs, ControlTypeOK, Slots, bgVars, drainVars
  <2>2. DrainHasList'
    BY <1>1, <1>6, NextPositionType DEF InjectRequest, NextIs, Goto, ControlTypeOK, DrainHasList, bgVars, drainVars
  <2>3. PlanAdvances
    BY <1>1, <1>6, NextPositionType DEF InjectRequest, NextIs, Goto, ControlTypeOK, PlanAdvances, Early, bgVars, drainVars
  <2>4. QED
    BY <2>1, <2>2, <2>3
<1>7. CASE InjectTasks(r)
  BY <1>1, <1>7, NextPositionType
     DEF InjectTasks, NextIs, ControlTypeOK, DrainHasList, PlanAdvances, Early, bgVars, drainVars
<1>8. CASE FailDependency(r)
  BY <1>1, <1>8 DEF FailDependency, Finish, NextIs,
         Goto, ControlTypeOK, DrainHasList, PlanAdvances, Early, Steps, Outcomes, bgVars, drainVars
<1>9. CASE CallHandler(r)
  BY <1>1, <1>9 DEF CallHandler,
         Goto, ControlTypeOK, DrainHasList, PlanAdvances, Early, Steps, Outcomes, bgVars, drainVars
<1>10. CASE HandlerEnds(r)
  BY <1>1, <1>10 DEF HandlerEnds, Finish,
         Goto, ControlTypeOK, DrainHasList, PlanAdvances, Early, Steps, Outcomes, bgVars, drainVars
<1>11. CASE LoadList(r)
  <2>1. ControlTypeOK'
    BY <1>1, <1>11 DEF LoadList, AfterDrain, Goto, ControlTypeOK, Steps, bgVars, drainVars
  <2>2. DrainHasList'
    BY <1>1, <1>11 DEF LoadList, AfterDrain, Goto, ControlTypeOK, DrainHasList, bgVars, drainVars
  <2>3. PlanAdvances
    BY <1>1, <1>11 DEF LoadList, AfterDrain, Goto, ControlTypeOK, PlanAdvances, Early, bgVars, drainVars
  <2>4. QED
    BY <2>1, <2>2, <2>3
<1>12. CASE TestList(r)
  <2>1. CASE lists[draining[r]] = <<>>
    BY <1>1, <1>12, <2>1, EndDrainControl DEF TestList
  <2>2. CASE lists[draining[r]] # <<>>
    <3>1. ControlTypeOK'
      BY <1>1, <1>12, <2>2 DEF TestList, Goto, ControlTypeOK, Steps
    <3>2. DrainHasList'
      BY <1>1, <1>12, <2>2 DEF TestList, Goto, ControlTypeOK, DrainHasList
    <3>3. PlanAdvances
      BY <1>1, <1>12, <2>2 DEF TestList, Goto, ControlTypeOK, PlanAdvances, Early
    <3>4. QED
      BY <3>1, <3>2, <3>3
  <2>3. QED
    BY <2>1, <2>2
<1>13. CASE PopGenerator(r)
  <2>1. CASE lists[draining[r]] = <<>>
    BY <1>1, <1>13, <2>1, EndDrainControl DEF PopGenerator
  <2>2. CASE lists[draining[r]] # <<>>
    <3>1. Last(lists[draining[r]]) \in Gens
      BY <1>1, <1>13, <2>2, PopFacts DEF PopGenerator, DrainHasList, IInv, HeapOK, HeapTypeOK
    <3>2. ControlTypeOK'
      BY <1>1, <1>13, <2>2, <3>1 DEF PopGenerator, Goto, ControlTypeOK, Steps
    <3>3. DrainHasList'
      BY <1>1, <1>13, <2>2 DEF PopGenerator, Goto, ControlTypeOK, DrainHasList
    <3>4. PlanAdvances
      BY <1>1, <1>13, <2>2 DEF PopGenerator, Goto, ControlTypeOK, PlanAdvances, Early
    <3>5. QED
      BY <3>2, <3>3, <3>4
  <2>3. QED
    BY <2>1, <2>2
<1>14. CASE TeardownEnds(r)
  <2>1. CASE EndDrain(r)
    BY <1>1, <1>14, <2>1, EndDrainControl DEF TeardownEnds
  <2>2. CASE /\ Goto(r, "test")
             /\ popped' = [popped EXCEPT ![r] = None]
             /\ UNCHANGED <<lists, genState, draining>>
    BY <1>1, <1>14, <2>2 DEF TeardownEnds,
         Goto, ControlTypeOK, DrainHasList, PlanAdvances, Early, Steps, Outcomes, bgVars, drainVars
  <2>3. QED
    BY <1>14, <2>1, <2>2 DEF TeardownEnds
<1>15. CASE Render(r)
  BY <1>1, <1>15 DEF Render, Finish,
         Goto, ControlTypeOK, DrainHasList, PlanAdvances, Early, Steps, Outcomes, bgVars, drainVars
<1>16. CASE LeaveNative(r)
  BY <1>1, <1>16 DEF LeaveNative, FreeThread,
         Goto, ControlTypeOK, DrainHasList, PlanAdvances, Early, Steps, Outcomes, bgVars, drainVars
<1>17. CASE LeaveTry(r)
  <2> DEFINE new == [received[r] EXCEPT !.tasks = tasksSlot, !.raw = rawSlot]
  <2>a. new \in Slots
    <3>1. received[r] \in Slots /\ tasksSlot \in Requests \cup {None}
           /\ rawSlot \in Requests \cup {None}
      BY <1>1 DEF ControlTypeOK, Slots
    <3> QED
      BY <3>1, SlotsUpdate
  <2>b. received' = received \/ received' = [received EXCEPT ![r] = new]
    BY <1>17 DEF LeaveTry
  <2> HIDE DEF new
  <2>c. received' \in [Requests -> Slots]
    BY <1>1, <2>a, <2>b DEF ControlTypeOK, Slots
  <2>1. ControlTypeOK'
    BY <1>1, <1>17, <2>c DEF LeaveTry, Goto, ControlTypeOK, Slots, Steps, bgVars, drainVars
  <2>2. DrainHasList'
    BY <1>1, <1>17 DEF LeaveTry, Goto, ControlTypeOK, DrainHasList, bgVars, drainVars
  <2>3. PlanAdvances
    BY <1>1, <1>17 DEF LeaveTry, Goto, ControlTypeOK, PlanAdvances, Early, bgVars, drainVars
  <2>4. QED
    BY <2>1, <2>2, <2>3
<1>18. CASE Finally(r)
  <2>1. ControlTypeOK'
    BY <1>1, <1>18 DEF Finally, Goto, ControlTypeOK, Steps, bgVars, drainVars
  <2>2. DrainHasList'
    BY <1>1, <1>18 DEF Finally, Goto, ControlTypeOK, DrainHasList, bgVars, drainVars
  <2>3. PlanAdvances
    BY <1>1, <1>18 DEF Finally, Goto, ControlTypeOK, PlanAdvances, Early, bgVars, drainVars
  <2>4. QED
    BY <2>1, <2>2, <2>3
<1>19. CASE Clear(r)
  <2>1. ControlTypeOK'
    BY <1>1, <1>19, ListsFacts DEF Clear, Reset, FreeThread, Goto, ControlTypeOK, Steps, bgVars, drainVars
  <2>2. DrainHasList'
    BY <1>1, <1>19, ListsFacts DEF Clear, Reset, FreeThread, Goto, ControlTypeOK, DrainHasList, bgVars, drainVars
  <2>3. PlanAdvances
    BY <1>1, <1>19, ListsFacts DEF Clear, Reset, FreeThread, Goto, ControlTypeOK, PlanAdvances, Early, bgVars, drainVars
  <2>4. QED
    BY <2>1, <2>2, <2>3
<1>20. QED
  BY <1>2, <1>2a, <1>3, <1>4, <1>5, <1>6, <1>7, <1>8, <1>9, <1>10, <1>11, <1>12, <1>13, <1>14,
     <1>15, <1>16, <1>17, <1>18, <1>19
     DEF Step, Growing

-----------------------------------------------------------------------------
(* The invariant is inductive *)

LEMMA ShrinkingStep ==
    ASSUME IInv, Shrinks, PlanAdvances, ControlTypeOK', DrainHasList'
    PROVE  IInv'
<1>1. TypeOK' /\ HeapOK'
  BY TypeSplit DEF Shrinks, HeapOK, HeapTypeOK, TypeOK, ControlTypeOK
<1>2. PendingIsOwned'
  <2> SUFFICES ASSUME NEW r \in Requests, pc'[r] = "append"
               PROVE  /\ pos'[r] <= Len(Plan[r])
                      /\ genState'[<<r, pos'[r]>>] = "open"
                      /\ \A l \in Lists : \A i \in 1..Len(lists'[l]) :
                            lists'[l][i] # <<r, pos'[r]>>
    BY DEF PendingIsOwned, InList
  <2>1. /\ pc[r] = "append"
        /\ pos'[r] = pos[r]
        /\ pos[r] <= Len(Plan[r])
        /\ genState[<<r, pos[r]>>] = "open"
        /\ ~InList(<<r, pos[r]>>)
    BY DEF IInv, PlanAdvances, PendingIsOwned
  <2>2. <<r, pos[r]>> \in Gens
    BY <2>1, PlanBound, ConstantsAssumption DEF IInv, TypeOK, Gens
  <2>3. ~InList(<<r, pos[r]>>)'
    BY <2>1, <2>2 DEF Shrinks
  <2>4. QED
    BY <2>1, <2>2, <2>3 DEF Shrinks, InList
<1>3. FutureIsUnborn'
  <2> SUFFICES ASSUME NEW r \in Requests, NEW k \in 1..MaxDeps,
                      \/ pc'[r] \in Early /\ k >= pos'[r]
                      \/ pc'[r] = "append" /\ k > pos'[r]
               PROVE  genState'[<<r, k>>] = "unborn"
    BY DEF FutureIsUnborn
  <2>1. pos[r] \in Nat /\ pos'[r] \in Nat
    <3>1. pos[r] \in 1..(MaxDeps + 1) /\ pos'[r] \in 1..(MaxDeps + 1)
      BY DEF IInv, TypeOK, ControlTypeOK
    <3>2. QED
      BY <3>1, ConstantsAssumption
  <2>2. genState[<<r, k>>] = "unborn"
    BY <2>1, ConstantsAssumption DEF IInv, PlanAdvances, FutureIsUnborn
  <2>3. QED
    BY <2>2 DEF Shrinks, Gens
<1>4. QED
  BY <1>1, <1>2, <1>3 DEF IInv

LEMMA OpenStep ==
    ASSUME IInv, NEW r \in Requests, OpenGenerator(r)
    PROVE  IInv'
<1> DEFINE g0 == <<r, pos[r]>>
<1>1. /\ pc[r] = "deps" /\ pos[r] <= Len(Plan[r])
      /\ pc' = [pc EXCEPT ![r] = "append"]
      /\ genState' = [genState EXCEPT ![g0] = "open"]
      /\ lists' = lists /\ pos' = pos /\ draining' = draining
  BY DEF OpenGenerator, NextIs, Goto, bgVars, drainVars
<1>2. pos[r] \in 1..MaxDeps /\ g0 \in Gens
  BY <1>1, PlanBound, ConstantsAssumption DEF IInv, TypeOK, Gens
<1>3. genState[g0] = "unborn"
  BY <1>1, <1>2 DEF IInv, FutureIsUnborn, Early
<1>4. ~InList(g0)
  BY <1>3 DEF IInv, HeapOK, ListsHoldOpen, InList
<1>5. TypeOK'
  BY <1>1, <1>2 DEF IInv, TypeOK, OpenGenerator, Steps, GenStates, bgVars, drainVars
<1>6. HeapOK'
  BY <1>1, <1>2, <1>4, <1>5
     DEF IInv, HeapOK, HeapTypeOK, TypeOK, ListsHoldOpen, ListsDisjoint, TornDownOnce, InList
<1>7. PendingIsOwned'
  <2> SUFFICES ASSUME NEW q \in Requests, pc'[q] = "append"
               PROVE  /\ pos'[q] <= Len(Plan[q])
                      /\ genState'[<<q, pos'[q]>>] = "open"
                      /\ \A l \in Lists : \A i \in 1..Len(lists'[l]) :
                            lists'[l][i] # <<q, pos'[q]>>
    BY DEF PendingIsOwned, InList
  <2>1. CASE q = r
    <3>1. genState'[g0] = "open"
      BY <1>1, <1>2 DEF IInv, TypeOK
    <3>2. QED
      BY <1>1, <1>4, <2>1, <3>1 DEF InList
  <2>2. CASE q # r
    <3>1. /\ pc[q] = "append"
          /\ pos[q] <= Len(Plan[q])
          /\ genState[<<q, pos[q]>>] = "open"
          /\ ~InList(<<q, pos[q]>>)
      BY <1>1, <2>2 DEF IInv, TypeOK, PendingIsOwned
    <3>2. genState'[<<q, pos[q]>>] = "open"
      BY <1>1, <1>2, <2>2, <3>1, PlanBound, ConstantsAssumption DEF IInv, TypeOK, Gens
    <3>3. QED
      BY <1>1, <3>1, <3>2 DEF InList
  <2>3. QED
    BY <2>1, <2>2
<1>8. FutureIsUnborn'
  BY <1>1, <1>2, ConstantsAssumption DEF IInv, TypeOK, FutureIsUnborn, Early, Gens
<1>9. DrainHasList'
  BY <1>1 DEF IInv, TypeOK, DrainHasList
<1>10. QED
  BY <1>5, <1>6, <1>7, <1>8, <1>9 DEF IInv

LEMMA AppendStep ==
    ASSUME IInv, NEW r \in Requests, AppendGenerator(r)
    PROVE  IInv'
<1> DEFINE g0 == <<r, pos[r]>>
           n == Len(lists[current]) + 1
<1>1. /\ pc[r] = "append"
      /\ pc' = [pc EXCEPT ![r] = "deps"]
      /\ lists' = [lists EXCEPT ![current] = Append(@, g0)]
      /\ pos' = [pos EXCEPT ![r] = @ + 1]
      /\ genState' = genState /\ draining' = draining /\ current' = current
  BY DEF AppendGenerator, NextPosition, Goto, drainVars
<1>2. /\ pos[r] <= Len(Plan[r])
      /\ genState[g0] = "open"
      /\ ~InList(g0)
  BY <1>1 DEF IInv, PendingIsOwned
<1>3. /\ pos[r] \in 1..MaxDeps
      /\ g0 \in Gens
      /\ pos' \in [Requests -> 1..(MaxDeps + 1)]
  <2>1. pos \in [Requests -> 1..(MaxDeps + 1)] /\ Len(Plan[r]) <= MaxDeps /\ MaxDeps \in Nat
    BY PlanBound, ConstantsAssumption DEF IInv, TypeOK
  <2>2. Len(Plan[r]) \in Nat
    BY PlanBound, ConstantsAssumption
  <2>3. pos[r] \in 1..MaxDeps /\ pos[r] + 1 \in 1..(MaxDeps + 1)
    BY <1>2, <2>1, <2>2
  <2>4. g0 \in Gens
    BY <2>3 DEF Gens
  <2> QED
    BY <1>1, <2>1, <2>3, <2>4
<1>4. current \in Lists /\ lists[current] \in Seq(Gens)
  BY DEF IInv, TypeOK
<1>5. /\ lists'[current] \in Seq(Gens)
      /\ Len(lists'[current]) = n
      /\ lists'[current][n] = g0
      /\ \A i \in 1..Len(lists[current]) : lists'[current][i] = lists[current][i]
      /\ \A m \in Lists \ {current} : lists'[m] = lists[m]
      /\ Len(lists[current]) \in Nat
  BY <1>1, <1>3, <1>4, PushFacts DEF IInv, TypeOK
<1>6. \A m \in Lists : \A i \in 1..Len(lists'[m]) :
         \/ m = current /\ i = n /\ lists'[m][i] = g0
         \/ i \in 1..Len(lists[m]) /\ lists'[m][i] = lists[m][i] /\ lists[m][i] # g0
  BY <1>2, <1>5 DEF InList
<1>7. TypeOK'
  BY <1>1, <1>3, <1>5 DEF IInv, TypeOK, AppendGenerator, Steps, drainVars
<1>8. HeapOK'
  <2>1. ListsHoldOpen'
    BY <1>1, <1>2, <1>6 DEF IInv, HeapOK, ListsHoldOpen
  <2>2. ListsDisjoint'
    <3> SUFFICES ASSUME NEW l \in Lists, NEW m \in Lists,
                        NEW i \in 1..Len(lists'[l]), NEW j \in 1..Len(lists'[m]),
                        lists'[l][i] = lists'[m][j]
                 PROVE  l = m /\ i = j
      BY DEF ListsDisjoint
    <3> HIDE DEF n, g0
    <3>1. \/ l = current /\ i = n /\ m = current /\ j = n
          \/ /\ i \in 1..Len(lists[l]) /\ j \in 1..Len(lists[m])
             /\ lists[l][i] = lists[m][j]
      BY <1>6
    <3>2. QED
      BY <3>1 DEF IInv, HeapOK, ListsDisjoint
  <2>3. QED
    BY <1>1, <1>7, <2>1, <2>2 DEF IInv, HeapOK, HeapTypeOK, TypeOK, TornDownOnce
<1>9. PendingIsOwned'
  <2> SUFFICES ASSUME NEW q \in Requests, pc'[q] = "append"
               PROVE  /\ pos'[q] <= Len(Plan[q])
                      /\ genState'[<<q, pos'[q]>>] = "open"
                      /\ \A l \in Lists : \A i \in 1..Len(lists'[l]) :
                            lists'[l][i] # <<q, pos'[q]>>
    BY DEF PendingIsOwned, InList
  <2>1. q # r /\ pc[q] = "append" /\ pos'[q] = pos[q]
    BY <1>1 DEF IInv, TypeOK
  <2>2. /\ pos[q] <= Len(Plan[q])
        /\ genState[<<q, pos[q]>>] = "open"
        /\ ~InList(<<q, pos[q]>>)
    BY <2>1 DEF IInv, PendingIsOwned
  <2>3. \A m \in Lists : \A i \in 1..Len(lists'[m]) : lists'[m][i] # <<q, pos[q]>>
    BY <1>6, <2>1, <2>2 DEF InList
  <2>4. QED
    BY <1>1, <2>1, <2>2, <2>3 DEF InList
<1>10. FutureIsUnborn'
  <2> SUFFICES ASSUME NEW q \in Requests, NEW k \in 1..MaxDeps,
                      \/ pc'[q] \in Early /\ k >= pos'[q]
                      \/ pc'[q] = "append" /\ k > pos'[q]
               PROVE  genState'[<<q, k>>] = "unborn"
    BY DEF FutureIsUnborn
  <2>1. CASE q = r
    BY <1>1, <1>3, <2>1, ConstantsAssumption DEF IInv, TypeOK, FutureIsUnborn
  <2>2. CASE q # r
    BY <1>1, <2>2 DEF IInv, TypeOK, FutureIsUnborn
  <2>3. QED
    BY <2>1, <2>2
<1>11. DrainHasList'
  BY <1>1 DEF IInv, TypeOK, DrainHasList
<1>12. QED
  BY <1>7, <1>8, <1>9, <1>10, <1>11 DEF IInv

LEMMA Inductive == IInv /\ [Next]_vars => IInv'
<1> SUFFICES ASSUME IInv, [Next]_vars PROVE IInv'
  OBVIOUS
<1>1. ASSUME NEW t \in Threads, NEW r \in Requests, Arrive(t, r) PROVE IInv'
  BY <1>1, ArriveShrinks, ArriveControl, ShrinkingStep
<1>2. ASSUME NEW r \in Requests, Step(r) PROVE IInv'
  <2>1. CASE ~Growing(r)
    BY <1>2, <2>1, StepShrinks, StepControl, ShrinkingStep
  <2>2. CASE Growing(r)
    BY <2>2, OpenStep, AppendStep DEF Growing
  <2>3. QED
    BY <2>1, <2>2
<1>3. CASE UNCHANGED vars
  <2>1. Shrinks
    BY <1>3, UnchangedShrinks DEF vars, IInv
  <2>2. ControlTypeOK' /\ DrainHasList'
    BY <1>3, TypeSplit DEF vars, IInv, ControlTypeOK, DrainHasList
  <2>3. PlanAdvances
    BY <1>3 DEF vars, PlanAdvances, Early, IInv, TypeOK
  <2>4. QED
    BY <2>1, <2>2, <2>3, ShrinkingStep
<1>4. QED
  BY <1>1, <1>2, <1>3 DEF Next, Quiet

LEMMA Invariance == Spec => []IInv
  BY InitIInv, Inductive, PTL DEF Spec

\* The dispatcher's state and the globals of _bg keep their shape.
THEOREM TypeCorrect == Spec => []TypeOK
<1>1. IInv => TypeOK
  BY DEF IInv
<1>2. QED
  BY Invariance, <1>1, PTL

\* No generator dependency is advanced past its yield twice, however many
\* threads append to, drain and replace _bg._current_yield_gens.
THEOREM TeardownAtMostOnce == Spec => []TornDownOnce
<1>1. IInv => TornDownOnce
  BY DEF IInv, HeapOK
<1>2. QED
  BY Invariance, <1>1, PTL
=============================================================================
