------------------------ MODULE DispatchAsgi_proofs ------------------------
(***************************************************************************)
(* Proofs about Dispatch behind _dispatch_async: the event-loop thread     *)
(* serves one request after the other, so that the globals of _bg belong   *)
(* to the request being served.  What the comments of _routing.py and      *)
(* applications.py promise of yield dependencies then holds, for any       *)
(* requests, plans and classes of routes.                                  *)
(***************************************************************************)
EXTENDS Dispatch_proofs

Active(r) == pc[r] \notin {"waiting", "done"}

ListOf(r) == <<r, "start">>

\* One request is in the dispatcher at a time, and has the thread.
OneActive ==
    \A r \in Requests : Active(r) =>
        /\ \E t \in Threads : busy[t] = r
        /\ \A q \in Requests : Active(q) => q = r

\* The global names the list of the request being served, never that of one to come.
CurrentIsOwn ==
    \A r \in Requests :
        /\ Active(r) => current = ListOf(r)
        /\ pc[r] = "waiting" => current[1] # r

\* The lists hold the generators of the request being served, in the order they were opened.
ListsAreOwn ==
    \A l \in Lists : \A i \in 1..Len(lists[l]) :
        /\ Active(lists[l][i][1])
        /\ l = ListOf(lists[l][i][1])
        /\ \A j \in 1..Len(lists[l]) : i < j => lists[l][i][2] < lists[l][j][2]

\* A generator that is open will be found by the drain, or is about to be appended.
OpenIsListed ==
    \A g \in Gens : genState[g] = "open" =>
        \/ pc[g[1]] = "append" /\ g[2] = pos[g[1]]
        \/ InList(g)

DrainsAreOwn ==
    \A r \in Requests : draining[r] # None =>
        pc[r] \in {"test", "pop", "teardown"} /\ draining[r] = ListOf(r)

\* Nothing is closed before the handler has ended.
OpenUntilDrained ==
    \A g \in Gens :
        /\ pc[g[1]] = "waiting" => genState[g] = "unborn" /\ pos[g[1]] = 1
        /\ BeforeHandlerEnds(g[1]) => genState[g] \in {"unborn", "open"}

HeapIsOwn == /\ OneActive /\ CurrentIsOwn /\ ListsAreOwn /\ OpenIsListed
             /\ DrainsAreOwn /\ OpenUntilDrained /\ LastOpenedFirstClosed

Failed(r) == outcome[r] = "raised" /\ Class[r] # "trivial"

Draining == {"drain", "test", "pop", "teardown"}

AfterDrains == {"render", "leave", "finally", "clear", "done"}

\* The drain after the handler comes before any drain of leftovers, and throws the
\* handler's exception into everything that is open.
FailureAt(r) ==
    /\ leftover[r] => pc[r] \in Draining \cup {"clear", "done"}
    /\ Failed(r) =>
          /\ ~leftover[r]
          /\ pc[r] \in Draining => \A g \in GensOf(r) : genState[g] \in {"open", "thrown"}
          /\ pc[r] \in AfterDrains => \A g \in GensOf(r) : genState[g] = "thrown"

FailureInv == ExceptionIsOwn /\ \A r \in Requests : FailureAt(r)

TasksAsked(r) == \E k \in 1..Len(Plan[r]) : k < pos[r] /\ Plan[r][k] = "tasks"

\* The slots are those of the request being served, and what it reads from them is its own.
SlotsAt(r) ==
    /\ received[r].request \in {None, r}
    /\ pc[r] = "append" => Plan[r][pos[r]] # "tasks"
    /\ pc[r] = "handler" => pos[r] > Len(Plan[r])
    /\ Active(r) /\ pc[r] # "clear" => requestSlot = r
    /\ Active(r) => tasksSlot = IF TasksAsked(r) THEN r ELSE None
    /\ BeforeHandlerEnds(r) \/ (pc[r] \in Draining \cup {"render"} /\ ~leftover[r]) =>
          rawSlot = None
    /\ pc[r] = "leave" => rawSlot = IF outcome[r] = "streamed" THEN r ELSE None
    /\ outcome[r] \in {"returned", "streamed"} /\ Class[r] # "trivial"
         /\ pc[r] # "waiting" /\ ~BeforeHandlerEnds(r) => pos[r] > Len(Plan[r])
    /\ (pc[r] \in {"finally", "clear", "done"} \/ leftover[r]) /\ ~DispatchRaised(r) =>
          /\ received[r].raw = IF outcome[r] = "streamed" THEN r ELSE None
          /\ received[r].tasks = IF TasksAsked(r) THEN r ELSE None

SlotsInv == \A r \in Requests : SlotsAt(r)

-----------------------------------------------------------------------------
(* The lists of the request being served *)

LEMMA HeapIsOwnInit == Init => HeapIsOwn
<1> SUFFICES ASSUME Init PROVE HeapIsOwn
  OBVIOUS
<1>1. \A r \in Requests : ~Active(r) /\ pc[r] = "waiting" /\ pos[r] = 1
  BY DEF Init, Active
<1>2. OneActive /\ DrainsAreOwn
  BY <1>1 DEF Init, OneActive, DrainsAreOwn
<1>3. CurrentIsOwn
  BY <1>1, ConstantsAssumption DEF Init, CurrentIsOwn, ModuleList
<1>4. ListsAreOwn
  BY EmptySeq DEF Init, ListsAreOwn
<1>5. OpenIsListed /\ OpenUntilDrained /\ LastOpenedFirstClosed
  BY <1>1 DEF Init, OpenIsListed, OpenUntilDrained, LastOpenedFirstClosed, Closed, Born, Gens
<1> QED
  BY <1>2, <1>3, <1>4, <1>5 DEF HeapIsOwn

\* What the invariants say of the request being served.
LEMMA Serving ==
    ASSUME IInv, HeapIsOwn, NEW r \in Requests, Active(r)
    PROVE  /\ current = ListOf(r) /\ current \in Lists
           /\ \A q \in Requests : q # r => ~Active(q) /\ pc[q] # "append"
           /\ \A l \in Lists : l # current => Len(lists[l]) = 0 /\ lists[l] = <<>>
           /\ \A i \in 1..Len(lists[current]) :
                 /\ lists[current][i] \in Gens
                 /\ lists[current][i][1] = r
                 /\ genState[lists[current][i]] = "open"
<1>1. current = ListOf(r) /\ current \in Lists
  BY ListsFacts DEF HeapIsOwn, CurrentIsOwn, ListOf
<1>2. \A q \in Requests : q # r => ~Active(q) /\ pc[q] # "append"
  BY DEF HeapIsOwn, OneActive, Active
<1>3. \A l \in Lists : lists[l] \in Seq(Gens)
  BY DEF IInv, TypeOK
<1>4. \A l \in Lists : \A i \in 1..Len(lists[l]) :
         lists[l][i] \in Gens /\ lists[l][i][1] \in Requests
  BY <1>3 DEF Gens
<1>5. \A l \in Lists : \A i \in 1..Len(lists[l]) : lists[l][i][1] = r /\ l = current
  BY <1>1, <1>2, <1>4 DEF HeapIsOwn, ListsAreOwn
<1>6. ASSUME NEW l \in Lists, l # current PROVE Len(lists[l]) = 0 /\ lists[l] = <<>>
  <2>1. Len(lists[l]) \in Nat /\ ~ (1 \in 1..Len(lists[l]))
    BY <1>3, <1>5, <1>6
  <2> QED
    BY <1>3, <2>1
<1> QED
  BY <1>1, <1>2, <1>4, <1>5, <1>6 DEF IInv, HeapOK, ListsHoldOpen

\* A step of r that goes to p and touches neither a list nor a generator.
Still(r, p) ==
    /\ Active(r) /\ pc[r] # "append"
    /\ p \in Steps \ {"waiting", "done", "append"}
    /\ pc' = [pc EXCEPT ![r] = p]
    /\ UNCHANGED <<current, lists, genState, busy>>
    /\ \A q \in Requests : q # r => pos'[q] = pos[q] /\ draining'[q] = draining[q]
    /\ draining'[r] # None => p \in {"test", "pop", "teardown"} /\ draining'[r] = ListOf(r)
    /\ BeforeHandlerEnds(r)' => BeforeHandlerEnds(r)

LEMMA QuietStep ==
    ASSUME IInv, HeapIsOwn, NEW r \in Requests, NEW p, Still(r, p)
    PROVE  HeapIsOwn'
<1> USE DEF HeapIsOwn
<1>1. /\ pc'[r] = p
      /\ \A q \in Requests : q # r => pc'[q] = pc[q]
      /\ \A q \in Requests : Active(q)' <=> Active(q)
  BY DEF Still, Active, IInv, TypeOK
<1>2. OneActive'
  BY <1>1 DEF OneActive, Still
<1>3. CurrentIsOwn'
  BY <1>1 DEF CurrentIsOwn, Still, Active
<1>4. ListsAreOwn'
  <2>1. \A l \in Lists : \A i \in 1..Len(lists[l]) : lists[l][i][1] \in Requests
    BY DEF IInv, TypeOK, Gens
  <2> QED
    BY <1>1, <2>1 DEF ListsAreOwn, Still
<1>5. OpenIsListed'
  BY <1>1 DEF OpenIsListed, Still, InList, Gens
<1>6. DrainsAreOwn'
  BY <1>1 DEF DrainsAreOwn, Still
<1>7. OpenUntilDrained'
  <2> SUFFICES ASSUME NEW g \in Gens
               PROVE  /\ pc'[g[1]] = "waiting" => genState'[g] = "unborn" /\ pos'[g[1]] = 1
                      /\ BeforeHandlerEnds(g[1])' => genState'[g] \in {"unborn", "open"}
    BY DEF OpenUntilDrained
  <2>1. g[1] \in Requests
    BY DEF Gens
  <2>2. BeforeHandlerEnds(g[1])' => BeforeHandlerEnds(g[1])
    BY <1>1, <2>1 DEF Still, BeforeHandlerEnds
  <2> QED
    BY <1>1, <2>1, <2>2 DEF OpenUntilDrained, Still
<1>8. LastOpenedFirstClosed'
  BY DEF LastOpenedFirstClosed, Closed, Born, Still
<1> QED
  BY <1>2, <1>3, <1>4, <1>5, <1>6, <1>7, <1>8

\* Under ASGI the list a drain gives back is the one the global names.
LEMMA EndDrainStill ==
    ASSUME IInv, HeapIsOwn, NEW r \in Requests, pc[r] \in {"test", "pop", "teardown"},
           EndDrain(r), UNCHANGED <<current, busy, pos>>
    PROVE  Still(r, AfterDrain(r))
<1>1. Active(r)
  BY DEF Active
<1>2. draining[r] = current
  BY <1>1, Serving, NoneAssumption DEF IInv, DrainHasList, HeapIsOwn, DrainsAreOwn
<1>3. UNCHANGED <<lists, genState>>
  BY <1>2 DEF EndDrain
<1>4. /\ draining'[r] = None
      /\ \A q \in Requests : q # r => draining'[q] = draining[q]
  BY DEF EndDrain, IInv, TypeOK
<1>5. AfterDrain(r) \in {"clear", "render"} /\ pc' = [pc EXCEPT ![r] = AfterDrain(r)]
  BY DEF AfterDrain, EndDrain, Goto
<1>6. ~BeforeHandlerEnds(r)'
  BY <1>5 DEF BeforeHandlerEnds, IInv, TypeOK
<1> QED
  BY <1>1, <1>3, <1>4, <1>5, <1>6 DEF Still, Steps

\* A request begins when the lists are empty.
LEMMA ArriveOwn ==
    ASSUME Entry = "asgi", IInv, HeapIsOwn, NEW t \in Threads, NEW r \in Requests, Arrive(t, r)
    PROVE  /\ HeapIsOwn' /\ UNCHANGED genState
           /\ \A q \in Requests : ~Active(q)
<1> USE DEF HeapIsOwn
<1>1. /\ busy[t] = None /\ busy' = [busy EXCEPT ![t] = r]
      /\ pc[r] = "waiting" /\ pc' = [pc EXCEPT ![r] = "match"]
      /\ current' = ListOf(r) /\ Drop(current, draining)
      /\ UNCHANGED <<pos, draining>>
  BY DEF Arrive, SkipsReset, Reset, Goto, ListOf, drainVars
<1>2. \A q \in Requests : ~Active(q)
  BY <1>1, EventLoopAssumption, ConstantsAssumption DEF OneActive
<1>3. \A l \in Lists : lists[l] \in Seq(Gens)
  BY DEF IInv, TypeOK
<1>4. \A l \in Lists : lists[l] = <<>> /\ Len(lists[l]) = 0
  <2> SUFFICES ASSUME NEW l \in Lists PROVE lists[l] = <<>> /\ Len(lists[l]) = 0
    OBVIOUS
  <2>1. ~ (1 \in 1..Len(lists[l]))
    BY <1>2, <1>3 DEF ListsAreOwn, Gens
  <2> QED
    BY <1>3, <2>1
<1>5. current \in Lists /\ lists[current] = <<>> /\ lists \in [Lists -> Seq(Gens)]
      /\ genState \in [Gens -> GenStates]
  BY <1>4 DEF IInv, TypeOK
<1>6. UNCHANGED <<lists, genState>>
  <2>1. \A g : g \notin ToSet(lists[current])
    BY <1>4, <1>5 DEF ToSet
  <2> QED
    BY <1>1, <1>5, <2>1 DEF Drop
<1>7. /\ pc'[r] = "match" /\ Active(r)'
      /\ \A q \in Requests : q # r => pc'[q] = pc[q] /\ ~Active(q)'
  BY <1>1, <1>2 DEF Active, IInv, TypeOK
<1>8. OneActive'
  BY <1>1, <1>7 DEF OneActive, IInv, TypeOK
<1>9. CurrentIsOwn'
  BY <1>1, <1>7 DEF CurrentIsOwn, ListOf
<1>10. ListsAreOwn'
  BY <1>4, <1>6 DEF ListsAreOwn
<1>11. \A g \in Gens : genState[g] # "open"
  BY <1>2, <1>4 DEF OpenIsListed, InList, Active, Gens
<1>12. OpenIsListed' /\ DrainsAreOwn'
  BY <1>1, <1>2, <1>6, <1>11 DEF OpenIsListed, DrainsAreOwn, Active
<1>13. OpenUntilDrained'
  BY <1>1, <1>6, <1>7 DEF OpenUntilDrained, BeforeHandlerEnds, Gens, Active
<1>14. LastOpenedFirstClosed'
  BY <1>6 DEF LastOpenedFirstClosed, Closed, Born
<1> QED
  BY <1>2, <1>6, <1>8, <1>9, <1>10, <1>12, <1>13, <1>14

LEMMA OpenOwn ==
    ASSUME IInv, HeapIsOwn, NEW r \in Requests, OpenGenerator(r)
    PROVE  HeapIsOwn'
<1> USE DEF HeapIsOwn
<1> DEFINE g0 == <<r, pos[r]>>
<1>1. /\ pc[r] = "deps" /\ pos[r] <= Len(Plan[r])
      /\ pc' = [pc EXCEPT ![r] = "append"]
      /\ genState' = [genState EXCEPT ![g0] = "open"]
      /\ UNCHANGED <<lists, pos, draining, current, busy>>
  BY DEF OpenGenerator, NextIs, Goto, bgVars, drainVars
<1>2. pos[r] \in 1..MaxDeps /\ g0 \in Gens
  BY <1>1, PlanBound, ConstantsAssumption DEF IInv, TypeOK, Gens
<1>3. genState[g0] = "unborn"
  BY <1>1, <1>2 DEF IInv, FutureIsUnborn, Early
<1>4. /\ pc'[r] = "append"
      /\ \A q \in Requests : q # r => pc'[q] = pc[q]
      /\ \A q \in Requests : Active(q)' <=> Active(q)
      /\ \A q \in Requests : BeforeHandlerEnds(q)' <=> BeforeHandlerEnds(q)
      /\ g0[1] = r /\ g0[2] = pos[r]
  BY <1>1 DEF Active, BeforeHandlerEnds, IInv, TypeOK
<1>5. genState'[g0] = "open" /\ \A g \in Gens : g # g0 => genState'[g] = genState[g]
  BY <1>1, <1>2 DEF IInv, TypeOK
<1> HIDE DEF g0
<1>6. OneActive' /\ CurrentIsOwn'
  BY <1>1, <1>4 DEF OneActive, CurrentIsOwn
<1>7. ListsAreOwn'
  <2>1. \A l \in Lists : \A i \in 1..Len(lists[l]) : lists[l][i][1] \in Requests
    BY DEF IInv, TypeOK, Gens
  <2> QED
    BY <1>1, <1>4, <2>1 DEF ListsAreOwn
<1>8. OpenIsListed'
  BY <1>1, <1>4, <1>5 DEF OpenIsListed, InList, Gens
<1>9. DrainsAreOwn'
  BY <1>1, <1>4 DEF DrainsAreOwn
<1>10. OpenUntilDrained'
  BY <1>1, <1>2, <1>4, <1>5 DEF OpenUntilDrained, Gens
<1>11. LastOpenedFirstClosed'
  <2> SUFFICES ASSUME NEW g \in Gens, NEW h \in Gens, g[1] = h[1], g[2] < h[2],
                      Closed(g)', Born(h)'
               PROVE  Closed(h)'
    BY DEF LastOpenedFirstClosed
  <2>1. g # g0 /\ Closed(g)
    BY <1>5 DEF Closed, Born
  <2>2. g[1] # r
    BY <1>1, <2>1 DEF OpenUntilDrained, BeforeHandlerEnds, Closed, Born
  <2>3. h # g0
    BY <1>4, <2>2
  <2> QED
    BY <1>5, <2>1, <2>3 DEF LastOpenedFirstClosed, Closed, Born
<1> QED
  BY <1>6, <1>7, <1>8, <1>9, <1>10, <1>11

LEMMA AppendOwn ==
    ASSUME IInv, HeapIsOwn, NEW r \in Requests, AppendGenerator(r)
    PROVE  HeapIsOwn'
<1> USE DEF HeapIsOwn
<1> DEFINE g0 == <<r, pos[r]>>
           n == Len(lists[current]) + 1
<1>1. /\ pc[r] = "append"
      /\ pc' = [pc EXCEPT ![r] = "deps"]
      /\ lists' = [lists EXCEPT ![current] = Append(@, g0)]
      /\ pos' = [pos EXCEPT ![r] = @ + 1]
      /\ UNCHANGED <<genState, draining, current, busy>>
  BY DEF AppendGenerator, NextPosition, Goto, drainVars
<1>2. /\ pos[r] <= Len(Plan[r]) /\ genState[g0] = "open" /\ ~InList(g0)
  BY <1>1 DEF IInv, PendingIsOwned
<1>3. pos[r] \in 1..MaxDeps /\ g0 \in Gens /\ pos[r] \in Nat
  BY <1>1, <1>2, PlanBound, ConstantsAssumption DEF IInv, TypeOK, Gens
<1>4. Active(r) /\ current \in Lists /\ lists[current] \in Seq(Gens)
  BY <1>1 DEF Active, IInv, TypeOK
<1>5. /\ Len(lists'[current]) = n
      /\ lists'[current][n] = g0
      /\ \A i \in 1..Len(lists[current]) : lists'[current][i] = lists[current][i]
      /\ \A m \in Lists \ {current} : lists'[m] = lists[m]
      /\ Len(lists[current]) \in Nat
  BY <1>1, <1>3, <1>4, PushFacts DEF IInv, TypeOK
<1>6. /\ pc'[r] = "deps"
      /\ \A q \in Requests : q # r => pc'[q] = pc[q] /\ pos'[q] = pos[q]
      /\ \A q \in Requests : Active(q)' <=> Active(q)
      /\ \A q \in Requests : BeforeHandlerEnds(q)' <=> BeforeHandlerEnds(q)
      /\ g0[1] = r /\ g0[2] = pos[r]
  BY <1>1 DEF Active, BeforeHandlerEnds, IInv, TypeOK
<1>7. \A i \in 1..Len(lists[current]) : lists[current][i][2] < pos[r]
  <2> SUFFICES ASSUME NEW i \in 1..Len(lists[current]) PROVE lists[current][i][2] < pos[r]
    OBVIOUS
  <2> DEFINE g == lists[current][i]
  <2>1. g \in Gens /\ g[1] = r /\ genState[g] = "open"
    BY <1>4, Serving
  <2>2. g = <<r, g[2]>> /\ g[2] \in 1..MaxDeps /\ g[2] \in Nat
    BY <2>1, ConstantsAssumption DEF Gens
  <2>3. g # g0
    BY <1>2, <1>4 DEF InList
  <2> HIDE DEF g
  <2>4. ~ (g[2] > pos[r])
    BY <1>1, <2>1, <2>2 DEF IInv, FutureIsUnborn
  <2>5. g[2] # pos[r]
    BY <2>2, <2>3
  <2>6. g[2] < pos[r]
    BY <1>3, <2>2, <2>4, <2>5
  <2> QED
    BY <2>6 DEF g
<1>8. current = ListOf(r)
  BY <1>4, Serving
<1> HIDE DEF g0, n
<1>9. OneActive' /\ CurrentIsOwn' /\ DrainsAreOwn'
  BY <1>1, <1>6 DEF OneActive, CurrentIsOwn, DrainsAreOwn
<1>10. ListsAreOwn'
  <2> SUFFICES ASSUME NEW l \in Lists, NEW i \in 1..Len(lists'[l])
               PROVE  /\ pc'[lists'[l][i][1]] \notin {"waiting", "done"}
                      /\ l = ListOf(lists'[l][i][1])
                      /\ \A j \in 1..Len(lists'[l]) :
                            i < j => lists'[l][i][2] < lists'[l][j][2]
    BY DEF ListsAreOwn, Active
  <2>1. CASE l # current
    BY <1>4, <1>5, <2>1, Serving
  <2>2. CASE l = current /\ i = n
    BY <1>4, <1>5, <1>6, <1>8, <2>2 DEF n, Active
  <2>3. CASE l = current /\ i \in 1..Len(lists[current])
    <3>1. lists'[l][i] = lists[l][i] /\ lists[l][i][1] = r
      BY <1>4, <1>5, <2>3, Serving
    <3>2. ASSUME NEW j \in 1..Len(lists'[l]), i < j
          PROVE  lists'[l][i][2] < lists'[l][j][2]
      <4>1. CASE j \in 1..Len(lists[current])
        BY <1>4, <1>5, <2>3, <3>1, <3>2, <4>1 DEF ListsAreOwn
      <4>2. CASE j = n
        BY <1>5, <1>6, <1>7, <2>3, <3>1, <4>2
      <4> QED
        BY <1>5, <2>3, <3>2, <4>1, <4>2 DEF n
    <3> QED
      BY <1>4, <1>6, <1>8, <2>3, <3>1, <3>2 DEF Active
  <2> QED
    BY <1>5, <2>1, <2>2, <2>3 DEF n
<1>11. OpenIsListed'
  <2> SUFFICES ASSUME NEW g \in Gens, genState'[g] = "open" PROVE InList(g)'
    BY DEF OpenIsListed
  <2>1. CASE InList(g)
    BY <1>4, <1>5, <2>1 DEF InList, n
  <2>2. CASE g = g0
    BY <1>4, <1>5, <2>2 DEF InList, n
  <2>3. CASE ~InList(g)
    <3>1. pc[g[1]] = "append" /\ g[2] = pos[g[1]] /\ g[1] \in Requests
      BY <1>1, <2>3 DEF OpenIsListed, Gens
    <3>2. g[1] = r
      BY <1>4, <3>1, Serving
    <3>3. g = g0
      BY <3>1, <3>2 DEF Gens, g0
    <3> QED
      BY <2>2, <3>3
  <2> QED
    BY <2>1, <2>3
<1>12. OpenUntilDrained'
  BY <1>1, <1>6 DEF OpenUntilDrained, Gens
<1>13. LastOpenedFirstClosed'
  BY <1>1 DEF LastOpenedFirstClosed, Closed, Born
<1> QED
  BY <1>9, <1>10, <1>11, <1>12, <1>13

\* What a drain takes from the list.
Pops(r, g0) ==
    /\ pc[r] = "pop" /\ pc' = [pc EXCEPT ![r] = "teardown"]
    /\ lists[current] # <<>> /\ g0 = Last(lists[current])
    /\ lists' = [lists EXCEPT ![current] = Front(@)]
    /\ g0 \in Gens /\ g0[1] = r /\ genState[g0] = "open"
    /\ genState' = [genState EXCEPT ![g0] = IF Throws(r) THEN "thrown" ELSE "resumed"]
    /\ UNCHANGED <<current, draining, busy, pos, outcome, leftover, tasksSlot, requestSlot,
                   rawSlot, received>>

LEMMA PopCases ==
    ASSUME IInv, HeapIsOwn, NEW r \in Requests, PopGenerator(r)
    PROVE  \/ EndDrain(r)
           \/ Pops(r, Last(lists[current]))
<1>1. pc[r] = "pop" /\ Active(r)
  BY DEF PopGenerator, Active
<1>2. draining[r] = current /\ current \in Lists
  BY <1>1, Serving, NoneAssumption DEF IInv, DrainHasList, HeapIsOwn, DrainsAreOwn
<1>3. CASE lists[current] # <<>>
  <2> DEFINE s == lists[current]
             g0 == Last(s)
  <2>1. s \in Seq(Gens)
    BY <1>2 DEF IInv, TypeOK
  <2>2. Len(s) \in Nat \ {0} /\ g0 = s[Len(s)]
    BY <1>3, <2>1, PopFacts
  <2>3. g0 \in Gens /\ g0[1] = r /\ genState[g0] = "open"
    BY <1>1, <2>2, Serving
  <2>4. genState' = [genState EXCEPT ![g0] = IF Throws(r) THEN "thrown" ELSE "resumed"]
    BY <1>2, <1>3, <2>3 DEF PopGenerator, Advance, IInv, TypeOK
  <2>5. /\ lists' = [lists EXCEPT ![current] = Front(@)]
        /\ pc' = [pc EXCEPT ![r] = "teardown"]
        /\ UNCHANGED <<current, draining, busy, pos, outcome, leftover, tasksSlot, requestSlot,
                       rawSlot, received>>
    BY <1>2, <1>3 DEF PopGenerator, Goto
  <2> QED
    BY <1>1, <1>3, <2>3, <2>4, <2>5 DEF Pops
<1> QED
  BY <1>2, <1>3 DEF PopGenerator

LEMMA PopOwn ==
    ASSUME IInv, HeapIsOwn, NEW r \in Requests, NEW g0, Pops(r, g0)
    PROVE  HeapIsOwn'
<1> USE DEF HeapIsOwn
<1> DEFINE s == lists[current]
           how == IF Throws(r) THEN "thrown" ELSE "resumed"
<1>1. Active(r) /\ how \in {"thrown", "resumed"}
  BY DEF Pops, Active
<1>2. current = ListOf(r) /\ current \in Lists /\ s \in Seq(Gens)
  BY <1>1, Serving DEF IInv, TypeOK
<1>3. /\ Len(s) \in Nat \ {0} /\ g0 = s[Len(s)]
      /\ Len(Front(s)) = Len(s) - 1
      /\ \A i \in 1..Len(Front(s)) : Front(s)[i] = s[i]
  BY <1>2, PopFacts DEF Pops
<1>4. /\ lists'[current] = Front(s)
      /\ \A l \in Lists : l # current => lists'[l] = lists[l] /\ Len(lists[l]) = 0
  BY <1>1, <1>2, Serving DEF Pops, IInv, TypeOK
<1>5. \A l \in Lists : \A i \in 1..Len(lists'[l]) :
         l = current /\ i \in 1..Len(s) - 1 /\ i \in 1..Len(s) /\ lists'[l][i] = s[i]
  BY <1>3, <1>4
<1>6. genState'[g0] = how /\ \A g \in Gens : g # g0 => genState'[g] = genState[g]
  BY DEF Pops, IInv, TypeOK
<1>7. /\ pc'[r] = "teardown"
      /\ \A q \in Requests : q # r => pc'[q] = pc[q]
      /\ \A q \in Requests : Active(q)' <=> Active(q)
      /\ \A q \in Requests : BeforeHandlerEnds(q)' <=> BeforeHandlerEnds(q)
  BY DEF Pops, Active, BeforeHandlerEnds, IInv, TypeOK
<1> HIDE DEF s, how
<1>8. OneActive' /\ CurrentIsOwn' /\ DrainsAreOwn'
  BY <1>7 DEF OneActive, CurrentIsOwn, DrainsAreOwn, Pops
<1>9. ListsAreOwn'
  <2>1. \A i \in 1..Len(s) : s[i][1] \in Requests
    BY <1>2 DEF Gens
  <2>2. \A i \in 1..Len(s) :
           /\ Active(s[i][1]) /\ current = ListOf(s[i][1])
           /\ \A j \in 1..Len(s) : i < j => s[i][2] < s[j][2]
    BY <1>2 DEF ListsAreOwn, s
  <2> QED
    BY <1>5, <1>7, <2>1, <2>2 DEF ListsAreOwn
<1>10. ASSUME NEW g \in Gens, g # g0, genState[g] = "open", g[1] = r
       PROVE  \E i \in 1..Len(s) - 1 : g = s[i] /\ g = lists'[current][i]
                                        /\ i \in 1..Len(lists'[current]) /\ g[2] < g0[2]
  <2>1. InList(g)
    BY <1>10 DEF OpenIsListed, Pops
  <2>2. PICK i \in 1..Len(s) : g = s[i]
    BY <1>4, <2>1 DEF InList, s
  <2>3. i \in 1..Len(s) - 1
    BY <1>3, <1>10, <2>2
  <2>4. g[2] < g0[2]
    BY <1>2, <1>3, <2>2, <2>3 DEF ListsAreOwn, s
  <2> QED
    BY <1>3, <1>4, <2>2, <2>3, <2>4
<1>11. OpenIsListed'
  <2> SUFFICES ASSUME NEW g \in Gens, genState'[g] = "open" PROVE InList(g)'
    BY DEF OpenIsListed
  <2>1. g # g0 /\ genState[g] = "open"
    BY <1>1, <1>6
  <2>2. g[1] = r
    <3>1. pc[r] # "append"
      BY DEF Pops
    <3>2. g[1] \in Requests
      BY DEF Gens
    <3>3. CASE g[1] # r
      <4>1. pc[g[1]] # "append"
        BY <1>1, <3>2, <3>3, Serving
      <4>2. InList(g)
        BY <2>1, <4>1 DEF OpenIsListed
      <4>3. PICK i \in 1..Len(s) : g = s[i]
        BY <1>4, <4>2 DEF InList, s
      <4> QED
        BY <1>1, <4>3, Serving DEF s
    <3> QED
      BY <3>3
  <2> QED
    BY <1>2, <1>10, <2>1, <2>2 DEF InList
<1>12. OpenUntilDrained'
  BY <1>6, <1>7 DEF OpenUntilDrained, Gens, Pops, BeforeHandlerEnds
<1>13. LastOpenedFirstClosed'
  <2> SUFFICES ASSUME NEW g \in Gens, NEW h \in Gens, g[1] = h[1], g[2] < h[2],
                      Closed(g)', Born(h)'
               PROVE  Closed(h)'
    BY DEF LastOpenedFirstClosed
  <2>1. CASE h = g0
    BY <1>1, <1>6, <2>1 DEF Closed, Born
  <2>2. CASE h # g0 /\ g # g0
    BY <1>6, <2>2 DEF LastOpenedFirstClosed, Closed, Born
  <2>3. CASE h # g0 /\ g = g0
    <3>1. g0[2] \in Nat /\ h[2] \in Nat /\ h[1] = r
      BY <2>3, ConstantsAssumption DEF Gens, Pops
    <3>2. genState[h] # "open"
      BY <1>10, <2>3, <3>1
    <3> QED
      BY <1>6, <2>3, <3>2 DEF Closed, Born
  <2> QED
    BY <2>1, <2>2, <2>3
<1> QED
  BY <1>8, <1>9, <1>11, <1>12, <1>13

\* _dispatch_async's finally drops the list, and what is left in it is closed.
LEMMA ClearOwn ==
    ASSUME IInv, HeapIsOwn, NEW r \in Requests, Clear(r)
    PROVE  /\ HeapIsOwn'
           /\ \A g \in Gens : genState'[g] = IF genState[g] = "open" THEN "collected"
                                             ELSE genState[g]
<1> USE DEF HeapIsOwn
<1>1. /\ pc[r] = "clear" /\ pc' = [pc EXCEPT ![r] = "done"]
      /\ busy' = [t \in Threads |-> IF busy[t] = r THEN None ELSE busy[t]]
      /\ current' = <<r, "final">> /\ Drop(current, draining)
      /\ UNCHANGED <<pos, draining>>
  BY DEF Clear, Reset, Goto, FreeThread, drainVars
<1>2. Active(r)
  BY <1>1 DEF Active
<1>3. /\ current \in Lists /\ lists \in [Lists -> Seq(Gens)] /\ genState \in [Gens -> GenStates]
      /\ \A q \in Requests : q # r => ~Active(q)
      /\ \A l \in Lists : l # current => Len(lists[l]) = 0
  BY <1>2, Serving DEF IInv, TypeOK
<1>4. \A q \in Requests : draining[q] = None
  BY <1>1, <1>3 DEF DrainsAreOwn, Active
<1>5. /\ lists' = [lists EXCEPT ![current] = <<>>]
      /\ genState' = [g \in Gens |->
              IF g \in ToSet(lists[current]) /\ genState[g] = "open" THEN "collected"
              ELSE genState[g]]
  BY <1>1, <1>3, <1>4, NoneAssumption DEF Drop
<1>6. ASSUME NEW g \in Gens, genState[g] = "open" PROVE g \in ToSet(lists[current])
  <2>1. InList(g)
    BY <1>1, <1>3, <1>6 DEF OpenIsListed, Active, Gens
  <2>2. \E i \in 1..Len(lists[current]) : lists[current][i] = g
    BY <1>3, <2>1 DEF InList
  <2> QED
    BY <1>3, <2>2, MemberFacts
<1>7. \A g \in Gens : genState'[g] = IF genState[g] = "open" THEN "collected" ELSE genState[g]
  BY <1>5, <1>6
<1>8. \A l \in Lists : lists'[l] = <<>> \/ Len(lists'[l]) = 0
  BY <1>3, <1>5
<1>9. \A q \in Requests : (q # r => pc'[q] = pc[q]) /\ ~Active(q)'
  BY <1>1, <1>3 DEF Active, IInv, TypeOK
<1>10. OneActive' /\ DrainsAreOwn'
  BY <1>4, <1>1, <1>9 DEF OneActive, DrainsAreOwn
<1>11. CurrentIsOwn'
  BY <1>1, <1>9 DEF CurrentIsOwn, IInv, TypeOK
<1>12. ListsAreOwn'
  BY <1>8, EmptySeq DEF ListsAreOwn
<1>13. OpenIsListed' /\ LastOpenedFirstClosed'
  BY <1>7 DEF OpenIsListed, LastOpenedFirstClosed, Closed, Born
<1>14. OpenUntilDrained'
  <2> SUFFICES ASSUME NEW g \in Gens
               PROVE  /\ pc'[g[1]] = "waiting" => genState'[g] = "unborn" /\ pos'[g[1]] = 1
                      /\ ~BeforeHandlerEnds(g[1])'
    BY DEF OpenUntilDrained
  <2>1. g[1] \in Requests
    BY DEF Gens
  <2>2. pc'[g[1]] = "waiting" => pc[g[1]] = "waiting"
    BY <1>1, <1>9, <2>1 DEF IInv, TypeOK
  <2>3. ~BeforeHandlerEnds(g[1])'
    BY <1>9, <2>1 DEF BeforeHandlerEnds, Active
  <2> QED
    BY <1>1, <1>7, <2>2, <2>3 DEF OpenUntilDrained
<1> QED
  BY <1>7, <1>10, <1>11, <1>12, <1>13, <1>14

-----------------------------------------------------------------------------
(* Every other step touches neither a list nor a generator *)

Others(r) ==
    \/ Reject(r) \/ TrivialHandler(r) \/ RejectParameters(r) \/ StartDependencies(r)
    \/ ResolveValue(r) \/ InjectRequest(r) \/ InjectTasks(r) \/ FailDependency(r)
    \/ CallHandler(r) \/ HandlerEnds(r) \/ LoadList(r) \/ TestList(r) \/ TeardownEnds(r)
    \/ Render(r) \/ LeaveTry(r) \/ Finally(r) \/ (PopGenerator(r) /\ EndDrain(r))

LEMMA OthersStill ==
    ASSUME IInv, HeapIsOwn, NEW r \in Requests, Others(r)
    PROVE  \E p : Still(r, p)
<1>1. /\ draining \in [Requests -> Lists \cup {None}] /\ pos \in [Requests -> 1..(MaxDeps + 1)]
      /\ pc \in [Requests -> Steps]
  BY DEF IInv, TypeOK
<1>2. pc[r] \notin {"test", "pop", "teardown"} => draining[r] = None
  BY DEF HeapIsOwn, DrainsAreOwn
<1>3. CASE Reject(r) \/ RejectParameters(r) \/ TrivialHandler(r)
  <2>1. Still(r, "leave")
    BY <1>1, <1>2, <1>3
       DEF Reject, RejectParameters, TrivialHandler, Goto, Still, Active, BeforeHandlerEnds, Steps,
           bgVars, drainVars
  <2> QED
    BY <2>1
<1>4. CASE StartDependencies(r)
  <2>1. Still(r, "deps")
    BY <1>1, <1>2, <1>4
       DEF StartDependencies, Goto, Still, Active, BeforeHandlerEnds, Steps, bgVars, drainVars
  <2> QED
    BY <2>1
<1>5. CASE ResolveValue(r) \/ InjectRequest(r) \/ InjectTasks(r)
  <2>1. /\ pc[r] = "deps" /\ NextPosition(r) /\ UNCHANGED <<pc, busy, current, lists, genState, draining>>
    BY <1>5 DEF ResolveValue, InjectRequest, InjectTasks, NextIs, bgVars, drainVars
  <2>2. pc' = [pc EXCEPT ![r] = "deps"]
    BY <1>1, <2>1
  <2>3. Still(r, "deps")
    BY <1>1, <1>2, <2>1, <2>2 DEF NextPosition, Still, Active, BeforeHandlerEnds, Steps
  <2> QED
    BY <2>3
<1>6. CASE FailDependency(r)
  <2>1. Still(r, "leave")
    BY <1>1, <1>2, <1>6
       DEF FailDependency, NextIs, Goto, Still, Active, BeforeHandlerEnds, Steps, bgVars, drainVars
  <2> QED
    BY <2>1
<1>7. CASE CallHandler(r)
  <2>1. Still(r, "handler")
    BY <1>1, <1>2, <1>7
       DEF CallHandler, Goto, Still, Active, BeforeHandlerEnds, Steps, bgVars, drainVars
  <2> QED
    BY <2>1
<1>8. CASE HandlerEnds(r)
  <2>1. Still(r, "drain")
    BY <1>1, <1>2, <1>8
       DEF HandlerEnds, Goto, Still, Active, BeforeHandlerEnds, Steps, bgVars, drainVars
  <2> QED
    BY <2>1
<1>9. CASE LoadList(r)
  <2>1. Active(r) /\ pc[r] = "drain"
    BY <1>9 DEF LoadList, Active
  <2>2. current = ListOf(r)
    BY <2>1, Serving
  <2>3. PICK p \in {"clear", "render", "test"} :
          /\ Goto(r, p)
          /\ draining' = IF p = "test" THEN [draining EXCEPT ![r] = current] ELSE draining
    BY <1>9 DEF LoadList, AfterDrain
  <2>4. Still(r, p)
    BY <1>1, <1>2, <1>9, <2>1, <2>2, <2>3
       DEF LoadList, Goto, Still, BeforeHandlerEnds, Steps, bgVars
  <2> QED
    BY <2>4
<1>10. ASSUME EndDrain(r), pc[r] \in {"test", "pop", "teardown"}, UNCHANGED <<current, busy, pos>>
       PROVE  \E p : Still(r, p)
  BY <1>10, EndDrainStill
<1>11. CASE TestList(r)
  <2>1. CASE EndDrain(r)
    BY <1>10, <1>11, <2>1 DEF TestList
  <2>2. CASE Goto(r, "pop") /\ UNCHANGED <<lists, genState, draining, popped>>
    <3>1. pc[r] = "test" /\ UNCHANGED <<current, busy, pos>> /\ Active(r)
      BY <1>11 DEF TestList, Active
    <3>2. draining[r] # None => draining[r] = ListOf(r)
      BY DEF HeapIsOwn, DrainsAreOwn
    <3>3. Still(r, "pop")
      BY <1>1, <2>2, <3>1, <3>2 DEF Goto, Still, BeforeHandlerEnds, Steps
    <3> QED
      BY <3>3
  <2> QED
    BY <1>11, <2>1, <2>2 DEF TestList
<1>12. CASE TeardownEnds(r)
  <2>1. CASE EndDrain(r)
    BY <1>10, <1>12, <2>1 DEF TeardownEnds
  <2>2. CASE Goto(r, "test") /\ UNCHANGED <<lists, genState, draining>>
    <3>1. pc[r] = "teardown" /\ UNCHANGED <<current, busy, pos>> /\ Active(r)
      BY <1>12 DEF TeardownEnds, Active
    <3>2. draining[r] # None => draining[r] = ListOf(r)
      BY DEF HeapIsOwn, DrainsAreOwn
    <3>3. Still(r, "test")
      BY <1>1, <2>2, <3>1, <3>2 DEF Goto, Still, BeforeHandlerEnds, Steps
    <3> QED
      BY <3>3
  <2> QED
    BY <1>12, <2>1, <2>2 DEF TeardownEnds
<1>13. CASE PopGenerator(r) /\ EndDrain(r)
  BY <1>10, <1>13 DEF PopGenerator
<1>14. CASE Render(r)
  <2>1. Still(r, "leave")
    BY <1>1, <1>2, <1>14
       DEF Render, Goto, Still, Active, BeforeHandlerEnds, Steps, bgVars, drainVars
  <2> QED
    BY <2>1
<1>15. CASE LeaveTry(r)
  <2>1. Still(r, "finally")
    BY <1>1, <1>2, <1>15
       DEF LeaveTry, Goto, Still, Active, BeforeHandlerEnds, Steps, bgVars, drainVars
  <2> QED
    BY <2>1
<1>16. CASE Finally(r)
  <2>1. PICK p \in {"drain", "clear"} : Goto(r, p)
    BY <1>16 DEF Finally
  <2>2. Still(r, p)
    BY <1>1, <1>2, <1>16, <2>1
       DEF Finally, Goto, Still, Active, BeforeHandlerEnds, Steps, bgVars
  <2> QED
    BY <2>2
<1> QED
  BY <1>3, <1>4, <1>5, <1>6, <1>7, <1>8, <1>9, <1>11, <1>12, <1>13, <1>14, <1>15, <1>16 DEF Others

-----------------------------------------------------------------------------
(* The handler's exception *)

\* A step of r leaves what it keeps about other requests.
Elsewhere(r) ==
    \A q \in Requests : q # r =>
        /\ pc'[q] = pc[q] /\ pos'[q] = pos[q] /\ outcome'[q] = outcome[q]
        /\ leftover'[q] = leftover[q] /\ received'[q] = received[q]

LEMMA StepElsewhere ==
    ASSUME IInv, NEW r \in Requests, Step(r)
    PROVE  Elsewhere(r)
<1>1. /\ pc \in [Requests -> Steps] /\ pos \in [Requests -> 1..(MaxDeps + 1)]
      /\ outcome \in [Requests -> Outcomes] /\ leftover \in [Requests -> BOOLEAN]
      /\ received \in [Requests -> Slots]
  BY DEF IInv, TypeOK, Slots
<1> USE DEF Elsewhere, Goto, Finish, NextPosition, bgVars, drainVars
<1>2. CASE Reject(r) \/ TrivialHandler(r) \/ RejectParameters(r) \/ StartDependencies(r)
  BY <1>1, <1>2 DEF Reject, TrivialHandler, RejectParameters, StartDependencies
<1>3. CASE ResolveValue(r) \/ InjectRequest(r) \/ InjectTasks(r)
  BY <1>1, <1>3 DEF ResolveValue, InjectRequest, InjectTasks
<1>4. CASE OpenGenerator(r) \/ AppendGenerator(r) \/ FailDependency(r)
  BY <1>1, <1>4 DEF OpenGenerator, AppendGenerator, FailDependency
<1>5. CASE CallHandler(r) \/ HandlerEnds(r) \/ LoadList(r)
  BY <1>1, <1>5 DEF CallHandler, HandlerEnds, LoadList
<1>6. CASE TestList(r) \/ PopGenerator(r) \/ TeardownEnds(r)
  BY <1>1, <1>6 DEF TestList, PopGenerator, TeardownEnds, EndDrain
<1>7. CASE Render(r) \/ LeaveNative(r) \/ LeaveTry(r) \/ Finally(r) \/ Clear(r)
  BY <1>1, <1>7 DEF Render, LeaveNative, LeaveTry, Finally, Clear
<1> QED
  BY <1>2, <1>3, <1>4, <1>5, <1>6, <1>7 DEF Step

\* When a drain gives its list back the list is empty, unless a generator's
\* own exception ended it.
LEMMA EndsEmpty ==
    ASSUME IInv, HeapIsOwn, NEW r \in Requests, Active(r), pc[r] # "append",
           lists[current] = <<>>
    PROVE  \A g \in GensOf(r) : genState[g] # "open"
<1> SUFFICES ASSUME NEW g \in GensOf(r), genState[g] = "open" PROVE FALSE
  OBVIOUS
<1>1. g \in Gens /\ g[1] = r
  BY DEF GensOf
<1>2. InList(g)
  BY <1>1 DEF HeapIsOwn, OpenIsListed
<1>3. \A l \in Lists : Len(lists[l]) = 0
  BY Serving
<1> QED
  BY <1>2, <1>3 DEF InList

\* What the steps that touch no generator do to the outcome and to the drains of r.
LEMMA OthersFailure ==
    ASSUME IInv, HeapIsOwn, FailureInv, NEW r \in Requests, Others(r), UNCHANGED genState
    PROVE  FailureAt(r)' /\ (outcome[r] = "raised" /\ ~BeforeHandlerEnds(r) => outcome'[r] = "raised")
<1>1. /\ pc \in [Requests -> Steps] /\ pos \in [Requests -> 1..(MaxDeps + 1)]
      /\ outcome \in [Requests -> Outcomes] /\ leftover \in [Requests -> BOOLEAN]
      /\ Len(Plan[r]) \in Nat /\ pos[r] \in Nat
  BY PlanBound, ConstantsAssumption DEF IInv, TypeOK
<1>2. FailureAt(r)
  BY DEF FailureInv
<1>3. BeforeHandlerEnds(r) => \A g \in GensOf(r) : genState[g] = "open"
  BY DEF HeapIsOwn, OpenUntilDrained, GensOf, Born
<1>4. GensOf(r)' = GensOf(r)
  BY DEF GensOf, Born
<1> USE DEF FailureAt, Failed, Draining, AfterDrains, Goto, Finish, bgVars, drainVars, BeforeHandlerEnds
<1>5. CASE Reject(r) \/ RejectParameters(r)
  BY <1>1, <1>2, <1>5 DEF Reject, RejectParameters
<1>6. CASE TrivialHandler(r)
  BY <1>1, <1>2, <1>6 DEF TrivialHandler
<1>7. CASE StartDependencies(r) \/ CallHandler(r)
  BY <1>1, <1>2, <1>7 DEF StartDependencies, CallHandler
<1>8. CASE ResolveValue(r) \/ InjectRequest(r) \/ InjectTasks(r)
  <2>1. pc[r] = "deps" /\ UNCHANGED <<pc, outcome, leftover>>
    BY <1>8 DEF ResolveValue, InjectRequest, InjectTasks, NextIs
  <2> QED
    BY <1>1, <1>2, <2>1
<1>9. CASE FailDependency(r)
  BY <1>1, <1>2, <1>9 DEF FailDependency, NextIs
<1>10. CASE HandlerEnds(r)
  <2>1. pc[r] = "handler" /\ pc'[r] = "drain" /\ UNCHANGED leftover
    BY <1>1, <1>10 DEF HandlerEnds
  <2> QED
    BY <1>2, <1>3, <1>4, <2>1
<1>11. ASSUME pc[r] \in Draining, pc'[r] = AfterDrain(r), UNCHANGED <<outcome, leftover, pos>>,
              Failed(r) => lists[current] = <<>>
       PROVE  FailureAt(r)' /\ (outcome[r] = "raised" => outcome'[r] = "raised")
  <2>1. Active(r) /\ pc[r] # "append"
    BY <1>11 DEF Active
  <2>2. Failed(r) => \A g \in GensOf(r) : genState[g] # "open"
    BY <1>11, <2>1, EndsEmpty
  <2> QED
    BY <1>2, <1>4, <1>11, <2>2 DEF AfterDrain
<1>12. ASSUME pc[r] \in Draining, pc'[r] \in Draining, UNCHANGED <<outcome, leftover, pos>>
       PROVE  FailureAt(r)' /\ (outcome[r] = "raised" => outcome'[r] = "raised")
  BY <1>2, <1>4, <1>12
<1>13. pc[r] \in {"test", "pop", "teardown"} => draining[r] = current
  <2> SUFFICES ASSUME pc[r] \in {"test", "pop", "teardown"} PROVE draining[r] = current
    OBVIOUS
  <2>1. Active(r)
    BY DEF Active
  <2> QED
    BY <2>1, Serving, NoneAssumption DEF IInv, DrainHasList, HeapIsOwn, DrainsAreOwn
<1>14. CASE LoadList(r)
  <2>1. pc[r] \in Draining /\ UNCHANGED <<outcome, leftover, pos>>
    BY <1>14 DEF LoadList
  <2>2. \/ lists[current] = <<>> /\ pc'[r] = AfterDrain(r)
        \/ pc'[r] \in Draining
    BY <1>1, <1>14 DEF LoadList
  <2> QED
    BY <1>11, <1>12, <2>1, <2>2
<1>15. CASE TestList(r)
  <2>1. pc[r] \in Draining /\ UNCHANGED <<outcome, leftover, pos>>
    BY <1>15 DEF TestList
  <2>2. \/ lists[current] = <<>> /\ pc'[r] = AfterDrain(r)
        \/ pc'[r] \in Draining
    BY <1>1, <1>13, <1>15 DEF TestList, EndDrain
  <2> QED
    BY <1>11, <1>12, <2>1, <2>2
<1>16. CASE TeardownEnds(r)
  <2>1. pc[r] \in Draining /\ UNCHANGED <<outcome, leftover, pos>>
    BY <1>16 DEF TeardownEnds
  <2>2. Failed(r) => Throws(r)
    BY <1>2 DEF Throws
  <2>3. \/ ~Failed(r) /\ pc'[r] = AfterDrain(r)
        \/ pc'[r] \in Draining
    BY <1>1, <1>16, <2>2 DEF TeardownEnds, EndDrain, Aborts
  <2> QED
    BY <1>11, <1>12, <2>1, <2>3
<1>17. CASE PopGenerator(r) /\ EndDrain(r)
  <2>1. pc[r] \in Draining /\ UNCHANGED <<outcome, leftover, pos>> /\ pc'[r] = AfterDrain(r)
    BY <1>1, <1>17 DEF PopGenerator, EndDrain
  <2>2. lists[current] = <<>>
    <3>1. pc[r] = "pop" /\ draining[r] = current
      BY <1>13, <1>17 DEF PopGenerator
    <3>2. pc'[r] # "teardown"
      BY <2>1 DEF AfterDrain
    <3> QED
      BY <1>1, <1>17, <3>1, <3>2 DEF PopGenerator
  <2> QED
    BY <1>11, <2>1, <2>2
<1>18. CASE Render(r)
  BY <1>1, <1>2, <1>4, <1>18 DEF Render
<1>19. CASE LeaveTry(r)
  BY <1>1, <1>2, <1>4, <1>19 DEF LeaveTry
<1>20. CASE Finally(r)
  <2>1. pc[r] = "finally" /\ Active(r) /\ UNCHANGED <<outcome, pos>>
    BY <1>20 DEF Finally, Active
  <2>2. CASE lists[current] = <<>>
    BY <1>1, <1>2, <1>4, <1>20, <2>1, <2>2 DEF Finally
  <2>3. CASE lists[current] # <<>>
    <3>1. current \in Lists /\ lists[current] \in Seq(Gens)
      BY DEF IInv, TypeOK
    <3>2. 1 \in 1..Len(lists[current])
      BY <2>3, <3>1
    <3>3. \E g \in GensOf(r) : genState[g] = "open"
      BY <2>1, <3>2, Serving DEF GensOf, Born
    <3>4. ~Failed(r)
      BY <1>2, <2>1, <3>3
    <3> QED
      BY <1>1, <1>20, <2>1, <2>3, <3>4 DEF Finally
  <2> QED
    BY <2>2, <2>3
<1> QED
  BY <1>5, <1>6, <1>7, <1>8, <1>9, <1>10, <1>14, <1>15, <1>16, <1>17, <1>18, <1>19, <1>20 DEF Others

LEMMA FailureInit == Init => FailureInv
<1> SUFFICES ASSUME Init PROVE FailureInv
  OBVIOUS
<1>1. ExceptionIsOwn
  BY DEF Init, ExceptionIsOwn
<1>2. \A r \in Requests : FailureAt(r)
  BY DEF Init, FailureAt, Failed
<1> QED
  BY <1>1, <1>2 DEF FailureInv

LEMMA FailureArrive ==
    ASSUME IInv, FailureInv, NEW t \in Threads, NEW r \in Requests, Arrive(t, r),
           UNCHANGED genState
    PROVE  FailureInv'
<1>1. /\ pc[r] = "waiting" /\ pc' = [pc EXCEPT ![r] = "match"]
      /\ UNCHANGED <<pos, outcome, leftover>>
  BY DEF Arrive, Goto, drainVars
<1>2. ExceptionIsOwn'
  BY <1>1 DEF FailureInv, ExceptionIsOwn
<1>3. ASSUME NEW q \in Requests PROVE FailureAt(q)'
  BY <1>1 DEF FailureInv, FailureAt, Failed, GensOf, Born, Draining, AfterDrains, IInv, TypeOK
<1> QED
  BY <1>2, <1>3 DEF FailureInv

LEMMA FailureStep ==
    ASSUME IInv, HeapIsOwn, FailureInv, NEW r \in Requests, Step(r), ~LeaveNative(r)
    PROVE  FailureInv'
<1>1. /\ pc \in [Requests -> Steps] /\ pos \in [Requests -> 1..(MaxDeps + 1)]
      /\ outcome \in [Requests -> Outcomes] /\ genState \in [Gens -> GenStates]
      /\ \A g \in Gens : g[1] \in Requests
  BY DEF IInv, TypeOK, Gens
<1>2. \A q \in Requests : FailureAt(q)
  BY DEF FailureInv
<1>3. Elsewhere(r)
  BY StepElsewhere
<1>4. CASE Others(r)
  <2>1. UNCHANGED genState
    BY <1>4, OthersStill DEF Still
  <2>2. FailureAt(r)' /\ (outcome[r] = "raised" /\ ~BeforeHandlerEnds(r) => outcome'[r] = "raised")
    BY <1>4, <2>1, OthersFailure
  <2>3. \A q \in Requests : q # r => FailureAt(q)'
    BY <1>2, <1>3, <2>1 DEF FailureAt, Failed, GensOf, Born, Elsewhere
  <2>4. ExceptionIsOwn'
    <3> SUFFICES ASSUME NEW g \in Gens, genState[g] = "thrown" PROVE outcome'[g[1]] = "raised"
      BY <2>1 DEF ExceptionIsOwn
    <3>1. outcome[g[1]] = "raised" /\ ~BeforeHandlerEnds(g[1])
      BY DEF FailureInv, ExceptionIsOwn, HeapIsOwn, OpenUntilDrained
    <3> QED
      BY <1>1, <1>3, <2>2, <3>1 DEF Elsewhere
  <2> QED
    BY <2>2, <2>3, <2>4 DEF FailureInv
<1>5. CASE OpenGenerator(r)
  <2>1. /\ pc[r] = "deps" /\ pc' = [pc EXCEPT ![r] = "append"]
        /\ genState' = [genState EXCEPT ![<<r, pos[r]>>] = "open"]
        /\ UNCHANGED <<pos, outcome, leftover>>
    BY <1>5 DEF OpenGenerator, NextIs, Goto, drainVars
  <2>2. \A g \in Gens : genState'[g] \in {genState[g], "open"} /\ (g[1] # r => genState'[g] = genState[g])
    BY <1>1, <2>1
  <2>3. ExceptionIsOwn'
    BY <2>1, <2>2 DEF FailureInv, ExceptionIsOwn
  <2>4. FailureAt(r)'
    BY <1>1, <1>2, <2>1 DEF FailureAt, Failed, Draining, AfterDrains
  <2>5. \A q \in Requests : q # r => FailureAt(q)'
    BY <1>1, <1>2, <2>1, <2>2 DEF FailureAt, Failed, GensOf, Born
  <2> QED
    BY <2>3, <2>4, <2>5 DEF FailureInv
<1>6. CASE AppendGenerator(r)
  <2>1. /\ pc[r] = "append" /\ pc' = [pc EXCEPT ![r] = "deps"]
        /\ UNCHANGED <<genState, outcome, leftover>>
    BY <1>6 DEF AppendGenerator, Goto, drainVars
  <2>2. ExceptionIsOwn'
    BY <2>1 DEF FailureInv, ExceptionIsOwn
  <2>3. FailureAt(r)'
    BY <1>1, <1>2, <2>1 DEF FailureAt, Failed, Draining, AfterDrains
  <2>4. \A q \in Requests : q # r => FailureAt(q)'
    BY <1>1, <1>2, <1>3, <2>1 DEF FailureAt, Failed, GensOf, Born, Elsewhere
  <2> QED
    BY <2>2, <2>3, <2>4 DEF FailureInv
<1>7. ASSUME NEW g0, Pops(r, g0) PROVE FailureInv'
  <2>1. /\ pc[r] = "pop" /\ pc' = [pc EXCEPT ![r] = "teardown"]
        /\ g0 \in Gens /\ g0[1] = r
        /\ genState' = [genState EXCEPT ![g0] = IF Throws(r) THEN "thrown" ELSE "resumed"]
        /\ genState[g0] = "open"
        /\ UNCHANGED <<pos, outcome, leftover>>
    BY <1>7 DEF Pops
  <2>2. \A g \in Gens : g # g0 => genState'[g] = genState[g]
    BY <1>1, <2>1
  <2>3. ExceptionIsOwn'
    BY <1>1, <2>1, <2>2 DEF FailureInv, ExceptionIsOwn, Throws
  <2>4. FailureAt(r)'
    <3>1. Failed(r) => genState'[g0] = "thrown"
      BY <1>1, <1>2, <2>1 DEF FailureAt, Failed, Throws
    <3> QED
      BY <1>1, <1>2, <2>1, <2>2, <3>1 DEF FailureAt, Failed, GensOf, Born, Draining, AfterDrains
  <2>5. \A q \in Requests : q # r => FailureAt(q)'
    BY <1>1, <1>2, <2>1, <2>2 DEF FailureAt, Failed, GensOf, Born
  <2> QED
    BY <2>3, <2>4, <2>5 DEF FailureInv
<1>8. CASE Clear(r)
  <2>1. /\ pc[r] = "clear" /\ pc' = [pc EXCEPT ![r] = "done"] /\ Active(r)
        /\ UNCHANGED <<pos, outcome, leftover>>
    BY <1>8 DEF Clear, Goto, drainVars, Active
  <2>2. \A g \in Gens : genState'[g] = IF genState[g] = "open" THEN "collected" ELSE genState[g]
    BY <1>8, ClearOwn
  <2>3. ExceptionIsOwn'
    BY <1>1, <2>1, <2>2 DEF FailureInv, ExceptionIsOwn
  <2>4. FailureAt(r)'
    BY <1>1, <1>2, <2>1, <2>2 DEF FailureAt, Failed, GensOf, Born, Draining, AfterDrains
  <2>5. ASSUME NEW q \in Requests, q # r PROVE FailureAt(q)'
    <3>1. ~Active(q) /\ pc'[q] = pc[q]
      BY <1>1, <2>1, <2>5, Serving
    <3> QED
      BY <1>1, <1>2, <2>1, <2>2, <3>1
         DEF FailureAt, Failed, GensOf, Born, Draining, AfterDrains, Active
  <2> QED
    BY <2>3, <2>4, <2>5 DEF FailureInv
<1>9. CASE PopGenerator(r)
  BY <1>4, <1>7, <1>9, PopCases DEF Others
<1> QED
  BY <1>4, <1>5, <1>6, <1>8, <1>9 DEF Step, Others

-----------------------------------------------------------------------------
(* The slots *)

LEMMA SlotsInit == Init => SlotsInv
<1> SUFFICES ASSUME Init, NEW r \in Requests PROVE SlotsAt(r)
  BY DEF SlotsInv
<1>1. pc[r] = "waiting" /\ leftover[r] = FALSE /\ received[r].request = None
  BY DEF Init
<1> QED
  BY <1>1 DEF SlotsAt, Active, BeforeHandlerEnds, Draining

\* A step of r leaves every other request with what it has read.
LEMMA SlotsElsewhere ==
    ASSUME IInv, HeapIsOwn, SlotsInv, NEW r \in Requests, Active(r), Elsewhere(r),
           NEW q \in Requests, q # r
    PROVE  SlotsAt(q)'
<1>1. ~Active(q) /\ SlotsAt(q)
  BY Serving DEF SlotsInv
<1>2. /\ pc'[q] = pc[q] /\ pos'[q] = pos[q] /\ outcome'[q] = outcome[q]
      /\ leftover'[q] = leftover[q] /\ received'[q] = received[q]
  BY DEF Elsewhere
<1> QED
  BY <1>1, <1>2 DEF SlotsAt, Active, BeforeHandlerEnds, TasksAsked, DispatchRaised, Draining

LEMMA SlotsArrive ==
    ASSUME Entry = "asgi", IInv, HeapIsOwn, SlotsInv, FailureInv,
           NEW t \in Threads, NEW r \in Requests, Arrive(t, r),
           \A q \in Requests : ~Active(q)
    PROVE  SlotsInv'
<1>1. /\ pc[r] = "waiting" /\ pc' = [pc EXCEPT ![r] = "match"]
      /\ tasksSlot' = None /\ requestSlot' = r /\ rawSlot' = None
      /\ UNCHANGED <<pos, outcome, leftover, received>>
  BY DEF Arrive, SkipsReset, Reset, Goto, drainVars
<1>2. pos[r] = 1
  <2>1. CASE MaxDeps = 0
    BY <2>1 DEF IInv, TypeOK
  <2>2. CASE MaxDeps # 0
    <3>1. <<r, 1>> \in Gens /\ <<r, 1>>[1] = r
      BY <2>2, ConstantsAssumption DEF Gens
    <3> QED
      BY <1>1, <3>1 DEF HeapIsOwn, OpenUntilDrained
  <2> QED
    BY <2>1, <2>2
<1>3. ~TasksAsked(r)'
  BY <1>1, <1>2, PlanBound DEF TasksAsked
<1>4. SlotsAt(r) /\ ~leftover[r] /\ pc'[r] = "match"
  BY <1>1 DEF SlotsInv, FailureInv, FailureAt, Draining, IInv, TypeOK
<1>5. SlotsAt(r)'
  BY <1>1, <1>3, <1>4 DEF SlotsAt, BeforeHandlerEnds
<1>6. ASSUME NEW q \in Requests, q # r PROVE SlotsAt(q)'
  <2>1. SlotsAt(q) /\ ~Active(q) /\ pc'[q] = pc[q]
    BY <1>1, <1>6 DEF SlotsInv, IInv, TypeOK
  <2> QED
    BY <1>1, <2>1 DEF SlotsAt, Active, BeforeHandlerEnds, TasksAsked, DispatchRaised, Draining
<1> QED
  BY <1>5, <1>6 DEF SlotsInv

LEMMA SlotsStep ==
    ASSUME IInv, HeapIsOwn, SlotsInv, FailureInv, NEW r \in Requests, Step(r), ~LeaveNative(r)
    PROVE  SlotsInv'
<1>1. /\ pc \in [Requests -> Steps] /\ pos \in [Requests -> 1..(MaxDeps + 1)]
      /\ outcome \in [Requests -> Outcomes] /\ leftover \in [Requests -> BOOLEAN]
      /\ received \in [Requests -> Slots]
      /\ Len(Plan[r]) \in Nat /\ pos[r] \in Nat
  BY PlanBound, ConstantsAssumption DEF IInv, TypeOK, Slots
<1>2. SlotsAt(r)
  BY DEF SlotsInv
<1>3. leftover[r] => pc[r] \in Draining \cup {"clear", "done"}
  BY DEF FailureInv, FailureAt
<1>4. Active(r)
  BY DEF Step, Active, Reject, TrivialHandler, RejectParameters, StartDependencies, ResolveValue,
         InjectRequest, InjectTasks, OpenGenerator, AppendGenerator, FailDependency, CallHandler,
         HandlerEnds, LoadList, TestList, PopGenerator, TeardownEnds, Render, LeaveNative,
         LeaveTry, Finally, Clear, NextIs
<1>5. ASSUME SlotsAt(r)' PROVE SlotsInv'
  BY <1>4, <1>5, StepElsewhere, SlotsElsewhere DEF SlotsInv
<1>6. ASSUME UNCHANGED pos PROVE TasksAsked(r)' <=> TasksAsked(r)
  BY <1>6 DEF TasksAsked
<1>7. ASSUME pos' = [pos EXCEPT ![r] = @ + 1], pos[r] <= Len(Plan[r])
      PROVE  TasksAsked(r)' <=> (TasksAsked(r) \/ Plan[r][pos[r]] = "tasks")
  <2>1. pos'[r] = pos[r] + 1 /\ pos[r] \in 1..Len(Plan[r])
    BY <1>1, <1>7
  <2>2. \A k \in 1..Len(Plan[r]) : k < pos'[r] <=> (k < pos[r] \/ k = pos[r])
    BY <1>1, <2>1
  <2> QED
    BY <2>1, <2>2 DEF TasksAsked
<1> USE DEF SlotsAt, Active, BeforeHandlerEnds, Draining, DispatchRaised
<1>8. CASE Reject(r) \/ RejectParameters(r) \/ StartDependencies(r)
  BY <1>1, <1>2, <1>3, <1>5, <1>6, <1>8
     DEF Reject, RejectParameters, StartDependencies, Goto, Finish, bgVars, drainVars
<1>9. CASE TrivialHandler(r)
  BY <1>1, <1>2, <1>3, <1>5, <1>6, <1>9 DEF TrivialHandler, Goto, Finish, drainVars
<1>10. CASE ResolveValue(r)
  BY <1>1, <1>2, <1>3, <1>5, <1>7, <1>10 DEF ResolveValue, NextIs, NextPosition, bgVars, drainVars
<1>11. CASE InjectRequest(r)
  <2>1. received'[r].request = requestSlot
    <3>1. received' = [received EXCEPT ![r] = [received[r] EXCEPT !.request = requestSlot]]
      BY <1>11 DEF InjectRequest
    <3> QED
      BY <1>1, <3>1 DEF Slots
  <2>2. /\ NextIs(r, {"request"}) /\ NextPosition(r)
        /\ UNCHANGED <<tasksSlot, requestSlot, rawSlot, pc, outcome, leftover>>
    BY <1>11 DEF InjectRequest, bgVars, drainVars
  <2>3. requestSlot = r
    BY <1>2, <2>2 DEF NextIs
  <2> QED
    BY <1>1, <1>2, <1>3, <1>5, <1>7, <2>1, <2>2, <2>3 DEF NextIs, NextPosition
<1>12. CASE InjectTasks(r)
  BY <1>1, <1>2, <1>3, <1>5, <1>7, <1>12 DEF InjectTasks, NextIs, NextPosition, drainVars
<1>13. CASE OpenGenerator(r)
  BY <1>1, <1>2, <1>3, <1>5, <1>6, <1>13 DEF OpenGenerator, NextIs, Goto, Generators, bgVars, drainVars
<1>14. CASE AppendGenerator(r)
  <2>1. pos[r] <= Len(Plan[r])
    BY <1>14 DEF AppendGenerator, IInv, PendingIsOwned
  <2> QED
    BY <1>1, <1>2, <1>3, <1>5, <1>7, <1>14, <2>1 DEF AppendGenerator, NextPosition, Goto, drainVars
<1>15. CASE FailDependency(r)
  BY <1>1, <1>2, <1>3, <1>5, <1>6, <1>15 DEF FailDependency, NextIs, Goto, Finish, bgVars, drainVars
<1>16. CASE CallHandler(r)
  BY <1>1, <1>2, <1>3, <1>5, <1>6, <1>16 DEF CallHandler, Goto, bgVars, drainVars
<1>17. CASE HandlerEnds(r)
  BY <1>1, <1>2, <1>3, <1>5, <1>6, <1>17 DEF HandlerEnds, Goto, Finish, bgVars, drainVars
<1>18. ASSUME pc[r] \in Draining, pc'[r] \in Draining \cup {AfterDrain(r)},
              UNCHANGED <<tasksSlot, requestSlot, rawSlot, pos, outcome, leftover, received>>
       PROVE  SlotsAt(r)'
  BY <1>2, <1>6, <1>18 DEF AfterDrain
<1>19. CASE LoadList(r) \/ TestList(r) \/ PopGenerator(r) \/ TeardownEnds(r)
  <2>1. /\ pc[r] \in Draining
        /\ UNCHANGED <<tasksSlot, requestSlot, rawSlot, pos, outcome, leftover, received>>
    BY <1>19 DEF LoadList, TestList, PopGenerator, TeardownEnds, bgVars
  <2>2. pc'[r] \in Draining \cup {AfterDrain(r)}
    BY <1>1, <1>19 DEF LoadList, TestList, PopGenerator, TeardownEnds, EndDrain, Goto
  <2> QED
    BY <1>5, <1>18, <2>1, <2>2
<1>20. CASE Render(r)
  BY <1>1, <1>2, <1>3, <1>5, <1>6, <1>20 DEF Render, Goto, Finish, drainVars
<1>21. CASE LeaveTry(r)
  <2>1. /\ pc[r] = "leave" /\ pc'[r] = "finally"
        /\ UNCHANGED <<tasksSlot, requestSlot, rawSlot, pos, outcome, leftover>>
    BY <1>1, <1>21 DEF LeaveTry, Goto, bgVars, drainVars
  <2>2. CASE DispatchRaised(r)
    BY <1>1, <1>2, <1>3, <1>5, <1>6, <1>21, <2>1, <2>2 DEF LeaveTry
  <2>3. CASE ~DispatchRaised(r)
    <3>1. received' = [received EXCEPT ![r] = [received[r] EXCEPT !.tasks = tasksSlot, !.raw = rawSlot]]
      BY <1>21, <2>3 DEF LeaveTry
    <3>2. /\ received'[r].request = received[r].request
          /\ received'[r].tasks = tasksSlot /\ received'[r].raw = rawSlot
      BY <1>1, <3>1 DEF Slots
    <3> QED
      BY <1>2, <1>3, <1>5, <1>6, <2>1, <3>2
  <2> QED
    BY <2>2, <2>3
<1>22. CASE Finally(r)
  BY <1>1, <1>2, <1>3, <1>5, <1>6, <1>22 DEF Finally, Goto, bgVars
<1>23. CASE Clear(r)
  BY <1>1, <1>2, <1>3, <1>5, <1>6, <1>23 DEF Clear, Goto, drainVars
<1> QED
  BY <1>8, <1>9, <1>10, <1>11, <1>12, <1>13, <1>14, <1>15, <1>16, <1>17, <1>19, <1>20, <1>21, <1>22,
     <1>23 DEF Step

-----------------------------------------------------------------------------
(* The invariant is inductive *)

AsgiInv == IInv /\ HeapIsOwn /\ FailureInv /\ SlotsInv

LEMMA AsgiInit == Init => AsgiInv
  BY InitIInv, HeapIsOwnInit, FailureInit, SlotsInit DEF AsgiInv

LEMMA AsgiStill ==
    ASSUME AsgiInv, UNCHANGED vars
    PROVE  HeapIsOwn' /\ FailureInv' /\ SlotsInv'
<1>1. HeapIsOwn'
  <2> USE DEF AsgiInv, HeapIsOwn, vars
  <2>1. OneActive' /\ CurrentIsOwn' /\ DrainsAreOwn'
    BY DEF OneActive, CurrentIsOwn, DrainsAreOwn, Active
  <2>2. ListsAreOwn' /\ OpenIsListed'
    BY DEF ListsAreOwn, OpenIsListed, Active, InList
  <2>3. OpenUntilDrained' /\ LastOpenedFirstClosed'
    BY DEF OpenUntilDrained, LastOpenedFirstClosed, BeforeHandlerEnds, Closed, Born
  <2> QED
    BY <2>1, <2>2, <2>3
<1>2. FailureInv'
  BY DEF AsgiInv, FailureInv, ExceptionIsOwn, FailureAt, Failed, GensOf, Born, vars
<1>3. SlotsInv'
  BY DEF AsgiInv, SlotsInv, SlotsAt, Active, BeforeHandlerEnds, TasksAsked, DispatchRaised, vars
<1> QED
  BY <1>1, <1>2, <1>3

LEMMA AsgiStep ==
    ASSUME Entry = "asgi"
    PROVE  AsgiInv /\ [Next]_vars => AsgiInv'
<1> SUFFICES ASSUME AsgiInv, [Next]_vars PROVE AsgiInv'
  OBVIOUS
<1>1. IInv'
  BY Inductive DEF AsgiInv
<1>2. CASE UNCHANGED vars
  BY <1>1, <1>2, AsgiStill DEF AsgiInv
<1>3. ASSUME NEW t \in Threads, NEW r \in Requests, Arrive(t, r) PROVE AsgiInv'
  <2>1. HeapIsOwn' /\ UNCHANGED genState /\ \A q \in Requests : ~Active(q)
    BY <1>3, ArriveOwn DEF AsgiInv
  <2>2. FailureInv'
    BY <1>3, <2>1, FailureArrive DEF AsgiInv
  <2>3. SlotsInv'
    BY <1>3, <2>1, SlotsArrive DEF AsgiInv
  <2> QED
    BY <1>1, <2>1, <2>2, <2>3 DEF AsgiInv
<1>4. ASSUME NEW r \in Requests, Step(r) PROVE AsgiInv'
  <2>1. ~LeaveNative(r)
    BY DEF LeaveNative
  <2>2. FailureInv' /\ SlotsInv'
    BY <1>4, <2>1, FailureStep, SlotsStep DEF AsgiInv
  <2>3. HeapIsOwn'
    <3>1. CASE Others(r)
      BY <3>1, OthersStill, QuietStep DEF AsgiInv
    <3>2. CASE OpenGenerator(r)
      BY <3>2, OpenOwn DEF AsgiInv
    <3>3. CASE AppendGenerator(r)
      BY <3>3, AppendOwn DEF AsgiInv
    <3>4. CASE Clear(r)
      BY <3>4, ClearOwn DEF AsgiInv
    <3>5. CASE PopGenerator(r)
      <4>1. CASE EndDrain(r)
        BY <3>1, <3>5, <4>1 DEF Others
      <4>2. CASE Pops(r, Last(lists[current]))
        BY <4>2, PopOwn DEF AsgiInv
      <4> QED
        BY <3>5, <4>1, <4>2, PopCases DEF AsgiInv
    <3> QED
      BY <1>4, <2>1, <3>1, <3>2, <3>3, <3>4, <3>5 DEF Step, Others
  <2> QED
    BY <1>1, <2>2, <2>3 DEF AsgiInv
<1> QED
  BY <1>2, <1>3, <1>4 DEF Next, Quiet

LEMMA AsgiInvariance ==
    ASSUME Entry = "asgi"
    PROVE  Spec => []AsgiInv
<1>1. AsgiInv /\ [Next]_vars => AsgiInv'
  BY AsgiStep
<1> QED
  BY <1>1, AsgiInit, PTL DEF Spec

-----------------------------------------------------------------------------

(***************************************************************************)
(* Behind _dispatch_async no drain tears a dependency down while its       *)
(* request is still resolving or in its handler (app.rs, _dispatch).       *)
(***************************************************************************)
THEOREM DrainedAfterHandler ==
    ASSUME Entry = "asgi"
    PROVE  Spec => []TeardownAfterHandler
<1>1. AsgiInv => TeardownAfterHandler
  BY DEF AsgiInv, HeapIsOwn, OpenUntilDrained, TeardownAfterHandler, Drained
<1> QED
  BY <1>1, AsgiInvariance, PTL

(***************************************************************************)
(* Behind _dispatch_async the dependencies of a request are closed in the  *)
(* reverse of the order they were opened in (drain_yield_deps).            *)
(***************************************************************************)
THEOREM ClosedInReverse ==
    ASSUME Entry = "asgi"
    PROVE  Spec => []LastOpenedFirstClosed
<1>1. AsgiInv => LastOpenedFirstClosed
  BY DEF AsgiInv, HeapIsOwn
<1> QED
  BY <1>1, AsgiInvariance, PTL

(***************************************************************************)
(* Behind _dispatch_async a dependency sees an exception at its yield only *)
(* if the handler of its own request raised.                               *)
(***************************************************************************)
THEOREM OwnException ==
    ASSUME Entry = "asgi"
    PROVE  Spec => []ExceptionIsOwn
<1>1. AsgiInv => ExceptionIsOwn
  BY DEF AsgiInv, FailureInv
<1> QED
  BY <1>1, AsgiInvariance, PTL

(***************************************************************************)
(* Behind _dispatch_async the exception of a handler reaches every         *)
(* dependency its request opened ("Keep going through the stack").         *)
(***************************************************************************)
THEOREM FailureReaches ==
    ASSUME Entry = "asgi"
    PROVE  Spec => []FailureReachesEveryDependency
<1>1. AsgiInv => FailureReachesEveryDependency
  <2> SUFFICES ASSUME AsgiInv, NEW r \in Requests, Failed(r), pc[r] \in AfterDrains
               PROVE  \A g \in GensOf(r) : genState[g] = "thrown"
    BY DEF FailureReachesEveryDependency, Failed, AfterDrains
  <2> QED
    BY DEF AsgiInv, FailureInv, FailureAt
<1> QED
  BY <1>1, AsgiInvariance, PTL

(***************************************************************************)
(* Behind _dispatch_async no dependency outlives its request, on any path  *)
(* out of the dispatcher ("close them out so resources don't leak").       *)
(***************************************************************************)
THEOREM NoneOutlives ==
    ASSUME Entry = "asgi"
    PROVE  Spec => []ReleasedWhenDone
<1>1. AsgiInv => ReleasedWhenDone
  <2> SUFFICES ASSUME AsgiInv, NEW r \in Requests, pc[r] = "done", NEW g \in GensOf(r)
               PROVE  genState[g] # "open"
    BY DEF ReleasedWhenDone, Closed, GensOf
  <2> SUFFICES ASSUME genState[g] = "open" PROVE FALSE
    OBVIOUS
  <2>1. g \in Gens /\ g[1] = r
    BY DEF GensOf
  <2>2. InList(g)
    BY <2>1 DEF AsgiInv, HeapIsOwn, OpenIsListed
  <2>3. Active(r)
    BY <2>1, <2>2 DEF AsgiInv, HeapIsOwn, ListsAreOwn, InList
  <2> QED
    BY <2>3 DEF Active
<1> QED
  BY <1>1, AsgiInvariance, PTL

(***************************************************************************)
(* Behind _dispatch_async a request gets its own Request, BackgroundTasks  *)
(* and streaming response from the slots of _bg, and gets them whenever it *)
(* has produced them.                                                      *)
(***************************************************************************)
THEOREM OwnSlots ==
    ASSUME Entry = "asgi"
    PROVE  Spec => []SlotsAreOwn
<1>1. AsgiInv => SlotsAreOwn
  <2> SUFFICES ASSUME AsgiInv, NEW r \in Requests
               PROVE  /\ received[r].request \in {None, r}
                      /\ pc[r] = "done" /\ ~DispatchRaised(r) =>
                           /\ received[r].raw = IF outcome[r] = "streamed" THEN r ELSE None
                           /\ outcome[r] \in {"returned", "streamed"} /\ Class[r] # "trivial" =>
                                received[r].tasks =
                                    IF "tasks" \in ToSet(Plan[r]) THEN r ELSE None
    BY DEF SlotsAreOwn
  <2>1. SlotsAt(r)
    BY DEF AsgiInv, SlotsInv
  <2>2. Plan[r] \in Seq(Kinds) /\ Len(Plan[r]) \in Nat /\ pos[r] \in Nat
    BY PlanBound, ConstantsAssumption DEF AsgiInv, IInv, TypeOK
  <2>3. pos[r] > Len(Plan[r]) => (TasksAsked(r) <=> "tasks" \in ToSet(Plan[r]))
    BY <2>2, MemberFacts DEF TasksAsked
  <2> QED
    BY <2>1, <2>3 DEF SlotsAt, BeforeHandlerEnds
<1> QED
  BY <1>1, AsgiInvariance, PTL
=============================================================================
