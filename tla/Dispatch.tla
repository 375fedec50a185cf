------------------------------ MODULE Dispatch ------------------------------
(***************************************************************************)
(* One request's way through the dispatcher, and the per-request state it  *)
(* keeps in module globals: python/hyperfastapi/_bg.py, _dispatch_async    *)
(* (applications.py), _dispatch_native and _dispatch (app.rs),             *)
(* resolve_dependencies, call_with_async_handling and drain_yield_deps     *)
(* (_routing.py).                                                          *)
(*                                                                         *)
(* _bg._current_yield_gens is a reference to a list object, so the model   *)
(* keeps a heap of lists: `current` is the list the global names, and a    *)
(* drain goes on with the list it read first.  Code that runs without      *)
(* giving up the GIL is one action; user code (a dependency, a handler, a  *)
(* teardown) and every wait for the worker loop begins and ends a step.    *)
(*                                                                         *)
(* Plan[r] is the dependency plan of the route r matches, flattened to the *)
(* order in which resolve_dependencies evaluates it.                       *)
(***************************************************************************)
EXTENDS Naturals, Sequences, SequencesExt

CONSTANTS
    Threads,    \* threads that enter the dispatcher
    Requests,   \* the requests of one run of the server
    None,       \* Python's None, and "no request"
    Entry,      \* "asgi" (_dispatch_async) or "native" (_dispatch_native)
    MaxDeps,    \* bound: longest plan
    Plan,       \* for each request, its plan
    Class       \* for each request, how is_trivial_route and _dispatch see its route

Kinds == {"value", "sync", "async", "request", "tasks"}

Generators == {"sync", "async"}

(***************************************************************************)
(* "trivial": both is_trivial_route and _dispatch take the trivial path.   *)
(* "plain": neither does.  "shadowed": is_trivial_route finds a static     *)
(* trivial route, but an earlier template route matches the path, and that *)
(* is the one _dispatch runs.                                              *)
(***************************************************************************)
Classes == {"trivial", "plain", "shadowed"}

ASSUME ConstantsAssumption ==
    /\ None \notin Requests
    /\ Entry \in {"asgi", "native"}
    /\ MaxDeps \in Nat
    /\ Plan \in [Requests -> Seq(Kinds)]
    /\ \A r \in Requests : Len(Plan[r]) <= MaxDeps
    /\ Class \in [Requests -> Classes]

\* _dispatch_async contains no await: the one event-loop thread runs it from start to end.
ASSUME EventLoopAssumption == Entry = "asgi" => \A t, u \in Threads : t = u

\* The generator that position i of r's plan creates.
Gens == Requests \X (1..MaxDeps)

\* List objects: the one _bg.py creates at import, and one per reset.
Lists == (Requests \cup {None}) \X {"start", "final"}

ASSUME NoneAssumption == None \notin Lists

ModuleList == <<None, "start">>

GenStates == {"unborn", "open", "resumed", "thrown", "collected", "twice"}

\* "failed": a dependency raised, so that the handler was not called; "raised": the handler did.
Outcomes == {"none", "rejected", "invalid", "failed", "raised", "returned", "streamed",
             "unrendered"}

Steps == {"waiting", "match", "deps", "append", "handler", "drain", "test", "pop",
          "teardown", "render", "leave", "finally", "clear", "done"}

VARIABLES
    current,      \* the list _bg._current_yield_gens names
    lists,        \* contents of every list object
    tasksSlot,    \* whose BackgroundTasks _bg._current_tasks holds
    requestSlot,  \* whose Request _bg._current_request holds
    rawSlot,      \* whose response _bg._current_raw_response holds
    busy,         \* the request each thread is running, or None
    pc,           \* where each request is
    pos,          \* the next plan position of each request
    outcome,      \* how the dispatch of each request went
    draining,     \* the list each request's drain walks, or None
    popped,       \* the generator each request's drain is advancing
    leftover,     \* whether the drain is the one in _dispatch_async's finally
    received,     \* what the request read from the slots of _bg
    genState      \* life of every generator

bgVars == <<current, lists, tasksSlot, requestSlot, rawSlot>>
drainVars == <<draining, popped, leftover>>
vars == <<current, lists, tasksSlot, requestSlot, rawSlot, busy, pc, pos, outcome,
          draining, popped, leftover, received, genState>>

Init ==
    /\ current = ModuleList
    /\ lists = [l \in Lists |-> <<>>]
    /\ tasksSlot = None /\ requestSlot = None /\ rawSlot = None
    /\ busy = [t \in Threads |-> None]
    /\ pc = [r \in Requests |-> "waiting"]
    /\ pos = [r \in Requests |-> 1]
    /\ outcome = [r \in Requests |-> "none"]
    /\ draining = [r \in Requests |-> None]
    /\ popped = [r \in Requests |-> None]
    /\ leftover = [r \in Requests |-> FALSE]
    /\ received = [r \in Requests |-> [request |-> None, tasks |-> None, raw |-> None]]
    /\ genState = [g \in Gens |-> "unborn"]

Goto(r, step) == pc' = [pc EXCEPT ![r] = step]

Finish(r, result) == outcome' = [outcome EXCEPT ![r] = result]

\* r leaves the dispatcher and its thread is free for the next request.
FreeThread(r) == busy' = [t \in Threads |-> IF busy[t] = r THEN None ELSE busy[t]]

-----------------------------------------------------------------------------
(* List objects and the generators in them *)

(***************************************************************************)
(* A list that loses its last reference is deallocated, and a generator    *)
(* that was only referenced by it is finalised: GeneratorExit is raised at *)
(* its yield (for an async generator the worker loop's hook schedules      *)
(* aclose()).                                                              *)
(***************************************************************************)
Drop(list, drains) ==
    IF \E r \in Requests : drains[r] = list
    THEN UNCHANGED <<lists, genState>>
    ELSE /\ lists' = [lists EXCEPT ![list] = <<>>]
         /\ genState' = [g \in Gens |->
                IF g \in ToSet(lists[list]) /\ genState[g] = "open"
                THEN "collected"
                ELSE genState[g]]

\* Fault: the reset forgets `_current_yield_gens = []`.
Reset_KeepsList(list, request) ==
    /\ tasksSlot' = None
    /\ requestSlot' = request
    /\ rawSlot' = None
    /\ UNCHANGED <<current, lists, genState>>

\* Fault: the reset forgets `_current_tasks = None`.
Reset_KeepsTasks(list, request) ==
    /\ current' = list
    /\ requestSlot' = request
    /\ rawSlot' = None
    /\ UNCHANGED tasksSlot
    /\ Drop(current, draining)

\* The four assignments that give a request fresh globals (_bg.reset, inlined by its callers).
Reset(list, request) ==
    /\ current' = list
    /\ tasksSlot' = None
    /\ requestSlot' = request
    /\ rawSlot' = None
    /\ Drop(current, draining)

\* A step of the generator: a second teardown would show as "twice".
Advance(g, how) ==
    genState' = [genState EXCEPT ![g] = IF @ = "open" THEN how ELSE "twice"]

-----------------------------------------------------------------------------
(* Entering the dispatcher *)

\* _dispatch_native resets _bg only if is_trivial_route says no.
SkipsReset(r) == Entry = "native" /\ Class[r] # "plain"

\* A free thread starts on r: the head of _dispatch_async or of _dispatch_native.
Arrive(t, r) ==
    /\ busy[t] = None
    /\ pc[r] = "waiting"
    /\ busy' = [busy EXCEPT ![t] = r]
    /\ Goto(r, "match")
    /\ IF SkipsReset(r)
       THEN UNCHANGED <<bgVars, genState>>
       ELSE Reset(<<r, "start">>, IF Entry = "asgi" THEN r ELSE None)
    /\ UNCHANGED <<pos, outcome, drainVars, received>>

\* Answered without a route: schema, docs, 307, 404, 405.
Reject(r) ==
    /\ pc[r] = "match"
    /\ Finish(r, "rejected")
    /\ Goto(r, "leave")
    /\ UNCHANGED <<bgVars, busy, pos, drainVars, received, genState>>

\* The trivial path of _dispatch: the handler is called and nothing is drained.
TrivialHandler(r) ==
    /\ pc[r] = "match"
    /\ Class[r] = "trivial"
    /\ \E result \in {"returned", "streamed", "raised"} :
          /\ Finish(r, result)
          /\ rawSlot' = IF result = "streamed" THEN r ELSE rawSlot
    /\ Goto(r, "leave")
    /\ UNCHANGED <<current, lists, tasksSlot, requestSlot, busy, pos, drainVars,
                   received, genState>>

\* 422 for the handler's own parameters and body, before any dependency runs.
RejectParameters(r) ==
    /\ pc[r] = "match"
    /\ Class[r] # "trivial"
    /\ Finish(r, "rejected")
    /\ Goto(r, "leave")
    /\ UNCHANGED <<bgVars, busy, pos, drainVars, received, genState>>

StartDependencies(r) ==
    /\ pc[r] = "match"
    /\ Class[r] # "trivial"
    /\ Goto(r, "deps")
    /\ UNCHANGED <<bgVars, busy, pos, outcome, drainVars, received, genState>>

-----------------------------------------------------------------------------
(* resolve_dependencies and the handler *)

NextIs(r, kinds) ==
    /\ pc[r] = "deps"
    /\ pos[r] <= Len(Plan[r])
    /\ Plan[r][pos[r]] \in kinds

NextPosition(r) == pos' = [pos EXCEPT ![r] = @ + 1]

\* A function or coroutine dependency returns its value.
ResolveValue(r) ==
    /\ NextIs(r, {"value"})
    /\ NextPosition(r)
    /\ UNCHANGED <<bgVars, busy, pc, outcome, drainVars, received, genState>>

\* `request: Request` is served from the slot.
InjectRequest(r) ==
    /\ NextIs(r, {"request"})
    /\ received' = [received EXCEPT ![r].request = requestSlot]
    /\ NextPosition(r)
    /\ UNCHANGED <<bgVars, busy, pc, outcome, drainVars, genState>>

\* `tasks: BackgroundTasks` creates the object and publishes it in the slot.
InjectTasks(r) ==
    /\ NextIs(r, {"tasks"})
    /\ tasksSlot' = r
    /\ NextPosition(r)
    /\ UNCHANGED <<current, lists, requestSlot, rawSlot, busy, pc, outcome, drainVars,
                   received, genState>>

\* Fault: the generator is run through instead of to its yield.
OpenGenerator_Exhausts(r) ==
    /\ NextIs(r, Generators)
    /\ genState' = [genState EXCEPT ![<<r, pos[r]>>] = "resumed"]
    /\ Goto(r, "append")
    /\ UNCHANGED <<bgVars, busy, pos, outcome, drainVars, received>>

\* A yield dependency runs to its first yield ...
OpenGenerator(r) ==
    /\ NextIs(r, Generators)
    /\ genState' = [genState EXCEPT ![<<r, pos[r]>>] = "open"]
    /\ Goto(r, "append")
    /\ UNCHANGED <<bgVars, busy, pos, outcome, drainVars, received>>

\* ... and is appended to whatever list the global names by then.
AppendGenerator(r) ==
    /\ pc[r] = "append"
    /\ lists' = [lists EXCEPT ![current] = Append(@, <<r, pos[r]>>)]
    /\ NextPosition(r)
    /\ Goto(r, "deps")
    /\ UNCHANGED <<current, tasksSlot, requestSlot, rawSlot, busy, outcome, drainVars,
                   received, genState>>

(***************************************************************************)
(* A dependency raises (_httpexception_dict re-raises it), or a parameter  *)
(* of a dependency is missing or malformed and 422 is returned.  Neither   *)
(* return from _dispatch passes the drain.                                 *)
(***************************************************************************)
FailDependency(r) ==
    /\ NextIs(r, {"value", "sync", "async"})
    /\ \E result \in {"failed", "invalid"} : Finish(r, result)
    /\ Goto(r, "leave")
    /\ UNCHANGED <<bgVars, busy, pos, drainVars, received, genState>>

CallHandler(r) ==
    /\ pc[r] = "deps"
    /\ pos[r] > Len(Plan[r])
    /\ Goto(r, "handler")
    /\ UNCHANGED <<bgVars, busy, pos, outcome, drainVars, received, genState>>

\* Without a Request the keyword is omitted and the call is a TypeError.
LacksRequest(r) == received[r].request = None /\ "request" \in ToSet(Plan[r])

HandlerEnds(r) ==
    /\ pc[r] = "handler"
    /\ \E result \in {"returned", "streamed", "raised"} :
          /\ LacksRequest(r) => result = "raised"
          /\ Finish(r, result)
    /\ Goto(r, "drain")
    /\ UNCHANGED <<bgVars, busy, pos, drainVars, received, genState>>

-----------------------------------------------------------------------------
(* drain_yield_deps *)

\* Fault: the drain of the leftovers passes the exception of the dispatch as well.
Throws_AnyFailure(r) == outcome[r] \in {"raised", "failed"}

\* The drain after a handler that raised passes the exception; no other drain passes one.
Throws(r) == outcome[r] = "raised" /\ ~leftover[r]

AfterDrain(r) == IF leftover[r] THEN "clear" ELSE "render"

\* The frame of drain_yield_deps goes away, and its reference to the list with it.
\* Both callers swallow what the drain raises.
EndDrain(r) ==
    /\ draining' = [draining EXCEPT ![r] = None]
    /\ popped' = [popped EXCEPT ![r] = None]
    /\ Goto(r, AfterDrain(r))
    /\ IF draining[r] # current
       THEN Drop(draining[r], draining')
       ELSE UNCHANGED <<lists, genState>>

\* `gens = _bg_state._current_yield_gens; if not gens: return`
LoadList(r) ==
    /\ pc[r] = "drain"
    /\ IF lists[current] = <<>>
       THEN Goto(r, AfterDrain(r)) /\ UNCHANGED draining
       ELSE Goto(r, "test") /\ draining' = [draining EXCEPT ![r] = current]
    /\ UNCHANGED <<bgVars, busy, pos, outcome, popped, leftover, received, genState>>

\* `while gens`
TestList(r) ==
    /\ pc[r] = "test"
    /\ IF lists[draining[r]] = <<>>
       THEN EndDrain(r)
       ELSE Goto(r, "pop") /\ UNCHANGED <<lists, genState, draining, popped>>
    /\ UNCHANGED <<current, tasksSlot, requestSlot, rawSlot, busy, pos, outcome, leftover,
                   received>>

\* Fault: first set up, first torn down.
PopGenerator_Front(r) ==
    /\ pc[r] = "pop"
    /\ IF lists[draining[r]] = <<>>
       THEN EndDrain(r)
       ELSE LET gen == Head(lists[draining[r]]) IN
            /\ lists' = [lists EXCEPT ![draining[r]] = Tail(@)]
            /\ popped' = [popped EXCEPT ![r] = gen]
            /\ Advance(gen, IF Throws(r) THEN "thrown" ELSE "resumed")
            /\ Goto(r, "teardown")
            /\ UNCHANGED draining
    /\ UNCHANGED <<current, tasksSlot, requestSlot, rawSlot, busy, pos, outcome, leftover,
                   received>>

\* Fault: the generator stays in the list while it is torn down.
PopGenerator_Peek(r) ==
    /\ pc[r] = "pop"
    /\ IF lists[draining[r]] = <<>>
       THEN EndDrain(r)
       ELSE LET gen == Last(lists[draining[r]]) IN
            /\ popped' = [popped EXCEPT ![r] = gen]
            /\ Advance(gen, IF Throws(r) THEN "thrown" ELSE "resumed")
            /\ Goto(r, "teardown")
            /\ UNCHANGED <<lists, draining>>
    /\ UNCHANGED <<current, tasksSlot, requestSlot, rawSlot, busy, pos, outcome, leftover,
                   received>>

(***************************************************************************)
(* `gens.pop()`, then next(gen), gen.throw(exc), or their async forms.  On *)
(* a list another thread has emptied since the test, pop raises IndexError *)
(* and the drain is over.                                                  *)
(***************************************************************************)
PopGenerator(r) ==
    /\ pc[r] = "pop"
    /\ IF lists[draining[r]] = <<>>
       THEN EndDrain(r)
       ELSE LET gen == Last(lists[draining[r]]) IN
            /\ lists' = [lists EXCEPT ![draining[r]] = Front(@)]
            /\ popped' = [popped EXCEPT ![r] = gen]
            /\ Advance(gen, IF Throws(r) THEN "thrown" ELSE "resumed")
            /\ Goto(r, "teardown")
            /\ UNCHANGED draining
    /\ UNCHANGED <<current, tasksSlot, requestSlot, rawSlot, busy, pos, outcome, leftover,
                   received>>

KindOf(g) == Plan[g[1]][g[2]]

\* Fault: an exception from any sync generator ends the loop.
Aborts_AnySync(r, fails) == fails /\ KindOf(popped[r]) = "sync"

\* Only next() on a sync generator lets an exception out of the loop.
Aborts(r, fails) == fails /\ KindOf(popped[r]) = "sync" /\ ~Throws(r)

\* The teardown code returns or raises; the generator is closed either way.
TeardownEnds(r) ==
    /\ pc[r] = "teardown"
    /\ \E fails \in BOOLEAN :
          IF Aborts(r, fails)
          THEN EndDrain(r)
          ELSE /\ Goto(r, "test")
               /\ popped' = [popped EXCEPT ![r] = None]
               /\ UNCHANGED <<lists, genState, draining>>
    /\ UNCHANGED <<current, tasksSlot, requestSlot, rawSlot, busy, pos, outcome, leftover,
                   received>>

-----------------------------------------------------------------------------
(* Back in _dispatch, and leaving it *)

\* A failed handler's exception is returned; a response object is stashed or
\* unpacked; anything else is validated and serialised, which may raise.
Render(r) ==
    /\ pc[r] = "render"
    /\ \/ UNCHANGED outcome
       \/ outcome[r] = "returned" /\ Finish(r, "unrendered")
    /\ rawSlot' = IF outcome[r] = "streamed" THEN r ELSE rawSlot
    /\ Goto(r, "leave")
    /\ UNCHANGED <<current, lists, tasksSlot, requestSlot, busy, pos, drainVars, received,
                   genState>>

\* _dispatch_native returns to the server.
LeaveNative(r) ==
    /\ pc[r] = "leave"
    /\ Entry = "native"
    /\ Goto(r, "done")
    /\ FreeThread(r)
    /\ UNCHANGED <<bgVars, pos, outcome, drainVars, received, genState>>

DispatchRaised(r) == outcome[r] \in {"failed", "raised", "unrendered"}

\* _dispatch_async, the end of its try: the slots are read unless _dispatch raised.
LeaveTry(r) ==
    /\ pc[r] = "leave"
    /\ Entry = "asgi"
    /\ received' = IF DispatchRaised(r)
                   THEN received
                   ELSE [received EXCEPT ![r].tasks = tasksSlot, ![r].raw = rawSlot]
    /\ Goto(r, "finally")
    /\ UNCHANGED <<bgVars, busy, pos, outcome, drainVars, genState>>

\* Its finally: generators nobody drained get a drain without an exception.
Finally(r) ==
    /\ pc[r] = "finally"
    /\ IF lists[current] # <<>>
       THEN Goto(r, "drain") /\ leftover' = [leftover EXCEPT ![r] = TRUE]
       ELSE Goto(r, "clear") /\ UNCHANGED leftover
    /\ UNCHANGED <<bgVars, busy, pos, outcome, draining, popped, received, genState>>

\* The last four assignments of the finally.
Clear(r) ==
    /\ pc[r] = "clear"
    /\ Reset(<<r, "final">>, None)
    /\ Goto(r, "done")
    /\ FreeThread(r)
    /\ UNCHANGED <<pos, outcome, drainVars, received>>

-----------------------------------------------------------------------------

Step(r) ==
    \/ Reject(r) \/ TrivialHandler(r) \/ RejectParameters(r) \/ StartDependencies(r)
    \/ ResolveValue(r) \/ InjectRequest(r) \/ InjectTasks(r)
    \/ OpenGenerator(r) \/ AppendGenerator(r) \/ FailDependency(r)
    \/ CallHandler(r) \/ HandlerEnds(r)
    \/ LoadList(r) \/ TestList(r) \/ PopGenerator(r) \/ TeardownEnds(r)
    \/ Render(r) \/ LeaveNative(r) \/ LeaveTry(r) \/ Finally(r) \/ Clear(r)

\* The server stays up when every request has been served.
Quiet == (\A r \in Requests : pc[r] = "done") /\ UNCHANGED vars

Next ==
    \/ \E t \in Threads, r \in Requests : Arrive(t, r)
    \/ \E r \in Requests : Step(r)
    \/ Quiet

Spec == Init /\ [][Next]_vars

(***************************************************************************)
(* Fairness: the server hands a request to a free thread, a thread in the  *)
(* dispatcher gets the GIL again and again, and user code terminates.      *)
(***************************************************************************)
Fairness ==
    /\ WF_vars(\E t \in Threads, r \in Requests : Arrive(t, r))
    /\ \A r \in Requests : WF_vars(Step(r))

FairSpec == Spec /\ Fairness

-----------------------------------------------------------------------------

\* Shape of the dispatcher's state and of the _bg globals.
TypeOK ==
    /\ current \in Lists
    /\ lists \in [Lists -> Seq(Gens)]
    /\ tasksSlot \in Requests \cup {None}
    /\ requestSlot \in Requests \cup {None}
    /\ rawSlot \in Requests \cup {None}
    /\ busy \in [Threads -> Requests \cup {None}]
    /\ pc \in [Requests -> Steps]
    /\ pos \in [Requests -> 1..(MaxDeps + 1)]
    /\ outcome \in [Requests -> Outcomes]
    /\ draining \in [Requests -> Lists \cup {None}]
    /\ popped \in [Requests -> Gens \cup {None}]
    /\ leftover \in [Requests -> BOOLEAN]
    /\ received \in [Requests -> [request : Requests \cup {None},
                                  tasks   : Requests \cup {None},
                                  raw     : Requests \cup {None}]]
    /\ genState \in [Gens -> GenStates]

Born(g) == genState[g] # "unborn"
Drained(g) == genState[g] \in {"resumed", "thrown"}
Closed(g) == Born(g) /\ genState[g] # "open"

GensOf(r) == {g \in Gens : g[1] = r /\ Born(g)}

(***************************************************************************)
(* Each generator is advanced past its yield at most once, whichever       *)
(* requests' drains walk the list it is in.                                *)
(***************************************************************************)
TornDownOnce == \A g \in Gens : genState[g] # "twice"

(***************************************************************************)
(* "We drain them here so their finally / except blocks run AFTER the      *)
(* handler" (app.rs, _dispatch): no drain tears a dependency down while    *)
(* the request that owns it is still resolving or in its handler.          *)
(***************************************************************************)
BeforeHandlerEnds(r) == pc[r] \in {"match", "deps", "append", "handler"}

TeardownAfterHandler ==
    \A g \in Gens : Drained(g) => ~BeforeHandlerEnds(g[1])

(***************************************************************************)
(* "LIFO order - last opened, first closed" (drain_yield_deps): when a     *)
(* generator is closed, the ones its request opened later are closed.      *)
(***************************************************************************)
LastOpenedFirstClosed ==
    \A g, h \in Gens :
        g[1] = h[1] /\ g[2] < h[2] /\ Closed(g) /\ Born(h) => Closed(h)

(***************************************************************************)
(* A dependency sees an exception at its yield only if the handler of its  *)
(* own request raised; one whose request failed before the handler, in a   *)
(* dependency, is resumed as after a success.                              *)
(***************************************************************************)
ExceptionIsOwn ==
    \A g \in Gens : genState[g] = "thrown" => outcome[g[1]] = "raised"

(***************************************************************************)
(* When the handler raised, the exception reaches every dependency the     *)
(* request opened, although dependencies raise again in between ("Keep     *)
(* going through the stack so each dep sees teardown").                    *)
(***************************************************************************)
FailureReachesEveryDependency ==
    \A r \in Requests :
        /\ outcome[r] = "raised"
        /\ Class[r] # "trivial"
        /\ pc[r] \in {"render", "leave", "finally", "clear", "done"}
        => \A g \in GensOf(r) : genState[g] = "thrown"

(***************************************************************************)
(* Under ASGI no dependency outlives its request, on any path out of the   *)
(* dispatcher ("close them out so resources don't leak").                  *)
(***************************************************************************)
ReleasedWhenDone ==
    \A r \in Requests : pc[r] = "done" => \A g \in GensOf(r) : Closed(g)

(***************************************************************************)
(* A request gets its own Request, BackgroundTasks and streaming response  *)
(* from the slots, and gets them whenever it has produced them.            *)
(***************************************************************************)
SlotsAreOwn ==
    \A r \in Requests :
        /\ received[r].request \in {None, r}
        /\ (Entry = "asgi" /\ pc[r] = "done" /\ ~DispatchRaised(r)) =>
              /\ received[r].raw = IF outcome[r] = "streamed" THEN r ELSE None
              /\ outcome[r] \in {"returned", "streamed"} /\ Class[r] # "trivial" =>
                    received[r].tasks = IF "tasks" \in ToSet(Plan[r]) THEN r ELSE None

\* Every request is answered.
EveryRequestLeaves == \A r \in Requests : <>(pc[r] = "done")
=============================================================================
