----------------------------- MODULE WorkerLoop -----------------------------
(***************************************************************************)
(* The lazily created worker event loop of python/hyperfastapi/_routing.py *)
(* (_ensure_worker_loop): every coroutine that needs a running loop, and   *)
(* every native WebSocket handler, is submitted to the loop this function  *)
(* returns.  The function is called from the threads that enter the        *)
(* dispatcher: tokio workers under run_native, the event-loop thread under *)
(* ASGI.                                                                   *)
(*                                                                         *)
(* One action is one stretch of bytecode between two points where CPython  *)
(* may hand the GIL to another thread (a call, a blocking acquire, a       *)
(* blocking wait).  The module globals _WORKER_LOOP and _WORKER_LOOP_LOCK  *)
(* are loopVar and lockVar.  A thread creates at most one lock and one     *)
(* loop in its life (once it has returned, _WORKER_LOOP is set for good),  *)
(* so the creating thread names both; heldLock keeps the lock under which  *)
(* a thread's loop was created.                                            *)
(***************************************************************************)
EXTENDS Naturals

CONSTANTS Threads,   \* the threads that call _ensure_worker_loop
          None       \* Python's None

ASSUME NoneAssumption == None \notin Threads

VARIABLES pc,        \* where each caller is in the function
          loopVar,   \* _WORKER_LOOP: the creator of the published loop, or None
          lockVar,   \* _WORKER_LOOP_LOCK: the creator of the published lock, or None
          heldLock,  \* the lock object each caller evaluated at its `with`
          holder,    \* for each lock object, the thread that holds it, or None
          loop,      \* for each creator, the life of its loop
          result     \* what each caller's last call returned

vars == <<pc, loopVar, lockVar, heldLock, holder, loop, result>>

LoopStates == {"absent", "created", "ready", "running"}

\* The states of a loop whose thread has signalled that it has begun.
Signalled == {"ready", "running"}

Steps == {"idle", "checkLock", "storeLock", "with", "acquire", "recheck",
          "newLoop", "waitReady", "publish", "release", "return"}

Init ==
    /\ pc = [t \in Threads |-> "idle"]
    /\ loopVar = None
    /\ lockVar = None
    /\ heldLock = [t \in Threads |-> None]
    /\ holder = [t \in Threads |-> None]
    /\ loop = [t \in Threads |-> "absent"]
    /\ result = [t \in Threads |-> None]

Goto(t, step) == pc' = [pc EXCEPT ![t] = step]

\* `if _WORKER_LOOP is not None: return _WORKER_LOOP`
Call(t) ==
    /\ pc[t] = "idle"
    /\ IF loopVar # None
       THEN /\ result' = [result EXCEPT ![t] = loopVar]
            /\ UNCHANGED pc
       ELSE /\ result' = [result EXCEPT ![t] = None]
            /\ Goto(t, "checkLock")
    /\ UNCHANGED <<loopVar, lockVar, heldLock, holder, loop>>

\* `if _WORKER_LOOP_LOCK is None`
CheckLock(t) ==
    /\ pc[t] = "checkLock"
    /\ Goto(t, IF lockVar = None THEN "storeLock" ELSE "with")
    /\ UNCHANGED <<loopVar, lockVar, heldLock, holder, loop, result>>

\* `_WORKER_LOOP_LOCK = threading.Lock()`: the store, after the call returned
StoreLock(t) ==
    /\ pc[t] = "storeLock"
    /\ lockVar' = t
    /\ Goto(t, "with")
    /\ UNCHANGED <<loopVar, heldLock, holder, loop, result>>

\* `with _WORKER_LOOP_LOCK`: the global is read ...
EvaluateLock(t) ==
    /\ pc[t] = "with"
    /\ heldLock' = [heldLock EXCEPT ![t] = lockVar]
    /\ Goto(t, "acquire")
    /\ UNCHANGED <<loopVar, lockVar, holder, loop, result>>

\* ... and the object it named is acquired, whatever the global is by then
Acquire(t) ==
    /\ pc[t] = "acquire"
    /\ holder[heldLock[t]] = None
    /\ holder' = [holder EXCEPT ![heldLock[t]] = t]
    /\ Goto(t, "recheck")
    /\ UNCHANGED <<loopVar, lockVar, heldLock, loop, result>>

\* Fault: the global is not checked again under the lock.
Recheck_Missing(t) ==
    /\ pc[t] = "recheck"
    /\ Goto(t, "newLoop")
    /\ UNCHANGED <<loopVar, lockVar, heldLock, holder, loop, result>>

\* the second `if _WORKER_LOOP is not None: return _WORKER_LOOP`
Recheck(t) ==
    /\ pc[t] = "recheck"
    /\ IF loopVar # None
       THEN /\ result' = [result EXCEPT ![t] = loopVar]
            /\ Goto(t, "release")
       ELSE /\ Goto(t, "newLoop")
            /\ UNCHANGED result
    /\ UNCHANGED <<loopVar, lockVar, heldLock, holder, loop>>

\* new_event_loop(), Event(), Thread(target=runner).start()
StartLoop(t) ==
    /\ pc[t] = "newLoop"
    /\ loop' = [loop EXCEPT ![t] = "created"]
    /\ Goto(t, "waitReady")
    /\ UNCHANGED <<loopVar, lockVar, heldLock, holder, result>>

\* runner(), on the new daemon thread: set_event_loop, ready.set() ...
RunnerReady(t) ==
    /\ loop[t] = "created"
    /\ loop' = [loop EXCEPT ![t] = "ready"]
    /\ UNCHANGED <<pc, loopVar, lockVar, heldLock, holder, result>>

\* ... and run_forever, before or after the creator has woken up and published the loop
RunForever(t) ==
    /\ loop[t] = "ready"
    /\ loop' = [loop EXCEPT ![t] = "running"]
    /\ UNCHANGED <<pc, loopVar, lockVar, heldLock, holder, result>>

\* Fault: the loop is published without waiting for its thread.
WaitReady_Missing(t) ==
    /\ pc[t] = "waitReady"
    /\ Goto(t, "publish")
    /\ UNCHANGED <<loopVar, lockVar, heldLock, holder, loop, result>>

\* `ready.wait()`
WaitReady(t) ==
    /\ pc[t] = "waitReady"
    /\ loop[t] \in Signalled
    /\ Goto(t, "publish")
    /\ UNCHANGED <<loopVar, lockVar, heldLock, holder, loop, result>>

\* `_WORKER_LOOP = loop`
Publish(t) ==
    /\ pc[t] = "publish"
    /\ loopVar' = t
    /\ Goto(t, "release")
    /\ UNCHANGED <<lockVar, heldLock, holder, loop, result>>

\* __exit__ of the `with`: on the early return the result is already fixed
Release(t) ==
    /\ pc[t] = "release"
    /\ holder' = [holder EXCEPT ![heldLock[t]] = None]
    /\ Goto(t, IF result[t] # None THEN "idle" ELSE "return")
    /\ UNCHANGED <<loopVar, lockVar, heldLock, loop, result>>

\* the final `return _WORKER_LOOP`, which reads the global outside the lock
Return(t) ==
    /\ pc[t] = "return"
    /\ result' = [result EXCEPT ![t] = loopVar]
    /\ Goto(t, "idle")
    /\ UNCHANGED <<loopVar, lockVar, heldLock, holder, loop>>

Step(t) ==
    \/ Call(t) \/ CheckLock(t) \/ StoreLock(t) \/ EvaluateLock(t)
    \/ Acquire(t) \/ Recheck(t) \/ StartLoop(t) \/ WaitReady(t)
    \/ Publish(t) \/ Release(t) \/ Return(t)

Next == \E t \in Threads : Step(t) \/ RunnerReady(t) \/ RunForever(t)

Spec == Init /\ [][Next]_vars

-----------------------------------------------------------------------------

InCriticalSection(t) == pc[t] \in {"recheck", "newLoop", "waitReady", "publish", "release"}

\* Every variable keeps its shape, and a lock is evaluated before it is acquired.
TypeOK ==
    /\ pc \in [Threads -> Steps]
    /\ loopVar \in Threads \cup {None}
    /\ lockVar \in Threads \cup {None}
    /\ heldLock \in [Threads -> Threads \cup {None}]
    /\ holder \in [Threads -> Threads \cup {None}]
    /\ loop \in [Threads -> LoopStates]
    /\ result \in [Threads -> Threads \cup {None}]

(***************************************************************************)
(* A caller gets back a loop whose thread has begun and set it as its      *)
(* event loop, never None and never a loop whose thread is still to start. *)
(* The thread need not be in run_forever yet: what is submitted meanwhile  *)
(* waits in the loop's queue (CallsReturn says that it is run).            *)
(***************************************************************************)
ReturnedLoopIsReady ==
    /\ \A t \in Threads : result[t] # None => loop[result[t]] \in Signalled
    /\ \A t \in Threads : pc[t] = "return" => loopVar # None

(***************************************************************************)
(* The `with` does serialise what it can: two callers inside the block     *)
(* hold different lock objects.                                            *)
(***************************************************************************)
ExclusivePerLock ==
    \A t, u \in Threads :
        /\ InCriticalSection(t)
        /\ InCriticalSection(u)
        /\ heldLock[t] = heldLock[u]
        => t = u

(***************************************************************************)
(* Two loops are never created under the same lock object: the second      *)
(* check inside the `with` sees what the first holder published.  A second *)
(* loop therefore needs a second lock, which only callers that raced past  *)
(* the unguarded `_WORKER_LOOP_LOCK is None` can store.                    *)
(***************************************************************************)
OneLoopPerLock ==
    \A t, u \in Threads :
        /\ loop[t] # "absent"
        /\ loop[u] # "absent"
        /\ heldLock[t] = heldLock[u]
        => t = u
=============================================================================
