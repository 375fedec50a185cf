------------------------------ MODULE AsyncCall -----------------------------
(***************************************************************************)
(* How synchronous dispatch runs the user's coroutines: the coroutine      *)
(* branch of call_with_async_handling and _run_coro_blocking               *)
(* (python/hyperfastapi/_routing.py), and the copy of it that the native   *)
(* server has for trivial routes (try_drive_async, server.rs).             *)
(*                                                                         *)
(* On a thread without a running event loop the coroutine is first driven  *)
(* with one send(None); if it suspends it is closed, created anew and      *)
(* submitted to the worker loop, and the thread blocks on the future.  The *)
(* loop comes from _ensure_worker_loop, which WorkerLoop models: its       *)
(* variables and actions are part of this specification.                   *)
(*                                                                         *)
(* A coroutine is the sequence of the steps its body takes:                *)
(*   "code"    user code without an await;                                 *)
(*   "bare"    a suspension that asks for no loop, as asyncio.sleep(0);    *)
(*   "io"      an await that asks for the running loop and waits on it;    *)
(*   "server"  an await that only the server's own event loop completes,   *)
(*             as the `receive` behind Request.body();                     *)
(*   "fail"    an exception.                                               *)
(***************************************************************************)
EXTENDS WorkerLoop, Sequences, FiniteSets

CONSTANTS
    Calls,        \* coroutine calls, each made once
    ThreadOf,     \* the thread that makes each call
    LoopThreads,  \* threads that run an event loop of their own (ASGI)
    Body          \* the coroutine of each call

Awaits == {"bare", "io", "server"}

ASSUME CallsAssumption ==
    /\ None \notin Calls
    /\ ThreadOf \in [Calls -> Threads]
    /\ LoopThreads \subseteq Threads
    /\ Body \in [Calls -> Seq({"code", "fail"} \cup Awaits)]

VARIABLES
    stage,      \* where each call is
    step,       \* the next step of each call's coroutine
    executed,   \* how often each step was begun
    frames,     \* the coroutine objects of each call that have begun and not ended
    asked,      \* the loops get_running_loop has given each call's coroutine; "own" is
                \* the one its calling thread runs
    outcome,    \* what each call's coroutine came to
    target,     \* the loop each call was submitted to
    ready,      \* each worker loop's ready queue
    turn        \* the call each worker loop is running, or None

workerVars == <<pc, loopVar, lockVar, heldLock, holder, loop, result>>
coroVars == <<step, executed, frames, asked, outcome>>
loopVars == <<target, ready, turn>>
callVars == <<stage, step, executed, frames, asked, outcome, target, ready, turn>>
allVars == <<pc, loopVar, lockVar, heldLock, holder, loop, result, stage, step, executed,
             frames, asked, outcome, target, ready, turn>>

Stages == {"idle", "fast", "close", "ensure", "ensuring", "submit", "queued", "waiting",
           "resolved", "done"}

CallInit ==
    /\ Init
    /\ stage = [c \in Calls |-> "idle"]
    /\ step = [c \in Calls |-> 1]
    /\ executed = [c \in Calls |-> [i \in DOMAIN Body[c] |-> 0]]
    /\ frames = [c \in Calls |-> {}]
    /\ asked = [c \in Calls |-> {}]
    /\ outcome = [c \in Calls |-> "none"]
    /\ target = [c \in Calls |-> None]
    /\ ready = [l \in Threads |-> <<>>]
    /\ turn = [l \in Threads |-> None]

Enter(c, place) == stage' = [stage EXCEPT ![c] = place]

\* The thread waits in a call until the call is done.
Free(t) == \A c \in Calls : ThreadOf[c] = t => stage[c] \in {"idle", "done"}

-----------------------------------------------------------------------------
(* One step of a coroutine *)

AtEnd(c) == step[c] > Len(Body[c])

NextStep(c) == Body[c][step[c]]

Execute(c) == executed' = [executed EXCEPT ![c][step[c]] = @ + 1]

Proceed(c) == step' = [step EXCEPT ![c] = @ + 1]

\* The coroutine object has ended, by a return or an exception.
End(c, how) ==
    /\ outcome' = [outcome EXCEPT ![c] = how]
    /\ frames' = [frames EXCEPT ![c] = {}]

-----------------------------------------------------------------------------
(* The fast path *)

\* Fault: the guard against a loop of the thread's own is gone.
BeginCall_Unguarded(c) ==
    /\ stage[c] = "idle"
    /\ Free(ThreadOf[c])
    /\ Enter(c, "fast")
    /\ frames' = [frames EXCEPT ![c] = {"fast"}]
    /\ UNCHANGED <<workerVars, step, executed, asked, outcome, loopVars>>

\* Only a thread without a running loop takes the fast path.
BeginCall(c) ==
    /\ stage[c] = "idle"
    /\ Free(ThreadOf[c])
    /\ IF ThreadOf[c] \in LoopThreads
       THEN Enter(c, "ensure") /\ UNCHANGED frames
       ELSE Enter(c, "fast") /\ frames' = [frames EXCEPT ![c] = {"fast"}]
    /\ UNCHANGED <<workerVars, step, executed, asked, outcome, loopVars>>

FastCode(c) ==
    /\ stage[c] = "fast"
    /\ ~AtEnd(c) /\ NextStep(c) = "code"
    /\ Execute(c) /\ Proceed(c)
    /\ UNCHANGED <<workerVars, stage, frames, asked, outcome, loopVars>>

HasLoop(c) == ThreadOf[c] \in LoopThreads

\* get_running_loop raises RuntimeError.
LacksLoop(c) == NextStep(c) \in Awaits \ {"bare"} /\ ~HasLoop(c)

\* send(None) returns: the coroutine has suspended.
FastSuspends(c) ==
    /\ stage[c] = "fast"
    /\ ~AtEnd(c) /\ NextStep(c) \in Awaits
    /\ ~LacksLoop(c)
    /\ Execute(c)
    /\ asked' = [asked EXCEPT ![c] =
                    IF NextStep(c) = "bare" THEN @ ELSE @ \cup {"own"}]
    /\ Enter(c, "close")
    /\ UNCHANGED <<workerVars, step, frames, outcome, loopVars>>

\* Only StopIteration is caught: a return ends the call, and so does any exception,
\* the RuntimeError of get_running_loop included.
FastEnds(c) ==
    /\ stage[c] = "fast"
    /\ \/ AtEnd(c) /\ End(c, "returned") /\ UNCHANGED executed
       \/ ~AtEnd(c) /\ NextStep(c) = "fail" /\ End(c, "raised") /\ Execute(c)
       \/ ~AtEnd(c) /\ LacksLoop(c) /\ End(c, "no loop") /\ Execute(c)
    /\ Enter(c, "done")
    /\ UNCHANGED <<workerVars, step, asked, loopVars>>

\* Fault: the partial coroutine is not closed.
ClosePartial_Missing(c) ==
    /\ stage[c] = "close"
    /\ step' = [step EXCEPT ![c] = 1]
    /\ Enter(c, "ensure")
    /\ UNCHANGED <<workerVars, executed, frames, asked, outcome, loopVars>>

\* Fault: the rerun goes on where the partial run suspended.
ClosePartial_Resumes(c) ==
    /\ stage[c] = "close"
    /\ frames' = [frames EXCEPT ![c] = {}]
    /\ Proceed(c)
    /\ Enter(c, "ensure")
    /\ UNCHANGED <<workerVars, executed, asked, outcome, loopVars>>

\* coro.close(), then callable_(**kwargs) makes a fresh coroutine.
ClosePartial(c) ==
    /\ stage[c] = "close"
    /\ frames' = [frames EXCEPT ![c] = {}]
    /\ step' = [step EXCEPT ![c] = 1]
    /\ Enter(c, "ensure")
    /\ UNCHANGED <<workerVars, executed, asked, outcome, loopVars>>

-----------------------------------------------------------------------------
(* _run_coro_blocking *)

\* The caller's thread runs _ensure_worker_loop ...
EnterEnsure(c) ==
    /\ stage[c] = "ensure"
    /\ Call(ThreadOf[c])
    /\ Enter(c, "ensuring")
    /\ UNCHANGED <<coroVars, loopVars>>

Ensure(c) ==
    /\ stage[c] = "ensuring"
    /\ pc[ThreadOf[c]] # "idle"
    /\ Step(ThreadOf[c])
    /\ UNCHANGED callVars

\* ... and run_coroutine_threadsafe puts the coroutine on the loop it returned.
Submit(c) ==
    /\ stage[c] = "ensuring"
    /\ pc[ThreadOf[c]] = "idle"
    /\ LET l == result[ThreadOf[c]] IN
          /\ target' = [target EXCEPT ![c] = l]
          /\ ready' = [ready EXCEPT ![l] = Append(@, c)]
    /\ Enter(c, "queued")
    /\ UNCHANGED <<workerVars, coroVars, turn>>

\* fut.result() returns or raises.
ReturnResult(c) ==
    /\ stage[c] = "resolved"
    /\ Enter(c, "done")
    /\ UNCHANGED <<workerVars, coroVars, loopVars>>

-----------------------------------------------------------------------------
(* A worker loop *)

RunTask(l) ==
    /\ loop[l] = "running"
    /\ turn[l] = None
    /\ ready[l] # <<>>
    /\ turn' = [turn EXCEPT ![l] = Head(ready[l])]
    /\ ready' = [ready EXCEPT ![l] = Tail(@)]
    /\ frames' = [frames EXCEPT ![Head(ready[l])] = @ \cup {"loop"}]
    /\ UNCHANGED <<workerVars, stage, step, executed, asked, outcome, target>>

Has(l, kinds) == turn[l] # None /\ ~AtEnd(turn[l]) /\ NextStep(turn[l]) \in kinds

TaskCode(l) ==
    /\ Has(l, {"code"})
    /\ Execute(turn[l]) /\ Proceed(turn[l])
    /\ UNCHANGED <<workerVars, stage, frames, asked, outcome, loopVars>>

\* A bare suspension goes to the end of the ready queue, any other await waits.
TaskSuspends(l) ==
    /\ Has(l, Awaits)
    /\ LET c == turn[l] IN
          /\ Execute(c)
          /\ turn' = [turn EXCEPT ![l] = None]
          /\ IF NextStep(c) = "bare"
             THEN /\ Proceed(c)
                  /\ ready' = [ready EXCEPT ![l] = Append(@, c)]
                  /\ UNCHANGED <<stage, asked>>
             ELSE /\ asked' = [asked EXCEPT ![c] = @ \cup {l}]
                  /\ Enter(c, "waiting")
                  /\ UNCHANGED <<step, ready>>
    /\ UNCHANGED <<workerVars, frames, outcome, target>>

\* What c waits for happens; the server's loop does nothing while its thread is blocked.
Wake(c) ==
    /\ stage[c] = "waiting"
    /\ NextStep(c) = "server" => Free(ThreadOf[c])
    /\ Proceed(c)
    /\ ready' = [ready EXCEPT ![target[c]] = Append(@, c)]
    /\ Enter(c, "queued")
    /\ UNCHANGED <<workerVars, executed, frames, asked, outcome, target, turn>>

\* Fault: an exception in the task is not put in the future.
TaskEnds_NoException(l) ==
    /\ turn[l] # None
    /\ LET c == turn[l] IN
          \/ /\ AtEnd(c) /\ End(c, "returned") /\ UNCHANGED executed
             /\ Enter(c, "resolved")
          \/ /\ ~AtEnd(c) /\ NextStep(c) = "fail" /\ End(c, "raised") /\ Execute(c)
             /\ UNCHANGED stage
    /\ turn' = [turn EXCEPT ![l] = None]
    /\ UNCHANGED <<workerVars, step, asked, target, ready>>

\* The task ends and its future is resolved.
TaskEnds(l) ==
    /\ turn[l] # None
    /\ LET c == turn[l] IN
          /\ \/ AtEnd(c) /\ End(c, "returned") /\ UNCHANGED executed
             \/ ~AtEnd(c) /\ NextStep(c) = "fail" /\ End(c, "raised") /\ Execute(c)
          /\ Enter(c, "resolved")
    /\ turn' = [turn EXCEPT ![l] = None]
    /\ UNCHANGED <<workerVars, step, asked, target, ready>>

-----------------------------------------------------------------------------

CallStep(c) ==
    \/ FastCode(c) \/ FastSuspends(c) \/ FastEnds(c) \/ ClosePartial(c)
    \/ EnterEnsure(c) \/ Ensure(c) \/ Submit(c) \/ ReturnResult(c)

LoopStep(l) == RunTask(l) \/ TaskCode(l) \/ TaskSuspends(l) \/ TaskEnds(l)

Runner(t) == (RunnerReady(t) \/ RunForever(t)) /\ UNCHANGED callVars

\* The process stays up when every call is done.
Idle == (\A c \in Calls : stage[c] = "done") /\ UNCHANGED allVars

CallNext ==
    \/ \E c \in Calls : BeginCall(c) \/ CallStep(c) \/ Wake(c)
    \/ \E l \in Threads : LoopStep(l) \/ Runner(l)
    \/ Idle

CallSpec == CallInit /\ [][CallNext]_allVars

(***************************************************************************)
(* Fairness: threads that can run are scheduled, threading.Lock wakes its  *)
(* waiters (see WorkerLoop), timers and sockets fire, and user code        *)
(* between two awaits ends.                                                *)
(***************************************************************************)
CallFairness ==
    /\ \A c \in Calls :
          /\ WF_allVars(CallStep(c))
          /\ SF_allVars(Acquire(ThreadOf[c]) /\ UNCHANGED callVars)
          /\ WF_allVars(Wake(c))
    /\ \A l \in Threads : WF_allVars(LoopStep(l)) /\ WF_allVars(Runner(l))

FairCallSpec == CallSpec /\ CallFairness

-----------------------------------------------------------------------------

\* Shape of the calls and of the loops they run on.
CallTypeOK ==
    /\ TypeOK
    /\ stage \in [Calls -> Stages]
    /\ step \in [Calls -> Nat \ {0}]
    /\ \A c \in Calls : executed[c] \in [DOMAIN Body[c] -> Nat]
    /\ frames \in [Calls -> SUBSET {"fast", "loop"}]
    /\ asked \in [Calls -> SUBSET (Threads \cup {"own"})]
    /\ outcome \in [Calls -> {"none", "returned", "raised", "no loop"}]
    /\ target \in [Calls -> Threads \cup {None}]
    /\ ready \in [Threads -> Seq(Calls)]
    /\ turn \in [Threads -> Calls \cup {None}]

(***************************************************************************)
(* A call never has two coroutines under way: the partial one is closed,   *)
(* its finally blocks included, before the fresh one begins, and none is   *)
(* left when the call returns.                                             *)
(***************************************************************************)
OneFrame ==
    \A c \in Calls :
        /\ Cardinality(frames[c]) <= 1
        /\ stage[c] = "done" => frames[c] = {}

FirstAwait(c) == CHOOSE i \in 1..Len(Body[c]) + 1 :
                    /\ i <= Len(Body[c]) => Body[c][i] \in Awaits
                    /\ \A j \in 1..i - 1 : Body[c][j] \notin Awaits

\* The last step the body reaches.
LastStep(c) == CHOOSE i \in 0..Len(Body[c]) :
                    /\ i < Len(Body[c]) => (i > 0 /\ Body[c][i] = "fail")
                    /\ \A j \in 1..i - 1 : Body[c][j] # "fail"

\* Whether the body comes to an await on a thread without a loop.
FastAwaits(c) == ~HasLoop(c) /\ FirstAwait(c) <= LastStep(c)

\* Whether that await asks for the loop, which is not there.
AsksForLoop(c) == FastAwaits(c) /\ Body[c][FirstAwait(c)] # "bare"

\* How often a call begins step i of its body.
Runs(c, i) ==
    IF i > LastStep(c) \/ (AsksForLoop(c) /\ i > FirstAwait(c)) THEN 0
    ELSE IF FastAwaits(c) /\ ~AsksForLoop(c) /\ i <= FirstAwait(c) THEN 2
    ELSE 1

(***************************************************************************)
(* "If the coroutine yields (real await), we close the partial coro and    *)
(* re-run on the worker loop" (_routing.py): what a call has run when it   *)
(* returns.  What ran twice is the part up to the first await, of calls    *)
(* from a thread without a loop whose first await is a bare suspension;    *)
(* if it asks for the loop instead, the call ends there with a             *)
(* RuntimeError, and nothing is run again; every other step that the body  *)
(* reaches runs once.                                                      *)
(***************************************************************************)
OnlyPrefixRunsTwice ==
    \A c \in Calls : stage[c] = "done" =>
        /\ outcome[c] = "no loop" <=> AsksForLoop(c)
        /\ \A i \in 1..Len(Body[c]) : executed[c][i] = Runs(c, i)

(***************************************************************************)
(* "For real-await coroutines we close the partial and re-run on the       *)
(* worker loop" (server.rs, and _routing.py says the same): no call comes  *)
(* back before its coroutine has run to its own end.                       *)
(***************************************************************************)
RealAwaitsAreRerun ==
    \A c \in Calls : stage[c] = "done" =>
        \A i \in 1..LastStep(c) : executed[c][i] >= 1

(***************************************************************************)
(* "Only take the fast path when no other loop is running on this thread"  *)
(* (_routing.py): no coroutine gets hold of the loop of the thread that    *)
(* called it; the loop it asks for is the one it was submitted to.         *)
(***************************************************************************)
AskedLoopIsWorkers == \A c \in Calls : asked[c] \subseteq {target[c]}

(***************************************************************************)
(* "This is correct from any thread (calling thread's running loop, if     *)
(* any, is irrelevant)" (_routing.py, _run_coro_blocking): every call      *)
(* returns to its caller.                                                  *)
(***************************************************************************)
CallsReturn == \A c \in Calls : (stage[c] # "idle") ~> (stage[c] = "done")
=============================================================================
