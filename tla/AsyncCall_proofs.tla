-------------------------- MODULE AsyncCall_proofs --------------------------
(***************************************************************************)
(* Proofs about WorkerLoop, for any set of threads, and about AsyncCall,   *)
(* for any calls, threads and coroutines: AsyncCall uses                   *)
(* _ensure_worker_loop as WorkerLoop specifies it, so that what is proved  *)
(* of WorkerLoop holds here, coroutines stay on the worker loop, no call   *)
(* has two coroutine objects under way, and what a rerun repeats is the    *)
(* part up to the first await.                                             *)
(***************************************************************************)
EXTENDS AsyncCall, FiniteSetTheorems, WellFoundedInduction, TLAPS

-----------------------------------------------------------------------------
(* _ensure_worker_loop *)

USE NoneAssumption

LEMMA TypeStep == TypeOK /\ [Next]_vars => TypeOK'
<1> SUFFICES ASSUME TypeOK, [Next]_vars PROVE TypeOK'
  OBVIOUS
<1> USE DEF TypeOK, Steps, LoopStates, Signalled, Goto
<1>1. CASE UNCHANGED vars
  BY <1>1 DEF vars
<1>2. ASSUME NEW t \in Threads, RunnerReady(t) \/ RunForever(t) PROVE TypeOK'
  BY <1>2 DEF RunnerReady, RunForever
<1>3. ASSUME NEW t \in Threads, Step(t) PROVE TypeOK'
  <2>1. CASE Call(t)  BY <2>1 DEF Call
  <2>2. CASE CheckLock(t)  BY <2>2 DEF CheckLock
  <2>3. CASE StoreLock(t)  BY <2>3 DEF StoreLock
  <2>4. CASE EvaluateLock(t)  BY <2>4 DEF EvaluateLock
  <2>5. CASE Acquire(t)  BY <2>5 DEF Acquire
  <2>6. CASE Recheck(t)  BY <2>6 DEF Recheck
  <2>7. CASE StartLoop(t)  BY <2>7 DEF StartLoop
  <2>8. CASE WaitReady(t)  BY <2>8 DEF WaitReady
  <2>9. CASE Publish(t)  BY <2>9 DEF Publish
  <2>10. CASE Release(t)  BY <2>10 DEF Release
  <2>11. CASE Return(t)  BY <2>11 DEF Return
  <2>12. QED
    BY <1>3, <2>1, <2>2, <2>3, <2>4, <2>5, <2>6, <2>7, <2>8, <2>9, <2>10, <2>11 DEF Step
<1>4. QED
  BY <1>1, <1>2, <1>3 DEF Next

-----------------------------------------------------------------------------

(***************************************************************************)
(* The strengthening of the safety invariants.  A thread evaluates its     *)
(* lock before it acquires it and holds that lock while it is inside the   *)
(* block; it owns a loop only from StartLoop on; between its second check  *)
(* and its own publish no other loop was made under its lock; a loop whose *)
(* creator has left the block has been published, and _WORKER_LOOP, once   *)
(* set, names a loop whose thread has signalled.                           *)
(***************************************************************************)
Creating(t) == pc[t] \in {"newLoop", "waitReady", "publish"}

LockDiscipline ==
    /\ \A t \in Threads : pc[t] = "with" => lockVar # None
    /\ \A t \in Threads : pc[t] = "acquire" => heldLock[t] # None
    /\ \A t \in Threads : InCriticalSection(t) =>
            heldLock[t] # None /\ holder[heldLock[t]] = t

CreationDiscipline ==
    /\ \A t \in Threads : loop[t] # "absent" =>
            /\ pc[t] \in {"idle", "waitReady", "publish", "release", "return"}
            /\ pc[t] \notin {"waitReady", "publish"} => loopVar # None
    /\ \A t, u \in Threads :
            Creating(t) /\ u # t /\ loop[u] # "absent" => heldLock[u] # heldLock[t]

Publication ==
    /\ loopVar # None => loop[loopVar] \in Signalled
    /\ \A t \in Threads : pc[t] = "publish" => loop[t] \in Signalled
    /\ \A t \in Threads : pc[t] \in {"release", "return"} => loopVar # None
    /\ \A t \in Threads : result[t] # None => loop[result[t]] \in Signalled

IInv ==
    /\ TypeOK
    /\ LockDiscipline
    /\ CreationDiscipline
    /\ Publication
    /\ OneLoopPerLock

LEMMA InitIInv == Init => IInv
  BY DEF Init, IInv, TypeOK, Steps, LoopStates, LockDiscipline, CreationDiscipline,
         Publication, OneLoopPerLock, InCriticalSection, Creating

LEMMA LockDisciplineStep == IInv /\ [Next]_vars => LockDiscipline'
<1> SUFFICES ASSUME IInv, [Next]_vars PROVE LockDiscipline'
  OBVIOUS
<1> USE DEF IInv, TypeOK, Steps, LockDiscipline, InCriticalSection, Goto
<1>1. CASE UNCHANGED vars
  BY <1>1 DEF vars
<1>2. ASSUME NEW t \in Threads, RunnerReady(t) \/ RunForever(t) PROVE LockDiscipline'
  BY <1>2 DEF RunnerReady, RunForever
<1>3. ASSUME NEW t \in Threads, Step(t) PROVE LockDiscipline'
  <2>1. CASE Call(t)  BY <2>1 DEF Call
  <2>2. CASE CheckLock(t)  BY <2>2 DEF CheckLock
  <2>3. CASE StoreLock(t)  BY <2>3 DEF StoreLock
  <2>4. CASE EvaluateLock(t)  BY <2>4 DEF EvaluateLock
  <2>5. CASE Acquire(t)  BY <2>5 DEF Acquire
  <2>6. CASE Recheck(t)  BY <2>6 DEF Recheck
  <2>7. CASE StartLoop(t)  BY <2>7 DEF StartLoop
  <2>8. CASE WaitReady(t)  BY <2>8 DEF WaitReady
  <2>9. CASE Publish(t)  BY <2>9 DEF Publish
  <2>10. CASE Release(t)  BY <2>10 DEF Release
  <2>11. CASE Return(t)  BY <2>11 DEF Return
  <2>12. QED
    BY <1>3, <2>1, <2>2, <2>3, <2>4, <2>5, <2>6, <2>7, <2>8, <2>9, <2>10, <2>11 DEF Step
<1>4. QED
  BY <1>1, <1>2, <1>3 DEF Next

LEMMA CreationStep ==
    IInv /\ [Next]_vars => CreationDiscipline' /\ Publication' /\ OneLoopPerLock'
<1> DEFINE Goal == CreationDiscipline /\ Publication /\ OneLoopPerLock
<1> SUFFICES ASSUME IInv, [Next]_vars PROVE Goal'
  OBVIOUS
<1> USE DEF IInv, TypeOK, Steps, LoopStates, Signalled, LockDiscipline, CreationDiscipline, Publication,
            OneLoopPerLock, InCriticalSection, Creating, Goto
<1>1. CASE UNCHANGED vars
  BY <1>1 DEF vars
<1>2. ASSUME NEW t \in Threads, RunnerReady(t) \/ RunForever(t) PROVE Goal'
  BY <1>2 DEF RunnerReady, RunForever
<1>3. ASSUME NEW t \in Threads, Step(t) PROVE Goal'
  <2>1. CASE Call(t)  BY <2>1 DEF Call
  <2>2. CASE CheckLock(t)  BY <2>2 DEF CheckLock
  <2>3. CASE StoreLock(t)  BY <2>3 DEF StoreLock
  <2>4. CASE EvaluateLock(t)  BY <2>4 DEF EvaluateLock
  <2>5. CASE Acquire(t)  BY <2>5 DEF Acquire
  <2>6. CASE Recheck(t)  BY <2>6 DEF Recheck
  <2>7. CASE StartLoop(t)  BY <2>7 DEF StartLoop
  <2>8. CASE WaitReady(t)  BY <2>8 DEF WaitReady
  <2>9. CASE Publish(t)  BY <2>9 DEF Publish
  <2>10. CASE Release(t)  BY <2>10 DEF Release
  <2>11. CASE Return(t)  BY <2>11 DEF Return
  <2>12. QED
    BY <1>3, <2>1, <2>2, <2>3, <2>4, <2>5, <2>6, <2>7, <2>8, <2>9, <2>10, <2>11 DEF Step
<1>4. QED
  BY <1>1, <1>2, <1>3 DEF Next

LEMMA Invariance == Spec => []IInv
<1>1. IInv /\ [Next]_vars => IInv'
  BY TypeStep, LockDisciplineStep, CreationStep DEF IInv
<1>2. QED
  BY InitIInv, <1>1, PTL DEF Spec

\* The state of _ensure_worker_loop keeps its shape.
THEOREM TypeCorrect == Spec => []TypeOK
<1>1. IInv => TypeOK
  BY DEF IInv
<1>2. QED
  BY Invariance, <1>1, PTL

\* No two loops of _ensure_worker_loop are created under one lock object,
\* whatever the number of racing threads.
THEOREM AtMostOneLoopPerLock == Spec => []OneLoopPerLock
<1>1. IInv => OneLoopPerLock
  BY DEF IInv
<1>2. QED
  BY Invariance, <1>1, PTL

\* Two callers inside the `with` of _ensure_worker_loop hold different locks.
THEOREM MutualExclusionPerLock == Spec => []ExclusivePerLock
<1>1. IInv => ExclusivePerLock
  BY DEF IInv, LockDiscipline, ExclusivePerLock
<1>2. QED
  BY Invariance, <1>1, PTL

\* Every loop _ensure_worker_loop hands out has a thread that has begun and signalled.
THEOREM OnlyReadyLoops == Spec => []ReturnedLoopIsReady
<1>1. IInv => ReturnedLoopIsReady
  BY DEF IInv, Publication, ReturnedLoopIsReady
<1>2. QED
  BY Invariance, <1>1, PTL

-----------------------------------------------------------------------------
(* The worker loop inside AsyncCall *)

LEMMA StepIsWorkerStep == [CallNext]_allVars => [Next]_vars
<1> SUFFICES ASSUME [CallNext]_allVars PROVE [Next]_vars
  OBVIOUS
<1>1. ASSUME NEW c \in Calls, EnterEnsure(c) \/ Ensure(c)
      PROVE  \E t \in Threads : Step(t)
  <2>1. ThreadOf[c] \in Threads
    BY CallsAssumption
  <2> QED
    BY <1>1, <2>1 DEF EnterEnsure, Ensure, Step
<1>2. ASSUME NEW c \in Calls,
             BeginCall(c) \/ FastCode(c) \/ FastSuspends(c) \/ FastEnds(c) \/ ClosePartial(c)
               \/ Submit(c) \/ ReturnResult(c) \/ Wake(c)
      PROVE  UNCHANGED workerVars
  BY <1>2 DEF BeginCall, FastCode, FastSuspends, FastEnds, ClosePartial, Submit,
              ReturnResult, Wake
<1>3. ASSUME NEW l \in Threads, LoopStep(l)
      PROVE  UNCHANGED workerVars
  BY <1>3 DEF LoopStep, RunTask, TaskCode, TaskSuspends, TaskEnds
<1>4. ASSUME NEW l \in Threads, Runner(l)
      PROVE  RunnerReady(l) \/ RunForever(l)
  BY <1>4 DEF Runner
<1>5. CASE UNCHANGED allVars
  BY <1>5 DEF allVars, vars
<1>6. CASE Idle
  BY <1>6 DEF Idle, allVars, vars
<1> QED
  BY <1>1, <1>2, <1>3, <1>4, <1>5, <1>6 DEF CallNext, CallStep, Next, workerVars, vars

(***************************************************************************)
(* The calls use the worker loop only through _ensure_worker_loop: their   *)
(* specification implements WorkerLoop's.                                  *)
(***************************************************************************)
THEOREM UsesWorkerLoop == CallSpec => Spec
<1>1. CallInit => Init
  BY DEF CallInit
<1> QED
  BY <1>1, StepIsWorkerStep, PTL DEF CallSpec, Spec

(***************************************************************************)
(* Whatever the calls are, each is submitted to a loop whose thread has    *)
(* begun, in run_forever or about to enter it.                             *)
(***************************************************************************)
THEOREM CallsGetReadyLoops == CallSpec => []ReturnedLoopIsReady
BY UsesWorkerLoop, OnlyReadyLoops, PTL

\* And no two loops come from one lock object.
THEOREM CallsShareLoops == CallSpec => []OneLoopPerLock
BY UsesWorkerLoop, AtMostOneLoopPerLock, PTL

-----------------------------------------------------------------------------
(* The loop a coroutine asks for *)

Submitted == {"queued", "waiting", "resolved", "done"}

QueueTypes ==
    /\ stage \in [Calls -> Stages]
    /\ asked \in [Calls -> SUBSET (Threads \cup {"own"})]
    /\ target \in [Calls -> Threads \cup {None}]
    /\ ready \in [Threads -> Seq(Calls)]
    /\ turn \in [Threads -> Calls \cup {None}]

\* A call sits in the queue, or has the turn, of the loop it was submitted to only.
Placed(c, l) == target[c] = l /\ stage[c] \in Submitted

QueuesOwn ==
    /\ \A l \in Threads : \A i \in 1..Len(ready[l]) : Placed(ready[l][i], l)
    /\ \A l \in Threads : turn[l] # None => Placed(turn[l], l)

\* Before it is submitted a coroutine has run without a loop, and was given none.
NoLoopBefore ==
    \A c \in Calls :
        /\ stage[c] = "fast" => ~HasLoop(c)
        /\ stage[c] \notin Submitted => asked[c] = {}

LoopInv == QueueTypes /\ QueuesOwn /\ NoLoopBefore /\ AskedLoopIsWorkers

LEMMA AppendFacts ==
    ASSUME NEW S, NEW s \in Seq(S), NEW e \in S
    PROVE  /\ Append(s, e) \in Seq(S)
           /\ Len(Append(s, e)) = Len(s) + 1
           /\ \A i \in 1..Len(s) : Append(s, e)[i] = s[i]
           /\ Append(s, e)[Len(s) + 1] = e
OBVIOUS

LEMMA TailFacts ==
    ASSUME NEW S, NEW s \in Seq(S), s # <<>>
    PROVE  /\ Tail(s) \in Seq(S)
           /\ Head(s) \in S
           /\ Head(s) = s[1]
           /\ Len(s) \in Nat \ {0}
           /\ Len(Tail(s)) = Len(s) - 1
           /\ \A i \in 1..Len(s) - 1 : Tail(s)[i] = s[i + 1]
OBVIOUS

\* Moving a call on, or submitting one that sits nowhere, disturbs no queue.
LEMMA QueuesKept ==
    ASSUME LoopInv, NEW c \in Calls, NEW place \in Stages, Enter(c, place),
           UNCHANGED <<ready, turn, target, asked>>,
           stage[c] \in Submitted => place \in Submitted,
           place = "fast" => ~HasLoop(c)
    PROVE  LoopInv'
<1> USE DEF LoopInv, Enter
<1>1. QueueTypes'
  BY DEF QueueTypes
<1>2. \A d \in Calls : stage[d] \in Submitted => stage'[d] \in Submitted
  BY DEF QueueTypes
<1>3. QueuesOwn'
  BY <1>2 DEF QueuesOwn, Placed, QueueTypes
<1>4. NoLoopBefore'
  BY DEF NoLoopBefore, QueueTypes, HasLoop
<1>5. AskedLoopIsWorkers'
  BY DEF AskedLoopIsWorkers
<1> QED
  BY <1>1, <1>3, <1>4, <1>5

LEMMA LoopInvInit == CallInit => LoopInv
<1> SUFFICES ASSUME CallInit PROVE LoopInv
  OBVIOUS
<1> USE DEF CallInit
<1>1. QueueTypes
  BY DEF QueueTypes, Stages
<1>2. QueuesOwn
  BY DEF QueuesOwn
<1>3. NoLoopBefore /\ AskedLoopIsWorkers
  BY DEF NoLoopBefore, AskedLoopIsWorkers
<1> QED
  BY <1>1, <1>2, <1>3 DEF LoopInv

\* Queue m after call c was put at the end of the queue of l, if l is a loop.
Appended(m, l, c) ==
    /\ ready'[m] \in Seq(Calls)
    /\ \A i \in 1..Len(ready'[m]) :
          \/ i \in 1..Len(ready[m]) /\ ready'[m][i] = ready[m][i]
          \/ m = l /\ ready'[m][i] = c

LEMMA Appending ==
    ASSUME LoopInv, NEW l, NEW c \in Calls, NEW m \in Threads,
           ready' = [ready EXCEPT ![l] = Append(@, c)]
    PROVE  Appended(m, l, c)
<1>1. ready[m] \in Seq(Calls) /\ ready \in [Threads -> Seq(Calls)]
  BY DEF LoopInv, QueueTypes
<1>2. CASE m = l
  <2>1. ready'[m] = Append(ready[m], c)
    BY <1>1, <1>2
  <2> QED
    BY <1>1, <1>2, <2>1, AppendFacts DEF Appended
<1>3. CASE m # l
  BY <1>1, <1>3 DEF Appended
<1> QED
  BY <1>2, <1>3

LEMMA StillOwn ==
    ASSUME QueuesOwn, NEW l, NEW c \in Calls, ready \in [Threads -> Seq(Calls)],
           turn \in [Threads -> Calls \cup {None}],
           \A m \in Threads : Appended(m, l, c),
           \A d \in Calls, m \in Threads : Placed(d, m) => Placed(d, m)',
           l \in Threads => Placed(c, l)',
           \A m \in Threads : turn'[m] \in {turn[m], None}
    PROVE  QueuesOwn'
<1>1. ASSUME NEW m \in Threads, NEW i \in 1..Len(ready'[m])
      PROVE  Placed(ready[m][i], m)'
  <2>1. CASE i \in 1..Len(ready[m]) /\ ready'[m][i] = ready[m][i]
    <3>1. ready[m][i] \in Calls /\ Placed(ready[m][i], m)
      BY <2>1 DEF QueuesOwn
    <3> QED
      BY <2>1, <3>1 DEF Placed
  <2>2. CASE m = l /\ ready'[m][i] = c
    BY <2>2 DEF Placed
  <2> QED
    BY <2>1, <2>2 DEF Appended
<1>2. ASSUME NEW m \in Threads, turn'[m] # None
      PROVE  Placed(turn[m], m)'
  <2>1. turn'[m] = turn[m] /\ turn[m] \in Calls /\ Placed(turn[m], m)
    BY <1>2 DEF QueuesOwn
  <2> QED
    BY <2>1 DEF Placed
<1> QED
  BY <1>1, <1>2 DEF QueuesOwn

LEMMA LoopInvStep == TypeOK /\ LoopInv /\ [CallNext]_allVars => LoopInv'
<1> SUFFICES ASSUME TypeOK, LoopInv, [CallNext]_allVars PROVE LoopInv'
  OBVIOUS
<1> USE CallsAssumption
<1>1. ASSUME NEW c \in Calls, BeginCall(c) PROVE LoopInv'
  <2>1. stage[c] \notin Submitted
    BY <1>1 DEF BeginCall, Submitted
  <2>2. CASE HasLoop(c)
    <3>1. Enter(c, "ensure")
      BY <1>1, <2>2 DEF BeginCall, HasLoop
    <3> QED
      BY <1>1, <2>1, <3>1, QueuesKept DEF BeginCall, loopVars, Stages
  <2>3. CASE ~HasLoop(c)
    <3>1. Enter(c, "fast")
      BY <1>1, <2>3 DEF BeginCall, HasLoop
    <3> QED
      BY <1>1, <2>1, <2>3, <3>1, QueuesKept DEF BeginCall, loopVars, Stages
  <2> QED
    BY <2>2, <2>3
<1>2. ASSUME NEW c \in Calls, FastSuspends(c) PROVE LoopInv'
  <2>1. stage[c] = "fast" /\ Enter(c, "close")
    BY <1>2 DEF FastSuspends
  <2>2. NextStep(c) = "bare"
    BY <1>2, <2>1 DEF FastSuspends, LacksLoop, LoopInv, NoLoopBefore
  <2>3. UNCHANGED asked
    BY <1>2, <2>2 DEF FastSuspends, LoopInv, QueueTypes
  <2> QED
    BY <1>2, <2>1, <2>3, QueuesKept DEF FastSuspends, loopVars, Submitted, Stages
<1>3. ASSUME NEW c \in Calls, FastEnds(c) \/ ClosePartial(c) \/ EnterEnsure(c) \/ ReturnResult(c)
      PROVE  LoopInv'
  <2>1. PICK place \in {"done", "ensure", "ensuring"} :
          /\ Enter(c, place)
          /\ place # "done" => stage[c] \notin Submitted
    BY <1>3 DEF FastEnds, ClosePartial, EnterEnsure, ReturnResult, Submitted
  <2>2. UNCHANGED <<ready, turn, target, asked>>
    BY <1>3 DEF FastEnds, ClosePartial, EnterEnsure, ReturnResult, coroVars, loopVars
  <2> QED
    BY <2>1, <2>2, QueuesKept DEF Stages, Submitted
<1>4. ASSUME NEW c \in Calls, Submit(c) PROVE LoopInv'
  <2>1. PICK l \in Threads \cup {None} : l = result[ThreadOf[c]]
    BY DEF TypeOK
  <2>2. /\ stage[c] = "ensuring" /\ Enter(c, "queued")
        /\ target' = [target EXCEPT ![c] = l]
        /\ UNCHANGED <<turn, asked>>
    BY <1>4, <2>1 DEF Submit, coroVars
  <2>3. ready' = [ready EXCEPT ![l] = Append(@, c)]
    BY <1>4, <2>1 DEF Submit
  <2>4. \A m \in Threads : Appended(m, l, c)
    BY <2>3, Appending
  <2>5. asked[c] = {}
    BY <2>2 DEF LoopInv, NoLoopBefore, Submitted
  <2>6. \A m \in Threads : ~Placed(c, m)
    BY <2>2 DEF Placed, Submitted
  <2>7. \A d \in Calls, m \in Threads : Placed(d, m) => Placed(d, m)'
    BY <2>2, <2>6 DEF Placed, Enter, LoopInv, QueueTypes
  <2>8. l \in Threads => Placed(c, l)'
    BY <2>2 DEF Placed, Enter, LoopInv, QueueTypes, Submitted
  <2>9. QueueTypes'
    BY <2>1, <2>2, <2>3, <2>4 DEF QueueTypes, LoopInv, Appended, Enter, Stages
  <2>10. QueuesOwn'
    BY <2>2, <2>4, <2>7, <2>8, StillOwn DEF LoopInv, QueueTypes
  <2>11. NoLoopBefore' /\ AskedLoopIsWorkers'
    BY <2>2, <2>5 DEF NoLoopBefore, AskedLoopIsWorkers, LoopInv, QueueTypes, Enter, HasLoop,
                      Submitted
  <2> QED
    BY <2>9, <2>10, <2>11 DEF LoopInv
<1>5. ASSUME NEW c \in Calls, Wake(c) PROVE LoopInv'
  <2>1. PICK l \in Threads \cup {None} : l = target[c]
    BY DEF LoopInv, QueueTypes
  <2>2. /\ stage[c] = "waiting" /\ Enter(c, "queued")
        /\ UNCHANGED <<turn, asked, target>>
    BY <1>5 DEF Wake
  <2>3. ready' = [ready EXCEPT ![l] = Append(@, c)]
    BY <1>5, <2>1 DEF Wake
  <2>4. \A m \in Threads : Appended(m, l, c)
    BY <2>3, Appending
  <2>5. \A d \in Calls, m \in Threads : Placed(d, m) => Placed(d, m)'
    BY <2>2 DEF Placed, Enter, LoopInv, QueueTypes, Submitted
  <2>6. l \in Threads => Placed(c, l)'
    BY <2>1, <2>2 DEF Placed, Enter, LoopInv, QueueTypes, Submitted
  <2>7. QueueTypes'
    BY <2>2, <2>3, <2>4 DEF QueueTypes, LoopInv, Appended, Enter, Stages
  <2>8. QueuesOwn'
    BY <2>2, <2>4, <2>5, <2>6, StillOwn DEF LoopInv, QueueTypes
  <2>9. NoLoopBefore' /\ AskedLoopIsWorkers'
    BY <2>2 DEF NoLoopBefore, AskedLoopIsWorkers, LoopInv, QueueTypes, Enter, HasLoop,
                Submitted
  <2> QED
    BY <2>7, <2>8, <2>9 DEF LoopInv
<1>6. ASSUME NEW l \in Threads, RunTask(l) PROVE LoopInv'
  <2>1. /\ ready[l] # <<>>
        /\ turn' = [turn EXCEPT ![l] = Head(ready[l])]
        /\ ready' = [ready EXCEPT ![l] = Tail(@)]
        /\ UNCHANGED <<stage, asked, target>>
    BY <1>6 DEF RunTask
  <2>2. ready[l] \in Seq(Calls)
    BY DEF LoopInv, QueueTypes
  <2>3. /\ Tail(ready[l]) \in Seq(Calls)
        /\ Head(ready[l]) \in Calls
        /\ Head(ready[l]) = ready[l][1]
        /\ 1 \in 1..Len(ready[l])
        /\ \A i \in 1..Len(Tail(ready[l])) : /\ i + 1 \in 1..Len(ready[l])
                                             /\ Tail(ready[l])[i] = ready[l][i + 1]
    BY <2>1, <2>2, TailFacts
  <2>4. QueueTypes'
    BY <2>1, <2>3 DEF LoopInv, QueueTypes
  <2>5. \A m \in Threads : \A i \in 1..Len(ready'[m]) : Placed(ready'[m][i], m)
    BY <2>1, <2>3 DEF LoopInv, QueueTypes, QueuesOwn
  <2>6. \A m \in Threads : turn'[m] # None => Placed(turn'[m], m)
    BY <2>1, <2>3 DEF LoopInv, QueueTypes, QueuesOwn
  <2>7. QueuesOwn'
    BY <2>1, <2>5, <2>6 DEF QueuesOwn, Placed
  <2>8. NoLoopBefore' /\ AskedLoopIsWorkers'
    BY <2>1 DEF NoLoopBefore, AskedLoopIsWorkers, LoopInv, HasLoop
  <2> QED
    BY <2>4, <2>7, <2>8 DEF LoopInv
<1>7. ASSUME NEW l \in Threads, TaskSuspends(l) PROVE LoopInv'
  <2> DEFINE c == turn[l]
  <2>1. c \in Calls /\ Placed(c, l)
    BY <1>7 DEF TaskSuspends, Has, LoopInv, QueueTypes, QueuesOwn
  <2>2. turn' = [turn EXCEPT ![l] = None] /\ UNCHANGED target
    BY <1>7 DEF TaskSuspends
  <2>3. CASE NextStep(c) = "bare"
    <3>1. ready' = [ready EXCEPT ![l] = Append(@, c)] /\ UNCHANGED <<stage, asked>>
      BY <1>7, <2>3 DEF TaskSuspends
    <3>2. \A m \in Threads : Appended(m, l, c)
      BY <2>1, <3>1, Appending
    <3>3. \A d \in Calls, m \in Threads : Placed(d, m) => Placed(d, m)'
      BY <2>2, <3>1 DEF Placed
    <3>4. QueueTypes'
      BY <2>1, <2>2, <3>1, <3>2 DEF QueueTypes, LoopInv, Appended
    <3>5. QueuesOwn'
      BY <2>1, <2>2, <3>2, <3>3, StillOwn DEF LoopInv, QueueTypes
    <3>6. NoLoopBefore' /\ AskedLoopIsWorkers'
      BY <2>2, <3>1 DEF NoLoopBefore, AskedLoopIsWorkers, LoopInv, HasLoop
    <3> QED
      BY <3>4, <3>5, <3>6 DEF LoopInv
  <2>4. CASE NextStep(c) # "bare"
    <3>1. /\ asked' = [asked EXCEPT ![c] = @ \cup {l}]
          /\ Enter(c, "waiting")
          /\ UNCHANGED ready
      BY <1>7, <2>4 DEF TaskSuspends
    <3>2. \A d \in Calls, m \in Threads : Placed(d, m) => Placed(d, m)'
      BY <2>2, <3>1 DEF Placed, Enter, LoopInv, QueueTypes, Submitted
    <3>3. QueueTypes'
      BY <2>1, <2>2, <3>1 DEF QueueTypes, LoopInv, Enter, Stages
    <3>4. QueuesOwn'
      BY <2>2, <3>1, <3>2 DEF LoopInv, QueueTypes, QueuesOwn
    <3>5. NoLoopBefore'
      BY <2>1, <3>1 DEF NoLoopBefore, LoopInv, QueueTypes, Enter, HasLoop, Submitted
    <3>6. AskedLoopIsWorkers'
      BY <2>1, <2>2, <3>1 DEF AskedLoopIsWorkers, LoopInv, QueueTypes, Placed
    <3> QED
      BY <3>3, <3>4, <3>5, <3>6 DEF LoopInv
  <2> QED
    BY <2>3, <2>4
<1>8. ASSUME NEW l \in Threads, TaskEnds(l) PROVE LoopInv'
  <2> DEFINE c == turn[l]
  <2>1. c \in Calls /\ Placed(c, l)
    BY <1>8 DEF TaskEnds, LoopInv, QueueTypes, QueuesOwn
  <2>2. /\ turn' = [turn EXCEPT ![l] = None]
        /\ Enter(c, "resolved")
        /\ UNCHANGED <<target, ready, asked>>
    BY <1>8 DEF TaskEnds
  <2>3. \A d \in Calls, m \in Threads : Placed(d, m) => Placed(d, m)'
    BY <2>2 DEF Placed, Enter, LoopInv, QueueTypes, Submitted
  <2>4. QueueTypes'
    BY <2>2 DEF QueueTypes, LoopInv, Enter, Stages
  <2>5. QueuesOwn'
    BY <2>2, <2>3 DEF LoopInv, QueueTypes, QueuesOwn
  <2>6. NoLoopBefore' /\ AskedLoopIsWorkers'
    BY <2>2 DEF NoLoopBefore, AskedLoopIsWorkers, LoopInv, QueueTypes, Enter, HasLoop,
                Submitted
  <2> QED
    BY <2>4, <2>5, <2>6 DEF LoopInv
<1>9. CASE UNCHANGED <<stage, asked, target, ready, turn>>
  BY <1>9 DEF LoopInv, QueueTypes, QueuesOwn, Placed, NoLoopBefore, AskedLoopIsWorkers, HasLoop
<1>10. ASSUME NEW c \in Calls, FastCode(c) \/ Ensure(c)
       PROVE  UNCHANGED <<stage, asked, target, ready, turn>>
  BY <1>10 DEF FastCode, Ensure, callVars, loopVars
<1>11. ASSUME NEW l \in Threads, TaskCode(l) \/ Runner(l)
       PROVE  UNCHANGED <<stage, asked, target, ready, turn>>
  BY <1>11 DEF TaskCode, Runner, callVars, loopVars
<1>12. Idle \/ UNCHANGED allVars => UNCHANGED <<stage, asked, target, ready, turn>>
  BY DEF Idle, allVars
<1> QED
  BY <1>1, <1>2, <1>3, <1>4, <1>5, <1>6, <1>7, <1>8, <1>9, <1>10, <1>11, <1>12
     DEF CallNext, CallStep, LoopStep

(***************************************************************************)
(* No coroutine gets hold of the loop of the thread that called it.        *)
(***************************************************************************)
THEOREM AskedLoops == CallSpec => []AskedLoopIsWorkers
<1>1. LoopInv => AskedLoopIsWorkers
  BY DEF LoopInv
<1> QED
  BY <1>1, LoopInvInit, LoopInvStep, UsesWorkerLoop, TypeCorrect, PTL DEF CallSpec

-----------------------------------------------------------------------------
(* The coroutine objects *)

\* A call that a worker loop has is queued, and the loop has it once.
HeldOnce ==
    /\ \A l \in Threads : \A i \in 1..Len(ready[l]) : stage[ready[l][i]] = "queued"
    /\ \A l \in Threads : turn[l] # None => stage[turn[l]] = "queued"
    /\ \A l \in Threads : \A i, j \in 1..Len(ready[l]) : ready[l][i] = ready[l][j] => i = j
    /\ \A l \in Threads : turn[l] # None => \A i \in 1..Len(ready[l]) : ready[l][i] # turn[l]

\* The objects a call may have at each stage.
FramesAt(place) ==
    CASE place \in {"fast", "close"} -> {"fast"}
      [] place \in {"queued", "waiting"} -> {"loop"}
      [] OTHER -> {}

FramesFit ==
    /\ frames \in [Calls -> SUBSET {"fast", "loop"}]
    /\ \A c \in Calls : frames[c] \subseteq FramesAt(stage[c])

FrameInv == HeldOnce /\ FramesFit

LEMMA FrameInvInit == CallInit => FrameInv
<1> SUFFICES ASSUME CallInit PROVE FrameInv
  OBVIOUS
<1> USE DEF CallInit
<1>1. HeldOnce
  BY DEF HeldOnce
<1>2. FramesFit
  BY DEF FramesFit
<1> QED
  BY <1>1, <1>2 DEF FrameInv

\* A call that no loop has may change its stage.
LEMMA HeldElsewhere ==
    ASSUME LoopInv, HeldOnce, NEW c \in Calls, NEW place \in Stages, Enter(c, place),
           stage[c] # "queued", UNCHANGED <<ready, turn>>
    PROVE  HeldOnce'
<1>1. \A d \in Calls : stage[d] = "queued" => stage'[d] = "queued"
  BY DEF Enter, LoopInv, QueueTypes
<1>2. /\ ready \in [Threads -> Seq(Calls)]
      /\ turn \in [Threads -> Calls \cup {None}]
  BY DEF LoopInv, QueueTypes
<1>3. \A l \in Threads : \A i \in 1..Len(ready[l]) : ready[l][i] \in Calls
  BY <1>2
<1>4. \A l \in Threads : \A i \in 1..Len(ready'[l]) : stage'[ready'[l][i]] = "queued"
  BY <1>1, <1>3 DEF HeldOnce
<1>5. \A l \in Threads : turn'[l] # None => stage'[turn'[l]] = "queued"
  BY <1>1, <1>2 DEF HeldOnce
<1> QED
  BY <1>4, <1>5 DEF HeldOnce

\* The stage and the objects of one call change together.
LEMMA FramesStill ==
    ASSUME LoopInv, FramesFit, NEW c \in Calls, NEW place \in Stages,
           stage' = [stage EXCEPT ![c] = place],
           NEW own \in SUBSET {"fast", "loop"}, frames' = [frames EXCEPT ![c] = own],
           own \subseteq FramesAt(place)
    PROVE  FramesFit'
BY DEF FramesFit, LoopInv, QueueTypes, FramesAt

\* Queue m after c, which it did not hold, was put at its end, if it is that of l.
Extended(m, l, c) ==
    IF m = l THEN /\ Len(ready'[m]) = Len(ready[m]) + 1
                  /\ \A i \in 1..Len(ready[m]) : ready'[m][i] = ready[m][i]
                  /\ ready'[m][Len(ready[m]) + 1] = c
    ELSE ready'[m] = ready[m]

LEMMA Extending ==
    ASSUME LoopInv, NEW l, NEW c \in Calls, NEW m \in Threads,
           ready' = [ready EXCEPT ![l] = Append(@, c)]
    PROVE  Extended(m, l, c)
<1>1. ready[m] \in Seq(Calls) /\ ready \in [Threads -> Seq(Calls)]
  BY DEF LoopInv, QueueTypes
<1>2. CASE m = l
  <2>1. ready'[m] = Append(ready[m], c)
    BY <1>1, <1>2
  <2> QED
    BY <1>1, <1>2, <2>1, AppendFacts DEF Extended
<1>3. CASE m # l
  BY <1>1, <1>3 DEF Extended
<1> QED
  BY <1>2, <1>3

\* Putting a call at the end of a queue when no loop has it, or none any more.
LEMMA HeldAppended ==
    ASSUME LoopInv, HeldOnce, NEW l, NEW c \in Calls,
           \A m \in Threads : Extended(m, l, c),
           \A m \in Threads : \A i \in 1..Len(ready[m]) : ready[m][i] # c,
           turn' \in [Threads -> Calls \cup {None}],
           \A m \in Threads : turn'[m] \in {turn[m], None} /\ turn'[m] # c,
           stage'[c] = "queued",
           \A d \in Calls : d # c => stage'[d] = stage[d]
    PROVE  HeldOnce'
<1>1. \A m \in Threads : ready[m] \in Seq(Calls) /\ Len(ready[m]) \in Nat
  BY DEF LoopInv, QueueTypes
<1>2. ASSUME NEW m \in Threads, NEW i \in 1..Len(ready'[m])
      PROVE  \/ i \in 1..Len(ready[m]) /\ ready'[m][i] = ready[m][i]
             \/ m = l /\ i = Len(ready[m]) + 1 /\ ready'[m][i] = c
  BY <1>1, <1>2 DEF Extended
<1>3. ASSUME NEW m \in Threads, NEW i \in 1..Len(ready'[m])
      PROVE  stage'[ready'[m][i]] = "queued"
  <2>1. CASE i \in 1..Len(ready[m]) /\ ready'[m][i] = ready[m][i]
    <3>1. ready[m][i] \in Calls /\ ready[m][i] # c /\ stage[ready[m][i]] = "queued"
      BY <1>1, <2>1 DEF HeldOnce
    <3> QED
      BY <2>1, <3>1
  <2>2. CASE ready'[m][i] = c
    BY <2>2
  <2> QED
    BY <1>2, <2>1, <2>2
<1>4. ASSUME NEW m \in Threads, turn'[m] # None
      PROVE  /\ stage'[turn'[m]] = "queued"
             /\ \A i \in 1..Len(ready'[m]) : ready'[m][i] # turn'[m]
  <2>1. turn'[m] = turn[m] /\ turn[m] # None /\ turn[m] # c /\ turn[m] \in Calls
    BY <1>4
  <2>2. stage[turn[m]] = "queued"
    BY <2>1 DEF HeldOnce
  <2>3. \A i \in 1..Len(ready[m]) : ready[m][i] # turn[m]
    BY <2>1 DEF HeldOnce
  <2>4. \A i \in 1..Len(ready'[m]) : ready'[m][i] # turn'[m]
    BY <1>2, <2>1, <2>3
  <2> QED
    BY <2>1, <2>2, <2>4
<1>5. ASSUME NEW m \in Threads, NEW i \in 1..Len(ready'[m]), NEW j \in 1..Len(ready'[m]),
             ready'[m][i] = ready'[m][j]
      PROVE  i = j
  <2>1. CASE i \in 1..Len(ready[m]) /\ j \in 1..Len(ready[m])
    <3>1. ready'[m][i] = ready[m][i] /\ ready'[m][j] = ready[m][j]
      BY <1>1, <1>2, <2>1
    <3> QED
      BY <1>5, <2>1, <3>1 DEF HeldOnce
  <2>2. CASE i \notin 1..Len(ready[m]) \/ j \notin 1..Len(ready[m])
    BY <1>2, <1>5, <2>2
  <2> QED
    BY <2>1, <2>2
<1> QED
  BY <1>3, <1>4, <1>5 DEF HeldOnce

LEMMA FrameInvStep == LoopInv /\ FrameInv /\ [CallNext]_allVars => FrameInv'
<1> SUFFICES ASSUME LoopInv, FrameInv, [CallNext]_allVars PROVE FrameInv'
  OBVIOUS
<1> USE CallsAssumption
<1>0. HeldOnce /\ FramesFit
  BY DEF FrameInv
<1>1. ASSUME NEW c \in Calls, BeginCall(c) PROVE FrameInv'
  <2>1. PICK place \in {"ensure", "fast"} :
          /\ Enter(c, place)
          /\ place = "ensure" => UNCHANGED frames
          /\ place = "fast" => frames' = [frames EXCEPT ![c] = {"fast"}]
    BY <1>1 DEF BeginCall
  <2>2. stage[c] = "idle" /\ UNCHANGED <<ready, turn>>
    BY <1>1 DEF BeginCall, loopVars
  <2>3. HeldOnce'
    BY <1>0, <2>1, <2>2, HeldElsewhere DEF Stages
  <2>4. frames[c] = {}
    BY <1>0, <2>2 DEF FramesFit, FramesAt
  <2>5. frames' = [frames EXCEPT ![c] = IF place = "fast" THEN {"fast"} ELSE {}]
    BY <1>0, <2>1, <2>4 DEF FramesFit
  <2>6. FramesFit'
    BY <1>0, <2>1, <2>5, FramesStill DEF Stages, Enter, FramesAt
  <2> QED
    BY <2>3, <2>6 DEF FrameInv
<1>2. ASSUME NEW c \in Calls, FastSuspends(c) PROVE FrameInv'
  <2>1. /\ stage[c] = "fast" /\ Enter(c, "close") /\ UNCHANGED <<ready, turn, frames>>
    BY <1>2 DEF FastSuspends, loopVars
  <2>2. HeldOnce'
    BY <1>0, <2>1, HeldElsewhere DEF Stages
  <2>3. FramesFit'
    BY <1>0, <2>1 DEF FramesFit, FramesAt, Enter, LoopInv, QueueTypes
  <2> QED
    BY <2>2, <2>3 DEF FrameInv
<1>3. ASSUME NEW c \in Calls, FastEnds(c) \/ ClosePartial(c) PROVE FrameInv'
  <2>1. PICK place \in {"done", "ensure"} : Enter(c, place)
    BY <1>3 DEF FastEnds, ClosePartial
  <2>2. /\ stage[c] # "queued" /\ UNCHANGED <<ready, turn>>
        /\ frames' = [frames EXCEPT ![c] = {}]
    BY <1>3 DEF FastEnds, ClosePartial, End, loopVars
  <2>3. HeldOnce'
    BY <1>0, <2>1, <2>2, HeldElsewhere DEF Stages
  <2>4. FramesFit'
    BY <1>0, <2>1, <2>2, FramesStill DEF Stages, Enter, FramesAt
  <2> QED
    BY <2>3, <2>4 DEF FrameInv
<1>4. ASSUME NEW c \in Calls, EnterEnsure(c) \/ ReturnResult(c) PROVE FrameInv'
  <2>1. PICK place \in {"done", "ensuring"} : Enter(c, place)
    BY <1>4 DEF EnterEnsure, ReturnResult
  <2>2. stage[c] \in {"ensure", "resolved"} /\ UNCHANGED <<ready, turn, frames>>
    BY <1>4 DEF EnterEnsure, ReturnResult, loopVars, coroVars
  <2>3. HeldOnce'
    BY <1>0, <2>1, <2>2, HeldElsewhere DEF Stages
  <2>4. FramesFit'
    BY <1>0, <2>1, <2>2 DEF FramesFit, FramesAt, Enter, LoopInv, QueueTypes
  <2> QED
    BY <2>3, <2>4 DEF FrameInv
<1>5. ASSUME NEW c \in Calls, Submit(c) \/ Wake(c) PROVE FrameInv'
  <2>1. /\ Enter(c, "queued") /\ stage[c] \in {"ensuring", "waiting"}
        /\ UNCHANGED <<turn, frames>>
    BY <1>5 DEF Submit, Wake, coroVars
  <2>2. PICK l : ready' = [ready EXCEPT ![l] = Append(@, c)]
    BY <1>5 DEF Submit, Wake
  <2>3. \A m \in Threads : Extended(m, l, c)
    BY <2>2, Extending
  <2>4. \A m \in Threads : \A i \in 1..Len(ready[m]) : ready[m][i] # c
    BY <1>0, <2>1 DEF HeldOnce
  <2>5. \A m \in Threads : turn[m] # c
    BY <1>0, <2>1 DEF HeldOnce
  <2>6. stage'[c] = "queued" /\ \A d \in Calls : d # c => stage'[d] = stage[d]
    BY <2>1 DEF Enter, LoopInv, QueueTypes
  <2>7. turn' \in [Threads -> Calls \cup {None}]
    BY <2>1 DEF LoopInv, QueueTypes
  <2>8. HeldOnce'
    BY <1>0, <2>1, <2>3, <2>4, <2>5, <2>6, <2>7, HeldAppended
  <2>9. FramesFit'
    BY <1>0, <2>1, <2>6 DEF FramesFit, FramesAt
  <2> QED
    BY <2>8, <2>9 DEF FrameInv
<1>6. ASSUME NEW l \in Threads, RunTask(l) PROVE FrameInv'
  <2> DEFINE c == Head(ready[l])
  <2>1. /\ ready[l] # <<>> /\ turn[l] = None
        /\ turn' = [turn EXCEPT ![l] = c]
        /\ ready' = [ready EXCEPT ![l] = Tail(@)]
        /\ frames' = [frames EXCEPT ![c] = @ \cup {"loop"}]
        /\ UNCHANGED stage
    BY <1>6 DEF RunTask
  <2>2. /\ ready \in [Threads -> Seq(Calls)]
        /\ turn \in [Threads -> Calls \cup {None}]
        /\ stage \in [Calls -> Stages]
    BY DEF LoopInv, QueueTypes
  <2>3. /\ c \in Calls /\ c = ready[l][1]
        /\ Len(ready[l]) \in Nat \ {0}
        /\ Len(Tail(ready[l])) = Len(ready[l]) - 1
        /\ \A i \in 1..Len(ready[l]) - 1 : Tail(ready[l])[i] = ready[l][i + 1]
    BY <2>1, <2>2, TailFacts
  <2>4. stage[c] = "queued"
    BY <1>0, <2>3 DEF HeldOnce
  <2> HIDE DEF c
  <2>5. /\ turn'[l] = c /\ ready'[l] = Tail(ready[l])
        /\ \A m \in Threads : m # l => turn'[m] = turn[m] /\ ready'[m] = ready[m]
    BY <2>1, <2>2
  <2>6. \A i \in 1..Len(ready'[l]) : i + 1 \in 1..Len(ready[l]) /\ ready'[l][i] = ready[l][i + 1]
    BY <2>3, <2>5
  <2>7. \A m \in Threads : \A i \in 1..Len(ready'[m]) : stage'[ready'[m][i]] = "queued"
    BY <1>0, <2>1, <2>5, <2>6 DEF HeldOnce
  <2>8. \A m \in Threads : turn'[m] # None => stage'[turn'[m]] = "queued"
    BY <1>0, <2>1, <2>4, <2>5 DEF HeldOnce
  <2>9. \A m \in Threads : \A i, j \in 1..Len(ready'[m]) : ready'[m][i] = ready'[m][j] => i = j
    <3>1. ASSUME NEW i \in 1..Len(ready'[l]), NEW j \in 1..Len(ready'[l]), ready'[l][i] = ready'[l][j]
          PROVE  i = j
      <4>1. i + 1 = j + 1
        BY <1>0, <2>6, <3>1 DEF HeldOnce
      <4> QED
        BY <4>1
    <3> QED
      BY <1>0, <2>5, <3>1 DEF HeldOnce
  <2>10. \A m \in Threads : turn'[m] # None => \A i \in 1..Len(ready'[m]) : ready'[m][i] # turn'[m]
    <3>1. ASSUME NEW i \in 1..Len(ready'[l]) PROVE ready'[l][i] # c
      <4>1. i + 1 # 1 /\ 1 \in 1..Len(ready[l])
        BY <2>3
      <4> QED
        BY <1>0, <2>3, <2>6, <4>1 DEF HeldOnce
    <3>2. ASSUME NEW m \in Threads, m # l, turn'[m] # None, NEW i \in 1..Len(ready'[m])
          PROVE  ready'[m][i] # turn'[m]
      <4>1. turn'[m] = turn[m] /\ ready'[m] = ready[m]
        BY <2>5, <3>2
      <4> QED
        BY <1>0, <3>2, <4>1 DEF HeldOnce
    <3>3. ASSUME NEW m \in Threads, turn'[m] # None, NEW i \in 1..Len(ready'[m])
          PROVE  ready'[m][i] # turn'[m]
      <4>1. CASE m = l
        BY <2>5, <3>1, <3>3, <4>1
      <4>2. CASE m # l
        BY <3>2, <3>3, <4>2
      <4> QED
        BY <4>1, <4>2
    <3> QED
      BY <3>3
  <2>11. HeldOnce'
    BY <2>7, <2>8, <2>9, <2>10 DEF HeldOnce
  <2>12. FramesFit'
    BY <1>0, <2>1, <2>2, <2>3, <2>4 DEF FramesFit, FramesAt
  <2> QED
    BY <2>11, <2>12 DEF FrameInv
<1>7. ASSUME NEW l \in Threads, TaskSuspends(l) \/ TaskEnds(l) PROVE FrameInv'
  <2> DEFINE c == turn[l]
  <2>1. c \in Calls /\ target[c] = l /\ stage[c] = "queued"
    BY <1>0, <1>7 DEF TaskSuspends, Has, TaskEnds, LoopInv, QueueTypes, QueuesOwn, Placed, HeldOnce
  <2>2. turn' = [turn EXCEPT ![l] = None] /\ turn \in [Threads -> Calls \cup {None}]
    BY <1>7 DEF TaskSuspends, TaskEnds, LoopInv, QueueTypes
  <2>3. \A m \in Threads : \A i \in 1..Len(ready[m]) : ready[m][i] # c
    <3>1. ASSUME NEW m \in Threads, NEW i \in 1..Len(ready[m]), ready[m][i] = c
          PROVE  FALSE
      <4>1. target[c] = m
        BY <3>1 DEF LoopInv, QueuesOwn, Placed
      <4>2. m = l /\ turn[l] # None
        BY <2>1, <4>1
      <4> QED
        BY <1>0, <3>1, <4>2 DEF HeldOnce
    <3> QED
      BY <3>1
  <2>4. \A m \in Threads : turn'[m] \in {turn[m], None} /\ turn'[m] # c
    <3>1. ASSUME NEW m \in Threads, m # l, turn[m] = c PROVE FALSE
      BY <2>1, <3>1 DEF LoopInv, QueuesOwn, Placed
    <3> QED
      BY <2>1, <2>2, <3>1
  <2>5. turn' \in [Threads -> Calls \cup {None}]
    BY <2>2
  <2> HIDE DEF c
  <2>6. CASE ready' = [ready EXCEPT ![l] = Append(@, c)] /\ UNCHANGED <<stage, frames>>
    <3>1. \A m \in Threads : Extended(m, l, c)
      BY <2>1, <2>6, Extending
    <3>2. HeldOnce'
      BY <1>0, <2>1, <2>3, <2>4, <2>5, <2>6, <3>1, HeldAppended
    <3> QED
      BY <1>0, <2>6, <3>2 DEF FrameInv, FramesFit
  <2>7. CASE /\ UNCHANGED ready
             /\ \/ Enter(c, "waiting") /\ UNCHANGED frames
                \/ Enter(c, "resolved") /\ frames' = [frames EXCEPT ![c] = {}]
    <3>1. \A d \in Calls : d # c => stage'[d] = stage[d]
      BY <2>7 DEF Enter, LoopInv, QueueTypes
    <3>2. ready \in [Threads -> Seq(Calls)]
      BY DEF LoopInv, QueueTypes
    <3>3. \A m \in Threads : \A i \in 1..Len(ready[m]) : ready[m][i] \in Calls
      BY <3>2
    <3>4. \A m \in Threads : \A i \in 1..Len(ready'[m]) : stage'[ready'[m][i]] = "queued"
      BY <1>0, <2>3, <2>7, <3>1, <3>3 DEF HeldOnce
    <3>5. \A m \in Threads : turn'[m] # None => stage'[turn'[m]] = "queued"
      BY <1>0, <2>2, <2>4, <3>1 DEF HeldOnce
    <3>6. \A m \in Threads : turn'[m] # None =>
             \A i \in 1..Len(ready'[m]) : ready'[m][i] # turn'[m]
      BY <1>0, <2>4, <2>7 DEF HeldOnce
    <3>7. HeldOnce'
      BY <1>0, <2>7, <3>4, <3>5, <3>6 DEF HeldOnce
    <3>8. FramesFit'
      <4>1. CASE Enter(c, "waiting") /\ UNCHANGED frames
        BY <1>0, <2>1, <4>1 DEF FramesFit, FramesAt, Enter, LoopInv, QueueTypes
      <4>2. CASE Enter(c, "resolved") /\ frames' = [frames EXCEPT ![c] = {}]
        BY <1>0, <2>1, <4>2 DEF FramesFit, FramesAt, Enter, LoopInv, QueueTypes
      <4> QED
        BY <2>7, <4>1, <4>2
    <3> QED
      BY <3>7, <3>8 DEF FrameInv
  <2> QED
    BY <1>7, <2>6, <2>7 DEF TaskSuspends, TaskEnds, End, c
<1>8. CASE UNCHANGED <<stage, frames, ready, turn>>
  BY <1>0, <1>8 DEF FrameInv, HeldOnce, FramesFit
<1>9. ASSUME NEW c \in Calls, FastCode(c) \/ Ensure(c)
      PROVE  UNCHANGED <<stage, frames, ready, turn>>
  BY <1>9 DEF FastCode, Ensure, callVars, loopVars
<1>10. ASSUME NEW l \in Threads, TaskCode(l) \/ Runner(l)
       PROVE  UNCHANGED <<stage, frames, ready, turn>>
  BY <1>10 DEF TaskCode, Runner, callVars, loopVars
<1>11. Idle \/ UNCHANGED allVars => UNCHANGED <<stage, frames, ready, turn>>
  BY DEF Idle, allVars
<1> QED
  BY <1>1, <1>2, <1>3, <1>4, <1>5, <1>6, <1>7, <1>8, <1>9, <1>10, <1>11
     DEF CallNext, CallStep, LoopStep

LEMMA AtMostOne == FramesFit => OneFrame
<1> SUFFICES ASSUME FramesFit PROVE OneFrame
  OBVIOUS
<1>1. ASSUME NEW c \in Calls PROVE Cardinality(frames[c]) <= 1
  <2>1. frames[c] = {} \/ frames[c] = {"fast"} \/ frames[c] = {"loop"}
    BY DEF FramesFit, FramesAt
  <2>2. Cardinality({}) = 0
    BY FS_EmptySet
  <2>3. \A x : Cardinality({x}) = 1
    BY FS_Singleton
  <2>4. Cardinality({"fast"}) = 1 /\ Cardinality({"loop"}) = 1
    BY <2>3
  <2>5. CASE frames[c] = {}
    BY <2>2, <2>5
  <2>6. CASE frames[c] = {"fast"}
    BY <2>4, <2>6
  <2>7. CASE frames[c] = {"loop"}
    BY <2>4, <2>7
  <2> QED
    BY <2>1, <2>5, <2>6, <2>7
<1>2. ASSUME NEW c \in Calls, stage[c] = "done" PROVE frames[c] = {}
  BY <1>2 DEF FramesFit, FramesAt
<1> QED
  BY <1>1, <1>2 DEF OneFrame

(***************************************************************************)
(* No call ever has two coroutines under way, whatever awaits, fails or is *)
(* called from where.                                                      *)
(***************************************************************************)
THEOREM NeverTwoFrames == CallSpec => []OneFrame
<1>1. FrameInv => OneFrame
  BY AtMostOne DEF FrameInv
<1> QED
  BY <1>1, FrameInvInit, FrameInvStep, LoopInvInit, LoopInvStep, UsesWorkerLoop, TypeCorrect, PTL
     DEF CallSpec

-----------------------------------------------------------------------------
(* Types *)

CoroTypes ==
    /\ step \in [Calls -> Nat \ {0}]
    /\ executed = [c \in Calls |-> executed[c]]
    /\ \A c \in Calls : executed[c] \in [DOMAIN Body[c] -> Nat]
    /\ outcome \in [Calls -> {"none", "returned", "raised", "no loop"}]

LEMMA CoroTypesInit == CallInit => CoroTypes
BY CallsAssumption DEF CallInit, CoroTypes

LEMMA Counting ==
    ASSUME NEW S, NEW N \in SUBSET Nat, NEW f \in [S -> N], NEW x,
           \A n \in N : n + 1 \in N
    PROVE  [f EXCEPT ![x] = @ + 1] \in [S -> N]
<1>1. CASE x \in S
  <2>1. f[x] \in N
    BY <1>1
  <2>2. f[x] + 1 \in N
    BY <2>1
  <2> DEFINE v == f[x] + 1
  <2>3. v \in N
    BY <2>2
  <2> HIDE DEF v
  <2>4. [f EXCEPT ![x] = v] \in [S -> N]
    BY <2>3
  <2> QED
    BY <2>4 DEF v
<1>2. CASE x \notin S
  <2>1. [f EXCEPT ![x] = f[x] + 1] = f
    BY <1>2
  <2> QED
    BY <2>1
<1> QED
  BY <1>1, <1>2

\* One more execution of a step keeps the counters.
LEMMA Executing ==
    ASSUME CoroTypes, NEW c \in Calls, Execute(c)
    PROVE  /\ executed' = [d \in Calls |-> executed'[d]]
           /\ \A d \in Calls : executed'[d] \in [DOMAIN Body[d] -> Nat]
<1>1. executed' = [executed EXCEPT ![c] = [executed[c] EXCEPT ![step[c]] = @ + 1]]
  BY DEF Execute
<1>2. [executed[c] EXCEPT ![step[c]] = @ + 1] \in [DOMAIN Body[c] -> Nat]
  <2>1. executed[c] \in [DOMAIN Body[c] -> Nat]
    BY DEF CoroTypes
  <2>2. Nat \in SUBSET Nat /\ \A n \in Nat : n + 1 \in Nat
    OBVIOUS
  <2> DEFINE S == DOMAIN Body[c]
             f == executed[c]
             x == step[c]
  <2>3. f \in [S -> Nat]
    BY <2>1
  <2> HIDE DEF S, f, x
  <2>4. [f EXCEPT ![x] = @ + 1] \in [S -> Nat]
    BY <2>2, <2>3, Counting
  <2> QED
    BY <2>4 DEF S, f, x
<1> QED
  BY <1>1, <1>2 DEF CoroTypes

LEMMA CoroTypesStep == LoopInv /\ CoroTypes /\ [CallNext]_allVars => CoroTypes'
<1> SUFFICES ASSUME LoopInv, CoroTypes, [CallNext]_allVars PROVE CoroTypes'
  OBVIOUS
<1> DEFINE Moves(c) ==
        /\ step' \in {step, [step EXCEPT ![c] = @ + 1], [step EXCEPT ![c] = 1]}
        /\ Execute(c) \/ UNCHANGED executed
        /\ \/ UNCHANGED outcome
           \/ \E how \in {"returned", "raised", "no loop"} : outcome' = [outcome EXCEPT ![c] = how]
<1>1. ASSUME NEW c \in Calls, Moves(c) PROVE CoroTypes'
  <2>1. step' \in [Calls -> Nat \ {0}]
    <3>1. step \in [Calls -> Nat \ {0}]
      BY DEF CoroTypes
    <3>2. [step EXCEPT ![c] = @ + 1] \in [Calls -> Nat \ {0}]
      BY <3>1, Counting
    <3>3. [step EXCEPT ![c] = 1] \in [Calls -> Nat \ {0}]
      BY <3>1
    <3> QED
      BY <1>1, <3>1, <3>2, <3>3
  <2>2. outcome' \in [Calls -> {"none", "returned", "raised", "no loop"}]
    BY <1>1 DEF CoroTypes
  <2>3. /\ executed' = [d \in Calls |-> executed'[d]]
        /\ \A d \in Calls : executed'[d] \in [DOMAIN Body[d] -> Nat]
    BY <1>1, Executing DEF CoroTypes
  <2> QED
    BY <2>1, <2>2, <2>3 DEF CoroTypes
<1>2. CASE UNCHANGED <<step, executed, outcome>>
  BY <1>2 DEF CoroTypes
<1>3. ASSUME NEW c \in Calls, CallStep(c) \/ BeginCall(c) \/ Wake(c)
      PROVE  Moves(c) \/ UNCHANGED <<step, executed, outcome>>
  BY <1>3 DEF CallStep, BeginCall, Wake, FastCode, FastSuspends, FastEnds, ClosePartial,
              EnterEnsure, Ensure, Submit, ReturnResult, Proceed, End, coroVars, callVars
<1>4. ASSUME NEW l \in Threads, LoopStep(l)
      PROVE  \/ turn[l] \in Calls /\ Moves(turn[l])
             \/ UNCHANGED <<step, executed, outcome>>
  <2>1. turn[l] # None => turn[l] \in Calls
    BY DEF LoopInv, QueueTypes
  <2> QED
    BY <1>4, <2>1 DEF LoopStep, RunTask, TaskCode, TaskSuspends, TaskEnds, Has, Proceed, End
<1>5. ASSUME NEW l \in Threads, Runner(l) PROVE UNCHANGED <<step, executed, outcome>>
  BY <1>5 DEF Runner, callVars
<1>6. Idle \/ UNCHANGED allVars => UNCHANGED <<step, executed, outcome>>
  BY DEF Idle, allVars
<1> HIDE DEF Moves
<1> QED
  BY <1>1, <1>2, <1>3, <1>4, <1>5, <1>6 DEF CallNext

\* The shape of the calls and of the loops they run on.
THEOREM CallTypeCorrect == CallSpec => []CallTypeOK
<1>1. TypeOK /\ LoopInv /\ FrameInv /\ CoroTypes => CallTypeOK
  BY DEF LoopInv, QueueTypes, FrameInv, FramesFit, CoroTypes, CallTypeOK
<1> QED
  BY <1>1, CoroTypesInit, CoroTypesStep, FrameInvInit, FrameInvStep, LoopInvInit, LoopInvStep,
     UsesWorkerLoop, TypeCorrect, PTL DEF CallSpec

-----------------------------------------------------------------------------
(* How often each step runs *)

\* The first await of c's coroutine, if it comes to one.
Suspends(c, p) ==
    /\ p \in 1..Len(Body[c]) /\ Body[c][p] \in Awaits
    /\ \A j \in 1..p - 1 : Body[c][j] = "code"

\* A first run has got to its end at i or beyond, and was thrown away there.
RanBefore(c, i) ==
    /\ ~HasLoop(c)
    /\ \E p \in 1..Len(Body[c]) : i <= p /\ Suspends(c, p) /\ Body[c][p] = "bare"

\* No first run of c ends at an await that asks for the loop.
Completes(c) ==
    HasLoop(c) \/ \A p \in 1..Len(Body[c]) : Suspends(c, p) => Body[c][p] = "bare"

\* The run that is under way, or was the last, has begun step i.
Begun(i, place, at, how) ==
    i < at \/ (i = at /\ (place \in {"close", "waiting"} \/ how \in {"raised", "no loop"}))

Once(b) == IF b THEN 1 ELSE 0

FirstRun == {"idle", "fast", "close"}

(***************************************************************************)
(* Inductive: the counters at each stage.  The first run counts each step  *)
(* it began once, and all it began is code but for the last; a second run  *)
(* begins at the first step and adds one to each it begins; a coroutine    *)
(* ends behind its last step or at one that fails, and passes none that    *)
(* does; what comes after a first run that suspended, or ended of its own, *)
(* belongs to a call whose first await asks for no loop, or that has one.  *)
(***************************************************************************)
RunFits(c, place, at, counts, how) ==
    /\ at \in 1..Len(Body[c]) + 1
    /\ \A j \in 1..at - 1 : Body[c][j] # "fail"
    /\ \A i \in 1..Len(Body[c]) :
          counts[i] = Once(Begun(i, place, at, how))
                      + Once(place \notin FirstRun /\ RanBefore(c, i))
    /\ place \in {"fast", "close"} => ~HasLoop(c) /\ \A j \in 1..at - 1 : Body[c][j] = "code"
    /\ place \in {"idle", "ensure", "ensuring"} => at = 1
    /\ place \in {"close", "waiting"} => at <= Len(Body[c]) /\ Body[c][at] \in Awaits
    /\ place \in {"resolved", "done"} <=> how # "none"
    /\ how = "returned" => at = Len(Body[c]) + 1
    /\ how = "raised" => at <= Len(Body[c]) /\ Body[c][at] = "fail"
    /\ place = "close" => Body[c][at] = "bare"
    /\ how = "no loop" => ~HasLoop(c) /\ Suspends(c, at) /\ Body[c][at] # "bare"
    /\ place \notin {"idle", "fast"} /\ how # "no loop" => Completes(c)

RunsFit == \A c \in Calls : RunFits(c, stage[c], step[c], executed[c], outcome[c])

LEMMA BodyFacts ==
    ASSUME NEW c \in Calls
    PROVE  /\ Len(Body[c]) \in Nat
           /\ DOMAIN Body[c] = 1..Len(Body[c])
           /\ \A i \in 1..Len(Body[c]) : Body[c][i] \in {"code", "fail"} \cup Awaits
<1>1. Body[c] \in Seq({"code", "fail"} \cup Awaits)
  BY CallsAssumption
<1> QED
  BY <1>1

LEMMA SuspendsOnce ==
    ASSUME NEW c \in Calls, NEW p, NEW q, Suspends(c, p), Suspends(c, q)
    PROVE  p = q
<1>1. Len(Body[c]) \in Nat /\ p \in 1..Len(Body[c]) /\ q \in 1..Len(Body[c])
  BY BodyFacts DEF Suspends
<1>2. ~(p < q) /\ ~(q < p)
  BY <1>1 DEF Suspends, Awaits
<1> QED
  BY <1>1, <1>2

LEMMA OneCounted ==
    ASSUME NEW c \in Calls, NEW counts \in [DOMAIN Body[c] -> Nat], NEW at \in 1..Len(Body[c]),
           NEW i \in 1..Len(Body[c])
    PROVE  /\ counts[i] \in Nat
           /\ [counts EXCEPT ![at] = @ + 1][i] = IF i = at THEN counts[i] + 1 ELSE counts[i]
BY BodyFacts

\* A step that does not suspend for long, and is not the last.
LEMMA StepCounted ==
    ASSUME NEW c \in Calls, NEW counts \in [DOMAIN Body[c] -> Nat],
           NEW place \in {"fast", "queued"}, NEW at, RunFits(c, place, at, counts, "none"),
           at <= Len(Body[c]), Body[c][at] # "fail", place = "fast" => Body[c][at] = "code"
    PROVE  RunFits(c, place, at + 1, [counts EXCEPT ![at] = @ + 1], "none")
<1>1. at \in 1..Len(Body[c]) /\ Len(Body[c]) \in Nat
  BY BodyFacts DEF RunFits
<1>2. ASSUME NEW i \in 1..Len(Body[c])
      PROVE  [counts EXCEPT ![at] = @ + 1][i] = Once(Begun(i, place, at + 1, "none"))
                      + Once(place \notin FirstRun /\ RanBefore(c, i))
  <2>1. counts[i] = Once(Begun(i, place, at, "none"))
                      + Once(place \notin FirstRun /\ RanBefore(c, i))
    BY DEF RunFits
  <2>2. [counts EXCEPT ![at] = @ + 1][i] = IF i = at THEN counts[i] + 1 ELSE counts[i]
    BY <1>1, OneCounted
  <2> QED
    BY <1>1, <2>1, <2>2 DEF Begun, Once
<1>3. ASSUME NEW j \in 1..(at + 1) - 1
      PROVE  Body[c][j] # "fail" /\ (place = "fast" => Body[c][j] = "code")
  <2>1. j = at \/ j \in 1..at - 1
    BY <1>1
  <2> QED
    BY <2>1 DEF RunFits
<1>4. /\ at + 1 \in 1..Len(Body[c]) + 1 /\ (place = "fast" => ~HasLoop(c))
      /\ place # "fast" => Completes(c)
  BY <1>1 DEF RunFits
<1> QED
  BY <1>2, <1>3, <1>4 DEF RunFits

\* An await that takes its coroutine off its thread.
LEMMA SuspensionCounted ==
    ASSUME NEW c \in Calls, NEW counts \in [DOMAIN Body[c] -> Nat],
           NEW place, NEW away,
           (place = "fast" /\ away = "close") \/ (place = "queued" /\ away = "waiting"),
           NEW at, RunFits(c, place, at, counts, "none"),
           at <= Len(Body[c]), Body[c][at] \in Awaits, away = "close" => Body[c][at] = "bare"
    PROVE  RunFits(c, away, at, [counts EXCEPT ![at] = @ + 1], "none")
<1>1. at \in 1..Len(Body[c]) /\ Len(Body[c]) \in Nat
  BY BodyFacts DEF RunFits
<1>2. ASSUME NEW i \in 1..Len(Body[c])
      PROVE  [counts EXCEPT ![at] = @ + 1][i] = Once(Begun(i, away, at, "none"))
                      + Once(away \notin FirstRun /\ RanBefore(c, i))
  <2>1. counts[i] = Once(Begun(i, place, at, "none"))
                      + Once(place \notin FirstRun /\ RanBefore(c, i))
    BY DEF RunFits
  <2>2. [counts EXCEPT ![at] = @ + 1][i] = IF i = at THEN counts[i] + 1 ELSE counts[i]
    BY <1>1, OneCounted
  <2>3. place \in FirstRun <=> away \in FirstRun
    BY DEF FirstRun
  <2>4. place \notin {"close", "waiting"} /\ away \in {"close", "waiting"}
    OBVIOUS
  <2> QED
    BY <1>1, <2>1, <2>2, <2>3, <2>4 DEF Begun, Once
<1>3. /\ \A j \in 1..at - 1 : Body[c][j] # "fail"
      /\ away = "close" => ~HasLoop(c) /\ \A j \in 1..at - 1 : Body[c][j] = "code"
  BY DEF RunFits
<1>4. at \in 1..Len(Body[c]) + 1
  BY <1>1
<1>5. Completes(c)
  <2>1. CASE away = "close"
    <3>1. Suspends(c, at)
      BY <1>1, <1>3, <2>1 DEF Suspends
    <3> QED
      BY <2>1, <3>1, SuspendsOnce DEF Completes
  <2>2. CASE away = "waiting"
    BY <2>2 DEF RunFits
  <2> QED
    BY <2>1, <2>2
<1> QED
  BY <1>2, <1>3, <1>4, <1>5 DEF RunFits

\* Nothing is thrown away of a coroutine that ends before its first await.
LEMMA NothingBefore ==
    ASSUME NEW c \in Calls, NEW at \in 1..Len(Body[c]) + 1,
           \A j \in 1..at - 1 : Body[c][j] = "code",
           at <= Len(Body[c]) => Body[c][at] = "fail",
           NEW i
    PROVE  ~RanBefore(c, i) /\ Completes(c)
<1>1. Len(Body[c]) \in Nat
  BY BodyFacts
<1>2. ASSUME NEW p \in 1..Len(Body[c]), Suspends(c, p) PROVE FALSE
  <2>1. CASE p < at
    BY <1>1, <1>2, <2>1 DEF Suspends, Awaits
  <2>2. CASE p >= at
    BY <1>1, <1>2, <2>2 DEF Suspends, Awaits
  <2> QED
    BY <1>1, <2>1, <2>2
<1> QED
  BY <1>2 DEF RanBefore, Completes

\* A coroutine ends, by a return or an exception.
LEMMA EndCounted ==
    ASSUME NEW c \in Calls, NEW counts \in [DOMAIN Body[c] -> Nat], NEW after,
           NEW place, NEW end,
           (place = "fast" /\ end = "done") \/ (place = "queued" /\ end = "resolved"),
           NEW at, RunFits(c, place, at, counts, "none"), NEW how,
           \/ at > Len(Body[c]) /\ how = "returned" /\ after = counts
           \/ /\ at <= Len(Body[c]) /\ Body[c][at] = "fail" /\ how = "raised"
              /\ after = [counts EXCEPT ![at] = @ + 1]
    PROVE  RunFits(c, end, at, after, how)
<1>0. /\ (place = "fast" /\ end = "done") \/ (place = "queued" /\ end = "resolved")
      /\ how \in {"returned", "raised"}
  OBVIOUS
<1>1. at \in 1..Len(Body[c]) + 1 /\ Len(Body[c]) \in Nat
  BY BodyFacts DEF RunFits
<1>2. ASSUME NEW i \in 1..Len(Body[c])
      PROVE  after[i] = Once(Begun(i, end, at, how))
                      + Once(end \notin FirstRun /\ RanBefore(c, i))
  <2>1. counts[i] = Once(Begun(i, place, at, "none"))
                      + Once(place \notin FirstRun /\ RanBefore(c, i))
    BY DEF RunFits
  <2>2. Once(place \notin FirstRun /\ RanBefore(c, i))
           = Once(end \notin FirstRun /\ RanBefore(c, i))
    <3>1. CASE place = "fast"
      BY <1>1, <3>1, NothingBefore DEF RunFits, Once, FirstRun
    <3>2. CASE place = "queued"
      BY <3>2 DEF FirstRun
    <3> QED
      BY <3>1, <3>2
  <2>3. CASE how = "returned"
    BY <1>1, <2>1, <2>2, <2>3 DEF Begun
  <2>4. CASE how = "raised"
    <3>1. after[i] = IF i = at THEN counts[i] + 1 ELSE counts[i]
      BY <1>1, <2>4, OneCounted
    <3>2. /\ Once(Begun(i, end, at, how)) = IF i <= at THEN 1 ELSE 0
          /\ Once(Begun(i, place, at, "none")) = IF i < at THEN 1 ELSE 0
      BY <1>0, <1>1, <2>4 DEF Begun, Once
    <3> DEFINE before == Once(end \notin FirstRun /\ RanBefore(c, i))
    <3>3. before \in {0, 1}
      BY DEF Once
    <3>4. counts[i] = (IF i < at THEN 1 ELSE 0) + before
      BY <2>1, <2>2, <3>2
    <3> HIDE DEF before
    <3>5. after[i] = (IF i <= at THEN 1 ELSE 0) + before
      BY <1>1, <3>1, <3>3, <3>4
    <3> QED
      BY <3>2, <3>5 DEF before
  <2> QED
    BY <2>3, <2>4
<1>3. \A j \in 1..at - 1 : Body[c][j] # "fail"
  BY DEF RunFits
<1>4. /\ how = "returned" => at = Len(Body[c]) + 1
      /\ how = "raised" => at <= Len(Body[c]) /\ Body[c][at] = "fail"
  BY <1>1
<1>5. Completes(c)
  <2>1. CASE place = "fast"
    BY <1>1, <2>1, NothingBefore DEF RunFits
  <2>2. CASE place = "queued"
    BY <2>2 DEF RunFits
  <2> QED
    BY <2>1, <2>2
<1> QED
  BY <1>0, <1>1, <1>2, <1>3, <1>4, <1>5 DEF RunFits

\* A coroutine ends in get_running_loop.
LEMMA NoLoopCounted ==
    ASSUME NEW c \in Calls, NEW counts \in [DOMAIN Body[c] -> Nat], NEW at,
           RunFits(c, "fast", at, counts, "none"),
           at <= Len(Body[c]), Body[c][at] \in Awaits \ {"bare"}
    PROVE  RunFits(c, "done", at, [counts EXCEPT ![at] = @ + 1], "no loop")
<1>1. at \in 1..Len(Body[c]) /\ Len(Body[c]) \in Nat
  BY BodyFacts DEF RunFits
<1>2. ~HasLoop(c) /\ Suspends(c, at)
  BY <1>1 DEF RunFits, Suspends
<1>3. ASSUME NEW i \in 1..Len(Body[c])
      PROVE  [counts EXCEPT ![at] = @ + 1][i] = Once(Begun(i, "done", at, "no loop"))
                      + Once("done" \notin FirstRun /\ RanBefore(c, i))
  <2>1. counts[i] = Once(Begun(i, "fast", at, "none"))
                      + Once("fast" \notin FirstRun /\ RanBefore(c, i))
    BY DEF RunFits
  <2>2. [counts EXCEPT ![at] = @ + 1][i] = IF i = at THEN counts[i] + 1 ELSE counts[i]
    BY <1>1, OneCounted
  <2>3. ~RanBefore(c, i)
    BY <1>2, SuspendsOnce DEF RanBefore
  <2> QED
    BY <1>1, <2>1, <2>2, <2>3 DEF Begun, Once, FirstRun
<1>4. at \in 1..Len(Body[c]) + 1 /\ \A j \in 1..at - 1 : Body[c][j] # "fail"
  BY <1>1 DEF RunFits
<1> QED
  BY <1>2, <1>3, <1>4 DEF RunFits

\* The partial run is thrown away: what it counted is what ran before.
LEMMA CloseCounted ==
    ASSUME NEW c \in Calls, NEW counts, NEW at, RunFits(c, "close", at, counts, "none")
    PROVE  RunFits(c, "ensure", 1, counts, "none")
<1>1. at \in 1..Len(Body[c]) /\ Len(Body[c]) \in Nat /\ ~HasLoop(c) /\ Suspends(c, at)
      /\ Body[c][at] = "bare" /\ Completes(c)
  BY BodyFacts DEF RunFits, Suspends
<1>2. ASSUME NEW p \in 1..Len(Body[c]), Suspends(c, p) PROVE p = at
  BY <1>1, <1>2, SuspendsOnce
<1>3. ASSUME NEW i \in 1..Len(Body[c])
      PROVE  counts[i] = Once(Begun(i, "ensure", 1, "none"))
                      + Once("ensure" \notin FirstRun /\ RanBefore(c, i))
  <2>1. counts[i] = Once(Begun(i, "close", at, "none"))
                      + Once("close" \notin FirstRun /\ RanBefore(c, i))
    BY DEF RunFits
  <2>2. RanBefore(c, i) <=> i <= at
    BY <1>1, <1>2 DEF RanBefore
  <2>3. Begun(i, "close", at, "none") <=> i <= at
    BY <1>1 DEF Begun
  <2>4. ~Begun(i, "ensure", 1, "none")
    BY DEF Begun
  <2> QED
    BY <2>1, <2>2, <2>3, <2>4 DEF Once, FirstRun
<1> QED
  BY <1>1, <1>3 DEF RunFits

\* What a coroutine awaited has happened.
LEMMA WakeCounted ==
    ASSUME NEW c \in Calls, NEW counts, NEW at, RunFits(c, "waiting", at, counts, "none")
    PROVE  RunFits(c, "queued", at + 1, counts, "none")
<1>1. /\ at \in 1..Len(Body[c]) /\ Len(Body[c]) \in Nat
      /\ Body[c][at] \in Awaits /\ Completes(c)
  BY BodyFacts DEF RunFits
<1>2. \A j \in 1..at : Body[c][j] # "fail"
  BY <1>1 DEF RunFits, Awaits
<1>3. ASSUME NEW i \in 1..Len(Body[c])
      PROVE  counts[i] = Once(Begun(i, "queued", at + 1, "none"))
                      + Once("queued" \notin FirstRun /\ RanBefore(c, i))
  <2>1. counts[i] = Once(Begun(i, "waiting", at, "none"))
                      + Once("waiting" \notin FirstRun /\ RanBefore(c, i))
    BY DEF RunFits
  <2>2. Begun(i, "queued", at + 1, "none") <=> Begun(i, "waiting", at, "none")
    BY <1>1 DEF Begun
  <2> QED
    BY <2>1, <2>2 DEF Once, FirstRun
<1> QED
  BY <1>1, <1>2, <1>3 DEF RunFits

LEMMA RunsFitInit == CallInit => RunsFit
<1> SUFFICES ASSUME CallInit, NEW c \in Calls
             PROVE  RunFits(c, "idle", 1, [i \in DOMAIN Body[c] |-> 0], "none")
  BY DEF CallInit, RunsFit
<1>1. Len(Body[c]) \in Nat /\ DOMAIN Body[c] = 1..Len(Body[c])
  BY BodyFacts
<1>2. \A i \in 1..Len(Body[c]) : ~Begun(i, "idle", 1, "none")
  BY DEF Begun
<1> QED
  BY <1>1, <1>2 DEF RunFits, Once, FirstRun

\* A step of c's own: the counters of the other calls are theirs.
Moved(c, place, at, counts, how) ==
    /\ stage'[c] = place /\ step'[c] = at /\ executed'[c] = counts /\ outcome'[c] = how
    /\ \A d \in Calls : d # c => /\ stage'[d] = stage[d] /\ step'[d] = step[d]
                                 /\ executed'[d] = executed[d] /\ outcome'[d] = outcome[d]

LEMMA RunMoved ==
    ASSUME RunsFit, NEW c \in Calls, NEW place, NEW at, NEW counts, NEW how,
           Moved(c, place, at, counts, how), RunFits(c, place, at, counts, how)
    PROVE  RunsFit'
<1>1. \A d \in Calls : RunFits(d, stage'[d], step'[d], executed'[d], outcome'[d])
  BY DEF Moved, RunsFit
<1> QED
  BY <1>1 DEF RunsFit

\* A call that goes to another stage where nothing of its coroutine changes.
LEMMA RunGoesOn ==
    ASSUME LoopInv, RunsFit, NEW c \in Calls, NEW place,
           Enter(c, place), UNCHANGED <<step, executed, outcome>>,
           \/ stage[c] = "idle" /\ place = "fast" /\ ~HasLoop(c)
           \/ stage[c] = "idle" /\ place = "ensure" /\ HasLoop(c)
           \/ stage[c] = "ensure" /\ place = "ensuring"
           \/ stage[c] = "ensuring" /\ place = "queued"
           \/ stage[c] = "resolved" /\ place = "done"
    PROVE  RunsFit'
<1> DEFINE at == step[c]
           counts == executed[c]
           how == outcome[c]
           old == stage[c]
<1>1. Moved(c, place, at, counts, how)
  BY DEF Moved, Enter, LoopInv, QueueTypes
<1>2. RunFits(c, old, at, counts, how)
  BY DEF RunsFit
<1>3. \/ old = "idle" /\ place = "fast" /\ ~HasLoop(c)
      \/ old = "idle" /\ place = "ensure" /\ HasLoop(c)
      \/ old = "ensure" /\ place = "ensuring"
      \/ old = "ensuring" /\ place = "queued"
      \/ old = "resolved" /\ place = "done"
  OBVIOUS
<1> HIDE DEF at, counts, how, old
<1>4. \A i : Begun(i, place, at, how) <=> Begun(i, old, at, how)
  BY <1>3 DEF Begun
<1>5. \A i : (place \notin FirstRun /\ RanBefore(c, i)) <=> (old \notin FirstRun /\ RanBefore(c, i))
  BY <1>3 DEF FirstRun, RanBefore
<1>6. \A i : /\ Once(Begun(i, place, at, how)) = Once(Begun(i, old, at, how))
             /\ Once(place \notin FirstRun /\ RanBefore(c, i))
                   = Once(old \notin FirstRun /\ RanBefore(c, i))
  BY <1>4, <1>5 DEF Once
<1>7. RunFits(c, place, at, counts, how)
  <2>1. at \in 1..Len(Body[c]) + 1 /\ \A j \in 1..at - 1 : Body[c][j] # "fail"
    BY <1>2 DEF RunFits
  <2>2. \A i \in 1..Len(Body[c]) :
          counts[i] = Once(Begun(i, place, at, how))
                      + Once(place \notin FirstRun /\ RanBefore(c, i))
    BY <1>2, <1>6 DEF RunFits
  <2>3. place = "fast" => ~HasLoop(c) /\ \A j \in 1..at - 1 : Body[c][j] = "code"
    BY <1>2, <1>3, BodyFacts DEF RunFits
  <2>4. /\ place \in {"idle", "ensure", "ensuring"} => at = 1
        /\ place \in {"resolved", "done"} <=> how # "none"
        /\ how = "returned" => at = Len(Body[c]) + 1
        /\ how = "raised" => at <= Len(Body[c]) /\ Body[c][at] = "fail"
    BY <1>2, <1>3 DEF RunFits
  <2>5. place \notin {"close", "waiting"}
    BY <1>3
  <2>6. /\ how = "no loop" => ~HasLoop(c) /\ Suspends(c, at) /\ Body[c][at] # "bare"
        /\ place \notin {"idle", "fast"} /\ how # "no loop" => Completes(c)
    BY <1>2, <1>3 DEF RunFits, Completes
  <2> QED
    BY <2>1, <2>2, <2>3, <2>4, <2>5, <2>6 DEF RunFits
<1> QED
  BY <1>1, <1>7, RunMoved

LEMMA RunsFitStep ==
    LoopInv /\ FrameInv /\ CoroTypes /\ RunsFit /\ [CallNext]_allVars => RunsFit'
<1> SUFFICES ASSUME LoopInv, FrameInv, CoroTypes, RunsFit, [CallNext]_allVars PROVE RunsFit'
  OBVIOUS
<1> DEFINE Counted(c) == [executed[c] EXCEPT ![step[c]] = @ + 1]
<1>0. /\ stage \in [Calls -> Stages] /\ step \in [Calls -> Nat \ {0}]
      /\ executed = [d \in Calls |-> executed[d]]
      /\ outcome \in [Calls -> {"none", "returned", "raised", "no loop"}]
      /\ \A c \in Calls : executed[c] \in [DOMAIN Body[c] -> Nat]
  BY DEF LoopInv, QueueTypes, CoroTypes
<1>1. ASSUME NEW c \in Calls
      PROVE  /\ RunFits(c, stage[c], step[c], executed[c], outcome[c])
             /\ stage[c] \notin {"resolved", "done"} => outcome[c] = "none"
             /\ step[c] \in 1..Len(Body[c]) + 1 /\ Len(Body[c]) \in Nat
  BY BodyFacts DEF RunsFit, RunFits
<1>2. ASSUME NEW c \in Calls, stage[c] \in {"fast", "queued"}
       PROVE  /\ RunFits(c, stage[c], step[c], executed[c], "none")
              /\ executed[c] \in [DOMAIN Body[c] -> Nat]
              /\ ~AtEnd(c) => step[c] <= Len(Body[c])
  <2>1. outcome[c] = "none"
    BY <1>1, <1>2
  <2>2. ~AtEnd(c) => step[c] <= Len(Body[c])
    BY <1>1 DEF AtEnd
  <2> QED
    BY <1>0, <1>1, <2>1, <2>2
<1>3. ASSUME NEW c \in Calls, Execute(c)
      PROVE  /\ executed'[c] = Counted(c)
             /\ \A d \in Calls : d # c => executed'[d] = executed[d]
  BY <1>0, <1>3 DEF Execute
<1> HIDE DEF Counted
<1>4. ASSUME NEW c \in Calls, Execute(c), Proceed(c), UNCHANGED <<stage, outcome>>,
             stage[c] \in {"fast", "queued"}, ~AtEnd(c), NextStep(c) # "fail",
             stage[c] = "fast" => NextStep(c) = "code"
      PROVE  RunsFit'
  <2>1. Moved(c, stage[c], step[c] + 1, Counted(c), "none")
    BY <1>0, <1>1, <1>3, <1>4 DEF Moved, Proceed
  <2>2. RunFits(c, stage[c], step[c] + 1, Counted(c), "none")
    <3> DEFINE place == stage[c]
               at == step[c]
               counts == executed[c]
    <3>1. /\ RunFits(c, place, at, counts, "none")
          /\ counts \in [DOMAIN Body[c] -> Nat] /\ place \in {"fast", "queued"}
          /\ at <= Len(Body[c]) /\ Body[c][at] # "fail"
          /\ place = "fast" => Body[c][at] = "code"
      BY <1>4, <1>2 DEF NextStep
    <3> HIDE DEF place, at, counts
    <3>2. RunFits(c, place, at + 1, [counts EXCEPT ![at] = @ + 1], "none")
      BY <3>1, StepCounted
    <3> QED
      BY <3>2 DEF place, at, counts, Counted
  <2> QED
    BY <2>1, <2>2, RunMoved
<1>5. ASSUME NEW c \in Calls, NEW away, Execute(c), Enter(c, away), UNCHANGED <<step, outcome>>,
             \/ stage[c] = "fast" /\ away = "close"
             \/ stage[c] = "queued" /\ away = "waiting",
             ~AtEnd(c), NextStep(c) \in Awaits, away = "close" => NextStep(c) = "bare"
      PROVE  RunsFit'
  <2>1. stage[c] \in {"fast", "queued"}
    BY <1>5
  <2>2. Moved(c, away, step[c], Counted(c), "none")
    BY <1>0, <1>1, <1>3, <1>5, <2>1 DEF Moved, Enter
  <2>3. RunFits(c, away, step[c], Counted(c), "none")
    <3> DEFINE place == stage[c]
               at == step[c]
               counts == executed[c]
    <3>1. /\ RunFits(c, place, at, counts, "none")
          /\ counts \in [DOMAIN Body[c] -> Nat]
          /\ (place = "fast" /\ away = "close") \/ (place = "queued" /\ away = "waiting")
          /\ at <= Len(Body[c]) /\ Body[c][at] \in Awaits
          /\ away = "close" => Body[c][at] = "bare"
      BY <1>5, <1>2, <2>1 DEF NextStep
    <3> HIDE DEF place, at, counts
    <3>2. RunFits(c, away, at, [counts EXCEPT ![at] = @ + 1], "none")
      BY <3>1, SuspensionCounted
    <3> QED
      BY <3>2 DEF at, counts, Counted
  <2> QED
    BY <2>2, <2>3, RunMoved
<1>6. ASSUME NEW c \in Calls, NEW end, Enter(c, end), UNCHANGED step,
             \/ stage[c] = "fast" /\ end = "done"
             \/ stage[c] = "queued" /\ end = "resolved",
             \/ AtEnd(c) /\ End(c, "returned") /\ UNCHANGED executed
             \/ ~AtEnd(c) /\ NextStep(c) = "fail" /\ End(c, "raised") /\ Execute(c)
      PROVE  RunsFit'
  <2>1. PICK how, after :
          /\ how \in {"returned", "raised"}
          /\ Moved(c, end, step[c], after, how)
          /\ \/ step[c] > Len(Body[c]) /\ how = "returned" /\ after = executed[c]
             \/ /\ step[c] <= Len(Body[c]) /\ Body[c][step[c]] = "fail" /\ how = "raised"
                /\ after = Counted(c)
    <3>1. CASE AtEnd(c) /\ End(c, "returned") /\ UNCHANGED executed
      <4>1. Moved(c, end, step[c], executed[c], "returned")
        BY <1>0, <1>6, <3>1 DEF Moved, Enter, End
      <4> QED
        BY <3>1, <4>1 DEF AtEnd
    <3>2. CASE ~AtEnd(c) /\ NextStep(c) = "fail" /\ End(c, "raised") /\ Execute(c)
      <4>1. Moved(c, end, step[c], Counted(c), "raised")
        BY <1>0, <1>3, <1>6, <3>2 DEF Moved, Enter, End
      <4> QED
        BY <1>1, <3>2, <4>1 DEF AtEnd, NextStep
    <3> QED
      BY <1>6, <3>1, <3>2
  <2>2. stage[c] \in {"fast", "queued"}
    BY <1>6
  <2>3. RunFits(c, end, step[c], after, how)
    <3> DEFINE place == stage[c]
               at == step[c]
               counts == executed[c]
    <3>1. /\ RunFits(c, place, at, counts, "none")
          /\ counts \in [DOMAIN Body[c] -> Nat]
          /\ (place = "fast" /\ end = "done") \/ (place = "queued" /\ end = "resolved")
          /\ \/ at > Len(Body[c]) /\ how = "returned" /\ after = counts
             \/ /\ at <= Len(Body[c]) /\ Body[c][at] = "fail" /\ how = "raised"
                /\ after = [counts EXCEPT ![at] = @ + 1]
      BY <1>6, <1>2, <2>1, <2>2 DEF Counted
    <3> HIDE DEF place, at, counts
    <3>2. RunFits(c, end, at, after, how)
      BY <3>1, EndCounted
    <3> QED
      BY <3>2 DEF at
  <2> QED
    BY <2>1, <2>3, RunMoved
<1>7. ASSUME NEW c \in Calls, FastEnds(c) PROVE RunsFit'
  <2>1. stage[c] = "fast" /\ Enter(c, "done") /\ UNCHANGED step
    BY <1>7 DEF FastEnds
  <2>2. CASE \/ AtEnd(c) /\ End(c, "returned") /\ UNCHANGED executed
             \/ ~AtEnd(c) /\ NextStep(c) = "fail" /\ End(c, "raised") /\ Execute(c)
    BY <1>6, <2>1, <2>2
  <2>3. CASE ~AtEnd(c) /\ LacksLoop(c) /\ End(c, "no loop") /\ Execute(c)
    <3>1. Moved(c, "done", step[c], Counted(c), "no loop")
      BY <1>0, <1>3, <2>1, <2>3 DEF Moved, Enter, End
    <3>2. RunFits(c, "done", step[c], Counted(c), "no loop")
      <4> DEFINE at == step[c]
                 counts == executed[c]
      <4>1. /\ RunFits(c, "fast", at, counts, "none") /\ counts \in [DOMAIN Body[c] -> Nat]
            /\ at <= Len(Body[c]) /\ Body[c][at] \in Awaits \ {"bare"}
        BY <1>2, <2>1, <2>3 DEF LacksLoop, NextStep
      <4> HIDE DEF at, counts
      <4>2. RunFits(c, "done", at, [counts EXCEPT ![at] = @ + 1], "no loop")
        BY <4>1, NoLoopCounted
      <4> QED
        BY <4>2 DEF at, counts, Counted
    <3> QED
      BY <3>1, <3>2, RunMoved
  <2> QED
    BY <1>7, <2>2, <2>3 DEF FastEnds
<1>8. ASSUME NEW c \in Calls, ClosePartial(c) PROVE RunsFit'
  <2>1. Moved(c, "ensure", 1, executed[c], "none")
    BY <1>0, <1>1, <1>8 DEF ClosePartial, Moved, Enter
  <2>2. RunFits(c, "close", step[c], executed[c], "none")
    BY <1>1, <1>8 DEF ClosePartial
  <2>3. RunFits(c, "ensure", 1, executed[c], "none")
    BY <2>2, CloseCounted
  <2> QED
    BY <2>1, <2>3, RunMoved
<1>9. ASSUME NEW c \in Calls, BeginCall(c) \/ EnterEnsure(c) \/ Submit(c) \/ ReturnResult(c)
      PROVE  RunsFit'
  <2>1. UNCHANGED <<step, executed, outcome>>
    BY <1>9 DEF BeginCall, EnterEnsure, Submit, ReturnResult, coroVars
  <2>2. CASE BeginCall(c) /\ HasLoop(c)
    BY <2>1, <2>2, RunGoesOn DEF BeginCall, HasLoop
  <2>3. CASE BeginCall(c) /\ ~HasLoop(c)
    BY <2>1, <2>3, RunGoesOn DEF BeginCall, HasLoop
  <2>4. CASE EnterEnsure(c) \/ Submit(c) \/ ReturnResult(c)
    BY <2>1, <2>4, RunGoesOn DEF EnterEnsure, Submit, ReturnResult
  <2> QED
    BY <1>9, <2>2, <2>3, <2>4
<1>10. ASSUME NEW c \in Calls, Wake(c) PROVE RunsFit'
  <2>1. Moved(c, "queued", step[c] + 1, executed[c], "none")
    BY <1>0, <1>1, <1>10 DEF Wake, Proceed, Moved, Enter
  <2>2. RunFits(c, "waiting", step[c], executed[c], "none")
    BY <1>1, <1>10 DEF Wake
  <2>3. RunFits(c, "queued", step[c] + 1, executed[c], "none")
    BY <2>2, WakeCounted
  <2> QED
    BY <2>1, <2>3, RunMoved
<1>11. ASSUME NEW c \in Calls, FastCode(c) \/ FastSuspends(c) PROVE RunsFit'
  <2>1. CASE FastCode(c)
    BY <1>4, <2>1 DEF FastCode
  <2>2. CASE FastSuspends(c)
    <3>1. ~HasLoop(c)
      BY <1>1, <2>2 DEF RunFits, FastSuspends
    <3> QED
      BY <1>5, <2>2, <3>1 DEF FastSuspends, LacksLoop
  <2> QED
    BY <1>11, <2>1, <2>2
<1>12. ASSUME NEW l \in Threads, TaskCode(l) \/ TaskSuspends(l) \/ TaskEnds(l) PROVE RunsFit'
  <2> DEFINE c == turn[l]
  <2>1. c \in Calls /\ stage[c] = "queued"
    BY <1>12 DEF TaskCode, TaskSuspends, Has, TaskEnds, LoopInv, QueueTypes, FrameInv, HeldOnce
  <2> HIDE DEF c
  <2>2. CASE TaskCode(l)
    <3>1. /\ Execute(c) /\ Proceed(c) /\ UNCHANGED <<stage, outcome>>
          /\ ~AtEnd(c) /\ NextStep(c) = "code"
      BY <2>2 DEF TaskCode, Has, c
    <3> QED
      BY <1>4, <2>1, <3>1
  <2>3. CASE TaskSuspends(l)
    <3>1. /\ Execute(c) /\ UNCHANGED outcome /\ ~AtEnd(c) /\ NextStep(c) \in Awaits
          /\ \/ NextStep(c) = "bare" /\ Proceed(c) /\ UNCHANGED stage
             \/ Enter(c, "waiting") /\ UNCHANGED step
      BY <2>3 DEF TaskSuspends, Has, c
    <3>2. CASE Proceed(c) /\ UNCHANGED stage
      <4>1. NextStep(c) # "fail"
        BY <3>1 DEF Awaits
      <4> QED
        BY <1>4, <2>1, <3>1, <3>2, <4>1
    <3>3. CASE Enter(c, "waiting") /\ UNCHANGED step
      BY <1>5, <2>1, <3>1, <3>3
    <3> QED
      BY <3>1, <3>2, <3>3
  <2>4. CASE TaskEnds(l)
    <3>1. /\ Enter(c, "resolved") /\ UNCHANGED step
          /\ \/ AtEnd(c) /\ End(c, "returned") /\ UNCHANGED executed
             \/ ~AtEnd(c) /\ NextStep(c) = "fail" /\ End(c, "raised") /\ Execute(c)
      BY <2>4 DEF TaskEnds, c
    <3> QED
      BY <1>6, <2>1, <3>1
  <2> QED
    BY <1>12, <2>2, <2>3, <2>4
<1>13. CASE UNCHANGED <<stage, step, executed, outcome>>
  BY <1>13 DEF RunsFit
<1>14. ASSUME NEW c \in Calls, Ensure(c) PROVE UNCHANGED <<stage, step, executed, outcome>>
  BY <1>14 DEF Ensure, callVars
<1>15. ASSUME NEW l \in Threads, RunTask(l) \/ Runner(l)
       PROVE  UNCHANGED <<stage, step, executed, outcome>>
  BY <1>15 DEF RunTask, Runner, callVars
<1>16. Idle \/ UNCHANGED allVars => UNCHANGED <<stage, step, executed, outcome>>
  BY DEF Idle, allVars
<1> QED
  BY <1>7, <1>8, <1>9, <1>10, <1>11, <1>12, <1>13, <1>14, <1>15, <1>16
     DEF CallNext, CallStep, LoopStep

\* The least index at which something is so.
LEMMA LeastExists ==
    ASSUME NEW I \in SUBSET Nat, I # {}
    PROVE  \E i \in I : \A j \in I : i <= j
<1> DEFINE Less == {s \in Nat \X Nat : s[1] < s[2]}
<1>1. IsWellFoundedOn(Less, Nat)
  BY NatLessThanWellFounded DEF OpToRel
<1>2. PICK i \in I : \A j \in I : <<j, i>> \notin Less
  <2> HIDE DEF Less
  <2> QED
    BY <1>1, WFMin
<1>3. ASSUME NEW j \in I PROVE i <= j
  <2>1. <<j, i>> \in Nat \X Nat /\ <<j, i>>[1] = j /\ <<j, i>>[2] = i
    OBVIOUS
  <2> QED
    BY <1>2, <2>1
<1> QED
  BY <1>3

LEMMA FirstAwaitIsFirst ==
    ASSUME NEW c \in Calls
    PROVE  /\ FirstAwait(c) \in 1..Len(Body[c]) + 1
           /\ FirstAwait(c) <= Len(Body[c]) => Body[c][FirstAwait(c)] \in Awaits
           /\ \A j \in 1..FirstAwait(c) - 1 : Body[c][j] \notin Awaits
<1> DEFINE I == {i \in 1..Len(Body[c]) + 1 : i <= Len(Body[c]) => Body[c][i] \in Awaits}
<1>1. Len(Body[c]) \in Nat
  BY BodyFacts
<1>2. I \in SUBSET Nat /\ Len(Body[c]) + 1 \in I
  BY <1>1
<1>3. PICK i \in I : \A j \in I : i <= j
  <2> HIDE DEF I
  <2> QED
    BY <1>2, LeastExists
<1>4. ASSUME NEW j \in 1..i - 1 PROVE Body[c][j] \notin Awaits
  <2>1. j \in 1..Len(Body[c]) + 1 /\ ~(i <= j)
    BY <1>1, <1>3
  <2>2. j \notin I
    BY <1>3, <2>1
  <2> QED
    BY <2>1, <2>2
<1>5. \E n \in 1..Len(Body[c]) + 1 :
         /\ n <= Len(Body[c]) => Body[c][n] \in Awaits
         /\ \A j \in 1..n - 1 : Body[c][j] \notin Awaits
  BY <1>3, <1>4
<1> QED
  BY <1>5 DEF FirstAwait

LEMMA LastStepIsLast ==
    ASSUME NEW c \in Calls
    PROVE  /\ LastStep(c) \in 0..Len(Body[c])
           /\ LastStep(c) < Len(Body[c]) => LastStep(c) > 0 /\ Body[c][LastStep(c)] = "fail"
           /\ \A j \in 1..LastStep(c) - 1 : Body[c][j] # "fail"
<1> DEFINE I == {i \in 0..Len(Body[c]) :
                    i < Len(Body[c]) => (i > 0 /\ Body[c][i] = "fail")}
<1>1. Len(Body[c]) \in Nat
  BY BodyFacts
<1>2. I \in SUBSET Nat /\ Len(Body[c]) \in I
  BY <1>1
<1>3. PICK i \in I : \A j \in I : i <= j
  <2> HIDE DEF I
  <2> QED
    BY <1>2, LeastExists
<1>4. ASSUME NEW j \in 1..i - 1 PROVE Body[c][j] # "fail"
  <2>1. j \in 0..Len(Body[c]) /\ j > 0 /\ ~(i <= j)
    BY <1>1, <1>3
  <2>2. j \notin I
    BY <1>3, <2>1
  <2> QED
    BY <2>1, <2>2
<1>5. \E n \in 0..Len(Body[c]) :
         /\ n < Len(Body[c]) => (n > 0 /\ Body[c][n] = "fail")
         /\ \A j \in 1..n - 1 : Body[c][j] # "fail"
  BY <1>3, <1>4
<1> QED
  BY <1>5 DEF LastStep

\* A coroutine suspends at its first await, if it comes to one.
LEMMA SuspendsAtFirst ==
    ASSUME NEW c \in Calls, NEW p \in 1..Len(Body[c])
    PROVE  Suspends(c, p) <=> p = FirstAwait(c) /\ FirstAwait(c) <= LastStep(c)
<1> DEFINE first == FirstAwait(c)
           last == LastStep(c)
<1>1. Len(Body[c]) \in Nat
  BY BodyFacts
<1>2. /\ first \in 1..Len(Body[c]) + 1
      /\ first <= Len(Body[c]) => Body[c][first] \in Awaits
      /\ \A j \in 1..first - 1 : Body[c][j] \notin Awaits
  BY FirstAwaitIsFirst
<1>3. /\ last \in 0..Len(Body[c])
      /\ last < Len(Body[c]) => last > 0 /\ Body[c][last] = "fail"
      /\ \A j \in 1..last - 1 : Body[c][j] # "fail"
  BY LastStepIsLast
<1> HIDE DEF first, last
<1>4. ASSUME Suspends(c, p) PROVE p = first /\ first <= last
  <2>1. ~(p < first)
    BY <1>1, <1>2, <1>4 DEF Suspends
  <2>2. ~(first < p)
    BY <1>1, <1>2, <1>4 DEF Suspends, Awaits
  <2>3. ~(last < p)
    BY <1>1, <1>3, <1>4 DEF Suspends, Awaits
  <2> QED
    BY <1>1, <1>2, <1>3, <2>1, <2>2, <2>3
<1>5. ASSUME first <= last, p = first PROVE Suspends(c, p)
  <2>1. ASSUME NEW j \in 1..first - 1 PROVE Body[c][j] = "code"
    <3>1. j \in 1..Len(Body[c]) /\ j \in 1..last - 1
      BY <1>1, <1>2, <1>3, <1>5
    <3>2. Body[c][j] \in {"code", "fail"} \cup Awaits
      BY <3>1, BodyFacts
    <3> QED
      BY <1>2, <1>3, <3>1, <3>2
  <2>2. Body[c][p] \in Awaits
    BY <1>1, <1>2, <1>5
  <2> QED
    BY <1>5, <2>1, <2>2 DEF Suspends
<1> QED
  BY <1>4, <1>5 DEF first, last

\* What may have run before, and what asks for the loop, told by the first await.
LEMMA FirstRuns ==
    ASSUME NEW c \in Calls
    PROVE  /\ FastAwaits(c) => /\ FirstAwait(c) \in 1..Len(Body[c])
                               /\ Suspends(c, FirstAwait(c))
           /\ \A i \in 1..Len(Body[c]) :
                 RanBefore(c, i) <=> FastAwaits(c) /\ ~AsksForLoop(c) /\ i <= FirstAwait(c)
           /\ AsksForLoop(c) <=> ~Completes(c)
<1>1. /\ Len(Body[c]) \in Nat
      /\ FirstAwait(c) \in 1..Len(Body[c]) + 1 /\ LastStep(c) \in 0..Len(Body[c])
  BY BodyFacts, FirstAwaitIsFirst, LastStepIsLast
<1>2. FastAwaits(c) => FirstAwait(c) \in 1..Len(Body[c]) /\ Suspends(c, FirstAwait(c))
  BY <1>1, SuspendsAtFirst DEF FastAwaits
<1>3. \A p \in 1..Len(Body[c]) : Suspends(c, p) => p = FirstAwait(c) /\ FirstAwait(c) <= LastStep(c)
  BY SuspendsAtFirst
<1>4. ASSUME NEW i \in 1..Len(Body[c])
      PROVE  RanBefore(c, i) <=> FastAwaits(c) /\ ~AsksForLoop(c) /\ i <= FirstAwait(c)
  BY <1>2, <1>3 DEF RanBefore, FastAwaits, AsksForLoop
<1>5. AsksForLoop(c) <=> ~Completes(c)
  BY <1>2, <1>3 DEF Completes, FastAwaits, AsksForLoop
<1> QED
  BY <1>2, <1>4, <1>5

LEMMA PrefixOnly == RunsFit /\ CoroTypes => OnlyPrefixRunsTwice
<1> SUFFICES ASSUME RunsFit, CoroTypes, NEW c \in Calls, stage[c] = "done"
             PROVE  /\ outcome[c] = "no loop" <=> AsksForLoop(c)
                    /\ \A i \in 1..Len(Body[c]) : executed[c][i] = Runs(c, i)
  BY DEF OnlyPrefixRunsTwice
<1> DEFINE at == step[c]
           how == outcome[c]
           first == FirstAwait(c)
           last == LastStep(c)
<1>1. RunFits(c, "done", at, executed[c], how)
  BY DEF RunsFit
<1>2. Len(Body[c]) \in Nat /\ at \in 1..Len(Body[c]) + 1 /\ how # "none"
  BY <1>1, BodyFacts DEF RunFits
<1>3. /\ first \in 1..Len(Body[c]) + 1 /\ last \in 0..Len(Body[c])
      /\ last < Len(Body[c]) => last > 0 /\ Body[c][last] = "fail"
      /\ \A j \in 1..last - 1 : Body[c][j] # "fail"
  BY FirstAwaitIsFirst, LastStepIsLast
<1>4. /\ how = "returned" => at = Len(Body[c]) + 1
      /\ how = "raised" => at <= Len(Body[c]) /\ Body[c][at] = "fail"
      /\ how = "no loop" => ~HasLoop(c) /\ Suspends(c, at) /\ Body[c][at] # "bare"
      /\ how # "no loop" => Completes(c)
      /\ \A j \in 1..at - 1 : Body[c][j] # "fail"
  BY <1>1 DEF RunFits
<1>5. ASSUME NEW i \in 1..Len(Body[c])
      PROVE  executed[c][i] = Once(Begun(i, "done", at, how)) + Once(RanBefore(c, i))
  <2>1. executed[c][i] = Once(Begun(i, "done", at, how))
                           + Once("done" \notin FirstRun /\ RanBefore(c, i))
    BY <1>1 DEF RunFits
  <2> QED
    BY <2>1 DEF FirstRun, Once
<1>6. how = "no loop" <=> AsksForLoop(c)
  <2>1. how = "no loop" => ~Completes(c)
    BY <1>4 DEF Completes, Suspends
  <2> QED
    BY <1>4, <2>1, FirstRuns
<1>7. /\ AsksForLoop(c) => FastAwaits(c)
      /\ FastAwaits(c) => first \in 1..Len(Body[c]) /\ first <= last /\ Suspends(c, first)
  BY FirstRuns DEF AsksForLoop, FastAwaits
<1>8. how = "no loop" => at = first
  BY <1>4, <1>6, <1>7, SuspendsOnce
<1>9. how \in {"no loop", "returned", "raised"}
  BY <1>2 DEF CoroTypes
<1>10. ASSUME NEW i \in 1..Len(Body[c])
       PROVE  Once(RanBefore(c, i)) = (IF FastAwaits(c) /\ ~AsksForLoop(c) /\ i <= first
                                       THEN 1 ELSE 0)
  BY FirstRuns DEF Once
<1> HIDE DEF at, how, first, last
<1>11. ASSUME NEW i \in 1..Len(Body[c])
       PROVE  Begun(i, "done", at, how) <=> i <= last /\ (how = "no loop" => i <= first)
  <2>1. CASE how = "no loop"
    <3>1. at = first /\ first <= last
      BY <1>6, <1>7, <1>8, <2>1
    <3>2. Begun(i, "done", at, how) <=> i < at \/ i = at
      BY <2>1 DEF Begun
    <3>3. at \in Int /\ first \in Int /\ last \in Int /\ i \in Int
      BY <1>2, <1>3
    <3>4. i < at \/ i = at <=> i <= first
      BY <3>1, <3>3
    <3>5. i <= first => i <= last
      BY <3>1, <3>3
    <3> QED
      BY <2>1, <3>2, <3>4, <3>5, Zenon
  <2>2. CASE how = "returned"
    <3>1. last = Len(Body[c])
      BY <1>2, <1>3, <1>4, <2>2
    <3> QED
      BY <1>2, <1>4, <2>2, <3>1 DEF Begun
  <2>3. CASE how = "raised"
    <3>1. ~(last < at) /\ ~(at < last)
      BY <1>2, <1>3, <1>4, <2>3
    <3> QED
      BY <1>2, <1>3, <1>4, <2>3, <3>1 DEF Begun
  <2> QED
    BY <1>9, <2>1, <2>2, <2>3
<1>12. ASSUME NEW i \in 1..Len(Body[c]) PROVE executed[c][i] = Runs(c, i)
  <2>1. Once(Begun(i, "done", at, how))
           = (IF i <= last /\ (AsksForLoop(c) => i <= first) THEN 1 ELSE 0)
    BY <1>6, <1>11 DEF Once
  <2>2. Runs(c, i) = IF i > last \/ (AsksForLoop(c) /\ i > first) THEN 0
                     ELSE IF FastAwaits(c) /\ ~AsksForLoop(c) /\ i <= first THEN 2
                     ELSE 1
    BY DEF Runs, first, last
  <2>3. executed[c][i] = (IF i <= last /\ (AsksForLoop(c) => i <= first) THEN 1 ELSE 0)
                      + (IF FastAwaits(c) /\ ~AsksForLoop(c) /\ i <= first THEN 1 ELSE 0)
    BY <1>5, <1>10, <2>1
  <2>4. i > last => ~(FastAwaits(c) /\ i <= first)
    BY <1>2, <1>3, <1>7
  <2> QED
    BY <1>2, <1>3, <2>2, <2>3, <2>4
<1> QED
  BY <1>6, <1>12 DEF how

(***************************************************************************)
(* What the comment of call_with_async_handling says of the rerun, and     *)
(* where it stops short: whatever the coroutines and threads, a call that  *)
(* returns has run each step it reached once, the part up to a first bare  *)
(* suspension twice, and nothing behind an await for a loop that its       *)
(* thread does not have.                                                   *)
(***************************************************************************)
THEOREM RerunsOnlyPrefix == CallSpec => []OnlyPrefixRunsTwice
<1>1. RunsFit /\ CoroTypes => OnlyPrefixRunsTwice
  BY PrefixOnly
<1> QED
  BY <1>1, RunsFitInit, RunsFitStep, CoroTypesInit, CoroTypesStep, FrameInvInit, FrameInvStep,
     LoopInvInit, LoopInvStep, UsesWorkerLoop, TypeCorrect, PTL DEF CallSpec
=============================================================================
