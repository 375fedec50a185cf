------------------------- MODULE Application_proofs -------------------------
(***************************************************************************)
(* Proofs about Application, for any registrations in any number, and any  *)
(* connections.                                                            *)
(***************************************************************************)
EXTENDS Application, SequenceTheorems, TLAPS

(***************************************************************************)
(* The conversation with the server at each point of the lifespan task:    *)
(* what was announced, what was answered, and which functions may have     *)
(* run by then.                                                            *)
(***************************************************************************)
Conversation ==
    /\ told \in {<<>>, <<"startup">>, <<"startup", "shutdown">>, <<"startup", "cancelled">>}
    /\ lifespan \in {"new", "starting", "lost"} => answers = <<>> /\ shut_down = <<>>
    /\ lifespan \in {"new", "lost"} => started_up = <<>>
    /\ lifespan # "new" => told # <<>>
    /\ lifespan = "running" => answers = <<"startup.complete">> /\ shut_down = <<>>
    /\ lifespan = "stopping" =>
          answers = <<"startup.complete">> /\ told = <<"startup", "shutdown">>
    /\ lifespan = "ended" =>
          \/ answers = <<"startup.failed">> /\ shut_down = <<>>
          \/ /\ answers \in {<<"startup.complete", "shutdown.complete">>,
                             <<"startup.complete", "shutdown.failed">>}
             /\ told \in {<<"startup", "shutdown">>, <<"startup", "cancelled">>}
             /\ shut_down # <<>> => told = <<"startup", "shutdown">>

LEMMA PrefixIs ==
    ASSUME NEW S, NEW s \in Seq(S), NEW t \in Seq(S)
    PROVE  IsPrefix(s, t) <=> Len(s) <= Len(t) /\ \A i \in 1..Len(s) : s[i] = t[i]
BY DEF IsPrefix

LEMMA EmptyPrefix ==
    ASSUME NEW S, NEW t \in Seq(S)
    PROVE  IsPrefix(<<>>, t)
BY DEF IsPrefix

\* A list that grows keeps its prefixes.
LEMMA PrefixOfMore ==
    ASSUME NEW S, NEW s \in Seq(S), NEW t \in Seq(S), NEW e \in S, IsPrefix(s, t)
    PROVE  IsPrefix(s, Append(t, e))
<1> DEFINE u == Append(t, e)
<1>1. u \in Seq(S) /\ Len(u) = Len(t) + 1 /\ \A i \in 1..Len(t) : u[i] = t[i]
  BY AppendProperties
<1>2. Len(s) <= Len(t) /\ \A i \in 1..Len(s) : s[i] = t[i]
  BY PrefixIs
<1> HIDE DEF u
<1>3. Len(s) <= Len(u) /\ \A i \in 1..Len(s) : s[i] = u[i]
  BY <1>1, <1>2
<1>4. IsPrefix(s, u)
  BY <1>1, <1>3 DEF IsPrefix
<1> QED
  BY <1>4 DEF u

\* The next element of a list makes a longer prefix of it.
LEMMA LongerPrefix ==
    ASSUME NEW S, NEW s \in Seq(S), NEW t \in Seq(S), IsPrefix(s, t), Len(s) < Len(t)
    PROVE  /\ Append(s, t[Len(s) + 1]) \in Seq(S)
           /\ IsPrefix(Append(s, t[Len(s) + 1]), t)
<1> DEFINE e == t[Len(s) + 1]
           r == Append(s, e)
<1>1. e \in S
  OBVIOUS
<1>2. Len(s) <= Len(t) /\ \A i \in 1..Len(s) : s[i] = t[i]
  BY PrefixIs
<1>3. /\ r \in Seq(S) /\ Len(r) = Len(s) + 1
      /\ \A i \in 1..Len(s) : r[i] = s[i]
      /\ r[Len(s) + 1] = t[Len(s) + 1]
  BY <1>1, AppendProperties
<1> HIDE DEF e, r
<1>4. \A i \in 1..Len(r) : r[i] = t[i]
  BY <1>2, <1>3
<1>5. IsPrefix(r, t)
  BY <1>3, <1>4 DEF IsPrefix
<1> QED
  BY <1>3, <1>5 DEF e, r

\* A prefix as long as the list is the list.
LEMMA WholePrefix ==
    ASSUME NEW S, NEW s \in Seq(S), NEW t \in Seq(S), IsPrefix(s, t), Len(s) = Len(t)
    PROVE  s = t
<1>1. \A i \in 1..Len(s) : s[i] = t[i]
  BY PrefixIs
<1> QED
  BY <1>1, SeqEqual

\* What an answer makes of no answers, and of one.
LEMMA Answered ==
    ASSUME NEW S, NEW e \in S, NEW f \in S
    PROVE  Append(<<>>, e) = <<e>> /\ Append(<<e>>, f) = <<e, f>>
<1> DEFINE s == Append(<<e>>, f)
           t == <<e, f>>
<1>1. s \in Seq(S) /\ Len(s) = 2 /\ s[1] = e /\ s[2] = f
  OBVIOUS
<1>2. t \in Seq(S) /\ Len(t) = 2 /\ t[1] = e /\ t[2] = f
  OBVIOUS
<1>3. Append(<<>>, e) = <<e>>
  OBVIOUS
<1> HIDE DEF s, t
<1>4. s = t
  BY <1>1, <1>2, SeqEqual
<1> QED
  BY <1>3, <1>4 DEF s, t

\* The answers to a startup, and to what comes after it.
LEMMA Answers ==
    /\ \A e \in {"startup.complete", "startup.failed"} : Append(<<>>, e) = <<e>>
    /\ \A e \in {"shutdown.complete", "shutdown.failed"} :
          Append(<<"startup.complete">>, e) = <<"startup.complete", e>>
<1> DEFINE S == {"startup.complete", "startup.failed", "shutdown.complete", "shutdown.failed"}
<1>1. \A e, f \in S : Append(<<>>, e) = <<e>> /\ Append(<<e>>, f) = <<e, f>>
  <2> HIDE DEF S
  <2> QED
    BY Answered
<1> QED
  BY <1>1

-----------------------------------------------------------------------------

Ordered == IsPrefix(started_up, on_startup) /\ IsPrefix(shut_down, on_shutdown)

Inv == TypeOK /\ Conversation /\ Ordered /\ StackIsCurrent

LEMMA Initially == Init => Inv
<1> SUFFICES ASSUME Init PROVE Inv
  OBVIOUS
<1>1. TypeOK
  BY DEF Init, TypeOK, Functions
<1>2. Conversation
  BY DEF Init, Conversation
<1>3. Ordered
  <2>1. <<>> \in Functions
    BY DEF Functions
  <2> QED
    BY <2>1, EmptyPrefix DEF Init, Ordered, Functions
<1> QED
  BY <1>1, <1>2, <1>3 DEF Inv, Init, StackIsCurrent

\* Registration, at any moment.
LEMMA Registering ==
    ASSUME Inv, Register
    PROVE  Inv'
<1> USE ConstantsAssumption DEF Inv, TypeOK, StackIsCurrent, BuildStack
<1>0. UNCHANGED task
  BY DEF Register, AddExceptionHandler, AddMiddleware, Mount, OnEvent
<1>1. Conversation'
  BY <1>0 DEF Conversation, task
<1>2. CASE \E class \in Classes : AddExceptionHandler(class)
  BY <1>1, <1>2 DEF AddExceptionHandler, task, Ordered
<1>3. CASE \E m \in Middlewares : AddMiddleware(m)
  <2>1. PICK m \in Middlewares : AddMiddleware(m)
    BY <1>3
  <2>2. middleware' \in Seq(Middlewares)
    BY <2>1 DEF AddMiddleware
  <2> QED
    BY <1>1, <2>1, <2>2 DEF AddMiddleware, task, Ordered
<1>4. CASE \E path \in MountPaths : Mount(path)
  <2>1. PICK path \in MountPaths : Mount(path)
    BY <1>4
  <2>2. Normalised(path) \in Seq(STRING)
    <3>1. path \in Seq(STRING)
      BY DEF ConstantsAssumption
    <3>2. CASE Len(path) > 1
      <4>1. SubSeq(path, 1, Len(path) - 1) \in Seq(STRING)
        BY <3>1, <3>2
      <4> QED
        BY <3>1, <4>1, Zenon DEF Normalised, Front
    <3>3. CASE ~(Len(path) > 1)
      BY <3>1, <3>3 DEF Normalised
    <3> QED
      BY <3>2, <3>3
  <2>3. mounts' \in Seq(Seq(STRING))
    BY <2>1, <2>2, AppendProperties DEF Mount
  <2> QED
    BY <1>1, <2>1, <2>3 DEF Mount, task, Ordered
<1>5. CASE \E type \in {"startup", "shutdown"}, fn \in Events : OnEvent(type, fn)
  <2>1. PICK type \in {"startup", "shutdown"}, fn \in Events : OnEvent(type, fn)
    BY <1>5
  <2>2. on_startup' \in Functions /\ on_shutdown' \in Functions
    <3>1. on_startup \in Seq(Events) /\ on_shutdown \in Seq(Events)
      BY DEF Functions
    <3>2. Append(on_startup, fn) \in Seq(Events) /\ Append(on_shutdown, fn) \in Seq(Events)
      BY <3>1
    <3> QED
      BY <2>1, <3>1, <3>2 DEF OnEvent, Functions
  <2>3. Ordered'
    <3>1. /\ started_up \in Seq(Events) /\ shut_down \in Seq(Events)
          /\ on_startup \in Seq(Events) /\ on_shutdown \in Seq(Events)
      BY DEF Functions
    <3>2. IsPrefix(started_up, Append(on_startup, fn)) /\ IsPrefix(shut_down, Append(on_shutdown, fn))
      BY <3>1, PrefixOfMore DEF Ordered
    <3> QED
      BY <1>0, <2>1, <3>2 DEF OnEvent, Ordered, task
  <2> QED
    BY <1>1, <2>1, <2>2, <2>3 DEF OnEvent, task
<1> QED
  BY <1>2, <1>3, <1>4, <1>5 DEF Register

\* The server, and each step of the lifespan task.
LEMMA LifespanStep ==
    ASSUME Inv, Announce \/ Lifespan
    PROVE  Inv'
<1> USE DEF Inv
<1>0. UNCHANGED others
  BY DEF Announce, Lifespan, IsLost, BeginLifespan, Startup, Started, BeginShutdown, Shutdown, Stopped,
         Fails, Interrupted
<1>1. StackIsCurrent'
  BY <1>0 DEF others, registered, StackIsCurrent, BuildStack
<1>2. Conversation'
  <2> USE DEF Conversation, Answer
  <2>1. CASE Announce
    BY <2>1 DEF Announce, others
  <2>2. CASE BeginLifespan
    BY <2>2 DEF BeginLifespan
  <2>3. CASE Startup
    BY <2>3 DEF Startup
  <2>4. CASE Started
    BY <2>4 DEF Started
  <2>5. CASE BeginShutdown
    BY <2>5 DEF BeginShutdown
  <2>6. CASE Shutdown
    BY <2>6 DEF Shutdown
  <2>7. CASE Stopped
    BY <2>7, Answers DEF Stopped
  <2>8. CASE Fails
    <3>1. CASE lifespan = "starting"
      BY <2>8, <3>1, Answers DEF Fails
    <3>2. CASE lifespan = "stopping"
      BY <2>8, <3>2, Answers DEF Fails
    <3> QED
      BY <2>8, <3>1, <3>2 DEF Fails
  <2>9. CASE Interrupted
    BY <2>9, Answers DEF Interrupted
  <2>10. CASE IsLost
    BY <2>10 DEF IsLost
  <2> QED
    BY <2>1, <2>2, <2>3, <2>4, <2>5, <2>6, <2>7, <2>8, <2>9, <2>10 DEF Lifespan
<1>3. Ordered' /\ started_up' \in Functions /\ shut_down' \in Functions /\ known' \in Nat
  <2>0. known' \in Nat
    <3>1. known' = known \/ known' = Len(on_startup)
      BY DEF Announce, Lifespan, IsLost, BeginLifespan, Startup, Started, BeginShutdown, Shutdown,
             Stopped, Fails, Interrupted
    <3> QED
      BY <3>1 DEF TypeOK, Functions
  <2> USE DEF TypeOK, Functions, Ordered
  <2>1. CASE Startup
    BY <2>0, <2>1, <1>0, LongerPrefix DEF Startup, others, registered
  <2>2. CASE Shutdown
    BY <2>0, <2>2, <1>0, LongerPrefix DEF Shutdown, others, registered
  <2>3. CASE UNCHANGED <<started_up, shut_down>>
    BY <2>0, <2>3, <1>0 DEF others, registered
  <2> QED
    BY <2>1, <2>2, <2>3 DEF Announce, Lifespan, IsLost, BeginLifespan, Started, BeginShutdown, Stopped,
                            Fails, Interrupted
<1>4. lifespan' \in {"new", "starting", "running", "stopping", "ended", "lost"}
  BY DEF TypeOK, Announce, Lifespan, IsLost, BeginLifespan, Startup, Started, BeginShutdown, Shutdown,
         Stopped, Fails, Interrupted
<1>5. told' \in Seq({"startup", "shutdown", "cancelled"})
  <2>1. <<>> \in Seq({"startup", "shutdown", "cancelled"})
    OBVIOUS
  <2>2. /\ <<"startup">> \in Seq({"startup", "shutdown", "cancelled"})
        /\ <<"startup", "shutdown">> \in Seq({"startup", "shutdown", "cancelled"})
        /\ <<"startup", "cancelled">> \in Seq({"startup", "shutdown", "cancelled"})
    OBVIOUS
  <2> QED
    BY <1>2, <2>1, <2>2, Zenon DEF Conversation
<1>6. answers' \in Seq({"startup.complete", "startup.failed",
                        "shutdown.complete", "shutdown.failed"})
  <2> DEFINE Messages == {"startup.complete", "startup.failed",
                          "shutdown.complete", "shutdown.failed"}
  <2>1. answers \in Seq(Messages)
    BY DEF TypeOK
  <2>2. \A e \in Messages : Append(answers, e) \in Seq(Messages)
    BY <2>1
  <2>3. answers' = answers \/ \E e \in Messages : answers' = Append(answers, e)
    BY DEF Answer, Announce, Lifespan, IsLost, BeginLifespan, Startup, Started, BeginShutdown, Shutdown,
           Stopped, Fails, Interrupted
  <2> QED
    BY <2>1, <2>2, <2>3
<1>7. TypeOK'
  BY <1>0, <1>3, <1>4, <1>5, <1>6 DEF TypeOK, others, registered
<1> QED
  BY <1>1, <1>2, <1>3, <1>7

\* A connection builds the stack when there is none, and changes nothing else of these.
LEMMA ConnectionStep ==
    ASSUME Inv, NEW c \in Connections, Connection(c)
    PROVE  Inv'
<1>1. UNCHANGED <<registered, task>> /\ stack' \in {stack, Current}
  BY DEF Connection, Connect, Serve, RefuseSocket, Accept, HandlerCloses, ClientLeaves,
         HandlerReturns, HandlerRaises, ExceptionHandler
<1>2. TypeOK' /\ StackIsCurrent'
  BY <1>1 DEF Inv, TypeOK, StackIsCurrent, Current, BuildStack, registered, task
<1> QED
  BY <1>1, <1>2 DEF Inv, Conversation, Ordered, registered, task

LEMMA Inductive == Inv /\ [Next]_vars => Inv'
<1> SUFFICES ASSUME Inv, [Next]_vars PROVE Inv'
  OBVIOUS
<1>1. CASE UNCHANGED vars
  BY <1>1 DEF vars, registered, task, Inv, TypeOK, Conversation, Ordered, StackIsCurrent, BuildStack
<1> QED
  BY <1>1, Registering, LifespanStep, ConnectionStep DEF Next

LEMMA Invariance == Spec => []Inv
BY Initially, Inductive, PTL DEF Spec

(***************************************************************************)
(* The type invariant of an application holds whatever is registered and   *)
(* whenever.                                                               *)
(***************************************************************************)
THEOREM TypeCorrect == Spec => []TypeOK
<1>1. Inv => TypeOK
  BY DEF Inv
<1> QED
  BY <1>1, Invariance, PTL

(***************************************************************************)
(* add_exception_handler, add_middleware, __call__: the stack that is kept *)
(* is always the one a request would build.                                *)
(***************************************************************************)
THEOREM StackNeverStale == Spec => []StackIsCurrent
<1>1. Inv => StackIsCurrent
  BY DEF Inv
<1> QED
  BY <1>1, Invariance, PTL

(***************************************************************************)
(* _lifespan: shutdown functions run only in an application that started,  *)
(* and all functions in the order of their registration, for any number of *)
(* functions registered at any time.                                       *)
(***************************************************************************)
THEOREM StartedBeforeStopped == Spec => []StopsOnlyWhatStarted
<1>1. Inv => StopsOnlyWhatStarted
  BY DEF Inv, Conversation, Ordered, StopsOnlyWhatStarted, TypeOK
<1> QED
  BY <1>1, Invariance, PTL

(***************************************************************************)
(* _lifespan: what is reported as complete is complete, for any number of  *)
(* functions registered at any time, by each other as well.                *)
(***************************************************************************)
THEOREM CompleteIsAll == Spec => CompleteMeansAll
<1> DEFINE Step ==
        /\ answers = <<>> /\ answers' = <<"startup.complete">> /\ ~_lifespan_user
              => started_up' = on_startup'
        /\ answers # answers' /\ Last(answers') = "shutdown.complete" /\ ~_lifespan_user
              => shut_down' = on_shutdown'
<1>1. ASSUME Inv, Next PROVE Step
  <2>1. /\ started_up \in Seq(Events) /\ shut_down \in Seq(Events)
        /\ on_startup \in Seq(Events) /\ on_shutdown \in Seq(Events)
        /\ IsPrefix(started_up, on_startup) /\ IsPrefix(shut_down, on_shutdown)
    BY <1>1 DEF Inv, TypeOK, Functions, Ordered
  <2>2. /\ Len(started_up) = Len(on_startup) => started_up = on_startup
        /\ Len(shut_down) = Len(on_shutdown) => shut_down = on_shutdown
    BY <2>1, WholePrefix
  <2>3. /\ Last(<<"startup.complete", "shutdown.failed">>) # "shutdown.complete"
        /\ Last(<<"startup.failed">>) # "shutdown.complete"
        /\ Last(<<"startup.complete">>) # "shutdown.complete"
        /\ <<"startup.failed">> # <<"startup.complete">>
    BY DEF Last
  <2>4. /\ lifespan \in {"new", "starting", "lost"} => answers = <<>>
        /\ lifespan \in {"running", "stopping"} => answers = <<"startup.complete">>
    BY <1>1 DEF Inv, Conversation
  <2>5. CASE Started
    BY <2>2, <2>3, <2>4, <2>5, Answers DEF Started, Answer, others, registered
  <2>6. CASE Stopped
    BY <2>2, <2>3, <2>4, <2>6 DEF Stopped, Answer, others, registered
  <2>7. CASE Fails
    <3>1. CASE lifespan = "starting"
      BY <2>3, <2>4, <2>7, <3>1, Answers DEF Fails, Answer
    <3>2. CASE lifespan = "stopping"
      <4>1. answers = <<"startup.complete">> /\ answers' = <<"startup.complete", "shutdown.failed">>
        BY <2>4, <2>7, <3>2, Answers DEF Fails, Answer
      <4> QED
        BY <2>3, <4>1
    <3> QED
      BY <2>7, <3>1, <3>2 DEF Fails
  <2>8. CASE Interrupted
    BY <2>3, <2>4, <2>8, Answers DEF Interrupted, Answer, others
  <2>9. CASE UNCHANGED answers
    BY <2>9
  <2>10. Register \/ Announce \/ IsLost \/ BeginLifespan \/ Startup \/ BeginShutdown \/ Shutdown
           => UNCHANGED answers
    BY DEF Register, AddExceptionHandler, AddMiddleware, Mount, OnEvent, Announce, IsLost,
           BeginLifespan, Startup, BeginShutdown, Shutdown, task
  <2>11. ASSUME NEW c \in Connections, Connection(c) PROVE UNCHANGED answers
    <3>1. UNCHANGED task
      BY <2>11, Zenon DEF Connection, Connect, Serve, RefuseSocket, Accept, HandlerCloses,
         ClientLeaves, HandlerReturns, HandlerRaises, ExceptionHandler
    <3> QED
      BY <3>1 DEF task
  <2> QED
    BY <1>1, <2>5, <2>6, <2>7, <2>8, <2>9, <2>10, <2>11 DEF Next, Lifespan
<1>2. Inv /\ [Next]_vars => [Step]_vars
  BY <1>1
<1> QED
  BY <1>2, Invariance, PTL DEF Spec, CompleteMeansAll

(***************************************************************************)
(* _lifespan keeps to the lifespan protocol: each of its steps, and of the *)
(* server's, is a step of LifespanProtocol or leaves the messages alone.   *)
(***************************************************************************)
THEOREM ProtocolKept == Spec => KeepsProtocol
<1>1. Init => Protocol!Init
  BY DEF Init, Protocol!Init
<1>2. Inv /\ [Next]_vars => [Protocol!Next]_(Protocol!vars)
  <2> SUFFICES ASSUME Inv, [Next]_vars PROVE Protocol!Next \/ UNCHANGED <<told, answers>>
    BY DEF Protocol!vars
  <2> USE DEF Inv, Conversation, Answer, Protocol!Next, Protocol!AnnounceStartup,
              Protocol!AnswerStartup, Protocol!AnnounceShutdown, Protocol!Cancel,
              Protocol!AnswerShutdown
  <2>1. CASE Announce
    BY <2>1 DEF Announce
  <2>2. CASE Started
    BY <2>2, Answers DEF Started
  <2>3. CASE Stopped
    <3>1. Len(told) = 2
      BY <2>3 DEF Stopped
    <3> QED
      BY <2>3, <3>1, Answers DEF Stopped
  <2>4. CASE Fails
    <3>1. CASE lifespan = "starting"
      BY <2>4, <3>1, Answers DEF Fails
    <3>2. CASE lifespan = "stopping"
      <4>1. Len(told) = 2
        BY <3>2
      <4> QED
        BY <2>4, <3>2, <4>1, Answers DEF Fails
    <3> QED
      BY <2>4, <3>1, <3>2 DEF Fails
  <2>5. CASE Interrupted
    <3>1. Len(told) = 2
      BY <2>5 DEF Interrupted
    <3> QED
      BY <2>5, <3>1, Answers DEF Interrupted
  <2>6. CASE IsLost \/ BeginLifespan \/ Startup \/ BeginShutdown \/ Shutdown
    BY <2>6 DEF IsLost, BeginLifespan, Startup, BeginShutdown, Shutdown
  <2>7. CASE Register
    BY <2>7 DEF Register, AddExceptionHandler, AddMiddleware, Mount, OnEvent, task
  <2>8. CASE \E c \in Connections : Connection(c)
    <3>1. PICK c \in Connections : Connection(c)
      BY <2>8
    <3>2. UNCHANGED task
      BY <3>1, Zenon DEF Connection, Connect, Serve, RefuseSocket, Accept, HandlerCloses,
         ClientLeaves, HandlerReturns, HandlerRaises, ExceptionHandler
    <3> QED
      BY <3>2 DEF task
  <2>9. CASE UNCHANGED vars
    BY <2>9 DEF vars, task
  <2> QED
    BY <2>1, <2>2, <2>3, <2>4, <2>5, <2>6, <2>7, <2>8, <2>9 DEF Next, Lifespan
<1> QED
  BY <1>1, <1>2, Invariance, PTL DEF Spec, KeepsProtocol, Protocol!Spec
-----------------------------------------------------------------------------
(* Connections *)

Record(at, scope, stck, target, raised, open, gone, closed) ==
    [at |-> at, scope |-> scope, stack |-> stck, target |-> target, raised |-> raised,
     open |-> open, gone |-> gone, closed |-> closed]

Codes == {"1000", "1011"}

Closing(at, closed) ==
    \/ closed = <<>>
    \/ \E code \in Codes : closed = <<code>>
    \/ at = "handled" /\ \E code \in Codes : closed = <<code, "handled">>

MustEnd(at, scope, target) ==
    \/ at \in {"raised", "handled"}
    \/ scope = "websocket" /\ at = "done" /\ target = None

(***************************************************************************)
(* Inductive: nobody has closed a connection that has not been given to a  *)
(* handler; one that was refused, or whose handler raised, is closed; and  *)
(* none is closed twice, unless a handler of the exception had its turn.   *)
(***************************************************************************)
ConnectionFits(r) ==
    /\ r = Record(r.at, r.scope, r.stack, r.target, r.raised, r.open, r.gone, r.closed)
    /\ Closing(r.at, r.closed)
    /\ r.at = "none" \/ (r.at = "app" /\ r.target = None) => r.closed = <<>>
    /\ MustEnd(r.at, r.scope, r.target) => r.gone \/ r.closed # <<>>

ConnInv ==
    /\ conn = [c \in Connections |-> conn[c]]
    /\ \A c \in Connections : ConnectionFits(conn[c])

LEMMA RecordFits ==
    ASSUME NEW a, NEW s, NEW k, NEW t, NEW e, NEW o, NEW g, NEW x,
           Closing(a, x),
           a = "none" \/ (a = "app" /\ t = None) => x = <<>>,
           MustEnd(a, s, t) => g \/ x # <<>>
    PROVE  ConnectionFits(Record(a, s, k, t, e, o, g, x))
BY DEF ConnectionFits, Record

\* One connection takes a step.
LEMMA ConnChanged ==
    ASSUME ConnInv, NEW c \in Connections, NEW r, ConnectionFits(r),
           conn' = [conn EXCEPT ![c] = r]
    PROVE  ConnInv'
<1>1. conn' = [d \in Connections |-> conn'[d]]
  BY DEF ConnInv
<1>2. \A d \in Connections : conn'[d] = IF d = c THEN r ELSE conn[d]
  BY DEF ConnInv
<1>3. \A d \in Connections : ConnectionFits(conn'[d])
  BY <1>2 DEF ConnInv
<1>4. \A d \in Connections : ConnectionFits(conn[d])'
  BY <1>3
<1> QED
  BY <1>1, <1>4 DEF ConnInv

LEMMA ConnectionChanges ==
    ASSUME ConnInv, NEW c \in Connections, Connection(c)
    PROVE  ConnInv'
<1> DEFINE r == conn[c]
           a == r.at
           s == r.scope
           k == r.stack
           t == r.target
           e == r.raised
           o == r.open
           g == r.gone
           x == r.closed
           no == FALSE
<1>1. r = Record(a, s, k, t, e, o, g, x)
  BY DEF ConnInv, ConnectionFits
<1>2. /\ Closing(a, x)
      /\ a = "none" \/ (a = "app" /\ t = None) => x = <<>>
      /\ MustEnd(a, s, t) => g \/ x # <<>>
  BY DEF ConnInv, ConnectionFits
<1>3. ASSUME NEW n, ConnectionFits(n), conn' = [conn EXCEPT ![c] = n] PROVE ConnInv'
  BY <1>3, ConnChanged
<1>4. CASE \E scope \in {"http", "websocket"}, path \in Paths : Connect(c, scope, path)
  <2>1. PICK scope \in {"http", "websocket"}, path \in Paths : Connect(c, scope, path)
    BY <1>4
  <2> DEFINE target == IF scope = "websocket" THEN IF path \in SocketPaths THEN path ELSE None
                       ELSE MountOf(path)
             r1 == [r EXCEPT !.at = "app"]
             r2 == [r1 EXCEPT !.scope = scope]
             r3 == [r2 EXCEPT !.stack = Current]
             r4 == [r3 EXCEPT !.target = target]
  <2>2. conn' = [conn EXCEPT ![c] = r4] /\ a = "none"
    BY <2>1 DEF Connect
  <2> HIDE DEF target, no, r, a, s, k, t, e, o, g, x
  <2>3. r1 = Record("app", s, k, t, e, o, g, x)
    BY <1>1 DEF Record
  <2> HIDE DEF r1
  <2>4. r2 = Record("app", scope, k, t, e, o, g, x)
    BY <2>3 DEF Record
  <2> HIDE DEF r2
  <2>5. r3 = Record("app", scope, Current, t, e, o, g, x)
    BY <2>4 DEF Record
  <2> HIDE DEF r3
  <2>6. r4 = Record("app", scope, Current, target, e, o, g, x)
    BY <2>5 DEF Record
  <2> HIDE DEF r4
  <2>7. ConnectionFits(Record("app", scope, Current, target, e, o, g, x))
    BY <1>2, <2>2, RecordFits DEF Closing, MustEnd
  <2> QED
    BY <1>3, <2>2, <2>6, <2>7
<1>5. CASE Serve(c) \/ HandlerReturns(c)
  <2> DEFINE n == [r EXCEPT !.at = "done"]
  <2>1. conn' = [conn EXCEPT ![c] = n] /\ a = "app" /\ (s = "http" \/ t # None)
    BY <1>5 DEF Serve, HandlerReturns, HandlerHas
  <2> HIDE DEF no, r, a, s, k, t, e, o, g, x
  <2>2. n = Record("done", s, k, t, e, o, g, x)
    BY <1>1 DEF Record
  <2> HIDE DEF n
  <2>3. ConnectionFits(Record("done", s, k, t, e, o, g, x))
    BY <1>2, <2>1, RecordFits DEF Closing, MustEnd
  <2> QED
    BY <1>3, <2>1, <2>2, <2>3
<1>6. CASE Accept(c)
  <2> DEFINE yes == TRUE
             n == [r EXCEPT !.open = yes]
  <2>1. conn' = [conn EXCEPT ![c] = n]
    BY <1>6 DEF Accept
  <2> HIDE DEF yes, no, r, a, s, k, t, e, o, g, x
  <2>2. n = Record(a, s, k, t, e, yes, g, x)
    BY <1>1 DEF Record
  <2> HIDE DEF n
  <2>3. ConnectionFits(Record(a, s, k, t, e, yes, g, x))
    BY <1>2, RecordFits
  <2> QED
    BY <1>3, <2>1, <2>2, <2>3
<1>7. CASE ClientLeaves(c)
  <2> DEFINE yes == TRUE
             n == [r EXCEPT !.gone = yes]
  <2>1. conn' = [conn EXCEPT ![c] = n] /\ a = "app" /\ t # None
    BY <1>7 DEF ClientLeaves, HandlerHas
  <2> HIDE DEF no, r, a, s, k, t, e, o, g, x
  <2>2. yes
    OBVIOUS
  <2> HIDE DEF yes
  <2>3. n = Record(a, s, k, t, e, o, yes, x)
    BY <1>1 DEF Record
  <2> HIDE DEF n
  <2>4. ConnectionFits(Record(a, s, k, t, e, o, yes, x))
    BY <1>2, <2>1, <2>2, RecordFits
  <2> QED
    BY <1>3, <2>1, <2>3, <2>4
<1>8. ASSUME NEW code
      PROVE  \E sent \in {x, Append(x, code)} :
                /\ Close(c, code) = Record(a, s, k, t, e, no, g, sent)
                /\ (g => sent = x) /\ (~g => sent = Append(x, code))
  <2> DEFINE sent == IF g THEN x ELSE Append(x, code)
             r1 == [r EXCEPT !.closed = sent]
             r2 == [r1 EXCEPT !.open = no]
  <2>1. Close(c, code) = r2
    BY DEF Close
  <2>2. sent \in {x, Append(x, code)} /\ (g => sent = x) /\ (~g => sent = Append(x, code))
    OBVIOUS
  <2> HIDE DEF sent, no, r, a, s, k, t, e, o, g, x
  <2>3. r1 = Record(a, s, k, t, e, o, g, sent)
    BY <1>1 DEF Record
  <2> HIDE DEF r1
  <2>4. r2 = Record(a, s, k, t, e, no, g, sent)
    BY <2>3 DEF Record
  <2> HIDE DEF r2
  <2> QED
    BY <2>1, <2>2, <2>4
<1>9. \A code \in Codes :
         /\ Append(<<>>, code) = <<code>> /\ <<code>> # <<>>
         /\ Append(<<code>>, "handled") = <<code, "handled">> /\ <<code, "handled">> # <<>>
  <2> DEFINE S == {"1000", "1011", "handled"}
  <2>1. \A d, f \in S : Append(<<>>, d) = <<d>> /\ Append(<<d>>, f) = <<d, f>>
    <3> HIDE DEF S
    <3> QED
      BY Answered
  <2> QED
    BY <2>1 DEF Codes
<1>10. CASE HandlerCloses(c)
  <2> DEFINE n == Close(c, "1000")
  <2>1. conn' = [conn EXCEPT ![c] = n] /\ x = <<>> /\ a = "app" /\ t # None
    BY <1>10 DEF HandlerCloses, HandlerHas
  <2> HIDE DEF no, r, a, s, k, t, e, o, g, x
  <2>2. PICK sent \in {x, Append(x, "1000")} : n = Record(a, s, k, t, e, no, g, sent)
    BY <1>8
  <2> HIDE DEF n
  <2>3. Closing(a, sent)
    BY <1>9, <2>1 DEF Closing, Codes
  <2>4. ConnectionFits(Record(a, s, k, t, e, no, g, sent))
    BY <2>1, <2>3, RecordFits DEF MustEnd
  <2>5. ConnectionFits(n)
    BY <2>2, <2>4
  <2> QED
    BY <1>3, <2>1, <2>5
<1>11. CASE RefuseSocket(c)
  <2> DEFINE n == [Close(c, "1000") EXCEPT !.at = "done"]
  <2>1. conn' = [conn EXCEPT ![c] = n] /\ x = <<>>
    BY <1>2, <1>11 DEF RefuseSocket
  <2> HIDE DEF no, r, a, s, k, t, e, o, g, x
  <2>2. PICK sent \in {x, Append(x, "1000")} :
           /\ Close(c, "1000") = Record(a, s, k, t, e, no, g, sent)
           /\ (g => sent = x) /\ (~g => sent = Append(x, "1000"))
    BY <1>8
  <2>3. n = Record("done", s, k, t, e, no, g, sent)
    BY <2>2 DEF Record
  <2> HIDE DEF n
  <2>4. Closing("done", sent) /\ (g \/ sent # <<>>)
    BY <1>9, <2>1, <2>2 DEF Closing, Codes
  <2>5. ConnectionFits(Record("done", s, k, t, e, no, g, sent))
    BY <2>4, RecordFits
  <2> QED
    BY <1>3, <2>1, <2>3, <2>5
<1>12. CASE \E exception \in Classes \cup Defaults : HandlerRaises(c, exception)
  <2>1. PICK exception \in Classes \cup Defaults : HandlerRaises(c, exception)
    BY <1>12
  <2> DEFINE left == IF x = <<>> THEN Close(c, "1011") ELSE r
             n1 == [left EXCEPT !.at = "raised"]
             n == [n1 EXCEPT !.raised = exception]
  <2>2. conn' = [conn EXCEPT ![c] = n] /\ a = "app"
    BY <2>1 DEF HandlerRaises, HandlerHas
  <2> HIDE DEF no, r, a, s, k, t, e, o, g, x
  <2>3. PICK open, sent :
           /\ left = Record(a, s, k, t, e, open, g, sent)
           /\ Closing("raised", sent) /\ (g \/ sent # <<>>)
    <3>1. CASE x = <<>>
      <4>1. PICK sent \in {x, Append(x, "1011")} :
               /\ Close(c, "1011") = Record(a, s, k, t, e, no, g, sent)
               /\ (g => sent = x) /\ (~g => sent = Append(x, "1011"))
        BY <1>8
      <4>2. Closing("raised", sent) /\ (g \/ sent # <<>>)
        BY <1>9, <3>1, <4>1 DEF Closing, Codes
      <4> QED
        BY <3>1, <4>1, <4>2
    <3>2. CASE x # <<>>
      <4>1. Closing("raised", x)
        BY <1>2, <2>2 DEF Closing
      <4>2. left = Record(a, s, k, t, e, o, g, x)
        BY <1>1, <3>2
      <4> QED
        BY <3>2, <4>1, <4>2
    <3> QED
      BY <3>1, <3>2
  <2> HIDE DEF left
  <2>4. n1 = Record("raised", s, k, t, e, open, g, sent)
    BY <2>3 DEF Record
  <2> HIDE DEF n1
  <2>5. n = Record("raised", s, k, t, exception, open, g, sent)
    BY <2>4 DEF Record
  <2> HIDE DEF n
  <2>6. ConnectionFits(Record("raised", s, k, t, exception, open, g, sent))
    BY <2>3, RecordFits
  <2> QED
    BY <1>3, <2>2, <2>5, <2>6
<1>13. CASE ExceptionHandler(c)
  <2>1. /\ a = "raised"
        /\ \/ conn' = [conn EXCEPT ![c] = [Close(c, "handled") EXCEPT !.at = "handled"]]
           \/ conn' = [conn EXCEPT ![c] = [r EXCEPT !.at = "handled"]]
    BY <1>13 DEF ExceptionHandler
  <2> HIDE DEF no, r, a, s, k, t, e, o, g, x
  <2>2. g \/ x # <<>>
    BY <1>2, <2>1 DEF MustEnd
  <2>3. x = <<>> \/ \E code \in Codes : x = <<code>>
    BY <1>2, <2>1 DEF Closing
  <2>4. CASE conn' = [conn EXCEPT ![c] = [Close(c, "handled") EXCEPT !.at = "handled"]]
    <3> DEFINE n == [Close(c, "handled") EXCEPT !.at = "handled"]
    <3>1. PICK sent \in {x, Append(x, "handled")} :
             /\ Close(c, "handled") = Record(a, s, k, t, e, no, g, sent)
             /\ (g => sent = x) /\ (~g => sent = Append(x, "handled"))
      BY <1>8
    <3>2. n = Record("handled", s, k, t, e, no, g, sent) /\ conn' = [conn EXCEPT ![c] = n]
      BY <2>4, <3>1 DEF Record
    <3> HIDE DEF n
    <3>3. Closing("handled", sent) /\ (g \/ sent # <<>>)
      <4>1. CASE g
        BY <2>3, <3>1, <4>1 DEF Closing
      <4>2. CASE ~g
        <5>1. PICK code \in Codes : x = <<code>>
          BY <2>2, <2>3, <4>2
        <5> QED
          BY <1>9, <3>1, <4>2, <5>1 DEF Closing
      <4> QED
        BY <4>1, <4>2
    <3>4. ConnectionFits(Record("handled", s, k, t, e, no, g, sent))
      BY <3>3, RecordFits
    <3> QED
      BY <1>3, <3>2, <3>4
  <2>5. CASE conn' = [conn EXCEPT ![c] = [r EXCEPT !.at = "handled"]]
    <3> DEFINE n == [r EXCEPT !.at = "handled"]
    <3>1. n = Record("handled", s, k, t, e, o, g, x) /\ conn' = [conn EXCEPT ![c] = n]
      BY <1>1, <2>5 DEF Record
    <3> HIDE DEF n
    <3>2. ConnectionFits(Record("handled", s, k, t, e, o, g, x))
      BY <2>2, <2>3, RecordFits DEF Closing
    <3> QED
      BY <1>3, <3>1, <3>2
  <2> QED
    BY <2>1, <2>4, <2>5
<1> QED
  BY <1>4, <1>5, <1>6, <1>7, <1>10, <1>11, <1>12, <1>13 DEF Connection

LEMMA ConnStep == ConnInv /\ [Next]_vars => ConnInv'
<1> SUFFICES ASSUME ConnInv, [Next]_vars PROVE ConnInv'
  OBVIOUS
<1>1. CASE UNCHANGED conn
  BY <1>1 DEF ConnInv, ConnectionFits, Closing, MustEnd
<1>2. Register \/ Announce \/ Lifespan => UNCHANGED conn
  BY DEF Register, AddExceptionHandler, AddMiddleware, Mount, OnEvent, Announce, Lifespan, IsLost,
         BeginLifespan, Startup, Started, BeginShutdown, Shutdown, Stopped, Fails, Interrupted, others
<1> QED
  BY <1>1, <1>2, ConnectionChanges DEF Next, vars

(***************************************************************************)
(* _handle_websocket: a connection that was refused or whose handler       *)
(* raised is closed, and once but for what a handler of the exception      *)
(* sends, for any number of connections.                                   *)
(***************************************************************************)
THEOREM SocketsEndClosed == Spec => []SocketsAreClosed
<1>1. Init => ConnInv
  <2>1. NoConnection = Record("none", None, None, None, None, FALSE, FALSE, <<>>)
    BY DEF NoConnection, Record
  <2>2. ConnectionFits(NoConnection)
    BY <2>1, RecordFits DEF Closing, MustEnd
  <2> QED
    BY <2>2 DEF Init, ConnInv
<1>2. ConnInv => SocketsAreClosed
  <2> SUFFICES ASSUME ConnInv, NEW c \in Connections
               PROVE  LET closed == conn[c].closed IN
                      /\ Len(closed) <= IF conn[c].at = "handled" THEN 2 ELSE 1
                      /\ MustEnd(conn[c].at, conn[c].scope, conn[c].target)
                            => conn[c].gone \/ (closed # <<>> /\ Head(closed) # "handled")
    BY DEF SocketsAreClosed, MustEnd
  <2>1. /\ Closing(conn[c].at, conn[c].closed)
        /\ MustEnd(conn[c].at, conn[c].scope, conn[c].target)
              => conn[c].gone \/ conn[c].closed # <<>>
    BY DEF ConnInv, ConnectionFits
  <2>2. CASE conn[c].closed = <<>>
    BY <2>1, <2>2
  <2>3. ASSUME NEW code \in Codes, conn[c].closed = <<code>>
        PROVE  Len(conn[c].closed) = 1 /\ Head(conn[c].closed) = code
    BY <2>3
  <2>4. ASSUME NEW code \in Codes, conn[c].closed = <<code, "handled">>
        PROVE  Len(conn[c].closed) = 2 /\ Head(conn[c].closed) = code
    BY <2>4
  <2>5. \A code \in Codes : code # "handled"
    BY DEF Codes
  <2>6. CASE \E code \in Codes : conn[c].closed = <<code>>
    BY <2>1, <2>3, <2>5, <2>6
  <2>7. CASE conn[c].at = "handled" /\ \E code \in Codes : conn[c].closed = <<code, "handled">>
    BY <2>1, <2>4, <2>5, <2>7
  <2> QED
    BY <2>1, <2>2, <2>6, <2>7 DEF Closing
<1> QED
  BY <1>1, <1>2, ConnStep, PTL DEF Spec
=============================================================================
