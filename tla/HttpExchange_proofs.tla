------------------------ MODULE HttpExchange_proofs -------------------------
(***************************************************************************)
(* Proofs about HttpExchange, for any servers, number of chunks and parts, *)
(* and any background tasks.                                               *)
(***************************************************************************)
EXTENDS HttpExchange, TLAPS

LEMMA AppendFacts ==
    ASSUME NEW S, NEW s \in Seq(S), NEW e \in S
    PROVE  /\ Append(s, e) \in Seq(S)
           /\ Len(Append(s, e)) = Len(s) + 1
           /\ \A i \in 1..Len(s) : Append(s, e)[i] = s[i]
           /\ Append(s, e)[Len(s) + 1] = e
OBVIOUS

-----------------------------------------------------------------------------
(* Types *)

(***************************************************************************)
(* The sender is known before anything is sent.                            *)
(***************************************************************************)
Sender == stage \in {"send", "stream"} => by # None

TypeInv == TypeOK /\ Sender

LEMMA SendType ==
    ASSUME TypeInv, NEW kind \in {"start", "part", "end"}, Send(kind),
           stage \in {"send", "stream"}, UNCHANGED by
    PROVE  wire' \in Seq(Message)
<1>1. by \in Senders
  BY DEF TypeInv, TypeOK, Sender
<1>2. [kind |-> kind, by |-> by] \in Message
  BY <1>1 DEF Message
<1>3. wire \in Seq(Message)
  BY DEF TypeInv, TypeOK
<1> QED
  BY <1>2, <1>3, AppendFacts DEF Send

LEMMA TypeStep == TypeInv /\ [Next]_vars => TypeInv'
<1> SUFFICES ASSUME TypeInv, [Next]_vars PROVE TypeInv'
  OBVIOUS
<1> USE ExchangeAssumption
        DEF TypeInv, TypeOK, Sender, Goto, Raise, request, client, response, background, Stages,
            Exceptions, Handled, Returns, Senders, Faults
<1>1. CASE SendChunk
  BY <1>1 DEF SendChunk
<1>2. CASE Leave \/ BodyBreaks
  <2>1. gone' \in BOOLEAN /\ broken' \in BOOLEAN
    BY <1>2 DEF Leave, BodyBreaks
  <2> QED
    BY <1>2, <2>1 DEF Leave, BodyBreaks
<1>3. CASE ReceiveChunk
  <2>1. Len(body) + 1 \in 1..Chunks
    BY <1>3 DEF ReceiveChunk
  <2>2. body' \in Seq(1..Chunks)
    BY <1>3, <2>1, AppendFacts DEF ReceiveChunk
  <2> QED
    BY <1>3, <2>2 DEF ReceiveChunk
<1>4. CASE ReceiveDisconnect
  <2>1. body' \in Seq(1..Chunks) /\ stage' \in {"done", "dispatch"}
    <3>1. body' = body \/ body' = <<>>
      BY <1>4 DEF ReceiveDisconnect
    <3>2. stage' \in {"done", "dispatch"}
      BY <1>4 DEF ReceiveDisconnect
    <3>3. <<>> \in Seq(1..Chunks)
      OBVIOUS
    <3> QED
      BY <3>1, <3>2, <3>3
  <2> QED
    BY <1>4, <2>1 DEF ReceiveDisconnect
<1>5. CASE AnswerEarly
  BY <1>5 DEF AnswerEarly
<1>6. CASE DispatchTrivial
  BY <1>6 DEF DispatchTrivial
<1>7. CASE DispatchAsgi
  <2>1. added' \in {<<>>, Tasks, <<OwnTask>>}
    BY <1>7 DEF DispatchAsgi, Background
  <2> QED
    BY <1>7, <2>1 DEF DispatchAsgi
<1>8. CASE DispatchNative
  BY <1>8 DEF DispatchNative
<1>9. CASE HeadersFail
  BY <1>9 DEF HeadersFail
<1>10. CASE SendStart
  <2>1. wire' \in Seq(Message)
    BY <1>10, SendType DEF SendStart
  <2> QED
    BY <1>10, <2>1 DEF SendStart
<1>11. CASE SendBody
  <2>1. wire' \in Seq(Message)
    BY <1>11, SendType DEF SendBody
  <2> QED
    BY <1>11, <2>1 DEF SendBody
<1>12. CASE StreamStart
  <2>1. wire' \in Seq(Message)
    BY <1>12, SendType DEF StreamStart
  <2> QED
    BY <1>12, <2>1 DEF StreamStart
<1>13. CASE StreamPart
  <2>1. wire' \in Seq(Message)
    BY <1>13, SendType DEF StreamPart
  <2> QED
    BY <1>13, <2>1 DEF StreamPart
<1>14. CASE StreamEnds
  <2>1. wire' \in Seq(Message)
    BY <1>14, SendType DEF StreamEnds
  <2> QED
    BY <1>14, <2>1 DEF StreamEnds
<1>15. CASE StreamFails
  BY <1>15 DEF StreamFails
<1>16. CASE RunTask
  <2>1. added \in Seq(Nat) /\ ran \in Seq(Nat)
    <3>1. <<OwnTask>> \in Seq(Nat)
      BY DEF OwnTask
    <3>2. <<>> \in Seq(Nat)
      OBVIOUS
    <3> QED
      BY <3>1, <3>2
  <2>2. added[Len(ran) + 1] \in Nat
    BY <1>16, <2>1 DEF RunTask
  <2>3. ran' \in Seq(Nat)
    BY <1>16, <2>1, <2>2, AppendFacts DEF RunTask
  <2> QED
    BY <1>16, <2>3 DEF RunTask
<1>17. CASE TasksEnd
  BY <1>17 DEF TasksEnd
<1>18. CASE ExceptionMiddleware
  BY <1>18 DEF ExceptionMiddleware
<1>19. CASE ServerErrorMiddleware
  BY <1>19 DEF ServerErrorMiddleware
<1>20. CASE Over
  BY <1>20 DEF Over, vars
<1>21. CASE UNCHANGED vars
  BY <1>21 DEF vars
<1> QED
  BY <1>1, <1>2, <1>3, <1>4, <1>5, <1>6, <1>7, <1>8, <1>9, <1>10, <1>11, <1>12,
     <1>13, <1>14, <1>15, <1>16, <1>17, <1>18, <1>19, <1>20, <1>21
     DEF Next, Server

\* The type invariant, for every value of the constants.
LEMMA Typed == Spec => []TypeInv
<1>1. Init => gone \in BOOLEAN /\ broken \in BOOLEAN /\ started \in BOOLEAN
  BY DEF Init
<1>2. Init => TypeInv
  BY <1>1, ExchangeAssumption DEF Init, TypeInv, TypeOK, Sender, Stages, OwnTask
<1> QED
  BY <1>2, TypeStep, PTL DEF Spec

THEOREM TypeCorrect == Spec => []TypeOK
BY Typed, PTL DEF TypeInv

-----------------------------------------------------------------------------
(* One response *)

Sending == {"receive", "dispatch", "send", "stream"}

(***************************************************************************)
(* Inductive: before the start nothing is on the wire; after it, all of it *)
(* comes from the present sender; and an end is put there only by a step   *)
(* that leaves the stages that send.                                       *)
(***************************************************************************)
WireInv ==
    /\ ~started => wire = <<>>
    /\ started /\ ~gone => wire # <<>>
    /\ stage \in {"receive", "dispatch"} => ~started
    /\ \A i \in 1..Len(wire) :
          /\ wire[i].kind = "start" <=> i = 1
          /\ wire[i].by = by
          /\ wire[i].kind = "end" => i = Len(wire) /\ stage \notin Sending

LEMMA WireKept ==
    ASSUME WireInv, UNCHANGED <<wire, started>>, gone => gone', started => by' = by,
           stage' \in {"receive", "dispatch"} => ~started,
           stage' \in Sending => stage \in Sending \/ ~started
    PROVE  WireInv'
<1>1. CASE started
  BY <1>1 DEF WireInv
<1>2. CASE ~started
  <2>1. wire' = <<>>
    BY <1>2 DEF WireInv
  <2> QED
    BY <1>2, <2>1 DEF WireInv
<1> QED
  BY <1>1, <1>2

LEMMA WireSent ==
    ASSUME TypeInv, WireInv, NEW kind \in {"start", "part", "end"}, Send(kind),
           stage \in {"send", "stream"}, UNCHANGED <<by, gone>>,
           kind = "start" <=> ~started, started' = TRUE,
           stage' = stage \/ stage' \in {"tasks", "done"},
           kind = "end" => stage' \in {"tasks", "done"}
    PROVE  WireInv'
<1> DEFINE msg == [kind |-> kind, by |-> by]
<1>1. wire \in Seq(Message) /\ msg \in Message
  BY DEF TypeInv, TypeOK, Sender, Message
<1>2. stage \in Sending /\ stage' \notin {"receive", "dispatch"}
  BY DEF Sending
<1>3. CASE gone
  <2>1. wire' = wire
    BY <1>3 DEF Send
  <2>2. CASE started
    BY <1>2, <1>3, <2>1, <2>2 DEF WireInv, Sending
  <2>3. CASE ~started
    BY <1>2, <1>3, <2>1, <2>3 DEF WireInv, Sending
  <2> QED
    BY <2>2, <2>3
<1>4. CASE ~gone
  <2>1. wire' = Append(wire, msg)
    BY <1>4 DEF Send
  <2>2. /\ Len(wire') = Len(wire) + 1
        /\ \A i \in 1..Len(wire) : wire'[i] = wire[i]
        /\ wire'[Len(wire) + 1] = msg
        /\ Len(wire) \in Nat
    BY <1>1, <2>1, AppendFacts
  <2>3. kind = "start" <=> Len(wire) = 0
    BY <1>1, <1>4 DEF WireInv
  <2>4. \A i \in 1..Len(wire) : wire[i].kind # "end"
    BY <1>2 DEF WireInv
  <2>5. \A i \in 1..Len(wire') :
          /\ wire'[i].kind = "start" <=> i = 1
          /\ wire'[i].by = by
          /\ wire'[i].kind = "end" => i = Len(wire') /\ stage' \notin Sending
    <3>1. ASSUME NEW i \in 1..Len(wire)
          PROVE  /\ wire'[i].kind = "start" <=> i = 1
                 /\ wire'[i].by = by
                 /\ wire'[i].kind # "end"
      BY <2>2, <2>4 DEF WireInv
    <3>2. /\ wire'[Len(wire) + 1].kind = kind
          /\ wire'[Len(wire) + 1].by = by
      BY <2>2
    <3>3. kind = "end" => stage' \notin Sending
      BY DEF Sending
    <3> QED
      BY <2>2, <2>3, <3>1, <3>2, <3>3
  <2>6. wire' # <<>>
    BY <2>2
  <2> QED
    BY <1>2, <2>5, <2>6 DEF WireInv
<1> QED
  BY <1>3, <1>4

LEMMA WireStep == TypeInv /\ WireInv /\ [Next]_vars => WireInv'
<1> SUFFICES ASSUME TypeInv, WireInv, [Next]_vars PROVE WireInv'
  OBVIOUS
<1> USE DEF Goto, Raise, request, client, response, background
<1>1. CASE SendChunk \/ Leave \/ BodyBreaks \/ Over \/ UNCHANGED vars
  BY <1>1, WireKept DEF SendChunk, Leave, BodyBreaks, Over, vars, WireInv, Sending
<1>2. CASE ReceiveChunk \/ ReceiveDisconnect
  <2>1. ~started /\ UNCHANGED <<wire, started, gone>>
    BY <1>2 DEF ReceiveChunk, ReceiveDisconnect, WireInv
  <2> QED
    BY <2>1, WireKept
<1>3. CASE AnswerEarly \/ DispatchTrivial \/ DispatchAsgi \/ DispatchNative
  <2>1. ~started /\ UNCHANGED <<wire, started, gone>>
    BY <1>3 DEF AnswerEarly, DispatchTrivial, DispatchAsgi, DispatchNative, WireInv
  <2> QED
    BY <2>1, WireKept
<1>4. CASE HeadersFail
  <2>1. ~started /\ UNCHANGED <<wire, started, gone>>
    BY <1>4 DEF HeadersFail
  <2> QED
    BY <2>1, WireKept
<1>5. CASE SendStart
  BY <1>5, WireSent DEF SendStart
<1>6. CASE SendBody
  BY <1>6, WireSent DEF SendBody, TypeInv, TypeOK
<1>7. CASE StreamStart
  BY <1>7, WireSent DEF StreamStart
<1>8. CASE StreamPart
  BY <1>8, WireSent DEF StreamPart, TypeInv, TypeOK
<1>9. CASE StreamEnds
  <2>1. CASE started
    BY <1>9, <2>1, WireSent DEF StreamEnds, TypeInv, TypeOK
  <2>2. CASE ~started
    <3>1. UNCHANGED wire /\ gone
      BY <1>9, <2>2 DEF StreamEnds, Send
    <3> QED
      BY <1>9, <2>2, <3>1, WireKept DEF StreamEnds, Sending
  <2> QED
    BY <2>1, <2>2
<1>10. CASE StreamFails
  BY <1>10, WireKept DEF StreamFails, Sending
<1>11. CASE RunTask
  BY <1>11, WireKept DEF RunTask, Sending
<1>12. CASE TasksEnd
  BY <1>12, WireKept DEF TasksEnd, Sending
<1>13. CASE ExceptionMiddleware
  BY <1>13, WireKept DEF ExceptionMiddleware, Sending
<1>14. CASE ServerErrorMiddleware
  BY <1>14, WireKept DEF ServerErrorMiddleware, Sending
<1> QED
  BY <1>1, <1>2, <1>3, <1>4, <1>5, <1>6, <1>7, <1>8, <1>9, <1>10, <1>11, <1>12, <1>13, <1>14
     DEF Next, Server

LEMMA WireInvariant == Spec => []WireInv
<1>1. Init => WireInv
  BY DEF Init, WireInv
<1> QED
  BY <1>1, WireStep, Typed, PTL DEF Spec

(***************************************************************************)
(* A client never gets two responses mixed, whatever fails and whenever.   *)
(***************************************************************************)
THEOREM NeverTwoResponses == Spec => []OneResponse
<1>1. TypeInv /\ WireInv => OneResponse
  <2> SUFFICES ASSUME TypeInv, WireInv PROVE OneResponse
    OBVIOUS
  <2>1. wire \in Seq(Message) /\ DOMAIN wire = 1..Len(wire) /\ Len(wire) \in Nat
    BY DEF TypeInv, TypeOK
  <2>2. ASSUME NEW i \in 1..Len(wire)
        PROVE  /\ wire[i].kind = "start" <=> i = 1
               /\ wire[i].kind = "end" => i = Len(wire)
               /\ wire[i].by = wire[1].by
    <3>1. 1 \in 1..Len(wire)
      BY <2>1
    <3>2. wire[i].by = by /\ wire[1].by = by
      BY <3>1 DEF WireInv
    <3> QED
      BY <3>2 DEF WireInv
  <2> QED
    BY <2>1, <2>2 DEF OneResponse
<1> QED
  BY <1>1, WireInvariant, Typed, PTL

-----------------------------------------------------------------------------
(* Background tasks *)

Begun == Len(ran) <= Len(added) /\ \A i \in 1..Len(ran) : ran[i] = added[i]

(***************************************************************************)
(* Inductive: no task is begun, and nothing has failed, up to the stage    *)
(* that runs them; what leads elsewhere has no tasks or a failure to show. *)
(***************************************************************************)
TasksInv ==
    /\ Begun
    /\ stage \in {"receive", "dispatch"} => added = <<>>
    /\ stage \in {"receive", "dispatch", "stream"} \/ (stage = "send" /\ by = "route") =>
          ran = <<>> /\ fault = None
    /\ stage = "tasks" => (WireEnded \/ gone) /\ fault = None
    /\ stage = "send" /\ by # "route" => fault # None \/ added = <<>>
    /\ stage \in {"middleware", "error"} => fault # None \/ added = <<>>
    /\ ran # <<>> => (WireEnded \/ gone) /\ fault # "headers" /\ fault # "stream"
    /\ stage = "done" /\ fault = None => Len(ran) = Len(added)

LEMMA Ending ==
    ASSUME TypeInv, Send("end"), stage \in {"send", "stream"}
    PROVE  WireEnded' \/ gone
<1>1. wire \in Seq(Message) /\ [kind |-> "end", by |-> by] \in Message
  BY DEF TypeInv, TypeOK, Sender, Message
<1>2. CASE ~gone
  <2>1. wire' = Append(wire, [kind |-> "end", by |-> by])
    BY <1>2 DEF Send
  <2>2. Len(wire') = Len(wire) + 1 /\ wire'[Len(wire) + 1] = [kind |-> "end", by |-> by]
    BY <1>1, <2>1, AppendFacts
  <2>3. wire' # <<>> /\ wire'[Len(wire')].kind = "end"
    BY <1>1, <2>2
  <2> QED
    BY <2>3 DEF WireEnded, Last
<1> QED
  BY <1>2

LEMMA TasksStep == TypeInv /\ TypeInv' /\ WireInv /\ TasksInv /\ [Next]_vars => TasksInv'
<1> SUFFICES ASSUME TypeInv, TypeInv', WireInv, TasksInv, [Next]_vars PROVE TasksInv'
  OBVIOUS
<1> USE ExchangeAssumption DEF Goto, Raise, request, client, response, background, TasksInv, Faults
<1>0. added \in Seq(Nat) /\ ran \in Seq(Nat)
  <2>1. <<OwnTask>> \in Seq(Nat) /\ <<>> \in Seq(Nat)
    BY DEF OwnTask
  <2> QED
    BY <2>1 DEF TypeInv, TypeOK
<1>1. CASE SendChunk
  BY <1>1 DEF SendChunk, Begun, WireEnded
<1>18. CASE Leave \/ BodyBreaks
  BY <1>18 DEF Leave, BodyBreaks, Begun, WireEnded
<1>19. CASE Over \/ UNCHANGED vars
  BY <1>19 DEF Over, vars, Begun, WireEnded
<1>2. CASE ReceiveChunk \/ ReceiveDisconnect
  BY <1>2 DEF ReceiveChunk, ReceiveDisconnect, Begun, WireEnded
<1>3. CASE AnswerEarly
  BY <1>3 DEF AnswerEarly, Begun, WireEnded
<1>4. CASE DispatchTrivial
  BY <1>4 DEF DispatchTrivial, Begun, WireEnded
<1>5. CASE DispatchAsgi
  BY <1>5 DEF DispatchAsgi, Begun, WireEnded, TypeInv, TypeOK, Exceptions, Handled
<1>6. CASE DispatchNative
  BY <1>6 DEF DispatchNative, Begun, WireEnded
<1>7. CASE HeadersFail
  BY <1>7 DEF HeadersFail, Begun, WireEnded
<1>8. CASE SendStart
  <2>1. ran # <<>> => gone
    BY <1>8 DEF SendStart, WireInv, WireEnded
  <2> QED
    BY <1>8, <2>1 DEF SendStart, Begun
<1>9. CASE SendBody
  <2>1. WireEnded' \/ gone
    BY <1>9, Ending DEF SendBody
  <2> QED
    BY <1>9, <2>1 DEF SendBody, Begun
<1>10. CASE StreamStart
  BY <1>10 DEF StreamStart, Begun
<1>11. CASE StreamPart
  BY <1>11 DEF StreamPart, Begun
<1>12. CASE StreamEnds
  <2>1. WireEnded' \/ gone
    BY <1>12, Ending DEF StreamEnds
  <2> QED
    BY <1>12, <2>1 DEF StreamEnds, Begun
<1>13. CASE StreamFails
  BY <1>13 DEF StreamFails, Begun, WireEnded
<1>14. CASE RunTask
  <2>1. Begun'
    BY <1>0, <1>14, AppendFacts DEF RunTask, Begun
  <2>2. /\ WireEnded' = WireEnded
        /\ fault' = None \/ fault' = "task"
        /\ stage' = "tasks" \/ stage' = "middleware"
        /\ stage' = "tasks" => fault' = None
        /\ UNCHANGED <<gone, by, added>>
    BY <1>14 DEF RunTask, WireEnded
  <2>3. WireEnded \/ gone
    BY <1>14 DEF RunTask
  <2>4. fault' # "headers" /\ fault' # "stream" /\ (stage' = "middleware" => fault' # None)
    <3>1. stage' = "middleware" => fault' = "task"
      BY <1>14 DEF RunTask
    <3> QED
      BY <2>2, <3>1
  <2> QED
    BY <2>1, <2>2, <2>3, <2>4
<1>15. CASE TasksEnd
  BY <1>15 DEF TasksEnd, Begun, WireEnded
<1>16. CASE ExceptionMiddleware
  BY <1>16 DEF ExceptionMiddleware, Begun, WireEnded
<1>17. CASE ServerErrorMiddleware
  BY <1>17 DEF ServerErrorMiddleware, Begun, WireEnded
<1> QED
  BY <1>1, <1>2, <1>3, <1>4, <1>5, <1>6, <1>7, <1>8, <1>9, <1>10, <1>11, <1>12, <1>13, <1>14,
     <1>15, <1>16, <1>17, <1>18, <1>19
     DEF Next, Server

(***************************************************************************)
(* Background tasks begin in order, after the response, and all of them.   *)
(***************************************************************************)
THEOREM TasksRunAfterBody == Spec => []TasksAfterBody
<1>1. Init => TasksInv
  BY DEF Init, TasksInv, Begun
<1>2. TypeInv /\ TasksInv => TasksAfterBody
  <2> SUFFICES ASSUME TypeInv, TasksInv PROVE TasksAfterBody
    OBVIOUS
  <2>1. added \in Seq(Nat) /\ ran \in Seq(Nat)
    <3>1. <<OwnTask>> \in Seq(Nat) /\ <<>> \in Seq(Nat)
      BY DEF OwnTask
    <3> QED
      BY <3>1, ExchangeAssumption DEF TypeInv, TypeOK
  <2>2. Len(ran) = Len(added) => ran = added
    <3> SUFFICES ASSUME Len(ran) = Len(added) PROVE ran = added
      OBVIOUS
    <3>1. \A i \in 1..Len(ran) : ran[i] = added[i]
      BY DEF TasksInv, Begun
    <3> QED
      BY <2>1, <3>1
  <2> QED
    BY <2>2 DEF TasksInv, Begun, TasksAfterBody
<1> QED
  BY <1>1, <1>2, TasksStep, WireInvariant, Typed, PTL DEF Spec

-----------------------------------------------------------------------------
(* The body *)

(***************************************************************************)
(* Inductive: chunks arrive in order, and the dispatcher is entered with   *)
(* all of them or after the client left.                                   *)
(***************************************************************************)
BodyInv ==
    /\ Len(body) <= sent
    /\ \A i \in 1..Len(body) : body[i] = i
    /\ stage = "dispatch" =>
          \/ Len(body) = Chunks
          \/ (gone \/ broken) /\ server = "h1" /\ body = <<>>
          \/ (gone \/ broken) /\ server = "h3"
    /\ BodyIsWhole

LEMMA BodyStep == TypeInv /\ BodyInv /\ [Next]_vars => BodyInv'
<1> SUFFICES ASSUME TypeInv, BodyInv, [Next]_vars PROVE BodyInv'
  OBVIOUS
<1> USE ExchangeAssumption
        DEF Goto, Raise, request, client, response, background, BodyInv, BodyIsWhole
<1>1. body \in Seq(1..Chunks) /\ sent \in 0..Chunks /\ Chunks \in Nat
  BY DEF TypeInv, TypeOK
<1>2. CASE ReceiveChunk
  <2>1. Len(body) + 1 \in 1..Chunks
    BY <1>1, <1>2 DEF ReceiveChunk
  <2>2. /\ Len(body') = Len(body) + 1
        /\ \A i \in 1..Len(body) : body'[i] = body[i]
        /\ body'[Len(body) + 1] = Len(body) + 1
    BY <1>1, <1>2, <2>1, AppendFacts DEF ReceiveChunk
  <2>3. \A i \in 1..Len(body') : body'[i] = i
    <3>1. ASSUME NEW i \in 1..Len(body) PROVE body'[i] = i
      BY <2>2
    <3>2. 1..Len(body') = 1..Len(body) \cup {Len(body) + 1}
      BY <1>1, <2>2
    <3> QED
      BY <2>2, <3>1, <3>2
  <2> QED
    BY <1>1, <1>2, <2>2, <2>3 DEF ReceiveChunk
<1>3. CASE ReceiveDisconnect
  BY <1>1, <1>3 DEF ReceiveDisconnect
<1>4. CASE DispatchAsgi
  BY <1>4 DEF DispatchAsgi
<1>5. CASE DispatchNative
  BY <1>5 DEF DispatchNative
<1>6. CASE SendChunk \/ Leave \/ BodyBreaks
  BY <1>1, <1>6 DEF SendChunk, Leave, BodyBreaks
<1>7. ASSUME UNCHANGED <<server, sent, gone, broken, body, dispatched>>,
             stage' # "dispatch" \/ stage' = stage
      PROVE  BodyInv'
  BY <1>7
<1>8. CASE AnswerEarly \/ DispatchTrivial \/ HeadersFail
  BY <1>7, <1>8 DEF AnswerEarly, DispatchTrivial, HeadersFail
<1>9. CASE SendStart \/ SendBody \/ StreamStart \/ StreamPart \/ StreamEnds \/ StreamFails
  BY <1>7, <1>9 DEF SendStart, SendBody, StreamStart, StreamPart, StreamEnds, StreamFails
<1>10. CASE RunTask \/ TasksEnd \/ ExceptionMiddleware \/ ServerErrorMiddleware
  BY <1>7, <1>10 DEF RunTask, TasksEnd, ExceptionMiddleware, ServerErrorMiddleware
<1>11. CASE Over \/ UNCHANGED vars
  BY <1>7, <1>11 DEF Over, vars
<1> QED
  BY <1>2, <1>3, <1>4, <1>5, <1>6, <1>8, <1>9, <1>10, <1>11 DEF Next, Server

(***************************************************************************)
(* For any body: what a handler is called on is the whole of it, or, with  *)
(* the native server, nothing or a prefix, if it could not be read to its  *)
(* end, whether the client is still there or not.                          *)
(***************************************************************************)
THEOREM HandlersGetWholeBody == Spec => []BodyIsWhole
<1>1. Init => BodyInv
  BY DEF Init, BodyInv, BodyIsWhole
<1>2. BodyInv => BodyIsWhole
  BY DEF BodyInv
<1> QED
  BY <1>1, <1>2, BodyStep, Typed, PTL DEF Spec
-----------------------------------------------------------------------------
(* Exceptions under ASGI *)

Unsent == gone /\ wire = <<>>

Failing == {"middleware", "error"}

\* What is on its way up can be answered by a handler of its class or a 500.
Answerable ==
    \/ outcome \in Exceptions /\ raised = outcome
    \/ fault = "headers" /\ raised = "other"
    \/ fault = "stream"
    \/ started \/ Unsent

(***************************************************************************)
(* Inductive: the sender has not changed since the start; the route sends  *)
(* what its dispatch returned, and nothing once its headers failed; and a  *)
(* handler or a 500 answers an exception that was raised before the start. *)
(***************************************************************************)
AnswerInv ==
    server = "asgi" =>
        /\ by # "empty"
        /\ stage \in {"receive", "dispatch"} =>
              by = None /\ ~started /\ fault = None
        /\ stage \in {"stream", "tasks"} => by = "route" /\ fault = None
        /\ stage = "send" /\ by = "route" => fault = None
        /\ stage = "tasks" => started \/ Unsent
        /\ by = "route" => outcome \in Returns /\ (fault = "headers" => ~started)
        /\ stage \in Failing => raised \in Exceptions /\ Answerable
        /\ by \in {"handler", "error"} =>
              \/ Unsent
              \/ /\ outcome \in Exceptions \/ fault \in {"headers", "stream"}
                 /\ by \in AnsweredBy

LEMMA AnswerInit == Init => AnswerInv
BY ExchangeAssumption DEF Init, AnswerInv, Failing, Senders, Faults

\* What a client that is gone has not got it does not get.
LEMMA StillUnsent ==
    ASSUME Unsent, [Next]_vars
    PROVE  Unsent'
BY DEF Unsent, Next, Server, vars, SendChunk, Leave, BodyBreaks, ReceiveChunk,
       ReceiveDisconnect, AnswerEarly, DispatchTrivial, DispatchAsgi, DispatchNative, HeadersFail, SendStart, SendBody, StreamStart,
       StreamPart, StreamEnds, StreamFails, RunTask, TasksEnd, ExceptionMiddleware,
       ServerErrorMiddleware, Over, Send, client, response

LEMMA AnswerStep == TypeInv /\ WireInv /\ AnswerInv /\ [Next]_vars => AnswerInv'
<1> SUFFICES ASSUME TypeInv, WireInv, AnswerInv, [Next]_vars, server = "asgi"
             PROVE  AnswerInv'
  BY DEF AnswerInv, Next, Server, vars, SendChunk, Leave, BodyBreaks, ReceiveChunk,
         ReceiveDisconnect, AnswerEarly, DispatchTrivial, DispatchAsgi, DispatchNative, HeadersFail, SendStart,
         SendBody, StreamStart, StreamPart, StreamEnds, StreamFails, RunTask, TasksEnd,
         ExceptionMiddleware, ServerErrorMiddleware, Over, request
<1> USE ExchangeAssumption
        DEF AnswerInv, Failing, Answerable, AnsweredBy, Goto, Raise, request, client, response,
            background, Exceptions, Handled, Returns, Senders, Faults
<1>0. (Unsent => Unsent') /\ None \notin Senders \cup Faults
  BY StillUnsent
<1>1. CASE SendChunk \/ Leave \/ BodyBreaks \/ Over \/ UNCHANGED vars
  BY <1>0, <1>1 DEF SendChunk, Leave, BodyBreaks, Over, vars
<1>2. CASE ReceiveChunk
  BY <1>0, <1>2 DEF ReceiveChunk
<1>3. CASE ReceiveDisconnect
  BY <1>0, <1>3 DEF ReceiveDisconnect
<1>4. CASE AnswerEarly
  BY <1>0, <1>4 DEF AnswerEarly
<1>5. CASE DispatchAsgi
  BY <1>0, <1>5 DEF DispatchAsgi
<1>6. CASE HeadersFail
  BY <1>0, <1>6 DEF HeadersFail
<1>7. CASE SendStart
  BY <1>0, <1>7 DEF SendStart
<1>8. CASE SendBody
  BY <1>0, <1>8 DEF SendBody
<1>9. CASE StreamStart \/ StreamPart
  BY <1>0, <1>9 DEF StreamStart, StreamPart
<1>10. CASE StreamEnds
  <2>1. started \/ Unsent'
    BY <1>10 DEF StreamEnds, Send, WireInv, Unsent
  <2> QED
    BY <1>0, <1>10, <2>1 DEF StreamEnds
<1>11. CASE StreamFails
  BY <1>0, <1>11 DEF StreamFails
<1>12. CASE RunTask
  BY <1>0, <1>12 DEF RunTask
<1>13. CASE TasksEnd
  BY <1>0, <1>13 DEF TasksEnd
<1>14. CASE ExceptionMiddleware
  BY <1>0, <1>14 DEF ExceptionMiddleware
<1>15. CASE ServerErrorMiddleware
  BY <1>0, <1>15 DEF ServerErrorMiddleware
<1>16. ~DispatchTrivial /\ ~DispatchNative
  BY DEF DispatchTrivial, DispatchNative
<1> QED
  BY <1>1, <1>2, <1>3, <1>4, <1>5, <1>6, <1>7, <1>8, <1>9, <1>10, <1>11, <1>12, <1>13, <1>14,
     <1>15, <1>16 DEF Next, Server

(***************************************************************************)
(* Under ASGI an exception of a handler is answered by the handler of its  *)
(* class or as a 500, never as a success, wherever it was raised.          *)
(***************************************************************************)
THEOREM ExceptionsGetTheirAnswer == Spec => []ExceptionsAreAnswered
<1>1. TypeInv /\ WireInv /\ AnswerInv => ExceptionsAreAnswered
  <2> SUFFICES ASSUME TypeInv, WireInv, AnswerInv, server = "asgi", wire # <<>>
               PROVE  IF wire[1].by = "route"
                      THEN outcome \in Returns /\ fault # "headers"
                      ELSE /\ outcome \in Exceptions \/ fault \in {"headers", "stream"}
                           /\ wire[1].by \in AnsweredBy
    BY DEF ExceptionsAreAnswered
  <2>1. wire \in Seq(Message)
    BY DEF TypeInv, TypeOK
  <2>2. 1 \in 1..Len(wire) /\ wire[1] \in Message
    BY <2>1
  <2>3. wire[1].by = by /\ started /\ by \in Senders
    BY <2>2 DEF WireInv, Message
  <2>4. ~Unsent
    BY DEF Unsent
  <2> QED
    BY <2>3, <2>4 DEF AnswerInv, Senders
<1> QED
  BY <1>1, AnswerInit, AnswerStep, WireInvariant, Typed, PTL DEF Spec
=============================================================================
