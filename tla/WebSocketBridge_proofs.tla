----------------------- MODULE WebSocketBridge_proofs -----------------------
(***************************************************************************)
(* Proofs about WebSocketBridge, for any number of messages: the type      *)
(* invariant, that both directions of the connection implement a           *)
(* MessagePipe, and that closing it loses nothing.                         *)
(*                                                                         *)
(* The invariant says where the messages are.  The queues one behind the   *)
(* other hold those that follow the last one delivered, in their order and *)
(* without gaps, and the end of the stream comes after all of them.  The   *)
(* two directions need each other: what a Close frame that was read does   *)
(* to the write loop is said in terms of the read loop.                    *)
(***************************************************************************)
EXTENDS WebSocketBridge, TLAPS

-----------------------------------------------------------------------------
(* Sequences and frames *)

LEMMA AppendFacts ==
    ASSUME NEW S, NEW s \in Seq(S), NEW e \in S
    PROVE  /\ Append(s, e) \in Seq(S)
           /\ Len(Append(s, e)) = Len(s) + 1
           /\ \A i \in 1..Len(s) : Append(s, e)[i] = s[i]
           /\ Append(s, e)[Len(s) + 1] = e
OBVIOUS

LEMMA TailFacts ==
    ASSUME NEW S, NEW s \in Seq(S), s # <<>>
    PROVE  /\ Tail(s) \in Seq(S)
           /\ Head(s) \in S
           /\ Head(s) = s[1]
           /\ Len(s) \in Nat \ {0}
           /\ Len(Tail(s)) = Len(s) - 1
           /\ \A i \in 1..Len(s) - 1 : Tail(s)[i] = s[i + 1]
OBVIOUS

LEMMA FrontFacts ==
    ASSUME NEW S, NEW s \in Seq(S), NEW n \in 0..Len(s)
    PROVE  /\ SubSeq(s, 1, n) \in Seq(S)
           /\ Len(SubSeq(s, 1, n)) = n
           /\ \A i \in 1..n : SubSeq(s, 1, n)[i] = s[i]
OBVIOUS

LEMMA FrameFacts ==
    /\ Close \in Frames /\ Disconnect \in Frames
    /\ \A n \in Nat : Data(n) \in Frames /\ Data(n).kind = "data" /\ Data(n).n = n
    /\ \A n \in Nat : Data(n) # Close /\ Data(n) # Disconnect
    /\ Close.kind = "close"
    /\ \A f \in Frames : f.kind = "data" => f = Data(f.n)
    /\ \A f \in Frames : f.n \in Nat
BY DEF Close, Disconnect, Data, Frames

-----------------------------------------------------------------------------

\* The type invariant, for every value of the constants.
THEOREM TypeCorrect == Spec => []TypeOK
<1> USE BoundsAssumption
<1>1. Init => TypeOK
  <2>1. <<>> \in Seq(Frames) /\ "own" \in Loops /\ 0 \in Nat /\ 0 \in 0..MaxIn /\ 0 \in 0..MaxOut
    BY DEF Loops
  <2>2. Init => /\ clientUp \in BOOLEAN /\ clientClosing \in BOOLEAN /\ clientSawClose \in BOOLEAN
                /\ unnoticed \in BOOLEAN /\ disconnected \in BOOLEAN /\ closed \in BOOLEAN
    BY DEF Init
  <2>3. Init => scheduled \in [Loops -> Seq(Frames)]
    BY <2>1 DEF Init
  <2> QED
    BY <2>1, <2>2, <2>3, FrameFacts DEF Init, TypeOK
<1>2. TypeOK /\ [Next]_vars => TypeOK'
  <2> SUFFICES ASSUME TypeOK, [Next]_vars PROVE TypeOK'
    OBVIOUS
  <2> USE DEF TypeOK
  <2>0. /\ Close \in Frames /\ Disconnect \in Frames /\ <<>> \in Seq(Frames)
        /\ \A s \in Seq(Frames), f \in Frames : Append(s, f) \in Seq(Frames)
        /\ \A s \in Seq(Frames) :
             s # <<>> => Tail(s) \in Seq(Frames) /\ Head(s) \in Frames /\ Head(s).n \in Nat
    BY FrameFacts, AppendFacts, TailFacts
  <2>1. CASE ClientSends
    <3>1. Data(clientSent') \in Frames /\ clientSent' \in 0..MaxIn
      BY <2>1, FrameFacts DEF ClientSends
    <3> QED
      BY <2>0, <2>1, <3>1 DEF ClientSends, handlerVars, readerVars
  <2>2. CASE ClientCloses
    BY <2>0, <2>2 DEF ClientCloses, handlerVars, readerVars
  <2>3. CASE ClientReceives
    <3>1. CASE Head(toClient).kind = "close"
      <4>1. toServer' \in Seq(Frames) /\ toClient' \in Seq(Frames)
        BY <2>0, <2>3, <3>1 DEF ClientReceives
      <4>2. clientSawClose' \in BOOLEAN /\ clientClosing' \in BOOLEAN
        BY <2>3, <3>1 DEF ClientReceives
      <4> QED
        BY <2>3, <3>1, <4>1, <4>2 DEF ClientReceives, handlerVars, readerVars
    <3>2. CASE Head(toClient).kind # "close"
      BY <2>0, <2>3, <3>2 DEF ClientReceives, handlerVars, readerVars
    <3> QED
      BY <3>1, <3>2
  <2>4. CASE ClientLeaves
    <3>1. toServer' \in Seq(Frames) /\ clientUp' \in BOOLEAN
      <4>1. PICK n \in 0..Len(toServer) : toServer' = SubSeq(toServer, 1, n)
        BY <2>4 DEF ClientLeaves
      <4>2. SubSeq(toServer, 1, n) \in Seq(Frames)
        BY FrontFacts
      <4>3. clientUp' = FALSE
        BY <2>4 DEF ClientLeaves
      <4> QED
        BY <4>1, <4>2, <4>3
    <3> QED
      BY <2>4, <3>1 DEF ClientLeaves, handlerVars, readerVars
  <2>5. CASE CreateHandler
    BY <2>5 DEF CreateHandler, clientVars, wireVars, readerVars, receiveVars
  <2>6. CASE LaunchFails
    <3>1. clientUp' \in BOOLEAN
      BY <2>6 DEF LaunchFails
    <3> QED
      BY <2>6, <3>1 DEF LaunchFails, wireVars, handlerVars, readerVars
  <2>7. CASE SpawnLoops
    BY <2>7 DEF SpawnLoops, clientVars, wireVars, handlerVars, pushVars
  <2>8. CASE Join
    BY <2>8 DEF Join, wireVars, handlerVars, readerVars
  <2>9. CASE ReadFrame
    <3>1. CASE Head(toServer).kind = "close"
      <4>1. protocol' \in {"closedByPeer", "acknowledged"}
        BY <2>9, <3>1 DEF ReadFrame
      <4> QED
        BY <2>0, <2>9, <3>1, <4>1 DEF ReadFrame, clientVars, handlerVars, pushVars
    <3>2. CASE Head(toServer).kind # "close"
      BY <2>0, <2>9, <3>2 DEF ReadFrame, clientVars, handlerVars, pushVars
    <3> QED
      BY <3>1, <3>2
  <2>10. CASE ReadEnds
    BY <2>10 DEF ReadEnds, clientVars, wireVars, handlerVars, pushVars
  <2>11. CASE PushFrame
    <3>1. reader' \in {"final", "reading"}
      BY <2>11 DEF PushFrame
    <3>2. scheduled' \in [Loops -> Seq(Frames)]
      BY <2>0, <2>11 DEF PushFrame, Schedule
    <3> QED
      BY <2>11, <3>1, <3>2 DEF PushFrame, clientVars, wireVars, handlerVars
  <2>12. CASE PushFinal
    <3>1. scheduled' \in [Loops -> Seq(Frames)]
      BY <2>0, <2>12 DEF PushFinal, Schedule
    <3> QED
      BY <2>12, <3>1 DEF PushFinal, clientVars, wireVars, handlerVars
  <2>13. CASE PublishSecond
    BY <2>13 DEF PublishSecond, Loops, clientVars, wireVars, handlerVars
  <2>13a. ASSUME NEW l \in Loops, RunCallback(l) PROVE TypeOK'
    <3>1. scheduled[l] \in Seq(Frames) /\ scheduled[l] # <<>>
      BY <2>13a DEF RunCallback
    <3>2. queue' \in Seq(Frames) /\ scheduled' \in [Loops -> Seq(Frames)]
      BY <2>0, <2>13a, <3>1 DEF RunCallback
    <3>3. unnoticed' \in BOOLEAN
      BY <2>13a DEF RunCallback
    <3> QED
      BY <2>13a, <3>2, <3>3 DEF RunCallback, clientVars, wireVars
  <2>14. CASE StartHandler
    BY <2>14 DEF StartHandler, clientVars, wireVars, readerVars, receiveVars
  <2>15. CASE SendMessage
    <3>1. Data(accepted') \in Frames /\ accepted' \in 0..MaxOut
      BY <2>15, FrameFacts DEF SendMessage
    <3> QED
      BY <2>0, <2>15, <3>1 DEF SendMessage, clientVars, wireVars, readerVars, receiveVars
  <2>16. CASE Receive
    BY <2>16 DEF Receive, clientVars, wireVars, readerVars, receiveVars
  <2>17. CASE NextFrame
    <3>1. unnoticed' \in BOOLEAN /\ disconnected' \in BOOLEAN /\ closed' \in BOOLEAN
      BY <2>17 DEF NextFrame
    <3>2. queue' \in Seq(Frames) /\ consumed' \in Nat /\ got' \in Nat
      BY <2>0, <2>17 DEF NextFrame
    <3> QED
      BY <2>17, <3>1, <3>2 DEF NextFrame, clientVars, wireVars, readerVars
  <2>18. CASE HandlerCloses \/ HandlerEnds
    <3>1. closed' \in BOOLEAN /\ outbox' \in Seq(Frames)
      BY <2>0, <2>18 DEF HandlerCloses, HandlerEnds, CloseSocket
    <3>2. handler' \in {"running", "ended"}
      BY <2>18 DEF HandlerCloses, HandlerEnds
    <3>3. /\ UNCHANGED <<clientVars, wireVars, drive, readerVars, queue, unnoticed, consumed, got>>
          /\ UNCHANGED <<disconnected, accepted, writer>>
      BY <2>18 DEF HandlerCloses, HandlerEnds, receiveVars
    <3> QED
      BY <3>1, <3>2, <3>3 DEF clientVars, wireVars, readerVars
  <2>19. CASE WriteData
    <3>1. toClient' \in Seq(Frames) /\ writer' \in {"waiting", "closing"}
      BY <2>0, <2>19 DEF WriteData
    <3> QED
      BY <2>0, <2>19, <3>1 DEF WriteData, clientVars, handlerVars, readerVars
  <2>20. CASE WriteClose
    <3>1. toClient' \in Seq(Frames) /\ protocol' \in {"closedByUs", protocol}
      BY <2>0, <2>20 DEF WriteClose
    <3> QED
      BY <2>0, <2>20, <3>1 DEF WriteClose, clientVars, handlerVars, readerVars
  <2>21. CASE CloseSink
    <3>1. toClient' \in Seq(Frames) /\ protocol' \in {"closedByUs", "acknowledged", protocol}
      BY <2>0, <2>21 DEF CloseSink
    <3> QED
      BY <2>0, <2>21, <3>1 DEF CloseSink, clientVars, handlerVars, readerVars
  <2>22. CASE UNCHANGED vars
    BY <2>22 DEF vars
  <2> QED
    BY <2>1, <2>2, <2>3, <2>4, <2>5, <2>6, <2>7, <2>8, <2>9, <2>10, <2>11, <2>12, <2>13, <2>13a,
       <2>14, <2>15, <2>16, <2>17, <2>18, <2>19, <2>20, <2>21, <2>22 DEF Next
<1> QED
  BY <1>1, <1>2, PTL DEF Spec

-----------------------------------------------------------------------------
(* What is on its way *)

AllData(s) == \A i \in 1..Len(s) : s[i].kind = "data"
NoData(s) == \A i \in 1..Len(s) : s[i].kind # "data"

\* Messages n + 1, n + 2, ... and then no more messages.
Chain(s, n) ==
    \A i \in 1..Len(s) : s[i].kind = "data" =>
        s[i].n = n + i /\ \A j \in 1..i : s[j].kind = "data"

Below(s, m) == \A i \in 1..Len(s) : s[i].kind = "data" => s[i].n <= m

\* What is no message is the frame e.
Kinds(s, e) == \A i \in 1..Len(s) : s[i].kind = "data" \/ s[i] = e

EndIsLast(s) == \A i \in 1..Len(s) : s[i].kind # "data" => i = Len(s)

\* The read loop may still take messages off the wire, and holds one now.
Holding == reader = "pushing" /\ item.kind = "data"
Reading == reader \in {"absent", "reading"} \/ Holding
Held == IF Holding THEN 1 ELSE 0

\* What waits on the handler's own loop.
Pending == scheduled["own"]

\* The messages that passed the read loop and the one it holds.
Taken == consumed + Len(queue) + Len(Pending) + Held

\* How the end of the client's messages shows, whichever loop they go through.
EndInv ==
    /\ item.kind = "data" \/ item = Disconnect
    /\ Kinds(queue, Disconnect) /\ Kinds(toServer, Close)
    /\ \A l \in Loops : Kinds(scheduled[l], Disconnect)
    /\ ~AllData(toServer) => clientClosing
    /\ Reading => AllData(queue) /\ \A l \in Loops : AllData(scheduled[l])
    /\ Reading \/ clientClosing \/ ~clientUp

\* Until a second loop is published everything goes through the handler's own.
OneLoop == published = "own" /\ scheduled["other"] = <<>>

\* The way of the client's messages to the handler, where there is one loop.
InboundInv ==
    /\ Kinds(queue, Disconnect) /\ Kinds(Pending, Disconnect) /\ Kinds(toServer, Close)
    /\ item.kind = "data" \/ item = Disconnect
    /\ Below(queue, clientSent) /\ Below(Pending, clientSent) /\ Below(toServer, clientSent)
    /\ ~AllData(toServer) => clientClosing
    /\ Chain(queue, consumed)
    /\ IF AllData(queue) THEN Chain(Pending, consumed + Len(queue)) ELSE NoData(Pending)
    /\ disconnected => NoData(queue) /\ NoData(Pending) /\ ~Reading
    /\ Holding => item.n = Taken /\ item.n <= clientSent
    /\ Reading => AllData(queue) /\ AllData(Pending) /\ Chain(toServer, Taken)
    /\ Reading /\ clientUp /\ ~clientClosing => clientSent = Taken + Len(toServer)
    /\ Reading \/ clientClosing \/ ~clientUp

\* The write loop still puts messages on the wire.
Writing == protocol = "active" /\ writer \in {"absent", "waiting"}

\* The client will get the server's Close frame, and has sent none.
Ending == clientUp /\ ~clientClosing

\* The way of the handler's messages to the client.
OutboundInv ==
    /\ Kinds(outbox, Close) /\ Kinds(toClient, Close)
    /\ Below(outbox, accepted) /\ Below(toClient, accepted)
    /\ EndIsLast(outbox) /\ EndIsLast(toClient)
    /\ Chain(toClient, clientGot)
    /\ clientSawClose => NoData(toClient)
    /\ protocol \in {"active", "closedByPeer"} => AllData(toClient) /\ ~clientSawClose
    /\ protocol \in {"closedByPeer", "acknowledged"} => clientClosing
    /\ protocol = "closedByUs" /\ Ending =>
          closed /\ ~AllData(toClient) /\ accepted = clientGot + Len(toClient) - 1
    /\ protocol = "active" /\ writer \in {"closing", "done"} => ~clientUp
    /\ ~closed => AllData(outbox)
    /\ Writing => Chain(outbox, clientGot + Len(toClient))
    /\ Writing /\ ~closed => accepted = clientGot + Len(toClient) + Len(outbox)
    /\ Writing /\ closed /\ Ending =>
          ~AllData(outbox) /\ accepted = clientGot + Len(toClient) + Len(outbox) - 1

\* Neither loop runs before both do.
LaunchInv == drive \in {"creating", "spawning"} => reader = "absent" /\ writer = "absent"

PipesInv ==
    /\ TypeOK /\ LaunchInv /\ EndInv /\ OutboundInv
    /\ published = "own" => OneLoop /\ InboundInv

\* What a frame put at the end of a sequence changes.
LEMMA Appended ==
    ASSUME NEW s \in Seq(Frames), NEW e \in Frames, NEW n \in Nat, NEW m \in Nat
    PROVE  /\ Append(s, e) \in Seq(Frames)
           /\ Len(Append(s, e)) = Len(s) + 1
           /\ Append(s, e) # <<>>
           /\ e.kind # "data" => ~AllData(Append(s, e))
           /\ ~AllData(s) => ~AllData(Append(s, e))
           /\ AllData(s) /\ e.kind = "data" => AllData(Append(s, e))
           /\ NoData(s) /\ e.kind # "data" => NoData(Append(s, e))
           /\ Chain(s, n) /\ e.kind # "data" => Chain(Append(s, e), n)
           /\ Chain(s, n) /\ AllData(s) /\ e = Data(n + Len(s) + 1) => Chain(Append(s, e), n)
           /\ Below(s, m) /\ (e.kind = "data" => e.n <= m) => Below(Append(s, e), m)
           /\ AllData(s) => EndIsLast(Append(s, e))
           /\ Kinds(s, Close) /\ (e.kind = "data" \/ e = Close) => Kinds(Append(s, e), Close)
           /\ Kinds(s, Disconnect) /\ (e.kind = "data" \/ e = Disconnect)
                 => Kinds(Append(s, e), Disconnect)
<1> DEFINE t == Append(s, e)
<1>1. /\ t \in Seq(Frames)
      /\ Len(t) = Len(s) + 1
      /\ Len(s) \in Nat
      /\ \A i \in 1..Len(s) : t[i] = s[i]
      /\ t[Len(s) + 1] = e
      /\ \A i \in 1..Len(t) : i \in 1..Len(s) \/ i = Len(s) + 1
      /\ \A i \in 1..Len(s) : i \in 1..Len(t)
      /\ Len(s) + 1 \in 1..Len(t)
      /\ t # <<>>
  BY AppendFacts
<1>2. \A k \in Nat : Data(k).kind = "data" /\ Data(k).n = k
  BY FrameFacts
<1> HIDE DEF t
<1> SUFFICES /\ e.kind # "data" => ~AllData(t)
             /\ ~AllData(s) => ~AllData(t)
             /\ AllData(s) /\ e.kind = "data" => AllData(t)
             /\ NoData(s) /\ e.kind # "data" => NoData(t)
             /\ Chain(s, n) /\ e.kind # "data" => Chain(t, n)
             /\ Chain(s, n) /\ AllData(s) /\ e = Data(n + Len(s) + 1) => Chain(t, n)
             /\ Below(s, m) /\ (e.kind = "data" => e.n <= m) => Below(t, m)
             /\ AllData(s) => EndIsLast(t)
             /\ Kinds(s, Close) /\ (e.kind = "data" \/ e = Close) => Kinds(t, Close)
             /\ Kinds(s, Disconnect) /\ (e.kind = "data" \/ e = Disconnect)
                   => Kinds(t, Disconnect)
  BY <1>1 DEF t
<1>3. /\ e.kind # "data" => ~AllData(t)
      /\ ~AllData(s) => ~AllData(t)
      /\ AllData(s) /\ e.kind = "data" => AllData(t)
      /\ NoData(s) /\ e.kind # "data" => NoData(t)
  BY <1>1 DEF AllData, NoData
<1>4. Chain(s, n) /\ e.kind # "data" => Chain(t, n)
  BY <1>1 DEF Chain
<1>5. Chain(s, n) /\ AllData(s) /\ e = Data(n + Len(s) + 1) => Chain(t, n)
  <2> SUFFICES ASSUME Chain(s, n), AllData(s), e = Data(n + Len(s) + 1),
                      NEW i \in 1..Len(t), t[i].kind = "data"
               PROVE  t[i].n = n + i /\ \A j \in 1..i : t[j].kind = "data"
    BY DEF Chain
  <2>1. n + Len(s) + 1 \in Nat
    BY <1>1
  <2>2. e.kind = "data" /\ e.n = n + (Len(s) + 1)
    BY <1>1, <1>2, <2>1
  <2>3. \A j \in 1..i : j \in 1..Len(t)
    BY <1>1
  <2>4. \A j \in 1..Len(t) : t[j].kind = "data"
    BY <1>1, <2>2 DEF AllData
  <2>5. t[i].n = n + i
    BY <1>1, <2>2 DEF Chain
  <2> QED
    BY <2>3, <2>4, <2>5
<1>6. Below(s, m) /\ (e.kind = "data" => e.n <= m) => Below(t, m)
  BY <1>1 DEF Below
<1>7. AllData(s) => EndIsLast(t)
  BY <1>1 DEF AllData, EndIsLast
<1>8. /\ Kinds(s, Close) /\ (e.kind = "data" \/ e = Close) => Kinds(t, Close)
      /\ Kinds(s, Disconnect) /\ (e.kind = "data" \/ e = Disconnect) => Kinds(t, Disconnect)
  BY <1>1 DEF Kinds
<1> QED
  BY <1>3, <1>4, <1>5, <1>6, <1>7, <1>8

\* What taking the first frame changes, and what that frame is.
LEMMA Dropped ==
    ASSUME NEW s \in Seq(Frames), s # <<>>, NEW n \in Nat, NEW m \in Nat
    PROVE  /\ Tail(s) \in Seq(Frames) /\ Head(s) \in Frames
           /\ Len(s) \in Nat /\ Len(Tail(s)) = Len(s) - 1
           /\ AllData(s) => AllData(Tail(s)) /\ Head(s).kind = "data"
           /\ ~AllData(s) /\ Head(s).kind = "data" => ~AllData(Tail(s))
           /\ NoData(s) => NoData(Tail(s)) /\ Head(s).kind # "data"
           /\ Chain(s, n) /\ Head(s).kind = "data"
                 => Chain(Tail(s), n + 1) /\ Head(s) = Data(n + 1)
           /\ Chain(s, n) /\ Head(s).kind # "data" => NoData(Tail(s))
           /\ Below(s, m) => Below(Tail(s), m) /\ (Head(s).kind = "data" => Head(s).n <= m)
           /\ EndIsLast(s) => EndIsLast(Tail(s)) /\ (Head(s).kind # "data" => Tail(s) = <<>>)
           /\ Kinds(s, Close)
                 => Kinds(Tail(s), Close) /\ (Head(s).kind = "data" \/ Head(s) = Close)
           /\ Kinds(s, Disconnect)
                 => Kinds(Tail(s), Disconnect) /\ (Head(s).kind = "data" \/ Head(s) = Disconnect)
<1> DEFINE t == Tail(s)
           h == Head(s)
<1>1. /\ t \in Seq(Frames) /\ h \in Frames
      /\ h = s[1]
      /\ Len(s) \in Nat \ {0}
      /\ Len(t) = Len(s) - 1
      /\ \A i \in 1..Len(t) : t[i] = s[i + 1] /\ i + 1 \in 1..Len(s)
      /\ \A i \in 1..Len(s) : i = 1 \/ (i - 1 \in 1..Len(t) /\ s[i] = t[i - 1])
      /\ 1 \in 1..Len(s)
      /\ Len(t) = 0 => t = <<>>
  <2>1. /\ t \in Seq(Frames) /\ h \in Frames
        /\ h = s[1]
        /\ Len(s) \in Nat \ {0}
        /\ Len(t) = Len(s) - 1
        /\ \A i \in 1..Len(s) - 1 : t[i] = s[i + 1]
    BY TailFacts
  <2> HIDE DEF t, h
  <2>2. \A i \in 1..Len(s) : i = 1 \/ (i - 1 \in 1..Len(t) /\ s[i] = t[i - 1])
    <3> SUFFICES ASSUME NEW i \in 1..Len(s), i # 1
                 PROVE  i - 1 \in 1..Len(t) /\ s[i] = t[i - 1]
      OBVIOUS
    <3>1. i - 1 \in 1..Len(s) - 1 /\ (i - 1) + 1 = i
      BY <2>1
    <3> QED
      BY <2>1, <3>1
  <2> QED
    BY <2>1, <2>2
<1>2. h.kind = "data" => h = Data(h.n) /\ h.n \in Nat
  BY <1>1, FrameFacts
<1> HIDE DEF t, h
<1> SUFFICES /\ AllData(s) => AllData(t) /\ h.kind = "data"
             /\ ~AllData(s) /\ h.kind = "data" => ~AllData(t)
             /\ NoData(s) => NoData(t) /\ h.kind # "data"
             /\ Chain(s, n) /\ h.kind = "data" => Chain(t, n + 1) /\ h = Data(n + 1)
             /\ Chain(s, n) /\ h.kind # "data" => NoData(t)
             /\ Below(s, m) => Below(t, m) /\ (h.kind = "data" => h.n <= m)
             /\ EndIsLast(s) => EndIsLast(t) /\ (h.kind # "data" => t = <<>>)
             /\ Kinds(s, Close) => Kinds(t, Close) /\ (h.kind = "data" \/ h = Close)
             /\ Kinds(s, Disconnect)
                   => Kinds(t, Disconnect) /\ (h.kind = "data" \/ h = Disconnect)
  BY <1>1 DEF t, h
<1>3. /\ AllData(s) => AllData(t) /\ h.kind = "data"
      /\ ~AllData(s) /\ h.kind = "data" => ~AllData(t)
      /\ NoData(s) => NoData(t) /\ h.kind # "data"
  BY <1>1 DEF AllData, NoData
<1>4. Chain(s, n) /\ h.kind = "data" => Chain(t, n + 1) /\ h = Data(n + 1)
  <2> SUFFICES ASSUME Chain(s, n), h.kind = "data" PROVE Chain(t, n + 1) /\ h = Data(n + 1)
    OBVIOUS
  <2>1. h = Data(n + 1)
    BY <1>1, <1>2 DEF Chain
  <2>2. ASSUME NEW i \in 1..Len(t), t[i].kind = "data"
        PROVE  t[i].n = n + 1 + i /\ \A j \in 1..i : t[j].kind = "data"
    <3>1. s[i + 1].n = n + (i + 1) /\ \A j \in 1..i + 1 : s[j].kind = "data"
      BY <1>1, <2>2 DEF Chain
    <3>2. t[i].n = n + 1 + i
      BY <1>1, <3>1
    <3>3. ASSUME NEW j \in 1..i PROVE t[j].kind = "data"
      <4>1. j \in 1..Len(t) /\ j + 1 \in 1..i + 1
        BY <1>1
      <4> QED
        BY <1>1, <3>1, <4>1
    <3> QED
      BY <3>2, <3>3
  <2> QED
    BY <2>1, <2>2 DEF Chain
<1>5. Chain(s, n) /\ h.kind # "data" => NoData(t)
  <2> SUFFICES ASSUME Chain(s, n), h.kind # "data", NEW i \in 1..Len(t), t[i].kind = "data"
               PROVE  FALSE
    BY DEF NoData
  <2>1. s[i + 1].kind = "data" /\ 1 \in 1..i + 1
    BY <1>1
  <2> QED
    BY <1>1, <2>1 DEF Chain
<1>6. Below(s, m) => Below(t, m) /\ (h.kind = "data" => h.n <= m)
  BY <1>1 DEF Below
<1>7. EndIsLast(s) => EndIsLast(t) /\ (h.kind # "data" => t = <<>>)
  <2> SUFFICES ASSUME EndIsLast(s) PROVE EndIsLast(t) /\ (h.kind # "data" => t = <<>>)
    OBVIOUS
  <2>1. EndIsLast(t)
    BY <1>1 DEF EndIsLast
  <2>2. h.kind # "data" => t = <<>>
    BY <1>1 DEF EndIsLast
  <2> QED
    BY <2>1, <2>2
<1>8. /\ Kinds(s, Close) => Kinds(t, Close) /\ (h.kind = "data" \/ h = Close)
      /\ Kinds(s, Disconnect) => Kinds(t, Disconnect) /\ (h.kind = "data" \/ h = Disconnect)
  BY <1>1 DEF Kinds
<1> QED
  BY <1>3, <1>4, <1>5, <1>6, <1>7, <1>8

\* What is kept when the last frames are lost.
LEMMA CutOff ==
    ASSUME NEW s \in Seq(Frames), NEW k \in 0..Len(s), NEW n \in Nat, NEW m \in Nat
    PROVE  LET t == SubSeq(s, 1, k) IN
           /\ ~AllData(t) => ~AllData(s)
           /\ Chain(s, n) => Chain(t, n)
           /\ Below(s, m) => Below(t, m)
           /\ Kinds(s, Close) => Kinds(t, Close)
<1> DEFINE t == SubSeq(s, 1, k)
<1>1. Len(t) = k /\ \A i \in 1..Len(t) : t[i] = s[i] /\ i \in 1..Len(s)
  BY FrontFacts
<1>2. \A i \in 1..Len(t) : \A j \in 1..i : j \in 1..Len(t)
  BY <1>1
<1> HIDE DEF t
<1>3. ~AllData(t) => ~AllData(s)
  BY <1>1 DEF AllData
<1>4. Chain(s, n) => Chain(t, n)
  BY <1>1, <1>2 DEF Chain
<1>5. (Below(s, m) => Below(t, m)) /\ (Kinds(s, Close) => Kinds(t, Close))
  BY <1>1 DEF Below, Kinds
<1> QED
  BY <1>3, <1>4, <1>5 DEF t

LEMMA Emptied ==
    /\ AllData(<<>>) /\ NoData(<<>>) /\ EndIsLast(<<>>)
    /\ \A n : Chain(<<>>, n) /\ Below(<<>>, n) /\ Kinds(<<>>, n)
BY DEF AllData, NoData, EndIsLast, Chain, Below, Kinds

\* Without messages in it a sequence continues any chain.
LEMMA ChainOfNone ==
    ASSUME NEW s, NoData(s), NEW n
    PROVE  Chain(s, n)
BY DEF NoData, Chain

\* The counter of what was sent only grows.
LEMMA BelowMore ==
    ASSUME NEW s \in Seq(Frames), NEW m \in Nat, NEW k \in Nat, m <= k, Below(s, m)
    PROVE  Below(s, k)
BY FrameFacts DEF Below

LEMMA AllAndNone ==
    ASSUME NEW s \in Seq(Frames), AllData(s), NoData(s)
    PROVE  s = <<>>
BY DEF AllData, NoData

LEMMA EmptyLen == \A s : s = <<>> => Len(s) = 0
OBVIOUS

-----------------------------------------------------------------------------
(* The client's messages *)

inboundVars == <<queue, scheduled, toServer, item, clientSent, clientClosing, clientUp, consumed,
                 disconnected, reader>>

\* Both loops are spawned by one action.
LEMMA LaunchStep == TypeOK /\ LaunchInv /\ [Next]_vars => LaunchInv'
<1> SUFFICES ASSUME TypeOK, LaunchInv, [Next]_vars PROVE LaunchInv'
  OBVIOUS
<1> USE DEF LaunchInv
<1>1. CASE UNCHANGED <<drive, reader, writer>>
  BY <1>1
<1>2. CASE Drive
  BY <1>2 DEF Drive, CreateHandler, LaunchFails, SpawnLoops, Join, readerVars
<1>3. CASE ReadLoop
  BY <1>3 DEF ReadLoop, ReadFrame, ReadEnds, PushFrame, PushFinal
<1>4. CASE WriteLoop
  BY <1>4 DEF WriteLoop, WriteData, WriteClose, CloseSink
<1> QED
  BY <1>1, <1>2, <1>3, <1>4
  DEF Next, Drive, ReadLoop, WriteLoop, vars, readerVars, ClientSends, ClientCloses,
      ClientReceives, ClientLeaves, PublishSecond, RunCallback, StartHandler, SendMessage,
      Receive, NextFrame, HandlerCloses, HandlerEnds

\* What is pushed goes to the end of the published loop's callbacks.
LEMMA OwnSchedule ==
    ASSUME TypeOK, NEW frame, Schedule(frame)
    PROVE  /\ \A l \in Loops : l # published => scheduled'[l] = scheduled[l]
           /\ scheduled'[published] = Append(scheduled[published], frame)
           /\ published = "own" => Pending' = Append(Pending, frame)
BY DEF TypeOK, Schedule, Pending

\* The end of the client's messages is the last that the read loop schedules.
LEMMA EndStep == TypeOK /\ LaunchInv /\ EndInv /\ [Next]_vars => EndInv'
<1> SUFFICES ASSUME TypeOK, LaunchInv, EndInv, [Next]_vars PROVE EndInv'
  OBVIOUS
<1>0. /\ queue \in Seq(Frames) /\ toServer \in Seq(Frames) /\ item \in Frames
      /\ published \in Loops /\ scheduled \in [Loops -> Seq(Frames)]
      /\ \A l \in Loops : scheduled[l] \in Seq(Frames)
      /\ clientSent \in Nat
  BY BoundsAssumption DEF TypeOK
<1>00. /\ Close \in Frames /\ Disconnect \in Frames
       /\ Close.kind = "close" /\ Disconnect.kind # "data" /\ Disconnect.kind # "close"
       /\ \A n \in Nat : Data(n) \in Frames /\ Data(n).kind = "data"
  <2>1. Close.kind = "close" /\ Disconnect.kind # "data" /\ Disconnect.kind # "close"
    BY DEF Close, Disconnect
  <2> QED
    BY <2>1, FrameFacts
<1>1. CASE ClientSends
  <2> DEFINE e == Data(clientSent + 1)
  <2>1. /\ toServer' = Append(toServer, e) /\ e \in Frames /\ e.kind = "data"
        /\ UNCHANGED <<queue, scheduled, item, clientClosing, clientUp, reader>>
        /\ ~clientClosing
    BY <1>0, <1>00, <1>1 DEF ClientSends, readerVars, handlerVars
  <2> HIDE DEF e
  <2>2. AllData(toServer) /\ AllData(toServer') /\ Kinds(toServer', Close)
    BY <1>0, <2>1, Appended DEF EndInv
  <2> QED
    BY <2>1, <2>2 DEF EndInv, Reading, Holding
<1>2. CASE ClientCloses \/ ClientReceives
  <2>1. /\ UNCHANGED <<queue, scheduled, item, clientUp, reader>>
        /\ \/ clientClosing' /\ toServer' = Append(toServer, Close)
           \/ UNCHANGED toServer /\ (clientClosing => clientClosing')
    BY <1>2 DEF ClientCloses, ClientReceives, readerVars, handlerVars
  <2>2. Kinds(Append(toServer, Close), Close)
    BY <1>0, <1>00, Appended DEF EndInv
  <2> QED
    BY <2>1, <2>2 DEF EndInv, Reading, Holding
<1>3. CASE ClientLeaves
  <2>1. PICK n \in 0..Len(toServer) : toServer' = SubSeq(toServer, 1, n)
    BY <1>3 DEF ClientLeaves
  <2>2. UNCHANGED <<queue, scheduled, item, clientClosing, reader>> /\ clientUp' = FALSE
    BY <1>3 DEF ClientLeaves, readerVars, handlerVars
  <2>3. /\ ~AllData(toServer') => ~AllData(toServer)
        /\ Kinds(toServer, Close) => Kinds(toServer', Close)
    BY <1>0, <2>1, CutOff
  <2> QED
    BY <2>2, <2>3 DEF EndInv, Reading, Holding
<1>4. CASE LaunchFails \/ Join
  <2>1. /\ UNCHANGED <<queue, scheduled, toServer, item, clientClosing, reader>>
        /\ clientUp' = FALSE
    BY <1>4 DEF LaunchFails, Join, readerVars, handlerVars, wireVars
  <2> QED
    BY <2>1 DEF EndInv, Reading, Holding
<1>5. CASE SpawnLoops
  <2>1. /\ UNCHANGED <<queue, scheduled, toServer, item, clientClosing, clientUp>>
        /\ reader = "absent" /\ reader' = "reading"
    BY <1>5 DEF SpawnLoops, LaunchInv, handlerVars, wireVars, clientVars, pushVars
  <2> QED
    BY <2>1 DEF EndInv, Reading, Holding
<1>6. CASE ReadFrame
  <2> DEFINE t == Tail(toServer)
             h == Head(toServer)
  <2>1. /\ UNCHANGED <<queue, scheduled, clientClosing, clientUp>>
        /\ reader = "reading" /\ reader' = "pushing"
        /\ toServer # <<>> /\ toServer' = t
        /\ item' = IF h.kind = "close" THEN Disconnect ELSE h
    BY <1>6 DEF ReadFrame, clientVars, handlerVars, pushVars
  <2>2. /\ AllData(toServer) => AllData(t) /\ h.kind = "data"
        /\ Kinds(t, Close) /\ (h.kind = "data" \/ h = Close)
    BY <1>0, <2>1, Dropped DEF EndInv
  <2> HIDE DEF t, h
  <2>3. item'.kind = "data" \/ item' = Disconnect
    BY <1>00, <2>1, <2>2
  <2>4. Reading' \/ clientClosing
    BY <1>00, <2>1, <2>2 DEF EndInv, Reading, Holding
  <2>5. Reading
    BY <2>1 DEF Reading
  <2> QED
    BY <2>1, <2>2, <2>3, <2>4, <2>5 DEF EndInv
<1>7. CASE ReadEnds
  <2>1. /\ UNCHANGED <<queue, scheduled, toServer, item, clientClosing, clientUp>>
        /\ reader = "reading" /\ reader' = "final" /\ ~clientUp
    BY <1>7 DEF ReadEnds, clientVars, handlerVars, wireVars, pushVars
  <2> QED
    BY <2>1 DEF EndInv, Reading, Holding
<1>8. ASSUME PushFrame \/ PushFinal PROVE EndInv'
  <2> DEFINE frame == IF reader = "pushing" THEN item ELSE Disconnect
  <2>1. /\ UNCHANGED <<queue, toServer, item, published, clientClosing, clientUp>>
        /\ Schedule(frame) /\ frame \in Frames
        /\ frame.kind = "data" \/ frame = Disconnect
        /\ Reading' => Reading /\ frame.kind = "data"
        /\ Reading => Reading' \/ frame = Disconnect
    BY <1>0, <1>00, <1>8 DEF PushFrame, PushFinal, EndInv, Reading, Holding, clientVars,
       handlerVars, wireVars
  <2> HIDE DEF frame
  <2>2. Reading => frame.kind = "data"
    BY <1>8, <1>00 DEF frame, PushFrame, PushFinal, Reading, Holding
  <2>3. ASSUME NEW l \in Loops
        PROVE  Kinds(scheduled'[l], Disconnect) /\ (Reading' => AllData(scheduled'[l]))
    <3>1. CASE l = published
      <4>1. scheduled'[l] = Append(scheduled[l], frame)
        BY <2>1, <3>1, OwnSchedule
      <4>2. Kinds(scheduled[l], Disconnect) /\ (Reading => AllData(scheduled[l]))
        BY <2>3 DEF EndInv
      <4>3. /\ AllData(scheduled[l]) /\ frame.kind = "data" => AllData(scheduled'[l])
            /\ Kinds(scheduled'[l], Disconnect)
        BY <1>0, <2>1, <4>1, <4>2, Appended
      <4> QED
        BY <2>1, <4>2, <4>3
    <3>2. CASE l # published
      <4>1. scheduled'[l] = scheduled[l]
        BY <2>1, <3>2, OwnSchedule
      <4> QED
        BY <2>1, <2>3, <4>1 DEF EndInv
    <3> QED
      BY <3>1, <3>2
  <2> QED
    BY <1>00, <2>1, <2>2, <2>3 DEF EndInv
<1>9. ASSUME NEW k \in Loops, RunCallback(k) PROVE EndInv'
  <2>1. /\ UNCHANGED <<toServer, item, clientClosing, clientUp, reader>>
        /\ scheduled[k] # <<>> /\ queue' = Append(queue, Head(scheduled[k]))
        /\ scheduled'[k] = Tail(scheduled[k])
        /\ \A l \in Loops : l # k => scheduled'[l] = scheduled[l]
    BY <1>0, <1>9 DEF RunCallback, clientVars, wireVars
  <2>2. /\ Head(scheduled[k]) \in Frames
        /\ AllData(scheduled[k])
              => AllData(Tail(scheduled[k])) /\ Head(scheduled[k]).kind = "data"
        /\ Kinds(Tail(scheduled[k]), Disconnect)
        /\ Head(scheduled[k]).kind = "data" \/ Head(scheduled[k]) = Disconnect
    BY <1>0, <1>9, <2>1, Dropped DEF EndInv
  <2>3. /\ AllData(queue) /\ Head(scheduled[k]).kind = "data" => AllData(queue')
        /\ Kinds(queue', Disconnect)
    BY <1>0, <2>1, <2>2, Appended DEF EndInv
  <2>4. Reading' <=> Reading
    BY <2>1 DEF Reading, Holding
  <2>5. ASSUME NEW l \in Loops
        PROVE  Kinds(scheduled'[l], Disconnect) /\ (Reading => AllData(scheduled'[l]))
    BY <1>9, <2>1, <2>2, <2>5 DEF EndInv
  <2> QED
    BY <1>9, <2>1, <2>2, <2>3, <2>4, <2>5 DEF EndInv
<1>10. CASE NextFrame
  <2>1. /\ UNCHANGED <<toServer, item, clientClosing, clientUp, scheduled, reader>>
        /\ queue # <<>> /\ queue' = Tail(queue)
    BY <1>10 DEF NextFrame, clientVars, wireVars, readerVars
  <2>2. (AllData(queue) => AllData(queue')) /\ Kinds(queue', Disconnect)
    BY <1>0, <2>1, Dropped DEF EndInv
  <2> QED
    BY <2>1, <2>2 DEF EndInv, Reading, Holding
<1>11. CASE UNCHANGED inboundVars
  BY <1>11 DEF inboundVars, EndInv, Reading, Holding
<1>12. CASE \/ CreateHandler \/ StartHandler \/ SendMessage \/ Receive \/ HandlerCloses
            \/ HandlerEnds \/ WriteData \/ WriteClose \/ CloseSink \/ PublishSecond
            \/ UNCHANGED vars
  <2>1. UNCHANGED inboundVars
    BY <1>12 DEF CreateHandler, StartHandler, SendMessage, Receive, HandlerCloses, HandlerEnds,
       WriteData, WriteClose, CloseSink, PublishSecond, vars, inboundVars, clientVars, wireVars,
       readerVars, receiveVars, handlerVars
  <2> QED
    BY <1>11, <2>1
<1> QED
  BY <1>1, <1>2, <1>3, <1>4, <1>5, <1>6, <1>7, <1>8, <1>9, <1>10, <1>12 DEF Next

\* A loop that has been replaced is not published again.
LEMMA OwnStays == [Next]_vars /\ published' = "own" => published = "own"
<1>1. CASE UNCHANGED published
  BY <1>1
<1>2. CASE PublishSecond
  BY <1>2 DEF PublishSecond
<1> QED
  BY <1>1, <1>2
  DEF Next, vars, readerVars, pushVars, ClientSends, ClientCloses, ClientReceives, ClientLeaves,
      CreateHandler, LaunchFails, SpawnLoops, Join, ReadFrame, ReadEnds, PushFrame, PushFinal,
      RunCallback, StartHandler, SendMessage, Receive, NextFrame, HandlerCloses, HandlerEnds,
      WriteData, WriteClose, CloseSink

\* Nothing but a race of the first callers publishes a second loop.
LEMMA OneLoopStep ==
    TypeOK /\ (published = "own" => OneLoop) /\ [Next]_vars /\ published' = "own"
        => OneLoop /\ OneLoop'
<1> SUFFICES ASSUME TypeOK, OneLoop, [Next]_vars, published' = "own" PROVE OneLoop'
  BY OwnStays
<1> USE DEF OneLoop
<1>0. "own" \in Loops /\ "other" \in Loops
  BY DEF Loops
<1>1. CASE UNCHANGED pushVars
  BY <1>1 DEF pushVars
<1>2. CASE PushFrame \/ PushFinal
  BY <1>0, <1>2, OwnSchedule DEF PushFrame, PushFinal
<1>3. CASE PublishSecond
  BY <1>3 DEF PublishSecond
<1>4. ASSUME NEW l \in Loops, RunCallback(l) PROVE OneLoop'
  <2>1. l = "own"
    BY <1>4 DEF RunCallback, Loops
  <2> QED
    BY <1>0, <1>4, <2>1 DEF RunCallback, TypeOK
<1> QED
  BY <1>1, <1>2, <1>3, <1>4
  DEF Next, vars, pushVars, readerVars, ClientSends, ClientCloses, ClientReceives, ClientLeaves,
      CreateHandler, LaunchFails, SpawnLoops, Join, ReadFrame, ReadEnds, StartHandler,
      SendMessage, Receive, NextFrame, HandlerCloses, HandlerEnds, WriteData, WriteClose,
      CloseSink

\* Where the client's messages are is a matter of nine actions.
LEMMA InboundStep ==
    TypeOK /\ LaunchInv /\ OneLoop /\ InboundInv /\ [Next]_vars => InboundInv'
<1> SUFFICES ASSUME TypeOK, LaunchInv, OneLoop, InboundInv, [Next]_vars
             PROVE  InboundInv'
  OBVIOUS
<1>0. /\ queue \in Seq(Frames) /\ Pending \in Seq(Frames) /\ toServer \in Seq(Frames)
      /\ item \in Frames /\ consumed \in Nat /\ clientSent \in Nat
      /\ Len(queue) \in Nat /\ Len(Pending) \in Nat /\ Len(toServer) \in Nat
      /\ Held \in {0, 1} /\ Taken \in Nat
  <2>1. /\ queue \in Seq(Frames) /\ Pending \in Seq(Frames) /\ toServer \in Seq(Frames)
        /\ item \in Frames /\ consumed \in Nat /\ clientSent \in Nat
    BY BoundsAssumption DEF TypeOK, Loops, Pending
  <2>2. Held \in {0, 1}
    BY DEF Held
  <2> QED
    BY <2>1, <2>2 DEF Taken
<1>00. /\ Close \in Frames /\ Disconnect \in Frames
       /\ Close.kind # "data" /\ Disconnect.kind # "data" /\ Disconnect.kind # "close"
       /\ \A f \in Frames : f.kind = "data" => f = Data(f.n) /\ f.n \in Nat
       /\ \A n \in Nat : Data(n) \in Frames /\ Data(n).kind = "data" /\ Data(n).n = n
  <2>1. Close.kind # "data" /\ Disconnect.kind # "data" /\ Disconnect.kind # "close"
    BY DEF Close, Disconnect
  <2> QED
    BY <2>1, FrameFacts
<1>1. CASE ClientSends
  <2> DEFINE e == Data(clientSent + 1)
  <2>1. toServer' = Append(toServer, e) /\ e \in Frames /\ e.kind = "data" /\ e.n = clientSent + 1
    BY <1>0, <1>00, <1>1 DEF ClientSends
  <2>2. /\ AllData(toServer)
        /\ clientUp /\ ~clientClosing
        /\ clientSent' = clientSent + 1
        /\ UNCHANGED <<queue, Pending, item, clientClosing, clientUp, consumed, disconnected, reader>>
    BY <1>1 DEF ClientSends, InboundInv, readerVars, handlerVars, Pending
  <2>3. /\ Below(queue, clientSent + 1) /\ Below(Pending, clientSent + 1)
        /\ Below(toServer, clientSent + 1)
    BY <1>0, BelowMore DEF InboundInv
  <2> HIDE DEF e
  <2>4. /\ Len(Append(toServer, e)) = Len(toServer) + 1
        /\ AllData(Append(toServer, e))
        /\ Chain(toServer, Taken) /\ e = Data(Taken + Len(toServer) + 1)
              => Chain(Append(toServer, e), Taken)
        /\ Below(Append(toServer, e), clientSent + 1)
        /\ Kinds(Append(toServer, e), Close)
    BY <1>0, <2>1, <2>2, <2>3, Appended DEF InboundInv
  <2>5. Reading => e = Data(Taken + Len(toServer) + 1)
    BY <2>2 DEF e, InboundInv
  <2>6. Taken' = Taken /\ (Reading' <=> Reading) /\ (Holding' <=> Holding)
    BY <2>2 DEF Taken, Held, Reading, Holding
  <2>7. Holding' => item'.n = Taken' /\ item'.n <= clientSent'
    <3> SUFFICES ASSUME Holding PROVE item.n = Taken /\ item.n <= clientSent + 1
      BY <2>2, <2>6
    <3> QED
      BY <1>0 DEF InboundInv
  <2>8. Reading' => /\ AllData(queue') /\ AllData(Pending') /\ Chain(toServer', Taken')
                    /\ clientSent' = Taken' + Len(toServer')
    BY <1>0, <2>1, <2>2, <2>4, <2>5, <2>6 DEF InboundInv
  <2> QED
    BY <2>1, <2>2, <2>3, <2>4, <2>6, <2>7, <2>8 DEF InboundInv
<1>2. CASE ClientCloses \/ ClientReceives
  <2>1. /\ UNCHANGED <<queue, Pending, item, clientSent, clientUp, consumed, disconnected, reader>>
        /\ \/ clientClosing' /\ toServer' = Append(toServer, Close)
           \/ UNCHANGED toServer /\ (clientClosing => clientClosing')
              /\ (clientClosing' => clientClosing \/ clientSawClose')
    BY <1>2 DEF ClientCloses, ClientReceives, readerVars, handlerVars, Pending
  <2>2. /\ Len(Append(toServer, Close)) = Len(toServer) + 1
        /\ ~AllData(Append(toServer, Close))
        /\ Chain(toServer, Taken) => Chain(Append(toServer, Close), Taken)
        /\ Below(Append(toServer, Close), clientSent)
        /\ Kinds(Append(toServer, Close), Close)
    BY <1>0, <1>00, Appended DEF InboundInv
  <2> QED
    BY <1>0, <2>1, <2>2 DEF InboundInv, Reading, Holding, Held, Taken
<1>3. CASE ClientLeaves
  <2>1. PICK n \in 0..Len(toServer) : toServer' = SubSeq(toServer, 1, n)
    BY <1>3 DEF ClientLeaves
  <2>2. /\ UNCHANGED <<queue, Pending, item, clientSent, clientClosing, consumed, disconnected, reader>>
        /\ clientUp' = FALSE
    BY <1>3 DEF ClientLeaves, readerVars, handlerVars, Pending
  <2>3. /\ ~AllData(toServer') => ~AllData(toServer)
        /\ Chain(toServer, Taken) => Chain(toServer', Taken)
        /\ Below(toServer, clientSent) => Below(toServer', clientSent)
        /\ Kinds(toServer, Close) => Kinds(toServer', Close)
    BY <1>0, <2>1, CutOff
  <2> QED
    BY <1>0, <2>2, <2>3 DEF InboundInv, Reading, Holding, Held, Taken
<1>4. CASE LaunchFails \/ Join
  <2>1. /\ UNCHANGED <<queue, Pending, toServer, item, clientSent, clientClosing, consumed,
                       disconnected, reader>>
        /\ clientUp' = FALSE
    BY <1>4 DEF LaunchFails, Join, readerVars, handlerVars, wireVars, Pending
  <2> QED
    BY <2>1 DEF InboundInv, Reading, Holding, Held, Taken
<1>5. CASE SpawnLoops
  <2>1. /\ UNCHANGED <<queue, Pending, toServer, item, clientSent, clientClosing, clientUp, consumed,
                       disconnected>>
        /\ reader = "absent" /\ reader' = "reading"
    BY <1>5 DEF SpawnLoops, LaunchInv, handlerVars, wireVars, clientVars, pushVars, Pending
  <2> QED
    BY <2>1 DEF InboundInv, Reading, Holding, Held, Taken
<1>6. CASE ReadFrame
  <2> DEFINE t == Tail(toServer)
             h == Head(toServer)
  <2>1. /\ UNCHANGED <<queue, Pending, clientSent, clientClosing, clientUp, consumed, disconnected>>
        /\ reader = "reading" /\ reader' = "pushing"
        /\ toServer # <<>> /\ toServer' = t
        /\ item' = IF h.kind = "close" THEN Disconnect ELSE h
    BY <1>6 DEF ReadFrame, clientVars, handlerVars, pushVars, Pending
  <2>2. /\ Len(t) = Len(toServer) - 1 /\ h \in Frames
        /\ AllData(toServer) => AllData(t) /\ h.kind = "data"
        /\ h.kind = "data" => Chain(t, Taken + 1) /\ h = Data(Taken + 1) /\ h.n <= clientSent
        /\ Below(t, clientSent) /\ Kinds(t, Close)
        /\ h.kind = "data" \/ h = Close
    <3>1. Chain(toServer, Taken) /\ Below(toServer, clientSent) /\ Kinds(toServer, Close)
      BY <2>1 DEF InboundInv, Reading
    <3> QED
      BY <1>0, <2>1, <3>1, Dropped
  <2> HIDE DEF t, h
  <2>3. CASE h.kind = "data"
    <3>1. item' = h /\ item'.kind = "data" /\ item'.n = Taken + 1 /\ item'.n <= clientSent
      BY <1>0, <1>00, <2>1, <2>2, <2>3
    <3>2. Taken' = Taken + 1 /\ Held' = 1 /\ Holding' /\ Reading'
      BY <1>0, <2>1, <3>1 DEF Taken, Held, Holding, Reading
    <3>3. Reading
      BY <2>1 DEF Reading
    <3>4. /\ ~disconnected /\ AllData(queue) /\ AllData(Pending)
          /\ clientUp /\ ~clientClosing => clientSent = Taken + Len(toServer)
          /\ ~AllData(t) => clientClosing
      BY <2>2, <3>3 DEF InboundInv
    <3>5. clientUp /\ ~clientClosing => clientSent = Taken' + Len(t)
      BY <1>0, <2>2, <3>2, <3>4
    <3> QED
      BY <2>1, <2>2, <2>3, <3>1, <3>2, <3>4, <3>5 DEF InboundInv
  <2>4. CASE h.kind # "data"
    <3>1. item' = Disconnect
      BY <2>1, <2>2, <2>4 DEF Close
    <3>2. ~Reading' /\ ~Holding'
      BY <1>00, <2>1, <3>1 DEF Reading, Holding
    <3>3. clientClosing
      BY <2>2, <2>4 DEF InboundInv
    <3>4. ~disconnected
      BY <2>1 DEF InboundInv, Reading
    <3> QED
      BY <2>1, <2>2, <3>1, <3>2, <3>3, <3>4 DEF InboundInv
  <2> QED
    BY <2>3, <2>4
<1>7. CASE ReadEnds
  <2>1. /\ UNCHANGED <<queue, Pending, toServer, item, clientSent, clientClosing, clientUp, consumed,
                       disconnected>>
        /\ reader = "reading" /\ reader' = "final" /\ ~clientUp
    BY <1>7 DEF ReadEnds, clientVars, handlerVars, wireVars, pushVars, Pending
  <2>2. ~Reading' /\ ~Holding'
    BY <2>1 DEF Reading, Holding
  <2> QED
    BY <2>1, <2>2 DEF InboundInv
<1>8. CASE PushFrame
  <2> DEFINE s == Append(Pending, item)
  <2>1. /\ UNCHANGED <<queue, toServer, item, clientSent, clientClosing, clientUp, consumed,
                       disconnected>>
        /\ reader = "pushing"
        /\ Pending' = s
        /\ reader' = IF item = Disconnect THEN "final" ELSE "reading"
    BY <1>8, OwnSchedule DEF PushFrame, clientVars, handlerVars, wireVars, OneLoop
  <2>2. /\ s \in Seq(Frames) /\ Len(s) = Len(Pending) + 1
        /\ AllData(Pending) /\ item.kind = "data" => AllData(s)
        /\ NoData(Pending) /\ item.kind # "data" => NoData(s)
        /\ Chain(Pending, consumed + Len(queue)) /\ item.kind # "data"
              => Chain(s, consumed + Len(queue))
        /\ Chain(Pending, consumed + Len(queue)) /\ AllData(Pending)
              /\ item = Data(consumed + Len(queue) + Len(Pending) + 1)
              => Chain(s, consumed + Len(queue))
        /\ Below(Pending, clientSent) /\ (item.kind = "data" => item.n <= clientSent)
              => Below(s, clientSent)
        /\ Kinds(s, Disconnect)
    BY <1>0, Appended DEF InboundInv
  <2> HIDE DEF s
  <2>3. CASE item.kind = "data"
    <3>1. /\ Holding /\ Held = 1 /\ Reading /\ reader' = "reading"
          /\ Reading' /\ ~Holding' /\ Held' = 0
      BY <1>00, <2>1, <2>3 DEF Holding, Held, Reading
    <3>2. Taken = consumed + Len(queue) + Len(Pending) + 1 /\ Taken' = Taken
      BY <1>0, <2>1, <2>2, <3>1 DEF Taken
    <3>3. item = Data(consumed + Len(queue) + Len(Pending) + 1) /\ item.n <= clientSent
      BY <1>0, <1>00, <2>3, <3>1, <3>2 DEF InboundInv
    <3> QED
      BY <2>1, <2>2, <2>3, <3>1, <3>2, <3>3 DEF InboundInv
  <2>4. CASE item.kind # "data"
    <3>1. ~Reading' /\ ~Holding' /\ ~Reading
      BY <2>1, <2>4 DEF Reading, Holding, InboundInv
    <3> QED
      BY <2>1, <2>2, <2>4, <3>1 DEF InboundInv
  <2> QED
    BY <2>3, <2>4
<1>9. CASE PushFinal
  <2> DEFINE s == Append(Pending, Disconnect)
  <2>1. /\ UNCHANGED <<queue, toServer, item, clientSent, clientClosing, clientUp, consumed,
                       disconnected>>
        /\ reader = "final" /\ reader' = "done"
        /\ Pending' = s
    BY <1>9, OwnSchedule DEF PushFinal, clientVars, handlerVars, wireVars, OneLoop
  <2>2. /\ NoData(Pending) => NoData(s)
        /\ Chain(Pending, consumed + Len(queue)) => Chain(s, consumed + Len(queue))
        /\ Below(s, clientSent) /\ Kinds(s, Disconnect)
    BY <1>0, <1>00, Appended DEF InboundInv
  <2> HIDE DEF s
  <2>3. ~Reading /\ ~Reading' /\ ~Holding /\ ~Holding'
    BY <2>1 DEF Reading, Holding
  <2> QED
    BY <2>1, <2>2, <2>3 DEF InboundInv
<1>10. ASSUME NEW l \in Loops, RunCallback(l) PROVE InboundInv'
  <2> DEFINE h == Head(Pending)
             t == Tail(Pending)
             q == Append(queue, h)
  <2>1. /\ UNCHANGED <<toServer, item, clientSent, clientClosing, clientUp, consumed, disconnected,
                       reader>>
        /\ Pending # <<>> /\ Pending' = t /\ queue' = q
    <3>1. l = "own" /\ scheduled["own"] # <<>>
      BY <1>10 DEF RunCallback, OneLoop, Loops
    <3>2. scheduled'["own"] = Tail(scheduled["own"])
      BY <1>10, <3>1 DEF RunCallback, TypeOK
    <3> QED
      BY <1>10, <3>1, <3>2 DEF RunCallback, clientVars, wireVars, Pending
  <2>2. /\ h \in Frames /\ Len(t) = Len(Pending) - 1
        /\ AllData(Pending) => AllData(t) /\ h.kind = "data"
        /\ NoData(Pending) => NoData(t) /\ h.kind # "data"
        /\ Chain(Pending, consumed + Len(queue)) /\ h.kind = "data"
              => Chain(t, consumed + Len(queue) + 1) /\ h = Data(consumed + Len(queue) + 1)
        /\ Chain(Pending, consumed + Len(queue)) /\ h.kind # "data" => NoData(t)
        /\ Below(t, clientSent) /\ (h.kind = "data" => h.n <= clientSent)
        /\ Kinds(t, Disconnect) /\ (h.kind = "data" \/ h = Disconnect)
    BY <1>0, <2>1, Dropped DEF InboundInv
  <2> HIDE DEF h, t
  <2>3. /\ Len(q) = Len(queue) + 1
        /\ h.kind # "data" => ~AllData(q)
        /\ ~AllData(queue) => ~AllData(q)
        /\ AllData(queue) /\ h.kind = "data" => AllData(q)
        /\ NoData(queue) /\ h.kind # "data" => NoData(q)
        /\ Chain(queue, consumed) /\ h.kind # "data" => Chain(q, consumed)
        /\ Chain(queue, consumed) /\ AllData(queue) /\ h = Data(consumed + Len(queue) + 1) => Chain(q, consumed)
        /\ Below(q, clientSent) /\ Kinds(q, Disconnect)
    BY <1>0, <2>2, Appended DEF InboundInv
  <2> HIDE DEF q
  <2>4. Taken' = Taken /\ (Reading' <=> Reading) /\ (Holding' <=> Holding)
    BY <1>0, <2>1, <2>2, <2>3 DEF Taken, Held, Reading, Holding
  <2>5. Chain(queue, consumed)
    BY DEF InboundInv
  <2>6. CASE AllData(queue)
    <3>1. Chain(Pending, consumed + Len(queue))
      BY <2>6 DEF InboundInv
    <3>2. Chain(q, consumed)
      BY <2>2, <2>3, <2>5, <2>6, <3>1
    <3>3. IF AllData(q) THEN Chain(t, consumed + Len(q)) ELSE NoData(t)
      BY <1>0, <2>2, <2>3, <2>6, <3>1
    <3> QED
      BY <2>1, <2>2, <2>3, <2>4, <3>2, <3>3 DEF InboundInv
  <2>7. CASE ~AllData(queue)
    <3>1. NoData(Pending)
      BY <2>7 DEF InboundInv
    <3>2. Chain(q, consumed) /\ ~AllData(q) /\ NoData(t) /\ ~Reading
      BY <2>2, <2>3, <2>5, <2>7, <3>1 DEF InboundInv
    <3>3. ~Holding
      BY <3>2 DEF Reading
    <3> QED
      BY <2>1, <2>2, <2>3, <2>4, <3>2, <3>3 DEF InboundInv
  <2> QED
    BY <2>6, <2>7
<1>11. CASE NextFrame
  <2> DEFINE h == Head(queue)
             t == Tail(queue)
  <2>1. /\ UNCHANGED <<toServer, item, clientSent, clientClosing, clientUp, Pending, reader>>
        /\ queue # <<>> /\ queue' = t
        /\ consumed' = IF h = Disconnect THEN consumed ELSE h.n
        /\ disconnected' = IF h = Disconnect THEN TRUE ELSE disconnected
    BY <1>11 DEF NextFrame, clientVars, wireVars, readerVars, Pending
  <2>2. /\ h \in Frames /\ Len(t) = Len(queue) - 1
        /\ AllData(queue) => AllData(t) /\ h.kind = "data"
        /\ ~AllData(queue) /\ h.kind = "data" => ~AllData(t)
        /\ NoData(queue) => NoData(t) /\ h.kind # "data"
        /\ h.kind = "data" => Chain(t, consumed + 1) /\ h = Data(consumed + 1)
        /\ h.kind # "data" => NoData(t)
        /\ Below(t, clientSent)
        /\ Kinds(t, Disconnect) /\ (h.kind = "data" \/ h = Disconnect)
    BY <1>0, <2>1, Dropped DEF InboundInv
  <2> HIDE DEF h, t
  <2>3. CASE h.kind = "data"
    <3>0. consumed + 1 \in Nat /\ h # Disconnect
      BY <1>0, <1>00, <2>3
    <3>1. consumed' = consumed + 1 /\ disconnected' = disconnected
      BY <1>00, <2>1, <2>2, <2>3, <3>0
    <3>2. (Reading' <=> Reading) /\ (Holding' <=> Holding) /\ Held' = Held
      BY <2>1 DEF Held, Reading, Holding
    <3>4. consumed' + Len(t) = consumed + Len(queue)
      BY <1>0, <2>2, <3>1
    <3>5. Taken' = Taken
      <4>1. Taken' = consumed' + Len(t) + Len(Pending) + Held
        BY <2>1, <3>2 DEF Taken
      <4> QED
        BY <3>4, <4>1 DEF Taken
    <3>3. AllData(t) = AllData(queue) /\ ~disconnected
      BY <2>2, <2>3 DEF InboundInv, AllData
    <3> QED
      BY <2>1, <2>2, <2>3, <3>1, <3>2, <3>3, <3>4, <3>5 DEF InboundInv
  <2>4. CASE h.kind # "data"
    <3>1. consumed' = consumed /\ disconnected' /\ NoData(t) /\ ~AllData(queue)
      BY <2>1, <2>2, <2>4
    <3>2. NoData(Pending) /\ ~Reading
      BY <3>1 DEF InboundInv
    <3>3. ~Reading' /\ ~Holding' /\ ~Holding
      BY <2>1, <3>2 DEF Reading, Holding
    <3>4. Chain(t, consumed') /\ \A n : Chain(Pending, n)
      BY <3>1, <3>2, ChainOfNone
    <3> QED
      BY <2>1, <2>2, <3>1, <3>2, <3>3, <3>4 DEF InboundInv
  <2> QED
    BY <2>3, <2>4
<1>12. CASE UNCHANGED inboundVars
  BY <1>12 DEF inboundVars, InboundInv, Reading, Holding, Held, Taken, Pending
<1>13. CASE \/ CreateHandler \/ StartHandler \/ SendMessage \/ Receive \/ HandlerCloses
            \/ HandlerEnds \/ WriteData \/ WriteClose \/ CloseSink \/ UNCHANGED vars
  <2>1. UNCHANGED inboundVars
    BY <1>13 DEF CreateHandler, StartHandler, SendMessage, Receive, HandlerCloses, HandlerEnds,
       WriteData, WriteClose, CloseSink, vars, inboundVars, clientVars, wireVars, readerVars,
       receiveVars, handlerVars
  <2> QED
    BY <1>12, <2>1
<1>14. CASE PublishSecond
  BY <1>12, <1>14 DEF PublishSecond, inboundVars, clientVars, wireVars, handlerVars
<1> QED
  BY <1>1, <1>2, <1>3, <1>4, <1>5, <1>6, <1>7, <1>8, <1>9, <1>10, <1>11, <1>13, <1>14 DEF Next

-----------------------------------------------------------------------------
(* The handler's messages *)

outboundVars == <<toClient, outbox, clientGot, accepted, clientSawClose, protocol, clientUp,
                  clientClosing, closed, writer>>

LEMMA OutboundStep ==
    TypeOK /\ LaunchInv /\ EndInv /\ OutboundInv /\ [Next]_vars => OutboundInv'
<1> SUFFICES ASSUME TypeOK, LaunchInv, EndInv, OutboundInv, [Next]_vars PROVE OutboundInv'
  OBVIOUS
<1>0. /\ outbox \in Seq(Frames) /\ toClient \in Seq(Frames)
      /\ queue \in Seq(Frames) /\ toServer \in Seq(Frames)
      /\ clientGot \in Nat /\ accepted \in Nat
      /\ Len(outbox) \in Nat /\ Len(toClient) \in Nat
      /\ clientGot + Len(toClient) \in Nat
  BY BoundsAssumption DEF TypeOK
<1>00. /\ Close \in Frames /\ Disconnect \in Frames
       /\ Close.kind # "data" /\ Disconnect.kind # "data" /\ Close.kind = "close"
       /\ \A f \in Frames : f.kind = "data" => f = Data(f.n) /\ f.n \in Nat
       /\ \A n \in Nat : Data(n) \in Frames /\ Data(n).kind = "data" /\ Data(n).n = n
  <2>1. Close.kind # "data" /\ Disconnect.kind # "data" /\ Close.kind = "close"
    BY DEF Close, Disconnect
  <2> QED
    BY <2>1, FrameFacts
<1>1. CASE ClientCloses
  <2>1. /\ UNCHANGED <<toClient, outbox, clientGot, accepted, clientSawClose, protocol, clientUp,
                       closed, writer>>
        /\ clientClosing' = TRUE
    BY <1>1 DEF ClientCloses, handlerVars
  <2> QED
    BY <2>1 DEF OutboundInv, Writing, Ending
<1>2. CASE ClientReceives
  <2> DEFINE h == Head(toClient)
             t == Tail(toClient)
  <2>1. /\ UNCHANGED <<outbox, accepted, protocol, clientUp, closed, writer>>
        /\ toClient # <<>> /\ toClient' = t
        /\ IF h.kind = "close"
           THEN clientSawClose' /\ clientClosing' /\ UNCHANGED clientGot
           ELSE clientGot' = h.n /\ UNCHANGED <<clientSawClose, clientClosing>>
    BY <1>2 DEF ClientReceives, handlerVars
  <2>2. /\ h \in Frames /\ t \in Seq(Frames) /\ Len(t) = Len(toClient) - 1
        /\ AllData(toClient) => AllData(t) /\ h.kind = "data"
        /\ ~AllData(toClient) /\ h.kind = "data" => ~AllData(t)
        /\ NoData(toClient) => NoData(t) /\ h.kind # "data"
        /\ h.kind = "data" => Chain(t, clientGot + 1) /\ h = Data(clientGot + 1)
        /\ h.kind # "data" => NoData(t)
        /\ Below(t, accepted) /\ EndIsLast(t)
        /\ h.kind # "data" => t = <<>>
        /\ Kinds(t, Close) /\ (h.kind = "data" \/ h = Close)
    BY <1>0, <2>1, Dropped DEF OutboundInv
  <2> HIDE DEF h, t
  <2>3. CASE h.kind = "data"
    <3>1. clientGot + 1 \in Nat /\ h.n = clientGot + 1 /\ h.kind # "close"
      BY <1>0, <1>00, <2>2, <2>3
    <3>2. clientGot' = clientGot + 1 /\ UNCHANGED <<clientSawClose, clientClosing>>
      BY <2>1, <3>1
    <3>3. /\ clientGot' \in Nat /\ Len(t) \in Nat
          /\ clientGot' + Len(t) = clientGot + Len(toClient)
      BY <1>0, <2>2, <3>1, <3>2
    <3>4. (Writing' <=> Writing) /\ (Ending' <=> Ending)
      BY <2>1, <3>2 DEF Writing, Ending
    <3>5. AllData(toClient) <=> AllData(t)
      BY <2>2, <2>3
    <3>6. Writing => Chain(outbox, clientGot' + Len(t))
      BY <3>3 DEF OutboundInv
    <3>7. Writing /\ ~closed => accepted = clientGot' + Len(t) + Len(outbox)
      BY <1>0, <3>3 DEF OutboundInv
    <3>8. Writing /\ closed /\ Ending =>
             ~AllData(outbox) /\ accepted = clientGot' + Len(t) + Len(outbox) - 1
      BY <1>0, <3>3 DEF OutboundInv
    <3>9. protocol = "closedByUs" /\ Ending => accepted = clientGot' + Len(t) - 1
      BY <1>0, <3>3 DEF OutboundInv
    <3>10. protocol = "closedByUs" /\ Ending => closed /\ ~AllData(t)
      BY <3>5 DEF OutboundInv
    <3>11. /\ ~clientSawClose
          /\ protocol \in {"active", "closedByPeer"} => AllData(t)
      BY <2>2, <2>3, <3>5 DEF OutboundInv
    <3> QED
      BY <2>1, <2>2, <2>3, <3>2, <3>4, <3>6, <3>7, <3>8, <3>9, <3>10, <3>11
      DEF OutboundInv
  <2>4. CASE h.kind # "data"
    <3>1. /\ clientSawClose' /\ clientClosing' /\ clientGot' = clientGot
          /\ NoData(t) /\ t = <<>> /\ ~AllData(toClient)
      BY <1>00, <2>1, <2>2, <2>4
    <3>2. protocol \notin {"active", "closedByPeer"}
      BY <3>1 DEF OutboundInv
    <3>3. ~Writing' /\ ~Ending'
      BY <2>1, <3>1, <3>2 DEF Writing, Ending
    <3>4. Chain(t, clientGot')
      BY <3>1, ChainOfNone
    <3> QED
      BY <2>1, <2>2, <3>1, <3>2, <3>3, <3>4 DEF OutboundInv
  <2> QED
    BY <2>3, <2>4
<1>3. CASE ClientLeaves \/ LaunchFails \/ Join
  <2>1. /\ UNCHANGED <<toClient, outbox, clientGot, accepted, clientSawClose, protocol,
                       clientClosing, closed, writer>>
        /\ clientUp' = FALSE
    BY <1>3 DEF ClientLeaves, LaunchFails, Join, handlerVars, wireVars
  <2> QED
    BY <2>1 DEF OutboundInv, Writing, Ending
<1>4. CASE SpawnLoops
  <2>1. /\ UNCHANGED <<toClient, outbox, clientGot, accepted, clientSawClose, protocol, clientUp,
                       clientClosing, closed>>
        /\ writer = "absent" /\ writer' = "waiting"
    BY <1>4 DEF SpawnLoops, LaunchInv, clientVars, wireVars, handlerVars
  <2> QED
    BY <2>1 DEF OutboundInv, Writing, Ending
<1>5. CASE ReadFrame
  <2>1. /\ UNCHANGED <<toClient, outbox, clientGot, accepted, clientSawClose, clientUp,
                       clientClosing, closed, writer>>
        /\ toServer # <<>>
        /\ \/ UNCHANGED protocol
           \/ /\ Head(toServer).kind = "close"
              /\ \/ protocol = "active" /\ protocol' = "closedByPeer"
                 \/ protocol = "closedByUs" /\ protocol' = "acknowledged"
    BY <1>5 DEF ReadFrame, Readable, clientVars, handlerVars
  <2>2. Head(toServer).kind = "close" => clientClosing
    <3>1. AllData(toServer) => Head(toServer).kind = "data"
      BY <1>0, <2>1, Dropped
    <3> QED
      BY <3>1 DEF EndInv
  <2> QED
    BY <2>1, <2>2 DEF OutboundInv, Writing, Ending
<1>6. CASE SendMessage
  <2> DEFINE e == Data(accepted + 1)
             s == Append(outbox, e)
  <2>1. /\ UNCHANGED <<toClient, clientGot, clientSawClose, protocol, clientUp, clientClosing,
                       closed, writer>>
        /\ ~closed
        /\ accepted' = accepted + 1 /\ outbox' = s
    BY <1>6 DEF SendMessage, clientVars, wireVars
  <2>2. e \in Frames /\ e.kind = "data" /\ e.n = accepted + 1 /\ AllData(outbox)
    BY <1>0, <1>00, <2>1 DEF OutboundInv
  <2>3. Below(outbox, accepted + 1) /\ Below(toClient, accepted + 1)
    BY <1>0, BelowMore DEF OutboundInv
  <2>4. Writing => e = Data(clientGot + Len(toClient) + Len(outbox) + 1)
    BY <2>1 DEF OutboundInv
  <2> HIDE DEF e
  <2>5. /\ Len(s) = Len(outbox) + 1
        /\ AllData(s) /\ Below(s, accepted + 1) /\ EndIsLast(s) /\ Kinds(s, Close)
        /\ Chain(outbox, clientGot + Len(toClient))
              /\ e = Data(clientGot + Len(toClient) + Len(outbox) + 1)
              => Chain(s, clientGot + Len(toClient))
    BY <1>0, <2>2, <2>3, Appended DEF OutboundInv
  <2> HIDE DEF s
  <2>6. Writing /\ ~closed => accepted' = clientGot + Len(toClient) + Len(s)
    BY <1>0, <2>1, <2>5 DEF OutboundInv
  <2>7. (Writing' <=> Writing) /\ (Ending' <=> Ending)
    BY <2>1 DEF Writing, Ending
  <2> QED
    BY <2>1, <2>3, <2>4, <2>5, <2>6, <2>7 DEF OutboundInv
<1>7. CASE NextFrame
  <2>1. /\ UNCHANGED <<toClient, outbox, clientGot, accepted, clientSawClose, protocol, clientUp,
                       clientClosing, writer>>
        /\ queue # <<>>
        /\ closed' = IF Head(queue) = Disconnect THEN TRUE ELSE closed
    BY <1>7 DEF NextFrame, clientVars, wireVars
  <2>2. Head(queue) = Disconnect => ~Ending
    <3> SUFFICES ASSUME Head(queue) = Disconnect PROVE ~Ending
      OBVIOUS
    <3>1. ~AllData(queue)
      BY <1>0, <1>00, <2>1, Dropped
    <3> QED
      BY <3>1 DEF EndInv, Ending
  <2>3. (Writing' <=> Writing) /\ (Ending' <=> Ending)
    BY <2>1 DEF Writing, Ending
  <2> QED
    BY <2>1, <2>2, <2>3 DEF OutboundInv
<1>8. CASE HandlerCloses \/ HandlerEnds
  <2> DEFINE s == Append(outbox, Close)
  <2>1. /\ UNCHANGED <<toClient, clientGot, accepted, clientSawClose, protocol, clientUp,
                       clientClosing, writer>>
        /\ closed' = TRUE
        /\ outbox' = IF ~closed /\ writer # "done" THEN s ELSE outbox
    BY <1>8 DEF HandlerCloses, HandlerEnds, CloseSocket, ChannelOpen, clientVars, wireVars
  <2>2. (Writing' <=> Writing) /\ (Ending' <=> Ending) /\ (Writing => writer # "done")
    BY <2>1 DEF Writing, Ending
  <2>3. /\ Len(s) = Len(outbox) + 1
        /\ ~AllData(s) /\ Below(s, accepted) /\ Kinds(s, Close)
        /\ AllData(outbox) => EndIsLast(s)
        /\ Chain(outbox, clientGot + Len(toClient)) => Chain(s, clientGot + Len(toClient))
    BY <1>0, <1>00, Appended DEF OutboundInv
  <2> HIDE DEF s
  <2>4. Writing /\ ~closed => accepted = clientGot + Len(toClient) + Len(s) - 1
    BY <1>0, <2>3 DEF OutboundInv
  <2>5. CASE ~closed /\ writer # "done"
    BY <2>1, <2>2, <2>3, <2>4, <2>5 DEF OutboundInv
  <2>6. CASE closed \/ writer = "done"
    <3>1. outbox' = outbox
      BY <2>1, <2>6
    <3> QED
      BY <2>1, <2>2, <2>6, <3>1 DEF OutboundInv
  <2> QED
    BY <2>5, <2>6
<1>9. CASE WriteData
  <2> DEFINE h == Head(outbox)
             t == Tail(outbox)
             s == Append(toClient, h)
  <2>1. /\ UNCHANGED <<clientGot, accepted, clientSawClose, protocol, clientUp, clientClosing,
                       closed>>
        /\ writer = "waiting" /\ outbox # <<>> /\ h.kind = "data" /\ outbox' = t
        /\ \/ protocol = "active" /\ toClient' = s /\ UNCHANGED writer
           \/ /\ protocol # "active" \/ ~clientUp
              /\ writer' = "closing" /\ UNCHANGED toClient
    BY <1>9 DEF WriteData, clientVars, handlerVars
  <2>2. /\ h \in Frames /\ t \in Seq(Frames) /\ Len(t) = Len(outbox) - 1
        /\ AllData(outbox) <=> AllData(t)
        /\ Chain(outbox, clientGot + Len(toClient))
              => /\ Chain(t, clientGot + Len(toClient) + 1)
                 /\ h = Data(clientGot + Len(toClient) + 1)
        /\ Below(t, accepted) /\ h.n <= accepted /\ EndIsLast(t) /\ Kinds(t, Close)
    BY <1>0, <2>1, Dropped DEF OutboundInv
  <2> HIDE DEF h, t
  <2>3. CASE protocol = "active" /\ toClient' = s /\ UNCHANGED writer
    <3>1. Writing /\ Writing' /\ (Ending' <=> Ending)
      BY <2>1, <2>3 DEF Writing, Ending
    <3>2. /\ AllData(toClient) /\ ~clientSawClose
          /\ Chain(outbox, clientGot + Len(toClient))
      BY <2>3, <3>1 DEF OutboundInv
    <3>3. /\ Len(s) = Len(toClient) + 1 /\ AllData(s) /\ EndIsLast(s)
          /\ Chain(s, clientGot) /\ Below(s, accepted) /\ Kinds(s, Close)
      BY <1>0, <2>1, <2>2, <3>2, Appended DEF OutboundInv
    <3> HIDE DEF s
    <3>4. /\ Len(s) \in Nat /\ Len(t) \in Nat
          /\ clientGot + Len(s) = clientGot + Len(toClient) + 1
          /\ clientGot + Len(s) + Len(t) = clientGot + Len(toClient) + Len(outbox)
      BY <1>0, <2>2, <3>3
    <3>5. Chain(t, clientGot + Len(s))
      BY <2>2, <3>2, <3>4
    <3>6. ~closed => accepted = clientGot + Len(s) + Len(t)
      BY <1>0, <3>1, <3>4 DEF OutboundInv
    <3>7. closed /\ Ending => accepted = clientGot + Len(s) + Len(t) - 1
      BY <1>0, <3>1, <3>4 DEF OutboundInv
    <3>8. closed /\ Ending => ~AllData(t)
      BY <2>2, <3>1 DEF OutboundInv
    <3>9. ~closed => AllData(t)
      BY <2>2 DEF OutboundInv
    <3> QED
      BY <2>1, <2>2, <2>3, <3>1, <3>2, <3>3, <3>5, <3>6, <3>7, <3>8, <3>9 DEF OutboundInv
  <2>4. CASE /\ protocol # "active" \/ ~clientUp
             /\ writer' = "closing" /\ UNCHANGED toClient
    <3>1. ~Writing' /\ (Ending' <=> Ending)
      BY <2>1, <2>4 DEF Writing, Ending
    <3> QED
      BY <2>1, <2>2, <2>4, <3>1 DEF OutboundInv
  <2> QED
    BY <2>1, <2>3, <2>4
<1>10. CASE WriteClose \/ CloseSink
  <2> DEFINE s == Append(toClient, Close)
  <2>1. /\ UNCHANGED <<clientGot, accepted, clientSawClose, clientUp, clientClosing, closed>>
        /\ writer' \in {"closing", "done"}
        /\ \/ protocol = "active" /\ toClient' = s /\ protocol' = "closedByUs"
           \/ protocol = "closedByPeer" /\ toClient' = s /\ protocol' = "acknowledged"
           \/ UNCHANGED <<toClient, protocol>> /\ protocol # "active"
    BY <1>10 DEF WriteClose, CloseSink, clientVars, handlerVars
  <2>2. /\ outbox' = <<>>
        /\ protocol = "active" =>
              \/ ~clientUp
              \/ Writing /\ ~AllData(outbox) /\ Len(outbox) = 1
    <3>1. CASE WriteClose
      <4>1. Head(outbox) \in Frames /\ Tail(outbox) = <<>> /\ ~AllData(outbox)
            /\ Len(Tail(outbox)) = Len(outbox) - 1
        BY <1>0, <3>1, Dropped DEF WriteClose, OutboundInv
      <4>2. Len(outbox) = 1
        <5>1. Len(Tail(outbox)) = 0
          BY <4>1, EmptyLen
        <5> QED
          BY <1>0, <4>1, <5>1
      <4> QED
        BY <3>1, <4>1, <4>2 DEF WriteClose, Writing
    <3>2. CASE CloseSink
      BY <3>2 DEF CloseSink, OutboundInv
    <3> QED
      BY <1>10, <3>1, <3>2
  <2>3. /\ Len(s) = Len(toClient) + 1
        /\ ~AllData(s) /\ Below(s, accepted) /\ Kinds(s, Close) /\ Chain(s, clientGot)
        /\ AllData(toClient) => EndIsLast(s)
    BY <1>0, <1>00, Appended DEF OutboundInv
  <2> HIDE DEF s
  <2>4. ~Writing' /\ (Ending' <=> Ending)
    BY <2>1 DEF Writing, Ending
  <2>5. protocol = "active" /\ Ending => closed /\ accepted = clientGot + Len(s) - 1
    <3> SUFFICES ASSUME protocol = "active", Ending
                 PROVE  closed /\ accepted = clientGot + Len(s) - 1
      OBVIOUS
    <3>1. Writing /\ ~AllData(outbox) /\ Len(outbox) = 1
      BY <2>2 DEF Ending
    <3>2. closed /\ accepted = clientGot + Len(toClient) + Len(outbox) - 1
      BY <3>1 DEF OutboundInv
    <3> QED
      BY <1>0, <2>3, <3>1, <3>2
  <2> QED
    BY <2>1, <2>2, <2>3, <2>4, <2>5, Emptied DEF OutboundInv
<1>11. CASE UNCHANGED outboundVars
  BY <1>11 DEF outboundVars, OutboundInv, Writing, Ending
<1>12. CASE \/ ClientSends \/ CreateHandler \/ ReadEnds \/ PushFrame \/ PushFinal
            \/ PublishSecond \/ (\E l \in Loops : RunCallback(l))
            \/ StartHandler \/ Receive \/ UNCHANGED vars
  <2>1. UNCHANGED outboundVars
    BY <1>12 DEF ClientSends, CreateHandler, ReadEnds, PushFrame, PushFinal, PublishSecond,
       RunCallback, StartHandler, Receive, vars, outboundVars, clientVars, wireVars, readerVars,
       handlerVars
  <2> QED
    BY <1>11, <2>1
<1> QED
  BY <1>1, <1>2, <1>3, <1>4, <1>5, <1>6, <1>7, <1>8, <1>9, <1>10, <1>12 DEF Next

-----------------------------------------------------------------------------

\* Both ways hold together: a Close frame read from one ends the messages on the other.
THEOREM PipesCorrect == Spec => []PipesInv
<1>1. Init => LaunchInv /\ EndInv /\ OutboundInv /\ OneLoop /\ InboundInv
  <2> SUFFICES ASSUME Init
               PROVE  LaunchInv /\ EndInv /\ OutboundInv /\ OneLoop /\ InboundInv
    OBVIOUS
  <2>1. Len(<<>>) = 0 /\ ~Holding /\ Held = 0
    BY DEF Init, Holding, Held
  <2>2. scheduled["own"] = <<>> /\ scheduled["other"] = <<>> /\ Pending = <<>>
    BY DEF Init, Loops, Pending
  <2>3. Taken = 0
    BY <2>1, <2>2 DEF Init, Taken
  <2>4. EndInv
    BY <2>2, Emptied DEF Init, EndInv, Reading, Loops
  <2> QED
    BY <2>1, <2>2, <2>3, <2>4, Emptied
    DEF Init, LaunchInv, OneLoop, InboundInv, OutboundInv, Reading, Writing, Ending
<1>2. TypeOK /\ Init => PipesInv
  BY <1>1 DEF PipesInv
<1>3. PipesInv /\ TypeOK' /\ [Next]_vars => PipesInv'
  <2> SUFFICES ASSUME PipesInv, TypeOK', [Next]_vars PROVE PipesInv'
    OBVIOUS
  <2>1. LaunchInv' /\ EndInv' /\ OutboundInv'
    BY LaunchStep, EndStep, OutboundStep DEF PipesInv
  <2>2. ASSUME published' = "own" PROVE OneLoop' /\ InboundInv'
    <3>1. OneLoop /\ InboundInv
      BY <2>2, OwnStays DEF PipesInv
    <3> QED
      BY <2>2, <3>1, OneLoopStep, InboundStep DEF PipesInv
  <2> QED
    BY <2>1, <2>2 DEF PipesInv
<1> QED
  BY <1>2, <1>3, TypeCorrect, PTL DEF Spec

\* A Close frame is the last of its channel, in the channel and on the wire.
THEOREM CloseComesLast == Spec => []CloseIsLast
<1>1. PipesInv => CloseIsLast
  BY FrameFacts DEF PipesInv, OutboundInv, EndIsLast, CloseIsLast
<1> QED
  BY <1>1, PipesCorrect, PTL

\* A step moves the client's messages as a pipe does, or not at all.
LEMMA InboundSteps ==
    PipesInv /\ [Next]_vars => [Inbound!Next \/ published' # "own"]_(Inbound!vars)
<1> SUFFICES ASSUME PipesInv, [Next]_vars, published' = "own"
             PROVE  [Inbound!Next]_(Inbound!vars)
  OBVIOUS
<1> USE DEF Inbound!Next, Inbound!vars
<1>0. InboundInv
  BY OneLoopStep DEF PipesInv, OneLoop
<1>1. CASE UNCHANGED <<clientSent, consumed, got, disconnected>>
  BY <1>1
<1>2. CASE ClientSends
  BY <1>2 DEF ClientSends, handlerVars, Inbound!Send
<1>3. CASE NextFrame
  <2>0. queue \in Seq(Frames) /\ consumed \in Nat /\ clientSent \in Nat
    BY BoundsAssumption DEF PipesInv, TypeOK
  <2>1. /\ queue # <<>> /\ UNCHANGED clientSent
        /\ IF Head(queue) = Disconnect
           THEN disconnected' = TRUE /\ UNCHANGED <<consumed, got>>
           ELSE /\ consumed' = Head(queue).n /\ UNCHANGED disconnected
                /\ got' = consumed' \/ UNCHANGED got
    BY <1>3 DEF NextFrame, clientVars
  <2>2. /\ Head(queue).kind = "data"
              => Head(queue) = Data(consumed + 1) /\ Head(queue).n <= clientSent
        /\ Head(queue).kind = "data" \/ Head(queue) = Disconnect
        /\ NoData(queue) => Head(queue).kind # "data"
    BY <1>0, <2>0, <2>1, Dropped DEF InboundInv
  <2>3. CASE Head(queue) = Disconnect
    BY <2>1, <2>3 DEF Inbound!Shut
  <2>4. CASE Head(queue) # Disconnect
    <3>1. Head(queue).kind = "data" /\ ~disconnected
      BY <1>0, <2>2, <2>4 DEF InboundInv
    <3>2. consumed + 1 \in Nat
      BY <2>0
    <3>3. Head(queue).n = consumed + 1 /\ consumed + 1 <= clientSent
      BY <2>2, <3>1, <3>2, FrameFacts
    <3>4. consumed < clientSent
      BY <2>0, <3>3
    <3>5. Inbound!Take
      BY <2>1, <2>4, <3>1, <3>3, <3>4 DEF Inbound!Take
    <3> QED
      BY <2>1, <2>4, <3>5 DEF Inbound!Deliver, Inbound!Refuse
  <2> QED
    BY <2>3, <2>4
<1> QED
  BY <1>1, <1>2, <1>3
  DEF Next, vars, clientVars, wireVars, readerVars, receiveVars, handlerVars, ClientCloses,
      ClientReceives, ClientLeaves, CreateHandler, LaunchFails, SpawnLoops, Join, ReadFrame,
      ReadEnds, PushFrame, PushFinal, PublishSecond, RunCallback, StartHandler, SendMessage,
      Receive, HandlerCloses, HandlerEnds, WriteData, WriteClose, CloseSink

(***************************************************************************)
(* Until a second worker loop is published, what receive_* takes from the  *)
(* queue is what the client sent, for any number of messages; a message    *)
(* that a receive_* refuses is lost, and the handler is told.              *)
(***************************************************************************)
THEOREM InboundIsPipe == Spec => InboundPipe
<1>1. Init => Inbound!Init
  BY DEF Init, Inbound!Init
<1> QED
  BY <1>1, InboundSteps, PipesCorrect, PTL DEF Spec, InboundPipe

\* A step moves the handler's messages as a pipe does, or not at all.
LEMMA OutboundSteps == PipesInv /\ [Next]_vars => [Outbound!Next]_(Outbound!vars)
<1> SUFFICES ASSUME PipesInv, [Next]_vars PROVE [Outbound!Next]_(Outbound!vars)
  OBVIOUS
<1> USE DEF Outbound!Next, Outbound!vars
<1>1. CASE UNCHANGED <<accepted, clientGot, clientSawClose>>
  BY <1>1
<1>2. CASE SendMessage
  BY <1>2 DEF SendMessage, clientVars, Outbound!Send
<1>3. CASE ClientReceives
  <2>0. toClient \in Seq(Frames) /\ clientGot \in Nat /\ accepted \in Nat
    BY BoundsAssumption DEF PipesInv, TypeOK
  <2>1. /\ toClient # <<>> /\ UNCHANGED accepted
        /\ IF Head(toClient).kind = "close"
           THEN clientSawClose' = TRUE /\ UNCHANGED clientGot
           ELSE clientGot' = Head(toClient).n /\ UNCHANGED clientSawClose
    BY <1>3 DEF ClientReceives, handlerVars
  <2>2. /\ Head(toClient).kind = "data"
              => Head(toClient) = Data(clientGot + 1) /\ Head(toClient).n <= accepted
        /\ Head(toClient).kind = "data" \/ Head(toClient) = Close
        /\ NoData(toClient) => Head(toClient).kind # "data"
    BY <2>0, <2>1, Dropped DEF PipesInv, OutboundInv
  <2>3. CASE Head(toClient).kind = "close"
    BY <2>1, <2>3 DEF Outbound!Shut
  <2>4. CASE Head(toClient).kind # "close"
    <3>1. Head(toClient).kind = "data" /\ ~clientSawClose
      BY <2>2, <2>4, FrameFacts DEF PipesInv, OutboundInv
    <3>2. clientGot + 1 \in Nat
      BY <2>0
    <3>3. Head(toClient).n = clientGot + 1 /\ clientGot + 1 <= accepted
      BY <2>2, <3>1, <3>2, FrameFacts
    <3>4. clientGot < accepted
      BY <2>0, <3>3
    <3> QED
      BY <2>1, <2>4, <3>1, <3>3, <3>4 DEF Outbound!Take, Outbound!Deliver
  <2> QED
    BY <2>3, <2>4
<1> QED
  BY <1>1, <1>2, <1>3
  DEF Next, vars, clientVars, wireVars, readerVars, receiveVars, handlerVars, ClientSends, ClientCloses,
      ClientLeaves, CreateHandler, LaunchFails, SpawnLoops, Join, ReadFrame, ReadEnds, PushFrame,
      PushFinal, PublishSecond, RunCallback, StartHandler, Receive, NextFrame, HandlerCloses, HandlerEnds,
      WriteData, WriteClose, CloseSink

\* What the client receives is what send_* took, for any number of messages.
THEOREM OutboundIsPipe == Spec => OutboundPipe
<1>1. Init => Outbound!Init
  BY DEF Init, Outbound!Init
<1> QED
  BY <1>1, OutboundSteps, PipesCorrect, PTL DEF Spec, OutboundPipe, Outbound!Spec

\* A server that closes first is heard out, however much it has sent.
THEOREM CloseLosesNothing == Spec => ServerCloseLosesNothing
<1>1. PipesInv /\ [Next]_vars
         => [clientSawClose' /\ ~clientSawClose /\ ~clientClosing => clientGot = accepted]_vars
  <2> SUFFICES ASSUME PipesInv, Next, clientSawClose', ~clientSawClose, ~clientClosing
               PROVE  clientGot = accepted
    OBVIOUS
  <2>1. ClientReceives
    BY DEF Next, vars, clientVars, ClientSends, ClientCloses,
      ClientLeaves, CreateHandler, LaunchFails, SpawnLoops, Join, ReadFrame, ReadEnds, PushFrame,
      PushFinal, PublishSecond, RunCallback, StartHandler, SendMessage, Receive, NextFrame, HandlerCloses,
      HandlerEnds, WriteData, WriteClose, CloseSink
  <2>2. /\ toClient # <<>> /\ Head(toClient).kind = "close" /\ Ending
        /\ toClient \in Seq(Frames) /\ clientGot \in Nat /\ accepted \in Nat
    <3>1. toClient # <<>> /\ clientUp
      BY <2>1 DEF ClientReceives
    <3>2. Head(toClient).kind = "close"
      BY <2>1, Zenon DEF ClientReceives
    <3>3. toClient \in Seq(Frames) /\ clientGot \in Nat /\ accepted \in Nat
      BY BoundsAssumption DEF PipesInv, TypeOK
    <3> QED
      BY <3>1, <3>2, <3>3 DEF Ending
  <2>3. Tail(toClient) = <<>> /\ ~AllData(toClient) /\ Len(Tail(toClient)) = Len(toClient) - 1
        /\ Len(toClient) \in Nat
    BY <2>2, Dropped DEF PipesInv, OutboundInv
  <2>4. Len(toClient) = 1
    <3>1. Len(Tail(toClient)) = 0
      BY <2>3, EmptyLen
    <3> QED
      BY <2>3, <3>1
  <2>5. protocol = "closedByUs"
    BY <2>2, <2>3 DEF PipesInv, TypeOK, OutboundInv, Ending
  <2>6. accepted = clientGot + Len(toClient) - 1
    BY <2>2, <2>5 DEF PipesInv, OutboundInv
  <2> QED
    BY <2>2, <2>4, <2>6
<1> QED
  BY <1>1, PipesCorrect, PTL DEF Spec, ServerCloseLosesNothing

=============================================================================
