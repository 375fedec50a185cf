--------------------------- MODULE WebSocketBridge --------------------------
(***************************************************************************)
(* One native WebSocket connection, from the 101 response on:              *)
(* drive_websocket with its read loop and its write loop                   *)
(* (crates/fr-pyiface/src/ws.rs), and the facade the user's handler talks  *)
(* to on the worker loop (python/hyperfastapi/_ws.py).                     *)
(*                                                                         *)
(*   client --toServer--> read loop --scheduled--> worker loop --queue-->  *)
(*   handler --outbox--> write loop --toClient--> client                   *)
(*                                                                         *)
(* The client, TCP and tungstenite's protocol state are external: they are *)
(* as ws.rs uses them.  Frames carry the number of the message; text and   *)
(* binary frames take the same way (which of them a receive_* asks for is  *)
(* a choice in NextFrame), and pings and pongs are answered inside         *)
(* tungstenite and skipped by the read loop.                               *)
(*                                                                         *)
(* The worker loop is looked up for every frame.  "own" is the loop that   *)
(* runs the handler; the race of the first callers of _ensure_worker_loop  *)
(* (see WorkerLoop) may publish an "other" loop while the connection is    *)
(* open, and what is pushed after that goes there.                         *)
(***************************************************************************)
EXTENDS Naturals, Sequences

CONSTANTS
    MaxIn,    \* bound: messages the client sends
    MaxOut    \* bound: messages the handler sends

ASSUME BoundsAssumption == MaxIn \in Nat /\ MaxOut \in Nat

Loops == {"own", "other"}

Data(n) == [kind |-> "data", n |-> n]
Close == [kind |-> "close", n |-> 0]
Disconnect == [kind |-> "disconnect", n |-> 0]

Frames == [kind : {"data", "close", "disconnect"}, n : Nat]

VARIABLES
    clientUp,        \* the client's end of the TCP connection is open
    clientClosing,   \* the client has sent its Close frame
    clientSent,      \* messages the client has sent
    clientGot,       \* number of the message the client received last
    clientSawClose,  \* the client has received a Close frame
    toServer,        \* frames on their way to the server
    toClient,        \* frames on their way to the client
    protocol,        \* tungstenite's state of the connection
    drive,           \* where drive_websocket is
    reader,          \* where the read loop is
    item,            \* the frame the read loop is about to push
    published,       \* which loop _ensure_worker_loop returns
    scheduled,       \* put_nowait callbacks waiting on each loop
    queue,           \* the asyncio.Queue
    unnoticed,       \* a frame came from the other loop's thread, and the handler's loop,
                     \* in which the handler waits for it, was not woken
    handler,         \* where the user's handler is
    consumed,        \* number of the message receive_* took from the queue last
    got,             \* number of the message receive_* returned last
    disconnected,    \* receive_* has raised WebSocketDisconnect
    closed,          \* NativeWebSocket._closed
    accepted,        \* messages that ws.send_* took without raising
    outbox,          \* the mpsc channel
    writer           \* where the write loop is

clientVars == <<clientUp, clientClosing, clientSent, clientGot, clientSawClose>>
wireVars == <<toServer, toClient, protocol>>
readerVars == <<reader, item, published, scheduled>>
pushVars == <<published, scheduled>>
receiveVars == <<queue, unnoticed, consumed, got, disconnected>>
handlerVars == <<queue, unnoticed, handler, consumed, got, disconnected, closed, accepted>>
vars == <<clientUp, clientClosing, clientSent, clientGot, clientSawClose, toServer,
          toClient, protocol, drive, reader, item, published, scheduled, queue, unnoticed,
          handler, consumed, got, disconnected, closed, accepted, outbox, writer>>

Init ==
    /\ clientUp = TRUE /\ clientClosing = FALSE
    /\ clientSent = 0 /\ clientGot = 0 /\ clientSawClose = FALSE
    /\ toServer = <<>> /\ toClient = <<>> /\ protocol = "active"
    /\ drive = "creating"
    /\ reader = "absent" /\ item = Disconnect
    /\ published = "own" /\ scheduled = [l \in Loops |-> <<>>]
    /\ queue = <<>> /\ unnoticed = FALSE /\ handler = "absent" /\ consumed = 0 /\ got = 0
    /\ disconnected = FALSE /\ closed = FALSE /\ accepted = 0
    /\ outbox = <<>> /\ writer = "absent"

-----------------------------------------------------------------------------
(* The client *)

ClientSends ==
    /\ clientUp /\ ~clientClosing
    /\ clientSent < MaxIn
    /\ clientSent' = clientSent + 1
    /\ toServer' = Append(toServer, Data(clientSent'))
    /\ UNCHANGED <<clientUp, clientClosing, clientGot, clientSawClose, toClient, protocol,
                   drive, readerVars, handlerVars, outbox, writer>>

ClientCloses ==
    /\ clientUp /\ ~clientClosing
    /\ clientClosing' = TRUE
    /\ toServer' = Append(toServer, Close)
    /\ UNCHANGED <<clientUp, clientSent, clientGot, clientSawClose, toClient, protocol,
                   drive, readerVars, handlerVars, outbox, writer>>

\* A Close frame is answered with a Close frame, unless one was sent before.
ClientReceives ==
    /\ clientUp
    /\ toClient # <<>>
    /\ toClient' = Tail(toClient)
    /\ IF Head(toClient).kind = "close"
       THEN /\ clientSawClose' = TRUE
            /\ clientClosing' = TRUE
            /\ toServer' = IF clientClosing THEN toServer ELSE Append(toServer, Close)
            /\ UNCHANGED clientGot
       ELSE /\ clientGot' = Head(toClient).n
            /\ UNCHANGED <<clientSawClose, clientClosing, toServer>>
    /\ UNCHANGED <<clientUp, clientSent, protocol, drive, readerVars, handlerVars, outbox,
                   writer>>

\* The connection breaks, or the client closes it; frames in flight may be lost.
ClientLeaves ==
    /\ clientUp
    /\ clientUp' = FALSE
    /\ \E n \in 0..Len(toServer) : toServer' = SubSeq(toServer, 1, n)
    /\ UNCHANGED <<clientClosing, clientSent, clientGot, clientSawClose, toClient,
                   protocol, drive, readerVars, handlerVars, outbox, writer>>

-----------------------------------------------------------------------------
(* drive_websocket *)

\* _native_create schedules _runner on the worker loop, before either loop exists.
CreateHandler ==
    /\ drive = "creating"
    /\ drive' = "spawning"
    /\ handler' = "scheduled"
    /\ UNCHANGED <<clientVars, wireVars, readerVars, receiveVars, closed, accepted, outbox,
                   writer>>

\* "Python handler launch failed": the stream is dropped.
LaunchFails ==
    /\ drive = "creating"
    /\ drive' = "failed"
    /\ clientUp' = FALSE
    /\ UNCHANGED <<clientClosing, clientSent, clientGot, clientSawClose, wireVars,
                   readerVars, handlerVars, outbox, writer>>

SpawnLoops ==
    /\ drive = "spawning"
    /\ drive' = "joining"
    /\ reader' = "reading"
    /\ writer' = "waiting"
    /\ UNCHANGED <<clientVars, wireVars, item, pushVars, handlerVars, outbox>>

\* tokio::join! returns and both halves of the stream are dropped.
Join ==
    /\ drive = "joining"
    /\ reader = "done" /\ writer = "done"
    /\ drive' = "finished"
    /\ clientUp' = FALSE
    /\ UNCHANGED <<clientClosing, clientSent, clientGot, clientSawClose, wireVars,
                   readerVars, handlerVars, outbox, writer>>

-----------------------------------------------------------------------------
(* The read loop *)

\* Tungstenite goes on delivering after the server's own Close frame.
Readable == protocol \in {"active", "closedByUs"}

ReadFrame ==
    /\ reader = "reading"
    /\ Readable
    /\ toServer # <<>>
    /\ toServer' = Tail(toServer)
    /\ reader' = "pushing"
    /\ IF Head(toServer).kind = "close"
       THEN /\ item' = Disconnect
            /\ protocol' = IF protocol = "active" THEN "closedByPeer" ELSE "acknowledged"
       ELSE /\ item' = Head(toServer)
            /\ UNCHANGED protocol
    /\ UNCHANGED <<clientVars, toClient, drive, pushVars, handlerVars, outbox, writer>>

\* source.next() is None or an error.
ReadEnds ==
    /\ reader = "reading"
    /\ toServer = <<>> /\ ~clientUp
    /\ reader' = "final"
    /\ UNCHANGED <<clientVars, wireVars, drive, item, pushVars, handlerVars, outbox,
                   writer>>

\* Fault: the frame is put before the ones already scheduled.
Schedule_Front(frame) ==
    scheduled' = [scheduled EXCEPT ![published] = <<frame>> \o @]

\* _native_push_frame: call_soon_threadsafe(queue.put_nowait, frame) on the loop that
\* _ensure_worker_loop returns now.
Schedule(frame) ==
    scheduled' = [scheduled EXCEPT ![published] = Append(@, frame)]

\* push_to_py_queue.  A Close breaks the loop.
PushFrame ==
    /\ reader = "pushing"
    /\ Schedule(item)
    /\ reader' = IF item = Disconnect THEN "final" ELSE "reading"
    /\ UNCHANGED <<clientVars, wireVars, drive, item, published, handlerVars, outbox, writer>>

\* Fault: the read loop ends without telling the handler.
PushFinal_Missing ==
    /\ reader = "final"
    /\ reader' = "done"
    /\ UNCHANGED <<clientVars, wireVars, drive, item, pushVars, handlerVars, outbox,
                   writer>>

\* After the loop a Disconnect is pushed, a second one if the loop ended on a Close.
PushFinal ==
    /\ reader = "final"
    /\ Schedule(Disconnect)
    /\ reader' = "done"
    /\ UNCHANGED <<clientVars, wireVars, drive, item, published, handlerVars, outbox, writer>>

-----------------------------------------------------------------------------
(* The worker loops, and the handler on its own *)

\* A second caller that raced for the first loop has its own loop running, and publishes it.
PublishSecond ==
    /\ drive # "creating"
    /\ published = "own"
    /\ published' = "other"
    /\ UNCHANGED <<clientVars, wireVars, drive, reader, item, scheduled, handlerVars, outbox,
                   writer>>

(***************************************************************************)
(* put_nowait, on the thread of loop l.  It completes the future of a      *)
(* waiting get(), which wakes the handler's loop only on its own thread:   *)
(* from another one the loop sleeps on until something else wakes it.      *)
(***************************************************************************)
RunCallback(l) ==
    /\ scheduled[l] # <<>>
    /\ queue' = Append(queue, Head(scheduled[l]))
    /\ scheduled' = [scheduled EXCEPT ![l] = Tail(@)]
    /\ unnoticed' = (/\ l = "other"
                     /\ unnoticed \/ (handler = "receiving" /\ queue = <<>>))
    /\ UNCHANGED <<clientVars, wireVars, drive, reader, item, published, handler, consumed,
                   got, disconnected, closed, accepted, outbox, writer>>

StartHandler ==
    /\ handler = "scheduled"
    /\ handler' = "running"
    /\ UNCHANGED <<clientVars, wireVars, drive, readerVars, receiveVars, closed, accepted,
                   outbox, writer>>

\* The receiving end of the channel is dropped when the write loop ends.
ChannelOpen == writer # "done"

\* send_text, send_bytes, send_json.  When closed, or without a channel, they raise.
SendMessage ==
    /\ handler = "running"
    /\ ~closed
    /\ ChannelOpen
    /\ accepted < MaxOut
    /\ accepted' = accepted + 1
    /\ outbox' = Append(outbox, Data(accepted'))
    /\ UNCHANGED <<clientVars, wireVars, drive, readerVars, receiveVars, handler, closed,
                   writer>>

\* receive_* awaits queue.get() ...
Receive ==
    /\ handler = "running"
    /\ handler' = "receiving"
    /\ UNCHANGED <<clientVars, wireVars, drive, readerVars, receiveVars, closed, accepted,
                   outbox, writer>>

(***************************************************************************)
(* ... and looks at what it got: a message is returned, or RuntimeError is *)
(* raised because it is not of the kind that was asked for (receive_json:  *)
(* ValueError because it is no JSON); the message is gone either way.      *)
(***************************************************************************)
NextFrame ==
    /\ handler = "receiving"
    /\ queue # <<>>
    /\ queue' = Tail(queue)
    /\ unnoticed' = FALSE
    /\ handler' = "running"
    /\ IF Head(queue) = Disconnect
       THEN /\ closed' = TRUE
            /\ disconnected' = TRUE
            /\ UNCHANGED <<consumed, got>>
       ELSE /\ consumed' = Head(queue).n
            /\ \/ got' = consumed'
               \/ UNCHANGED got
            /\ UNCHANGED <<closed, disconnected>>
    /\ UNCHANGED <<clientVars, wireVars, drive, readerVars, accepted, outbox, writer>>

\* Fault: the Close frame overtakes the messages queued before it.
CloseSocket_Front ==
    /\ closed' = TRUE
    /\ outbox' = IF ~closed /\ ChannelOpen THEN <<Close>> \o outbox ELSE outbox

\* NativeWebSocket.close
CloseSocket ==
    /\ closed' = TRUE
    /\ outbox' = IF ~closed /\ ChannelOpen THEN Append(outbox, Close) ELSE outbox

HandlerCloses ==
    /\ handler = "running"
    /\ CloseSocket
    /\ UNCHANGED <<clientVars, wireVars, drive, readerVars, receiveVars, handler, accepted,
                   writer>>

\* The handler returns or raises, and the finally of _runner closes.
HandlerEnds ==
    /\ handler = "running"
    /\ handler' = "ended"
    /\ CloseSocket
    /\ UNCHANGED <<clientVars, wireVars, drive, readerVars, receiveVars, accepted, writer>>

-----------------------------------------------------------------------------
(* The write loop *)

\* Fault: of two pending messages only the newer is sent.
WriteData_Coalesces ==
    /\ writer = "waiting"
    /\ outbox # <<>> /\ Head(outbox).kind = "data"
    /\ LET two == Len(outbox) > 1 /\ outbox[2].kind = "data" IN
       /\ outbox' = IF two THEN Tail(Tail(outbox)) ELSE Tail(outbox)
       /\ toClient' = Append(toClient, IF two THEN outbox[2] ELSE outbox[1])
    /\ UNCHANGED <<clientVars, toServer, protocol, drive, readerVars, handlerVars, writer>>

\* A send fails once a Close frame was exchanged, and may fail when the client is gone.
WriteData ==
    /\ writer = "waiting"
    /\ outbox # <<>> /\ Head(outbox).kind = "data"
    /\ outbox' = Tail(outbox)
    /\ \/ /\ protocol = "active"
          /\ toClient' = Append(toClient, Head(outbox))
          /\ UNCHANGED writer
       \/ /\ protocol # "active" \/ ~clientUp
          /\ writer' = "closing"
          /\ UNCHANGED toClient
    /\ UNCHANGED <<clientVars, toServer, protocol, drive, readerVars, handlerVars>>

\* Fault: the loop goes on after a Close frame.
WriteClose_NoBreak ==
    /\ writer = "waiting"
    /\ outbox # <<>> /\ Head(outbox).kind = "close"
    /\ outbox' = Tail(outbox)
    /\ IF protocol = "active"
       THEN toClient' = Append(toClient, Close) /\ protocol' = "closedByUs"
       ELSE UNCHANGED <<toClient, protocol>>
    /\ UNCHANGED <<clientVars, toServer, drive, readerVars, handlerVars, writer>>

\* A Close frame is sent, whatever the result, and the loop is left.
WriteClose ==
    /\ writer = "waiting"
    /\ outbox # <<>> /\ Head(outbox).kind = "close"
    /\ outbox' = Tail(outbox)
    /\ writer' = "closing"
    /\ IF protocol = "active"
       THEN toClient' = Append(toClient, Close) /\ protocol' = "closedByUs"
       ELSE UNCHANGED <<toClient, protocol>>
    /\ UNCHANGED <<clientVars, toServer, drive, readerVars, handlerVars>>

\* sink.close(): a Close frame goes out if none has, the channel is dropped.
CloseSink ==
    /\ writer = "closing"
    /\ writer' = "done"
    /\ outbox' = <<>>
    /\ CASE protocol = "active" ->
              toClient' = Append(toClient, Close) /\ protocol' = "closedByUs"
         [] protocol = "closedByPeer" ->
              toClient' = Append(toClient, Close) /\ protocol' = "acknowledged"
         [] OTHER -> UNCHANGED <<toClient, protocol>>
    /\ UNCHANGED <<clientVars, toServer, drive, readerVars, handlerVars>>

-----------------------------------------------------------------------------

ReadLoop == ReadFrame \/ ReadEnds \/ PushFrame \/ PushFinal

WriteLoop == WriteData \/ WriteClose \/ CloseSink

Drive == CreateHandler \/ LaunchFails \/ SpawnLoops \/ Join

Next ==
    \/ ClientSends \/ ClientCloses \/ ClientReceives \/ ClientLeaves
    \/ CreateHandler \/ LaunchFails \/ SpawnLoops \/ Join
    \/ ReadFrame \/ ReadEnds \/ PushFrame \/ PushFinal
    \/ PublishSecond \/ (\E l \in Loops : RunCallback(l))
    \/ StartHandler \/ SendMessage \/ Receive \/ NextFrame
    \/ HandlerCloses \/ HandlerEnds
    \/ WriteData \/ WriteClose \/ CloseSink

Spec == Init /\ [][Next]_vars

(***************************************************************************)
(* Fairness: tokio polls its tasks, a worker loop runs what is scheduled   *)
(* on it and resumes a handler when it notices that its frame is there,    *)
(* and the client reads its socket (and so answers a Close).  What the     *)
(* handler does, and whether the client sends or leaves, is nobody's duty. *)
(***************************************************************************)
Fairness ==
    /\ WF_vars(Drive) /\ WF_vars(ReadLoop) /\ WF_vars(WriteLoop)
    /\ \A l \in Loops : WF_vars(RunCallback(l))
    /\ WF_vars(StartHandler) /\ WF_vars(NextFrame /\ ~unnoticed)
    /\ WF_vars(ClientReceives)

FairSpec == Spec /\ Fairness

-----------------------------------------------------------------------------

\* Shape of the connection's state.
TypeOK ==
    /\ clientUp \in BOOLEAN /\ clientClosing \in BOOLEAN
    /\ clientSent \in 0..MaxIn /\ clientGot \in Nat /\ clientSawClose \in BOOLEAN
    /\ toServer \in Seq(Frames) /\ toClient \in Seq(Frames)
    /\ protocol \in {"active", "closedByUs", "closedByPeer", "acknowledged"}
    /\ drive \in {"creating", "spawning", "joining", "failed", "finished"}
    /\ reader \in {"absent", "reading", "pushing", "final", "done"}
    /\ item \in Frames
    /\ published \in Loops
    /\ scheduled \in [Loops -> Seq(Frames)]
    /\ queue \in Seq(Frames) /\ unnoticed \in BOOLEAN
    /\ handler \in {"absent", "scheduled", "running", "receiving", "ended"}
    /\ consumed \in Nat /\ got \in Nat /\ disconnected \in BOOLEAN /\ closed \in BOOLEAN
    /\ accepted \in 0..MaxOut
    /\ outbox \in Seq(Frames)
    /\ writer \in {"absent", "waiting", "closing", "done"}

(***************************************************************************)
(* To the handler, until a second worker loop is published (the frames of  *)
(* two loops have no order): each receive_* takes the client's next        *)
(* message, in its order and without gaps, over three queues and two       *)
(* runtimes; it returns that message, or raises and the message is lost;   *)
(* and nothing follows the WebSocketDisconnect.                            *)
(***************************************************************************)
Inbound == INSTANCE MessagePipe
               WITH sent <- clientSent, taken <- consumed, delivered <- got,
                    shut <- disconnected

InboundPipe == Inbound!Init /\ [][Inbound!Next \/ published' # "own"]_(Inbound!vars)

(***************************************************************************)
(* To the client: what it receives is what send_* took, in that order and  *)
(* without gaps, and nothing follows the Close frame.                      *)
(***************************************************************************)
Outbound == INSTANCE MessagePipe
                WITH sent <- accepted, taken <- clientGot, delivered <- clientGot,
                     shut <- clientSawClose

OutboundPipe == Outbound!Spec

(***************************************************************************)
(* After a Close frame nothing more is queued in the channel or put on the *)
(* wire, another Close included.                                           *)
(***************************************************************************)
CloseIsLast ==
    /\ \A i \in 1..Len(outbox) : outbox[i] = Close => i = Len(outbox)
    /\ \A i \in 1..Len(toClient) : toClient[i] = Close => i = Len(toClient)

(***************************************************************************)
(* A server that closes first is heard out: a client that gets a Close     *)
(* frame without having sent one has got every message send_* took.        *)
(***************************************************************************)
ServerCloseLosesNothing ==
    [][clientSawClose' /\ ~clientSawClose /\ ~clientClosing => clientGot = accepted]_vars

(***************************************************************************)
(* "Connection closed - let Python handler unblock on receive" (ws.rs): a  *)
(* handler waiting for a client that has closed or left gets a frame or a  *)
(* WebSocketDisconnect.  One thing keeps it from that: its frame was put   *)
(* into the queue by the thread of a second worker loop.                   *)
(***************************************************************************)
ReceiveUnblocks ==
    (handler = "receiving" /\ ~disconnected /\ (clientClosing \/ ~clientUp))
        ~> handler # "receiving" \/ unnoticed

BothLoopsDone == reader = "done" /\ writer = "done"

(***************************************************************************)
(* A connection that the server closes goes away: once a Close frame is in *)
(* the channel both loops end.                                             *)
(***************************************************************************)
ServerCloseEndsLoops ==
    (\E i \in 1..Len(outbox) : outbox[i] = Close) ~> BothLoopsDone

(***************************************************************************)
(* "When the handler returns or raises, both loops terminate." (ws.rs)     *)
(***************************************************************************)
HandlerEndEndsLoops == (handler = "ended") ~> BothLoopsDone
=============================================================================
