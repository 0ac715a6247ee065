-------------------------------- MODULE IocpPipe --------------------------------
(***************************************************************************)
(* kernel/net/iocp, the engine of the Windows build: one connection, dialled *)
(* or accepted, from its start to OnDisconnect, on a pipe that has not been *)
(* used before.  The main thread sends, closes and handles events; the     *)
(* worker takes completion packets from its port, receives, sends and      *)
(* ends the connection.  What is posted with PostQueuedCompletionStatus    *)
(* and what the system completes comes through the same port.              *)
(*                                                                         *)
(* Data comes in numbered chunks.  The event queue is the bounded FIFO     *)
(* that TQueue is shown to be.                                             *)
(***************************************************************************)
EXTENDS Naturals, Sequences, FiniteSets

CONSTANTS MaxOut,       \* bound: calls of Send
          MaxIn,        \* bound: chunks the peer sends
          QueueSize,    \* slots of m_oEventQueue, 40960
          SendSize      \* sNetSendSize, in chunks

ASSUME IocpAssumption == /\ MaxOut \in Nat /\ MaxIn \in Nat
                         /\ QueueSize \in Nat \ {0} /\ SendSize \in Nat \ {0}

VARIABLES
    status,     \* m_nStatus
    sock,       \* m_lSocketHandler: "none", "open", or "closed" and INVALID_SOCKET
    needPost,   \* m_bNeedPostOPT
    out,        \* m_oSendStream
    unseen,     \* chunks in m_oRecvStream that OnRecv has not been called with
    related,    \* the pair is in m_mapSocketClient
    port,       \* completion packets
    recvOp,     \* what the system does with m_pRecvEvent: "none", "connect", "recv"
    sendOp,     \* chunks the system sends with m_pSendEvent, 0 for none
    peer,       \* how the peer has ended: subset of {"fin", "rst"}
    inbox,      \* chunks that have arrived and are not received
    mpc,        \* where the main thread is
    wpc,        \* where the worker is
    post,       \* the event the worker adds
    queue,      \* m_oEventQueue
    sent, arrived, shown,       \* chunks sent, arrived, shown to OnRecv
    connects, breaks, closed    \* calls of OnConnected and OnDisconnect, Close called

pipe == <<status, sock, needPost, out, unseen>>
system == <<port, recvOp, sendOp>>
remote == <<peer, inbox, arrived>>
thread == <<related, wpc, post>>
session == <<shown, connects, breaks, closed>>
vars == <<pipe, system, remote, thread, mpc, queue, sent, session>>

Init == /\ status = "UNINITIALIZE" /\ sock = "none" /\ needPost = TRUE
        /\ out = <<>> /\ unseen = 0 /\ related = FALSE
        /\ port = <<>> /\ recvOp = "none" /\ sendOp = 0
        /\ peer = {} /\ inbox = 0
        /\ mpc = "start" /\ wpc = "wait" /\ post = "none" /\ queue = <<>>
        /\ sent = 0 /\ arrived = 0 /\ shown = 0
        /\ connects = 0 /\ breaks = 0 /\ closed = FALSE

\* A packet: its operation, whether its key is the connection's socket, the
\* chunks moved and the error code.  The system keeps the key of the socket;
\* Send posts with what m_lSocketHandler is.
Packet(opt, n, ok) == [opt |-> opt, key |-> "open", n |-> n, ok |-> ok]

------------------------------------------------------------------------------
(* Main thread: the start of a connection *)

\* iocper::AddClient and DoConnect.
AddClient ==
    /\ mpc = "start" /\ mpc' = "idle"
    /\ sock' = "open" /\ recvOp' = "connect"
    /\ UNCHANGED <<status, needPost, out, unseen, port, sendOp, remote, thread, queue, sent,
                   session>>

\* The address is none, or ConnectEx refuses at once: DoConnect closes the socket
\* and answers false, AddClient calls OnConnectFailed and recovers the pipe.
AddClientFails ==
    /\ mpc = "start" /\ mpc' = "idle"
    /\ UNCHANGED <<pipe, system, remote, thread, queue, sent, session>>

\* CompletedAccept, and IO_EVENT_TYPE_CONNECTED of Processing: the pipe is
\* established and handed to the worker before OnConnected is called.
Establish ==
    /\ status' = "ESTABLISHED" /\ mpc' = "connected" /\ sock' = "open"
    /\ port' = Append(port, Packet("ACCEPT", 0, TRUE))
    /\ UNCHANGED <<needPost, out, unseen, recvOp, sendOp, remote, thread, sent, session>>

CompletedAccept == mpc = "start" /\ Establish /\ UNCHANGED queue

OnConnected ==
    /\ mpc = "connected" /\ mpc' = "idle" /\ connects' = connects + 1
    /\ UNCHANGED <<pipe, system, remote, thread, queue, sent, shown, breaks, closed>>

------------------------------------------------------------------------------
(* Main thread: what the application calls *)

MayCall == mpc = "idle" /\ connects > breaks /\ ~closed

SendIn ==
    /\ MayCall /\ sent < MaxOut /\ mpc' = "send"
    /\ sent' = sent + 1 /\ out' = Append(out, sent + 1)
    /\ UNCHANGED <<status, sock, needPost, unseen, system, remote, thread, queue, session>>

PostsSend ==
    port' = Append(port, [opt |-> "SEND", key |-> sock, n |-> 0, ok |-> TRUE])

SendLeaves == UNCHANGED <<status, sock, out, unseen, recvOp, sendOp, remote, thread, queue,
                          sent, session>>

\* Mutant: an operation is posted whether one is under way or not.
SendPostsAlways == /\ mpc = "send" /\ mpc' = "idle" /\ needPost' = FALSE
                   /\ PostsSend /\ SendLeaves

\* Under the read lock: the worker is woken if it is not at the stream.
SendPosts == /\ mpc = "send" /\ mpc' = "idle" /\ needPost' = FALSE
             /\ IF needPost THEN PostsSend ELSE UNCHANGED port
             /\ SendLeaves

\* Pipe::Close: a connection with nothing on its way hears of it at its next
\* completion.
Close ==
    /\ MayCall /\ closed' = TRUE /\ status' = "WAITCLOSE"
    /\ UNCHANGED <<sock, needPost, out, unseen, system, remote, thread, mpc, queue, sent,
                   shown, connects, breaks>>

------------------------------------------------------------------------------
(* Main thread: Processing *)

Reads(type) == /\ mpc = "idle" /\ queue # <<>> /\ Head(queue) = type
               /\ queue' = Tail(queue)

EventLeaves == UNCHANGED <<sock, needPost, out, system, remote, thread, sent, connects, closed>>

\* OnRecv is called once and takes what there is.
ReadRecv ==
    /\ Reads("RECV")
    /\ shown' = shown + unseen /\ unseen' = 0
    /\ UNCHANGED <<status, mpc, breaks>> /\ EventLeaves

\* The pipe goes to the pool as it is.  The assertion of the status says that
\* there is one such event.
ReadBreak ==
    /\ Reads("BREAK")
    /\ status' = "UNINITIALIZE" /\ breaks' = breaks + 1
    /\ UNCHANGED <<unseen, mpc, shown>> /\ EventLeaves

ReadConnected == Reads("CONNECTED") /\ Establish

ReadConnectFailed ==
    /\ Reads("CONNECTFAILD") /\ status' = "UNINITIALIZE"
    /\ UNCHANGED <<unseen, mpc, shown, breaks>> /\ EventLeaves

MainStep == OnConnected \/ SendPosts \/ ReadRecv \/ ReadBreak \/ ReadConnected
            \/ ReadConnectFailed

------------------------------------------------------------------------------
(* Worker: Run *)

WorkerLeaves == UNCHANGED <<status, remote, mpc, sent, session>>

Takes(opt) == wpc = "wait" /\ port # <<>> /\ Head(port).opt = opt /\ port' = Tail(port)

\* CheckSocketClient: late packets of a connection that has ended are dropped.
Current == related /\ Head(port).key = "open"

Adds(type) == wpc' = "post" /\ post' = type

\* SendDisconnectEvent closes the socket; the event and the end of the
\* relation follow.
Disconnects == sock' = "closed" /\ Adds("BREAK")

TakeConnect ==
    /\ Takes("CONNECT")
    /\ Adds(IF Head(port).ok THEN "CONNECTED" ELSE "CONNECTFAILD")
    /\ UNCHANGED <<sock, needPost, out, unseen, recvOp, sendOp, related, queue>> /\ WorkerLeaves

TakeAccept ==
    /\ Takes("ACCEPT") /\ related' = TRUE
    /\ \/ status = "ESTABLISHED" /\ wpc' = "accepted" /\ UNCHANGED <<sock, post>>
       \/ status # "ESTABLISHED" /\ needPost /\ Disconnects
       \/ status # "ESTABLISHED" /\ ~needPost /\ UNCHANGED <<sock, wpc, post>>
    /\ UNCHANGED <<needPost, out, unseen, recvOp, sendOp, queue>> /\ WorkerLeaves

\* What WSARecv answers at once.
RecvRefused == "rst" \in peer

\* DoRecv answers true and posts a receive, answers true and leaves the end to
\* the send under way, or answers false.
DoRecv(then, else) ==
    \/ status = "ESTABLISHED" /\ ~RecvRefused /\ recvOp' = "recv" /\ then
    \/ status # "ESTABLISHED" /\ ~needPost /\ UNCHANGED recvOp /\ then
    \/ status = "ESTABLISHED" /\ RecvRefused /\ UNCHANGED recvOp /\ else
    \/ status # "ESTABLISHED" /\ needPost /\ UNCHANGED recvOp /\ else

Waits == wpc' = "wait" /\ UNCHANGED <<sock, post>>

\* After SO_ACCEPT the answer is ignored.
AcceptRecvs ==
    /\ wpc = "accepted" /\ DoRecv(Waits, Waits)
    /\ UNCHANGED <<needPost, out, unseen, port, sendOp, related, queue>> /\ WorkerLeaves

TakeRecv ==
    /\ Takes("RECV")
    /\ \/ Current /\ Head(port).n > 0
          /\ unseen' = unseen + Head(port).n /\ wpc' = "received" /\ UNCHANGED <<sock, post>>
       \/ Current /\ Head(port).n = 0 /\ Disconnects /\ UNCHANGED unseen
       \/ ~Current /\ UNCHANGED <<sock, wpc, post, unseen>>
    /\ UNCHANGED <<needPost, out, recvOp, sendOp, related, queue>> /\ WorkerLeaves

ReceivedLeaves == /\ UNCHANGED <<needPost, out, unseen, port, sendOp, related, queue>>
                  /\ WorkerLeaves

\* Mutant: received data is not reported.
ReceivedSilent == wpc = "received" /\ DoRecv(Waits, Disconnects) /\ ReceivedLeaves

\* Data is reported if the next receive is under way.
Received ==
    /\ wpc = "received" /\ DoRecv(Adds("RECV") /\ UNCHANGED sock, Disconnects)
    /\ ReceivedLeaves

Left == SubSeq(out, Head(port).n + 1, Len(out))
Piece == IF Len(Left) < SendSize THEN Len(Left) ELSE SendSize

\* Out, under the read lock: what has been sent leaves the stream; the rest is
\* sent, or the turn goes back to Send.  WSASend is given a pointer into the
\* stream, which a later Send may move or free before the system has taken the
\* bytes; only their number is followed here.
Out ==
    /\ out' = Left
    /\ \/ Left = <<>> /\ needPost' = TRUE /\ wpc' = "sent" /\ UNCHANGED <<sendOp, sock, post>>
       \/ Left # <<>> /\ "rst" \notin peer /\ sendOp' = Piece
          /\ UNCHANGED <<needPost, sock, wpc, post>>
       \/ Left # <<>> /\ "rst" \in peer /\ Disconnects /\ UNCHANGED <<needPost, sendOp>>

\* A send that has failed is not looked at.
TakeSend ==
    /\ Takes("SEND")
    /\ \/ Current /\ Head(port).ok /\ Out
       \/ ~(Current /\ Head(port).ok) /\ UNCHANGED <<sock, needPost, out, sendOp, wpc, post>>
    /\ UNCHANGED <<unseen, recvOp, related, queue>> /\ WorkerLeaves

SentLeaves == /\ UNCHANGED <<needPost, out, unseen, port, recvOp, sendOp, related, queue>>
              /\ WorkerLeaves

\* Mutant: Close is not looked at.
SentForgetsClose == wpc = "sent" /\ Waits /\ SentLeaves

\* The end of Out, after the lock: has the session closed?
Sent == /\ wpc = "sent"
        /\ IF status = "WAITCLOSE" THEN Disconnects ELSE Waits
        /\ SentLeaves

\* Mutant: the relation outlives the event.
PostKeepsRelation ==
    /\ wpc = "post" /\ Len(queue) < QueueSize /\ wpc' = "wait"
    /\ queue' = Append(queue, post) /\ post' = "none"
    /\ UNCHANGED <<sock, needPost, out, unseen, system, related>> /\ WorkerLeaves

\* Add waits for a free slot.
Post ==
    /\ wpc = "post" /\ Len(queue) < QueueSize /\ wpc' = "wait"
    /\ queue' = Append(queue, post) /\ post' = "none"
    /\ related' = (related /\ post # "BREAK")
    /\ UNCHANGED <<sock, needPost, out, unseen, system>> /\ WorkerLeaves

WorkerStep == TakeConnect \/ TakeAccept \/ AcceptRecvs \/ TakeRecv \/ Received \/ TakeSend
              \/ Sent \/ Post

------------------------------------------------------------------------------
(* The system and the peer *)

SystemLeaves == UNCHANGED <<pipe, peer, arrived, thread, mpc, queue, sent, session>>

ConnectCompletes ==
    /\ recvOp = "connect" /\ recvOp' = "none"
    /\ \E ok \in BOOLEAN : port' = Append(port, Packet("CONNECT", 0, ok))
    /\ UNCHANGED <<sendOp, inbox>> /\ SystemLeaves

\* A receive ends with data, with none at the peer's end, with an error when
\* the connection is reset or the socket closed.
RecvCompletes ==
    /\ recvOp = "recv" /\ recvOp' = "none"
    /\ \/ sock = "open" /\ "rst" \notin peer /\ inbox > 0
          /\ port' = Append(port, Packet("RECV", inbox, TRUE)) /\ inbox' = 0
       \/ sock = "open" /\ peer = {"fin"} /\ inbox = 0
          /\ port' = Append(port, Packet("RECV", 0, TRUE)) /\ UNCHANGED inbox
       \/ (sock = "closed" \/ "rst" \in peer)
          /\ port' = Append(port, Packet("RECV", 0, FALSE)) /\ UNCHANGED inbox
    /\ UNCHANGED sendOp /\ SystemLeaves

SendCompletes ==
    /\ sendOp > 0 /\ sendOp' = 0
    /\ LET ok == sock = "open" /\ "rst" \notin peer
       IN port' = Append(port, Packet("SEND", IF ok THEN sendOp ELSE 0, ok))
    /\ UNCHANGED <<recvOp, inbox>> /\ SystemLeaves

SystemStep == ConnectCompletes \/ RecvCompletes \/ SendCompletes

Connected == sock = "open" /\ recvOp # "connect" /\ status # "UNINITIALIZE"

PeerSends ==
    /\ Connected /\ peer = {} /\ arrived < MaxIn
    /\ arrived' = arrived + 1 /\ inbox' = inbox + 1
    /\ UNCHANGED <<pipe, system, peer, thread, mpc, queue, sent, session>>

PeerEnds(how) ==
    /\ Connected /\ how \notin peer /\ "rst" \notin peer
    /\ peer' = peer \cup {how}
    /\ UNCHANGED <<pipe, system, inbox, arrived, thread, mpc, queue, sent, session>>

Next == \/ AddClient \/ AddClientFails \/ CompletedAccept \/ SendIn \/ Close
        \/ MainStep \/ WorkerStep \/ SystemStep
        \/ PeerSends \/ \E how \in {"fin", "rst"} : PeerEnds(how)

Spec == Init /\ [][Next]_vars

\* Both threads run, callbacks return, and the system completes what it can.
FairSpec == Spec /\ WF_vars(MainStep) /\ WF_vars(WorkerStep) /\ WF_vars(SystemStep)

------------------------------------------------------------------------------
(* Properties *)

TypeOK ==
    /\ status \in {"UNINITIALIZE", "ESTABLISHED", "WAITCLOSE"}
    /\ sock \in {"none", "open", "closed"} /\ needPost \in BOOLEAN
    /\ out \in Seq(1 .. MaxOut) /\ unseen \in 0 .. MaxIn /\ related \in BOOLEAN
    /\ port \in Seq([opt : {"CONNECT", "ACCEPT", "RECV", "SEND"}, key : {"open", "closed"},
                     n : 0 .. MaxIn + MaxOut, ok : BOOLEAN])
    /\ recvOp \in {"none", "connect", "recv"} /\ sendOp \in 0 .. SendSize
    /\ peer \subseteq {"fin", "rst"} /\ inbox \in 0 .. MaxIn
    /\ mpc \in {"start", "connected", "idle", "send"}
    /\ wpc \in {"wait", "accepted", "received", "sent", "post"}
    /\ post \in {"none", "RECV", "BREAK", "CONNECTED", "CONNECTFAILD"}
    /\ queue \in Seq({"RECV", "BREAK", "CONNECTED", "CONNECTFAILD"})
    /\ Len(queue) <= QueueSize
    /\ connects \in 0 .. 1 /\ breaks \in 0 .. connects /\ closed \in BOOLEAN

\* m_pSendEvent is in one pair of hands, posted, with the system or back in the
\* port, exactly while m_bNeedPostOPT is down; and no chunk of a connection that
\* works waits without it (CPipe.cpp 83-93, 99-126).
Sends == Cardinality({k \in DOMAIN port : port[k].opt = "SEND"})
         + (IF sendOp > 0 THEN 1 ELSE 0)
SendTurn ==
    /\ Sends <= 1 /\ (needPost => Sends = 0)
    /\ sock = "open" /\ "rst" \notin peer =>
          /\ ~needPost => Sends = 1
          /\ out # <<>> => ~needPost \/ mpc = "send"

\* The session of the first connection of a pipe is told of its end once, after
\* OnConnected and after all that was received, unless it has closed or the
\* peer has reset the connection (iocpworker.cpp 36-77, 112-130, 193-217).
Session == INSTANCE SessionContract WITH
    peerSent <- arrived, peerEnded <- ("fin" \in peer),
    closed <- closed \/ "rst" \in peer,
    phase <- IF connects = 0 THEN "new"
             ELSE IF breaks = 0 THEN "connected"
             ELSE IF breaks = 1 THEN "disconnected" ELSE "twice"

KeepsSession == Session!Spec

\* The peer's end is reported, and so is a Close that finds something unsent,
\* whose last completion sees it (CPipe.cpp 66-80, 102-110).
EndIsReported ==
    /\ peer = {"fin"} /\ status = "ESTABLISHED" ~> breaks > 0 \/ closed \/ "rst" \in peer
    /\ closed /\ out # <<>> ~> breaks > 0 \/ "rst" \in peer
=============================================================================
