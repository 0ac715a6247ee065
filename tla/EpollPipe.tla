------------------------------- MODULE EpollPipe -------------------------------
(***************************************************************************)
(* One accepted connection of the epoll engine (kernel/net/epoll): the     *)
(* CPipe object shared by the main thread, which accepts it, delivers its  *)
(* events to the ITcpSession and sends and closes for the application, and *)
(* the epollWorker thread, which receives, sends what the socket would not *)
(* take and closes.                                                        *)
(*                                                                         *)
(* The worker's event queue is the bounded FIFO that TQueue implements;    *)
(* the receive and the send stream are byte sequences whose operations do  *)
(* not interfere.  Data comes in chunks.  Socket, epoll and peer are       *)
(* modelled from what the calls made here rely on.                         *)
(***************************************************************************)
EXTENDS Integers, Sequences

CONSTANTS SockCap,    \* chunks the socket's send buffer holds
          QueueSize,  \* slots of the event queue, 4096
          MaxOut,     \* bound: chunks the application sends
          MaxIn,      \* bound: chunks the peer sends
          MaxClose,   \* bound: calls of ITcpSession::Close
          Ends    \* how the peer may end: subset of {"fin", "rst"}

ASSUME BoundAssumption ==
    /\ SockCap \in Nat \ {0} /\ QueueSize \in Nat \ {0}
    /\ MaxOut \in Nat /\ MaxIn \in Nat /\ MaxClose \in Nat
    /\ Ends \subseteq {"fin", "rst"}

VARIABLES
    (* the CPipe *)
    status,     \* m_nStatus
    handler,    \* m_lSocketHandler # -1
    needSend,   \* m_bNeedSend: the next Send may use the socket itself
    sendLock,   \* holder of the read lock of m_oSendStream
    out,        \* m_oSendStream
    stream,     \* chunks in m_oRecvStream
    (* its socket and epoll entry *)
    wire,       \* chunks the socket has taken, in that order
    unread,     \* of those, the ones the peer has not read
    inbox,      \* chunks received by the kernel
    peer, sockErr,        \* the peer's end; an error not yet reported
    mask, mode, armed,    \* registered events, trigger, ready for epoll_wait
    (* between the threads *)
    queue,      \* m_oEventQueue
    (* main thread *)
    mpc, caller,     \* where it is; what called Send or Close
    event, nLeft,    \* the event it processes; the size OnRecv is called with
    mSent,           \* nSendLen of Send
    (* worker thread *)
    wpc, events,     \* where it is; events[i].events
    eventType,       \* result of the handlers, to be queued
    received,        \* nRecvSize > 0
    wSent,           \* nSendLen of DoSend
    (* history *)
    sent, arrived,   \* chunks passed to Send; chunks the peer has sent
    unseen,          \* chunks in stream that OnRecv has not been called with
    connects, breaks, closes,  \* calls of OnConnected, OnDisconnect and Close
    halted           \* what ended the process: a failed assertion, a signal

pipe == <<status, handler, needSend, sendLock, out, stream>>
sock == <<wire, unread, inbox, peer, sockErr>>
poll == <<mask, mode, armed>>
main == <<mpc, caller, event, nLeft, mSent>>
work == <<wpc, events, eventType, received, wSent>>
hist == <<sent, arrived, unseen, connects, breaks, closes, halted>>
vars == <<pipe, sock, poll, queue, main, work, hist>>

Running == halted = "no"

Init == /\ status = "UNINITIALIZE" /\ handler = FALSE /\ needSend = TRUE
        /\ sendLock = "none" /\ out = <<>> /\ stream = 0
        /\ wire = <<>> /\ unread = 0 /\ inbox = 0
        /\ peer = "open" /\ sockErr = FALSE
        /\ mask = {} /\ mode = "off" /\ armed = FALSE
        /\ queue = <<>>
        /\ mpc = "accept" /\ caller = "none" /\ event = "none"
        /\ nLeft = 0 /\ mSent = 0
        /\ wpc = "wait" /\ events = {} /\ eventType = "none"
        /\ received = FALSE /\ wSent = 0
        /\ sent = 0 /\ arrived = 0 /\ unseen = 0
        /\ connects = 0 /\ breaks = 0 /\ closes = 0
        /\ halted = "no"

------------------------------------------------------------------------------
(* The socket and its epoll entry *)

Room == SockCap - unread

\* What a poll of the socket finds; "HUP" stands for the three conditions
\* EPOLLERR, EPOLLHUP and EPOLLRDHUP.
Ready == (IF inbox > 0 \/ peer # "open" THEN {"IN"} ELSE {})
         \cup (IF Room > 0 \/ peer = "rst" THEN {"OUT"} ELSE {})
         \cup (IF peer = "rst" THEN {"HUP"} ELSE {})
         \cup (IF peer = "fin" /\ "RDHUP" \in mask THEN {"HUP"} ELSE {})

Reported == IF mode = "off" THEN {} ELSE Ready \cap (mask \cup {"HUP"})

\* The socket signals something: epoll_wait will look at it.
Signal(what) ==
    armed' = \/ armed
             \/ mode # "off" /\ what \cap (mask \cup {"HUP"}) # {}

\* epoll_ctl with EPOLL_CTL_ADD or EPOLL_CTL_MOD polls the socket at once.
Register(m, trigger) ==
    /\ mask' = m /\ mode' = trigger
    /\ armed' = \/ armed \/ Ready \cap m # {} \/ peer = "rst"
                \/ peer = "fin" /\ "RDHUP" \in m

PeerSends ==
    /\ Running /\ peer = "open" /\ arrived < MaxIn
    /\ arrived' = arrived + 1 /\ inbox' = inbox + 1
    /\ Signal({"IN"})
    /\ UNCHANGED <<pipe, wire, unread, peer, sockErr, mask, mode, queue, main, work,
                   sent, unseen, connects, breaks, closes, halted>>

\* Room in a full send buffer is signalled.
PeerReads ==
    /\ Running /\ unread > 0 /\ peer # "rst"
    /\ unread' = unread - 1
    /\ IF Room = 0 THEN Signal({"OUT"}) ELSE UNCHANGED armed
    /\ UNCHANGED <<pipe, wire, inbox, peer, sockErr, mask, mode, queue, main, work, hist>>

PeerEnd(how) ==
    /\ Running /\ peer = "open" /\ how \in Ends
    /\ peer' = how
    /\ sockErr' = (how = "rst")
    /\ Signal({"HUP"})
    /\ UNCHANGED <<pipe, wire, unread, inbox, mask, mode, queue, main, work, hist>>

------------------------------------------------------------------------------
(* Main thread: SPipe::DoAccept *)

MGoto(from, to) == Running /\ mpc = from /\ mpc' = to

\* The pipe is set up and registered with the worker's epoll.
Accept ==
    /\ MGoto("accept", "accepted")
    /\ status' = "ESTABLISHED" /\ handler' = TRUE
    /\ Register({"IN", "OUT"}, "ET")
    /\ UNCHANGED <<needSend, sendLock, out, stream, sock, queue, caller, event, nLeft,
                   mSent, work, hist>>

\* The status is set again, although the worker may already have closed.
AcceptSetStatus ==
    /\ MGoto("accepted", "onconnected")
    /\ status' = "ESTABLISHED"
    /\ connects' = connects + 1
    /\ UNCHANGED <<handler, needSend, sendLock, out, stream, sock, poll, queue, caller,
                   event, nLeft, mSent, work, sent, arrived, unseen, breaks, closes,
                   halted>>

OnConnectedReturns ==
    /\ MGoto("onconnected", "loop")
    /\ UNCHANGED <<pipe, sock, poll, queue, caller, event, nLeft, mSent, work, hist>>

------------------------------------------------------------------------------
(* Main thread: what the application calls *)

\* The application runs in OnConnected, in OnRecv and in timers.
ApplicationRuns == mpc \in {"onconnected", "loop", "onrecv"}

\* It does not send any more once it has closed.
CallSend ==
    /\ Running /\ ApplicationRuns /\ sent < MaxOut /\ closes = 0
    /\ IF status # "ESTABLISHED"
       THEN halted' = "CPipe.cpp:52" /\ UNCHANGED <<out, sent, mpc, caller>>
       ELSE /\ sent' = sent + 1
            /\ out' = Append(out, sent + 1)
            /\ mpc' = "send" /\ caller' = mpc
            /\ UNCHANGED halted
    /\ UNCHANGED <<status, handler, needSend, sendLock, stream, sock, poll, queue,
                   event, nLeft, mSent, work, arrived, unseen, connects, breaks, closes>>

Return == mpc' = caller /\ caller' = "none"

SendLocks ==
    /\ Running /\ mpc = "send" /\ sendLock = "none"
    /\ IF needSend
       THEN sendLock' = "main" /\ mpc' = "sending" /\ UNCHANGED caller
       ELSE Return /\ UNCHANGED sendLock
    /\ UNCHANGED <<status, handler, needSend, out, stream, sock, poll, queue, event,
                   nLeft, mSent, work, hist>>

\* The outcomes of send(2): some chunks are taken, EAGAIN, an error, SIGPIPE.
TakesChunks(n) ==
    /\ handler /\ peer # "rst" /\ Room > 0
    /\ n = IF Room < Len(out) THEN Room ELSE Len(out)
    /\ wire' = wire \o SubSeq(out, 1, n)
    /\ unread' = unread + n
    /\ UNCHANGED <<inbox, peer, sockErr>>
WouldBlock == handler /\ peer # "rst" /\ Room = 0
Fails == \/ ~handler /\ UNCHANGED sockErr
         \/ handler /\ peer = "rst" /\ sockErr /\ sockErr' = FALSE
KillsBySignal == handler /\ peer = "rst" /\ ~sockErr

\* The stream is shortened by what the call has taken, still under the lock.
Shortened(n) == out' = SubSeq(out, n + 1, Len(out))

SendTakes ==
    /\ MGoto("sending", "taken") /\ out # <<>>
    /\ \E n \in 1 .. SockCap : TakesChunks(n) /\ mSent' = n
    /\ UNCHANGED <<pipe, poll, queue, caller, event, nLeft, work, hist>>

SendShortens ==
    /\ MGoto("taken", "sending")
    /\ Shortened(mSent) /\ mSent' = 0
    /\ UNCHANGED <<status, handler, needSend, sendLock, stream, sock, poll, queue, caller,
                   event, nLeft, work, hist>>

\* The rest is left to the worker.
SendBlocks ==
    /\ Running /\ mpc = "sending" /\ out # <<>> /\ WouldBlock
    /\ needSend' = FALSE
    /\ sendLock' = "none" /\ Return
    /\ UNCHANGED <<status, handler, out, stream, sock, poll, queue, event, nLeft, mSent,
                   work, hist>>

SendFails ==
    /\ MGoto("sending", "posterr") /\ out # <<>> /\ Fails
    /\ sendLock' = "none"
    /\ UNCHANGED <<status, handler, needSend, out, stream, wire, unread, inbox, peer, poll,
                   queue, caller, event, nLeft, mSent, work, hist>>

SendKilled ==
    /\ Running /\ mpc = "sending" /\ out # <<>> /\ KillsBySignal
    /\ halted' = "SIGPIPE"
    /\ UNCHANGED <<pipe, sock, poll, queue, main, work, sent, arrived, unseen, connects,
                   breaks, closes>>

\* Also when the worker has drained the stream before SendLocks.
SendDrained ==
    /\ Running /\ mpc = "sending" /\ out = <<>>
    /\ IF status = "WAITCLOSE"
       THEN mpc' = "posterr" /\ UNCHANGED <<caller, needSend>>
       ELSE Return /\ needSend' = TRUE
    /\ sendLock' = "none"
    /\ UNCHANGED <<status, handler, out, stream, sock, poll, queue, event, nLeft, mSent,
                   work, hist>>

\* PostOPTInEpollQueue asserts that epoll_ctl finds the socket.
PostOPT(m, trigger) ==
    IF handler THEN Register(m, trigger) /\ UNCHANGED halted
               ELSE halted' = "CPipe.cpp:39" /\ UNCHANGED poll

SendPostsError ==
    /\ Running /\ mpc = "posterr" /\ Return
    /\ PostOPT({"RDHUP"}, "LT")
    /\ UNCHANGED <<pipe, sock, queue, event, nLeft, mSent, work, sent, arrived, unseen,
                   connects, breaks, closes>>

CallClose ==
    /\ Running /\ ApplicationRuns /\ closes < MaxClose
    /\ closes' = closes + 1
    /\ status' = "WAITCLOSE"
    /\ mpc' = "close" /\ caller' = mpc
    /\ UNCHANGED <<handler, needSend, sendLock, out, stream, sock, poll, queue, event,
                   nLeft, mSent, work, sent, arrived, unseen, connects, breaks, halted>>

\* Mutant: Close leaves everything to the worker.
ClosePostsNever ==
    /\ Running /\ mpc = "close" /\ sendLock = "none" /\ Return
    /\ UNCHANGED <<pipe, sock, poll, queue, event, nLeft, mSent, work, hist>>

\* LockRead, PostOPTInEpollQueue when the stream has been sent, FreeRead.
ClosePosts ==
    /\ Running /\ mpc = "close" /\ sendLock = "none" /\ Return
    /\ IF needSend THEN PostOPT({"OUT"}, "ONESHOT") ELSE UNCHANGED <<poll, halted>>
    /\ UNCHANGED <<pipe, sock, queue, event, nLeft, mSent, work, sent, arrived, unseen,
                   connects, breaks, closes>>

------------------------------------------------------------------------------
(* Main thread: epollWorker::Processing *)

ReadEvent ==
    /\ MGoto("loop", "size") /\ queue # <<>>
    /\ event' = Head(queue) /\ queue' = Tail(queue)
    /\ UNCHANGED <<pipe, sock, poll, caller, nLeft, mSent, work, hist>>

\* Mutant: a BREAK event is reported at once.
TakeSizeUnlessBreak ==
    /\ Running /\ mpc = "size"
    /\ IF stream > 0 /\ event # "BREAK"
       THEN mpc' = "onrecv" /\ nLeft' = stream /\ unseen' = 0
       ELSE mpc' = "shown" /\ UNCHANGED <<nLeft, unseen>>
    /\ UNCHANGED <<pipe, sock, poll, queue, caller, event, mSent, work, sent, arrived,
                   connects, breaks, closes, halted>>

TakeSize ==
    /\ Running /\ mpc = "size"
    /\ IF stream > 0
       THEN mpc' = "onrecv" /\ nLeft' = stream /\ unseen' = 0
       ELSE mpc' = "shown" /\ UNCHANGED <<nLeft, unseen>>
    /\ UNCHANGED <<pipe, sock, poll, queue, caller, event, mSent, work, sent, arrived,
                   connects, breaks, closes, halted>>

\* OnRecv is called again until it uses nothing.
OnRecvReturns ==
    /\ Running /\ mpc = "onrecv"
    /\ \E nUse \in 0 .. nLeft :
          /\ stream' = stream - nUse
          /\ mpc' = IF nUse = 0 THEN "shown" ELSE "size"
    /\ nLeft' = 0
    /\ UNCHANGED <<status, handler, needSend, sendLock, out, sock, poll, queue, caller,
                   event, mSent, work, hist>>

EventDone ==
    /\ MGoto("shown", "loop")
    /\ breaks' = IF event = "BREAK" THEN breaks + 1 ELSE breaks
    /\ event' = "none"
    /\ UNCHANGED <<pipe, sock, poll, queue, caller, nLeft, mSent, work, sent, arrived,
                   unseen, connects, closes, halted>>

MainStep == \/ Accept \/ AcceptSetStatus \/ OnConnectedReturns
            \/ SendLocks \/ SendTakes \/ SendShortens \/ SendBlocks \/ SendFails
            \/ SendKilled \/ SendDrained \/ SendPostsError \/ ClosePosts
            \/ ReadEvent \/ TakeSize \/ OnRecvReturns \/ EventDone

------------------------------------------------------------------------------
(* Worker thread: epollWorker::Run *)

WGoto(from, to) == Running /\ wpc = from /\ wpc' = to

EpollWait ==
    /\ WGoto("wait", "in") /\ armed /\ Reported # {}
    /\ events' = Reported
    /\ eventType' = "none" /\ received' = FALSE
    /\ armed' = (mode = "LT")
    /\ IF mode = "ONESHOT" THEN mask' = {} /\ mode' = "off" ELSE UNCHANGED <<mask, mode>>
    /\ UNCHANGED <<pipe, sock, queue, main, wSent, hist>>

InStage ==
    /\ Running /\ wpc = "in"
    /\ wpc' = IF "IN" \in events /\ status = "ESTABLISHED" THEN "recv" ELSE "out"
    /\ UNCHANGED <<pipe, sock, poll, queue, main, events, eventType, received, wSent, hist>>

RecvTakes ==
    /\ WGoto("recv", "recv") /\ inbox > 0
    /\ inbox' = inbox - 1 /\ stream' = stream + 1 /\ unseen' = unseen + 1
    /\ received' = TRUE
    /\ UNCHANGED <<status, handler, needSend, sendLock, out, wire, unread, peer, sockErr,
                   poll, queue, main, events, eventType, wSent, sent, arrived, connects,
                   breaks, closes, halted>>

RecvBlocks ==
    /\ WGoto("recv", "out") /\ inbox = 0 /\ peer = "open"
    /\ eventType' = IF received THEN "RECV" ELSE "none"
    /\ UNCHANGED <<pipe, sock, poll, queue, main, events, received, wSent, hist>>

\* Mutant: the end of the connection is taken for the end of the data.
RecvEndsUnreported ==
    /\ WGoto("recv", "recvclose") /\ inbox = 0 /\ peer # "open"
    /\ eventType' = IF received THEN "RECV" ELSE "none"
    /\ sockErr' = FALSE
    /\ UNCHANGED <<pipe, wire, unread, inbox, peer, poll, queue, main, events, received,
                   wSent, hist>>

\* recv(2) returns 0 or an error.
RecvEnds ==
    /\ WGoto("recv", "recvclose") /\ inbox = 0 /\ peer # "open"
    /\ eventType' = "BREAK" /\ sockErr' = FALSE
    /\ UNCHANGED <<pipe, wire, unread, inbox, peer, poll, queue, main, events, received,
                   wSent, hist>>

\* DoClose: the status first, then epoll_ctl DEL and close.
DoCloseStatus(from, to) ==
    /\ WGoto(from, to)
    /\ IF status # "UNINITIALIZE" /\ handler
       THEN status' = "UNINITIALIZE" /\ UNCHANGED halted
       ELSE halted' = "CPipe.cpp:92" /\ UNCHANGED status
    /\ UNCHANGED <<handler, needSend, sendLock, out, stream, sock, poll, queue, main,
                   events, eventType, received, wSent, sent, arrived, unseen, connects,
                   breaks, closes>>

DoCloseSocket(from, to) ==
    /\ WGoto(from, to)
    /\ handler' = FALSE
    /\ mask' = {} /\ mode' = "off" /\ armed' = FALSE
    /\ UNCHANGED <<status, needSend, sendLock, out, stream, sock, queue, main, events,
                   eventType, received, wSent, hist>>

DoClose == \/ DoCloseStatus("recvclose", "recvclosed") \/ DoCloseSocket("recvclosed", "out")
           \/ DoCloseStatus("hupclose", "hupclosed") \/ DoCloseSocket("hupclosed", "post")

OutStage ==
    /\ Running /\ wpc = "out"
    /\ wpc' = IF "OUT" \in events /\ status # "UNINITIALIZE" THEN "drain" ELSE "hup"
    /\ UNCHANGED <<pipe, sock, poll, queue, main, events, eventType, received, wSent, hist>>

\* Mutant: the stream is read without LockRead.
DrainTakesUnlocked ==
    /\ WGoto("drain", "taken") /\ out # <<>>
    /\ \E n \in 1 .. SockCap : TakesChunks(n) /\ wSent' = n
    /\ UNCHANGED <<pipe, poll, queue, main, events, eventType, received, hist>>

\* One turn of DoSend's loop, under the lock.
DrainTakes ==
    /\ WGoto("drain", "taken") /\ out # <<>> /\ sendLock = "none"
    /\ sendLock' = "worker"
    /\ \E n \in 1 .. SockCap : TakesChunks(n) /\ wSent' = n
    /\ UNCHANGED <<status, handler, needSend, out, stream, poll, queue, main, events,
                   eventType, received, hist>>

DrainShortens ==
    /\ WGoto("taken", "drain")
    /\ Shortened(wSent) /\ wSent' = 0
    /\ sendLock' = "none"
    /\ UNCHANGED <<status, handler, needSend, stream, sock, poll, queue, main, events,
                   eventType, received, hist>>

DrainBlocks ==
    /\ WGoto("drain", "hup") /\ out # <<>> /\ sendLock = "none" /\ WouldBlock
    /\ UNCHANGED <<pipe, sock, poll, queue, main, events, eventType, received, wSent, hist>>

DrainFails ==
    /\ WGoto("drain", "hup") /\ out # <<>> /\ sendLock = "none" /\ Fails
    /\ eventType' = "BREAK"
    /\ UNCHANGED <<pipe, wire, unread, inbox, peer, poll, queue, main, events, received,
                   wSent, hist>>

DrainKilled ==
    /\ Running /\ wpc = "drain" /\ out # <<>> /\ sendLock = "none" /\ KillsBySignal
    /\ halted' = "SIGPIPE"
    /\ UNCHANGED <<pipe, sock, poll, queue, main, work, sent, arrived, unseen, connects,
                   breaks, closes>>

DrainLeaves == UNCHANGED <<status, handler, sendLock, out, stream, sock, poll, queue, main,
                           events, received, wSent, hist>>

\* Mutant: the turn is not given back to Send.
DrainEmptyForgets ==
    /\ WGoto("drain", "hup") /\ out = <<>> /\ sendLock = "none"
    /\ eventType' = IF status = "WAITCLOSE" THEN "BREAK" ELSE eventType
    /\ UNCHANGED needSend
    /\ DrainLeaves

\* Mutant: DoSend's COUNT replaces the result of DoRecv.
DrainEmptyReplaces ==
    /\ WGoto("drain", "hup") /\ out = <<>> /\ sendLock = "none"
    /\ IF status = "WAITCLOSE"
       THEN eventType' = "BREAK" /\ UNCHANGED needSend
       ELSE needSend' = TRUE /\ eventType' = "none"
    /\ DrainLeaves

\* Mutant: the status is tested before the stream.
DrainEmptyHasty ==
    /\ WGoto("drain", "hup") /\ sendLock = "none"
    /\ IF status = "WAITCLOSE"
       THEN eventType' = "BREAK" /\ UNCHANGED needSend
       ELSE out = <<>> /\ needSend' = TRUE /\ UNCHANGED eventType
    /\ DrainLeaves

\* All is sent: the pipe is being closed, or the next Send has the turn.
DrainEmpty ==
    /\ WGoto("drain", "hup") /\ out = <<>> /\ sendLock = "none"
    /\ IF status = "WAITCLOSE"
       THEN eventType' = "BREAK" /\ UNCHANGED needSend
       ELSE needSend' = TRUE /\ UNCHANGED eventType
    /\ DrainLeaves

HupStage ==
    /\ Running /\ wpc = "hup"
    /\ wpc' = IF "HUP" \in events /\ status # "UNINITIALIZE" THEN "hupclose" ELSE "post"
    /\ UNCHANGED <<pipe, sock, poll, queue, main, events, eventType, received, wSent, hist>>

\* Mutant: the queue is taken to be unbounded.
PostUnbounded ==
    /\ WGoto("post", "wait")
    /\ queue' = IF eventType = "none" THEN queue ELSE Append(queue, eventType)
    /\ UNCHANGED <<pipe, sock, poll, main, events, eventType, received, wSent, hist>>

\* TQueue::Add waits for room.
Post ==
    /\ WGoto("post", "wait")
    /\ IF eventType = "none"
       THEN UNCHANGED queue
       ELSE Len(queue) < QueueSize /\ queue' = Append(queue, eventType)
    /\ UNCHANGED <<pipe, sock, poll, main, events, eventType, received, wSent, hist>>

WorkerStep == \/ EpollWait \/ InStage \/ RecvTakes \/ RecvBlocks \/ RecvEnds \/ DoClose
              \/ OutStage \/ DrainTakes \/ DrainShortens \/ DrainBlocks \/ DrainFails
              \/ DrainKilled \/ DrainEmpty \/ HupStage \/ Post

Next == \/ MainStep \/ WorkerStep \/ CallSend \/ CallClose
        \/ PeerSends \/ PeerReads \/ \E how \in Ends : PeerEnd(how)

Spec == Init /\ [][Next]_vars

\* Both threads run, callbacks return, and the peer reads what it is sent.
FairSpec == /\ Spec
            /\ WF_vars(MainStep) /\ WF_vars(WorkerStep) /\ WF_vars(PeerReads)

------------------------------------------------------------------------------
(* Properties *)

TypeOK ==
    /\ status \in {"UNINITIALIZE", "ESTABLISHED", "WAITCLOSE"}
    /\ handler \in BOOLEAN /\ needSend \in BOOLEAN
    /\ sendLock \in {"none", "main", "worker"}
    /\ out \in Seq(1 .. MaxOut) /\ wire \in Seq(1 .. MaxOut)
    /\ stream \in 0 .. MaxIn /\ inbox \in 0 .. MaxIn /\ unseen \in 0 .. stream
    /\ unread \in 0 .. SockCap
    /\ peer \in {"open"} \cup Ends /\ sockErr \in BOOLEAN
    /\ mask \subseteq {"IN", "OUT", "RDHUP"}
    /\ mode \in {"off", "ET", "LT", "ONESHOT"} /\ armed \in BOOLEAN
    /\ queue \in Seq({"RECV", "BREAK"}) /\ Len(queue) <= QueueSize
    /\ mpc \in {"accept", "accepted", "onconnected", "loop", "send", "sending", "taken",
                "posterr", "close", "size", "onrecv", "shown"}
    /\ caller \in {"none", "onconnected", "loop", "onrecv"}
    /\ event \in {"none", "RECV", "BREAK"}
    /\ nLeft \in 0 .. MaxIn /\ mSent \in 0 .. SockCap /\ wSent \in 0 .. SockCap
    /\ wpc \in {"wait", "in", "recv", "recvclose", "recvclosed", "out", "drain", "taken",
                "hup", "hupclose", "hupclosed", "post"}
    /\ events \subseteq {"IN", "OUT", "HUP"}
    /\ eventType \in {"none", "RECV", "BREAK"} /\ received \in BOOLEAN
    /\ sent \in 0 .. MaxOut /\ arrived \in 0 .. MaxIn
    /\ connects \in 0 .. 1 /\ breaks \in Nat /\ closes \in 0 .. MaxClose
    /\ halted \in {"no", "CPipe.cpp:39", "CPipe.cpp:52", "CPipe.cpp:92", "SIGPIPE"}

\* Two threads take chunks from the send stream, and yet the socket gets them
\* all, once and in the order of the calls of Send (CPipe.cpp 57-75, 153-167).
StreamInOrder ==
    wire \o SubSeq(out, mSent + wSent + 1, Len(out)) = [i \in 1 .. sent |-> i]

WorkerWillDrain ==
    \/ wpc \in {"in", "recv", "out"} /\ "OUT" \in events
    \/ wpc \in {"drain", "taken"}

\* The hand-off of m_bNeedSend loses no chunk: when neither thread is at the
\* send stream and it is not empty, epoll will wake the worker to send it
\* (CPipe.cpp 66-67, 171-172).
StreamIsWatched ==
    /\ out # <<>> /\ peer = "open"
    /\ mpc \notin {"send", "sending", "taken"} /\ ~WorkerWillDrain
    => "OUT" \in mask /\ mode # "off" /\ (Room = 0 \/ armed)

\* No data lies unnoticed in the receive stream: an event is queued, is being
\* queued, or the main thread is about to look (epollWorker.cpp 20-36, 95-115).
ReceiptAnnounced ==
    unseen > 0 => queue # <<>> \/ mpc = "size" \/ (wpc # "wait" /\ received)

\* Close lets the chunks sent before it go out first (CPipe.cpp 155-170).
CloseFlushes == closes > 0 /\ breaks > 0 /\ peer = "open" => out = <<>>

\* The session is told of its connection's end once, never before OnConnected
\* and, unless it has called Close itself, after all that the peer has sent
\* (epollWorker.cpp 20-40).  After a Close it may be told again: DisconnectsOnce.
Session == INSTANCE SessionContract WITH
    peerSent <- arrived, peerEnded <- (peer # "open"), closed <- (closes > 0),
    shown <- arrived - inbox - unseen,
    phase <- IF connects = 0 THEN "new"
             ELSE IF breaks = 0 THEN "connected"
             ELSE IF breaks = 1 \/ closes > 0 THEN "disconnected" ELSE "twice"

KeepsSession == Session!Spec

\* What is sent leaves, although Send gives up at a full socket buffer and the
\* peer is slow: the worker goes on, unless the peer ends
\* (CPipe.cpp 66-69, 151-176).
SentChunksLeave == out # <<>> ~> out = <<>> \/ peer # "open"

\* A closed connection is reported to its session, also when Close finds the
\* worker sending (CPipe.cpp 42-49, 168-170).
CloseIsReported == closes > 0 ~> breaks > 0 \/ ~Running

\* Received data is shown to OnRecv, although epoll is edge triggered and the
\* event queue small, unless the session closes (epollWorker.cpp 20-36, 95-115).
DataIsShown == inbox + unseen > 0 ~> inbox + unseen = 0 \/ closes > 0 \/ ~Running

\* The peer's end of a connection is reported to the session
\* (CPipe.cpp 116-119, epollWorker.cpp 38-40).
FinIsReported == peer = "fin" ~> breaks > 0 \/ ~Running

\* ClientConnectSink.h 72: OnDisconnect finds the session connected, that is,
\* it is called once.
DisconnectsOnce == breaks <= connects

\* CPipe.cpp 52: Send is called on an established pipe only.
SendsEstablished == halted # "CPipe.cpp:52"

\* CPipe.cpp 92: the worker closes a pipe only once.
ClosesOpenSocket == halted # "CPipe.cpp:92"
=============================================================================
