---------------------------- MODULE EpollPipeProofs ----------------------------
(***************************************************************************)
(* Proofs about EpollPipe, for any number of chunks and closes and any     *)
(* sizes of socket buffer and event queue: types, what becomes of chunks   *)
(* sent and received, the hand-off between the two threads, and what epoll *)
(* is still watching for when neither thread is at work.                   *)
(***************************************************************************)
EXTENDS EpollPipe, SequenceTheorems, TLAPS

(***************************************************************************)
(* Types.  TypeOK rests on the books of received chunks and on which       *)
(* thread is at the send stream.                                           *)
(***************************************************************************)
\* The parts.
PipeOK == /\ status \in {"UNINITIALIZE", "ESTABLISHED", "WAITCLOSE"}
          /\ handler \in BOOLEAN /\ needSend \in BOOLEAN
          /\ sendLock \in {"none", "main", "worker"}
          /\ out \in Seq(1 .. MaxOut) /\ stream \in 0 .. MaxIn /\ unseen \in 0 .. stream
SocketOK == /\ wire \in Seq(1 .. MaxOut) /\ unread \in 0 .. SockCap /\ inbox \in 0 .. MaxIn
            /\ peer \in {"open"} \cup Ends /\ sockErr \in BOOLEAN
EntryOK == /\ mask \subseteq {"IN", "OUT", "RDHUP"}
           /\ mode \in {"off", "ET", "LT", "ONESHOT"} /\ armed \in BOOLEAN
QueueOK == queue \in Seq({"RECV", "BREAK"}) /\ Len(queue) <= QueueSize
MainOK == /\ mpc \in {"accept", "accepted", "onconnected", "loop", "send", "sending", "taken",
                      "posterr", "close", "size", "onrecv", "shown"}
          /\ caller \in {"none", "onconnected", "loop", "onrecv"}
          /\ event \in {"none", "RECV", "BREAK"}
          /\ nLeft \in 0 .. MaxIn /\ mSent \in 0 .. SockCap
WorkerOK == /\ wpc \in {"wait", "in", "recv", "recvclose", "recvclosed", "out", "drain",
                        "taken", "hup", "hupclose", "hupclosed", "post"}
            /\ events \subseteq {"IN", "OUT", "HUP"}
            /\ eventType \in {"none", "RECV", "BREAK"} /\ received \in BOOLEAN
            /\ wSent \in 0 .. SockCap
HistoryOK == /\ sent \in 0 .. MaxOut /\ arrived \in 0 .. MaxIn
             /\ connects \in 0 .. 1 /\ breaks \in Nat /\ closes \in 0 .. MaxClose
             /\ halted \in {"no", "CPipe.cpp:39", "CPipe.cpp:52", "CPipe.cpp:92", "SIGPIPE"}

LEMMA TypeParts ==
    /\ TypeOK <=> PipeOK /\ SocketOK /\ EntryOK /\ QueueOK /\ MainOK /\ WorkerOK /\ HistoryOK
    /\ TypeOK' <=> PipeOK' /\ SocketOK' /\ EntryOK' /\ QueueOK' /\ MainOK' /\ WorkerOK'
                     /\ HistoryOK'
BY DEF TypeOK, PipeOK, SocketOK, EntryOK, QueueOK, MainOK, WorkerOK, HistoryOK

Called == {"send", "sending", "taken", "posterr", "close"}

Books ==
    /\ inbox + stream <= arrived /\ unseen + nLeft <= stream
    /\ mpc \in Called => caller # "none"
    /\ mpc \in {"accept", "accepted"} => connects = 0

AtStream ==
    /\ sendLock = "main" <=> mpc \in {"sending", "taken"}
    /\ sendLock = "worker" <=> wpc = "taken"
    /\ mSent <= Len(out) /\ wSent <= Len(out)
    /\ mpc # "taken" => mSent = 0
    /\ wpc # "taken" => wSent = 0

TInv == TypeOK /\ Books /\ AtStream

LEMMA InitTypes == Init => TInv
<1> SUFFICES ASSUME Init PROVE TInv
  OBVIOUS
<1>1. TypeOK
  <2>1. <<>> \in Seq(1 .. MaxOut) /\ <<>> \in Seq({"RECV", "BREAK"}) /\ Len(<<>>) = 0
    OBVIOUS
  <2>2. /\ 0 \in 0 .. MaxOut /\ 0 \in 0 .. MaxIn /\ 0 \in 0 .. SockCap
        /\ 0 \in 0 .. MaxClose /\ 0 <= QueueSize /\ 0 \in 0 .. 0
    BY BoundAssumption
  <2>3. PipeOK /\ SocketOK /\ QueueOK
    <3>1. PipeOK
      BY <2>1, <2>2 DEF Init, PipeOK
    <3>2. SocketOK
      BY <2>1, <2>2 DEF Init, SocketOK
    <3>3. QueueOK
      BY <2>1, <2>2 DEF Init, QueueOK
    <3> QED BY <3>1, <3>2, <3>3
  <2>4. EntryOK /\ MainOK /\ WorkerOK
    BY <2>2 DEF Init, EntryOK, MainOK, WorkerOK
  <2>5. HistoryOK
    BY <2>2 DEF Init, HistoryOK
  <2> QED BY <2>3, <2>4, <2>5, TypeParts
<1>2. Books /\ AtStream
  BY DEF Init, Books, AtStream, Called
<1> QED BY <1>1, <1>2 DEF TInv

\* What an entry of epoll becomes.
LEMMA EntryTypes ==
    ASSUME TypeOK
    PROVE  /\ \A what : Signal(what) => armed' \in BOOLEAN
           /\ \A m \in SUBSET {"IN", "OUT", "RDHUP"} :
                 \A trigger \in {"ET", "LT", "ONESHOT"} :
                    /\ Register(m, trigger) =>
                          /\ mask' = m /\ mode' = trigger /\ armed' \in BOOLEAN
                    /\ PostOPT(m, trigger) =>
                          /\ mask' \subseteq {"IN", "OUT", "RDHUP"}
                          /\ mode' \in {"off", "ET", "LT", "ONESHOT"}
                          /\ armed' \in BOOLEAN
                          /\ halted' \in {halted, "CPipe.cpp:39"}
           /\ Reported \subseteq {"IN", "OUT", "HUP"}
<1>1. \A what : Signal(what) => armed' \in BOOLEAN
  BY DEF Signal
<1>2. ASSUME NEW m \in SUBSET {"IN", "OUT", "RDHUP"}, NEW trigger, Register(m, trigger)
      PROVE  mask' = m /\ mode' = trigger /\ armed' \in BOOLEAN
  BY <1>2 DEF Register
<1>3. ASSUME NEW m \in SUBSET {"IN", "OUT", "RDHUP"}, NEW trigger \in {"ET", "LT", "ONESHOT"},
             PostOPT(m, trigger)
      PROVE  /\ mask' \subseteq {"IN", "OUT", "RDHUP"}
             /\ mode' \in {"off", "ET", "LT", "ONESHOT"} /\ armed' \in BOOLEAN
             /\ halted' \in {halted, "CPipe.cpp:39"}
  <2>1. CASE handler
    BY <1>2, <1>3, <2>1 DEF PostOPT
  <2>2. CASE ~handler
    BY <1>3, <2>2 DEF PostOPT, poll, TypeOK
  <2> QED BY <2>1, <2>2
<1>4. Reported \subseteq {"IN", "OUT", "HUP"}
  BY DEF Reported, Ready
<1> QED BY <1>1, <1>2, <1>3, <1>4

\* What send(2) has taken.
LEMMA ChunksTyped ==
    ASSUME TypeOK, NEW n \in 1 .. SockCap, TakesChunks(n) PROVE SocketOK'
<1>1. n <= Len(out) /\ n <= SockCap - unread
  BY BoundAssumption DEF TypeOK, TakesChunks, Room
<1>2. SubSeq(out, 1, n) \in Seq(1 .. MaxOut)
  <2>1. ASSUME NEW i \in 1 .. n PROVE out[i] \in 1 .. MaxOut
    <3>1. out \in Seq(1 .. MaxOut) /\ Len(out) \in Nat
      BY DEF TypeOK
    <3>2. i \in 1 .. Len(out)
      BY <1>1, <3>1
    <3> QED BY <3>1, <3>2, ElementOfSeq
  <2> QED BY <2>1, SubSeqProperties
<1>3. wire' \in Seq(1 .. MaxOut)
  BY <1>2, ConcatProperties DEF TypeOK, TakesChunks
<1>4. unread' \in 0 .. SockCap
  BY <1>1, BoundAssumption DEF TypeOK, TakesChunks
<1> QED BY <1>3, <1>4 DEF TypeOK, SocketOK, TakesChunks

\* What the send stream holds when k chunks are left out.
LEMMA Rest ==
    ASSUME out \in Seq(1 .. MaxOut), NEW k \in 0 .. Len(out)
    PROVE  /\ SubSeq(out, k + 1, Len(out)) \in Seq(1 .. MaxOut)
           /\ Len(SubSeq(out, k + 1, Len(out))) = Len(out) - k
           /\ \A i \in 1 .. Len(out) - k : SubSeq(out, k + 1, Len(out))[i] = out[k + i]
<1>1. Len(out) \in Nat /\ k + 1 \in Int
  OBVIOUS
<1>2. ASSUME NEW i \in k + 1 .. Len(out) PROVE out[i] \in 1 .. MaxOut
  <2>1. i \in 1 .. Len(out)
    BY <1>1
  <2> QED BY <2>1, ElementOfSeq
<1> DEFINE r == SubSeq(out, k + 1, Len(out))
<1>3. /\ r \in Seq(1 .. MaxOut)
      /\ Len(r) = IF k + 1 <= Len(out) THEN Len(out) - (k + 1) + 1 ELSE 0
      /\ \A i \in 1 .. Len(out) - (k + 1) + 1 : r[i] = out[(k + 1) + i - 1]
  BY <1>1, <1>2, SubSeqProperties
<1> HIDE DEF r
<1>4. Len(r) = Len(out) - k
  BY <1>1, <1>3
<1>5. ASSUME NEW i \in 1 .. Len(out) - k PROVE r[i] = out[k + i]
  <2>1. i \in 1 .. Len(out) - (k + 1) + 1 /\ (k + 1) + i - 1 = k + i
    BY <1>1
  <2> QED BY <1>3, <2>1
<1> QED BY <1>3, <1>4, <1>5 DEF r

LEMMA SocketTypes ==
    ASSUME TInv,
           PeerSends \/ PeerReads \/ \E how \in Ends : PeerEnd(how)
    PROVE  TInv'
<1> USE BoundAssumption DEF TInv
<1>1. CASE PeerSends
  BY <1>1 DEF TypeOK, Books, AtStream, Called, PeerSends, Signal, main, pipe, work
<1>2. CASE PeerReads
  <2>1. SocketOK'
    BY <1>2, EntryTypes DEF TypeOK, Books, AtStream, Called, SocketOK, PeerReads, Room,
           hist, main, pipe, work
  <2>2. EntryOK'
    BY <1>2, EntryTypes DEF TypeOK, Books, AtStream, Called, EntryOK, PeerReads, Room, hist,
           main, pipe, work
  <2>3. PipeOK' /\ QueueOK' /\ MainOK' /\ WorkerOK' /\ HistoryOK'
    BY <1>2 DEF TypeOK, PipeOK, QueueOK, MainOK, WorkerOK, HistoryOK, PeerReads, hist, main,
           pipe, work
  <2>4. Books'
    BY <1>2 DEF TypeOK, Books, AtStream, Called, PeerReads, Room, Signal, hist, main, pipe,
           work
  <2>5. AtStream'
    BY <1>2 DEF TypeOK, AtStream, PeerReads, Room, Signal, hist, main, pipe, work
  <2> QED BY <2>1, <2>2, <2>3, <2>4, <2>5, TypeParts
<1>3. CASE \E how \in Ends : PeerEnd(how)
  BY <1>3 DEF TypeOK, Books, AtStream, Called, PeerEnd, Signal, hist, main, pipe, work
<1> QED BY <1>1, <1>2, <1>3

LEMMA AcceptTypes ==
    ASSUME TInv,
           Accept \/ AcceptSetStatus \/ OnConnectedReturns \/ CallClose \/ ClosePosts
    PROVE  TInv'
<1> USE BoundAssumption DEF TInv
<1>1. CASE Accept
  BY <1>1 DEF TypeOK, Books, AtStream, Called, Accept, MGoto, Register, Room, hist, sock,
         work
<1>2. CASE AcceptSetStatus
  BY <1>2 DEF TypeOK, Books, AtStream, Called, AcceptSetStatus, MGoto, poll, sock, work
<1>3. CASE OnConnectedReturns
  BY <1>3 DEF TypeOK, Books, AtStream, Called, OnConnectedReturns, MGoto, hist, pipe, poll,
         sock, work
<1>4. CASE CallClose
  BY <1>4 DEF TypeOK, Books, AtStream, Called, CallClose, ApplicationRuns, poll, sock, work
<1>5. CASE ClosePosts
  <2>1. EntryOK'
    BY <1>5, EntryTypes DEF TypeOK, Books, AtStream, Called, EntryOK, ClosePosts, Return,
           Room, pipe, poll, sock, work
  <2>2. MainOK'
    BY <1>5, EntryTypes DEF TypeOK, Books, AtStream, Called, MainOK, ClosePosts, Return,
           Room, pipe, poll, sock, work
  <2>3. HistoryOK'
    BY <1>5, EntryTypes DEF TypeOK, Books, AtStream, Called, HistoryOK, ClosePosts, Return,
           Room, pipe, poll, sock, work
  <2>4. PipeOK' /\ SocketOK' /\ QueueOK' /\ WorkerOK'
    BY <1>5 DEF TypeOK, PipeOK, SocketOK, QueueOK, WorkerOK, ClosePosts, Return, pipe, poll,
           sock, work
  <2>5. Books'
    BY <1>5 DEF TypeOK, Books, AtStream, Called, ClosePosts, PostOPT, Register, Return,
           Room, pipe, poll, sock, work
  <2>6. AtStream'
    BY <1>5 DEF TypeOK, AtStream, ClosePosts, PostOPT, Register, Return, Room, pipe, poll,
           sock, work
  <2> QED BY <2>1, <2>2, <2>3, <2>4, <2>5, <2>6, TypeParts
<1> QED BY <1>1, <1>2, <1>3, <1>4, <1>5

LEMMA SendTypes ==
    ASSUME TInv,
           CallSend \/ SendLocks \/ SendTakes \/ SendShortens \/ SendBlocks \/ SendFails \/
                  SendKilled \/ SendDrained \/ SendPostsError
    PROVE  TInv'
<1> USE BoundAssumption DEF TInv
<1>1. CASE CallSend
  <2>1. PipeOK'
    <3>1. sent < MaxOut => Append(out, sent + 1) \in Seq(1 .. MaxOut)
      BY DEF TypeOK
    <3>2. out' \in Seq(1 .. MaxOut)
      BY <1>1, <3>1 DEF CallSend, TypeOK
    <3> QED BY <1>1, <3>2 DEF CallSend, PipeOK, TypeOK
  <2>2. MainOK'
    BY <1>1 DEF TypeOK, Books, AtStream, Called, MainOK, CallSend, ApplicationRuns, poll,
           sock, work
  <2>3. HistoryOK'
    BY <1>1 DEF TypeOK, Books, AtStream, Called, HistoryOK, CallSend, ApplicationRuns, poll,
           sock, work
  <2>4. SocketOK' /\ EntryOK' /\ QueueOK' /\ WorkerOK'
    BY <1>1 DEF TypeOK, SocketOK, EntryOK, QueueOK, WorkerOK, CallSend, ApplicationRuns,
           poll, sock, work
  <2>5. Books'
    BY <1>1 DEF TypeOK, Books, AtStream, Called, CallSend, ApplicationRuns, poll, sock, work
  <2>6. AtStream'
    BY <1>1 DEF TypeOK, AtStream, CallSend, ApplicationRuns, poll, sock, work
  <2> QED BY <2>1, <2>2, <2>3, <2>4, <2>5, <2>6, TypeParts
<1>2. CASE SendLocks
  BY <1>2 DEF TypeOK, Books, AtStream, Called, SendLocks, Return, hist, main, poll, sock,
         work
<1>3. CASE SendTakes
  <2>1. SocketOK'
    <3>1. PICK n \in 1 .. SockCap : TakesChunks(n)
      BY <1>3 DEF SendTakes
    <3> QED BY <3>1, ChunksTyped
  <2>2. MainOK'
    BY <1>3 DEF TypeOK, Books, AtStream, Called, MainOK, SendTakes, MGoto, Room,
           TakesChunks, hist, pipe, poll, work
  <2>3. PipeOK' /\ EntryOK' /\ QueueOK' /\ WorkerOK' /\ HistoryOK'
    BY <1>3 DEF TypeOK, PipeOK, EntryOK, QueueOK, WorkerOK, HistoryOK, SendTakes, MGoto,
           TakesChunks, hist, pipe, poll, work
  <2>4. Books'
    BY <1>3 DEF TypeOK, Books, AtStream, Called, SendTakes, MGoto, Room, TakesChunks, hist,
           pipe, poll, work
  <2>5. AtStream'
    BY <1>3 DEF TypeOK, AtStream, SendTakes, MGoto, Room, TakesChunks, hist, pipe, poll,
           work
  <2> QED BY <2>1, <2>2, <2>3, <2>4, <2>5, TypeParts
<1>4. CASE SendShortens
  <2>1. PipeOK'
    <3>1. out' \in Seq(1 .. MaxOut)
      BY <1>4, Rest DEF SendShortens, Shortened, TypeOK, AtStream
    <3> QED BY <1>4, <3>1 DEF SendShortens, MGoto, PipeOK, TypeOK, hist
  <2>2. MainOK'
    BY <1>4 DEF TypeOK, Books, AtStream, Called, MainOK, SendShortens, MGoto
  <2>3. SocketOK' /\ EntryOK' /\ QueueOK' /\ WorkerOK' /\ HistoryOK'
    BY <1>4 DEF TypeOK, SocketOK, EntryOK, QueueOK, WorkerOK, HistoryOK, SendShortens, MGoto,
           hist, poll, sock, work
  <2>4. Books'
    BY <1>4 DEF TypeOK, Books, AtStream, Called, SendShortens, MGoto, hist, poll, sock, work
  <2>5. AtStream'
    <3>1. wSent = 0 /\ wSent' = 0 /\ mSent' = 0
      BY <1>4 DEF SendShortens, MGoto, AtStream, work
    <3>2. Len(out') \in Nat
      BY <2>1 DEF PipeOK
    <3> QED BY <1>4, <3>1, <3>2 DEF AtStream, SendShortens, MGoto, work
  <2> QED BY <2>1, <2>2, <2>3, <2>4, <2>5, TypeParts
<1>5. CASE SendBlocks
  <2>1. PipeOK'
    BY <1>5 DEF TypeOK, Books, AtStream, Called, PipeOK, SendBlocks, Return, Room,
           WouldBlock, hist, poll, sock, work
  <2>2. MainOK'
    BY <1>5 DEF TypeOK, Books, AtStream, Called, MainOK, SendBlocks, Return, Room,
           WouldBlock, hist, poll, sock, work
  <2>3. SocketOK' /\ EntryOK' /\ QueueOK' /\ WorkerOK' /\ HistoryOK'
    BY <1>5 DEF TypeOK, SocketOK, EntryOK, QueueOK, WorkerOK, HistoryOK, SendBlocks, Return,
           WouldBlock, hist, poll, sock, work
  <2>4. Books'
    BY <1>5 DEF TypeOK, Books, AtStream, Called, SendBlocks, Return, Room, WouldBlock, hist,
           poll, sock, work
  <2>5. AtStream'
    BY <1>5 DEF TypeOK, AtStream, SendBlocks, Return, Room, WouldBlock, hist, poll, sock,
           work
  <2> QED BY <2>1, <2>2, <2>3, <2>4, <2>5, TypeParts
<1>6. CASE SendFails
  <2>1. PipeOK'
    BY <1>6 DEF TypeOK, Books, AtStream, Called, PipeOK, SendFails, Fails, MGoto, hist,
           poll, work
  <2>2. SocketOK'
    BY <1>6 DEF TypeOK, Books, AtStream, Called, SocketOK, SendFails, Fails, MGoto, hist,
           poll, work
  <2>3. MainOK'
    BY <1>6 DEF TypeOK, Books, AtStream, Called, MainOK, SendFails, Fails, MGoto, hist,
           poll, work
  <2>4. EntryOK' /\ QueueOK' /\ WorkerOK' /\ HistoryOK'
    BY <1>6 DEF TypeOK, EntryOK, QueueOK, WorkerOK, HistoryOK, SendFails, Fails, MGoto,
           hist, poll, work
  <2>5. Books'
    BY <1>6 DEF TypeOK, Books, AtStream, Called, SendFails, Fails, MGoto, hist, poll, work
  <2>6. AtStream'
    BY <1>6 DEF TypeOK, AtStream, SendFails, Fails, MGoto, hist, poll, work
  <2> QED BY <2>1, <2>2, <2>3, <2>4, <2>5, <2>6, TypeParts
<1>7. CASE SendKilled
  BY <1>7 DEF TypeOK, Books, AtStream, Called, SendKilled, KillsBySignal, main, pipe, poll,
         sock, work
<1>8. CASE SendDrained
  <2>1. PipeOK'
    BY <1>8 DEF TypeOK, Books, AtStream, Called, PipeOK, SendDrained, Return, hist, poll,
           sock, work
  <2>2. MainOK'
    BY <1>8 DEF TypeOK, Books, AtStream, Called, MainOK, SendDrained, Return, hist, poll,
           sock, work
  <2>3. SocketOK' /\ EntryOK' /\ QueueOK' /\ WorkerOK' /\ HistoryOK'
    BY <1>8 DEF TypeOK, SocketOK, EntryOK, QueueOK, WorkerOK, HistoryOK, SendDrained,
           Return, hist, poll, sock, work
  <2>4. Books'
    BY <1>8 DEF TypeOK, Books, AtStream, Called, SendDrained, Return, hist, poll, sock, work
  <2>5. AtStream'
    BY <1>8 DEF TypeOK, AtStream, SendDrained, Return, hist, poll, sock, work
  <2> QED BY <2>1, <2>2, <2>3, <2>4, <2>5, TypeParts
<1>9. CASE SendPostsError
  <2>1. EntryOK'
    BY <1>9, EntryTypes DEF TypeOK, Books, AtStream, Called, EntryOK, SendPostsError,
           Return, Room, pipe, poll, sock, work
  <2>2. MainOK'
    BY <1>9, EntryTypes DEF TypeOK, Books, AtStream, Called, MainOK, SendPostsError, Return,
           Room, pipe, poll, sock, work
  <2>3. HistoryOK'
    BY <1>9, EntryTypes DEF TypeOK, Books, AtStream, Called, HistoryOK, SendPostsError,
           Return, Room, pipe, poll, sock, work
  <2>4. PipeOK' /\ SocketOK' /\ QueueOK' /\ WorkerOK'
    BY <1>9 DEF TypeOK, PipeOK, SocketOK, QueueOK, WorkerOK, SendPostsError, Return, pipe,
           poll, sock, work
  <2>5. Books'
    BY <1>9 DEF TypeOK, Books, AtStream, Called, SendPostsError, PostOPT, Register, Return,
           Room, pipe, poll, sock, work
  <2>6. AtStream'
    BY <1>9 DEF TypeOK, AtStream, SendPostsError, PostOPT, Register, Return, Room, pipe,
           poll, sock, work
  <2> QED BY <2>1, <2>2, <2>3, <2>4, <2>5, <2>6, TypeParts
<1> QED BY <1>1, <1>2, <1>3, <1>4, <1>5, <1>6, <1>7, <1>8, <1>9

LEMMA EventTypes ==
    ASSUME TInv,
           ReadEvent \/ TakeSize \/ OnRecvReturns \/ EventDone
    PROVE  TInv'
<1> USE BoundAssumption DEF TInv
<1>1. CASE ReadEvent
  BY <1>1 DEF TypeOK, Books, AtStream, Called, ReadEvent, MGoto, hist, pipe, poll, sock,
         work
<1>2. CASE TakeSize
  BY <1>2 DEF TypeOK, Books, AtStream, Called, TakeSize, pipe, poll, sock, work
<1>3. CASE OnRecvReturns
  BY <1>3 DEF TypeOK, Books, AtStream, Called, OnRecvReturns, hist, poll, sock, work
<1>4. CASE EventDone
  BY <1>4 DEF TypeOK, Books, AtStream, Called, EventDone, MGoto, pipe, poll, sock, work
<1> QED BY <1>1, <1>2, <1>3, <1>4

LEMMA ReceiveTypes ==
    ASSUME TInv,
           EpollWait \/ InStage \/ RecvTakes \/ RecvBlocks \/ RecvEnds \/ DoClose \/
                  OutStage
    PROVE  TInv'
<1> USE BoundAssumption DEF TInv
<1>1. CASE EpollWait
  <2>1. EntryOK'
    BY <1>1, EntryTypes DEF TypeOK, Books, AtStream, Called, EntryOK, EpollWait, Room,
           WGoto, hist, main, pipe, sock
  <2>2. WorkerOK'
    BY <1>1, EntryTypes DEF TypeOK, Books, AtStream, Called, WorkerOK, EpollWait, Room,
           WGoto, hist, main, pipe, sock
  <2>3. PipeOK' /\ SocketOK' /\ QueueOK' /\ MainOK' /\ HistoryOK'
    BY <1>1 DEF TypeOK, PipeOK, SocketOK, QueueOK, MainOK, HistoryOK, EpollWait, WGoto,
           hist, main, pipe, sock
  <2>4. Books'
    BY <1>1 DEF TypeOK, Books, AtStream, Called, EpollWait, Room, WGoto, hist, main, pipe,
           sock
  <2>5. AtStream'
    BY <1>1 DEF TypeOK, AtStream, EpollWait, Room, WGoto, hist, main, pipe, sock
  <2> QED BY <2>1, <2>2, <2>3, <2>4, <2>5, TypeParts
<1>2. CASE InStage
  BY <1>2 DEF TypeOK, Books, AtStream, Called, InStage, hist, main, pipe, poll, sock
<1>3. CASE RecvTakes
  BY <1>3 DEF TypeOK, Books, AtStream, Called, RecvTakes, WGoto, main, poll
<1>4. CASE RecvBlocks
  BY <1>4 DEF TypeOK, Books, AtStream, Called, RecvBlocks, WGoto, hist, main, pipe, poll,
         sock
<1>5. CASE RecvEnds
  <2>1. SocketOK'
    BY <1>5 DEF TypeOK, Books, AtStream, Called, SocketOK, RecvEnds, WGoto, hist, main,
           pipe, poll
  <2>2. WorkerOK'
    BY <1>5 DEF TypeOK, Books, AtStream, Called, WorkerOK, RecvEnds, WGoto, hist, main,
           pipe, poll
  <2>3. PipeOK' /\ EntryOK' /\ QueueOK' /\ MainOK' /\ HistoryOK'
    BY <1>5 DEF TypeOK, PipeOK, EntryOK, QueueOK, MainOK, HistoryOK, RecvEnds, WGoto, hist,
           main, pipe, poll
  <2>4. Books'
    BY <1>5 DEF TypeOK, Books, AtStream, Called, RecvEnds, WGoto, hist, main, pipe, poll
  <2>5. AtStream'
    BY <1>5 DEF TypeOK, AtStream, RecvEnds, WGoto, hist, main, pipe, poll
  <2> QED BY <2>1, <2>2, <2>3, <2>4, <2>5, TypeParts
<1>6. CASE DoClose
  <2>1. PipeOK'
    BY <1>6 DEF TypeOK, Books, AtStream, Called, PipeOK, DoClose, DoCloseSocket,
           DoCloseStatus, WGoto, hist, main, poll, sock
  <2>2. EntryOK'
    BY <1>6 DEF TypeOK, Books, AtStream, Called, EntryOK, DoClose, DoCloseSocket,
           DoCloseStatus, WGoto, hist, main, poll, sock
  <2>3. WorkerOK'
    BY <1>6 DEF TypeOK, Books, AtStream, Called, WorkerOK, DoClose, DoCloseSocket,
           DoCloseStatus, WGoto, hist, main, poll, sock
  <2>4. HistoryOK'
    BY <1>6 DEF TypeOK, Books, AtStream, Called, HistoryOK, DoClose, DoCloseSocket,
           DoCloseStatus, WGoto, hist, main, poll, sock
  <2>5. SocketOK' /\ QueueOK' /\ MainOK'
    <3>1. UNCHANGED <<sock, queue, main>>
      BY <1>6 DEF DoClose, DoCloseSocket, DoCloseStatus
    <3> QED BY <3>1 DEF TypeOK, SocketOK, QueueOK, MainOK, sock, main
  <2>6. Books'
    BY <1>6 DEF TypeOK, Books, AtStream, Called, DoClose, DoCloseSocket, DoCloseStatus,
           WGoto, hist, main, poll, sock
  <2>7. AtStream'
    BY <1>6 DEF TypeOK, AtStream, DoClose, DoCloseSocket, DoCloseStatus, WGoto, hist, main,
           poll, sock
  <2> QED BY <2>1, <2>2, <2>3, <2>4, <2>5, <2>6, <2>7, TypeParts
<1>7. CASE OutStage
  BY <1>7 DEF TypeOK, Books, AtStream, Called, OutStage, hist, main, pipe, poll, sock
<1> QED BY <1>1, <1>2, <1>3, <1>4, <1>5, <1>6, <1>7

LEMMA DrainTypes ==
    ASSUME TInv,
           DrainTakes \/ DrainShortens \/ DrainBlocks \/ DrainFails \/ DrainKilled \/
                  DrainEmpty \/ HupStage \/ Post
    PROVE  TInv'
<1> USE BoundAssumption DEF TInv
<1>1. CASE DrainTakes
  <2>1. PipeOK'
    BY <1>1 DEF TypeOK, Books, AtStream, Called, PipeOK, DrainTakes, Room, TakesChunks,
           WGoto, hist, main, poll
  <2>2. SocketOK'
    <3>1. PICK n \in 1 .. SockCap : TakesChunks(n)
      BY <1>1 DEF DrainTakes
    <3> QED BY <3>1, ChunksTyped
  <2>3. WorkerOK'
    BY <1>1 DEF TypeOK, Books, AtStream, Called, WorkerOK, DrainTakes, Room, TakesChunks,
           WGoto, hist, main, poll
  <2>4. EntryOK' /\ QueueOK' /\ MainOK' /\ HistoryOK'
    BY <1>1 DEF TypeOK, EntryOK, QueueOK, MainOK, HistoryOK, DrainTakes, TakesChunks, WGoto,
           hist, main, poll
  <2>5. Books'
    BY <1>1 DEF TypeOK, Books, AtStream, Called, DrainTakes, Room, TakesChunks, WGoto, hist,
           main, poll
  <2>6. AtStream'
    BY <1>1 DEF TypeOK, AtStream, DrainTakes, Room, TakesChunks, WGoto, hist, main, poll
  <2> QED BY <2>1, <2>2, <2>3, <2>4, <2>5, <2>6, TypeParts
<1>2. CASE DrainShortens
  BY <1>2 DEF TypeOK, Books, AtStream, Called, DrainShortens, Shortened, WGoto, hist, main,
         poll, sock
<1>3. CASE DrainBlocks
  BY <1>3 DEF TypeOK, Books, AtStream, Called, DrainBlocks, Room, WGoto, WouldBlock, hist,
         main, pipe, poll, sock
<1>4. CASE DrainFails
  <2>1. SocketOK'
    BY <1>4 DEF TypeOK, Books, AtStream, Called, SocketOK, DrainFails, Fails, WGoto, hist,
           main, pipe, poll
  <2>2. WorkerOK'
    BY <1>4 DEF TypeOK, Books, AtStream, Called, WorkerOK, DrainFails, Fails, WGoto, hist,
           main, pipe, poll
  <2>3. PipeOK' /\ EntryOK' /\ QueueOK' /\ MainOK' /\ HistoryOK'
    BY <1>4 DEF TypeOK, PipeOK, EntryOK, QueueOK, MainOK, HistoryOK, DrainFails, Fails,
           WGoto, hist, main, pipe, poll
  <2>4. Books'
    BY <1>4 DEF TypeOK, Books, AtStream, Called, DrainFails, Fails, WGoto, hist, main, pipe,
           poll
  <2>5. AtStream'
    BY <1>4 DEF TypeOK, AtStream, DrainFails, Fails, WGoto, hist, main, pipe, poll
  <2> QED BY <2>1, <2>2, <2>3, <2>4, <2>5, TypeParts
<1>5. CASE DrainKilled
  BY <1>5 DEF TypeOK, Books, AtStream, Called, DrainKilled, KillsBySignal, main, pipe, poll,
         sock, work
<1>6. CASE DrainEmpty
  <2>1. PipeOK'
    BY <1>6 DEF TypeOK, Books, AtStream, Called, PipeOK, DrainEmpty, DrainLeaves, WGoto,
           hist, main, poll, sock
  <2>2. WorkerOK'
    BY <1>6 DEF TypeOK, Books, AtStream, Called, WorkerOK, DrainEmpty, DrainLeaves, WGoto,
           hist, main, poll, sock
  <2>3. SocketOK' /\ EntryOK' /\ QueueOK' /\ MainOK' /\ HistoryOK'
    BY <1>6 DEF TypeOK, SocketOK, EntryOK, QueueOK, MainOK, HistoryOK, DrainEmpty,
           DrainLeaves, WGoto, hist, main, poll, sock
  <2>4. Books'
    BY <1>6 DEF TypeOK, Books, AtStream, Called, DrainEmpty, DrainLeaves, WGoto, hist, main,
           poll, sock
  <2>5. AtStream'
    BY <1>6 DEF TypeOK, AtStream, DrainEmpty, DrainLeaves, WGoto, hist, main, poll, sock
  <2> QED BY <2>1, <2>2, <2>3, <2>4, <2>5, TypeParts
<1>7. CASE HupStage
  BY <1>7 DEF TypeOK, Books, AtStream, Called, HupStage, hist, main, pipe, poll, sock
<1>8. CASE Post
  <2>1. QueueOK'
    <3>1. CASE eventType = "none"
      BY <1>8, <3>1 DEF Post, QueueOK, TypeOK
    <3>2. CASE eventType # "none"
      <4>1. eventType \in {"RECV", "BREAK"} /\ queue' = Append(queue, eventType)
            /\ Len(queue) < QueueSize
        BY <1>8, <3>2 DEF Post, TypeOK
      <4> QED BY <4>1 DEF QueueOK, TypeOK
    <3> QED BY <3>1, <3>2
  <2>2. WorkerOK'
    BY <1>8 DEF TypeOK, Books, AtStream, Called, WorkerOK, Post, WGoto, hist, main, pipe,
           poll, sock
  <2>3. PipeOK' /\ SocketOK' /\ EntryOK' /\ MainOK' /\ HistoryOK'
    BY <1>8 DEF TypeOK, PipeOK, SocketOK, EntryOK, MainOK, HistoryOK, Post, WGoto, hist,
           main, pipe, poll, sock
  <2>4. Books'
    BY <1>8 DEF TypeOK, Books, AtStream, Called, Post, WGoto, hist, main, pipe, poll, sock
  <2>5. AtStream'
    BY <1>8 DEF TypeOK, AtStream, Post, WGoto, hist, main, pipe, poll, sock
  <2> QED BY <2>1, <2>2, <2>3, <2>4, <2>5, TypeParts
<1> QED BY <1>1, <1>2, <1>3, <1>4, <1>5, <1>6, <1>7, <1>8

LEMMA Types == Spec => []TInv
<1>1. Init => TInv
  BY InitTypes
<1>2. TInv /\ [Next]_vars => TInv'
  <2> SUFFICES ASSUME TInv, [Next]_vars PROVE TInv'
    OBVIOUS
  <2>1. CASE UNCHANGED vars
    BY <2>1 DEF vars, pipe, sock, poll, main, work, hist, TInv, TypeOK, Books, AtStream
  <2>2. CASE Next
    BY <2>2, SocketTypes, AcceptTypes, SendTypes, EventTypes, ReceiveTypes, DrainTypes DEF
           Next, MainStep, WorkerStep
  <2> QED BY <2>1, <2>2
<1> QED BY <1>1, <1>2, PTL DEF Spec

(***************************************************************************)
(* Types; the streams and queues stay within their bounds.                 *)
(***************************************************************************)
THEOREM TypeCorrect == Spec => []TypeOK
<1>1. TInv => TypeOK
  BY DEF TInv
<1> QED BY <1>1, Types, PTL

(***************************************************************************)
(* The order of the chunks.  The socket has the first Len(wire) of them;   *)
(* the stream goes on from there, once what one of the threads has sent    *)
(* but not yet taken off is left out.                                      *)
(***************************************************************************)
Off == mSent + wSent

Order ==
    /\ Len(wire) + Len(out) = sent + Off
    /\ \A i \in 1 .. Len(wire) : wire[i] = i
    /\ \A i \in 1 .. Len(out) : out[i] = Len(wire) - Off + i

LEMMA Numbers ==
    ASSUME TInv
    PROVE  /\ out \in Seq(1 .. MaxOut) /\ wire \in Seq(1 .. MaxOut)
           /\ Len(out) \in Nat /\ Len(wire) \in Nat /\ sent \in Nat
           /\ mSent \in Nat /\ wSent \in Nat /\ Off \in 0 .. Len(out)
<1>1. /\ out \in Seq(1 .. MaxOut) /\ wire \in Seq(1 .. MaxOut) /\ sent \in Nat
      /\ mSent \in Nat /\ wSent \in Nat
  BY BoundAssumption DEF TInv, TypeOK
<1>2. mSent = 0 \/ wSent = 0
  BY DEF TInv, AtStream
<1> QED BY <1>1, <1>2 DEF TInv, AtStream, Off

LEMMA OutElements == ASSUME TInv, NEW i \in 1 .. Len(out) PROVE out[i] \in 1 .. MaxOut
BY Numbers, ElementOfSeq

LEMMA SendKeepsOrder == ASSUME TInv, Order, CallSend PROVE Order'
<1>1. CASE status # "ESTABLISHED"
  BY <1>1 DEF CallSend, Order, Off, sock, work
<1>2. CASE status = "ESTABLISHED"
  <2>1. /\ out' = Append(out, sent + 1) /\ sent' = sent + 1
        /\ wire' = wire /\ mSent' = mSent /\ wSent' = wSent
    BY <1>2 DEF CallSend, sock, work
  <2>2. /\ Len(out') = Len(out) + 1 /\ out'[Len(out) + 1] = sent + 1
        /\ \A i \in 1 .. Len(out) : out'[i] = out[i]
    BY <2>1, Numbers
  <2>3. Off' = Off
    BY <2>1 DEF Off
  <2>4. Len(wire') + Len(out') = sent' + Off'
    <3>1. Off \in Int /\ sent \in Int /\ Len(out) \in Int /\ Len(wire) \in Int
      BY Numbers
    <3>2. Len(wire) + Len(out) = sent + Off
      BY DEF Order
    <3> QED BY <2>1, <2>2, <2>3, <3>1, <3>2
  <2>5. ASSUME NEW i \in 1 .. Len(out') PROVE out'[i] = Len(wire') - Off' + i
    <3>1. CASE i \in 1 .. Len(out)
      BY <2>1, <2>2, <2>3, <3>1 DEF Order
    <3>2. CASE i = Len(out) + 1
      BY <2>1, <2>2, <2>3, <3>2, Numbers DEF Order
    <3> QED BY <2>2, <3>1, <3>2, Numbers
  <2>6. \A i \in 1 .. Len(wire') : wire'[i] = i
    BY <2>1 DEF Order
  <2> QED BY <2>4, <2>5, <2>6 DEF Order
<1> QED BY <1>1, <1>2

\* The socket takes chunks for the thread that is at the stream.
LEMMA TakesKeepOrder ==
    ASSUME TInv, Order, Off = 0, NEW n \in 1 .. SockCap, TakesChunks(n), Off' = n,
           UNCHANGED <<out, sent>>
    PROVE  Order'
<1>1. n \in 1 .. Len(out) /\ wire' = wire \o SubSeq(out, 1, n)
  BY Numbers, BoundAssumption DEF TakesChunks, Room, TInv, TypeOK
<1> DEFINE t == SubSeq(out, 1, n)
<1>2. t \in Seq(1 .. MaxOut) /\ Len(t) = n /\ \A i \in 1 .. n : t[i] = out[i]
  <2>1. ASSUME NEW i \in 1 .. n PROVE out[i] \in 1 .. MaxOut
    <3>1. i \in 1 .. Len(out)
      BY <1>1, Numbers
    <3> QED BY <3>1, OutElements
  <2> QED BY <1>1, <2>1, SubSeqProperties
<1> HIDE DEF t
<1>3. /\ Len(wire') = Len(wire) + n
      /\ \A i \in 1 .. Len(wire) + n :
            wire'[i] = IF i <= Len(wire) THEN wire[i] ELSE t[i - Len(wire)]
  BY <1>1, <1>2, Numbers, ConcatProperties DEF t
<1>4. ASSUME NEW i \in 1 .. Len(wire') PROVE wire'[i] = i
  <2>1. CASE i <= Len(wire)
    BY <1>3, <2>1, Numbers DEF Order
  <2>2. CASE i > Len(wire)
    <3>1. i - Len(wire) \in 1 .. n /\ i - Len(wire) \in 1 .. Len(out)
      BY <1>1, <1>3, <2>2, Numbers
    <3>2. wire'[i] = out[i - Len(wire)]
      BY <1>2, <1>3, <2>2, <3>1, Numbers
    <3>3. out[i - Len(wire)] = Len(wire) - Off + (i - Len(wire))
      BY <3>1 DEF Order
    <3> QED BY <3>2, <3>3, Numbers
  <2> QED BY <2>1, <2>2, <1>3, Numbers
<1>5. \A i \in 1 .. Len(out') : out'[i] = Len(wire') - Off' + i
  BY <1>3, Numbers DEF Order
<1> QED BY <1>3, <1>4, <1>5, Numbers DEF Order

\* The thread takes off what has been sent.
LEMMA ShortensKeepOrder ==
    ASSUME TInv, Order, Shortened(Off), Off' = 0, UNCHANGED <<wire, sent>>
    PROVE  Order'
<1>1. out' = SubSeq(out, Off + 1, Len(out))
  BY DEF Shortened
<1>2. /\ Len(out') = Len(out) - Off
      /\ \A i \in 1 .. Len(out) - Off : out'[i] = out[Off + i]
  BY <1>1, Rest, Numbers
<1>3. ASSUME NEW i \in 1 .. Len(out') PROVE out'[i] = Len(wire') - Off' + i
  <2>1. Off + i \in 1 .. Len(out)
    BY <1>2, Numbers
  <2>2. out[Off + i] = Len(wire) - Off + (Off + i)
    BY <2>1 DEF Order
  <2> QED BY <1>2, <2>2, Numbers
<1>4. Len(wire') + Len(out') = sent' + Off'
  <2>1. Off \in Int /\ sent \in Int /\ Len(out) \in Int /\ Len(wire) \in Int
    BY Numbers
  <2>2. Len(wire) + Len(out) = sent + Off
    BY DEF Order
  <2> QED BY <1>2, <2>1, <2>2
<1>5. \A i \in 1 .. Len(wire') : wire'[i] = i
  BY DEF Order
<1> QED BY <1>3, <1>4, <1>5 DEF Order

\* No other step touches the chunks.
LEMMA ElseKeepsOrder ==
    ASSUME Order, Next,
           ~(CallSend \/ SendTakes \/ SendShortens \/ DrainTakes \/ DrainShortens)
    PROVE  Order'
<1>1. UNCHANGED <<wire, out, mSent, wSent, sent>>
  BY DEF Next, MainStep, WorkerStep, PeerSends, PeerReads, PeerEnd, Accept, AcceptSetStatus,
         OnConnectedReturns, CallClose, ClosePosts, SendLocks, SendBlocks, SendFails,
         SendKilled, SendDrained, SendPostsError, ReadEvent, TakeSize, OnRecvReturns,
         EventDone, EpollWait, InStage, RecvTakes, RecvBlocks, RecvEnds, DoClose, OutStage,
         DrainBlocks, DrainFails, DrainKilled, DrainEmpty, HupStage, Post, DoCloseSocket,
         DoCloseStatus, DrainLeaves, hist, main, pipe, sock, work
<1> QED BY <1>1 DEF Order, Off

LEMMA StepOrder == TInv /\ TInv' /\ Order /\ [Next]_vars => Order'
<1> SUFFICES ASSUME TInv, TInv', Order, [Next]_vars PROVE Order'
  OBVIOUS
<1>1. CASE UNCHANGED vars
  BY <1>1 DEF vars, pipe, sock, main, work, hist, Order, Off
<1>2. CASE CallSend
  BY <1>2, SendKeepsOrder
<1>3. CASE SendTakes
  <2>1. PICK n \in 1 .. SockCap : TakesChunks(n) /\ mSent' = n
    BY <1>3 DEF SendTakes
  <2>2. mSent = 0 /\ wSent = 0 /\ wSent' = wSent /\ UNCHANGED <<out, sent>>
    BY <1>3 DEF SendTakes, MGoto, TInv, AtStream, pipe, work, hist
  <2>3. Off = 0 /\ Off' = n
    BY <2>1, <2>2 DEF Off
  <2> QED BY <2>1, <2>2, <2>3, TakesKeepOrder
<1>4. CASE DrainTakes
  <2>1. PICK n \in 1 .. SockCap : TakesChunks(n) /\ wSent' = n
    BY <1>4 DEF DrainTakes
  <2>2. mSent = 0 /\ wSent = 0 /\ mSent' = mSent /\ UNCHANGED <<out, sent>>
    BY <1>4 DEF DrainTakes, WGoto, TInv, AtStream, main, hist
  <2>3. Off = 0 /\ Off' = n
    BY <2>1, <2>2 DEF Off
  <2> QED BY <2>1, <2>2, <2>3, TakesKeepOrder
<1>5. CASE SendShortens
  <2>1. wSent = 0 /\ mSent' = 0 /\ wSent' = wSent /\ Shortened(mSent)
        /\ UNCHANGED <<wire, sent>>
    BY <1>5 DEF SendShortens, MGoto, TInv, AtStream, sock, work, hist
  <2>2. Off = mSent /\ Off' = 0
    BY <2>1, Numbers DEF Off
  <2> QED BY <2>1, <2>2, ShortensKeepOrder
<1>6. CASE DrainShortens
  <2>1. mSent = 0 /\ wSent' = 0 /\ mSent' = mSent /\ Shortened(wSent)
        /\ UNCHANGED <<wire, sent>>
    BY <1>6 DEF DrainShortens, WGoto, TInv, AtStream, sock, main, hist
  <2>2. Off = wSent /\ Off' = 0
    BY <2>1, Numbers DEF Off
  <2> QED BY <2>1, <2>2, ShortensKeepOrder
<1> QED BY <1>1, <1>2, <1>3, <1>4, <1>5, <1>6, ElseKeepsOrder

(***************************************************************************)
(* Two threads take chunks from the send stream, and the socket gets them  *)
(* all, once and in the order of the calls of Send, whatever fits into it  *)
(* (CPipe.cpp 57-75, 153-167).                                             *)
(***************************************************************************)
THEOREM ChunksInOrder == Spec => []StreamInOrder
<1>1. Init => Order
  BY DEF Init, Order, Off
<1>2. TInv /\ Order => StreamInOrder
  <2> SUFFICES ASSUME TInv, Order PROVE StreamInOrder
    OBVIOUS
  <2> DEFINE rest == SubSeq(out, Off + 1, Len(out))
             all == [i \in 1 .. sent |-> i]
  <2>2. rest \in Seq(1 .. MaxOut)
    BY Rest, Numbers
  <2>3. Len(rest) = Len(out) - Off /\ \A i \in 1 .. Len(out) - Off : rest[i] = out[Off + i]
    BY Rest, Numbers
  <2> HIDE DEF rest
  <2>4. /\ wire \o rest \in Seq(1 .. MaxOut)
        /\ Len(wire \o rest) = Len(wire) + Len(rest)
        /\ \A i \in 1 .. Len(wire) + Len(rest) :
              (wire \o rest)[i] = IF i <= Len(wire) THEN wire[i] ELSE rest[i - Len(wire)]
    BY <2>2, Numbers, ConcatProperties
  <2>5. Len(wire) + Len(rest) = sent
    <3>1. Len(wire) + Len(out) = sent + Off
      BY DEF Order
    <3>2. Off \in Int /\ sent \in Int /\ Len(out) \in Int /\ Len(wire) \in Int
      BY Numbers
    <3> QED BY <2>3, <3>1, <3>2
  <2>6. ASSUME NEW i \in 1 .. sent PROVE (wire \o rest)[i] = i
    <3>1. CASE i <= Len(wire)
      BY <2>4, <2>5, <3>1, Numbers DEF Order
    <3>2. CASE ~(i <= Len(wire))
      <4>1. /\ i - Len(wire) \in 1 .. Len(out) - Off
            /\ Off + (i - Len(wire)) \in 1 .. Len(out)
        BY <2>3, <2>5, <3>2, Numbers
      <4>2. (wire \o rest)[i] = out[Off + (i - Len(wire))]
        BY <2>3, <2>4, <2>5, <3>2, <4>1, Numbers
      <4>3. out[Off + (i - Len(wire))] = Len(wire) - Off + (Off + (i - Len(wire)))
        BY <4>1 DEF Order
      <4> QED BY <4>2, <4>3, Numbers
    <3> QED BY <3>1, <3>2
  <2>7. all \in Seq(1 .. sent) /\ Len(all) = sent
    BY Numbers
  <2>8. wire \o rest = all
    <3>1. 1 .. MaxOut \subseteq Nat /\ 1 .. sent \subseteq Nat
      BY Numbers
    <3>2. wire \o rest \in Seq(Nat)
      BY <2>4, <3>1, SeqMonotonic
    <3>3. all \in Seq(Nat)
      BY <2>7, <3>1, SeqMonotonic
    <3> QED BY <2>4, <2>5, <2>6, <2>7, <3>2, <3>3, SeqEqual
  <2> QED BY <2>8 DEF rest, Off, StreamInOrder
<1>3. Spec => []Order
  BY <1>1, StepOrder, Types, PTL DEF Spec
<1> QED BY <1>2, <1>3, Types, PTL

(***************************************************************************)
(* The receipt.  Once the worker has read a chunk, its result is an event  *)
(* until it is queued.                                                     *)
(***************************************************************************)
Receipt ==
    /\ ReceiptAnnounced
    /\ wpc = "in" => ~received
    /\ received /\ wpc \notin {"wait", "in", "recv"} => eventType # "none"

LEMMA StepReceipt == TInv /\ Receipt /\ [Next]_vars => Receipt'
<1> SUFFICES ASSUME TInv, Receipt, Next PROVE Receipt'
  BY DEF Receipt, ReceiptAnnounced, vars, main, work, hist
<1> USE DEF Receipt, ReceiptAnnounced
<1>1. CASE PeerSends \/ PeerReads \/ \E how \in Ends : PeerEnd(how)
  BY <1>1 DEF PeerSends, main, work, PeerReads, hist, PeerEnd
<1>2. CASE Accept \/ AcceptSetStatus \/ OnConnectedReturns \/ CallSend \/ SendLocks \/
           SendTakes \/ SendShortens \/ SendBlocks \/ SendFails \/ SendKilled \/
           SendDrained \/ SendPostsError \/ CallClose \/ ClosePosts
  BY <1>2 DEF TInv, Books, Called, Accept, MGoto, hist, work, AcceptSetStatus,
         OnConnectedReturns, CallSend, ApplicationRuns, SendLocks, Return, main, SendTakes,
         SendShortens, SendBlocks, SendFails, SendKilled, SendDrained, SendPostsError,
         CallClose, ClosePosts
<1>3. CASE ReadEvent
  BY <1>3 DEF ReadEvent, MGoto, hist, work
<1>4. CASE TakeSize
  BY <1>4 DEF TInv, TypeOK, TakeSize, work
<1>5. CASE OnRecvReturns \/ EventDone
  BY <1>5 DEF OnRecvReturns, hist, work, EventDone, MGoto
<1>6. CASE EpollWait
  BY <1>6 DEF EpollWait, WGoto, hist, main
<1>7. CASE InStage \/ RecvTakes \/ RecvBlocks \/ RecvEnds \/ DoClose
  <2>1. CASE InStage
    BY <1>7, <2>1 DEF InStage, main, hist
  <2>2. CASE RecvTakes
    BY <2>2 DEF RecvTakes, WGoto, main
  <2>3. CASE RecvBlocks \/ RecvEnds
    BY <2>3 DEF RecvBlocks, RecvEnds, WGoto, main, hist
  <2>4. CASE DoClose
    BY <2>4 DEF DoClose, DoCloseStatus, DoCloseSocket, WGoto, main, hist
  <2> QED BY <1>7, <2>1, <2>2, <2>3, <2>4
<1>8. CASE OutStage \/ DrainTakes \/ DrainShortens \/ DrainBlocks \/ DrainFails \/
           DrainKilled \/ DrainEmpty \/ HupStage
  BY <1>8 DEF OutStage, hist, main, DrainTakes, WGoto, DrainShortens, DrainBlocks, DrainFails,
         DrainKilled, work, DrainEmpty, DrainLeaves, HupStage
<1>9. CASE Post
  <2>1. Append(queue, eventType) # <<>>
    BY DEF TInv, TypeOK
  <2> QED BY <1>9, <2>1 DEF Post, WGoto, main, work, hist
<1> QED BY <1>1, <1>2, <1>3, <1>4, <1>5, <1>6, <1>7, <1>8, <1>9 DEF Next, MainStep, WorkerStep

(***************************************************************************)
(* No received chunk lies unnoticed in the receive stream: an event is     *)
(* queued, is about to be, or the main thread is about to look, however    *)
(* small the event queue is (epollWorker.cpp 20-36, 95-115).               *)
(***************************************************************************)
THEOREM ReceiptIsAnnounced == Spec => []ReceiptAnnounced
<1>1. Init => Receipt
  BY DEF Init, Receipt, ReceiptAnnounced
<1>2. Receipt => ReceiptAnnounced
  BY DEF Receipt
<1> QED BY <1>1, <1>2, StepReceipt, Types, PTL DEF Spec

(***************************************************************************)
(* The hand-off.  While the peer is there, what a thread finds at the      *)
(* stream is what the other one has left.  Closing says what a status and  *)
(* a BREAK tell; Watched says who empties the stream.                      *)
(***************************************************************************)
Breaks == \/ eventType = "BREAK" \/ event = "BREAK" \/ breaks > 0
          \/ \E i \in 1 .. Len(queue) : queue[i] = "BREAK"

Closing ==
    /\ status = "WAITCLOSE" \/ mpc = "close" => closes > 0
    /\ mpc \in {"send", "sending", "taken"} => closes = 0
    /\ mpc = "accept" => wpc = "wait" /\ mode = "off" /\ closes = 0 /\ needSend /\ out = <<>>
    /\ peer = "open" =>
          /\ mpc # "accept" => handler /\ status # "UNINITIALIZE"
          /\ mpc # "posterr" /\ "HUP" \notin events
          /\ wpc \notin {"recvclose", "recvclosed", "hupclose", "hupclosed"}
          /\ Breaks => closes > 0 /\ out = <<>>

Watched ==
    /\ mpc \in {"sending", "taken"} => needSend
    /\ peer = "open" /\ needSend /\ mpc \notin {"send", "sending", "taken"} => out = <<>>
    /\ peer = "open" /\ mpc # "accept" /\ (out # <<>> \/ closes = 0) =>
          /\ mode = "ET" /\ mask = {"IN", "OUT"}
          /\ needSend \/ WorkerWillDrain \/ Room = 0 \/ armed

LEMMA SocketHandsOff ==
    ASSUME TInv, Closing, Watched,
           PeerSends \/ PeerReads \/ \E how \in Ends : PeerEnd(how)
    PROVE  Closing' /\ Watched'
<1> USE DEF TInv, AtStream, Called, Books
<1>1. CASE PeerSends
  <2>1. Closing'
    BY <1>1 DEF Closing, Breaks, PeerSends, main, pipe, work
  <2>2. Watched'
    BY <1>1 DEF Watched, WorkerWillDrain, PeerSends, Signal, main, pipe
  <2> QED BY <2>1, <2>2
<1>2. CASE PeerReads
  <2>1. Closing'
    BY <1>2 DEF Closing, Breaks, PeerReads, hist, main, pipe, work
  <2>2. Watched'
    BY <1>2 DEF Watched, WorkerWillDrain, PeerReads, Signal, hist, main, pipe, work
  <2> QED BY <2>1, <2>2
<1>3. CASE \E how \in Ends : PeerEnd(how)
  <2>1. Closing'
    BY <1>3 DEF Closing, Breaks, PeerEnd, hist, main, pipe, work
  <2>2. Watched'
    BY <1>3 DEF Watched, WorkerWillDrain, PeerEnd, Signal, hist, main, pipe
  <2> QED BY <2>1, <2>2
<1> QED BY <1>1, <1>2, <1>3

LEMMA AcceptHandsOff ==
    ASSUME TInv, Closing, Watched,
           Accept \/ AcceptSetStatus \/ OnConnectedReturns \/ CallClose \/ ClosePosts
    PROVE  Closing' /\ Watched'
<1> USE DEF TInv, AtStream, Called, Books
<1>1. CASE Accept
  <2>1. Closing'
    BY <1>1 DEF Closing, Breaks, Accept, MGoto, hist, sock, work
  <2>2. Watched'
    BY <1>1 DEF Closing, Watched, WorkerWillDrain, Accept, MGoto, Register
  <2> QED BY <2>1, <2>2
<1>2. CASE AcceptSetStatus
  <2>1. Closing'
    BY <1>2 DEF Closing, Breaks, AcceptSetStatus, MGoto, sock, work
  <2>2. Watched'
    BY <1>2 DEF Watched, WorkerWillDrain, Room, AcceptSetStatus, MGoto, poll, sock, work
  <2> QED BY <2>1, <2>2
<1>3. CASE OnConnectedReturns
  <2>1. Closing'
    BY <1>3 DEF Closing, Breaks, OnConnectedReturns, MGoto, hist, pipe, sock, work
  <2>2. Watched'
    BY <1>3 DEF Watched, WorkerWillDrain, Room, OnConnectedReturns, MGoto, hist, pipe, poll,
       sock, work
  <2> QED BY <2>1, <2>2
<1>4. CASE CallClose
  <2>1. Closing'
    BY <1>4 DEF Closing, Breaks, TypeOK, CallClose, ApplicationRuns, sock, work
  <2>2. Watched'
    BY <1>4 DEF Watched, WorkerWillDrain, TypeOK, Room, CallClose, ApplicationRuns, poll,
       sock, work
  <2> QED BY <2>1, <2>2
<1>5. CASE ClosePosts
  <2>1. Closing'
    BY <1>5 DEF Closing, Breaks, TypeOK, ClosePosts, Return, pipe, sock, work
  <2>2. Watched'
    <3>1. /\ mpc = "close" /\ closes > 0 /\ mpc' \notin {"sending", "taken"}
          /\ UNCHANGED <<peer, needSend, out, closes, unread, wpc, events>>
      BY <1>5 DEF ClosePosts, Return, Closing, TypeOK, pipe, sock, work
    <3>2. CASE peer = "open" /\ out # <<>>
      <4>1. ~needSend /\ UNCHANGED poll
        BY <1>5, <3>1, <3>2 DEF ClosePosts, Watched
      <4> QED BY <3>1, <3>2, <4>1 DEF Watched, WorkerWillDrain, Room, poll
    <3>3. CASE peer # "open" \/ out = <<>>
      BY <3>1, <3>3 DEF Watched
    <3> QED BY <3>2, <3>3
  <2> QED BY <2>1, <2>2
<1> QED BY <1>1, <1>2, <1>3, <1>4, <1>5

LEMMA SendHandsOff ==
    ASSUME TInv, Closing, Watched,
           CallSend \/ SendLocks \/ SendTakes \/ SendShortens \/ SendBlocks \/ SendFails
              \/ SendKilled \/ SendDrained \/ SendPostsError
    PROVE  Closing' /\ Watched'
<1> USE DEF TInv, AtStream, Called, Books
<1>1. CASE CallSend
  <2>1. Closing'
    BY <1>1 DEF Closing, Breaks, CallSend, ApplicationRuns, sock, work
  <2>2. Watched'
    BY <1>1 DEF Watched, WorkerWillDrain, Room, CallSend, ApplicationRuns, poll, sock, work
  <2> QED BY <2>1, <2>2
<1>2. CASE SendLocks
  <2>1. Closing'
    BY <1>2 DEF Closing, Breaks, TypeOK, SendLocks, Return, hist, sock, work
  <2>2. Watched'
    BY <1>2 DEF Watched, WorkerWillDrain, TypeOK, Room, SendLocks, Return, hist, poll, sock,
       work
  <2> QED BY <2>1, <2>2
<1>3. CASE SendTakes
  <2>1. Closing'
    BY <1>3 DEF Closing, Breaks, SendTakes, MGoto, TakesChunks, hist, pipe, work
  <2>2. Watched'
    BY <1>3 DEF Watched, WorkerWillDrain, SendTakes, MGoto, TakesChunks, pipe, poll
  <2> QED BY <2>1, <2>2
<1>4. CASE SendShortens
  <2>1. Closing'
    BY <1>4 DEF Closing, Breaks, SendShortens, MGoto, hist, sock, work
  <2>2. Watched'
    BY <1>4 DEF Watched, WorkerWillDrain, SendShortens, MGoto, Shortened, hist, poll, sock
  <2> QED BY <2>1, <2>2
<1>5. CASE SendBlocks
  <2>1. Closing'
    BY <1>5 DEF Closing, Breaks, TypeOK, SendBlocks, Return, hist, sock, work
  <2>2. Watched'
    BY <1>5 DEF Watched, WorkerWillDrain, TypeOK, Room, SendBlocks, Return, WouldBlock,
       poll, sock
  <2> QED BY <2>1, <2>2
<1>6. CASE SendFails
  <2>1. Closing'
    BY <1>6 DEF Closing, Breaks, SendFails, Fails, MGoto
  <2>2. Watched'
    BY <1>6 DEF Closing, Watched, WorkerWillDrain, SendFails, Fails, MGoto
  <2> QED BY <2>1, <2>2
<1>7. CASE SendKilled
  <2>1. Closing'
    BY <1>7 DEF Closing, Breaks, SendKilled, KillsBySignal, main, pipe, sock
  <2>2. Watched'
    BY <1>7 DEF Watched, WorkerWillDrain, SendKilled, KillsBySignal, pipe, sock
  <2> QED BY <2>1, <2>2
<1>8. CASE SendDrained
  <2>1. Closing'
    BY <1>8 DEF Closing, Breaks, TypeOK, SendDrained, Return, hist, sock, work
  <2>2. Watched'
    BY <1>8 DEF Watched, WorkerWillDrain, SendDrained, hist, poll, sock
  <2> QED BY <2>1, <2>2
<1>9. CASE SendPostsError
  <2>1. Closing'
    BY <1>9 DEF Closing, Breaks, TypeOK, SendPostsError, Return, pipe, sock
  <2>2. Watched'
    BY <1>9 DEF Closing, Watched, WorkerWillDrain, TypeOK, SendPostsError, Return, sock
  <2> QED BY <2>1, <2>2
<1> QED BY <1>1, <1>2, <1>3, <1>4, <1>5, <1>6, <1>7, <1>8, <1>9

LEMMA EventHandsOff ==
    ASSUME TInv, Closing, Watched,
           ReadEvent \/ TakeSize \/ OnRecvReturns \/ EventDone
    PROVE  Closing' /\ Watched'
<1> USE DEF TInv, AtStream, Called, Books
<1>1. CASE ReadEvent
  <2>1. Closing'
    BY <1>1 DEF Closing, Breaks, ReadEvent, MGoto, hist, pipe, sock, work
  <2>2. Watched'
    BY <1>1 DEF Watched, WorkerWillDrain, Room, ReadEvent, MGoto, hist, pipe, poll, sock,
       work
  <2> QED BY <2>1, <2>2
<1>2. CASE TakeSize
  <2>1. Closing'
    BY <1>2 DEF Closing, Breaks, TakeSize, pipe, sock, work
  <2>2. Watched'
    BY <1>2 DEF Watched, WorkerWillDrain, Room, TakeSize, pipe, poll, sock, work
  <2> QED BY <2>1, <2>2
<1>3. CASE OnRecvReturns
  <2>1. Closing'
    BY <1>3 DEF Closing, Breaks, OnRecvReturns, hist, sock, work
  <2>2. Watched'
    BY <1>3 DEF Watched, WorkerWillDrain, Room, OnRecvReturns, hist, poll, sock, work
  <2> QED BY <2>1, <2>2
<1>4. CASE EventDone
  <2>1. Closing'
    BY <1>4 DEF Closing, Breaks, EventDone, MGoto, pipe, sock, work
  <2>2. Watched'
    BY <1>4 DEF Watched, WorkerWillDrain, Room, EventDone, MGoto, pipe, poll, sock, work
  <2> QED BY <2>1, <2>2
<1> QED BY <1>1, <1>2, <1>3, <1>4

LEMMA ReceiveHandsOff ==
    ASSUME TInv, Closing, Watched,
           EpollWait \/ InStage \/ RecvTakes \/ RecvBlocks \/ RecvEnds \/ DoClose
    PROVE  Closing' /\ Watched'
<1> USE DEF TInv, AtStream, Called, Books
<1>1. CASE EpollWait
  <2>1. Closing'
    BY <1>1 DEF Closing, Breaks, EpollWait, Ready, Reported, WGoto, hist, main, pipe, sock
  <2>2. Watched'
    BY <1>1, BoundAssumption DEF Watched, WorkerWillDrain, TypeOK, Room, EpollWait, Ready,
       Reported, WGoto, hist, main, pipe, sock
  <2> QED BY <2>1, <2>2
<1>2. CASE InStage
  <2>1. Closing'
    BY <1>2 DEF Closing, Breaks, InStage, hist, main, pipe, sock
  <2>2. Watched'
    BY <1>2 DEF Watched, WorkerWillDrain, Room, InStage, hist, main, pipe, poll, sock
  <2> QED BY <2>1, <2>2
<1>3. CASE RecvTakes
  <2>1. Closing'
    BY <1>3 DEF Closing, Breaks, RecvTakes, WGoto, main
  <2>2. Watched'
    BY <1>3 DEF Watched, WorkerWillDrain, Room, RecvTakes, WGoto, main, poll
  <2> QED BY <2>1, <2>2
<1>4. CASE RecvBlocks
  <2>1. Closing'
    BY <1>4 DEF Closing, Breaks, RecvBlocks, WGoto, hist, main, pipe
  <2>2. Watched'
    BY <1>4 DEF Watched, WorkerWillDrain, Room, RecvBlocks, WGoto, hist, main, pipe, poll,
       sock
  <2> QED BY <2>1, <2>2
<1>5. CASE RecvEnds
  <2>1. Closing'
    BY <1>5 DEF Closing, Breaks, RecvEnds, WGoto, hist, main, pipe
  <2>2. Watched'
    BY <1>5 DEF Watched, WorkerWillDrain, RecvEnds, main, pipe
  <2> QED BY <2>1, <2>2
<1>6. CASE DoClose
  <2>1. Closing'
    BY <1>6 DEF Closing, Breaks, DoClose, DoCloseSocket, DoCloseStatus, WGoto, hist, main,
       sock
  <2>2. Watched'
    BY <1>6 DEF Closing, Watched, WorkerWillDrain, DoClose, DoCloseSocket, DoCloseStatus,
       WGoto, main, sock
  <2> QED BY <2>1, <2>2
<1> QED BY <1>1, <1>2, <1>3, <1>4, <1>5, <1>6

LEMMA DrainHandsOff ==
    ASSUME TInv, Closing, Watched,
           OutStage \/ DrainTakes \/ DrainShortens \/ DrainBlocks \/ DrainFails
              \/ DrainKilled \/ DrainEmpty \/ HupStage \/ Post
    PROVE  Closing' /\ Watched'
<1> USE DEF TInv, AtStream, Called, Books
<1>1. CASE OutStage
  <2>1. Closing'
    BY <1>1 DEF Closing, Breaks, OutStage, hist, main, pipe, sock
  <2>2. Watched'
    BY <1>1 DEF Closing, Watched, WorkerWillDrain, Room, OutStage, hist, main, pipe, poll,
       sock
  <2> QED BY <2>1, <2>2
<1>2. CASE DrainTakes
  <2>1. Closing'
    BY <1>2 DEF Closing, Breaks, DrainTakes, TakesChunks, WGoto, hist, main
  <2>2. Watched'
    BY <1>2 DEF Watched, WorkerWillDrain, DrainTakes, TakesChunks, WGoto, main, poll
  <2> QED BY <2>1, <2>2
<1>3. CASE DrainShortens
  <2>1. Closing'
    BY <1>3 DEF Closing, Breaks, DrainShortens, Shortened, WGoto, hist, main, sock
  <2>2. Watched'
    BY <1>3 DEF Watched, WorkerWillDrain, DrainShortens, Shortened, WGoto, hist, main, poll,
       sock
  <2> QED BY <2>1, <2>2
<1>4. CASE DrainBlocks
  <2>1. Closing'
    BY <1>4 DEF Closing, Breaks, DrainBlocks, WGoto, hist, main, pipe, sock
  <2>2. Watched'
    BY <1>4 DEF Watched, WorkerWillDrain, Room, DrainBlocks, WouldBlock, main, pipe, poll,
       sock
  <2> QED BY <2>1, <2>2
<1>5. CASE DrainFails
  <2>1. Closing'
    BY <1>5 DEF Closing, Breaks, DrainFails, Fails, hist, main, pipe
  <2>2. Watched'
    BY <1>5 DEF Closing, Watched, WorkerWillDrain, DrainFails, Fails, main
  <2> QED BY <2>1, <2>2
<1>6. CASE DrainKilled
  <2>1. Closing'
    BY <1>6 DEF Closing, Breaks, DrainKilled, KillsBySignal, main, pipe, sock
  <2>2. Watched'
    BY <1>6 DEF Watched, WorkerWillDrain, DrainKilled, KillsBySignal, main, sock
  <2> QED BY <2>1, <2>2
<1>7. CASE DrainEmpty
  <2>1. Closing'
    BY <1>7 DEF Closing, Breaks, DrainEmpty, DrainLeaves, WGoto, hist, main, sock
  <2>2. Watched'
    BY <1>7 DEF Closing, Watched, WorkerWillDrain, DrainEmpty, DrainLeaves, hist, main,
       poll, sock
  <2> QED BY <2>1, <2>2
<1>8. CASE HupStage
  <2>1. Closing'
    BY <1>8 DEF Closing, Breaks, HupStage, hist, main, pipe, sock
  <2>2. Watched'
    BY <1>8 DEF Watched, WorkerWillDrain, Room, HupStage, hist, main, pipe, poll, sock
  <2> QED BY <2>1, <2>2
<1>9. CASE Post
  <2>1. Closing'
    <3>1. Breaks' => Breaks
      <4>1. CASE queue' = queue
        BY <1>9, <4>1 DEF Breaks, Post, main, hist
      <4>2. CASE queue' = Append(queue, eventType)
        <5>1. queue \in Seq({"RECV", "BREAK"}) /\ eventType' = eventType
          BY <1>9 DEF Post, TypeOK
        <5>2. ASSUME NEW i \in 1 .. Len(queue'), queue'[i] = "BREAK" PROVE Breaks
          <6>1. CASE i \in 1 .. Len(queue)
            BY <4>2, <5>1, <5>2, <6>1 DEF Breaks
          <6>2. CASE i = Len(queue) + 1
            BY <4>2, <5>1, <5>2, <6>2 DEF Breaks
          <6> QED BY <4>2, <5>1, <6>1, <6>2
        <5> QED BY <1>9, <5>1, <5>2 DEF Breaks, Post, main, hist
      <4> QED BY <1>9, <4>1, <4>2 DEF Post
    <3> QED BY <1>9, <3>1 DEF Closing, Post, WGoto, main, pipe, poll, sock, hist
  <2>2. Watched'
    BY <1>9 DEF Watched, WorkerWillDrain, Room, Post, WGoto, hist, main, pipe, poll, sock
  <2> QED BY <2>1, <2>2
<1> QED BY <1>1, <1>2, <1>3, <1>4, <1>5, <1>6, <1>7, <1>8, <1>9

LEMMA HandOff == Spec => [](Closing /\ Watched)
<1>1. Init => Closing /\ Watched
  BY DEF Init, Closing, Breaks, Watched, WorkerWillDrain
<1>2. TInv /\ Closing /\ Watched /\ [Next]_vars => Closing' /\ Watched'
  <2> SUFFICES ASSUME TInv, Closing, Watched, [Next]_vars PROVE Closing' /\ Watched'
    OBVIOUS
  <2>1. CASE UNCHANGED vars
    BY <2>1 DEF vars, pipe, sock, poll, main, work, hist, Closing, Breaks, Watched,
       WorkerWillDrain, Room
  <2>2. CASE Next
    BY <2>2, SocketHandsOff, AcceptHandsOff, SendHandsOff, EventHandsOff, ReceiveHandsOff,
       DrainHandsOff DEF Next, MainStep, WorkerStep
  <2> QED BY <2>1, <2>2
<1> QED BY <1>1, <1>2, Types, PTL DEF Spec

(***************************************************************************)
(* The hand-off of m_bNeedSend loses no chunk: when neither thread is at   *)
(* the send stream and it is not empty, epoll will wake the worker to send *)
(* it (CPipe.cpp 66-67, 171-172).                                          *)
(***************************************************************************)
THEOREM WorkerIsWoken == Spec => []StreamIsWatched
<1>1. Closing /\ Watched => StreamIsWatched
  BY DEF Closing, Watched, StreamIsWatched
<1> QED BY <1>1, HandOff, PTL

(***************************************************************************)
(* Close lets the chunks sent before it go out before the end of the       *)
(* connection is reported (CPipe.cpp 155-170).                             *)
(***************************************************************************)
THEOREM CloseSendsFirst == Spec => []CloseFlushes
<1>1. Closing => CloseFlushes
  BY DEF Closing, Breaks, CloseFlushes
<1> QED BY <1>1, HandOff, PTL

(***************************************************************************)
(* What the session is told, of a peer that ends with a FIN.  Once a BREAK *)
(* is on its way nothing is received any more: the worker has closed the   *)
(* socket, or the status keeps it from receiving.                          *)
(***************************************************************************)
FinOnly == Ends \subseteq {"fin"}

(* A BREAK the worker has queued. *)
Queued == \/ event = "BREAK" \/ breaks > 0
          \/ \E i \in 1 .. Len(queue) : queue[i] = "BREAK"

Phases ==
    /\ connects = 0 <=> mpc \in {"accept", "accepted"}
    /\ connects = 0 => closes = 0 /\ event = "none" /\ breaks = 0
    /\ closes > 0 => status # "ESTABLISHED"
    /\ mpc = "accept" => wpc = "wait" /\ mode = "off" /\ queue = <<>>

(* Neither the third stage of the worker nor an error of send comes in. *)
NoHup ==
    /\ peer # "rst" /\ "RDHUP" \notin mask /\ "HUP" \notin events
    /\ wpc \notin {"hupclose", "hupclosed"}
    /\ mpc = "posterr" => ~handler

(* What the worker knows when it has read the end, and when it has closed. *)
Ended ==
    /\ mpc # "accept" /\ ~handler =>
          /\ mode = "off"
          /\ wpc # "wait" =>
                eventType = "BREAK" /\ wpc \notin {"in", "recv", "recvclose", "recvclosed"}
    /\ wpc \in {"in", "recv"} => eventType # "BREAK"
    /\ wpc \in {"recvclose", "recvclosed"} => eventType = "BREAK" /\ inbox = 0 /\ peer # "open"
    /\ /\ eventType = "BREAK" /\ closes = 0
       /\ wpc \notin {"wait", "recvclose", "recvclosed"}
       => ~handler /\ inbox = 0 /\ peer # "open"

OneBreak ==
    /\ Queued => /\ wpc # "recv"
                 /\ closes = 0 => wpc = "wait" /\ ~handler /\ inbox = 0 /\ peer # "open"
    /\ closes = 0 =>
          /\ event = "BREAK" \/ breaks > 0 => queue = <<>>
          /\ event = "BREAK" => breaks = 0
          /\ breaks <= 1
          /\ \A i \in 1 .. Len(queue) : queue[i] = "BREAK" => i = Len(queue)

AllShown == /\ event = "BREAK" /\ mpc # "size" => unseen = 0
            /\ breaks > 0 => unseen = 0

Told == Phases /\ NoHup /\ Ended /\ OneBreak /\ AllShown

LEMMA SocketTells ==
    ASSUME FinOnly, TInv, Closing, Told,
           PeerSends \/ PeerReads \/ \E how \in Ends : PeerEnd(how)
    PROVE  Told'
<1> USE DEF TInv, AtStream, Called, Books, Told
<1>1. CASE PeerSends
  <2>1. Phases'
    BY <1>1 DEF Phases, PeerSends, main, pipe, work
  <2>2. NoHup'
    BY <1>1 DEF NoHup, PeerSends, main, pipe, work
  <2>3. Ended'
    BY <1>1 DEF Ended, PeerSends, main, pipe, work
  <2>4. OneBreak'
    BY <1>1 DEF OneBreak, Queued, PeerSends, main, work
  <2>5. AllShown'
    BY <1>1 DEF AllShown, PeerSends, main
  <2> QED BY <2>1, <2>2, <2>3, <2>4, <2>5
<1>2. CASE PeerReads
  <2>1. Phases'
    BY <1>2 DEF Phases, PeerReads, hist, main, pipe, work
  <2>2. NoHup'
    BY <1>2 DEF NoHup, PeerReads, main, pipe, work
  <2>3. Ended'
    BY <1>2 DEF Ended, PeerReads, hist, main, pipe, work
  <2>4. OneBreak'
    BY <1>2 DEF OneBreak, Queued, PeerReads, hist, main, pipe, work
  <2>5. AllShown'
    BY <1>2 DEF AllShown, PeerReads, hist, main
  <2> QED BY <2>1, <2>2, <2>3, <2>4, <2>5
<1>3. CASE \E how \in Ends : PeerEnd(how)
  <2>1. Phases'
    BY <1>3 DEF Phases, FinOnly, PeerEnd, hist, main, pipe, work
  <2>2. NoHup'
    BY <1>3 DEF NoHup, FinOnly, PeerEnd, main, pipe, work
  <2>3. Ended'
    BY <1>3 DEF Ended, FinOnly, PeerEnd, hist, main, pipe, work
  <2>4. OneBreak'
    BY <1>3 DEF OneBreak, Queued, FinOnly, PeerEnd, hist, main, work
  <2>5. AllShown'
    BY <1>3 DEF AllShown, FinOnly, PeerEnd, hist, main
  <2> QED BY <2>1, <2>2, <2>3, <2>4, <2>5
<1> QED BY <1>1, <1>2, <1>3

LEMMA AcceptTells ==
    ASSUME FinOnly, TInv, Closing, Told,
           Accept \/ AcceptSetStatus \/ OnConnectedReturns \/ CallClose \/ ClosePosts
    PROVE  Told'
<1> USE DEF TInv, AtStream, Called, Books, Told
<1>1. CASE Accept
  <2>1. Phases'
    BY <1>1 DEF Phases, Accept, MGoto, hist
  <2>2. NoHup'
    BY <1>1 DEF NoHup, Accept, MGoto, Register, sock, work
  <2>3. Ended'
    BY <1>1 DEF Ended, Phases, Accept, MGoto, work
  <2>4. OneBreak'
    BY <1>1 DEF OneBreak, Queued, Phases, Accept, MGoto, hist
  <2>5. AllShown'
    BY <1>1 DEF AllShown, Accept, MGoto, hist
  <2> QED BY <2>1, <2>2, <2>3, <2>4, <2>5
<1>2. CASE AcceptSetStatus
  <2>1. Phases'
    BY <1>2 DEF Phases, AcceptSetStatus, MGoto
  <2>2. NoHup'
    BY <1>2 DEF NoHup, AcceptSetStatus, MGoto, poll, sock, work
  <2>3. Ended'
    BY <1>2 DEF Ended, AcceptSetStatus, MGoto, poll, sock, work
  <2>4. OneBreak'
    BY <1>2 DEF OneBreak, Queued, AcceptSetStatus, sock, work
  <2>5. AllShown'
    BY <1>2 DEF AllShown, AcceptSetStatus, MGoto
  <2> QED BY <2>1, <2>2, <2>3, <2>4, <2>5
<1>3. CASE OnConnectedReturns
  <2>1. Phases'
    BY <1>3 DEF Phases, OnConnectedReturns, MGoto, hist, pipe
  <2>2. NoHup'
    BY <1>3 DEF NoHup, OnConnectedReturns, MGoto, poll, sock, work
  <2>3. Ended'
    BY <1>3 DEF Ended, OnConnectedReturns, MGoto, hist, pipe, poll, sock, work
  <2>4. OneBreak'
    BY <1>3 DEF OneBreak, Queued, OnConnectedReturns, hist, pipe, sock, work
  <2>5. AllShown'
    BY <1>3 DEF AllShown, OnConnectedReturns, MGoto, hist
  <2> QED BY <2>1, <2>2, <2>3, <2>4, <2>5
<1>4. CASE CallClose
  <2>1. Phases'
    BY <1>4 DEF Phases, CallClose, ApplicationRuns
  <2>2. NoHup'
    BY <1>4 DEF NoHup, CallClose, poll, sock, work
  <2>3. Ended'
    BY <1>4 DEF Ended, TypeOK, CallClose, ApplicationRuns, poll, sock, work
  <2>4. OneBreak'
    BY <1>4 DEF OneBreak, Queued, TypeOK, CallClose, work
  <2>5. AllShown'
    BY <1>4 DEF AllShown, CallClose, ApplicationRuns
  <2> QED BY <2>1, <2>2, <2>3, <2>4, <2>5
<1>5. CASE ClosePosts
  <2>1. Phases'
    BY <1>5 DEF Phases, TypeOK, ClosePosts, Return, pipe
  <2>2. NoHup'
    BY <1>5, BoundAssumption DEF NoHup, TypeOK, ClosePosts, PostOPT, Register, Return, poll,
       sock, work
  <2>3. Ended'
    BY <1>5 DEF Ended, ClosePosts, PostOPT, pipe, poll, sock, work
  <2>4. OneBreak'
    BY <1>5 DEF OneBreak, Queued, ClosePosts, pipe, sock, work
  <2>5. AllShown'
    BY <1>5 DEF AllShown, ClosePosts
  <2> QED BY <2>1, <2>2, <2>3, <2>4, <2>5
<1> QED BY <1>1, <1>2, <1>3, <1>4, <1>5

LEMMA SendTells ==
    ASSUME FinOnly, TInv, Closing, Told,
           CallSend \/ SendLocks \/ SendTakes \/ SendShortens \/ SendBlocks \/ SendFails \/
           SendKilled \/ SendDrained \/ SendPostsError
    PROVE  Told'
<1> USE DEF TInv, AtStream, Called, Books, Told
<1>1. CASE CallSend
  <2>1. Phases'
    BY <1>1 DEF Phases, CallSend, ApplicationRuns
  <2>2. NoHup'
    BY <1>1 DEF NoHup, CallSend, poll, sock, work
  <2>3. Ended'
    BY <1>1 DEF Ended, CallSend, ApplicationRuns, poll, sock, work
  <2>4. OneBreak'
    BY <1>1 DEF OneBreak, Queued, CallSend, sock, work
  <2>5. AllShown'
    BY <1>1 DEF AllShown, CallSend, ApplicationRuns
  <2> QED BY <2>1, <2>2, <2>3, <2>4, <2>5
<1>2. CASE SendLocks
  <2>1. Phases'
    BY <1>2 DEF Phases, TypeOK, SendLocks, Return, hist
  <2>2. NoHup'
    BY <1>2 DEF NoHup, TypeOK, SendLocks, Return, poll, sock, work
  <2>3. Ended'
    BY <1>2 DEF Ended, SendLocks, hist, poll, sock, work
  <2>4. OneBreak'
    BY <1>2 DEF OneBreak, Queued, SendLocks, hist, sock, work
  <2>5. AllShown'
    BY <1>2 DEF AllShown, SendLocks, hist
  <2> QED BY <2>1, <2>2, <2>3, <2>4, <2>5
<1>3. CASE SendTakes
  <2>1. Phases'
    BY <1>3 DEF Phases, SendTakes, MGoto, hist, pipe
  <2>2. NoHup'
    BY <1>3 DEF NoHup, SendTakes, MGoto, TakesChunks, poll, work
  <2>3. Ended'
    BY <1>3 DEF Ended, SendTakes, TakesChunks, hist, pipe, work
  <2>4. OneBreak'
    BY <1>3 DEF OneBreak, Queued, SendTakes, hist, work, TakesChunks
  <2>5. AllShown'
    BY <1>3 DEF AllShown, SendTakes, MGoto, hist
  <2> QED BY <2>1, <2>2, <2>3, <2>4, <2>5
<1>4. CASE SendShortens
  <2>1. Phases'
    BY <1>4 DEF Phases, SendShortens, MGoto, hist
  <2>2. NoHup'
    BY <1>4 DEF NoHup, SendShortens, MGoto, poll, sock, work
  <2>3. Ended'
    BY <1>4 DEF Ended, SendShortens, MGoto, hist, poll, sock, work
  <2>4. OneBreak'
    BY <1>4 DEF OneBreak, Queued, SendShortens, hist, sock, work
  <2>5. AllShown'
    BY <1>4 DEF AllShown, SendShortens, MGoto, hist
  <2> QED BY <2>1, <2>2, <2>3, <2>4, <2>5
<1>5. CASE SendBlocks
  <2>1. Phases'
    BY <1>5 DEF Phases, TypeOK, SendBlocks, Return, hist
  <2>2. NoHup'
    BY <1>5 DEF NoHup, TypeOK, SendBlocks, Return, poll, sock, work
  <2>3. Ended'
    BY <1>5 DEF Ended, SendBlocks, WouldBlock, hist, sock, work
  <2>4. OneBreak'
    BY <1>5 DEF OneBreak, Queued, SendBlocks, hist, sock, work
  <2>5. AllShown'
    BY <1>5 DEF AllShown, SendBlocks, hist
  <2> QED BY <2>1, <2>2, <2>3, <2>4, <2>5
<1>6. CASE SendFails
  <2>1. Phases'
    BY <1>6 DEF Phases, SendFails, MGoto, hist
  <2>2. NoHup'
    BY <1>6 DEF NoHup, SendFails, Fails, poll, work
  <2>3. Ended'
    BY <1>6 DEF Ended, SendFails, MGoto, hist, poll, work
  <2>4. OneBreak'
    BY <1>6 DEF OneBreak, Queued, SendFails, hist, work
  <2>5. AllShown'
    BY <1>6 DEF AllShown, SendFails, MGoto, hist
  <2> QED BY <2>1, <2>2, <2>3, <2>4, <2>5
<1>7. CASE SendKilled
  <2>1. Phases'
    BY <1>7 DEF Phases, SendKilled, main, pipe
  <2>2. NoHup'
    BY <1>7 DEF NoHup, SendKilled, KillsBySignal
  <2>3. Ended'
    BY <1>7 DEF Ended, SendKilled, KillsBySignal, pipe, sock, work
  <2>4. OneBreak'
    BY <1>7 DEF OneBreak, Queued, SendKilled, main, pipe, sock, work
  <2>5. AllShown'
    BY <1>7 DEF AllShown, SendKilled, main
  <2> QED BY <2>1, <2>2, <2>3, <2>4, <2>5
<1>8. CASE SendDrained
  <2>1. Phases'
    BY <1>8 DEF Phases, TypeOK, SendDrained, Return, hist
  <2>2. NoHup'
    BY <1>8 DEF NoHup, Closing, TypeOK, SendDrained, Return, poll, sock, work
  <2>3. Ended'
    BY <1>8 DEF Ended, SendDrained, hist, poll, sock, work
  <2>4. OneBreak'
    BY <1>8 DEF OneBreak, Queued, SendDrained, hist, sock, work
  <2>5. AllShown'
    BY <1>8 DEF AllShown, SendDrained, hist
  <2> QED BY <2>1, <2>2, <2>3, <2>4, <2>5
<1>9. CASE SendPostsError
  <2>1. Phases'
    BY <1>9 DEF Phases, TypeOK, SendPostsError, Return, pipe
  <2>2. NoHup'
    BY <1>9 DEF NoHup, SendPostsError, PostOPT, pipe, poll, sock, work
  <2>3. Ended'
    BY <1>9 DEF Ended, SendPostsError, PostOPT, pipe, poll, sock, work
  <2>4. OneBreak'
    BY <1>9 DEF OneBreak, Queued, SendPostsError, pipe, sock, work
  <2>5. AllShown'
    BY <1>9 DEF AllShown, SendPostsError
  <2> QED BY <2>1, <2>2, <2>3, <2>4, <2>5
<1> QED BY <1>1, <1>2, <1>3, <1>4, <1>5, <1>6, <1>7, <1>8, <1>9

LEMMA EventTells ==
    ASSUME FinOnly, TInv, Closing, Told,
           ReadEvent \/ TakeSize \/ OnRecvReturns \/ EventDone
    PROVE  Told'
<1> USE DEF TInv, AtStream, Called, Books, Told
<1>1. CASE ReadEvent
  <2>1. /\ queue \in Seq({"RECV", "BREAK"}) /\ queue # <<>>
        /\ event' = queue[1] /\ Len(queue') = Len(queue) - 1
        /\ \A i \in 1 .. Len(queue) - 1 : queue'[i] = queue[i + 1]
        /\ mpc = "loop" /\ mpc' = "size"
        /\ UNCHANGED <<closes, connects, breaks, unseen, handler, inbox, peer, wpc>>
    BY <1>1 DEF ReadEvent, MGoto, TypeOK, hist, pipe, sock, work
  <2>2. Phases' /\ NoHup' /\ Ended' /\ AllShown'
    BY <1>1, <2>1 DEF Phases, NoHup, Ended, AllShown, ReadEvent, pipe, poll, work
  <2>3. Queued' => Queued
    <3>1. Len(queue) \in Nat \ {0} /\ 1 \in 1 .. Len(queue)
      BY <2>1
    <3>2. event' = "BREAK" => Queued
      BY <2>1, <3>1 DEF Queued
    <3>3. ASSUME NEW i \in 1 .. Len(queue'), queue'[i] = "BREAK" PROVE Queued
      <4>1. i + 1 \in 1 .. Len(queue) /\ queue[i + 1] = "BREAK"
        BY <2>1, <3>1, <3>3
      <4> QED BY <4>1 DEF Queued
    <3> QED BY <2>1, <3>2, <3>3 DEF Queued
  <2>4. ASSUME closes = 0
        PROVE  /\ breaks = 0
               /\ event' = "BREAK" => queue' = <<>>
               /\ \A i \in 1 .. Len(queue') : queue'[i] = "BREAK" => i = Len(queue')
    <3>1. breaks = 0
      BY <2>1, <2>4 DEF OneBreak, TypeOK
    <3>2. event' = "BREAK" => Len(queue) = 1
      <4>1. 1 \in 1 .. Len(queue)
        BY <2>1
      <4> QED BY <2>1, <2>4, <4>1 DEF OneBreak
    <3>3. queue' \in Seq({"RECV", "BREAK"})
      BY <1>1, <2>1 DEF ReadEvent
    <3>4. event' = "BREAK" => queue' = <<>>
      BY <2>1, <3>2, <3>3
    <3>5. ASSUME NEW i \in 1 .. Len(queue'), queue'[i] = "BREAK" PROVE i = Len(queue')
      <4>1. i + 1 \in 1 .. Len(queue) /\ queue[i + 1] = "BREAK"
        BY <2>1, <3>3, <3>5
      <4> QED BY <2>1, <2>4, <4>1 DEF OneBreak
    <3> QED BY <3>1, <3>4, <3>5
  <2>5. OneBreak'
    BY <2>1, <2>3, <2>4 DEF OneBreak
  <2> QED BY <2>2, <2>5
<1>2. CASE TakeSize
  <2>1. Phases'
    BY <1>2 DEF Phases, TakeSize, pipe
  <2>2. NoHup'
    BY <1>2 DEF NoHup, TakeSize, poll, sock, work
  <2>3. Ended'
    BY <1>2 DEF Ended, TakeSize, pipe, poll, sock, work
  <2>4. OneBreak'
    BY <1>2 DEF OneBreak, Queued, TakeSize, pipe, sock, work
  <2>5. AllShown'
    BY <1>2 DEF AllShown, TypeOK, TakeSize
  <2> QED BY <2>1, <2>2, <2>3, <2>4, <2>5
<1>3. CASE OnRecvReturns
  <2>1. Phases'
    BY <1>3 DEF Phases, OnRecvReturns, hist
  <2>2. NoHup'
    BY <1>3 DEF NoHup, OnRecvReturns, poll, sock, work
  <2>3. Ended'
    BY <1>3 DEF Ended, OnRecvReturns, hist, poll, sock, work
  <2>4. OneBreak'
    BY <1>3 DEF OneBreak, Queued, OnRecvReturns, hist, sock, work
  <2>5. AllShown'
    BY <1>3 DEF AllShown, OnRecvReturns, hist
  <2> QED BY <2>1, <2>2, <2>3, <2>4, <2>5
<1>4. CASE EventDone
  <2>1. Phases'
    BY <1>4 DEF Phases, EventDone, MGoto, pipe
  <2>2. NoHup'
    BY <1>4 DEF NoHup, EventDone, MGoto, poll, sock, work
  <2>3. Ended'
    BY <1>4 DEF Ended, EventDone, MGoto, pipe, poll, sock, work
  <2>4. OneBreak'
    BY <1>4 DEF OneBreak, Queued, EventDone, pipe, sock, work
  <2>5. AllShown'
    BY <1>4 DEF AllShown, EventDone, MGoto
  <2> QED BY <2>1, <2>2, <2>3, <2>4, <2>5
<1> QED BY <1>1, <1>2, <1>3, <1>4

LEMMA ReceiveTells ==
    ASSUME FinOnly, TInv, Closing, Told,
           EpollWait \/ InStage \/ RecvTakes \/ RecvBlocks \/ RecvEnds \/ DoClose
    PROVE  Told'
<1> USE DEF TInv, AtStream, Called, Books, Told
<1>1. CASE EpollWait
  <2>1. Phases'
    BY <1>1 DEF Phases, EpollWait, hist, main, pipe, Reported
  <2>2. NoHup'
    BY <1>1 DEF NoHup, EpollWait, Ready, Reported, WGoto, main, pipe, sock
  <2>3. Ended'
    BY <1>1 DEF Ended, EpollWait, Reported, WGoto, main, pipe
  <2>4. OneBreak'
    BY <1>1 DEF OneBreak, Queued, Ended, Phases, EpollWait, WGoto, hist, main, Reported
  <2>5. AllShown'
    BY <1>1 DEF AllShown, EpollWait, hist, main
  <2> QED BY <2>1, <2>2, <2>3, <2>4, <2>5
<1>2. CASE InStage
  <2>1. Phases'
    BY <1>2 DEF Phases, InStage, hist, main, pipe
  <2>2. NoHup'
    BY <1>2 DEF NoHup, InStage, main, pipe, poll, sock
  <2>3. Ended'
    BY <1>2 DEF Ended, InStage, main, pipe
  <2>4. OneBreak'
    BY <1>2 DEF OneBreak, Queued, Phases, TypeOK, InStage, hist, main
  <2>5. AllShown'
    BY <1>2 DEF AllShown, InStage, hist, main
  <2> QED BY <2>1, <2>2, <2>3, <2>4, <2>5
<1>3. CASE RecvTakes
  <2>1. Phases'
    BY <1>3 DEF Phases, RecvTakes, WGoto, main
  <2>2. NoHup'
    BY <1>3 DEF NoHup, RecvTakes, WGoto, main, poll
  <2>3. Ended'
    BY <1>3 DEF Ended, RecvTakes, WGoto, main
  <2>4. OneBreak'
    BY <1>3 DEF OneBreak, Queued, RecvTakes, WGoto, main
  <2>5. AllShown'
    BY <1>3 DEF AllShown, OneBreak, Queued, RecvTakes, WGoto, main
  <2> QED BY <2>1, <2>2, <2>3, <2>4, <2>5
<1>4. CASE RecvBlocks
  <2>1. Phases'
    BY <1>4 DEF Phases, RecvBlocks, WGoto, hist, main, pipe
  <2>2. NoHup'
    BY <1>4 DEF NoHup, RecvBlocks, WGoto, main, pipe, poll, sock
  <2>3. Ended'
    BY <1>4 DEF Ended, RecvBlocks, WGoto, main, pipe
  <2>4. OneBreak'
    BY <1>4 DEF OneBreak, Queued, RecvBlocks, WGoto, hist, main
  <2>5. AllShown'
    BY <1>4 DEF AllShown, RecvBlocks, hist, main
  <2> QED BY <2>1, <2>2, <2>3, <2>4, <2>5
<1>5. CASE RecvEnds
  <2>1. Phases'
    BY <1>5 DEF Phases, RecvEnds, WGoto, hist, main, pipe
  <2>2. NoHup'
    BY <1>5 DEF NoHup, RecvEnds, WGoto, main, pipe, poll
  <2>3. Ended'
    BY <1>5 DEF Ended, RecvEnds, WGoto, main, pipe
  <2>4. OneBreak'
    BY <1>5 DEF OneBreak, Queued, RecvEnds, WGoto, hist, main
  <2>5. AllShown'
    BY <1>5 DEF AllShown, RecvEnds, hist, main
  <2> QED BY <2>1, <2>2, <2>3, <2>4, <2>5
<1>6. CASE DoClose
  <2>1. Phases'
    BY <1>6 DEF Phases, DoClose, DoCloseSocket, DoCloseStatus, WGoto, hist, main
  <2>2. NoHup'
    <3>1. wpc \in {"recvclose", "recvclosed"} /\ wpc' \in {"recvclosed", "out"}
      BY <1>6 DEF NoHup, DoClose, DoCloseStatus, DoCloseSocket, WGoto
    <3>2. /\ UNCHANGED <<peer, events, mpc>> /\ mask' \subseteq mask
          /\ ~handler => ~handler'
      BY <1>6 DEF DoClose, DoCloseStatus, DoCloseSocket, main, sock, poll
    <3> QED BY <3>1, <3>2 DEF NoHup
  <2>3. Ended'
    BY <1>6 DEF Ended, NoHup, DoClose, DoCloseSocket, DoCloseStatus, WGoto, main, sock
  <2>4. OneBreak'
    BY <1>6 DEF OneBreak, Queued, DoClose, DoCloseSocket, DoCloseStatus, WGoto, hist, main
  <2>5. AllShown'
    BY <1>6 DEF AllShown, DoClose, DoCloseSocket, DoCloseStatus, hist, main
  <2> QED BY <2>1, <2>2, <2>3, <2>4, <2>5
<1> QED BY <1>1, <1>2, <1>3, <1>4, <1>5, <1>6

LEMMA DrainTells ==
    ASSUME FinOnly, TInv, Closing, Told,
           OutStage \/ DrainTakes \/ DrainShortens \/ DrainBlocks \/ DrainFails \/
           DrainKilled \/ DrainEmpty \/ HupStage \/ Post
    PROVE  Told'
<1> USE DEF TInv, AtStream, Called, Books, Told
<1>1. CASE OutStage
  <2>1. Phases'
    BY <1>1 DEF Phases, OutStage, hist, main, pipe
  <2>2. NoHup'
    BY <1>1 DEF NoHup, OutStage, main, pipe, poll, sock
  <2>3. Ended'
    BY <1>1 DEF Ended, OutStage, hist, main, pipe, poll, sock
  <2>4. OneBreak'
    BY <1>1 DEF OneBreak, Queued, OutStage, hist, main
  <2>5. AllShown'
    BY <1>1 DEF AllShown, OutStage, hist, main
  <2> QED BY <2>1, <2>2, <2>3, <2>4, <2>5
<1>2. CASE DrainTakes
  <2>1. Phases'
    BY <1>2 DEF Phases, DrainTakes, WGoto, hist, main
  <2>2. NoHup'
    BY <1>2 DEF NoHup, DrainTakes, TakesChunks, WGoto, main, poll
  <2>3. Ended'
    BY <1>2 DEF Ended, DrainTakes, TakesChunks, WGoto, hist
  <2>4. OneBreak'
    BY <1>2 DEF OneBreak, Queued, DrainTakes, WGoto, hist, main
  <2>5. AllShown'
    BY <1>2 DEF AllShown, DrainTakes, hist, main
  <2> QED BY <2>1, <2>2, <2>3, <2>4, <2>5
<1>3. CASE DrainShortens
  <2>1. Phases'
    BY <1>3 DEF Phases, DrainShortens, WGoto, hist, main
  <2>2. NoHup'
    BY <1>3 DEF NoHup, DrainShortens, WGoto, main, poll, sock
  <2>3. Ended'
    BY <1>3 DEF Ended, DrainShortens, WGoto, hist, main, poll, sock
  <2>4. OneBreak'
    BY <1>3 DEF OneBreak, Queued, DrainShortens, WGoto, hist, main
  <2>5. AllShown'
    BY <1>3 DEF AllShown, DrainShortens, hist, main
  <2> QED BY <2>1, <2>2, <2>3, <2>4, <2>5
<1>4. CASE DrainBlocks
  <2>1. Phases'
    BY <1>4 DEF Phases, DrainBlocks, WGoto, hist, main, pipe
  <2>2. NoHup'
    BY <1>4 DEF NoHup, DrainBlocks, WGoto, WouldBlock, main, poll, sock
  <2>3. Ended'
    BY <1>4 DEF Ended, DrainBlocks, WGoto, WouldBlock, hist, pipe
  <2>4. OneBreak'
    BY <1>4 DEF OneBreak, Queued, DrainBlocks, WGoto, hist, main
  <2>5. AllShown'
    BY <1>4 DEF AllShown, DrainBlocks, hist, main
  <2> QED BY <2>1, <2>2, <2>3, <2>4, <2>5
<1>5. CASE DrainFails
  <2>1. Phases'
    BY <1>5 DEF Phases, DrainFails, WGoto, hist, main, pipe
  <2>2. NoHup'
    BY <1>5 DEF NoHup, DrainFails, Fails, WGoto, pipe, poll
  <2>3. Ended'
    BY <1>5 DEF Ended, NoHup, Phases, DrainFails, Fails, WGoto, hist, pipe, poll
  <2>4. OneBreak'
    BY <1>5 DEF OneBreak, Queued, DrainFails, WGoto, hist, main
  <2>5. AllShown'
    BY <1>5 DEF AllShown, DrainFails, hist, main
  <2> QED BY <2>1, <2>2, <2>3, <2>4, <2>5
<1>6. CASE DrainKilled
  <2>1. Phases'
    BY <1>6 DEF Phases, DrainKilled, main, pipe
  <2>2. NoHup'
    BY <1>6 DEF NoHup, DrainKilled, KillsBySignal
  <2>3. Ended'
    BY <1>6 DEF Ended, DrainKilled, KillsBySignal, pipe, work
  <2>4. OneBreak'
    BY <1>6 DEF OneBreak, Queued, DrainKilled, main, work
  <2>5. AllShown'
    BY <1>6 DEF AllShown, DrainKilled, main
  <2> QED BY <2>1, <2>2, <2>3, <2>4, <2>5
<1>7. CASE DrainEmpty
  <2>1. Phases'
    BY <1>7 DEF Phases, DrainEmpty, DrainLeaves, WGoto, hist, main
  <2>2. NoHup'
    BY <1>7 DEF NoHup, DrainEmpty, DrainLeaves, WGoto, main, poll, sock
  <2>3. Ended'
    BY <1>7 DEF Ended, Closing, DrainEmpty, DrainLeaves, WGoto, hist, poll, sock
  <2>4. OneBreak'
    BY <1>7 DEF OneBreak, Queued, DrainEmpty, DrainLeaves, WGoto, hist, main
  <2>5. AllShown'
    BY <1>7 DEF AllShown, DrainEmpty, DrainLeaves, hist, main
  <2> QED BY <2>1, <2>2, <2>3, <2>4, <2>5
<1>8. CASE HupStage
  <2>1. Phases'
    BY <1>8 DEF Phases, HupStage, hist, main, pipe
  <2>2. NoHup'
    BY <1>8 DEF NoHup, HupStage, main, pipe, poll, sock
  <2>3. Ended'
    BY <1>8 DEF Ended, HupStage, hist, main, pipe, poll, sock
  <2>4. OneBreak'
    BY <1>8 DEF OneBreak, Queued, HupStage, hist, main
  <2>5. AllShown'
    BY <1>8 DEF AllShown, HupStage, hist, main
  <2> QED BY <2>1, <2>2, <2>3, <2>4, <2>5
<1>9. CASE Post
  <2>1. Phases' /\ NoHup' /\ Ended'
    BY <1>9 DEF Phases, NoHup, Ended, Post, WGoto, hist, main, pipe, poll, sock
  <2>2. OneBreak'
    <3>1. CASE queue' = queue
      BY <1>9, <3>1 DEF OneBreak, Queued, Post, WGoto, hist, main
    <3>2. CASE queue' = Append(queue, eventType) /\ eventType # "none"
      <4>1. /\ queue \in Seq({"RECV", "BREAK"}) /\ eventType \in {"RECV", "BREAK"}
            /\ Len(queue') = Len(queue) + 1 /\ queue'[Len(queue) + 1] = eventType
            /\ \A i \in 1 .. Len(queue) : queue'[i] = queue[i]
        BY <3>2 DEF TypeOK
      <4>2. /\ wpc = "post" /\ wpc' = "wait"
            /\ UNCHANGED <<event, breaks, closes, handler, inbox, peer>>
        BY <1>9 DEF Post, WGoto, hist, main, pipe, sock
      <4>3. closes = 0 =>
               /\ ~Queued
               /\ eventType = "BREAK" => ~handler /\ inbox = 0 /\ peer # "open"
        BY <4>2 DEF OneBreak, Ended
      <4>4. ASSUME closes = 0, NEW i \in 1 .. Len(queue'), queue'[i] = "BREAK"
            PROVE  i = Len(queue') /\ eventType = "BREAK"
        <5>1. CASE i \in 1 .. Len(queue)
          BY <4>1, <4>3, <4>4, <5>1 DEF Queued
        <5>2. CASE i = Len(queue) + 1
          BY <4>1, <4>4, <5>2
        <5> QED BY <4>1, <5>1,
             <5>2
      <4>5. closes = 0 => event # "BREAK" /\ breaks = 0
        BY <4>3
             DEF Queued, TypeOK
      <4> QED BY <4>2, <4>3, <4>4, <4>5 DEF OneBreak, Queued
    <3> QED BY <1>9, <3>1, <3>2 DEF Post
  <2>3. AllShown'
    BY <1>9 DEF AllShown, Post, main, hist
  <2> QED BY <2>1, <2>2, <2>3
<1> QED BY <1>1, <1>2, <1>3, <1>4, <1>5, <1>6, <1>7, <1>8, <1>9

LEMMA AlwaysTold == FinOnly => (Spec => []Told)
<1> SUFFICES ASSUME FinOnly PROVE Spec => []Told
  OBVIOUS
<1>1. Init => Told
  BY DEF Init, Told, Phases, NoHup, Ended, OneBreak, AllShown, Queued
<1>2. TInv /\ Closing /\ Told /\ [Next]_vars => Told'
  <2> SUFFICES ASSUME TInv, Closing, Told, [Next]_vars PROVE Told'
    OBVIOUS
  <2>1. CASE UNCHANGED vars
    BY <2>1 DEF vars, pipe, sock, poll, main, work, hist, Told, Phases, NoHup, Ended,
       OneBreak, AllShown, Queued
  <2>2. CASE Next
    BY <2>2, SocketTells, AcceptTells, SendTells, EventTells, ReceiveTells, DrainTells
       DEF Next, MainStep, WorkerStep
  <2> QED BY <2>1, <2>2
<1> QED BY <1>1, <1>2, Types, HandOff, PTL DEF Spec

(***************************************************************************)
(* The refinement: what a step of the connection is for its session.       *)
(***************************************************************************)
Phase == IF connects = 0 THEN "new"
         ELSE IF breaks = 0 THEN "connected"
         ELSE IF breaks = 1 \/ closes > 0 THEN "disconnected" ELSE "twice"
Shown == arrived - inbox - unseen

\* A step that leaves the session's view alone.
LEMMA Unseen ==
    ASSUME UNCHANGED <<arrived, inbox, unseen, peer, closes, connects, breaks>>
    PROVE  UNCHANGED Session!vars
BY DEF Session!vars

LEMMA PeerStep ==
    ASSUME TInv, Told, FinOnly, PeerSends \/ \E how \in Ends : PeerEnd(how)
    PROVE  [Session!Next]_(Session!vars)
<1> USE DEF TInv, TypeOK
<1>1. CASE PeerSends
  <2>1. /\ peer = "open" /\ arrived < MaxIn /\ arrived' = arrived + 1 /\ inbox' = inbox + 1
        /\ UNCHANGED <<peer, unseen, closes, connects, breaks>>
    BY <1>1 DEF PeerSends
  <2>2. Shown' = Shown
    BY <2>1 DEF Shown
  <2>3. Session!PeerSends
    BY <2>1, <2>2 DEF Session!PeerSends, Shown
  <2> QED BY <2>3 DEF Session!Next
<1>2. CASE \E how \in Ends : PeerEnd(how)
  <2>1. Session!PeerEnds
    BY <1>2 DEF PeerEnd, Session!PeerEnds, hist, FinOnly
  <2> QED BY <2>1 DEF Session!Next
<1> QED BY <1>1, <1>2

LEMMA SessionStep ==
    ASSUME TInv, Told, AcceptSetStatus \/ CallClose \/ TakeSize \/ EventDone \/ RecvTakes
    PROVE  [Session!Next]_(Session!vars)
<1> USE DEF TInv, TypeOK, Told, Books
<1>1. CASE AcceptSetStatus
  <2>1. Session!OnConnected
    BY <1>1 DEF AcceptSetStatus, MGoto, Phases, Session!OnConnected, sock
  <2> QED BY <2>1 DEF Session!Next
<1>2. CASE CallClose
  <2>1. /\ closes' = closes + 1 /\ closes \in Nat
        /\ UNCHANGED <<arrived, inbox, unseen, peer, connects, breaks>>
    BY <1>2 DEF CallClose, sock
  <2>2. Phase' = Phase
    BY <2>1 DEF OneBreak, Phase
  <2>3. CASE closes = 0
    <3>1. Session!Close
      BY <2>1, <2>2, <2>3 DEF Session!Close, Phase
    <3> QED BY <3>1 DEF Session!Next
  <2>4. CASE closes > 0
    BY <2>1, <2>2, <2>4 DEF Session!vars, Phase
  <2> QED BY <2>1, <2>3, <2>4
<1>3. CASE TakeSize
  <2>1. CASE unseen = 0
    <3>1. unseen' = 0
      BY <1>3, <2>1 DEF TakeSize
    <3> QED BY <1>3, <2>1, <3>1, Unseen DEF TakeSize, sock
  <2>2. CASE unseen > 0
    <3>1. /\ mpc = "size" /\ unseen' = 0
          /\ UNCHANGED <<arrived, inbox, peer, closes, connects, breaks>>
      BY <1>3, <2>2 DEF TakeSize, sock
    <3>2. connects # 0 /\ breaks = 0
      BY <2>2, <3>1 DEF Phases, AllShown
    <3>3. Shown' \in Shown + 1 .. arrived
      BY <2>2, <3>1 DEF Shown
    <3>4. Session!OnRecv
      BY <3>1, <3>2, <3>3 DEF Session!OnRecv, Shown
    <3> QED BY <3>4 DEF Session!Next
  <2> QED BY <2>1, <2>2, BoundAssumption
<1>4. CASE EventDone
  <2>1. /\ mpc = "shown" /\ breaks' = IF event = "BREAK" THEN breaks + 1 ELSE breaks
        /\ UNCHANGED <<arrived, inbox, unseen, peer, closes, connects>>
    BY <1>4 DEF EventDone, MGoto, sock
  <2>2. connects # 0
    BY <2>1 DEF Phases
  <2>3. CASE event = "BREAK" /\ breaks = 0
    <3>1. unseen = 0 /\ (closes = 0 => inbox = 0 /\ peer # "open")
      BY <2>1, <2>3 DEF AllShown, OneBreak, Queued
    <3>2. Session!OnDisconnect
      BY <2>1, <2>2, <2>3, <3>1 DEF Session!OnDisconnect
    <3> QED BY <3>2 DEF Session!Next
  <2>4. CASE event = "BREAK" /\ breaks > 0
    <3>1. closes > 0
      BY <2>4 DEF OneBreak
    <3>2. Phase' = Phase
      BY <2>1, <2>2, <2>4, <3>1 DEF Phase
    <3> QED BY <2>1, <3>2 DEF Session!vars, Phase
  <2>5. CASE event # "BREAK"
    BY <2>1, <2>5, Unseen
  <2> QED BY <2>3, <2>4, <2>5
<1>5. CASE RecvTakes
  <2>1. /\ inbox' = inbox - 1 /\ unseen' = unseen + 1
        /\ UNCHANGED <<arrived, peer, closes, connects, breaks>>
    BY <1>5 DEF RecvTakes
  <2>2. Shown' = Shown
    BY <2>1 DEF Shown
  <2> QED BY <2>1, <2>2 DEF Session!vars, Shown
<1> QED BY <1>1, <1>2, <1>3, <1>4, <1>5

LEMMA OtherStep ==
    ASSUME Next, ~(AcceptSetStatus \/ CallClose \/ TakeSize \/ EventDone \/ RecvTakes),
           ~(PeerSends \/ \E how \in Ends : PeerEnd(how))
    PROVE  UNCHANGED Session!vars
<1>1. UNCHANGED <<arrived, inbox, unseen, peer, closes, connects, breaks>>
  BY DEF Next, MainStep, WorkerStep, PeerReads, Accept, OnConnectedReturns, CallSend,
         ClosePosts, SendLocks, SendTakes, SendShortens, SendBlocks, SendFails, SendKilled,
         SendDrained, SendPostsError, ReadEvent, OnRecvReturns, EpollWait, InStage,
         RecvBlocks, RecvEnds, DoClose, DoCloseStatus, DoCloseSocket, OutStage, DrainTakes,
         DrainShortens, DrainBlocks, DrainFails, DrainKilled, DrainEmpty, DrainLeaves,
         HupStage, Post, TakesChunks, Fails, hist, sock
<1> QED BY <1>1, Unseen

(***************************************************************************)
(* Of a peer that ends with a FIN the session is told as SessionContract   *)
(* says: OnConnected first, and OnDisconnect once, after everything the    *)
(* peer has sent or after the session's own Close, however the threads     *)
(* interleave (epollWorker.cpp 20-40, CPipe.cpp 42-49, 116-131).           *)
(***************************************************************************)
THEOREM SessionKept == FinOnly => (Spec => KeepsSession)
<1> SUFFICES ASSUME FinOnly PROVE Spec => KeepsSession
  OBVIOUS
<1>1. Init => Session!Init
  BY DEF Init, Session!Init
<1>2. TInv /\ Told /\ [Next]_vars => [Session!Next]_(Session!vars)
  <2> SUFFICES ASSUME TInv, Told, [Next]_vars PROVE [Session!Next]_(Session!vars)
    OBVIOUS
  <2>1. CASE UNCHANGED vars
    BY <2>1, Unseen DEF vars, sock, hist
  <2>2. CASE Next
    BY <2>2, PeerStep, SessionStep, OtherStep
  <2> QED BY <2>1, <2>2
<1> QED BY <1>1, <1>2, Types, AlwaysTold, PTL DEF Spec, KeepsSession, Session!Spec

(***************************************************************************)
(* Nothing is missed, of a peer that ends with a FIN: why an entry of      *)
(* epoll that is only told of changes, and a worker that serves one entry  *)
(* at a time, are enough.  Until a BREAK is under way the entry stays as   *)
(* Accept registered it, or as Close registers it when all is sent.        *)
(***************************************************************************)
\* A BREAK is queued, or the worker is about to queue it.
BreakComes == Queued \/ (eventType = "BREAK" /\ wpc # "wait")

WatchesIn == "IN" \in mask /\ mode # "off" /\ armed
WatchesOut == "OUT" \in mask /\ mode # "off" /\ (Room = 0 \/ armed)
WorkerWillReceive == wpc = "recv" \/ (wpc = "in" /\ "IN" \in events)

\* What has arrived, and the peer's end, will be read.
ArrivalIsWatched ==
    closes = 0 /\ mpc # "accept" /\ (inbox > 0 \/ peer # "open") =>
        BreakComes \/ (status = "ESTABLISHED" /\ (WatchesIn \/ WorkerWillReceive))

\* What the worker has to send will be sent, also to a peer that has ended.
SendingIsWatched ==
    out # <<>> /\ mpc \notin {"send", "sending", "taken"} =>
        BreakComes \/ WorkerWillDrain \/ WatchesOut

\* A Close that has returned will be noticed by the worker.
CloseIsWatched ==
    closes > 0 /\ mpc # "close" =>
        BreakComes \/ (status = "WAITCLOSE" /\ (WorkerWillDrain \/ WatchesOut))

NothingMissed == ArrivalIsWatched /\ SendingIsWatched /\ CloseIsWatched

\* The pipe and its entry until a BREAK is under way.
Entry ==
    mpc # "accept" /\ ~BreakComes =>
        /\ handler /\ status = (IF closes = 0 THEN "ESTABLISHED" ELSE "WAITCLOSE")
        /\ closes = 0 \/ out # <<>> => mode = "ET" /\ mask = {"IN", "OUT"}
        /\ mode \in {"ET", "off"} \/ (mode = "ONESHOT" /\ mask = {"OUT"})
        /\ needSend /\ mpc \notin {"send", "sending", "taken"} => out = <<>>

Woken ==
    mpc # "accept" /\ ~BreakComes =>
        /\ closes = 0 /\ (inbox > 0 \/ peer # "open") => armed \/ WorkerWillReceive
        /\ ~needSend \/ (closes > 0 /\ mpc # "close") => WorkerWillDrain \/ WatchesOut

\* Between two events none is in hand.
Idle == \/ mpc \in {"accept", "accepted", "onconnected", "loop"}
        \/ mpc \in Called /\ caller # "onrecv"
        => event = "none"

LEMMA StepIdle == TInv /\ Idle /\ [Next]_vars => Idle'
<1> SUFFICES ASSUME TInv, Idle, [Next]_vars PROVE Idle'
  OBVIOUS
<1>1. CASE WorkerStep \/ PeerSends \/ PeerReads \/ (\E how \in Ends : PeerEnd(how))
           \/ UNCHANGED vars
  <2>1. UNCHANGED <<mpc, caller, event>>
    BY <1>1 DEF WorkerStep, EpollWait, InStage, RecvTakes, RecvBlocks, RecvEnds, DoClose,
           DoCloseStatus, DoCloseSocket, OutStage, DrainTakes, DrainShortens, DrainBlocks,
           DrainFails, DrainKilled, DrainEmpty, DrainLeaves, HupStage, Post, PeerSends,
           PeerReads, PeerEnd, vars, main
  <2> QED BY <2>1 DEF Idle
<1>2. CASE MainStep \/ CallSend \/ CallClose
  BY <1>2 DEF MainStep, Accept, AcceptSetStatus, OnConnectedReturns, SendLocks, SendTakes,
         SendShortens, SendBlocks, SendFails, SendKilled, SendDrained, SendPostsError,
         ClosePosts, ReadEvent, TakeSize, OnRecvReturns, EventDone, CallSend, CallClose,
         ApplicationRuns, MGoto, Return, main, Idle, Called, TInv, Books
<1> QED BY <1>1, <1>2 DEF Next

\* What the queue holds after one event more or less.
LEMMA QueueMoves ==
    ASSUME QueueOK
    PROVE  /\ queue # <<>> =>
                 \A i \in 1 .. Len(queue) :
                    queue[i] = "BREAK" =>
                        \/ Head(queue) = "BREAK"
                        \/ \E j \in 1 .. Len(Tail(queue)) : Tail(queue)[j] = "BREAK"
           /\ \A e \in {"RECV", "BREAK"} :
                 \A i \in 1 .. Len(queue) + 1 :
                    /\ Len(Append(queue, e)) = Len(queue) + 1
                    /\ Append(queue, e)[i] = IF i = Len(queue) + 1 THEN e ELSE queue[i]
<1>1. queue \in Seq({"RECV", "BREAK"}) /\ Len(queue) \in Nat
  BY DEF QueueOK
<1>2. ASSUME queue # <<>>, NEW i \in 1 .. Len(queue), queue[i] = "BREAK", Head(queue) # "BREAK"
      PROVE  \E j \in 1 .. Len(Tail(queue)) : Tail(queue)[j] = "BREAK"
  <2>1. i # 1 /\ i - 1 \in 1 .. Len(queue) - 1
    BY <1>1, <1>2
  <2>2. Len(Tail(queue)) = Len(queue) - 1 /\ Tail(queue)[i - 1] = queue[i]
    BY <1>1, <1>2, <2>1
  <2> QED BY <1>2, <2>1, <2>2
<1>3. \A e \in {"RECV", "BREAK"} :
         \A i \in 1 .. Len(queue) + 1 :
            /\ Len(Append(queue, e)) = Len(queue) + 1
            /\ Append(queue, e)[i] = IF i = Len(queue) + 1 THEN e ELSE queue[i]
  BY <1>1
<1> QED BY <1>2, <1>3

LEMMA BreakStays == ASSUME TInv, Told, Idle, [Next]_vars PROVE BreakComes => BreakComes'
<1> SUFFICES ASSUME BreakComes PROVE BreakComes'
  OBVIOUS
<1> USE DEF TInv
<1>1. CASE ReadEvent
  <2>1. /\ event' = Head(queue) /\ queue' = Tail(queue) /\ queue # <<>>
        /\ mpc = "loop" /\ UNCHANGED <<wpc, eventType, breaks>>
    BY <1>1 DEF ReadEvent, MGoto, work, hist
  <2>2. event # "BREAK"
    BY <2>1 DEF Idle
  <2>3. CASE \E i \in 1 .. Len(queue) : queue[i] = "BREAK"
    <3>1. \/ event' = "BREAK"
          \/ \E j \in 1 .. Len(queue') : queue'[j] = "BREAK"
      BY <2>1, <2>3, TypeParts, QueueMoves
    <3> QED BY <3>1 DEF BreakComes, Queued
  <2>4. CASE breaks > 0 \/ (eventType = "BREAK" /\ wpc # "wait")
    BY <2>1, <2>4 DEF BreakComes, Queued
  <2> QED BY <2>2, <2>3, <2>4 DEF BreakComes, Queued
<1>2. CASE EventDone
  BY <1>2 DEF EventDone, TypeOK, BreakComes, Queued, work
<1>3. CASE Post
  <2>1. /\ wpc = "post" /\ UNCHANGED <<event, breaks>>
        /\ eventType = "none" => UNCHANGED queue
        /\ eventType # "none" => queue' = Append(queue, eventType)
    BY <1>3 DEF Post, WGoto, main, hist
  <2>2. QueueOK /\ Len(queue) \in Nat /\ eventType \in {"none", "RECV", "BREAK"}
    BY DEF TypeOK, QueueOK
  <2>3. CASE event = "BREAK" \/ breaks > 0 \/ eventType = "none"
    BY <2>1, <2>3 DEF BreakComes, Queued
  <2>4. CASE eventType # "none"
    <3>1. /\ Len(queue') = Len(queue) + 1
          /\ \A i \in 1 .. Len(queue) + 1 :
                queue'[i] = IF i = Len(queue) + 1 THEN eventType ELSE queue[i]
      BY <2>1, <2>2, <2>4, QueueMoves
    <3>2. CASE \E i \in 1 .. Len(queue) : queue[i] = "BREAK"
      <4>1. PICK i \in 1 .. Len(queue) : queue[i] = "BREAK"
        BY <3>2
      <4>2. i \in 1 .. Len(queue') /\ queue'[i] = "BREAK"
        BY <2>2, <3>1, <4>1
      <4> QED BY <4>2 DEF BreakComes, Queued
    <3>3. CASE eventType = "BREAK"
      <4>1. Len(queue) + 1 \in 1 .. Len(queue') /\ queue'[Len(queue) + 1] = "BREAK"
        BY <2>2, <3>1, <3>3
      <4> QED BY <4>1 DEF BreakComes, Queued
    <3> QED BY <2>3, <3>2, <3>3 DEF BreakComes, Queued
  <2> QED BY <2>3, <2>4
<1>4. CASE \/ EpollWait \/ InStage \/ RecvTakes \/ RecvBlocks \/ RecvEnds \/ DoClose
           \/ OutStage \/ DrainTakes \/ DrainShortens \/ DrainBlocks \/ DrainFails
           \/ DrainKilled \/ DrainEmpty \/ HupStage
  <2>1. UNCHANGED <<event, breaks, queue>>
    BY <1>4 DEF EpollWait, InStage, RecvTakes, RecvBlocks, RecvEnds, DoClose, DoCloseStatus,
           DoCloseSocket, OutStage, DrainTakes, DrainShortens, DrainBlocks, DrainFails,
           DrainKilled, DrainEmpty, DrainLeaves, HupStage, main, hist
  <2>2. eventType = "BREAK" /\ wpc # "wait" => eventType' = "BREAK" /\ wpc' # "wait"
    BY <1>4 DEF EpollWait, InStage, RecvTakes, RecvBlocks, RecvEnds, DoClose, DoCloseStatus,
           DoCloseSocket, OutStage, DrainTakes, DrainShortens, DrainBlocks, DrainFails,
           DrainKilled, DrainEmpty, DrainLeaves, HupStage, WGoto, work, Told, Ended
  <2> QED BY <2>1, <2>2 DEF BreakComes, Queued
<1>5. CASE \/ Accept \/ AcceptSetStatus \/ OnConnectedReturns
           \/ SendLocks \/ SendTakes \/ SendShortens \/ SendBlocks \/ SendFails
           \/ SendKilled \/ SendDrained \/ SendPostsError \/ ClosePosts
           \/ TakeSize \/ OnRecvReturns \/ CallSend \/ CallClose
           \/ PeerSends \/ PeerReads \/ (\E how \in Ends : PeerEnd(how)) \/ UNCHANGED vars
  <2>1. UNCHANGED <<event, breaks, queue, eventType, wpc>>
    BY <1>5 DEF Accept, AcceptSetStatus, OnConnectedReturns, SendLocks, SendTakes,
           SendShortens, SendBlocks, SendFails, SendKilled, SendDrained, SendPostsError,
           ClosePosts, TakeSize, OnRecvReturns, CallSend, CallClose, PeerSends, PeerReads,
           PeerEnd, vars, main, hist, work
  <2> QED BY <2>1 DEF BreakComes, Queued
<1> QED BY <1>1, <1>2, <1>3, <1>4, <1>5 DEF Next, MainStep, WorkerStep

\* How the steps of the peer and of the main thread keep the watch.
LEMMA SocketWatches ==
    ASSUME FinOnly, TInv, Closing, Told, Entry, Woken, BreakComes => BreakComes',
           PeerSends \/ PeerReads \/ \E how \in Ends : PeerEnd(how)
    PROVE  Entry' /\ Woken'
<1> USE DEF TInv, TypeOK, Entry, Woken, WorkerWillDrain, WorkerWillReceive, WatchesOut, Room,
            Signal
<1>1. CASE PeerSends
  BY <1>1 DEF PeerSends, pipe, main, work
<1>2. CASE PeerReads
  BY <1>2, BoundAssumption DEF PeerReads, pipe, main, work, hist
<1>3. CASE \E how \in Ends : PeerEnd(how)
  BY <1>3 DEF PeerEnd, pipe, main, work, hist
<1> QED BY <1>1, <1>2, <1>3

LEMMA AcceptWatches ==
    ASSUME FinOnly, TInv, Closing, Told, Entry, Woken, BreakComes => BreakComes',
           Accept \/ AcceptSetStatus \/ OnConnectedReturns \/ CallClose \/ ClosePosts
    PROVE  Entry' /\ Woken'
<1> USE DEF TInv, TypeOK, Entry, Woken, WorkerWillDrain, WorkerWillReceive, WatchesOut, Room
<1>1. CASE Accept
  BY <1>1 DEF Accept, MGoto, Register, Ready, Closing, sock, work, hist
<1>2. CASE AcceptSetStatus
  BY <1>2 DEF AcceptSetStatus, MGoto, Told, Phases, poll, sock, work
<1>3. CASE OnConnectedReturns
  BY <1>3 DEF OnConnectedReturns, MGoto, pipe, poll, sock, work, hist
<1>4. CASE CallClose
  BY <1>4 DEF CallClose, ApplicationRuns, poll, sock, work
<1>5. CASE ClosePosts
  <2>1. /\ mpc = "close" /\ mpc' = caller /\ closes > 0
        /\ UNCHANGED <<status, handler, needSend, out, unread, inbox, peer, wpc, events, closes>>
    BY <1>5 DEF ClosePosts, Return, Closing, pipe, sock, work
  <2>2. CASE ~needSend
    BY <1>5, <2>1, <2>2 DEF ClosePosts, poll
  <2>3. CASE needSend /\ ~BreakComes
    <3>1. handler /\ out = <<>>
      BY <2>1, <2>3
    <3>2. Register({"OUT"}, "ONESHOT")
      BY <1>5, <2>3, <3>1 DEF ClosePosts, PostOPT
    <3>3. WatchesOut'
      BY <2>1, <3>2, BoundAssumption DEF Register, Ready
    <3>4. Register({"OUT"}, "ONESHOT") => mask' = {"OUT"} /\ mode' = "ONESHOT"
      BY DEF Register
    <3> HIDE DEF WatchesOut
    <3> QED BY <2>1, <2>3, <3>1, <3>2, <3>3, <3>4
  <2> QED BY <2>2, <2>3
<1> QED BY <1>1, <1>2, <1>3, <1>4, <1>5

LEMMA SendWatches ==
    ASSUME FinOnly, TInv, Closing, Told, Watched, Entry, Woken, BreakComes => BreakComes',
           CallSend \/ SendLocks \/ SendTakes \/ SendShortens \/ SendBlocks \/ SendFails \/
                  SendKilled \/ SendDrained \/ SendPostsError
    PROVE  Entry' /\ Woken'
<1> USE DEF TInv, TypeOK, Entry, Woken, WorkerWillDrain, WorkerWillReceive, WatchesOut, Room
<1>1. CASE CallSend
  BY <1>1 DEF CallSend, ApplicationRuns, poll, sock, work
<1>2. CASE SendLocks
  BY <1>2 DEF SendLocks, Return, poll, sock, work, hist
<1>3. CASE SendTakes
  <2>1. /\ mpc = "sending" /\ mpc' = "taken" /\ needSend
        /\ UNCHANGED <<status, handler, needSend, out, inbox, peer, mask, mode, armed, wpc,
                       events, closes>>
    BY <1>3 DEF SendTakes, MGoto, TakesChunks, Watched, pipe, poll, work, hist
  <2>2. closes = 0
    BY <2>1 DEF Closing
  <2> QED BY <2>1, <2>2
<1>4. CASE SendShortens
  <2>1. /\ mpc = "taken" /\ mpc' = "sending" /\ needSend /\ closes = 0
        /\ UNCHANGED <<status, handler, needSend, inbox, peer, mask, mode, armed, wpc,
                       events, closes>>
    BY <1>4 DEF SendShortens, MGoto, Watched, Closing, poll, sock, work, hist
  <2> QED BY <2>1
<1>5. CASE SendBlocks
  <2>1. mpc = "sending" /\ closes = 0 /\ Room = 0
    BY <1>5 DEF SendBlocks, WouldBlock, Closing
  <2> QED BY <1>5, <2>1 DEF SendBlocks, poll, sock, work, hist
<1>6. CASE SendFails
  <2>1. ~handler /\ mpc # "accept"
    BY <1>6 DEF SendFails, MGoto, Fails, Told, NoHup
  <2> QED BY <1>6, <2>1
<1>7. CASE SendKilled
  BY <1>7 DEF SendKilled, KillsBySignal, Told, NoHup
<1>8. CASE SendDrained
  <2>1. mpc = "sending" /\ closes = 0 /\ status # "WAITCLOSE" /\ out = <<>>
    BY <1>8 DEF SendDrained, Closing
  <2> QED BY <1>8, <2>1 DEF SendDrained, Return, poll, sock, work, hist
<1>9. CASE SendPostsError
  <2>1. ~handler /\ mpc # "accept"
    BY <1>9 DEF SendPostsError, Told, NoHup
  <2> QED BY <1>9, <2>1
<1> QED BY <1>1, <1>2, <1>3, <1>4, <1>5, <1>6, <1>7, <1>8, <1>9

LEMMA EventWatches ==
    ASSUME FinOnly, TInv, Closing, Told, Entry, Woken, BreakComes => BreakComes',
           ReadEvent \/ TakeSize \/ OnRecvReturns \/ EventDone
    PROVE  Entry' /\ Woken'
<1>1. /\ mpc # "accept"
      /\ mpc \notin {"send", "sending", "taken", "close"}
      /\ UNCHANGED <<status, handler, needSend, out, unread, inbox, peer, mask, mode, armed,
                     wpc, events, closes>>
  BY DEF ReadEvent, TakeSize, OnRecvReturns, EventDone, MGoto, pipe, sock, poll, work, hist
<1> QED BY <1>1 DEF Entry, Woken, WorkerWillDrain, WorkerWillReceive, WatchesOut, Room

\* How the worker keeps it.
LEMMA ReceiveWatches ==
    ASSUME FinOnly, TInv, Closing, Told, Entry, Woken, BreakComes => BreakComes',
           EpollWait \/ InStage \/ RecvTakes \/ RecvBlocks \/ RecvEnds \/ DoClose
    PROVE  Entry' /\ Woken'
<1> USE DEF TInv, TypeOK, Entry, Woken, WorkerWillDrain, WorkerWillReceive, WatchesOut, Room
<1>1. CASE EpollWait
  <2>1. /\ wpc = "wait" /\ wpc' = "in" /\ events' = Reported /\ armed /\ armed' = (mode = "LT")
        /\ UNCHANGED <<status, handler, needSend, out, unread, inbox, peer, mpc, closes>>
        /\ mode # "ONESHOT" => UNCHANGED <<mask, mode>>
    BY <1>1 DEF EpollWait, WGoto, pipe, sock, main, hist
  <2>2. ASSUME "IN" \in mask, mode # "off", inbox > 0 \/ peer # "open"
        PROVE  "IN" \in events'
    BY <2>1, <2>2 DEF Reported, Ready
  <2>3. ASSUME "OUT" \in mask, mode # "off", Room > 0 PROVE "OUT" \in events'
    BY <2>1, <2>3 DEF Reported, Ready
  <2>4. Room \in Nat
    BY BoundAssumption
  <2>5. Entry'
    <3>1. mode = "ONESHOT" => mask' = {} /\ mode' = "off"
      BY <1>1 DEF EpollWait
    <3>2. closes = 0 \/ out # <<>> => mode = "ET" \/ mpc = "accept" \/ BreakComes
      OBVIOUS
    <3> QED BY <2>1, <3>1, <3>2
  <2>6. CASE mpc # "accept" /\ ~BreakComes
    <3>1. closes = 0 => mode = "ET" /\ mask = {"IN", "OUT"}
      BY <2>6
    <3>2. closes = 0 /\ (inbox > 0 \/ peer # "open") => "IN" \in events'
      BY <2>2, <3>1
    <3>3. ~needSend \/ (closes > 0 /\ mpc # "close") => WatchesOut
      BY <2>1, <2>6
    <3>4. WatchesOut /\ Room > 0 => WorkerWillDrain'
      BY <2>1, <2>3
    <3>5. ASSUME WatchesOut, Room = 0 PROVE WatchesOut'
      <4>1. mode # "ONESHOT"
        <5> SUFFICES ASSUME mode = "ONESHOT" PROVE FALSE
          OBVIOUS
        <5>1. mask = {"OUT"} /\ Ready \subseteq {"IN"}
          BY <2>6, <3>5 DEF Ready, Told, NoHup, FinOnly
        <5>2. Reported = {}
          BY <5>1 DEF Reported
        <5> QED BY <1>1, <5>2 DEF EpollWait
      <4> QED BY <2>1, <3>5, <4>1
    <3>6. ~needSend \/ (closes > 0 /\ mpc # "close") => WorkerWillDrain' \/ WatchesOut'
      BY <2>4, <3>3, <3>4, <3>5
    <3> HIDE DEF WorkerWillDrain, WatchesOut
    <3>7. Woken'
      BY <2>1, <3>2, <3>6
    <3> QED BY <2>5, <3>7
  <2>7. CASE mpc = "accept" \/ BreakComes
    BY <2>1, <2>7
  <2> QED BY <2>6, <2>7
<1>2. CASE InStage
  BY <1>2 DEF InStage, pipe, poll, sock, main, hist
<1>3. CASE RecvTakes
  BY <1>3 DEF RecvTakes, WGoto, poll, main
<1>4. CASE RecvBlocks
  BY <1>4 DEF RecvBlocks, WGoto, pipe, poll, sock, main, hist
<1>5. CASE RecvEnds
  <2>1. BreakComes'
    BY <1>5 DEF RecvEnds, WGoto, BreakComes
  <2> QED BY <2>1
<1>6. CASE DoClose
  <2>1. BreakComes
    BY <1>6 DEF DoClose, DoCloseStatus, DoCloseSocket, WGoto, BreakComes, Told, Ended, NoHup
  <2> QED BY <2>1
<1> QED BY <1>1, <1>2, <1>3, <1>4, <1>5, <1>6

LEMMA DrainWatches ==
    ASSUME FinOnly, TInv, Closing, Told, Entry, Woken, BreakComes => BreakComes',
           OutStage \/ DrainTakes \/ DrainShortens \/ DrainBlocks \/ DrainFails \/
           DrainKilled \/ DrainEmpty \/ HupStage \/ Post
    PROVE  Entry' /\ Woken'
<1> USE DEF TInv, TypeOK, Entry, Woken, WorkerWillDrain, WorkerWillReceive, WatchesOut, Room
<1>1. CASE OutStage
  BY <1>1 DEF OutStage, pipe, poll, sock, main, hist
<1>2. CASE DrainTakes
  <2>1. /\ wpc = "drain" /\ wpc' = "taken" /\ out # <<>>
        /\ UNCHANGED <<status, handler, needSend, out, inbox, peer, mask, mode, armed, mpc,
                       events, closes>>
    BY <1>2 DEF DrainTakes, WGoto, TakesChunks, poll, main, hist
  <2> QED BY <2>1
<1>3. CASE DrainShortens
  <2>1. /\ wpc = "taken" /\ wpc' = "drain"
        /\ UNCHANGED <<status, handler, needSend, inbox, peer, mask, mode, armed, mpc,
                       events, closes>>
    BY <1>3 DEF DrainShortens, WGoto, poll, sock, main, hist
  <2>2. out = <<>> => out' = <<>>
    BY <1>3 DEF DrainShortens, Shortened, AtStream
  <2>3. Entry'
    BY <2>1, <2>2
  <2> QED BY <2>1, <2>3
<1>4. CASE DrainBlocks
  BY <1>4 DEF DrainBlocks, WGoto, WouldBlock, pipe, poll, sock, main, hist
<1>5. CASE DrainFails
  <2>1. BreakComes'
    BY <1>5 DEF DrainFails, WGoto, BreakComes
  <2> QED BY <2>1
<1>6. CASE DrainKilled
  BY <1>6 DEF DrainKilled, KillsBySignal, Told, NoHup
<1>7. CASE DrainEmpty
  <2>1. CASE status = "WAITCLOSE"
    <3>1. BreakComes'
      BY <1>7, <2>1 DEF DrainEmpty, WGoto, BreakComes
    <3> QED BY <3>1
  <2>2. CASE status # "WAITCLOSE"
    BY <1>7, <2>2 DEF DrainEmpty, DrainLeaves, WGoto, Phases, Told, poll, sock, main, hist
  <2> QED BY <2>1, <2>2
<1>8. CASE HupStage
  BY <1>8 DEF HupStage, pipe, poll, sock, main, hist
<1>9. CASE Post
  BY <1>9 DEF Post, WGoto, pipe, poll, sock, main, hist
<1> QED BY <1>1, <1>2, <1>3, <1>4, <1>5, <1>6, <1>7, <1>8, <1>9

(***************************************************************************)
(* Of a peer that ends with a FIN nothing is missed until the end of the   *)
(* connection is on its way to the session: data and a FIN that have       *)
(* arrived, chunks that wait to be sent, and a Close that has returned     *)
(* each have a worker at them or an entry of epoll that will wake it,      *)
(* however the threads interleave (CPipe.cpp 42-49, 66-69, 104-131,        *)
(* 151-176, epollWorker.cpp 82-115).                                       *)
(***************************************************************************)
THEOREM NothingIsMissed == FinOnly => (Spec => []NothingMissed)
<1> SUFFICES ASSUME FinOnly PROVE Spec => []NothingMissed
  OBVIOUS
<1>1. Init => Idle /\ Entry /\ Woken
  BY DEF Init, Idle, Entry, Woken
<1>2. /\ TInv /\ Closing /\ Watched /\ Told /\ Idle /\ Entry /\ Woken /\ [Next]_vars
      => Entry' /\ Woken'
  <2> SUFFICES ASSUME TInv, Closing, Watched, Told, Idle, Entry, Woken, [Next]_vars
               PROVE  Entry' /\ Woken'
    OBVIOUS
  <2>1. BreakComes => BreakComes'
    BY BreakStays
  <2>2. CASE UNCHANGED vars
    BY <2>1, <2>2 DEF vars, pipe, sock, poll, main, work, hist, Entry, Woken, WorkerWillDrain,
       WorkerWillReceive, WatchesOut, Room
  <2>3. CASE Next
    BY <2>1, <2>3, SocketWatches, AcceptWatches, SendWatches, EventWatches, ReceiveWatches,
       DrainWatches DEF Next, MainStep, WorkerStep
  <2> QED BY <2>2, <2>3
<1>3. Closing /\ Entry /\ Woken => NothingMissed
  <2> SUFFICES ASSUME Closing, Entry, Woken PROVE NothingMissed
    OBVIOUS
  <2>1. ArrivalIsWatched
    BY DEF ArrivalIsWatched, Entry, Woken, WatchesIn
  <2>2. SendingIsWatched
    BY DEF SendingIsWatched, Entry, Woken, Closing
  <2>3. CloseIsWatched
    BY DEF CloseIsWatched, Entry, Woken, Closing
  <2> QED BY <2>1, <2>2, <2>3 DEF NothingMissed
<1> QED BY <1>1, <1>2, <1>3, StepIdle, Types, HandOff, AlwaysTold, PTL DEF Spec
================================================================================
