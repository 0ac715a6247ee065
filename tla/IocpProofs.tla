------------------------------- MODULE IocpProofs -------------------------------
(***************************************************************************)
(* Proofs about IocpPipe, for any number of chunks and any sizes of send   *)
(* and queue: types, the turn of the send operation between the threads,   *)
(* what the session is told, and who hears of the end of a connection.     *)
(***************************************************************************)
EXTENDS IocpPipe, SequenceTheorems, FiniteSetTheorems, TLAPS

(***************************************************************************)
(* A connection that has not been made: nothing has happened but dialling, *)
(* which is at one place at a time.                                        *)
(***************************************************************************)
Untouched ==
    /\ status = "UNINITIALIZE" /\ needPost = TRUE /\ out = <<>> /\ unseen = 0 /\ related = FALSE
    /\ sendOp = 0 /\ peer = {} /\ inbox = 0 /\ sent = 0 /\ arrived = 0 /\ shown = 0
    /\ connects = 0 /\ breaks = 0 /\ closed = FALSE

Nowhere == port = <<>> /\ wpc = "wait" /\ post = "none" /\ queue = <<>>

Before ==
    /\ Untouched
    /\ \/ mpc \in {"start", "idle"} /\ sock = "none" /\ recvOp = "none" /\ Nowhere
       \/ mpc = "idle" /\ sock = "open" /\ recvOp = "connect" /\ Nowhere
       \/ mpc = "idle" /\ sock = "open" /\ recvOp = "none"
          /\ \/ Nowhere
             \/ (\E ok \in BOOLEAN : port = <<Packet("CONNECT", 0, ok)>>)
                /\ wpc = "wait" /\ post = "none" /\ queue = <<>>
             \/ port = <<>> /\ wpc = "post" /\ post \in {"CONNECTED", "CONNECTFAILD"}
                /\ queue = <<>>
             \/ port = <<>> /\ wpc = "wait" /\ post = "none"
                /\ \E e \in {"CONNECTED", "CONNECTFAILD"} : queue = <<e>>

(***************************************************************************)
(* A connection that has been made.                                        *)
(***************************************************************************)
Packets == [opt : {"ACCEPT", "RECV", "SEND"}, key : {"open", "closed"},
            n : 0 .. MaxIn + MaxOut, ok : BOOLEAN]

Types ==
    /\ sock \in {"open", "closed"} /\ needPost \in BOOLEAN /\ related \in BOOLEAN
    /\ sent \in 0 .. MaxOut /\ out \in Seq(1 .. MaxOut) /\ Len(out) <= sent
    /\ port \in Seq(Packets) /\ recvOp \in {"none", "recv"}
    /\ sendOp \in 0 .. SendSize /\ peer \subseteq {"fin", "rst"}
    /\ mpc \in {"connected", "idle", "send"}
    /\ wpc \in {"wait", "accepted", "received", "sent", "post"}
    /\ post \in IF wpc = "post" THEN {"RECV", "BREAK"} ELSE {"none"}
    /\ queue \in Seq({"RECV", "BREAK"}) /\ Len(queue) <= QueueSize
    /\ closed \in BOOLEAN /\ connects \in 0 .. 1 /\ breaks \in 0 .. connects
    /\ unseen \in Nat /\ inbox \in Nat /\ shown \in Nat /\ arrived \in 0 .. MaxIn

\* What the status says of the session's past.
Statuses ==
    /\ status = IF breaks = 1 THEN "UNINITIALIZE"
                ELSE IF closed THEN "WAITCLOSE" ELSE "ESTABLISHED"
    /\ mpc = "connected" <=> connects = 0
    /\ connects = 0 => out = <<>> /\ needPost /\ ~closed

\* The receive operation, which the accept begins, is in one pair of hands.
InHand == {"accepted", "received"}
RecvTurn ==
    /\ \A j, k \in DOMAIN port :
          port[j].opt # "SEND" /\ port[k].opt # "SEND" => j = k
    /\ \A k \in DOMAIN port : /\ port[k].opt # "SEND" => recvOp = "none" /\ wpc \notin InHand
                              /\ port[k].opt = "RECV" => port[k].key = "open"
                              /\ port[k].opt = "ACCEPT" =>
                                    k = 1 /\ sock = "open" /\ wpc = "wait"
    /\ wpc \in InHand => recvOp = "none"

\* So is the send operation, unless the turn is with Send.
Turn ==
    /\ \A j, k \in DOMAIN port : port[j].opt = "SEND" /\ port[k].opt = "SEND" => j = k
    /\ \A k \in DOMAIN port : port[k].opt = "SEND" =>
          ~needPost /\ sendOp = 0 /\ port[k].n <= Len(out)
    /\ needPost => sendOp = 0
    /\ sendOp <= Len(out)

Works == sock = "open" /\ "rst" \notin peer

Awaited ==
    Works => /\ needPost \/ sendOp > 0 \/ \E k \in DOMAIN port : port[k].opt = "SEND"
             /\ out # <<>> => ~needPost \/ mpc = "send"
             /\ \A k \in DOMAIN port :
                   port[k].opt = "SEND" => port[k].ok /\ port[k].key = "open"

\* An open connection is the worker's, or its ACCEPT is the next packet.  A
\* closed one has one BREAK, the last event of the connection.
Over ==
    /\ sock = "open" => /\ related \/ (port # <<>> /\ port[1].opt = "ACCEPT")
                        /\ breaks = 0 /\ post # "BREAK"
                        /\ \A k \in DOMAIN queue : queue[k] = "RECV"
    /\ sock = "closed" =>
          \/ post = "BREAK" /\ breaks = 0 /\ \A k \in DOMAIN queue : queue[k] = "RECV"
          \/ wpc = "wait" /\ ~related /\ breaks = 0 /\ queue # <<>>
             /\ \A k \in DOMAIN queue : queue[k] = "BREAK" <=> k = Len(queue)
          \/ wpc = "wait" /\ ~related /\ breaks = 1 /\ queue = <<>>

\* The chunks received.
InPort == {k \in DOMAIN port : port[k].opt = "RECV"}
Chunks ==
    /\ shown + unseen + inbox <= arrived
    /\ \A k \in InPort : shown + unseen + inbox + port[k].n <= arrived
    /\ Works => /\ InPort = {} => shown + unseen + inbox = arrived
                /\ \A k \in InPort : /\ shown + unseen + inbox + port[k].n = arrived
                                     /\ port[k].n = 0 => "fin" \in peer /\ inbox = 0

\* Unless the session has closed or the peer reset.
Told ==
    ~closed /\ "rst" \notin peer =>
       /\ sock = "closed" => "fin" \in peer /\ shown + unseen = arrived
       /\ unseen > 0 => wpc = "received" \/ post = "RECV"
                        \/ \E k \in DOMAIN queue : queue[k] = "RECV"

Made == Types /\ Statuses /\ RecvTurn /\ Turn /\ Awaited /\ Over /\ Chunks /\ Told

IInv == Before \/ Made

(***************************************************************************)
(* The port as packets come and go.                                        *)
(***************************************************************************)
LEMMA Appended ==
    ASSUME NEW S, NEW s \in Seq(S), NEW e \in S, NEW t, t = Append(s, e)
    PROVE  /\ t \in Seq(S) /\ t # <<>> /\ Len(t) = Len(s) + 1
           /\ \A k \in DOMAIN s : k \in DOMAIN t /\ t[k] = s[k] /\ k # Len(t)
           /\ \A k \in DOMAIN t : k \in DOMAIN s \/ (k = Len(t) /\ t[k] = e)
           /\ Len(t) \in DOMAIN t /\ t[Len(t)] = e
           /\ s = <<>> => Len(t) = 1
           /\ s # <<>> => t[1] = s[1] /\ 1 \in DOMAIN s
OBVIOUS

LEMMA Shifted ==
    ASSUME NEW S, NEW s \in Seq(S), s # <<>>, NEW t, t = Tail(s)
    PROVE  /\ Head(s) = s[1] /\ 1 \in DOMAIN s /\ s[1] \in S
           /\ t \in Seq(S) /\ Len(t) = Len(s) - 1
           /\ \A k \in DOMAIN t : k \in Nat /\ k + 1 \in DOMAIN s /\ k + 1 # 1
                                 /\ t[k] = s[k + 1]
           /\ \A k \in DOMAIN s : k # 1 => k - 1 \in DOMAIN t /\ t[k - 1] = s[k]
OBVIOUS

\* What stays in the port is not of the kind that has been taken.
LEMMA TakenPort ==
    ASSUME Made, NEW opt \in {"ACCEPT", "RECV", "SEND"}, Takes(opt)
    PROVE  /\ wpc = "wait" /\ post = "none" /\ 1 \in DOMAIN port
           /\ Head(port) = port[1] /\ port[1] \in Packets /\ port[1].opt = opt
           /\ port' \in Seq(Packets)
           /\ \A k \in DOMAIN port' :
                 k \in Nat /\ k + 1 \in DOMAIN port /\ k + 1 # 1 /\ port'[k] = port[k + 1]
           /\ \A k \in DOMAIN port : k # 1 => k - 1 \in DOMAIN port' /\ port'[k - 1] = port[k]
           /\ \A k \in DOMAIN port' :
                 /\ port'[k].opt # "ACCEPT"
                 /\ IF opt = "SEND" THEN port'[k].opt = "RECV" ELSE port'[k].opt = "SEND"
<1>1. /\ port \in Seq(Packets) /\ port # <<>> /\ port' = Tail(port)
      /\ wpc = "wait" /\ post = "none" /\ Head(port).opt = opt
  BY DEF Made, Types, Takes
<1>2. /\ Head(port) = port[1] /\ 1 \in DOMAIN port /\ port[1] \in Packets
      /\ port' \in Seq(Packets)
      /\ \A k \in DOMAIN port' :
            k \in Nat /\ k + 1 \in DOMAIN port /\ k + 1 # 1 /\ port'[k] = port[k + 1]
      /\ \A k \in DOMAIN port : k # 1 => k - 1 \in DOMAIN port' /\ port'[k - 1] = port[k]
  BY <1>1, Shifted
<1>3. ASSUME NEW k \in DOMAIN port'
      PROVE  /\ port'[k].opt # "ACCEPT"
             /\ IF opt = "SEND" THEN port'[k].opt = "RECV" ELSE port'[k].opt = "SEND"
  <2>1. k + 1 \in DOMAIN port /\ k + 1 # 1 /\ port'[k] = port[k + 1]
    BY <1>2
  <2>2. port[k + 1] \in Packets
    BY <1>1, <2>1, ElementOfSeq
  <2> QED BY <1>1, <1>2, <2>1, <2>2 DEF Made, RecvTurn, Turn, Packets
<1> QED BY <1>1, <1>2, <1>3

LEMMA PacketTyped ==
    ASSUME Made, NEW k \in DOMAIN port PROVE port[k] \in Packets /\ port[k].n \in Nat
<1>1. port \in Seq(Packets) /\ k \in 1 .. Len(port)
  BY DEF Made, Types
<1>2. port[k] \in Packets
  BY <1>1, ElementOfSeq
<1> QED BY <1>2, IocpAssumption DEF Packets

LEMMA PostedPort ==
    ASSUME Made, NEW p \in Packets, port' = Append(port, p)
    PROVE  /\ port' \in Seq(Packets) /\ port' # <<>>
           /\ \A k \in DOMAIN port :
                 k \in DOMAIN port' /\ port'[k] = port[k] /\ k # Len(port')
           /\ \A k \in DOMAIN port' : k \in DOMAIN port \/ (k = Len(port') /\ port'[k] = p)
           /\ Len(port') \in DOMAIN port' /\ port'[Len(port')] = p
           /\ port # <<>> => port'[1] = port[1] /\ 1 \in DOMAIN port
BY Appended DEF Made, Types

LEMMA TakeAcceptMade == ASSUME Made, TakeAccept PROVE Made'
<1>1. /\ related' = TRUE
      /\ UNCHANGED <<needPost, out, unseen, recvOp, sendOp, queue, status, remote, mpc, sent,
                     session>>
      /\ \/ status = "ESTABLISHED" /\ wpc' = "accepted" /\ UNCHANGED <<sock, post>>
         \/ status # "ESTABLISHED" /\ needPost /\ sock' = "closed" /\ wpc' = "post"
            /\ post' = "BREAK"
         \/ status # "ESTABLISHED" /\ ~needPost /\ UNCHANGED <<sock, wpc, post>>
  BY DEF TakeAccept, Disconnects, Adds, WorkerLeaves
<1>2. Takes("ACCEPT")
  BY DEF TakeAccept
<1>3. /\ wpc = "wait" /\ post = "none" /\ 1 \in DOMAIN port /\ port[1].opt = "ACCEPT"
      /\ port' \in Seq(Packets)
      /\ \A k \in DOMAIN port' :
            k \in Nat /\ k + 1 \in DOMAIN port /\ k + 1 # 1 /\ port'[k] = port[k + 1]
      /\ \A k \in DOMAIN port : k # 1 => k - 1 \in DOMAIN port' /\ port'[k - 1] = port[k]
      /\ \A k \in DOMAIN port' : port'[k].opt = "SEND"
  BY <1>2, TakenPort
<1>4. sock = "open" /\ recvOp = "none"
  BY <1>3 DEF Made, RecvTurn
<1> USE DEF Made, remote, session
<1>5. Types'
  BY <1>1, <1>3, <1>4 DEF Types
<1>6. Statuses'
  BY <1>1 DEF Statuses
<1>7. RecvTurn'
  BY <1>1, <1>3, <1>4 DEF RecvTurn, InHand
<1>8. Turn'
  BY <1>1, <1>3 DEF Turn
<1>9. Awaited'
  BY <1>1, <1>3, <1>4 DEF Awaited, Works
<1>10. Over'
  BY <1>1, <1>3, <1>4 DEF Over
<1>11. Chunks'
  BY <1>1, <1>3, <1>4 DEF Chunks, Works, InPort
<1>12. Told'
  BY <1>1, <1>3, <1>4 DEF Told, Statuses, Over
<1> QED BY <1>5, <1>6, <1>7, <1>8, <1>9, <1>10, <1>11, <1>12

LEMMA TakeRecvMade == ASSUME Made, TakeRecv PROVE Made'
<1> DEFINE p == port[1]
<1>1. Takes("RECV") /\ UNCHANGED <<needPost, out, recvOp, sendOp, related, queue, status,
                                   remote, mpc, sent, session>>
  BY DEF TakeRecv, WorkerLeaves
<1>2. /\ wpc = "wait" /\ post = "none" /\ 1 \in DOMAIN port /\ p.opt = "RECV"
      /\ p \in Packets /\ port' \in Seq(Packets)
      /\ \A k \in DOMAIN port' :
            k \in Nat /\ k + 1 \in DOMAIN port /\ k + 1 # 1 /\ port'[k] = port[k + 1]
      /\ \A k \in DOMAIN port : k # 1 => k - 1 \in DOMAIN port' /\ port'[k - 1] = port[k]
      /\ \A k \in DOMAIN port' : port'[k].opt = "SEND"
      /\ Head(port) = p
  BY <1>1, TakenPort
<1>3. recvOp = "none" /\ p.key = "open" /\ p.n \in Nat
  BY <1>2 DEF Made, RecvTurn, Packets
<1>4. sock = "open" <=> related
  BY <1>2 DEF Made, Over, Types
<1>5. \/ sock = "open" /\ p.n > 0 /\ unseen' = unseen + p.n /\ wpc' = "received"
         /\ UNCHANGED <<sock, post>>
      \/ sock = "open" /\ p.n = 0 /\ sock' = "closed" /\ wpc' = "post" /\ post' = "BREAK"
         /\ UNCHANGED unseen
      \/ sock = "closed" /\ UNCHANGED <<sock, wpc, post, unseen>>
  BY <1>2, <1>3, <1>4 DEF TakeRecv, Current, Disconnects, Adds, Made, Types
<1>6. /\ shown + unseen + inbox + p.n <= arrived
      /\ Works => /\ shown + unseen + inbox + p.n = arrived
                  /\ p.n = 0 => "fin" \in peer /\ inbox = 0
  BY <1>2 DEF Made, Chunks, InPort
<1> HIDE DEF p
<1> USE IocpAssumption DEF Made, remote, session
<1>7. Types'
  BY <1>1, <1>2, <1>3, <1>5 DEF Types
<1>8. Statuses'
  BY <1>1 DEF Statuses
<1>9. RecvTurn'
  BY <1>1, <1>2, <1>3, <1>5 DEF RecvTurn, InHand
<1>10. Turn'
  BY <1>1, <1>2 DEF Turn
<1>11. Awaited'
  <2>1. Works' => Works
    BY <1>1, <1>5 DEF Works
  <2> QED BY <1>1, <1>2, <2>1 DEF Awaited
<1>12. Over'
  BY <1>1, <1>2, <1>4, <1>5 DEF Over, Types
<1>13. Chunks'
  <2>1. InPort' = {}
    BY <1>2 DEF InPort
  <2>2. Works' => Works /\ p.n > 0
    BY <1>1, <1>5 DEF Works
  <2>3. (unseen' = unseen \/ unseen' = unseen + p.n) /\ UNCHANGED <<shown, inbox, arrived>>
    BY <1>1, <1>5
  <2>4. shown \in Nat /\ unseen \in Nat /\ inbox \in Nat /\ arrived \in Nat
    BY DEF Types
  <2>5. shown' + unseen' + inbox' <= arrived'
    <3>1. shown + unseen + inbox <= arrived
      BY DEF Chunks
    <3> HIDE DEF Made
    <3> QED BY <1>3, <1>6, <2>3, <2>4, <3>1
  <2>6. Works' => shown' + unseen' + inbox' = arrived'
    <3>1. Works' => unseen' = unseen + p.n
      BY <1>5 DEF Works
    <3> HIDE DEF Made
    <3> QED BY <1>3, <1>6, <2>2, <2>3, <2>4, <3>1
  <2> QED BY <2>1, <2>5, <2>6 DEF Chunks
<1>14. Told'
  <2>1. CASE sock = "open" /\ p.n > 0 /\ unseen' = unseen + p.n /\ wpc' = "received"
             /\ UNCHANGED <<sock, post>>
    BY <1>1, <2>1 DEF Told
  <2>2. CASE sock = "open" /\ p.n = 0 /\ sock' = "closed" /\ wpc' = "post"
             /\ post' = "BREAK" /\ UNCHANGED unseen
    <3>1. Works => shown + unseen = arrived /\ "fin" \in peer
      BY <1>6, <2>2 DEF Types
    <3>2. ~(wpc = "received" \/ post = "RECV")
      BY <1>2
    <3> QED BY <1>1, <2>2, <3>1, <3>2 DEF Told, Works
  <2>3. CASE UNCHANGED <<sock, wpc, post, unseen>>
    BY <1>1, <2>3 DEF Told
  <2> QED BY <1>5, <2>1, <2>2, <2>3
<1> QED BY <1>7, <1>8, <1>9, <1>10, <1>11, <1>12, <1>13, <1>14

\* What is left of the stream, and the next piece of it.
LEMMA LeftTyped ==
    ASSUME Types, NEW p \in Packets, p = Head(port), p.n <= Len(out)
    PROVE  /\ Left \in Seq(1 .. MaxOut) /\ Len(Left) <= Len(out)
           /\ Left = <<>> <=> Len(Left) = 0
           /\ Piece \in 0 .. SendSize /\ Piece <= Len(Left)
           /\ Left # <<>> => Piece > 0
<1>1. Len(out) \in Nat /\ p.n \in 0 .. Len(out) /\ p.n + 1 \in Int
  BY DEF Types, Packets
<1>2. ASSUME NEW i \in p.n + 1 .. Len(out) PROVE out[i] \in 1 .. MaxOut
  <2>1. i \in 1 .. Len(out)
    BY <1>1
  <2> QED BY <2>1, ElementOfSeq DEF Types
<1>3. /\ Left \in Seq(1 .. MaxOut)
      /\ Len(Left) = IF p.n + 1 <= Len(out) THEN Len(out) - (p.n + 1) + 1 ELSE 0
  BY <1>1, <1>2, SubSeqProperties DEF Left
<1>4. Len(Left) = Len(out) - p.n
  BY <1>1, <1>3
<1>5. Left = <<>> <=> Len(Left) = 0
  BY <1>3, EmptySeq
<1> QED BY <1>1, <1>3, <1>4, <1>5, IocpAssumption DEF Piece

LEMMA TakeSendMade == ASSUME Made, TakeSend PROVE Made'
<1> DEFINE p == port[1]
<1>1. Takes("SEND") /\ UNCHANGED <<unseen, recvOp, related, queue, status, remote, mpc, sent,
                                   session>>
  BY DEF TakeSend, WorkerLeaves
<1>2. /\ wpc = "wait" /\ post = "none" /\ 1 \in DOMAIN port /\ p.opt = "SEND"
      /\ p \in Packets /\ port' \in Seq(Packets)
      /\ \A k \in DOMAIN port' :
            k \in Nat /\ k + 1 \in DOMAIN port /\ k + 1 # 1 /\ port'[k] = port[k + 1]
      /\ \A k \in DOMAIN port : k # 1 => k - 1 \in DOMAIN port' /\ port'[k - 1] = port[k]
      /\ \A k \in DOMAIN port' : port'[k].opt = "RECV"
      /\ Head(port) = p
  BY <1>1, TakenPort
<1>3. ~needPost /\ sendOp = 0 /\ p.n <= Len(out)
  BY <1>2 DEF Made, Turn
<1>4. related => sock = "open" /\ post # "BREAK"
  BY <1>2 DEF Made, Over, Types
<1>5. Works => related /\ p.ok /\ p.key = "open"
  BY <1>2 DEF Made, Over, Awaited, Works
<1>6. /\ Left \in Seq(1 .. MaxOut) /\ Len(Left) <= Len(out) /\ (Left = <<>> <=> Len(Left) = 0)
      /\ Piece \in 0 .. SendSize /\ Piece <= Len(Left) /\ (Left # <<>> => Piece > 0)
  BY <1>2, <1>3, LeftTyped DEF Made
<1>7. \/ /\ sock = "open" /\ related /\ out' = Left
         /\ \/ Left = <<>> /\ needPost' = TRUE /\ wpc' = "sent"
             /\ UNCHANGED <<sendOp, sock, post>>
            \/ Left # <<>> /\ "rst" \notin peer /\ sendOp' = Piece
               /\ UNCHANGED <<needPost, sock, wpc, post>>
            \/ Left # <<>> /\ "rst" \in peer /\ sock' = "closed" /\ wpc' = "post"
               /\ post' = "BREAK" /\ UNCHANGED <<needPost, sendOp>>
      \/ ~Works /\ UNCHANGED <<sock, needPost, out, sendOp, wpc, post>>
  BY <1>2, <1>4, <1>5 DEF TakeSend, Current, Out, Disconnects, Adds
<1> HIDE DEF p
<1> USE IocpAssumption DEF Made, remote, session
<1>8. Types'
  <2>1. /\ sock' \in {"open", "closed"} /\ needPost' \in BOOLEAN
        /\ wpc' \in {"wait", "sent", "post"}
        /\ post' \in IF wpc' = "post" THEN {"RECV", "BREAK"} ELSE {"none"}
    BY <1>2, <1>7 DEF Types
  <2>2. out' \in Seq(1 .. MaxOut) /\ Len(out') <= sent' /\ sendOp' \in 0 .. SendSize
    <3>1. out' = Left \/ out' = out
      BY <1>7
    <3>2. sendOp' = Piece \/ sendOp' = sendOp
      BY <1>7
    <3>3. /\ out \in Seq(1 .. MaxOut) /\ Len(out) \in Nat /\ Len(Left) \in Nat
          /\ Len(out) <= sent /\ sent \in Nat /\ sent' = sent /\ sendOp \in 0 .. SendSize
      BY <1>1, <1>6 DEF Types
    <3> HIDE DEF Made
    <3>4. out' \in Seq(1 .. MaxOut) /\ Len(out') <= sent'
      <4>1. CASE out' = Left
        BY <1>6, <3>3, <4>1
      <4>2. CASE out' = out
        BY <3>3, <4>2
      <4> QED BY <3>1, <4>1, <4>2
    <3> QED BY <1>6, <3>2, <3>3, <3>4
  <2> QED BY <1>1, <1>2, <2>1, <2>2 DEF Types
<1>9. Statuses'
  BY <1>1, <1>2, <1>3, <1>7 DEF Statuses, Types
<1>10. RecvTurn'
  <2>1. wpc' \in InHand => wpc \in InHand
    BY <1>7 DEF InHand
  <2> QED BY <1>1, <1>2, <2>1 DEF RecvTurn
<1>11. Turn'
  <2>1. sendOp' = 0 \/ (sendOp' = Piece /\ out' = Left /\ needPost' = needPost)
    BY <1>3, <1>7
  <2>2. Len(out') \in Nat /\ sendOp' <= Len(out')
    <3>1. out' = Left \/ out' = out
      BY <1>7
    <3>2. Len(out) \in Nat /\ Len(Left) \in Nat /\ Piece \in Nat
      BY <1>6 DEF Types
    <3> HIDE DEF Made
    <3>3. CASE out' = Left
      BY <1>6, <2>1, <3>2, <3>3
    <3>4. CASE out' = out /\ out' # Left
      BY <2>1, <3>2, <3>4
    <3> QED BY <3>1, <3>3, <3>4
  <2> QED BY <1>2, <1>3, <2>1, <2>2 DEF Turn
<1>12. Awaited'
  BY <1>1, <1>2, <1>3, <1>6, <1>7 DEF Awaited, Works, Types
<1>13. Over'
  <2>1. CASE ~Works /\ UNCHANGED <<sock, needPost, out, sendOp, wpc, post>>
    BY <1>1, <1>2, <2>1 DEF Over, Types
  <2>2. CASE sock = "open" /\ related
    BY <1>1, <1>2, <1>7, <2>2 DEF Over, Types
  <2> QED BY <1>7, <2>1, <2>2
<1>14. Chunks'
  <2>1. Works' => Works
    BY <1>1, <1>7 DEF Works
  <2>2. \A k \in InPort' : k + 1 \in InPort /\ port'[k] = port[k + 1]
    BY <1>2 DEF InPort
  <2>3. InPort' = {} => InPort = {}
    <3>1. \A k \in InPort : k - 1 \in InPort'
      BY <1>2 DEF InPort
    <3> QED BY <3>1
  <2> QED BY <1>1, <2>1, <2>2, <2>3 DEF Chunks
<1>15. Told'
  BY <1>1, <1>2, <1>7 DEF Told, Works
<1> QED BY <1>8, <1>9, <1>10, <1>11, <1>12, <1>13, <1>14, <1>15

LEMMA OnConnectedMade == ASSUME Made, OnConnected PROVE Made'
<1> USE IocpAssumption DEF OnConnected, Made, pipe, system, remote, thread, session
<1>1. Types'
  BY DEF Types, Statuses
<1>2. Statuses'
  BY DEF Statuses
<1>3. RecvTurn'
  BY DEF RecvTurn
<1>4. Turn'
  BY DEF Turn
<1>5. Awaited'
  BY DEF Awaited, Works
<1>6. Over'
  BY DEF Over
<1>7. Chunks'
  BY DEF Chunks, Works, InPort
<1>8. Told'
  BY DEF Told
<1> QED BY <1>1, <1>2, <1>3, <1>4, <1>5, <1>6, <1>7, <1>8

LEMMA SendInMade == ASSUME Made, SendIn PROVE Made'
<1> USE IocpAssumption DEF SendIn, MayCall, Made, pipe, system, remote, thread, session
<1>1. Types'
  BY DEF Types
<1>2. Statuses'
  BY DEF Statuses
<1>3. RecvTurn'
  BY DEF RecvTurn
<1>4. Turn'
  <2>1. Len(out') = Len(out) + 1 /\ Len(out) \in Nat
    BY DEF Types
  <2>2. UNCHANGED <<port, needPost, sendOp>>
    OBVIOUS
  <2>3. \A k \in DOMAIN port : port[k].n \in Nat
    BY PacketTyped
  <2>4. sendOp \in Nat
    BY DEF Types
  <2> HIDE DEF SendIn
  <2> QED BY <2>1, <2>2, <2>3, <2>4 DEF Turn
<1>5. Awaited'
  BY DEF Awaited, Works
<1>6. Over'
  BY DEF Over
<1>7. Chunks'
  BY DEF Chunks, Works, InPort
<1>8. Told'
  BY DEF Told
<1> QED BY <1>1, <1>2, <1>3, <1>4, <1>5, <1>6, <1>7, <1>8

LEMMA CloseMade == ASSUME Made, Close PROVE Made'
<1> USE IocpAssumption DEF Close, MayCall, Made, pipe, system, remote, thread, session
<1>1. Types'
  BY DEF Types
<1>2. Statuses'
  BY DEF Statuses, Types
<1>3. RecvTurn'
  BY DEF RecvTurn
<1>4. Turn'
  BY DEF Turn
<1>5. Awaited'
  BY DEF Awaited, Works
<1>6. Over'
  BY DEF Over
<1>7. Chunks'
  BY DEF Chunks, Works, InPort
<1>8. Told'
  BY DEF Told
<1> QED BY <1>1, <1>2, <1>3, <1>4, <1>5, <1>6, <1>7, <1>8

\* A packet is posted by Send, or nothing is.
LEMMA SendPostsMade == ASSUME Made, SendPosts PROVE Made'
<1>1. /\ mpc = "send" /\ mpc' = "idle" /\ needPost' = FALSE
      /\ UNCHANGED <<status, sock, out, unseen, recvOp, sendOp, remote, thread, queue, sent,
                     session>>
  BY DEF SendPosts, SendLeaves
<1>2. connects = 1
  BY <1>1 DEF Made, Types, Statuses
<1> USE IocpAssumption DEF Made, remote, session, thread
<1>3. CASE ~needPost
  <2>1. UNCHANGED port
    BY <1>3 DEF SendPosts
  <2>2. Types' /\ Statuses'
    BY <1>1, <1>2, <2>1 DEF Types, Statuses
  <2>3. RecvTurn' /\ Turn'
    BY <1>1, <1>3, <2>1 DEF RecvTurn, Turn
  <2>4. Awaited'
    BY <1>1, <1>3, <2>1 DEF Awaited, Works
  <2>5. Over' /\ Chunks' /\ Told'
    BY <1>1, <2>1 DEF Over, Chunks, Works, InPort, Told
  <2> QED BY <2>2, <2>3, <2>4, <2>5
<1>4. CASE needPost
  <2> DEFINE p == [opt |-> "SEND", key |-> sock, n |-> 0, ok |-> TRUE]
  <2>1. port' = Append(port, p)
    BY <1>4 DEF SendPosts, PostsSend
  <2>2. p \in Packets /\ p.opt = "SEND" /\ p.n = 0 /\ p.ok /\ p.key = sock
    <3>1. 0 \in 0 .. MaxIn + MaxOut /\ sock \in {"open", "closed"}
      BY DEF Types
    <3> HIDE DEF Made
    <3> QED BY <3>1 DEF Packets
  <2> HIDE DEF p
  <2>3. /\ port' \in Seq(Packets) /\ port' # <<>>
        /\ \A k \in DOMAIN port : k \in DOMAIN port' /\ port'[k] = port[k] /\ k # Len(port')
        /\ \A k \in DOMAIN port' : k \in DOMAIN port \/ (k = Len(port') /\ port'[k] = p)
        /\ Len(port') \in DOMAIN port' /\ port'[Len(port')] = p
        /\ port # <<>> => port'[1] = port[1]
    BY <2>1, <2>2, PostedPort
  <2>4. \A k \in DOMAIN port : port[k].opt # "SEND"
    BY <1>4 DEF Turn
  <2>5. Types' /\ Statuses'
    BY <1>1, <1>2, <2>3 DEF Types, Statuses
  <2>6. RecvTurn'
    BY <1>1, <2>2, <2>3 DEF RecvTurn
  <2>7. Turn'
    <3>1. sendOp = 0 /\ Len(out) \in Nat
      BY <1>4 DEF Turn, Types
    <3> QED BY <1>1, <2>2, <2>3, <2>4, <3>1 DEF Turn
  <2>8. Awaited'
    BY <1>1, <2>2, <2>3, <2>4 DEF Awaited, Works
  <2>9. Over'
    BY <1>1, <2>3 DEF Over
  <2>10. Chunks'
    <3>1. InPort' = InPort /\ \A k \in InPort : port'[k] = port[k]
      BY <2>2, <2>3 DEF InPort
    <3> QED BY <1>1, <3>1 DEF Chunks, Works
  <2>11. Told'
    BY <1>1 DEF Told
  <2> QED BY <2>5, <2>6, <2>7, <2>8, <2>9, <2>10, <2>11
<1> QED BY <1>3, <1>4 DEF Types

\* What the main thread reads, of a connection that has been made.
LEMMA ReadQueue ==
    ASSUME Made, NEW type, Reads(type)
    PROVE  /\ mpc = "idle" /\ connects = 1 /\ 1 \in DOMAIN queue /\ queue[1] = type
           /\ queue' \in Seq({"RECV", "BREAK"}) /\ Len(queue') = Len(queue) - 1
           /\ \A k \in DOMAIN queue' : k \in Nat /\ k + 1 \in DOMAIN queue /\ k + 1 # 1
                                      /\ queue'[k] = queue[k + 1]
           /\ \A k \in DOMAIN queue : k # 1 =>
                 queue'[k - 1] = queue[k] /\ k - 1 \in DOMAIN queue'
<1>1. /\ queue \in Seq({"RECV", "BREAK"}) /\ queue # <<>> /\ queue' = Tail(queue)
      /\ Head(queue) = type /\ mpc = "idle"
  BY DEF Reads, Made, Types
<1>2. connects = 1
  BY <1>1 DEF Made, Types, Statuses
<1> QED BY <1>1, <1>2, Shifted

LEMMA ReadRecvMade == ASSUME Made, ReadRecv PROVE Made'
<1>1. /\ shown' = shown + unseen /\ unseen' = 0
      /\ UNCHANGED <<status, mpc, breaks, sock, needPost, out, system, remote, thread, sent,
                     connects, closed>>
  BY DEF ReadRecv, EventLeaves
<1>2. /\ 1 \in DOMAIN queue /\ queue[1] = "RECV"
      /\ queue' \in Seq({"RECV", "BREAK"}) /\ Len(queue') = Len(queue) - 1
      /\ \A k \in DOMAIN queue' : k \in Nat /\ k + 1 \in DOMAIN queue /\ k + 1 # 1
                                 /\ queue'[k] = queue[k + 1]
      /\ \A k \in DOMAIN queue : k # 1 => queue'[k - 1] = queue[k] /\ k - 1 \in DOMAIN queue'
  BY ReadQueue DEF ReadRecv
<1> USE IocpAssumption DEF Made, system, remote, thread
<1>3. Types'
  BY <1>1, <1>2 DEF Types
<1>4. Statuses' /\ RecvTurn' /\ Turn' /\ Awaited'
  BY <1>1 DEF Statuses, RecvTurn, Turn, Awaited, Works
<1>5. Over'
  <2>1. Len(queue) \in Nat /\ DOMAIN queue = 1 .. Len(queue) /\ DOMAIN queue' = 1 .. Len(queue')
    BY <1>2 DEF Types
  <2>2. CASE sock = "open" \/ post = "BREAK"
    BY <1>1, <1>2, <2>2 DEF Over
  <2>3. CASE sock = "closed" /\ post # "BREAK"
    <3>1. /\ wpc = "wait" /\ ~related /\ breaks = 0
          /\ \A k \in DOMAIN queue : queue[k] = "BREAK" <=> k = Len(queue)
      BY <1>2, <2>3 DEF Over
    <3>2. Len(queue) > 1
      BY <1>2, <2>1, <3>1
    <3>3. queue' # <<>> /\ \A k \in DOMAIN queue' : queue'[k] = "BREAK" <=> k = Len(queue')
      BY <1>2, <2>1, <3>1, <3>2
    <3> QED BY <1>1, <2>3, <3>1, <3>3 DEF Over
  <2> QED BY <2>2, <2>3 DEF Types
<1>6. Chunks'
  BY <1>1 DEF Chunks, Works, InPort, Types
<1>7. Told'
  BY <1>1 DEF Told, Types
<1> QED BY <1>3, <1>4, <1>5, <1>6, <1>7

\* A BREAK is the last event, and all that came before it has been shown.
LEMMA LastBreak ==
    ASSUME Made, ReadBreak
    PROVE  /\ sock = "closed" /\ wpc = "wait" /\ ~related /\ connects = 1 /\ breaks = 0
           /\ queue' = <<>>
           /\ ~closed /\ "rst" \notin peer => unseen = 0
<1>1. /\ connects = 1 /\ 1 \in DOMAIN queue /\ queue[1] = "BREAK"
      /\ queue' \in Seq({"RECV", "BREAK"}) /\ Len(queue') = Len(queue) - 1
  BY ReadQueue DEF ReadBreak
<1>2. /\ sock = "closed" /\ wpc = "wait" /\ ~related /\ breaks = 0 /\ 1 = Len(queue)
  <2>1. sock \in {"open", "closed"} /\ queue # <<>>
    BY <1>1 DEF Made, Types
  <2>2. ~(\A k \in DOMAIN queue : queue[k] = "RECV")
    BY <1>1
  <2> QED BY <1>1, <2>1, <2>2 DEF Made, Over
<1>3. queue' = <<>>
  <2>1. Len(queue') = 0
    <3>1. Len(queue) = 1 /\ Len(queue') = Len(queue) - 1
      BY <1>1, <1>2
    <3> QED BY <3>1
  <2> QED BY <1>1, <2>1, EmptySeq
<1>4. ~closed /\ "rst" \notin peer => unseen = 0
  <2>1. DOMAIN queue = 1 .. 1
    BY <1>2 DEF Made, Types
  <2>2. post = "none" /\ \A k \in DOMAIN queue : queue[k] # "RECV"
    BY <1>1, <1>2, <2>1 DEF Made, Types
  <2> QED BY <1>2, <2>2 DEF Made, Told, Types
<1> QED BY <1>1, <1>2, <1>3, <1>4

LEMMA ReadBreakMade == ASSUME Made, ReadBreak PROVE Made'
<1>1. /\ status' = "UNINITIALIZE" /\ breaks' = breaks + 1
      /\ UNCHANGED <<unseen, mpc, shown, sock, needPost, out, system, remote, thread, sent,
                     connects, closed>>
  BY DEF ReadBreak, EventLeaves
<1>2. /\ sock = "closed" /\ wpc = "wait" /\ ~related /\ connects = 1 /\ breaks = 0
      /\ queue' = <<>>
  BY LastBreak
<1>3. ~closed /\ "rst" \notin peer => unseen = 0
  BY LastBreak
<1> USE IocpAssumption DEF Made, system, remote, thread
<1>4. Types'
  BY <1>1, <1>2 DEF Types
<1>5. Statuses'
  BY <1>1, <1>2 DEF Statuses
<1>6. RecvTurn' /\ Turn' /\ Awaited'
  BY <1>1 DEF RecvTurn, Turn, Awaited, Works
<1>7. Over'
  BY <1>1, <1>2 DEF Over
<1>8. Chunks'
  BY <1>1 DEF Chunks, Works, InPort
<1>9. Told'
  BY <1>1, <1>3 DEF Told
<1> QED BY <1>4, <1>5, <1>6, <1>7, <1>8, <1>9

LEMMA AcceptRecvsMade == ASSUME Made, AcceptRecvs PROVE Made'
<1> USE IocpAssumption DEF AcceptRecvs, DoRecv, Waits, RecvRefused, WorkerLeaves, Made,
     pipe, system, remote, thread, session
<1>1. Types'
  BY DEF Types
<1>2. Statuses'
  BY DEF Statuses
<1>3. RecvTurn'
  BY DEF RecvTurn, InHand
<1>4. Turn'
  BY DEF Turn
<1>5. Awaited'
  BY DEF Awaited, Works
<1>6. Over'
  BY DEF Over
<1>7. Chunks'
  BY DEF Chunks, Works, InPort
<1>8. Told'
  BY DEF Told
<1> QED BY <1>1, <1>2, <1>3, <1>4, <1>5, <1>6, <1>7, <1>8

LEMMA ReceivedMade == ASSUME Made, Received PROVE Made'
<1> USE IocpAssumption DEF Received, DoRecv, Adds, Disconnects, RecvRefused,
     ReceivedLeaves, WorkerLeaves, Made, pipe, system, remote, thread, session
<1>1. Types'
  BY DEF Types
<1>2. Statuses'
  BY DEF Statuses
<1>3. RecvTurn'
  BY DEF RecvTurn, InHand
<1>4. Turn'
  BY DEF Turn
<1>5. Awaited'
  BY DEF Awaited, Works
<1>6. Over'
  BY DEF Over, Types
<1>7. Chunks'
  BY DEF Chunks, Works, InPort
<1>8. Told'
  BY DEF Told, Types, Statuses, Over
<1> QED BY <1>1, <1>2, <1>3, <1>4, <1>5, <1>6, <1>7, <1>8

LEMMA SentMade == ASSUME Made, Sent PROVE Made'
<1> USE IocpAssumption DEF Sent, Disconnects, Adds, Waits, SentLeaves, WorkerLeaves,
     Made, pipe, system, remote, thread, session
<1>1. Types'
  BY DEF Types
<1>2. Statuses'
  BY DEF Statuses
<1>3. RecvTurn'
  BY DEF RecvTurn, InHand
<1>4. Turn'
  BY DEF Turn
<1>5. Awaited'
  BY DEF Awaited, Works
<1>6. Over'
  BY DEF Over, Types
<1>7. Chunks'
  BY DEF Chunks, Works, InPort
<1>8. Told'
  BY DEF Told, Statuses
<1> QED BY <1>1, <1>2, <1>3, <1>4, <1>5, <1>6, <1>7, <1>8

LEMMA PostMade == ASSUME Made, Post PROVE Made'
<1>1. /\ wpc = "post" /\ Len(queue) < QueueSize /\ wpc' = "wait" /\ post' = "none"
      /\ related' = (related /\ post # "BREAK") /\ queue' = Append(queue, post)
      /\ UNCHANGED <<sock, needPost, out, unseen, system, status, remote, mpc, sent, session>>
  BY DEF Post, WorkerLeaves
<1>2. post \in {"RECV", "BREAK"} /\ queue \in Seq({"RECV", "BREAK"})
  BY <1>1 DEF Made, Types
<1>3. /\ queue' \in Seq({"RECV", "BREAK"}) /\ queue' # <<>> /\ Len(queue') = Len(queue) + 1
      /\ \A k \in DOMAIN queue : k \in DOMAIN queue' /\ queue'[k] = queue[k] /\ k # Len(queue')
      /\ \A k \in DOMAIN queue' : k \in DOMAIN queue \/ (k = Len(queue') /\ queue'[k] = post)
      /\ Len(queue') \in DOMAIN queue' /\ queue'[Len(queue')] = post
  BY <1>1, <1>2, Appended
<1> USE IocpAssumption DEF Made, system, remote, session
<1>4. Types'
  BY <1>1, <1>3 DEF Types
<1>5. Statuses' /\ Turn' /\ Awaited'
  BY <1>1 DEF Statuses, Turn, Awaited, Works
<1>6. RecvTurn'
  BY <1>1 DEF RecvTurn, InHand
<1>7. Over'
  BY <1>1, <1>2, <1>3 DEF Over, Types
<1>8. Chunks'
  BY <1>1 DEF Chunks, Works, InPort
<1>9. Told'
  BY <1>1, <1>2, <1>3 DEF Told, Over
<1> QED BY <1>4, <1>5, <1>6, <1>7, <1>8, <1>9

LEMMA RecvCompletesMade == ASSUME Made, RecvCompletes PROVE Made'
<1>1. /\ recvOp = "recv" /\ recvOp' = "none"
      /\ UNCHANGED <<pipe, peer, arrived, thread, mpc, queue, sent, session, sendOp>>
  BY DEF RecvCompletes, SystemLeaves
<1>2. PICK p :
         /\ port' = Append(port, p)
         /\ \/ Works /\ p = Packet("RECV", inbox, TRUE) /\ inbox > 0 /\ inbox' = 0
            \/ Works /\ p = Packet("RECV", 0, TRUE) /\ peer = {"fin"} /\ inbox = 0 /\ inbox' = 0
            \/ ~Works /\ p = Packet("RECV", 0, FALSE) /\ inbox' = inbox
  BY DEF RecvCompletes, Works
<1> USE IocpAssumption DEF Made, pipe, thread, session
<1>3. /\ p.opt = "RECV" /\ p.key = "open" /\ p.n \in Nat /\ p \in Packets
      /\ \/ Works /\ p.n = inbox /\ inbox' = 0 /\ (p.n = 0 => "fin" \in peer)
         \/ ~Works /\ p.n = 0 /\ inbox' = inbox
  <2>1. inbox \in 0 .. MaxIn + MaxOut /\ 0 \in 0 .. MaxIn + MaxOut /\ inbox \in Nat
    BY DEF Types, Chunks
  <2>2. \/ Works /\ p = Packet("RECV", inbox, TRUE) /\ inbox > 0 /\ inbox' = 0
        \/ Works /\ p = Packet("RECV", inbox, TRUE) /\ "fin" \in peer /\ inbox' = 0
        \/ ~Works /\ p = Packet("RECV", 0, FALSE) /\ inbox' = inbox
    BY <1>2
  <2> HIDE DEF Made
  <2>3. CASE Works /\ p = Packet("RECV", inbox, TRUE) /\ inbox > 0 /\ inbox' = 0
    <3>1. p.opt = "RECV" /\ p.key = "open" /\ p.n = inbox /\ p.n \in Nat
          /\ p.n # 0
      BY <2>1, <2>3 DEF Packet
    <3>2. p \in Packets
      BY <2>1, <2>3 DEF Packet, Packets
    <3> QED BY <2>1, <2>3, <3>1, <3>2
  <2>4. CASE Works /\ p = Packet("RECV", inbox, TRUE) /\ "fin" \in peer /\ inbox' = 0
    <3>1. p.opt = "RECV" /\ p.key = "open" /\ p.n = inbox /\ p.n \in Nat
      BY <2>1, <2>4 DEF Packet
    <3>2. p \in Packets
      BY <2>1, <2>4 DEF Packet, Packets
    <3> QED BY <2>1, <2>4, <3>1, <3>2
  <2>5. CASE ~Works /\ p = Packet("RECV", 0, FALSE) /\ inbox' = inbox
    <3>1. p.opt = "RECV" /\ p.key = "open" /\ p.n = 0 /\ p.n \in Nat
      BY <2>1, <2>5 DEF Packet
    <3>2. p \in Packets
      BY <2>1, <2>5 DEF Packet, Packets
    <3> QED BY <2>1, <2>5, <3>1, <3>2
  <2> QED BY <2>2, <2>3, <2>4, <2>5
<1>4. /\ port' \in Seq(Packets) /\ port' # <<>>
      /\ \A k \in DOMAIN port : k \in DOMAIN port' /\ port'[k] = port[k] /\ k # Len(port')
      /\ \A k \in DOMAIN port' : k \in DOMAIN port \/ (k = Len(port') /\ port'[k] = p)
      /\ Len(port') \in DOMAIN port' /\ port'[Len(port')] = p
      /\ port # <<>> => port'[1] = port[1]
  BY <1>2, <1>3, PostedPort
<1>5. wpc \notin InHand /\ \A k \in DOMAIN port : port[k].opt = "SEND"
  BY <1>1 DEF RecvTurn
<1>6. Types'
  BY <1>1, <1>3, <1>4 DEF Types
<1>7. Statuses'
  BY <1>1 DEF Statuses
<1>8. RecvTurn'
  BY <1>1, <1>3, <1>4, <1>5 DEF RecvTurn, InHand
<1>9. Turn'
  BY <1>1, <1>3, <1>4 DEF Turn
<1>10. Awaited'
  BY <1>1, <1>3, <1>4 DEF Awaited, Works
<1>11. Over'
  BY <1>1, <1>4 DEF Over
<1>12. Chunks'
  <2>1. InPort = {} /\ InPort' = {Len(port')}
    BY <1>3, <1>4, <1>5 DEF InPort
  <2>2. Works' = Works
    BY <1>1 DEF Works
  <2>3. shown + unseen + inbox <= arrived /\ (Works => shown + unseen + inbox = arrived)
    BY <2>1 DEF Chunks
  <2>4. shown \in Nat /\ unseen \in Nat /\ inbox \in Nat /\ arrived \in Nat
    BY DEF Types
  <2>5. UNCHANGED <<shown, unseen, arrived, peer>> /\ port'[Len(port')].n = p.n
    BY <1>1, <1>4
  <2> HIDE DEF Made
  <2>6. CASE Works
    BY <1>3, <2>1, <2>2, <2>3, <2>4, <2>5, <2>6 DEF Chunks
  <2>7. CASE ~Works
    BY <1>3, <2>1, <2>2, <2>3, <2>4, <2>5, <2>7 DEF Chunks
  <2> QED BY <2>6, <2>7
<1>13. Told'
  BY <1>1 DEF Told
<1> QED BY <1>6, <1>7, <1>8, <1>9, <1>10, <1>11, <1>12, <1>13

LEMMA SendCompletesMade == ASSUME Made, SendCompletes PROVE Made'
<1> DEFINE p == Packet("SEND", IF Works THEN sendOp ELSE 0, Works)
<1>1. /\ sendOp > 0 /\ sendOp' = 0 /\ port' = Append(port, p)
      /\ UNCHANGED <<pipe, peer, arrived, thread, mpc, queue, sent, session, recvOp, inbox>>
  BY DEF SendCompletes, SystemLeaves, Works
<1> USE IocpAssumption DEF Made, pipe, thread, session
<1>2. /\ p.opt = "SEND" /\ p.key = "open" /\ p \in Packets /\ p.n <= Len(out)
      /\ Works => p.ok
  <2>1. /\ sendOp \in Nat /\ sendOp <= Len(out) /\ Len(out) \in Nat
        /\ sendOp \in 0 .. MaxIn + MaxOut /\ 0 \in 0 .. MaxIn + MaxOut
    BY DEF Types, Turn
  <2> HIDE DEF Made
  <2>2. Works \in BOOLEAN
    BY DEF Works
  <2> QED BY <2>1, <2>2 DEF Packet, Packets
<1> HIDE DEF p
<1>3. /\ port' \in Seq(Packets) /\ port' # <<>>
      /\ \A k \in DOMAIN port : k \in DOMAIN port' /\ port'[k] = port[k] /\ k # Len(port')
      /\ \A k \in DOMAIN port' : k \in DOMAIN port \/ (k = Len(port') /\ port'[k] = p)
      /\ Len(port') \in DOMAIN port' /\ port'[Len(port')] = p
      /\ port # <<>> => port'[1] = port[1]
  BY <1>1, <1>2, PostedPort
<1>4. ~needPost /\ \A k \in DOMAIN port : port[k].opt # "SEND"
  BY <1>1 DEF Turn
<1>5. Types'
  BY <1>1, <1>3 DEF Types
<1>6. Statuses'
  BY <1>1 DEF Statuses
<1>7. RecvTurn'
  BY <1>1, <1>2, <1>3 DEF RecvTurn
<1>8. Turn'
  <2>1. Len(out) \in Nat
    BY DEF Types
  <2> QED BY <1>1, <1>2, <1>3, <1>4, <2>1 DEF Turn
<1>9. Awaited'
  BY <1>1, <1>2, <1>3, <1>4 DEF Awaited, Works
<1>10. Over'
  BY <1>1, <1>3 DEF Over
<1>11. Chunks'
  <2>1. InPort' = InPort /\ \A k \in InPort : port'[k] = port[k]
    BY <1>2, <1>3 DEF InPort
  <2> QED BY <1>1, <2>1 DEF Chunks, Works
<1>12. Told'
  BY <1>1 DEF Told
<1> QED BY <1>5, <1>6, <1>7, <1>8, <1>9, <1>10, <1>11, <1>12

LEMMA PeerSendsMade == ASSUME Made, PeerSends PROVE Made'
<1> USE IocpAssumption DEF PeerSends, Connected, Made, pipe, system, remote, thread, session
<1>1. Types'
  BY DEF Types
<1>2. Statuses'
  BY DEF Statuses
<1>3. RecvTurn'
  BY DEF RecvTurn
<1>4. Turn'
  BY DEF Turn
<1>5. Awaited'
  BY DEF Awaited, Works
<1>6. Over'
  BY DEF Over
<1>7. Chunks'
  <2>1. /\ peer = {} /\ arrived' = arrived + 1 /\ inbox' = inbox + 1 /\ Works
        /\ UNCHANGED <<shown, unseen, port>>
    BY DEF Works
  <2>2. shown \in Nat /\ unseen \in Nat /\ inbox \in Nat /\ arrived \in Nat
    BY DEF Types
  <2>3. /\ shown + unseen + inbox <= arrived
        /\ InPort = {} => shown + unseen + inbox = arrived
    BY <2>1 DEF Chunks
  <2>4. ASSUME NEW k \in InPort
        PROVE  /\ port[k].n \in Nat /\ shown + unseen + inbox + port[k].n = arrived
               /\ port[k].n # 0
    BY <2>1, PacketTyped DEF Chunks, InPort
  <2>5. ASSUME NEW k \in InPort
        PROVE  shown' + unseen' + inbox' + port'[k].n = arrived' /\ port'[k].n # 0
    <3> HIDE DEF Made, PeerSends
    <3> QED BY <2>1, <2>2, <2>4
  <2>6. InPort' = InPort
    BY <2>1 DEF InPort
  <2>7. shown' + unseen' + inbox' <= arrived'
    <3> HIDE DEF Made, PeerSends
    <3> QED BY <2>1, <2>2, <2>3
  <2>8. InPort = {} => shown' + unseen' + inbox' = arrived'
    <3> HIDE DEF Made, PeerSends
    <3> QED BY <2>1, <2>2, <2>3
  <2>9. arrived' \in Nat
    BY <2>1, <2>2
  <2> HIDE DEF Made, PeerSends
  <2> QED BY <2>5, <2>6, <2>7, <2>8, <2>9 DEF Chunks
<1>8. Told'
  BY DEF Told
<1> QED BY <1>1, <1>2, <1>3, <1>4, <1>5, <1>6, <1>7, <1>8

LEMMA PeerEndsMade == ASSUME Made, NEW how \in {"fin", "rst"}, PeerEnds(how) PROVE Made'
<1> USE IocpAssumption DEF PeerEnds, Connected, Made, pipe, system, remote, thread, session
<1>1. Types'
  BY DEF Types
<1>2. Statuses'
  BY DEF Statuses
<1>3. RecvTurn'
  BY DEF RecvTurn
<1>4. Turn'
  BY DEF Turn
<1>5. Awaited'
  BY DEF Awaited, Works
<1>6. Over'
  BY DEF Over
<1>7. Chunks'
  BY DEF Chunks, Works, InPort
<1>8. Told'
  BY DEF Told
<1> QED BY <1>1, <1>2, <1>3, <1>4, <1>5, <1>6, <1>7, <1>8

(***************************************************************************)
(* Dialling, and the start.                                                *)
(***************************************************************************)
BeforeLeaves == \/ AddClient \/ AddClientFails \/ ConnectCompletes \/ TakeConnect \/ Post
                \/ ReadConnectFailed

LEMMA Dials == ASSUME Before, BeforeLeaves PROVE Before'
<1>1. CASE AddClient \/ AddClientFails
  BY <1>1 DEF AddClient, AddClientFails, Before, Untouched, Nowhere, pipe, system, remote,
              thread, session
<1>2. CASE ConnectCompletes
  <2>1. /\ recvOp = "connect" /\ recvOp' = "none" /\ Nowhere /\ mpc = "idle" /\ sock = "open"
    BY <1>2 DEF ConnectCompletes, Before
  <2>2. PICK ok \in BOOLEAN : port' = Append(port, Packet("CONNECT", 0, ok))
    BY <1>2 DEF ConnectCompletes
  <2>3. port' = <<Packet("CONNECT", 0, ok)>>
    BY <2>1, <2>2 DEF Nowhere
  <2>4. UNCHANGED <<pipe, peer, arrived, thread, mpc, queue, sent, session, sendOp, inbox>>
    BY <1>2 DEF ConnectCompletes, SystemLeaves
  <2> QED BY <2>1, <2>3, <2>4 DEF Before, Untouched, Nowhere, pipe, thread, session
<1>3. CASE TakeConnect
  <2>1. wpc = "wait" /\ port # <<>> /\ port' = Tail(port) /\ wpc' = "post"
        /\ post' \in {"CONNECTED", "CONNECTFAILD"}
    BY <1>3 DEF TakeConnect, Takes, Adds
  <2>2. PICK ok \in BOOLEAN : port = <<Packet("CONNECT", 0, ok)>>
    BY <2>1 DEF Before, Nowhere
  <2>3. port' = <<>> /\ mpc = "idle" /\ sock = "open" /\ recvOp = "none" /\ queue = <<>>
    BY <2>1, <2>2 DEF Before, Nowhere
  <2>4. UNCHANGED <<sock, needPost, out, unseen, recvOp, sendOp, related, queue, status,
                    remote, mpc, sent, session>>
    BY <1>3 DEF TakeConnect, WorkerLeaves
  <2> QED BY <2>1, <2>3, <2>4 DEF Before, Untouched, remote, session
<1>4. CASE Post
  <2>1. /\ wpc = "post" /\ wpc' = "wait" /\ queue' = Append(queue, post) /\ post' = "none"
        /\ related' = (related /\ post # "BREAK")
        /\ UNCHANGED <<sock, needPost, out, unseen, system, status, remote, mpc, sent, session>>
    BY <1>4 DEF Post, WorkerLeaves
  <2>2. /\ mpc = "idle" /\ sock = "open" /\ recvOp = "none" /\ port = <<>> /\ queue = <<>>
        /\ post \in {"CONNECTED", "CONNECTFAILD"}
    BY <2>1 DEF Before, Nowhere
  <2>3. queue' = <<post>>
    BY <2>1, <2>2
  <2> QED BY <2>1, <2>2, <2>3 DEF Before, Untouched, system, remote, session
<1>5. CASE ReadConnectFailed
  <2>1. /\ queue # <<>> /\ queue' = Tail(queue) /\ status' = "UNINITIALIZE"
        /\ UNCHANGED <<unseen, mpc, shown, breaks, sock, needPost, out, system, remote, thread,
                       sent, connects, closed>>
    BY <1>5 DEF ReadConnectFailed, Reads, EventLeaves
  <2>2. PICK e \in {"CONNECTED", "CONNECTFAILD"} : queue = <<e>>
    BY <2>1 DEF Before, Nowhere
  <2>3. /\ mpc = "idle" /\ sock = "open" /\ recvOp = "none" /\ port = <<>> /\ wpc = "wait"
        /\ post = "none" /\ queue' = <<>>
    BY <2>1, <2>2 DEF Before, Nowhere
  <2> QED BY <2>1, <2>3 DEF Before, Untouched, Nowhere, system, remote, thread
<1> QED BY <1>1, <1>2, <1>3, <1>4, <1>5 DEF BeforeLeaves

LEMMA Starts == ASSUME Before, CompletedAccept \/ ReadConnected PROVE Made'
<1>1. /\ port = <<>> /\ wpc = "wait" /\ post = "none" /\ recvOp = "none" /\ queue' = <<>>
  <2>1. CASE CompletedAccept
    BY <2>1 DEF CompletedAccept, Before, Nowhere
  <2>2. CASE ReadConnected
    <3>1. queue # <<>> /\ queue' = Tail(queue)
      BY <2>2 DEF ReadConnected, Reads
    <3>2. PICK e \in {"CONNECTED", "CONNECTFAILD"} : queue = <<e>>
      BY <3>1 DEF Before, Nowhere
    <3> QED BY <3>1, <3>2 DEF Before, Nowhere
  <2> QED BY <2>1, <2>2
<1>2. /\ status' = "ESTABLISHED" /\ mpc' = "connected" /\ sock' = "open"
      /\ port' = Append(port, Packet("ACCEPT", 0, TRUE))
      /\ UNCHANGED <<needPost, out, unseen, recvOp, sendOp, remote, thread, sent, session>>
  BY DEF CompletedAccept, ReadConnected, Establish
<1>3. Untouched
  BY DEF Before
<1>4. port' = <<Packet("ACCEPT", 0, TRUE)>>
  BY <1>1, <1>2
<1>5. /\ DOMAIN port' = {1} /\ port'[1].opt = "ACCEPT" /\ port' # <<>> /\ port' \in Seq(Packets)
  <2> DEFINE p == Packet("ACCEPT", 0, TRUE)
  <2>1. p \in Packets /\ p.opt = "ACCEPT"
    BY IocpAssumption DEF Packet, Packets
  <2>2. port' = <<p>>
    BY <1>4
  <2> HIDE DEF p
  <2> QED BY <2>1, <2>2
<1>6. /\ needPost' = TRUE /\ out' = <<>> /\ unseen' = 0 /\ related' = FALSE /\ sendOp' = 0
      /\ peer' = {} /\ inbox' = 0 /\ sent' = 0 /\ arrived' = 0 /\ shown' = 0
      /\ connects' = 0 /\ breaks' = 0 /\ closed' = FALSE
      /\ wpc' = "wait" /\ post' = "none" /\ recvOp' = "none"
  BY <1>1, <1>2, <1>3 DEF Untouched, remote, thread, session
<1>7. Types'
  <2>1. out' \in Seq(1 .. MaxOut) /\ queue' \in Seq({"RECV", "BREAK"}) /\ Len(out') = 0
        /\ Len(queue') = 0
    BY <1>1, <1>6, EmptySeq
  <2>2. /\ unseen' \in Nat /\ inbox' \in Nat /\ shown' \in Nat /\ arrived' \in 0 .. MaxIn
        /\ sent' \in 0 .. MaxOut /\ sendOp' \in 0 .. SendSize
        /\ connects' \in 0 .. 1 /\ breaks' \in 0 .. connects'
        /\ Len(out') <= sent' /\ Len(queue') <= QueueSize
    BY <1>6, <2>1, IocpAssumption
  <2>3. /\ needPost' \in BOOLEAN /\ related' \in BOOLEAN /\ closed' \in BOOLEAN
        /\ peer' \subseteq {"fin", "rst"}
    BY <1>6
  <2> QED BY <1>2, <1>5, <1>6, <2>1, <2>2, <2>3 DEF Types
<1>8. Statuses'
  BY <1>2, <1>6 DEF Statuses
<1>9. Awaited'
  BY <1>2, <1>5, <1>6 DEF Awaited
<1>10. Told'
  BY <1>2, <1>6 DEF Told
<1>12. RecvTurn'
  BY <1>2, <1>5, <1>6 DEF RecvTurn, InHand
<1>13. Turn'
  <2>1. Len(out') = 0
    BY <1>6
  <2> QED BY <1>5, <1>6, <2>1 DEF Turn
<1>14. Over'
  <2>1. DOMAIN queue' = {}
    BY <1>1
  <2> QED BY <1>2, <1>5, <1>6, <2>1 DEF Over
<1>11. Chunks'
  <2>1. InPort' = {}
    BY <1>5 DEF InPort
  <2> QED BY <1>6, <2>1 DEF Chunks
<1> QED BY <1>7, <1>8, <1>9, <1>10, <1>11, <1>12, <1>13, <1>14 DEF Made

\* The steps of a connection that has not been made, and of one that has.
LEMMA BeforeNext ==
    ASSUME Before, Next PROVE BeforeLeaves \/ CompletedAccept \/ ReadConnected
<1>1. /\ status = "UNINITIALIZE" /\ sendOp = 0 /\ ~(connects > breaks)
      /\ mpc \in {"start", "idle"} /\ recvOp \in {"none", "connect"}
      /\ wpc \in {"wait", "post"} /\ sendOp \in Nat
  BY DEF Before, Untouched, Nowhere
<1>2. port # <<>> => Head(port).opt = "CONNECT"
  <2>1. ASSUME NEW ok, port = <<Packet("CONNECT", 0, ok)>>
        PROVE  Head(port).opt = "CONNECT"
    BY <2>1 DEF Packet
  <2> QED BY <2>1 DEF Before, Nowhere
<1>3. queue # <<>> => Head(queue) \in {"CONNECTED", "CONNECTFAILD"}
  BY DEF Before, Nowhere
<1>4. ~(OnConnected \/ SendIn \/ Close \/ SendPosts \/ ReadRecv \/ ReadBreak)
  BY <1>1, <1>3 DEF OnConnected, SendIn, Close, MayCall, SendPosts, ReadRecv, ReadBreak,
                    Reads
<1>5. ~(TakeAccept \/ AcceptRecvs \/ TakeRecv \/ Received \/ TakeSend \/ Sent)
  BY <1>1, <1>2 DEF TakeAccept, AcceptRecvs, TakeRecv, Received, TakeSend, Sent, Takes
<1>6. ~(RecvCompletes \/ SendCompletes \/ PeerSends
        \/ \E how \in {"fin", "rst"} : PeerEnds(how))
  <2>1. ~(RecvCompletes \/ PeerSends \/ \E how \in {"fin", "rst"} : PeerEnds(how))
    BY <1>1 DEF RecvCompletes, PeerSends, PeerEnds, Connected
  <2>2. ~SendCompletes
    BY <1>1 DEF SendCompletes
  <2> QED BY <2>1, <2>2
<1> QED BY <1>4, <1>5, <1>6 DEF Next, MainStep, WorkerStep, SystemStep, BeforeLeaves

LEMMA MadeNext ==
    ASSUME Made, Next
    PROVE  \/ OnConnected \/ SendIn \/ Close \/ SendPosts \/ ReadRecv \/ ReadBreak
           \/ TakeAccept \/ AcceptRecvs \/ TakeRecv \/ Received \/ TakeSend \/ Sent \/ Post
           \/ RecvCompletes \/ SendCompletes \/ PeerSends
           \/ \E how \in {"fin", "rst"} : PeerEnds(how)
<1>1. port \in Seq(Packets) /\ queue \in Seq({"RECV", "BREAK"})
      /\ mpc # "start" /\ recvOp # "connect"
  BY DEF Made, Types
<1>2. port # <<>> => Head(port) \in Packets
  BY <1>1
<1>3. queue # <<>> => Head(queue) \in {"RECV", "BREAK"}
  BY <1>1
<1>4. ~(AddClient \/ AddClientFails \/ CompletedAccept \/ ReadConnected
        \/ ReadConnectFailed \/ TakeConnect \/ ConnectCompletes)
  BY <1>1, <1>2, <1>3 DEF Packets, AddClient, AddClientFails, CompletedAccept, ReadConnected,
     ReadConnectFailed, Reads, TakeConnect, Takes, ConnectCompletes
<1> QED BY <1>4 DEF Next, MainStep, WorkerStep, SystemStep

LEMMA Invariant == Spec => []IInv
<1>1. Init => IInv
  BY DEF Init, IInv, Before, Untouched, Nowhere
<1>2. IInv /\ [Next]_vars => IInv'
  <2> SUFFICES ASSUME IInv, [Next]_vars PROVE IInv'
    OBVIOUS
  <2>1. CASE UNCHANGED vars
    <3>1. Before => Before'
      BY <2>1 DEF vars, pipe, system, remote, thread, session, Before, Untouched, Nowhere
    <3>2. Made => Made'
      BY <2>1 DEF vars, pipe, system, remote, thread, session, Made, Types, Statuses,
                  RecvTurn, Turn, Awaited, Works, Over, Chunks, InPort, Told
    <3> QED BY <3>1, <3>2 DEF IInv
  <2>2. CASE Before /\ Next
    BY <2>2, BeforeNext, Dials, Starts DEF IInv
  <2>3. CASE Made /\ Next
    BY <2>3, MadeNext, SendInMade, CloseMade, OnConnectedMade, SendPostsMade, ReadRecvMade,
       ReadBreakMade, TakeAcceptMade, AcceptRecvsMade, TakeRecvMade, ReceivedMade,
       TakeSendMade, SentMade, PostMade, RecvCompletesMade, SendCompletesMade,
       PeerSendsMade, PeerEndsMade DEF IInv
  <2> QED BY <2>1, <2>2, <2>3 DEF IInv
<1> QED BY <1>1, <1>2, PTL DEF Spec

(***************************************************************************)
(* Types, and bounds of what is under way.                                 *)
(***************************************************************************)
THEOREM TypeCorrect == Spec => []TypeOK
<1> DEFINE All == [opt : {"CONNECT", "ACCEPT", "RECV", "SEND"}, key : {"open", "closed"},
                   n : 0 .. MaxIn + MaxOut, ok : BOOLEAN]
<1>1. ASSUME Before PROVE TypeOK
  <2>1. port \in Seq(All)
    <3>1. ASSUME NEW ok \in BOOLEAN, port = <<Packet("CONNECT", 0, ok)>> PROVE port \in Seq(All)
      <4>1. Packet("CONNECT", 0, ok) \in All
        BY IocpAssumption DEF Packet
      <4> QED BY <3>1, <4>1
    <3>2. <<>> \in Seq(All)
      BY EmptySeq
    <3> QED BY <1>1, <3>1, <3>2 DEF Before, Nowhere
  <2>2. /\ queue \in Seq({"RECV", "BREAK", "CONNECTED", "CONNECTFAILD"})
        /\ Len(queue) <= QueueSize
    <3>1. CASE queue = <<>>
      BY <3>1, IocpAssumption
    <3>2. ASSUME NEW e \in {"CONNECTED", "CONNECTFAILD"}, queue = <<e>>
          PROVE  /\ queue \in Seq({"RECV", "BREAK", "CONNECTED", "CONNECTFAILD"})
                 /\ Len(queue) <= QueueSize
      BY <3>2, IocpAssumption
    <3> QED BY <1>1, <3>1, <3>2 DEF Before, Nowhere
  <2>3. /\ mpc \in {"start", "idle"} /\ sock \in {"none", "open"}
        /\ recvOp \in {"none", "connect"} /\ wpc \in {"wait", "post"}
        /\ post \in {"none", "CONNECTED", "CONNECTFAILD"}
    BY <1>1 DEF Before, Nowhere
  <2>4. out \in Seq(1 .. MaxOut) /\ 0 \in 0 .. MaxIn /\ 0 \in 0 .. SendSize
    BY <1>1, IocpAssumption, EmptySeq DEF Before, Untouched
  <2>5. needPost \in BOOLEAN /\ related \in BOOLEAN /\ closed \in BOOLEAN
    BY <1>1 DEF Before, Untouched
  <2>6. connects \in 0 .. 1 /\ breaks \in 0 .. connects
    BY <1>1 DEF Before, Untouched
  <2> QED BY <1>1, <2>1, <2>2, <2>3, <2>4, <2>5, <2>6 DEF Before, Untouched, TypeOK
<1>2. ASSUME Made PROVE TypeOK
  <2>1. port \in Seq(All)
    <3>1. Packets \subseteq All
      BY DEF Packets
    <3>2. port \in Seq(Packets)
      BY <1>2 DEF Made, Types
    <3> HIDE DEF All
    <3> QED BY <3>1, <3>2
  <2>2. queue \in Seq({"RECV", "BREAK", "CONNECTED", "CONNECTFAILD"})
    BY <1>2 DEF Made, Types
  <2>3. unseen \in 0 .. MaxIn /\ inbox \in 0 .. MaxIn
    BY <1>2, IocpAssumption DEF Made, Types, Chunks
  <2>4. status \in {"UNINITIALIZE", "ESTABLISHED", "WAITCLOSE"}
    BY <1>2 DEF Made, Statuses
  <2>5. post \in {"none", "RECV", "BREAK", "CONNECTED", "CONNECTFAILD"}
    BY <1>2 DEF Made, Types
  <2> HIDE DEF All
  <2> QED BY <1>2, <2>1, <2>2, <2>3, <2>4, <2>5 DEF Made, Types, TypeOK, All
<1>3. IInv => TypeOK
  BY <1>1, <1>2 DEF IInv
<1> QED BY <1>3, Invariant, PTL

(***************************************************************************)
(* The send operation is in one pair of hands while m_bNeedPostOPT is      *)
(* down, and what is sent on a connection that works does not wait without *)
(* it, whatever the sizes (CPipe.cpp 83-93, 99-126).                       *)
(***************************************************************************)
THEOREM SendOperationTakesTurns == Spec => []SendTurn
<1> DEFINE S == {k \in DOMAIN port : port[k].opt = "SEND"}
<1>1. ASSUME Before PROVE SendTurn
  <2>1. needPost /\ out = <<>> /\ sendOp = 0
    BY <1>1 DEF Before, Untouched
  <2>2. S = {}
    <3>1. ASSUME NEW ok, port = <<Packet("CONNECT", 0, ok)>> PROVE S = {}
      BY <3>1 DEF Packet
    <3> QED BY <1>1, <3>1 DEF Before, Nowhere
  <2>3. Sends = 0
    BY <2>1, <2>2, FS_EmptySet DEF Sends
  <2> QED BY <2>1, <2>3 DEF SendTurn
<1>2. ASSUME Made PROVE SendTurn
  <2>1. sendOp \in Nat
    BY <1>2, IocpAssumption DEF Made, Types
  <2>2. CASE S = {}
    <3>1. Sends = IF sendOp > 0 THEN 1 ELSE 0
      BY <2>2, FS_EmptySet DEF Sends
    <3> QED BY <1>2, <2>1, <2>2, <3>1 DEF Made, Turn, Awaited, Works, SendTurn
  <2>3. CASE S # {}
    <3>1. PICK k \in S : TRUE
      BY <2>3
    <3>2. S = {k} /\ ~needPost /\ sendOp = 0
      BY <1>2, <3>1 DEF Made, Turn
    <3>3. Sends = 1
      BY <3>2, FS_Singleton DEF Sends
    <3> QED BY <3>2, <3>3 DEF SendTurn
  <2> QED BY <2>2, <2>3
<1>3. IInv => SendTurn
  BY <1>1, <1>2 DEF IInv
<1> QED BY <1>3, Invariant, PTL

(***************************************************************************)
(* What each step tells the session is a step of the contract.             *)
(***************************************************************************)
LEMMA SessionInit == Init => Session!Init
BY DEF Init, Session!Init

LEMMA NotTold ==
    ASSUME UNCHANGED <<arrived, peer, shown, connects, breaks, closed>>
    PROVE  UNCHANGED Session!vars
BY DEF Session!vars

LEMMA PeerTold ==
    ASSUME PeerSends \/ \E how \in {"fin", "rst"} : PeerEnds(how)
    PROVE  [Session!Next]_(Session!vars)
<1>1. CASE PeerSends
  <2>1. Session!PeerSends
    BY <1>1 DEF PeerSends, Session!PeerSends, session
  <2> QED BY <2>1 DEF Session!Next
<1>2. CASE PeerEnds("fin")
  <2>1. Session!PeerEnds
    BY <1>2 DEF PeerEnds, Session!PeerEnds, session
  <2> QED BY <2>1 DEF Session!Next
<1>3. CASE PeerEnds("rst")
  <2>1. /\ "rst" \notin peer /\ peer' = peer \cup {"rst"}
        /\ UNCHANGED <<arrived, shown, connects, breaks, closed>>
    BY <1>3 DEF PeerEnds, session
  <2>2. CASE closed
    BY <2>1, <2>2 DEF Session!vars
  <2>3. CASE ~closed
    <3>1. Session!Close
      BY <2>1, <2>3 DEF Session!Close
    <3> QED BY <3>1 DEF Session!Next
  <2> QED BY <2>2, <2>3
<1> QED BY <1>1, <1>2, <1>3

LEMMA MainTold ==
    ASSUME Made, OnConnected \/ Close \/ ReadRecv \/ ReadBreak
    PROVE  [Session!Next]_(Session!vars)
<1>1. CASE OnConnected
  <2>1. connects = 0
    BY <1>1 DEF OnConnected, Made, Statuses
  <2>2. Session!OnConnected
    BY <1>1, <2>1 DEF OnConnected, Session!OnConnected, remote, Made, Types
  <2> QED BY <2>2 DEF Session!Next
<1>2. CASE Close
  <2>1. /\ ~closed /\ closed' = TRUE
        /\ UNCHANGED <<arrived, peer, shown, connects, breaks>>
    BY <1>2 DEF Close, MayCall, remote
  <2>2. CASE "rst" \in peer
    BY <2>1, <2>2 DEF Session!vars
  <2>3. CASE "rst" \notin peer
    <3>1. Session!Close
      BY <2>1, <2>3 DEF Session!Close
    <3> QED BY <3>1 DEF Session!Next
  <2> QED BY <2>2, <2>3
<1>3. CASE ReadRecv
  <2>1. /\ shown' = shown + unseen
        /\ UNCHANGED <<arrived, peer, connects, breaks, closed>>
    BY <1>3 DEF ReadRecv, EventLeaves, remote
  <2>2. /\ 1 \in DOMAIN queue /\ queue[1] = "RECV" /\ connects = 1
    BY <1>3, ReadQueue DEF ReadRecv
  <2>3. breaks = 0
    BY <2>2 DEF Made, Over, Types
  <2>4. /\ shown \in Nat /\ unseen \in Nat /\ arrived \in Nat /\ shown + unseen <= arrived
    BY IocpAssumption DEF Made, Types, Chunks
  <2>5. CASE unseen = 0
    BY <2>1, <2>4, <2>5 DEF Session!vars
  <2>6. CASE unseen # 0
    <3>1. Session!OnRecv
      BY <2>1, <2>2, <2>3, <2>4, <2>6 DEF Session!OnRecv
    <3> QED BY <3>1 DEF Session!Next
  <2> QED BY <2>5, <2>6
<1>4. CASE ReadBreak
  <2>1. /\ breaks' = breaks + 1
        /\ UNCHANGED <<arrived, peer, shown, connects, closed>>
    BY <1>4 DEF ReadBreak, EventLeaves, remote
  <2>2. /\ sock = "closed" /\ connects = 1 /\ breaks = 0
        /\ ~closed /\ "rst" \notin peer => unseen = 0
    BY <1>4, LastBreak
  <2>3. (closed \/ "rst" \in peer) \/ ("fin" \in peer /\ shown = arrived)
    BY <2>2 DEF Made, Told, Types
  <2>4. Session!OnDisconnect
    BY <2>1, <2>2, <2>3 DEF Session!OnDisconnect
  <2> QED BY <2>4 DEF Session!Next
<1> QED BY <1>1, <1>2, <1>3, <1>4

(***************************************************************************)
(* The session is told as SessionContract says, after a Close of its own   *)
(* or a reset in any order (iocpworker.cpp 36-77, 112-130, 193-217).       *)
(***************************************************************************)
THEOREM SessionKept == Spec => KeepsSession
<1>1. IInv /\ [Next]_vars => [Session!Next]_(Session!vars)
  <2> SUFFICES ASSUME IInv, [Next]_vars PROVE [Session!Next]_(Session!vars)
    OBVIOUS
  <2>1. CASE PeerSends \/ \E how \in {"fin", "rst"} : PeerEnds(how)
    BY <2>1, PeerTold
  <2>2. CASE OnConnected \/ Close \/ ReadRecv \/ ReadBreak
    <3>1. ~Before
      BY <2>2 DEF OnConnected, Close, MayCall, ReadRecv, ReadBreak, Reads, Before, Untouched,
                  Nowhere
    <3> QED BY <2>2, <3>1, MainTold DEF IInv
  <2>3. CASE ~(PeerSends \/ \E how \in {"fin", "rst"} : PeerEnds(how))
             /\ ~(OnConnected \/ Close \/ ReadRecv \/ ReadBreak)
    <3>1. UNCHANGED <<arrived, peer, shown, connects, breaks, closed>>
      BY <2>3 DEF Next, MainStep, WorkerStep, SystemStep, vars, remote, session, AddClient,
                  AddClientFails, CompletedAccept, Establish, SendIn, SendPosts,
                  SendLeaves, ReadConnected,
                  ReadConnectFailed, EventLeaves, TakeConnect, TakeAccept, AcceptRecvs,
                  TakeRecv, Received, ReceivedLeaves, TakeSend, Sent, SentLeaves, Post,
                  WorkerLeaves, ConnectCompletes, RecvCompletes, SendCompletes, SystemLeaves
    <3> QED BY <3>1, NotTold
  <2> QED BY <2>1, <2>2, <2>3
<1> QED BY <1>1, SessionInit, Invariant, PTL DEF Spec, KeepsSession, Session!Spec

(***************************************************************************)
(* Which operations of a connection are under way, with the system, in the *)
(* port or in the worker's hands, and so who hears of its end.             *)
(***************************************************************************)
Receiving == \/ recvOp = "recv" \/ wpc \in InHand
             \/ \E k \in DOMAIN port : port[k].opt # "SEND"
Sending == sendOp > 0 \/ \E k \in DOMAIN port : port[k].opt = "SEND"

\* A connection that works and is not closed has its receive operation under
\* way; one that has ended leaves a single operation behind, unless its session
\* has closed it, and its end is being told or has been.
GoesOn ==
    /\ Works /\ status = "ESTABLISHED" => Receiving
    /\ sock = "closed" =>
          /\ closed \/ ~Receiving \/ ~Sending
          /\ \/ breaks = 1 \/ post = "BREAK"
             \/ \E k \in DOMAIN queue : queue[k] = "BREAK"

\* An operation under way will hear of a Close, if it is not the first receive
\* that the worker is about to post.  No further receive is posted and nothing
\* more is to be sent; a completion ends the connection, or has the send
\* operation under way, whose last completion ends it.
Hears == Sending \/ wpc = "sent" \/ (Receiving /\ wpc # "accepted")
EndsIt == sock' = "closed" /\ post' = "BREAK"
CloseIsHeard ==
    closed /\ Works =>
        /\ Hears => Hears' \/ ~Works'
        /\ recvOp' = "recv" => recvOp = "recv"
        /\ Len(out') <= Len(out)
        /\ TakeAccept \/ Received => Sending' \/ EndsIt
        /\ TakeSend => Sending' \/ wpc' = "sent" \/ EndsIt
        /\ Sent => EndsIt

\* The packet of an operation that outlives its connection changes nothing.
DropsLate ==
    sock = "closed" /\ wpc = "wait" =>
        /\ WorkerStep => UNCHANGED <<pipe, recvOp, sendOp, thread, queue>>
        /\ sock' = "closed" /\ wpc' = "wait"

\* The inductive part: who could still post.
Leaves ==
    /\ Works /\ status = "ESTABLISHED" => Receiving
    /\ sock = "closed" => closed \/ ~Receiving \/ (~Sending /\ ~needPost)

\* The steps that leave the port and both operations alone, or add to them.
LEMMA MainLeaves ==
    ASSUME Made, Leaves,
           OnConnected \/ SendIn \/ Close \/ SendPosts \/ ReadRecv \/ ReadBreak \/ Post
           \/ PeerSends \/ \E how \in {"fin", "rst"} : PeerEnds(how)
    PROVE  Leaves'
<1>1. CASE SendPosts
  <2>1. /\ UNCHANGED <<sock, status, peer, recvOp, sendOp, wpc, closed>>
        /\ needPost' = FALSE
        /\ IF needPost THEN PostsSend ELSE UNCHANGED port
    BY <1>1 DEF SendPosts, SendLeaves, remote, thread, session
  <2>2. CASE needPost
    <3>1. [opt |-> "SEND", key |-> sock, n |-> 0, ok |-> TRUE] \in Packets
      BY IocpAssumption DEF Made, Types, Packets
    <3>2. /\ \A k \in DOMAIN port : k \in DOMAIN port' /\ port'[k] = port[k]
          /\ \A k \in DOMAIN port' : k \in DOMAIN port \/ port'[k].opt = "SEND"
      BY <2>1, <2>2, <3>1, PostedPort DEF PostsSend
    <3>3. Receiving' <=> Receiving
      BY <2>1, <3>2 DEF Receiving
    <3> HIDE DEF Receiving
    <3> QED BY <2>1, <2>2, <3>3 DEF Leaves, Works
  <2>3. CASE ~needPost
    BY <2>1, <2>3 DEF Leaves, Works, Receiving, Sending
  <2> QED BY <2>2, <2>3
<1>2. CASE \/ OnConnected \/ SendIn \/ Close \/ ReadRecv \/ ReadBreak \/ Post
           \/ PeerSends \/ \E how \in {"fin", "rst"} : PeerEnds(how)
  <2>1. /\ UNCHANGED <<sock, needPost, port, recvOp, sendOp>>
        /\ status' = "ESTABLISHED" => status = "ESTABLISHED"
        /\ peer \subseteq peer' /\ (closed => closed')
        /\ wpc' \in InHand <=> wpc \in InHand
    BY <1>2 DEF OnConnected, SendIn, Close, ReadRecv, ReadBreak, EventLeaves, Post,
                WorkerLeaves, PeerSends, PeerEnds, pipe, system, remote, thread, session, InHand
  <2>2. (Receiving' <=> Receiving) /\ (Sending' <=> Sending)
    BY <2>1 DEF Receiving, Sending
  <2> HIDE DEF Receiving, Sending
  <2> QED BY <2>1, <2>2 DEF Leaves, Works
<1> QED BY <1>1, <1>2

LEMMA SystemMoves ==
    ASSUME Made, RecvCompletes \/ SendCompletes
    PROVE  (Receiving' <=> Receiving) /\ (Sending' <=> Sending)
<1>1. UNCHANGED <<sock, status, needPost, peer, wpc, closed>>
  BY DEF RecvCompletes, SendCompletes, SystemLeaves, pipe, thread, session
<1>2. (Receiving' <=> Receiving) /\ (Sending' <=> Sending)
  <2>1. CASE RecvCompletes
    <3>1. PICK n \in 0 .. MaxIn + MaxOut, ok \in BOOLEAN :
             port' = Append(port, Packet("RECV", n, ok))
      <4>1. inbox \in 0 .. MaxIn + MaxOut /\ 0 \in 0 .. MaxIn + MaxOut
        BY IocpAssumption DEF Made, Types, Chunks
      <4> QED BY <2>1, <4>1 DEF RecvCompletes
    <3>2. Packet("RECV", n, ok) \in Packets
      BY <3>1 DEF Packet, Packets
    <3>3. /\ \A k \in DOMAIN port : k \in DOMAIN port' /\ port'[k] = port[k]
          /\ \A k \in DOMAIN port' : k \in DOMAIN port \/ port'[k].opt = "RECV"
          /\ Len(port') \in DOMAIN port' /\ port'[Len(port')].opt = "RECV"
      BY <3>1, <3>2, PostedPort DEF Packet
    <3>4. recvOp = "recv" /\ recvOp' = "none" /\ sendOp' = sendOp
      BY <2>1 DEF RecvCompletes
    <3> QED BY <1>1, <3>3, <3>4 DEF Receiving, Sending
  <2>2. CASE SendCompletes
    <3>1. PICK n \in 0 .. MaxIn + MaxOut, ok \in BOOLEAN :
             port' = Append(port, Packet("SEND", n, ok))
      <4>1. sendOp \in 0 .. MaxIn + MaxOut /\ 0 \in 0 .. MaxIn + MaxOut
        BY IocpAssumption DEF Made, Types, Turn
      <4> QED BY <2>2, <4>1 DEF SendCompletes
    <3>2. Packet("SEND", n, ok) \in Packets
      BY <3>1 DEF Packet, Packets
    <3>3. /\ \A k \in DOMAIN port : k \in DOMAIN port' /\ port'[k] = port[k]
          /\ \A k \in DOMAIN port' : k \in DOMAIN port \/ port'[k].opt = "SEND"
          /\ Len(port') \in DOMAIN port' /\ port'[Len(port')].opt = "SEND"
      BY <3>1, <3>2, PostedPort DEF Packet
    <3>4. sendOp > 0 /\ sendOp' = 0 /\ recvOp' = recvOp
      BY <2>2 DEF SendCompletes
    <3> QED BY <1>1, <3>3, <3>4 DEF Receiving, Sending
  <2> QED BY <2>1, <2>2
<1> QED BY <1>2

LEMMA SystemKeeps ==
    ASSUME Made, Leaves, RecvCompletes \/ SendCompletes PROVE Leaves'
<1>1. UNCHANGED <<sock, status, needPost, peer, wpc, closed>>
  BY DEF RecvCompletes, SendCompletes, SystemLeaves, pipe, thread, session
<1> QED BY <1>1, SystemMoves DEF Leaves, Works

\* A packet that has been taken was the only one of its operation.
LEMMA TakenOperation ==
    ASSUME Made, NEW opt \in {"ACCEPT", "RECV", "SEND"}, Takes(opt)
    PROVE  /\ opt = "SEND" => /\ \A k \in DOMAIN port' : port'[k].opt # "SEND"
                              /\ sendOp = 0 /\ ~needPost
                              /\ (\E k \in DOMAIN port' : port'[k].opt # "SEND")
                                    <=> \E k \in DOMAIN port : port[k].opt # "SEND"
           /\ opt # "SEND" => /\ \A k \in DOMAIN port' : port'[k].opt = "SEND"
                              /\ recvOp = "none"
                              /\ (\E k \in DOMAIN port' : port'[k].opt = "SEND")
                                    <=> \E k \in DOMAIN port : port[k].opt = "SEND"
<1>1. /\ 1 \in DOMAIN port /\ port[1].opt = opt
      /\ \A k \in DOMAIN port' : k + 1 \in DOMAIN port /\ port'[k] = port[k + 1]
      /\ \A k \in DOMAIN port : k # 1 => k - 1 \in DOMAIN port' /\ port'[k - 1] = port[k]
      /\ \A k \in DOMAIN port' :
            IF opt = "SEND" THEN port'[k].opt = "RECV" ELSE port'[k].opt = "SEND"
  BY TakenPort
<1>2. /\ opt = "SEND" => ~needPost /\ sendOp = 0
      /\ opt # "SEND" => recvOp = "none"
  BY <1>1 DEF Made, Turn, RecvTurn
<1> QED BY <1>1, <1>2

LEMMA TakesLeave == ASSUME Made, Leaves, TakeAccept \/ TakeRecv \/ TakeSend PROVE Leaves'
<1>1. CASE TakeAccept
  <2>1. /\ Takes("ACCEPT") /\ wpc = "wait"
        /\ UNCHANGED <<status, needPost, peer, closed, sendOp, recvOp>>
        /\ \/ wpc' = "accepted" /\ sock' = sock /\ status = "ESTABLISHED"
           \/ status # "ESTABLISHED"
    BY <1>1 DEF TakeAccept, Takes, WorkerLeaves, remote, session
  <2>2. sock = "open"
    BY <2>1, TakenPort DEF Made, RecvTurn
  <2>3. status # "ESTABLISHED" => closed
    BY <2>2 DEF Made, Over, Statuses
  <2> QED BY <2>1, <2>2, <2>3 DEF Leaves, Receiving, InHand
<1>2. CASE TakeRecv
  <2>1. /\ Takes("RECV") /\ wpc = "wait"
        /\ UNCHANGED <<status, needPost, peer, closed, sendOp, recvOp>>
        /\ \/ wpc' = "received" /\ sock' = sock /\ Current
           \/ wpc' = "post" /\ sock' = "closed"
           \/ ~Current /\ wpc' = wpc /\ sock' = sock
    BY <1>2 DEF TakeRecv, Takes, Disconnects, Adds, WorkerLeaves, remote, session
  <2>2. /\ \A k \in DOMAIN port' : port'[k].opt = "SEND"
        /\ recvOp = "none" /\ port # <<>> /\ Head(port) = port[1] /\ 1 \in DOMAIN port
        /\ port[1].opt = "RECV"
    BY <2>1, TakenOperation, TakenPort DEF Takes
  <2>3. sock = "open" => Current
    BY <2>2 DEF Made, Over, RecvTurn, Current
  <2>4. Current => sock = "open"
    BY <2>1 DEF Made, Over, Current, Types
  <2>5. wpc' \notin InHand => ~Receiving'
    BY <2>1, <2>2 DEF Receiving
  <2>6. wpc' \in InHand => Receiving' /\ sock' = "open"
    BY <2>1, <2>4 DEF Receiving, InHand
  <2> HIDE DEF Receiving, Sending
  <2>7. sock' = "closed" => ~Receiving'
    BY <2>5, <2>6
  <2>8. Works' => wpc' \in InHand
    BY <2>1, <2>3 DEF Works, InHand
  <2> QED BY <2>6, <2>7, <2>8 DEF Leaves
<1>3. CASE TakeSend
  <2>1. /\ Takes("SEND") /\ wpc = "wait"
        /\ UNCHANGED <<status, peer, closed, recvOp>>
        /\ \/ Out /\ Current
           \/ UNCHANGED <<sock, needPost, sendOp, wpc>>
    BY <1>3 DEF TakeSend, Takes, WorkerLeaves, remote, session
  <2>2. /\ \A k \in DOMAIN port' : port'[k].opt # "SEND"
        /\ sendOp = 0 /\ ~needPost
        /\ (\E k \in DOMAIN port' : port'[k].opt # "SEND")
                                    <=> \E k \in DOMAIN port : port[k].opt # "SEND"
    BY <2>1, TakenOperation
  <2>3. wpc' \notin InHand /\ wpc \notin InHand
    BY <2>1 DEF Out, Disconnects, Adds, InHand
  <2>4. Receiving' <=> Receiving
    BY <2>1, <2>2, <2>3 DEF Receiving
  <2>5. Current => sock = "open"
    BY <2>1 DEF Made, Over, Current, Types
  <2>6. sock' = sock \/ (sock' = "closed" /\ ~needPost' /\ sendOp' = 0)
    BY <2>1, <2>2 DEF Out, Disconnects
  <2>7. sock' = "closed" => ~needPost' /\ sendOp' = 0
    BY <2>1, <2>2, <2>5, <2>6
  <2>8. sock' = "closed" => ~Sending' /\ ~needPost'
    BY <2>2, <2>7 DEF Sending
  <2>9. sock' = "open" => sock = "open"
    BY <2>6
  <2> HIDE DEF Receiving, Sending
  <2> QED BY <2>1, <2>4, <2>8, <2>9 DEF Leaves, Works
<1> QED BY <1>1, <1>2, <1>3

LEMMA WorkerKeeps == ASSUME Made, Leaves, AcceptRecvs \/ Received \/ Sent PROVE Leaves'
<1>1. /\ UNCHANGED <<status, needPost, peer, closed, sendOp, port>>
      /\ wpc # "wait" /\ wpc # "post"
  BY DEF AcceptRecvs, Received, ReceivedLeaves, Sent, SentLeaves, WorkerLeaves, remote, session
<1>2. sock = "open" /\ breaks = 0
  BY <1>1 DEF Made, Over, Types
<1>3. CASE AcceptRecvs \/ Received
  <2>1. /\ wpc \in InHand /\ recvOp = "none"
        /\ \A k \in DOMAIN port : port[k].opt = "SEND"
    BY <1>3 DEF AcceptRecvs, Received, InHand, Made, RecvTurn
  <2>2. /\ wpc' \in {"wait", "post"} /\ recvOp' \in {recvOp, "recv"}
        /\ status = "ESTABLISHED" /\ ~RecvRefused => recvOp' = "recv"
        /\ recvOp' = "recv" => sock' = sock
    <3>1. AcceptRecvs => wpc' = "wait" /\ sock' = sock
      BY DEF AcceptRecvs, DoRecv, Waits
    <3>2. Received => wpc' = "post"
      BY DEF Received, DoRecv, Adds, Disconnects
    <3>4. recvOp' \in {recvOp, "recv"}
      BY <1>3 DEF AcceptRecvs, Received, DoRecv
    <3>5. status = "ESTABLISHED" /\ ~RecvRefused => recvOp' = "recv" /\ sock' = sock
      BY <1>3 DEF AcceptRecvs, Received, DoRecv, Waits
    <3>6. recvOp' = "recv" => sock' = sock
      BY <1>3, <2>1, <3>1 DEF Received, DoRecv
    <3> QED BY <1>3, <3>1, <3>2, <3>4, <3>5, <3>6
  <2>3. ~RecvRefused <=> "rst" \notin peer
    BY DEF RecvRefused
  <2>4. sock' = "closed" => ~Receiving'
    BY <1>1, <1>2, <2>1, <2>2 DEF Receiving, InHand
  <2>5. recvOp' = "recv" => Receiving'
    BY DEF Receiving
  <2> HIDE DEF Receiving, Sending
  <2> QED BY <1>1, <2>2, <2>3, <2>4, <2>5 DEF Leaves, Works
<1>4. CASE Sent
  <2>1. /\ recvOp' = recvOp
        /\ sock' = "closed" => closed
    BY <1>2, <1>4 DEF Sent, SentLeaves, Waits, Disconnects, Made, Statuses
  <2>2. wpc' \notin InHand /\ wpc \notin InHand
    BY <1>4 DEF Sent, Waits, Disconnects, Adds, InHand
  <2>3. Receiving' <=> Receiving
    BY <1>1, <2>1, <2>2 DEF Receiving
  <2> HIDE DEF Receiving, Sending
  <2> QED BY <1>1, <1>2, <2>1, <2>3 DEF Leaves, Works
<1> QED BY <1>3, <1>4

LEMMA StartsLeave == ASSUME Before, CompletedAccept \/ ReadConnected PROVE Leaves'
<1>1. /\ sock' = "open" /\ port' = Append(port, Packet("ACCEPT", 0, TRUE))
  BY DEF CompletedAccept, ReadConnected, Establish
<1>2. port = <<>>
  <2>1. ASSUME NEW ok, port = <<Packet("CONNECT", 0, ok)>>, queue = <<>>, mpc = "idle"
        PROVE  FALSE
    BY <2>1 DEF CompletedAccept, ReadConnected, Reads
  <2> QED BY <2>1 DEF Before, Nowhere, CompletedAccept, ReadConnected, Reads
<1>3. port' = <<Packet("ACCEPT", 0, TRUE)>>
  BY <1>1, <1>2
<1>4. 1 \in DOMAIN port' /\ port'[1].opt = "ACCEPT"
  BY <1>3 DEF Packet
<1>5. Receiving'
  BY <1>4 DEF Receiving
<1> HIDE DEF Receiving
<1> QED BY <1>1, <1>5 DEF Leaves

LEMMA StepLeaves == IInv /\ Leaves /\ [Next]_vars => Leaves'
<1> SUFFICES ASSUME IInv, Leaves, [Next]_vars PROVE Leaves'
  OBVIOUS
<1>1. CASE UNCHANGED vars
  BY <1>1 DEF vars, pipe, system, remote, thread, session, Leaves, Works, Receiving, Sending
<1>2. CASE Before /\ BeforeLeaves
  <2>1. Before'
    BY <1>2, Dials
  <2> QED BY <2>1 DEF Before, Untouched, Leaves
<1>3. CASE Before /\ (CompletedAccept \/ ReadConnected)
  BY <1>3, StartsLeave
<1>4. CASE Made /\ Next
  BY <1>4, MadeNext, MainLeaves, SystemKeeps, TakesLeave, WorkerKeeps
<1> QED BY <1>1, <1>2, <1>3, <1>4, BeforeNext DEF IInv

(***************************************************************************)
(* While a connection works its receive operation is under way, so the     *)
(* peer's end will be noticed; when it has ended, the event is queued or   *)
(* told, and one operation is left behind at most if the session has not   *)
(* closed (CPipe.cpp 63-81, iocpworker.cpp 103-122, 184-217).              *)
(***************************************************************************)
THEOREM OperationsGoOn == Spec => []GoesOn
<1>1. Init => Leaves
  BY DEF Init, Leaves, Works
<1>2. IInv /\ Leaves => GoesOn
  <2> SUFFICES ASSUME IInv, Leaves PROVE GoesOn
    OBVIOUS
  <2>1. CASE Before
    BY <2>1 DEF Before, Untouched, GoesOn
  <2>2. CASE Made
    <3>1. ASSUME sock = "closed"
          PROVE  \/ breaks = 1 \/ post = "BREAK"
                 \/ \E k \in DOMAIN queue : queue[k] = "BREAK"
      <4>1. CASE queue # <<>> /\ \A k \in DOMAIN queue : queue[k] = "BREAK" <=> k = Len(queue)
        <5>1. Len(queue) \in DOMAIN queue
          BY <2>2, <4>1 DEF Made, Types
        <5> QED BY <4>1, <5>1
      <4> QED BY <2>2, <3>1, <4>1 DEF Made, Over
    <3> QED BY <3>1 DEF GoesOn, Leaves
  <2> QED BY <2>1, <2>2 DEF IInv
<1> QED BY <1>1, <1>2, StepLeaves, Invariant, PTL DEF Spec

\* Who is to hear stays with an operation until the connection ends.
LEMMA StaysHeard ==
    IInv /\ [Next]_vars => (closed /\ Works /\ Hears => Hears' \/ ~Works')
<1> SUFFICES ASSUME IInv, Next, closed, Works, Hears, Works' PROVE Hears'
  BY DEF vars, pipe, system, remote, thread, session, Hears, Works, Receiving, Sending,
         InHand
<1>1. Made
  BY DEF IInv, Before, Untouched
<1>2. /\ sock = "open" /\ sock' = "open" /\ breaks = 0 /\ status = "WAITCLOSE"
      /\ "rst" \notin peer
  BY <1>1 DEF Works, Made, Over, Statuses
<1>3. needPost \/ Sending
  BY <1>1 DEF Made, Awaited, Sending
<1>4. CASE \/ OnConnected \/ SendIn \/ Close \/ ReadRecv \/ ReadBreak \/ Post \/ PeerSends
           \/ \E how \in {"fin", "rst"} : PeerEnds(how)
  <2>1. /\ UNCHANGED <<port, recvOp, sendOp>>
        /\ wpc' = wpc \/ (wpc = "post" /\ wpc' = "wait")
    BY <1>4 DEF OnConnected, SendIn, Close, ReadRecv, ReadBreak, EventLeaves, Post,
                PeerSends, PeerEnds, system, thread
  <2> QED BY <2>1 DEF Hears, Receiving, Sending, InHand
<1>5. CASE SendPosts
  <2>1. UNCHANGED <<recvOp, sendOp, wpc>>
    BY <1>5 DEF SendPosts, SendLeaves, thread
  <2>2. \A k \in DOMAIN port : k \in DOMAIN port' /\ port'[k] = port[k]
    <3>1. CASE needPost
      <4>1. [opt |-> "SEND", key |-> sock, n |-> 0, ok |-> TRUE] \in Packets
        BY <1>2, IocpAssumption DEF Packets
      <4>2. port' = Append(port, [opt |-> "SEND", key |-> sock, n |-> 0, ok |-> TRUE])
        BY <1>5, <3>1 DEF SendPosts, PostsSend
      <4> QED BY <1>1, <4>1, <4>2, PostedPort
    <3>2. CASE ~needPost
      BY <1>5, <3>2 DEF SendPosts
    <3> QED BY <3>1, <3>2
  <2> QED BY <2>1, <2>2 DEF Hears, Receiving, Sending
<1>6. CASE RecvCompletes \/ SendCompletes
  <2>1. wpc' = wpc
    BY <1>6 DEF RecvCompletes, SendCompletes, SystemLeaves, thread
  <2>2. (Receiving' <=> Receiving) /\ (Sending' <=> Sending)
    BY <1>1, <1>6, SystemMoves
  <2> QED BY <2>1, <2>2 DEF Hears
<1>7. CASE TakeAccept
  <2>1. Takes("ACCEPT") /\ sendOp' = sendOp
    BY <1>7 DEF TakeAccept
  <2>2. ~needPost
    BY <1>2, <1>7 DEF TakeAccept, Disconnects
  <2>3. Sending'
    BY <1>1, <1>3, <2>1, <2>2, TakenOperation DEF Sending
  <2> QED BY <2>3 DEF Hears
<1>8. CASE TakeRecv
  <2>1. Takes("RECV") /\ sendOp' = sendOp
    BY <1>8 DEF TakeRecv
  <2>2. port # <<>> /\ Head(port) = port[1] /\ 1 \in DOMAIN port /\ port[1].opt = "RECV"
    BY <1>1, <2>1, TakenPort DEF Takes
  <2>3. Current
    BY <1>1, <1>2, <2>2 DEF Made, Over, RecvTurn, Current
  <2>4. wpc' = "received"
    BY <1>2, <1>8, <2>3 DEF TakeRecv, Disconnects
  <2> QED BY <2>4 DEF Hears, Receiving, InHand
<1>9. CASE TakeSend
  <2>1. Takes("SEND")
    BY <1>9 DEF TakeSend
  <2>2. /\ port # <<>> /\ Head(port) = port[1] /\ 1 \in DOMAIN port /\ port[1].opt = "SEND"
    BY <1>1, <2>1, TakenPort DEF Takes
  <2>3. Current /\ Head(port).ok
    BY <1>1, <1>2, <2>2, PacketTyped DEF Made, Over, Awaited, Works, Current, Packets
  <2>4. Out
    BY <1>9, <2>3 DEF TakeSend
  <2>5. wpc' = "sent" \/ (Left # <<>> /\ sendOp' = Piece)
    BY <1>2, <2>4 DEF Out, Disconnects
  <2>6. Left # <<>> => Piece > 0
    <3>1. port[1] \in Packets /\ port[1].n <= Len(out)
      BY <1>1, <2>2, PacketTyped DEF Made, Turn
    <3> QED BY <1>1, <2>2, <3>1, LeftTyped DEF Made
  <2> QED BY <2>5, <2>6 DEF Hears, Sending
<1>10. CASE AcceptRecvs
  <2>1. wpc = "accepted" /\ UNCHANGED <<port, sendOp>>
    BY <1>10 DEF AcceptRecvs
  <2> QED BY <2>1 DEF Hears, Sending
<1>11. CASE Received
  <2>1. UNCHANGED <<port, sendOp>> /\ ~needPost
    BY <1>2, <1>11 DEF Received, ReceivedLeaves, DoRecv, Disconnects
  <2> QED BY <1>3, <2>1 DEF Hears, Sending
<1>12. CASE Sent
  BY <1>2, <1>12 DEF Sent, Disconnects
<1> QED BY <1>1, <1>4, <1>5, <1>6, <1>7, <1>8, <1>9, <1>10, <1>11, <1>12, MadeNext

\* Every completion after a Close ends the connection or leaves that to the send
\* operation.
LEMMA CompletionsEnd ==
    ASSUME Made, closed, Works
    PROVE  /\ AcceptRecvs \/ Received => recvOp' = recvOp
           /\ TakeAccept \/ Received => Sending' \/ EndsIt
           /\ TakeSend => Sending' \/ wpc' = "sent" \/ EndsIt
           /\ TakeSend => Len(out') <= Len(out)
           /\ Sent => EndsIt
<1>1. /\ sock = "open" /\ status = "WAITCLOSE" /\ "rst" \notin peer
      /\ needPost \/ Sending
  BY DEF Works, Made, Over, Statuses, Awaited, Sending
<1>2. AcceptRecvs \/ Received => recvOp' = recvOp
  BY <1>1 DEF AcceptRecvs, Received, DoRecv
<1>3. ASSUME TakeAccept PROVE Sending' \/ EndsIt
  <2>1. CASE needPost
    BY <1>1, <1>3, <2>1 DEF TakeAccept, Disconnects, Adds, EndsIt
  <2>2. CASE ~needPost
    <3>1. Takes("ACCEPT") /\ sendOp' = sendOp
      BY <1>3 DEF TakeAccept
    <3> QED BY <1>1, <2>2, <3>1, TakenOperation DEF Sending
  <2> QED BY <2>1, <2>2
<1>4. ASSUME Received PROVE Sending' \/ EndsIt
  <2>1. UNCHANGED <<port, sendOp>>
    BY <1>4 DEF Received, ReceivedLeaves
  <2>2. CASE needPost
    BY <1>1, <1>4, <2>2 DEF Received, DoRecv, Disconnects, Adds, EndsIt
  <2>3. CASE ~needPost
    BY <1>1, <2>1, <2>3 DEF Sending
  <2> QED BY <2>2, <2>3
<1>5. ASSUME TakeSend
      PROVE  Len(out') <= Len(out) /\ (Sending' \/ wpc' = "sent" \/ EndsIt)
  <2>1. Takes("SEND")
    BY <1>5 DEF TakeSend
  <2>2. /\ port # <<>> /\ Head(port) = port[1] /\ 1 \in DOMAIN port /\ port[1].opt = "SEND"
    BY <2>1, TakenPort DEF Takes
  <2>3. Current /\ Head(port).ok /\ Head(port) \in Packets /\ Head(port).n <= Len(out)
    BY <1>1, <2>2, PacketTyped DEF Made, Over, Awaited, Works, Turn, Current, Packets
  <2>4. Out
    BY <1>5, <2>3 DEF TakeSend
  <2>5. Len(Left) <= Len(out) /\ (Left # <<>> => Piece > 0)
    BY <2>3, LeftTyped DEF Made
  <2>6. wpc' = "sent" \/ (Left # <<>> /\ sendOp' = Piece)
    BY <1>1, <2>4 DEF Out
  <2> QED BY <2>4, <2>5, <2>6 DEF Out, Sending
<1>6. Sent => EndsIt
  BY <1>1 DEF Sent, Disconnects, Adds, EndsIt
<1> QED BY <1>2, <1>3, <1>4, <1>5, <1>6

(***************************************************************************)
(* A Close is heard by the operation under way: no receive is posted after *)
(* it and nothing added to what is to be sent; each completion ends the    *)
(* connection or leaves that to the send operation, which ends it when all *)
(* is sent; and until then there is always one that will hear.  The first  *)
(* receive alone, whose answer is ignored, may miss it (CPipe.cpp 63-81,   *)
(* 99-126, iocpworker.cpp 180-190).                                        *)
(***************************************************************************)
THEOREM CloseHeard == Spec => [][CloseIsHeard]_vars
<1>1. IInv /\ [Next]_vars => CloseIsHeard
  <2> SUFFICES ASSUME IInv, [Next]_vars, closed, Works
               PROVE  /\ recvOp' = "recv" => recvOp = "recv"
                      /\ Len(out') <= Len(out)
                      /\ TakeAccept \/ Received => Sending' \/ EndsIt
                      /\ TakeSend => Sending' \/ wpc' = "sent" \/ EndsIt
                      /\ Sent => EndsIt
    BY StaysHeard DEF CloseIsHeard
  <2>1. Made
    BY DEF IInv, Before, Untouched
  <2>2. Len(out) \in Nat
    BY <2>1 DEF Made, Types
  <2>3. ASSUME AcceptRecvs \/ Received \/ TakeSend
        PROVE  (recvOp' = "recv" => recvOp = "recv") /\ Len(out') <= Len(out)
    <3>1. AcceptRecvs \/ Received => out' = out
      BY DEF AcceptRecvs, Received, ReceivedLeaves
    <3>2. TakeSend => recvOp' = recvOp
      BY DEF TakeSend
    <3> QED BY <2>1, <2>2, <2>3, <3>1, <3>2, CompletionsEnd
  <2>4. ASSUME ~(AcceptRecvs \/ Received \/ TakeSend)
        PROVE  (recvOp' = "recv" => recvOp = "recv") /\ Len(out') <= Len(out)
    <3>1. CASE Next
      <4>1. recvOp' \in {recvOp, "none"} /\ out' = out
        BY <2>1, <2>4, <3>1, MadeNext DEF OnConnected, SendIn, MayCall, Close, SendPosts,
           SendLeaves, ReadRecv, ReadBreak, EventLeaves, TakeAccept, TakeRecv, Sent,
           SentLeaves, Post, RecvCompletes, SendCompletes, SystemLeaves, PeerSends,
           PeerEnds, pipe, system
      <4> QED BY <2>2, <4>1
    <3>2. CASE UNCHANGED vars
      BY <2>2, <3>2 DEF vars, pipe, system
    <3> QED BY <3>1, <3>2
  <2>5. /\ TakeAccept \/ Received => Sending' \/ EndsIt
        /\ TakeSend => Sending' \/ wpc' = "sent" \/ EndsIt
        /\ Sent => EndsIt
    BY <2>1, CompletionsEnd
  <2> QED BY <2>3, <2>4, <2>5
<1> QED BY <1>1, Invariant, PTL DEF Spec

(***************************************************************************)
(* When the pipe returns to the pool an operation may still be under way;  *)
(* as long as the pipe is not used again its packet is dropped             *)
(* (iocpworker.cpp 60, 92-101, 193-217).                                   *)
(***************************************************************************)
THEOREM LatePacketsAreDropped == Spec => [][DropsLate]_vars
<1>1. IInv /\ [Next]_vars => DropsLate
  <2> SUFFICES ASSUME IInv, [Next]_vars, sock = "closed", wpc = "wait"
               PROVE  /\ WorkerStep => UNCHANGED <<pipe, recvOp, sendOp, thread, queue>>
                      /\ sock' = "closed" /\ wpc' = "wait"
    BY DEF DropsLate
  <2>1. Made
    BY DEF IInv, Before
  <2>2. ~related
    BY <2>1 DEF Made, Over, Types
  <2>3. ~Current
    BY <2>2 DEF Current
  <2>4. ~(TakeConnect \/ TakeAccept)
    <3>1. ~TakeAccept
      BY <2>1, TakenPort DEF TakeAccept, Made, RecvTurn
    <3>2. port # <<>> => Head(port) \in Packets
      BY <2>1 DEF Made, Types
    <3> QED BY <3>1, <3>2 DEF TakeConnect, Takes, Packets
  <2>5. WorkerStep => UNCHANGED <<pipe, recvOp, sendOp, thread, queue>>
    BY <2>3, <2>4 DEF WorkerStep, AcceptRecvs, TakeRecv, Received, TakeSend, Sent, Post,
       WorkerLeaves, pipe, thread
  <2>6. CASE WorkerStep
    BY <2>5, <2>6 DEF pipe, thread
  <2>7. CASE Next /\ ~WorkerStep
    BY <2>1, <2>7, MadeNext DEF WorkerStep, OnConnected, SendIn, Close, SendPosts, SendLeaves,
       ReadRecv, ReadBreak, EventLeaves, RecvCompletes, SendCompletes, SystemLeaves,
       PeerSends, PeerEnds, pipe, thread
  <2>8. CASE UNCHANGED vars
    BY <2>8 DEF vars, pipe, system, thread
  <2> QED BY <2>5, <2>6, <2>7, <2>8
<1> QED BY <1>1, Invariant, PTL DEF Spec
================================================================================
