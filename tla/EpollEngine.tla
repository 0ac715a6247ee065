------------------------------ MODULE EpollEngine ------------------------------
(***************************************************************************)
(* kernel/net/epoll/epoller.cpp: how connections of the epoll engine come  *)
(* to be and to an end, several of them, on pipes from a pool.  The main   *)
(* thread dials (AddClient), listens (AddServer), polls the engine's own   *)
(* epoll (DealEvent) and reads the events of the worker.  A connected      *)
(* socket is watched by the worker's epoll too.                            *)
(*                                                                         *)
(* There is one worker: BalancingWorker compares counts that nothing       *)
(* changes and always answers the first.  What goes over a connection is   *)
(* the subject of EpollPipe; here a pipe is dialled or accepted, its peer  *)
(* may hang up, and the worker then closes it.                             *)
(***************************************************************************)
EXTENDS Naturals, Sequences, FiniteSets

CONSTANTS Client,       \* ITcpSession objects that dial
          Sockets,      \* bound: sockets opened in all
          Block,        \* units of a block of the pipe pool, 64
          Ends,         \* how a peer may end: subset of {"fin", "rst"}
          None

ASSUME EngineAssumption == /\ Block \in Nat \ {0} /\ Sockets \in Nat
                           /\ Ends \subseteq {"fin", "rst"} /\ None \notin Nat

Socket == 1 .. Sockets
Pipe == 1 .. Sockets + Block

\* MallocConnection makes a session for each accepted connection: it is named
\* after the socket.
Session == Client \cup Socket

VARIABLES
    list, inUse, made,      \* CPipe::s_oCPipePool
    pipe,       \* m_nStatus, m_pHost and m_lSocketHandler of each CPipe
    mine,       \* m_pPipe of each session
    sk,         \* sockets, with their entries in the two epolls
    listening, backlog, lready,     \* the server's socket and its entry
    batch,      \* events of epoll_wait that DealEvent has not handled
    at, cur,    \* where the main thread is, and with which pipe
    closing,    \* pipe the worker is closing
    queue,      \* m_oEventQueue, BREAK events
    answers,    \* calls of OnConnected and OnConnectFailed for each socket
    told,       \* what each session has been told last
    halted      \* what ended the process

pool == <<list, inUse, made>>
server == <<listening, backlog, lready>>
history == <<answers, told>>
vars == <<pool, pipe, mine, sk, server, batch, at, cur, closing, queue, history, halted>>

Pool == INSTANCE TPool

Blank == [status |-> "UNINITIALIZE", host |-> None, sock |-> None]

\* A socket: its state, the pipe its entry in the engine's epoll points to and
\* whether that entry is ready, the pipe of its entry in the worker's.
Unopened == [net |-> "none", entry |-> None, ready |-> FALSE, worker |-> None]
Opened(net, p) == [Unopened EXCEPT !.net = net, !.worker = p]

Init == /\ Pool!Constructed
        /\ pipe = [p \in Pipe |-> Blank]
        /\ mine = [s \in Session |-> None]
        /\ sk = [i \in Socket |-> Unopened]
        /\ listening = FALSE /\ backlog = 0 /\ lready = FALSE
        /\ batch = {} /\ at = "loop" /\ cur = None
        /\ closing = None /\ queue = <<>>
        /\ answers = [i \in Socket |-> <<>>]
        /\ told = [s \in Session |-> "nothing"]
        /\ halted = "no"

Running == halted = "no"
Used == {i \in Socket : sk[i].net # "none"}
Fresh(i) == i = Cardinality(Used) + 1
\* The bound on sockets leaves room for the connections of the backlog.
MayOpen == Cardinality(Used) + backlog < Sockets

------------------------------------------------------------------------------
(* Network and peers *)

Gone == {"fin", "rst"}

\* An edge of the socket wakes its entry in the engine's epoll.
Changes(i, net) == sk' = [sk EXCEPT ![i].net = net, ![i].ready = @ \/ sk[i].entry # None]

NetworkLeaves == UNCHANGED <<pool, pipe, mine, server, batch, at, cur, closing, queue,
                             history, halted>>

SynAnswered(i) == /\ Running /\ sk[i].net = "syn"
                  /\ \E net \in {"up", "refused"} : Changes(i, net)
                  /\ NetworkLeaves

PeerEnds(i) == /\ Running /\ sk[i].net = "up"
               /\ \E net \in Ends : Changes(i, net)
               /\ NetworkLeaves

\* A send buffer that was full has room again.
SocketDrains(i) == /\ Running /\ sk[i].net = "up" /\ sk[i].worker # None
                   /\ Changes(i, "up")
                   /\ NetworkLeaves

PeerConnects == /\ Running /\ listening /\ MayOpen
                /\ backlog' = backlog + 1 /\ lready' = TRUE
                /\ UNCHANGED <<pool, pipe, mine, sk, listening, batch, at, cur, closing,
                               queue, history, halted>>

------------------------------------------------------------------------------
(* What the application calls, between events and in callbacks *)

ApplicationRuns == Running /\ at \in {"loop", "failing"}

\* Create and Relate: a unit of the pool for the session and socket.
Related(p, s, i, status) ==
    /\ Pool!Create(p)
    /\ pipe' = [pipe EXCEPT ![p] = [status |-> status, host |-> s, sock |-> i]]
    /\ mine' = [mine EXCEPT ![s] = p]

\* A session dials when it is neither connected nor waiting for an answer.
MayDial(s) == ApplicationRuns /\ MayOpen /\ told[s] \in {"nothing", "failed", "disconnected"}

\* Servers are started by modules, before anything else happens here.
AddServer ==
    /\ ApplicationRuns /\ ~listening /\ Used = {} /\ listening' = TRUE
    /\ UNCHANGED <<pool, pipe, mine, sk, backlog, lready, batch, at, cur, closing, queue,
                   history, halted>>

DialLeaves == UNCHANGED <<server, batch, at, cur, closing, queue, halted>>

\* AddClient when connect succeeds at once: OnConnected is called by DoConnect
\* and once more.
DialAtOnce(s, i) ==
    /\ MayDial(s) /\ Fresh(i)
    /\ \E p \in Pipe : Related(p, s, i, "ESTABLISHED")
                       /\ sk' = [sk EXCEPT ![i] = Opened("up", p)]
    /\ answers' = [answers EXCEPT ![i] = <<"connected", "connected">>]
    /\ told' = [told EXCEPT ![s] = "connected"]
    /\ DialLeaves

\* The socket is left open.
DialRefused(s, i) ==
    /\ MayDial(s) /\ Fresh(i)
    /\ sk' = [sk EXCEPT ![i] = Opened("refused", None)]
    /\ answers' = [answers EXCEPT ![i] = <<"failed">>]
    /\ told' = [told EXCEPT ![s] = "failed"]
    /\ UNCHANGED <<pool, pipe, mine>> /\ DialLeaves

\* EPOLL_CTL_ADD finds the entry ready when the answer has come before it.
DialPending(s, i) ==
    /\ MayDial(s) /\ Fresh(i)
    /\ \E p \in Pipe, net \in {"syn", "up", "refused"} :
          /\ Related(p, s, i, "UNINITIALIZE")
          /\ sk' = [sk EXCEPT ![i] = [net |-> net, entry |-> p,
                                      ready |-> net # "syn", worker |-> None]]
    /\ told' = [told EXCEPT ![s] = "waits"]
    /\ UNCHANGED answers /\ DialLeaves

------------------------------------------------------------------------------
(* Main thread: DealEvent *)

\* Error and hang-up conditions are reported whether asked for or not.
Flags(i) == {"OUT"} \cup (IF sk[i].net \in {"refused", "rst"} THEN {"ERR"} ELSE {})

EpollWait ==
    /\ Running /\ at = "loop" /\ batch = {}
    /\ lready \/ \E i \in Socket : sk[i].ready
    /\ batch' = {[sock |-> i, p |-> sk[i].entry, flags |-> Flags(i)] :
                    i \in {j \in Socket : sk[j].ready}}
                \cup (IF lready THEN {[sock |-> 0, p |-> None, flags |-> {"IN"}]} ELSE {})
    /\ sk' = [i \in Socket |-> [sk[i] EXCEPT !.ready = FALSE]]
    /\ lready' = FALSE
    /\ UNCHANGED <<pool, pipe, mine, listening, backlog, at, cur, closing, queue, history,
                   halted>>

Handles(e) == Running /\ at = "loop" /\ e \in batch /\ batch' = batch \ {e}

DealAccept(e) ==
    /\ Handles(e) /\ "IN" \in e.flags
    /\ at' = "accepting"
    /\ UNCHANGED <<pool, pipe, mine, sk, server, cur, closing, queue, history, halted>>

Accepts(then) ==
    /\ Running /\ at = "accepting" /\ backlog > 0
    /\ backlog' = backlog - 1 /\ at' = then
    /\ \E i \in Socket, p \in Pipe :
          /\ Fresh(i) /\ Related(p, i, i, "ESTABLISHED")
          /\ sk' = [sk EXCEPT ![i] = Opened("up", p)]
          /\ answers' = [answers EXCEPT ![i] = <<"connected">>]
          /\ told' = [told EXCEPT ![i] = "connected"]
    /\ UNCHANGED <<listening, lready, batch, cur, closing, queue, halted>>

\* Mutant: one connection is accepted for one event.
DoAcceptOne == Accepts("loop")

\* A turn of the loop in DoAccept.
DoAccept == Accepts("accepting")

AcceptBlocks ==
    /\ Running /\ at = "accepting" /\ backlog = 0
    /\ at' = "loop"
    /\ UNCHANGED <<pool, pipe, mine, sk, server, batch, cur, closing, queue, history, halted>>

Fails(e) == "ERR" \in e.flags

\* OnConnectFailed is called on the pipe's host, if it has one.
DealFailure(e) ==
    /\ Handles(e) /\ Fails(e)
    /\ IF pipe[e.p].host = None
       THEN halted' = "epoller.cpp:196" /\ UNCHANGED <<at, cur, history>>
       ELSE /\ at' = "failing" /\ cur' = e.p
            /\ answers' = [answers EXCEPT ![e.sock] = Append(@, "failed")]
            /\ told' = [told EXCEPT ![pipe[e.p].host] = "failed"]
            /\ UNCHANGED halted
    /\ UNCHANGED <<pool, pipe, mine, sk, server, closing, queue>>

Released == /\ Pool!Recover(cur)
            /\ pipe' = [pipe EXCEPT ![cur] = Blank]

\* Mutant: the session keeps its pipe.
FailureKeepsPipe ==
    /\ Running /\ at = "failing" /\ at' = "loop" /\ cur' = None
    /\ Released
    /\ UNCHANGED <<mine, sk, server, batch, closing, queue, history, halted>>

\* Mutant: the unit goes back as it is.
FailureSkipsClear ==
    /\ Running /\ at = "failing" /\ at' = "loop" /\ cur' = None
    /\ mine' = [mine EXCEPT ![pipe[cur].host] = None]
    /\ Pool!Recover(cur)
    /\ UNCHANGED <<pipe, sk, server, batch, closing, queue, history, halted>>

\* OnConnectFailed has returned: the session loses its pipe, also when it has
\* dialled again in the callback and m_pPipe is a new one; Release asserts the
\* status and clears.  The socket stays open.
FailureReturns ==
    /\ Running /\ at = "failing" /\ at' = "loop" /\ cur' = None
    /\ mine' = [mine EXCEPT ![pipe[cur].host] = None]
    /\ IF pipe[cur].status = "UNINITIALIZE"
       THEN Released /\ UNCHANGED halted
       ELSE halted' = "CPipe.cpp:28" /\ UNCHANGED <<pool, pipe>>
    /\ UNCHANGED <<sk, server, batch, closing, queue, history>>

Connects(e, status) ==
    /\ Handles(e) /\ at' = "adding" /\ cur' = e.p
    /\ pipe' = [pipe EXCEPT ![e.p].status = status]
    /\ UNCHANGED <<pool, mine, sk, server, closing, queue, history, halted>>

\* Mutant: room to send is looked at, errors are not.
DealConnectAnyway(e) == "OUT" \in e.flags /\ Connects(e, "ESTABLISHED")

\* DoConnect, up to epoll_ctl.
DealConnect(e) == ~Fails(e) /\ "OUT" \in e.flags /\ Connects(e, "ESTABLISHED")

\* Mutant: nobody calls OnConnected.
DoConnectSilent ==
    /\ Running /\ at = "adding" /\ at' = "loop" /\ cur' = None
    /\ UNCHANGED <<pool, pipe, mine, sk, server, batch, closing, queue, history, halted>>

\* EPOLL_CTL_ADD, which the assertion wants to succeed, and OnConnected.
DoConnect ==
    /\ Running /\ at = "adding" /\ at' = "loop" /\ cur' = None
    /\ \/ \E i \in Socket :
             /\ i = pipe[cur].sock /\ sk[i].worker = None
             /\ sk' = [sk EXCEPT ![i].worker = cur]
             /\ answers' = [answers EXCEPT ![i] = Append(@, "connected")]
             /\ told' = [told EXCEPT ![pipe[cur].host] = "connected"]
             /\ UNCHANGED halted
       \/ /\ \A i \in Socket : i = pipe[cur].sock => sk[i].worker # None
          /\ halted' = "CPipe.cpp:139"
          /\ UNCHANGED <<sk, history>>
    /\ UNCHANGED <<pool, pipe, mine, server, batch, closing, queue>>

\* epollWorker::Processing, once DealEvent is through.
ReadBreak ==
    /\ Running /\ at = "loop" /\ batch = {} /\ queue # <<>>
    /\ queue' = Tail(queue)
    /\ LET s == pipe[Head(queue)].host
       IN IF s = None THEN halted' = "epollWorker.cpp:39" /\ UNCHANGED told
                      ELSE told' = [told EXCEPT ![s] = "disconnected"] /\ UNCHANGED halted
    /\ UNCHANGED <<pool, pipe, mine, sk, server, batch, at, cur, closing, answers>>

MainStep == \/ EpollWait \/ DoAccept \/ AcceptBlocks \/ FailureReturns \/ DoConnect
            \/ ReadBreak
            \/ \E e \in batch : DealAccept(e) \/ DealFailure(e) \/ DealConnect(e)

------------------------------------------------------------------------------
(* Worker thread *)

\* DoRecv meets the peer's end: DoClose sets the status and removes the entry.
WorkerDeletes(i) ==
    /\ Running /\ closing = None
    /\ sk[i].net \in Gone /\ sk[i].worker # None
    /\ pipe[sk[i].worker].status = "ESTABLISHED"
    /\ closing' = sk[i].worker
    /\ pipe' = [pipe EXCEPT ![sk[i].worker].status = "UNINITIALIZE"]
    /\ sk' = [sk EXCEPT ![i].worker = None]
    /\ UNCHANGED <<pool, mine, server, batch, at, cur, queue, history, halted>>

\* close takes the socket out of every epoll; then the event is queued.
WorkerCloses ==
    /\ Running /\ closing # None
    /\ sk' = [i \in Socket |-> IF i = pipe[closing].sock
                               THEN Opened(sk[i].net, None) ELSE sk[i]]
    /\ pipe' = [pipe EXCEPT ![closing].sock = None]
    /\ queue' = Append(queue, closing)
    /\ closing' = None
    /\ UNCHANGED <<pool, mine, server, batch, at, cur, history, halted>>

WorkerStep == WorkerCloses \/ \E i \in Socket : WorkerDeletes(i)

Next == \/ MainStep \/ WorkerStep \/ AddServer \/ PeerConnects
        \/ \E i \in Socket : SynAnswered(i) \/ PeerEnds(i) \/ SocketDrains(i)
        \/ \E i \in Socket, s \in Client :
              DialAtOnce(s, i) \/ DialRefused(s, i) \/ DialPending(s, i)

Spec == Init /\ [][Next]_vars

\* Both threads run, callbacks return, and a SYN is answered or times out.
FairSpec == /\ Spec /\ WF_vars(MainStep) /\ WF_vars(WorkerStep)
            /\ WF_vars(\E i \in Socket : SynAnswered(i))

------------------------------------------------------------------------------
(* Properties *)

TypeOK ==
    /\ pipe \in [Pipe -> [status : {"UNINITIALIZE", "ESTABLISHED"},
                          host : Session \cup {None}, sock : Socket \cup {None}]]
    /\ mine \in [Session -> Pipe \cup {None}]
    /\ sk \in [Socket -> [net : {"none", "syn", "up", "refused"} \cup Gone,
                          entry : Pipe \cup {None}, ready : BOOLEAN,
                          worker : Pipe \cup {None}]]
    /\ backlog \in 0 .. Sockets
    /\ at \in {"loop", "accepting", "failing", "adding"}
    /\ cur \in Pipe \cup {None} /\ (cur # None <=> at \in {"failing", "adding"})
    /\ closing \in Pipe \cup {None} /\ queue \in Seq(Pipe)
    /\ halted \in {"no", "CPipe.cpp:28", "CPipe.cpp:139", "epoller.cpp:196",
                   "epollWorker.cpp:39"}

\* Pipes go round through failed attempts and are never handed out twice; one
\* that lies in the pool has neither host nor events on their way, although
\* sockets outlive it in the engine's epoll (epoller.cpp 192-198, TPool.h 51-90).
PoolSound ==
    /\ Pool!Accounted
    /\ \A p \in Pipe \ inUse : /\ pipe[p] = Blank /\ closing # p
                               /\ \A k \in DOMAIN queue : queue[k] # p

\* A session holds no pipe that has become another session's or nobody's
\* (CPipe.h 42-48, epoller.cpp 197).
NoForeignPipe ==
    \A s \in Session : mine[s] # None => mine[s] \in inUse /\ pipe[mine[s]].host = s

\* The first answer to an attempt is the network's (epoller.cpp 140-201).
AnswerIsTrue ==
    \A i \in Socket : answers[i] # <<>> =>
        sk[i].net \in IF Head(answers[i]) = "connected" THEN {"up"} \cup Gone
                                                        ELSE {"refused", "rst"}

\* An attempt whose entry is in the engine's epoll is answered, though edges
\* are reported once and the answer may come before the entry does.
Unanswered == {i \in Socket : sk[i].entry # None /\ answers[i] = <<>>}
AttemptIsAnswered == Unanswered # {} ~> Unanswered = {} \/ ~Running

\* One event of the listening socket stands for any number of connections:
\* none stays in the backlog (SPipe.cpp 27-64).
BacklogIsAccepted == backlog > 0 ~> backlog = 0 \/ ~Running

\* CPipe.cpp 139: epoll_ctl takes the socket of a new connection, that is,
\* DoConnect is called once.
ConnectsOnce == halted # "CPipe.cpp:139"
=============================================================================
