------------------------------ MODULE EngineProofs ------------------------------
(***************************************************************************)
(* Proofs about EpollEngine, for any number of sessions, sockets and units *)
(* of a block: types, that no session holds the pipe of another and, for   *)
(* peers that hang up, that what goes back to the pool is let go by all,   *)
(* that attempts are answered as the network says and that nothing an edge *)
(* has announced is missed.                                                *)
(***************************************************************************)
EXTENDS EpollEngine, PoolProofs

(***************************************************************************)
(* What TypeOK rests on: an event that DealEvent takes for a connection    *)
(* names a pipe, because only an entry can be ready.                       *)
(***************************************************************************)
EventOK ==
    /\ batch \subseteq [sock : 0 .. Sockets, p : Pipe \cup {None},
                        flags : SUBSET {"IN", "OUT", "ERR"}]
    /\ \A e \in batch : e.flags \cap {"OUT", "ERR"} # {} => e.p \in Pipe
    /\ \A i \in Socket : sk[i].ready => sk[i].entry # None
    /\ lready \in BOOLEAN /\ listening \in BOOLEAN

TInv == TypeOK /\ EventOK

\* The number of sockets that have been opened is one.
LEMMA UsedNumber == Cardinality(Used) \in Nat
<1>1. IsFiniteSet(1 .. Sockets) /\ Used \in SUBSET (1 .. Sockets)
  BY FS_Interval, EngineAssumption DEF Used, Socket
<1>2. IsFiniteSet(Used)
  BY <1>1, FS_Subset
<1> QED BY <1>2, FS_CardinalityType

LEMMA InitTypes == Init => TInv
<1> SUFFICES ASSUME Init PROVE TInv
  OBVIOUS
<1>1. TypeOK
  BY EngineAssumption DEF Init, TypeOK, Blank, Unopened, Gone
<1>2. EventOK
  BY DEF Init, EventOK, Unopened
<1> QED BY <1>1, <1>2 DEF TInv

LEMMA NetworkTypes ==
    ASSUME TInv,
           PeerConnects \/ \E i \in Socket : SynAnswered(i) \/ PeerEnds(i) \/ SocketDrains(i)
    PROVE  TInv'
<1> USE EngineAssumption DEF TInv, TypeOK, EventOK, Gone
<1>1. CASE PeerConnects
  <2>1. backlog' \in 0 .. Sockets
    BY <1>1, UsedNumber DEF PeerConnects, MayOpen
  <2> QED BY <1>1, <2>1 DEF PeerConnects
<1>2. ASSUME NEW i \in Socket, NEW net \in {"up", "refused", "fin", "rst"},
             Changes(i, net), NetworkLeaves
      PROVE  TInv'
  <2>1. sk[i] \in [net : {"none", "syn", "up", "refused"} \cup {"fin", "rst"},
                   entry : Pipe \cup {None}, ready : BOOLEAN, worker : Pipe \cup {None}]
    OBVIOUS
  <2>2. PICK x \in BOOLEAN : x = (sk[i].ready \/ sk[i].entry # None)
    OBVIOUS
  <2>3. sk' = [sk EXCEPT ![i].net = net, ![i].ready = x]
    BY <1>2, <2>2 DEF Changes
  <2>4. sk' \in [Socket -> [net : {"none", "syn", "up", "refused"} \cup {"fin", "rst"},
                            entry : Pipe \cup {None}, ready : BOOLEAN,
                            worker : Pipe \cup {None}]]
    BY <2>1, <2>3
  <2>5. \A j \in Socket : sk'[j].ready => sk'[j].entry # None
    BY <2>1, <2>2, <2>3
  <2> QED BY <1>2, <2>4, <2>5 DEF NetworkLeaves, server
<1> QED BY <1>1, <1>2 DEF SynAnswered, PeerEnds, SocketDrains

\* Create and Relate give a pipe.
LEMMA RelatedTypes ==
    ASSUME TypeOK, NEW p \in Pipe, NEW s \in Session, NEW i \in Socket,
           NEW status \in {"UNINITIALIZE", "ESTABLISHED"}, Related(p, s, i, status)
    PROVE  /\ pipe' \in [Pipe -> [status : {"UNINITIALIZE", "ESTABLISHED"},
                                  host : Session \cup {None}, sock : Socket \cup {None}]]
           /\ mine' \in [Session -> Pipe \cup {None}]
BY DEF TypeOK, Related

LEMMA DialTypes ==
    ASSUME TInv,
           AddServer \/ \E i \in Socket, s \in Client :
                            DialAtOnce(s, i) \/ DialRefused(s, i) \/ DialPending(s, i)
    PROVE  TInv'
<1> USE EngineAssumption DEF TInv
<1>1. CASE AddServer
  BY <1>1 DEF AddServer, TypeOK, EventOK, pool, history
<1>2. ASSUME NEW i \in Socket, NEW s \in Client, DialAtOnce(s, i) PROVE TInv'
  <2>1. PICK p \in Pipe : Related(p, s, i, "ESTABLISHED")
                          /\ sk' = [sk EXCEPT ![i] = Opened("up", p)]
    BY <1>2 DEF DialAtOnce
  <2>2. s \in Session
    BY DEF Session
  <2>3. DialLeaves
    BY <1>2 DEF DialAtOnce
  <2> QED BY <2>1, <2>2, <2>3, RelatedTypes
          DEF TypeOK, EventOK, Gone, Opened, Unopened, DialLeaves, server
<1>3. ASSUME NEW i \in Socket, NEW s \in Client, DialRefused(s, i) PROVE TInv'
  BY <1>3 DEF DialRefused, TypeOK, EventOK, Gone, Opened, Unopened, DialLeaves, server
<1>4. ASSUME NEW i \in Socket, NEW s \in Client, DialPending(s, i) PROVE TInv'
  <2>1. PICK p \in Pipe, net \in {"syn", "up", "refused"} :
           /\ Related(p, s, i, "UNINITIALIZE")
           /\ sk' = [sk EXCEPT ![i] = [net |-> net, entry |-> p,
                                       ready |-> net # "syn", worker |-> None]]
    BY <1>4 DEF DialPending
  <2>2. s \in Session
    BY DEF Session
  <2>3. DialLeaves
    BY <1>4 DEF DialPending
  <2>4. p # None
    BY DEF Pipe
  <2> QED BY <2>1, <2>2, <2>3, <2>4, RelatedTypes DEF TypeOK, EventOK, Gone, DialLeaves, server
<1> QED BY <1>1, <1>2, <1>3, <1>4

LEMMA DealTypes ==
    ASSUME TInv, EpollWait \/ \E e \in batch : DealAccept(e) \/ DealFailure(e) \/ DealConnect(e)
    PROVE  TInv'
<1> USE EngineAssumption DEF TInv
<1>1. CASE EpollWait
  <2> DEFINE woken == {[sock |-> i, p |-> sk[i].entry, flags |-> Flags(i)] :
                          i \in {j \in Socket : sk[j].ready}}
             event == [sock |-> 0, p |-> None, flags |-> {"IN"}]
  <2>1. /\ batch' = woken \cup (IF lready THEN {event} ELSE {})
        /\ sk' = [i \in Socket |-> [sk[i] EXCEPT !.ready = FALSE]]
        /\ lready' = FALSE
        /\ UNCHANGED <<pool, pipe, mine, listening, backlog, at, cur, closing, queue, history,
                       halted>>
    BY <1>1 DEF EpollWait
  <2>2. ASSUME NEW i \in Socket
        PROVE  /\ sk'[i] \in [net : {"none", "syn", "up", "refused"} \cup Gone,
                             entry : Pipe \cup {None}, ready : BOOLEAN,
                             worker : Pipe \cup {None}]
               /\ ~sk'[i].ready
    <3>1. sk[i] \in [net : {"none", "syn", "up", "refused"} \cup Gone,
                    entry : Pipe \cup {None}, ready : BOOLEAN, worker : Pipe \cup {None}]
      BY DEF TypeOK
    <3>2. sk'[i] = [sk[i] EXCEPT !.ready = FALSE]
      BY <2>1
    <3> QED BY <3>1, <3>2
  <2>3. ASSUME NEW i \in Socket, sk[i].ready
        PROVE  sk[i].entry \in Pipe /\ Flags(i) \in SUBSET {"IN", "OUT", "ERR"}
    BY <2>3 DEF TypeOK, EventOK, Flags
  <2>4. ASSUME NEW e \in woken
        PROVE  /\ e \in [sock : 0 .. Sockets, p : Pipe \cup {None},
                         flags : SUBSET {"IN", "OUT", "ERR"}]
               /\ e.p \in Pipe
    <3>1. PICK i \in Socket :
             sk[i].ready /\ e = [sock |-> i, p |-> sk[i].entry, flags |-> Flags(i)]
      OBVIOUS
    <3>2. i \in 0 .. Sockets
      BY DEF Socket
    <3> QED BY <2>3, <3>1, <3>2
  <2>5. /\ event \in [sock : 0 .. Sockets, p : Pipe \cup {None},
                      flags : SUBSET {"IN", "OUT", "ERR"}]
        /\ event.flags \cap {"OUT", "ERR"} = {}
    OBVIOUS
  <2> HIDE DEF woken, event
  <2>6. EventOK'
    <3>1. \A i \in Socket : sk'[i].ready => sk'[i].entry # None
      BY <2>2
    <3> QED BY <2>1, <2>4, <2>5, <3>1 DEF EventOK
  <2>7. TypeOK'
    <3>1. sk' \in [Socket -> [net : {"none", "syn", "up", "refused"} \cup Gone,
                             entry : Pipe \cup {None}, ready : BOOLEAN,
                             worker : Pipe \cup {None}]]
      BY <2>1, <2>2
    <3> QED BY <2>1, <3>1 DEF TypeOK
  <2> QED BY <2>6, <2>7
<1>2. ASSUME NEW e \in batch, DealAccept(e) PROVE TInv'
  <2>1. cur = None
    BY <1>2 DEF DealAccept, Handles, TypeOK
  <2> QED BY <1>2, <2>1 DEF DealAccept, Handles, TypeOK, EventOK, server
<1>3. ASSUME NEW e \in batch, DealFailure(e) PROVE TInv'
  <2>1. e.p \in Pipe /\ e.p # None
    BY <1>3 DEF DealFailure, Fails, EventOK, Pipe
  <2> QED BY <1>3, <2>1 DEF DealFailure, Handles, TypeOK, EventOK, server
<1>4. ASSUME NEW e \in batch, DealConnect(e) PROVE TInv'
  <2>1. e.p \in Pipe /\ e.p # None
    BY <1>4 DEF DealConnect, EventOK, Pipe
  <2> QED BY <1>4, <2>1 DEF DealConnect, Connects, Handles, TypeOK, EventOK, server
<1> QED BY <1>1, <1>2, <1>3, <1>4

LEMMA MainTypes ==
    ASSUME TInv, DoAccept \/ AcceptBlocks \/ FailureReturns \/ DoConnect \/ ReadBreak
    PROVE  TInv'
<1> USE EngineAssumption DEF TInv
<1>1. CASE DoAccept
  <2>1. PICK i \in Socket, p \in Pipe :
           Related(p, i, i, "ESTABLISHED") /\ sk' = [sk EXCEPT ![i] = Opened("up", p)]
    BY <1>1 DEF DoAccept, Accepts
  <2>2. i \in Session
    BY DEF Session
  <2>3. /\ backlog' \in 0 .. Sockets /\ at = "accepting" /\ at' = "accepting"
        /\ UNCHANGED <<listening, lready, batch, cur, closing, queue, halted>>
    BY <1>1 DEF DoAccept, Accepts, TypeOK
  <2> QED BY <2>1, <2>2, <2>3, RelatedTypes DEF TypeOK, EventOK, Gone, Opened, Unopened
<1>2. CASE AcceptBlocks
  BY <1>2 DEF AcceptBlocks, TypeOK, EventOK, server
<1>3. CASE FailureReturns
  <2>1. pipe' \in [Pipe -> [status : {"UNINITIALIZE", "ESTABLISHED"},
                            host : Session \cup {None}, sock : Socket \cup {None}]]
    BY <1>3 DEF FailureReturns, Released, TypeOK, Blank
  <2>2. mine' \in [Session -> Pipe \cup {None}]
    BY <1>3 DEF FailureReturns, TypeOK
  <2>3. halted' \in {halted, "CPipe.cpp:28"} /\ at' = "loop" /\ cur' = None
        /\ UNCHANGED <<sk, server, batch, closing, queue, history>>
    BY <1>3 DEF FailureReturns
  <2> QED BY <2>1, <2>2, <2>3 DEF TypeOK, EventOK, server
<1>4. CASE DoConnect
  <2>1. cur \in Pipe
    BY <1>4 DEF DoConnect, TypeOK
  <2>2. sk' \in [Socket -> [net : {"none", "syn", "up", "refused"} \cup Gone,
                            entry : Pipe \cup {None}, ready : BOOLEAN,
                            worker : Pipe \cup {None}]]
        /\ \A i \in Socket : sk'[i].ready = sk[i].ready /\ sk'[i].entry = sk[i].entry
    <3>1. CASE UNCHANGED sk
      BY <3>1 DEF TypeOK
    <3>2. ASSUME NEW i \in Socket, sk' = [sk EXCEPT ![i].worker = cur]
          PROVE  /\ sk' \in [Socket -> [net : {"none", "syn", "up", "refused"} \cup Gone,
                                   entry : Pipe \cup {None}, ready : BOOLEAN,
                                   worker : Pipe \cup {None}]]
                 /\ \A j \in Socket : sk'[j].ready = sk[j].ready /\ sk'[j].entry = sk[j].entry
      BY <2>1, <3>2 DEF TypeOK
    <3> QED BY <1>4, <3>1, <3>2 DEF DoConnect
  <2>3. halted' \in {halted, "CPipe.cpp:139"} /\ at' = "loop" /\ cur' = None
        /\ UNCHANGED <<pool, pipe, mine, server, batch, closing, queue>>
    BY <1>4 DEF DoConnect
  <2> QED BY <2>2, <2>3 DEF TypeOK, EventOK, server
<1>5. CASE ReadBreak
  <2>1. queue' \in Seq(Pipe) /\ halted' \in {halted, "epollWorker.cpp:39"}
        /\ UNCHANGED <<pool, pipe, mine, sk, server, batch, at, cur, closing, answers>>
    BY <1>5 DEF ReadBreak, TypeOK
  <2> QED BY <2>1 DEF TypeOK, EventOK, server
<1> QED BY <1>1, <1>2, <1>3, <1>4, <1>5

LEMMA WorkerTypes == ASSUME TInv, WorkerStep PROVE TInv'
<1> USE EngineAssumption DEF TInv
<1>1. ASSUME NEW i \in Socket, WorkerDeletes(i) PROVE TInv'
  <2>1. sk[i].worker \in Pipe
    BY <1>1 DEF WorkerDeletes, TypeOK
  <2>2. /\ sk' \in [Socket -> [net : {"none", "syn", "up", "refused"} \cup Gone,
                            entry : Pipe \cup {None}, ready : BOOLEAN,
                            worker : Pipe \cup {None}]]
        /\ \A j \in Socket : sk'[j].ready = sk[j].ready /\ sk'[j].entry = sk[j].entry
    <3>1. sk' = [sk EXCEPT ![i].worker = None]
      BY <1>1 DEF WorkerDeletes
    <3> QED BY <3>1 DEF TypeOK
  <2>3. pipe' \in [Pipe -> [status : {"UNINITIALIZE", "ESTABLISHED"},
                            host : Session \cup {None}, sock : Socket \cup {None}]]
    <3>1. pipe' = [pipe EXCEPT ![sk[i].worker].status = "UNINITIALIZE"]
      BY <1>1 DEF WorkerDeletes
    <3>2. pipe[sk[i].worker] \in [status : {"UNINITIALIZE", "ESTABLISHED"},
                                 host : Session \cup {None}, sock : Socket \cup {None}]
      BY <2>1 DEF TypeOK
    <3>3. [pipe[sk[i].worker] EXCEPT !.status = "UNINITIALIZE"]
             \in [status : {"UNINITIALIZE", "ESTABLISHED"},
                 host : Session \cup {None}, sock : Socket \cup {None}]
      BY <3>2
    <3> QED BY <3>1, <3>3 DEF TypeOK
  <2> QED BY <1>1, <2>1, <2>2, <2>3 DEF WorkerDeletes, TypeOK, EventOK, server
<1>2. CASE WorkerCloses
  <2>1. closing \in Pipe
    BY <1>2 DEF WorkerCloses, TypeOK
  <2>2. sk' \in [Socket -> [net : {"none", "syn", "up", "refused"} \cup Gone,
                            entry : Pipe \cup {None}, ready : BOOLEAN,
                            worker : Pipe \cup {None}]]
        /\ \A i \in Socket : sk'[i].ready => sk'[i].entry # None
    BY <1>2 DEF WorkerCloses, TypeOK, EventOK, Opened, Unopened
  <2>3. pipe' \in [Pipe -> [status : {"UNINITIALIZE", "ESTABLISHED"},
                            host : Session \cup {None}, sock : Socket \cup {None}]]
    <3>1. pipe' = [pipe EXCEPT ![closing].sock = None]
      BY <1>2 DEF WorkerCloses
    <3> QED BY <2>1, <3>1 DEF TypeOK
  <2>4. queue' \in Seq(Pipe) /\ closing' = None
        /\ UNCHANGED <<pool, mine, server, batch, at, cur, history, halted>>
    BY <1>2, <2>1 DEF WorkerCloses, TypeOK
  <2> QED BY <2>2, <2>3, <2>4 DEF TypeOK, EventOK, server
<1> QED BY <1>1, <1>2 DEF WorkerStep

LEMMA Types == Spec => []TInv
<1>1. Init => TInv
  BY InitTypes
<1>2. TInv /\ [Next]_vars => TInv'
  <2> SUFFICES ASSUME TInv, [Next]_vars PROVE TInv'
    OBVIOUS
  <2>1. CASE UNCHANGED vars
    BY <2>1 DEF vars, pool, server, history, TInv, TypeOK, EventOK
  <2>2. CASE Next
    BY <2>2, NetworkTypes, DialTypes, DealTypes, MainTypes, WorkerTypes DEF Next, MainStep
  <2> QED BY <2>1, <2>2
<1> QED BY <1>1, <1>2, PTL DEF Spec

(***************************************************************************)
(* Types; the main thread holds a pipe just while it is between the two    *)
(* halves of a failed or a new connection, and the backlog is bounded.     *)
(***************************************************************************)
THEOREM TypeCorrect == Spec => []TypeOK
<1>1. TInv => TypeOK
  BY DEF TInv
<1> QED BY <1>1, Types, PTL

(***************************************************************************)
(* The pool hands out only what nobody has, and Relate and FailureReturns  *)
(* change the pipe, its host and the session together, so that a session's *)
(* pipe is its own.                                                        *)
(***************************************************************************)
PInv == TypeOK /\ Sound(list, inUse, made) /\ NoForeignPipe

LEMMA InitPool == Init => Sound(list, inUse, made) /\ NoForeignPipe
<1> SUFFICES ASSUME Init PROVE Sound(list, inUse, made) /\ NoForeignPipe
  OBVIOUS
<1>1. list = NewUnits(0, Block) /\ inUse = 1 .. 0 /\ made = 0 + Block
  <2>1. list = [k \in 1 .. Block |-> k]
    BY DEF Init, Pool!Constructed
  <2>2. \A k \in 1 .. Block : 0 + k = k
    BY EngineAssumption
  <2> QED BY <2>1, <2>2, EngineAssumption DEF Init, Pool!Constructed, NewUnits
<1>2. Cardinality(inUse) = 0
  BY FS_EmptySet DEF Init, Pool!Constructed
<1>3. Sound(list, inUse, made)
  BY <1>1, <1>2, EngineAssumption, BlockSound
<1>4. NoForeignPipe
  BY DEF Init, NoForeignPipe
<1> QED BY <1>3, <1>4

\* Steps that leave the pool and the hosts alone.
LEMMA PoolStands ==
    ASSUME PInv, TypeOK', UNCHANGED <<pool, mine>>,
           \A p \in Pipe : pipe'[p].host = pipe[p].host
    PROVE  PInv'
BY DEF PInv, TypeOK, NoForeignPipe, pool

LEMMA CreateKeeps ==
    ASSUME Sound(list, inUse, made), NEW p, Pool!Create(p)
    PROVE  p \notin inUse /\ inUse' = inUse \cup {p} /\ Sound(list', inUse', made')
<1> DEFINE stock == IF list = <<>> THEN NewUnits(made, Block) ELSE list
           number == IF list = <<>> THEN made + Block ELSE made
<1>1. /\ p = Head(stock) /\ list' = Tail(stock) /\ inUse' = inUse \cup {p}
      /\ made' = number
  BY DEF Pool!Create, Pool!AllocNewBlob, NewUnits
<1>2. Head(stock) \in (1 .. number) \ inUse
      /\ Sound(Tail(stock), inUse \cup {Head(stock)}, number)
  <2>1. stock = (IF list = <<>> THEN NewUnits(made, Block) ELSE list)
        /\ number = (IF list = <<>> THEN made + Block ELSE made)
    OBVIOUS
  <2>2. Block \in Nat \ {0}
    BY EngineAssumption
  <2> HIDE DEF stock, number
  <2> QED BY <2>1, <2>2, CreateSound, SMTT(30)
<1> HIDE DEF stock, number
<1> QED BY <1>1, <1>2

LEMMA RelatedKeeps ==
    ASSUME PInv, TypeOK', NEW p \in Pipe, NEW s \in Session, NEW i \in Socket,
           NEW status, Related(p, s, i, status)
    PROVE  PInv'
<1>1. /\ Pool!Create(p) /\ mine' = [mine EXCEPT ![s] = p]
      /\ pipe' = [pipe EXCEPT ![p] = [status |-> status, host |-> s, sock |-> i]]
  BY DEF Related
<1>2. p \notin inUse /\ inUse' = inUse \cup {p} /\ Sound(list', inUse', made')
  BY <1>1, CreateKeeps DEF PInv
<1>3. NoForeignPipe'
  BY <1>1, <1>2 DEF PInv, TypeOK, NoForeignPipe
<1> QED BY <1>2, <1>3 DEF PInv

LEMMA FailureKeeps == ASSUME PInv, TypeOK', FailureReturns PROVE PInv'
<1>1. cur \in Pipe /\ mine' = [mine EXCEPT ![pipe[cur].host] = None]
  BY DEF FailureReturns, PInv, TypeOK
<1>2. CASE UNCHANGED <<pool, pipe>>
  BY <1>1, <1>2 DEF PInv, TypeOK, NoForeignPipe, pool
<1>3. CASE Released
  <2>1. /\ cur \in inUse /\ list' = Append(list, cur) /\ inUse' = inUse \ {cur} /\ made' = made
        /\ pipe' = [pipe EXCEPT ![cur] = Blank]
    BY <1>3 DEF Released, Pool!Recover, Pool!Recoverable
  <2>2. Sound(list', inUse', made')
    BY <2>1, ReturnSound DEF PInv
  <2>3. NoForeignPipe'
    BY <1>1, <2>1 DEF PInv, TypeOK, NoForeignPipe
  <2> QED BY <2>2, <2>3 DEF PInv
<1> QED BY <1>2, <1>3 DEF FailureReturns

LEMMA OtherKeeps ==
    ASSUME PInv, TypeOK',
           \/ EpollWait \/ AcceptBlocks \/ DoConnect \/ ReadBreak
           \/ \E e \in batch : DealAccept(e) \/ DealFailure(e) \/ DealConnect(e)
           \/ WorkerStep \/ AddServer \/ PeerConnects
           \/ \E i \in Socket : SynAnswered(i) \/ PeerEnds(i) \/ SocketDrains(i)
           \/ \E i \in Socket, s \in Client : DialRefused(s, i)
    PROVE  PInv'
<1>1. UNCHANGED <<pool, mine>>
  BY DEF EpollWait, AcceptBlocks, DoConnect, ReadBreak, DealAccept, DealFailure, DealConnect,
         Connects, WorkerStep, WorkerDeletes, WorkerCloses, AddServer, PeerConnects,
         SynAnswered, PeerEnds, SocketDrains, NetworkLeaves, DialRefused
<1>2. \A p \in Pipe : pipe'[p].host = pipe[p].host
  <2>1. CASE \E e \in batch : DealConnect(e)
    <3>1. PICK e \in batch : pipe' = [pipe EXCEPT ![e.p].status = "ESTABLISHED"]
      BY <2>1 DEF DealConnect, Connects
    <3> QED BY <3>1 DEF PInv, TypeOK
  <2>2. CASE WorkerCloses
    <3>1. pipe' = [pipe EXCEPT ![closing].sock = None]
      BY <2>2 DEF WorkerCloses
    <3> QED BY <3>1 DEF PInv, TypeOK
  <2>3. CASE \E i \in Socket : WorkerDeletes(i)
    <3>1. PICK i \in Socket : pipe' = [pipe EXCEPT ![sk[i].worker].status = "UNINITIALIZE"]
      BY <2>3 DEF WorkerDeletes
    <3> QED BY <3>1 DEF PInv, TypeOK
  <2>4. CASE UNCHANGED pipe
    BY <2>4
  <2> QED BY <2>1, <2>2, <2>3, <2>4
          DEF EpollWait, AcceptBlocks, DoConnect, ReadBreak, DealAccept, DealFailure,
              WorkerStep, AddServer, PeerConnects, SynAnswered, PeerEnds, SocketDrains,
              NetworkLeaves, DialRefused
<1> QED BY <1>1, <1>2, PoolStands

LEMMA Pools == Spec => [](Sound(list, inUse, made) /\ NoForeignPipe)
<1>1. Init /\ TypeOK => PInv
  BY InitPool DEF PInv
<1>2. PInv /\ TypeOK' /\ [Next]_vars => PInv'
  <2> SUFFICES ASSUME PInv, TypeOK', [Next]_vars PROVE PInv'
    OBVIOUS
  <2>1. CASE UNCHANGED vars
    <3>1. UNCHANGED <<pool, mine, pipe>>
      BY <2>1 DEF vars
    <3> QED BY <3>1, PoolStands
  <2>2. CASE \E i \in Socket, s \in Client : DialAtOnce(s, i) \/ DialPending(s, i)
    BY <2>2, RelatedKeeps DEF DialAtOnce, DialPending, Session
  <2>3. CASE DoAccept
    BY <2>3, RelatedKeeps DEF DoAccept, Accepts, Session
  <2>4. CASE FailureReturns
    BY <2>4, FailureKeeps
  <2> QED BY <2>1, <2>2, <2>3, <2>4, OtherKeeps DEF Next, MainStep
<1>3. PInv => Sound(list, inUse, made) /\ NoForeignPipe
  BY DEF PInv
<1> QED BY <1>1, <1>2, <1>3, TypeCorrect, PTL DEF Spec

(***************************************************************************)
(* No unit of the pool is free twice, or free and in use, however attempts *)
(* fail, are repeated and succeed (TPool.h 51-90, epoller.cpp 192-198).    *)
(***************************************************************************)
THEOREM PoolAccounted == Spec => []Pool!Accounted
<1>1. Sound(list, inUse, made) => Pool!Accounted
  BY DEF Sound, Pool!Accounted
<1> QED BY <1>1, Pools, PTL

(***************************************************************************)
(* The pipe of a session is one in use and its own, also when the session  *)
(* dials again in OnConnectFailed and when peers reset connections         *)
(* (CPipe.h 42-48, epoller.cpp 197).                                       *)
(***************************************************************************)
THEOREM SessionsKeepTheirPipes == Spec => []NoForeignPipe
<1> QED BY Pools, PTL

(***************************************************************************)
(* For peers that end with a FIN only, the facts that keep a pipe from     *)
(* going back to the pool while something still leads to it.  A refused    *)
(* socket leads to its pipe until its one event has been handled; any      *)
(* other does so until the worker has closed it, after which the pipe has  *)
(* no socket and never goes back.                                          *)
(***************************************************************************)
FinOnly == Ends \subseteq {"fin"}

Stay == {"up", "fin"}
Heard(i) == \E e \in batch : e.sock = i
Failing(i) == at = "failing" /\ pipe[cur].sock = i
Leads(i) == /\ sk[i].entry # None
            /\ sk[i].net = "refused" => sk[i].ready \/ Heard(i) \/ Failing(i)

SocketOK(i) ==
    /\ sk[i].net # "rst"
    /\ sk[i].net = "none" => sk[i] = Unopened /\ answers[i] = <<>>
    /\ sk[i].net \in {"none", "syn"} => ~sk[i].ready /\ ~Heard(i)
    /\ sk[i].net = "refused" => /\ sk[i].ready => ~Heard(i) /\ ~Failing(i)
                                /\ Heard(i) => ~Failing(i)
    /\ Leads(i) => sk[i].entry \in inUse /\ pipe[sk[i].entry].sock = i
    /\ sk[i].worker # None => /\ sk[i].net \in Stay
                              /\ sk[i].worker \in inUse /\ pipe[sk[i].worker].sock = i

SocketInv == \A i \in Socket : SocketOK(i)

BatchInv ==
    /\ \A e \in batch :
          /\ e.sock = 0 => e.flags = {"IN"}
          /\ e.sock # 0 /\ Fails(e) => sk[e.sock].net = "refused" /\ e.p = sk[e.sock].entry
          /\ e.sock # 0 /\ ~Fails(e) => /\ sk[e.sock].net \in Stay /\ e.p \in inUse
                                        /\ pipe[e.p].sock \in {e.sock, None}
    /\ \A e, f \in batch : e.sock = f.sock => e = f

PipeInv ==
    /\ inUse \subseteq Pipe
    /\ \A p \in Pipe \ inUse : pipe[p] = Blank
    /\ \A p \in Pipe : pipe[p].sock # None => sk[pipe[p].sock].net # "none"
    /\ closing # None => /\ closing \in inUse /\ pipe[closing].sock # None
                         /\ sk[pipe[closing].sock].net = "fin"
    /\ \A k \in DOMAIN queue : queue[k] \in inUse /\ pipe[queue[k]].sock = None
    /\ at = "failing" => /\ cur \in inUse /\ pipe[cur].sock # None
                         /\ sk[pipe[cur].sock].net = "refused"
    /\ at = "adding" => /\ cur \in inUse
                        /\ pipe[cur].sock # None => sk[pipe[cur].sock].net \in Stay

SocketsInOrder == \E n \in 0 .. Sockets : Used = 1 .. n

AnswersOK == answers \in [Socket -> Seq({"connected", "failed"})]

Ways == SocketInv /\ BatchInv /\ PipeInv

Given == /\ FinOnly /\ TypeOK /\ EventOK /\ Sound(list, inUse, made)
         /\ Ways /\ SocketsInOrder /\ AnswersOK /\ AnswerIsTrue

SockRec == [net : {"none", "syn", "up", "refused", "fin", "rst"},
            entry : Pipe \cup {None}, ready : BOOLEAN, worker : Pipe \cup {None}]
PipeRec == [status : {"UNINITIALIZE", "ESTABLISHED"},
            host : Session \cup {None}, sock : Socket \cup {None}]

LEMMA Known ==
    ASSUME Given
    PROVE  /\ sk \in [Socket -> SockRec] /\ pipe \in [Pipe -> PipeRec]
           /\ None \notin Pipe /\ None \notin Socket /\ 0 \notin Socket
           /\ \A e \in batch : e.sock \in Socket \cup {0}
           /\ \A i \in Socket : sk[i].ready => sk[i].entry # None
           /\ cur # None => cur \in Pipe
BY EngineAssumption DEF Given, TypeOK, EventOK, Gone, SockRec, PipeRec, Pipe, Socket

\* Steps that leave the pipes, the sockets and the answers alone.
LEMMA WaysStand ==
    ASSUME Given, UNCHANGED <<inUse, pipe, sk, closing, answers>>, batch' \subseteq batch,
           UNCHANGED <<at, cur>> \/ at' \in {"loop", "accepting"},
           queue' = queue \/ (queue # <<>> /\ queue' = Tail(queue))
    PROVE  Ways'
<1> USE DEF Given, Ways
<1>1. /\ \A i \in Socket : Heard(i)' => Heard(i)
      /\ \A i \in Socket : Failing(i)' => Failing(i)
  BY DEF Heard, Failing
<1>2. SocketInv'
  <2> SUFFICES ASSUME NEW i \in Socket PROVE SocketOK(i)'
    BY DEF SocketInv
  <2>1. Leads(i)' => Leads(i)
    BY <1>1 DEF Leads
  <2> QED BY <1>1, <2>1 DEF SocketInv, SocketOK, Stay, Unopened
<1>3. BatchInv'
  BY DEF BatchInv, Fails, Stay
<1>4. PipeInv'
  <2>1. \A k \in DOMAIN queue' : \E j \in DOMAIN queue : queue'[k] = queue[j]
    <3>1. queue \in Seq(Pipe)
      BY DEF TypeOK
    <3>2. CASE queue' = queue
      BY <3>2
    <3>3. CASE queue # <<>> /\ queue' = Tail(queue)
      <4>1. ASSUME NEW k \in DOMAIN queue'
            PROVE  k + 1 \in DOMAIN queue /\ queue'[k] = queue[k + 1]
        BY <3>1, <3>3, <4>1
      <4> QED BY <4>1
    <3> QED BY <3>2, <3>3
  <2> QED BY <2>1 DEF PipeInv, Stay
<1> QED BY <1>2, <1>3, <1>4

LEMMA NetworkWays ==
    ASSUME Given,
           PeerConnects \/ \E i \in Socket : SynAnswered(i) \/ PeerEnds(i) \/ SocketDrains(i)
    PROVE  Ways' /\ SocketsInOrder' /\ AnswerIsTrue'
<1> USE DEF Given
<1>1. CASE PeerConnects
  <2>1. UNCHANGED <<inUse, pipe, sk, batch, at, cur, closing, queue, answers>>
    BY <1>1 DEF PeerConnects, pool, history
  <2> QED BY <2>1, WaysStand DEF SocketsInOrder, Used, AnswerIsTrue
<1>2. ASSUME NEW i \in Socket, NEW net, Changes(i, net), NetworkLeaves,
             \/ sk[i].net = "syn" /\ net \in {"up", "refused"}
             \/ sk[i].net = "up" /\ net \in {"up", "fin"}
      PROVE  Ways' /\ SocketsInOrder' /\ AnswerIsTrue'
  <2>1. /\ sk' = [sk EXCEPT ![i].net = net, ![i].ready = @ \/ sk[i].entry # None]
        /\ UNCHANGED <<inUse, pipe, batch, at, cur, closing, queue, answers>>
    BY <1>2 DEF Changes, NetworkLeaves, pool, history
  <2>2. /\ \A j \in Socket : j # i => sk'[j] = sk[j]
        /\ sk'[i].net = net /\ sk'[i].entry = sk[i].entry /\ sk'[i].worker = sk[i].worker
        /\ \A j \in Socket : (Heard(j)' <=> Heard(j)) /\ (Failing(j)' <=> Failing(j))
    BY <2>1, Known DEF SockRec, Heard, Failing
  <2>3. ASSUME NEW j \in Socket PROVE SocketOK(j)'
    <3>1. CASE j # i
      <4>1. Leads(j)' => Leads(j)
        BY <2>2, <3>1 DEF Leads
      <4>2. SocketOK(j) /\ sk'[j] = sk[j]
        BY <2>2, <3>1 DEF Ways, SocketInv
      <4>3. /\ UNCHANGED <<inUse, pipe, answers, sk[j]>>
            /\ (Heard(j)' <=> Heard(j)) /\ (Failing(j)' <=> Failing(j))
        BY <2>1, <2>2, <4>2
      <4> QED BY <4>1, <4>2, <4>3 DEF SocketOK, Stay, Unopened
    <3>2. CASE j = i
      <4>1. SocketOK(i) /\ i # None
        BY Known DEF Ways, SocketInv
      <4>2. ~(sk[i].net = "refused") /\ (Leads(i)' => Leads(i))
        BY <1>2, <2>2 DEF Leads
      <4>3. sk[i].net = "syn" => ~Heard(i)
        BY <4>1 DEF SocketOK
      <4>4. net = "refused" => ~Heard(i) /\ ~Failing(i) /\ sk[i].worker = None
        BY <1>2, <4>1 DEF SocketOK, Ways, PipeInv, Failing, Stay
      <4> QED BY <1>2, <2>1, <2>2, <3>2, <4>1, <4>2, <4>4 DEF SocketOK, Stay
    <3> QED BY <3>1, <3>2
  <2>4. BatchInv'
    <3>1. ASSUME NEW e \in batch, e.sock = i PROVE sk[i].net = "up"
      BY <1>2, <3>1, Known DEF Ways, SocketInv, SocketOK, Heard
    <3> QED BY <1>2, <2>1, <2>2, <3>1, Known DEF Ways, BatchInv, Fails, Stay
  <2>5. PipeInv'
    BY <1>2, <2>1, <2>2, Known DEF Ways, PipeInv, Stay, PipeRec
  <2>6. SocketsInOrder'
    <3>1. Used' = Used
      BY <1>2, <2>2 DEF Used
    <3> QED BY <3>1 DEF SocketsInOrder
  <2>7. AnswerIsTrue'
    <3> SUFFICES ASSUME NEW j \in Socket, answers[j] # <<>>
                 PROVE  sk'[j].net \in IF Head(answers[j]) = "connected"
                                       THEN {"up"} \cup Gone ELSE {"refused", "rst"}
      BY <2>1 DEF AnswerIsTrue
    <3>1. sk[j].net \in IF Head(answers[j]) = "connected"
                        THEN {"up"} \cup Gone ELSE {"refused", "rst"}
      BY DEF AnswerIsTrue
    <3> QED BY <1>2, <2>2, <3>1 DEF Gone
  <2> QED BY <2>3, <2>4, <2>5, <2>6, <2>7 DEF Ways, SocketInv
<1>3. ASSUME NEW i \in Socket, SynAnswered(i) \/ PeerEnds(i) \/ SocketDrains(i)
      PROVE  Ways' /\ SocketsInOrder' /\ AnswerIsTrue'
  BY <1>2, <1>3 DEF SynAnswered, PeerEnds, SocketDrains, FinOnly
<1> QED BY <1>1, <1>3

(***************************************************************************)
(* A new socket is none of those that were there, and no pipe has it.      *)
(***************************************************************************)
LEMMA FreshSocket ==
    ASSUME Given, NEW i \in Socket, Fresh(i)
    PROVE  /\ sk[i].net = "none" /\ ~Heard(i) /\ answers[i] = <<>>
           /\ \A p \in Pipe : pipe[p].sock # i
           /\ Used \cup {i} = 1 .. i
<1> USE DEF Given
<1>1. PICK n \in 0 .. Sockets : Used = 1 .. n
  BY DEF SocketsInOrder
<1>2. Cardinality(Used) = n
  BY <1>1, FS_Interval
<1>3. i = n + 1 /\ i \in Nat
  BY <1>2 DEF Fresh, Socket
<1>4. i \notin Used /\ Used \cup {i} = 1 .. i
  BY <1>1, <1>3
<1>5. sk[i].net = "none"
  BY <1>4 DEF Used
<1>6. ~Heard(i) /\ answers[i] = <<>>
  BY <1>5 DEF Ways, SocketInv, SocketOK
<1>7. \A p \in Pipe : pipe[p].sock # i
  BY <1>5, Known DEF Ways, PipeInv
<1> QED BY <1>4, <1>5, <1>6, <1>7

\* The order of sockets and the answers, when a new socket gets its first.
LEMMA FreshAnswer ==
    ASSUME Given, NEW i \in Socket, Fresh(i), NEW entry, sk' = [sk EXCEPT ![i] = entry],
           entry.net # "none", NEW answer, answers' = [answers EXCEPT ![i] = answer],
           \/ answer = <<>>
           \/ Head(answer) = "connected" /\ entry.net = "up"
           \/ Head(answer) = "failed" /\ entry.net = "refused"
    PROVE  SocketsInOrder' /\ AnswerIsTrue'
<1> USE DEF Given
<1>1. sk'[i] = entry /\ \A j \in Socket : j # i => sk'[j] = sk[j]
  BY Known
<1>2. SocketsInOrder'
  <2>1. Used' = Used \cup {i}
    BY <1>1 DEF Used
  <2> QED BY <2>1, FreshSocket DEF SocketsInOrder, Socket
<1>3. AnswerIsTrue'
  <2> SUFFICES ASSUME NEW j \in Socket, answers'[j] # <<>>
               PROVE  sk'[j].net \in IF Head(answers'[j]) = "connected"
                                     THEN {"up"} \cup Gone ELSE {"refused", "rst"}
    BY DEF AnswerIsTrue
  <2>1. CASE j = i
    BY <1>1, <2>1 DEF AnswersOK, Gone
  <2>2. CASE j # i
    BY <1>1, <2>2 DEF AnswerIsTrue, AnswersOK
  <2> QED BY <2>1, <2>2
<1> QED BY <1>2, <1>3

\* Create and Relate for a new socket, whose entry in one of the epolls leads
\* to the new pipe.
LEMMA RelatedWays ==
    ASSUME Given, NEW i \in Socket, Fresh(i), NEW p \in Pipe, NEW s \in Session,
           NEW status \in {"UNINITIALIZE", "ESTABLISHED"}, Related(p, s, i, status),
           NEW entry, sk' = [sk EXCEPT ![i] = entry],
           \/ entry = Opened("up", p)
           \/ /\ entry.net \in {"syn", "up", "refused"} /\ entry.entry = p
              /\ entry.ready = (entry.net # "syn") /\ entry.worker = None,
           NEW answer, answers' = [answers EXCEPT ![i] = answer],
           UNCHANGED <<batch, cur, closing, queue>>, at' = at
    PROVE  Ways'
<1> USE DEF Given
<1>1. /\ p \notin inUse /\ inUse' = inUse \cup {p}
      /\ pipe' = [pipe EXCEPT ![p] = [status |-> status, host |-> s, sock |-> i]]
  BY CreateKeeps DEF Related
<1>2. /\ pipe'[p].sock = i /\ \A q \in inUse : q # p /\ pipe'[q] = pipe[q] /\ q \in inUse'
      /\ \A q \in Pipe : q # p => pipe'[q] = pipe[q]
      /\ pipe[p].sock = None
  BY <1>1, Known DEF Ways, PipeInv, Blank
<1>3. sk'[i] = entry /\ \A j \in Socket : j # i => sk'[j] = sk[j] /\ answers'[j] = answers[j]
  BY Known DEF AnswersOK
<1>4. /\ entry.net \in {"syn", "up", "refused"} /\ (entry.entry # None => entry.entry = p)
      /\ (entry.worker # None => entry.worker = p /\ entry.net = "up")
      /\ entry.net = "syn" => ~entry.ready
  BY DEF Opened, Unopened
<1>5. \A j \in Socket : (Heard(j)' <=> Heard(j)) /\ (Failing(j)' <=> Failing(j))
  BY <1>2, Known DEF Heard, Failing, Ways, PipeInv
<1>6. SocketInv'
  <2> SUFFICES ASSUME NEW j \in Socket PROVE SocketOK(j)'
    BY DEF SocketInv
  <2>1. CASE j = i
    <3>1. ~Heard(i)' /\ ~Failing(i)'
      <4>1. ~Failing(i)
        BY FreshSocket, Known DEF Failing, Ways, PipeInv
      <4> QED BY <4>1, <1>5, FreshSocket
    <3> QED BY <1>1, <1>2, <1>3, <1>4, <2>1, <3>1 DEF SocketOK, Leads, Stay
  <2>2. CASE j # i
    <3>1. SocketOK(j) /\ sk'[j] = sk[j] /\ answers'[j] = answers[j]
      BY <1>3, <2>2 DEF Ways, SocketInv
    <3>2. Leads(j)' <=> Leads(j)
      BY <3>1, <1>5 DEF Leads
    <3> QED BY <1>2, <1>5, <3>1, <3>2 DEF SocketOK, Stay, Unopened
  <2> QED BY <2>1, <2>2
<1>7. BatchInv'
  <2>1. \A e \in batch : e.sock # i
    BY FreshSocket DEF Heard
  <2> QED BY <1>2, <1>3, <2>1, Known DEF Ways, BatchInv, Fails, Stay
<1>8. PipeInv'
  <2>1. \A q \in Pipe : pipe[q].sock # i
    BY FreshSocket
  <2>2. \A q \in Pipe : q # p /\ pipe[q].sock # None => /\ sk'[pipe[q].sock] = sk[pipe[q].sock]
                                                        /\ pipe'[q] = pipe[q]
    BY <1>2, <1>3, <2>1, Known DEF PipeRec
  <2>3. \A k \in DOMAIN queue : queue[k] \in Pipe
    BY DEF TypeOK
  <2> QED BY <1>1, <1>2, <1>3, <1>4, <2>2, <2>3, Known DEF Ways, PipeInv, Stay
<1> QED BY <1>6, <1>7, <1>8 DEF Ways

LEMMA DialWays ==
    ASSUME Given,
           \/ AddServer \/ DoAccept
           \/ \E i \in Socket, s \in Client :
                 DialAtOnce(s, i) \/ DialRefused(s, i) \/ DialPending(s, i)
    PROVE  Ways' /\ SocketsInOrder' /\ AnswerIsTrue'
<1>1. CASE AddServer
  <2>1. UNCHANGED <<inUse, pipe, sk, batch, at, cur, closing, queue, answers>>
    BY <1>1 DEF AddServer, pool, history
  <2> QED BY <2>1, WaysStand DEF Given, SocketsInOrder, Used, AnswerIsTrue
<1>2. CASE DoAccept
  <2>1. PICK i \in Socket, p \in Pipe :
           /\ Fresh(i) /\ Related(p, i, i, "ESTABLISHED")
           /\ sk' = [sk EXCEPT ![i] = Opened("up", p)]
           /\ answers' = [answers EXCEPT ![i] = <<"connected">>]
    BY <1>2 DEF DoAccept, Accepts
  <2>2. i \in Session /\ UNCHANGED <<at, batch, cur, closing, queue>>
    BY <1>2 DEF DoAccept, Accepts, Session
  <2>3. Ways'
    BY <2>1, <2>2, RelatedWays
  <2>4. Opened("up", p).net = "up" /\ Head(<<"connected">>) = "connected"
    BY DEF Opened, Unopened
  <2> QED BY <2>1, <2>3, <2>4, FreshAnswer
<1>3. ASSUME NEW i \in Socket, NEW s \in Client, DialAtOnce(s, i)
      PROVE  Ways' /\ SocketsInOrder' /\ AnswerIsTrue'
  <2>1. PICK p \in Pipe : Related(p, s, i, "ESTABLISHED")
                          /\ sk' = [sk EXCEPT ![i] = Opened("up", p)]
    BY <1>3 DEF DialAtOnce
  <2>2. /\ s \in Session /\ UNCHANGED <<at, batch, cur, closing, queue>> /\ Fresh(i)
        /\ answers' = [answers EXCEPT ![i] = <<"connected", "connected">>]
    BY <1>3 DEF DialAtOnce, DialLeaves, Session
  <2>3. Ways'
    BY <2>1, <2>2, RelatedWays
  <2>4. /\ Opened("up", p).net = "up"
        /\ Head(<<"connected", "connected">>) = "connected"
    BY DEF Opened, Unopened
  <2> QED BY <2>1, <2>2, <2>3, <2>4, FreshAnswer
<1>4. ASSUME NEW i \in Socket, NEW s \in Client, DialPending(s, i)
      PROVE  Ways' /\ SocketsInOrder' /\ AnswerIsTrue'
  <2>1. PICK p \in Pipe, net \in {"syn", "up", "refused"} :
           /\ Related(p, s, i, "UNINITIALIZE")
           /\ sk' = [sk EXCEPT ![i] = [net |-> net, entry |-> p,
                                       ready |-> net # "syn", worker |-> None]]
    BY <1>4 DEF DialPending
  <2>2. /\ s \in Session /\ UNCHANGED <<at, batch, cur, closing, queue, answers>> /\ Fresh(i)
    BY <1>4 DEF DialPending, DialLeaves, Session
  <2>3. answers' = [answers EXCEPT ![i] = <<>>]
    BY <2>2, FreshSocket DEF Given, AnswersOK
  <2>4. Ways'
    BY <2>1, <2>2, <2>3, RelatedWays
  <2>5. [net |-> net, entry |-> p, ready |-> net # "syn", worker |-> None].net # "none"
    OBVIOUS
  <2>6. SocketsInOrder' /\ AnswerIsTrue'
    BY <2>1, <2>2, <2>3, <2>5, FreshAnswer
  <2> QED BY <2>4, <2>6
<1>5. ASSUME NEW i \in Socket, NEW s \in Client, DialRefused(s, i)
      PROVE  Ways' /\ SocketsInOrder' /\ AnswerIsTrue'
  <2> USE DEF Given
  <2>1. /\ sk' = [sk EXCEPT ![i] = Opened("refused", None)] /\ Fresh(i)
        /\ answers' = [answers EXCEPT ![i] = <<"failed">>]
        /\ UNCHANGED <<inUse, pipe, at, batch, cur, closing, queue>>
    BY <1>5 DEF DialRefused, DialLeaves, pool
  <2>2. /\ Opened("refused", None).net = "refused" /\ Opened("refused", None).entry = None
        /\ Opened("refused", None).ready = FALSE /\ Opened("refused", None).worker = None
    BY DEF Opened, Unopened
  <2>3. sk'[i] = Opened("refused", None)
        /\ \A j \in Socket : j # i => sk'[j] = sk[j] /\ answers'[j] = answers[j]
    BY <2>1, Known DEF AnswersOK
  <2>4. /\ \A j \in Socket : (Heard(j)' <=> Heard(j)) /\ (Failing(j)' <=> Failing(j))
        /\ ~Heard(i) /\ ~Failing(i)
    BY <2>1, FreshSocket, Known DEF Heard, Failing, Ways, PipeInv
  <2>5. SocketInv'
    <3> SUFFICES ASSUME NEW j \in Socket PROVE SocketOK(j)'
      BY DEF SocketInv
    <3>1. CASE j = i
      BY <2>2, <2>3, <2>4, <3>1 DEF SocketOK, Leads
    <3>2. CASE j # i
      <4>1. SocketOK(j) /\ sk'[j] = sk[j] /\ answers'[j] = answers[j]
        BY <2>3, <3>2 DEF Ways, SocketInv
      <4>2. Leads(j)' <=> Leads(j)
        BY <2>4, <4>1 DEF Leads
      <4> QED BY <2>1, <2>4, <4>1, <4>2 DEF SocketOK, Stay, Unopened
    <3> QED BY <3>1, <3>2
  <2>6. BatchInv'
    <3>1. \A e \in batch : e.sock # i
      BY FreshSocket, <2>1 DEF Heard
    <3> QED BY <2>1, <2>3, <3>1, Known DEF Ways, BatchInv, Fails, Stay
  <2>7. PipeInv'
    <3>1. \A q \in Pipe : pipe[q].sock # None => sk'[pipe[q].sock] = sk[pipe[q].sock]
      BY <2>1, <2>3, FreshSocket, Known DEF PipeRec
    <3> QED BY <2>1, <3>1, Known DEF Ways, PipeInv, Stay
  <2>8. SocketsInOrder' /\ AnswerIsTrue'
    <3>1. Head(<<"failed">>) = "failed"
      OBVIOUS
    <3> QED BY <2>1, <2>2, <3>1, FreshAnswer
  <2> QED BY <2>5, <2>6, <2>7, <2>8 DEF Ways
<1> QED BY <1>1, <1>2, <1>3, <1>4, <1>5

LEMMA WaitWays == ASSUME Given, EpollWait PROVE Ways' /\ SocketsInOrder' /\ AnswerIsTrue'
<1> USE DEF Given
<1> DEFINE woken == {[sock |-> i, p |-> sk[i].entry, flags |-> Flags(i)] :
                        i \in {j \in Socket : sk[j].ready}}
           event == [sock |-> 0, p |-> None, flags |-> {"IN"}]
<1>1. /\ batch = {} /\ at = "loop"
      /\ batch' = woken \cup (IF lready THEN {event} ELSE {})
      /\ sk' = [i \in Socket |-> [sk[i] EXCEPT !.ready = FALSE]]
      /\ UNCHANGED <<inUse, pipe, at, cur, closing, queue, answers>>
  BY DEF EpollWait, pool, history
<1>2. \A i \in Socket : /\ sk'[i].net = sk[i].net /\ sk'[i].entry = sk[i].entry
                        /\ sk'[i].worker = sk[i].worker /\ sk'[i].ready = FALSE
                        /\ sk[i].ready = FALSE => sk'[i] = sk[i]
  BY <1>1, Known DEF SockRec
<1>3. ASSUME NEW e \in batch'
      PROVE  \/ e.sock = 0 /\ e.flags = {"IN"} /\ e = event
             \/ /\ e.sock \in Socket /\ sk[e.sock].ready /\ e.p = sk[e.sock].entry
                /\ e.flags = Flags(e.sock)
                /\ e = [sock |-> e.sock, p |-> sk[e.sock].entry, flags |-> Flags(e.sock)]
  <2>1. CASE e \in woken
    <3>1. PICK i \in Socket : /\ sk[i].ready
                              /\ e = [sock |-> i, p |-> sk[i].entry, flags |-> Flags(i)]
      BY <2>1
    <3> QED BY <3>1
  <2>2. CASE e = event
    BY <2>2
  <2> QED BY <1>1, <1>3, <2>1, <2>2
<1> HIDE DEF woken, event
<1>4. \A i \in Socket : Heard(i)' => sk[i].ready
  BY <1>3, Known DEF Heard
<1>5. ASSUME NEW i \in Socket, sk[i].ready PROVE Heard(i)'
  <2>1. [sock |-> i, p |-> sk[i].entry, flags |-> Flags(i)] \in batch'
    BY <1>1, <1>5 DEF woken
  <2> QED BY <2>1 DEF Heard
<1>6. \A i \in Socket : ~Failing(i) /\ ~Failing(i)' /\ ~Heard(i)
  BY <1>1 DEF Failing, Heard
<1>7. SocketInv'
  <2> SUFFICES ASSUME NEW i \in Socket PROVE SocketOK(i)'
    BY DEF SocketInv
  <2>1. SocketOK(i)
    BY DEF Ways, SocketInv
  <2>2. Leads(i)' => Leads(i)
    BY <1>2, <1>4, <1>6 DEF Leads
  <2>3. sk[i].net = "none" => sk'[i] = sk[i]
    BY <1>2, <2>1, Known DEF SocketOK, SockRec
  <2> QED BY <1>1, <1>2, <1>4, <1>6, <2>1, <2>2, <2>3 DEF SocketOK, Stay, Unopened
<1>8. BatchInv'
  <2>1. ASSUME NEW e \in batch', e.sock # 0
        PROVE  /\ Fails(e) => sk[e.sock].net = "refused" /\ e.p = sk[e.sock].entry
               /\ ~Fails(e) => /\ sk[e.sock].net \in Stay /\ e.p \in inUse
                               /\ pipe[e.p].sock = e.sock
    <3>1. /\ e.sock \in Socket /\ sk[e.sock].ready /\ e.p = sk[e.sock].entry
          /\ e.flags = Flags(e.sock)
      BY <1>3, <2>1
    <3>2. SocketOK(e.sock) /\ sk[e.sock] \in SockRec /\ sk[e.sock].entry # None
      BY <3>1, Known DEF Ways, SocketInv
    <3>3. Fails(e) <=> sk[e.sock].net \in {"refused", "rst"}
      BY <3>1 DEF Fails, Flags
    <3>4. Leads(e.sock)
      BY <3>1, <3>2 DEF Leads
    <3> QED BY <3>1, <3>2, <3>3, <3>4 DEF SocketOK, SockRec, Stay
  <2>2. \A e, f \in batch' : e.sock = f.sock => e = f
    BY <1>3, Known
  <2>3. \A e \in batch' : e.sock = 0 => e.flags = {"IN"}
    BY <1>3, Known
  <2>4. \A e \in batch' : e.sock \in Socket \cup {0}
    BY <1>3
  <2> QED BY <1>1, <1>2, <2>1, <2>2, <2>3, <2>4 DEF BatchInv, Fails, Stay
<1>9. PipeInv'
  <2>1. \A q \in Pipe : pipe[q].sock # None => sk'[pipe[q].sock].net = sk[pipe[q].sock].net
    BY <1>2, Known DEF PipeRec
  <2> QED BY <1>1, <2>1, Known DEF Ways, PipeInv, Stay
<1>10. SocketsInOrder' /\ AnswerIsTrue'
  BY <1>1, <1>2 DEF SocketsInOrder, Used, AnswerIsTrue
<1> QED BY <1>7, <1>8, <1>9, <1>10 DEF Ways

\* A further answer to an attempt leaves its first one as it is.
LEMMA NextAnswer ==
    ASSUME Given, NEW i \in Socket, NEW answer \in {"connected", "failed"},
           answers' = [answers EXCEPT ![i] = Append(@, answer)],
           \A j \in Socket : sk'[j].net = sk[j].net,
           sk[i].net \in IF answer = "connected" THEN Stay ELSE {"refused"}
    PROVE  SocketsInOrder' /\ AnswerIsTrue'
<1> USE DEF Given
<1>1. answers'[i] = Append(answers[i], answer)
      /\ \A j \in Socket : j # i => answers'[j] = answers[j]
  BY DEF AnswersOK
<1>2. ASSUME NEW j \in Socket, answers'[j] # <<>>
      PROVE  sk'[j].net \in IF Head(answers'[j]) = "connected"
                            THEN {"up"} \cup Gone ELSE {"refused", "rst"}
  <2>1. CASE j = i /\ answers[i] = <<>>
    <3>1. Head(Append(<<>>, answer)) = answer
      OBVIOUS
    <3> QED BY <1>1, <2>1, <3>1 DEF Stay, Gone
  <2>2. CASE j = i /\ answers[i] # <<>>
    <3>1. Head(answers'[i]) = Head(answers[i])
      BY <1>1, <2>2 DEF AnswersOK
    <3> QED BY <2>2, <3>1 DEF AnswerIsTrue
  <2>3. CASE j # i
    BY <1>1, <1>2, <2>3 DEF AnswerIsTrue
  <2> QED BY <2>1, <2>2, <2>3
<1> QED BY <1>2 DEF SocketsInOrder, Used, AnswerIsTrue

LEMMA FailureWays ==
    ASSUME Given, FailureReturns \/ \E e \in batch : DealFailure(e)
    PROVE  Ways' /\ SocketsInOrder' /\ AnswerIsTrue'
<1> USE DEF Given
<1>1. ASSUME NEW e \in batch, DealFailure(e) PROVE Ways' /\ SocketsInOrder' /\ AnswerIsTrue'
  <2>1. /\ at = "loop" /\ batch' = batch \ {e} /\ Fails(e)
        /\ UNCHANGED <<inUse, pipe, sk, closing, queue>>
    BY <1>1 DEF DealFailure, Handles, pool
  <2>2. CASE UNCHANGED <<at, cur, answers>>
    BY <2>1, <2>2, WaysStand DEF SocketsInOrder, Used, AnswerIsTrue
  <2>3. CASE /\ at' = "failing" /\ cur' = e.p
             /\ answers' = [answers EXCEPT ![e.sock] = Append(@, "failed")]
    <3> DEFINE i == e.sock
    <3>1. i \in Socket /\ sk[i].net = "refused" /\ e.p = sk[i].entry
      BY <2>1, Known DEF Ways, BatchInv, Fails
    <3>2. e.p \in Pipe /\ e.p # None
      BY <2>1, Known DEF Fails, EventOK
    <3>3. Heard(i)
      BY DEF Heard
    <3> HIDE DEF i
    <3>4. e.p \in inUse /\ pipe[e.p].sock = i /\ ~sk[i].ready
      BY <3>1, <3>2, <3>3 DEF Ways, SocketInv, SocketOK, Leads
    <3>5. /\ \A j \in Socket : j # i => (Heard(j)' <=> Heard(j)) /\ ~Failing(j)'
          /\ ~Heard(i)' /\ Failing(i)'
      BY <2>1, <2>3, <3>4, Known DEF Heard, Failing, Ways, BatchInv, i
    <3>6. \A j \in Socket : ~Failing(j)
      BY <2>1 DEF Failing
    <3>7. SocketInv'
      <4> SUFFICES ASSUME NEW j \in Socket PROVE SocketOK(j)'
        BY DEF SocketInv
      <4>1. CASE j = i
        <5>1. SocketOK(i)
          BY <3>1 DEF Ways, SocketInv
        <5> QED BY <2>1, <3>1, <3>2, <3>4, <3>5, <4>1, <5>1 DEF SocketOK, Stay
      <4>2. CASE j # i
        <5>1. SocketOK(j) /\ answers'[j] = answers[j]
          BY <2>3, <4>2 DEF Ways, SocketInv, AnswersOK, i
        <5>2. Leads(j)' => Leads(j)
          BY <2>1, <3>5, <4>2 DEF Leads
        <5> QED BY <2>1, <3>5, <4>2, <5>1, <5>2 DEF SocketOK, Stay, Unopened
      <4> QED BY <4>1, <4>2
    <3>8. BatchInv'
      BY <2>1 DEF Ways, BatchInv, Fails, Stay
    <3>9. PipeInv'
      BY <2>1, <2>3, <3>1, <3>4, Known DEF Ways, PipeInv, Stay
    <3>10. SocketsInOrder' /\ AnswerIsTrue'
      BY <2>1, <2>3, <3>1, NextAnswer DEF i
    <3> QED BY <3>7, <3>8, <3>9, <3>10 DEF Ways
  <2> QED BY <1>1, <2>2, <2>3 DEF DealFailure, history
<1>2. CASE FailureReturns
  <2>1. /\ at = "failing" /\ at' = "loop" /\ UNCHANGED <<sk, batch, closing, queue, answers>>
    BY <1>2 DEF FailureReturns, history
  <2>2. CASE UNCHANGED <<pool, pipe>>
    BY <2>1, <2>2, WaysStand DEF pool, SocketsInOrder, Used, AnswerIsTrue
  <2>3. CASE Released
    <3>1. /\ cur \in inUse /\ inUse' = inUse \ {cur} /\ pipe' = [pipe EXCEPT ![cur] = Blank]
      BY <2>3 DEF Released, Pool!Recover, Pool!Recoverable
    <3>2. /\ pipe[cur].sock \in Socket /\ sk[pipe[cur].sock].net = "refused" /\ cur \in Pipe
      BY <2>1, <3>1, Known DEF Ways, PipeInv, PipeRec
    <3>3. /\ \A q \in Pipe : q # cur => pipe'[q] = pipe[q]
          /\ pipe'[cur] = Blank /\ Blank.sock = None
      BY <3>1, <3>2, Known DEF Blank
    <3>4. \A j \in Socket : (Heard(j)' <=> Heard(j)) /\ ~Failing(j)'
      BY <2>1 DEF Heard, Failing
    <3>5. SocketInv'
      <4> SUFFICES ASSUME NEW j \in Socket PROVE SocketOK(j)'
        BY DEF SocketInv
      <4>1. SocketOK(j)
        BY DEF Ways, SocketInv
      <4>2. Leads(j)' => Leads(j) /\ ~Failing(j)
        BY <2>1, <3>4, <4>1, <3>2 DEF Leads, SocketOK, Failing
      <4>3. sk[j].worker # None => sk[j].worker \in Pipe /\ sk[j].worker # cur
        BY <3>2, <4>1, Known DEF SocketOK, Stay, SockRec
      <4>4. Leads(j)' => sk[j].entry \in Pipe /\ sk[j].entry # cur
        BY <2>1, <4>1, <4>2, Known DEF SocketOK, Failing, Leads, SockRec
      <4> QED BY <2>1, <3>1, <3>3, <3>4, <4>1, <4>2, <4>3, <4>4 DEF SocketOK, Stay, Unopened
    <3>6. BatchInv'
      <4>1. \A e \in batch : e.sock # 0 /\ ~Fails(e) => e.p # cur /\ e.p \in Pipe
        BY <3>2, Known DEF Ways, BatchInv, PipeInv, Stay
      <4> QED BY <2>1, <3>1, <3>3, <4>1 DEF Ways, BatchInv, Fails, Stay
    <3>7. PipeInv'
      <4>1. /\ closing # cur
            /\ \A k \in DOMAIN queue : queue[k] # cur
        BY <3>2, Known DEF Ways, PipeInv
      <4> QED BY <2>1, <3>1, <3>2, <3>3, <4>1, Known DEF Ways, PipeInv, Stay
    <3> QED BY <2>1, <3>5, <3>6, <3>7 DEF Ways, SocketsInOrder, Used, AnswerIsTrue
  <2> QED BY <1>2, <2>2, <2>3 DEF FailureReturns
<1> QED BY <1>1, <1>2

LEMMA ConnectWays ==
    ASSUME Given, DoConnect \/ \E e \in batch : DealConnect(e)
    PROVE  Ways' /\ SocketsInOrder' /\ AnswerIsTrue'
<1> USE DEF Given
<1>1. ASSUME NEW e \in batch, DealConnect(e) PROVE Ways' /\ SocketsInOrder' /\ AnswerIsTrue'
  <2>1. /\ at = "loop" /\ at' = "adding" /\ cur' = e.p /\ batch' = batch \ {e} /\ ~Fails(e)
        /\ pipe' = [pipe EXCEPT ![e.p].status = "ESTABLISHED"]
        /\ UNCHANGED <<inUse, sk, closing, queue, answers>> /\ "OUT" \in e.flags
    BY <1>1 DEF DealConnect, Connects, Handles, pool, history
  <2>2. /\ e.sock \in Socket /\ sk[e.sock].net \in Stay /\ e.p \in inUse
        /\ pipe[e.p].sock \in {e.sock, None}
    BY <2>1, Known DEF Ways, BatchInv
  <2>3. \A q \in Pipe : pipe'[q].sock = pipe[q].sock /\ (q # e.p => pipe'[q] = pipe[q])
    BY <2>1, Known DEF PipeRec
  <2>4. \A j \in Socket : /\ j # e.sock => (Heard(j)' <=> Heard(j))
                          /\ Heard(j)' => Heard(j) /\ ~Failing(j) /\ ~Failing(j)'
    BY <2>1 DEF Heard, Failing
  <2>5. SocketInv'
    <3> SUFFICES ASSUME NEW j \in Socket PROVE SocketOK(j)'
      BY DEF SocketInv
    <3>1. SocketOK(j) /\ ~Failing(j) /\ ~Failing(j)' /\ (Heard(j)' => Heard(j))
      BY <2>1, <2>4 DEF Ways, SocketInv, Failing, Heard
    <3>2. Leads(j)' => Leads(j)
      BY <2>1, <3>1 DEF Leads
    <3> QED BY <2>1, <2>3, <3>1, <3>2, Known DEF SocketOK, Stay, Unopened, Ways, PipeInv
  <2>6. BatchInv'
    <3>1. \A f \in batch : f.sock # 0 /\ ~Fails(f) => f.p \in Pipe
      BY DEF Ways, BatchInv, PipeInv
    <3> QED BY <2>1, <2>3, <3>1 DEF Ways, BatchInv, Fails, Stay
  <2>7. PipeInv'
    <3>1. \A q \in Pipe \ inUse : pipe'[q] = pipe[q]
      BY <2>2, <2>3
    <3>2. \A k \in DOMAIN queue : queue[k] \in Pipe
      BY DEF TypeOK
    <3> QED BY <2>1, <2>2, <2>3, <3>1, <3>2, Known DEF Ways, PipeInv, Stay
  <2> QED BY <2>1, <2>5, <2>6, <2>7 DEF Ways, SocketsInOrder, Used, AnswerIsTrue
<1>2. CASE DoConnect
  <2>1. /\ at = "adding" /\ at' = "loop" /\ UNCHANGED <<inUse, pipe, batch, closing, queue>>
    BY <1>2 DEF DoConnect, pool
  <2>2. CASE UNCHANGED <<sk, answers>>
    BY <2>1, <2>2, WaysStand DEF SocketsInOrder, Used, AnswerIsTrue
  <2>3. ASSUME NEW i \in Socket, i = pipe[cur].sock, sk' = [sk EXCEPT ![i].worker = cur],
               answers' = [answers EXCEPT ![i] = Append(@, "connected")]
        PROVE  Ways' /\ SocketsInOrder' /\ AnswerIsTrue'
    <3>1. cur \in inUse /\ cur \in Pipe /\ sk[i].net \in Stay
      BY <2>1, <2>3, Known DEF Ways, PipeInv
    <3>2. /\ \A j \in Socket : /\ sk'[j].net = sk[j].net /\ sk'[j].entry = sk[j].entry
                               /\ sk'[j].ready = sk[j].ready
                               /\ j # i => sk'[j] = sk[j] /\ answers'[j] = answers[j]
          /\ sk'[i].worker = cur
      BY <2>3, Known DEF SockRec, AnswersOK
    <3>3. \A j \in Socket : (Heard(j)' <=> Heard(j)) /\ ~Failing(j) /\ ~Failing(j)'
      BY <2>1 DEF Heard, Failing
    <3>4. SocketInv'
      <4> SUFFICES ASSUME NEW j \in Socket PROVE SocketOK(j)'
        BY DEF SocketInv
      <4>1. SocketOK(j) /\ (Leads(j)' => Leads(j))
        BY <3>2, <3>3 DEF Ways, SocketInv, Leads
      <4>2. CASE j = i
        BY <2>1, <2>3, <3>1, <3>2, <3>3, <4>1, <4>2 DEF SocketOK, Stay
      <4>3. CASE j # i
        BY <2>1, <3>2, <3>3, <4>1, <4>3 DEF SocketOK, Stay, Unopened
      <4> QED BY <4>2, <4>3
    <3>5. BatchInv'
      BY <2>1, <3>2, Known DEF Ways, BatchInv, Fails, Stay
    <3>6. PipeInv'
      <4>1. \A q \in Pipe : pipe[q].sock # None => sk'[pipe[q].sock].net = sk[pipe[q].sock].net
        BY <3>2, Known DEF PipeRec
      <4> QED BY <2>1, <4>1, Known DEF Ways, PipeInv, Stay
    <3>7. SocketsInOrder' /\ AnswerIsTrue'
      BY <2>3, <3>1, <3>2, NextAnswer
    <3> QED BY <3>4, <3>5, <3>6, <3>7 DEF Ways
  <2> QED BY <1>2, <2>2, <2>3 DEF DoConnect, history
<1> QED BY <1>1, <1>2

LEMMA WorkerWays == ASSUME Given, WorkerStep PROVE Ways' /\ SocketsInOrder' /\ AnswerIsTrue'
<1> USE DEF Given
<1>1. ASSUME NEW i \in Socket, WorkerDeletes(i) PROVE Ways' /\ SocketsInOrder' /\ AnswerIsTrue'
  <2> DEFINE w == sk[i].worker
  <2>1. /\ w # None /\ sk[i].net \in Gone /\ closing' = w
        /\ pipe' = [pipe EXCEPT ![w].status = "UNINITIALIZE"]
        /\ sk' = [sk EXCEPT ![i].worker = None]
        /\ UNCHANGED <<inUse, batch, at, cur, queue, answers>>
    BY <1>1 DEF WorkerDeletes, pool, history
  <2>2. w \in inUse /\ w \in Pipe /\ pipe[w].sock = i /\ sk[i].net = "fin"
    BY <2>1, Known DEF Ways, SocketInv, SocketOK, PipeInv, Gone
  <2> HIDE DEF w
  <2>3. \A q \in Pipe : pipe'[q].sock = pipe[q].sock /\ (q # w => pipe'[q] = pipe[q])
    BY <2>1, Known DEF PipeRec
  <2>4. /\ \A j \in Socket : /\ sk'[j].net = sk[j].net /\ sk'[j].entry = sk[j].entry
                             /\ sk'[j].ready = sk[j].ready
                             /\ sk'[j].worker \in {None, sk[j].worker}
                             /\ j # i => sk'[j] = sk[j]
    BY <2>1, Known DEF SockRec
  <2>5. \A j \in Socket : (Heard(j)' <=> Heard(j)) /\ (Failing(j)' <=> Failing(j))
    BY <2>1, <2>3, Known DEF Heard, Failing, Ways, PipeInv
  <2>6. SocketInv'
    <3> SUFFICES ASSUME NEW j \in Socket PROVE SocketOK(j)'
      BY DEF SocketInv
    <3>1. SocketOK(j) /\ (Leads(j)' => Leads(j)) /\ (sk[j].net = "none" => sk'[j] = sk[j])
      BY <2>2, <2>4, <2>5 DEF Ways, SocketInv, Leads
    <3>2. inUse \subseteq Pipe
      BY DEF Ways, PipeInv
    <3> QED BY <2>1, <2>3, <2>4, <2>5, <3>1, <3>2 DEF SocketOK, Stay, Unopened
  <2>7. BatchInv'
    <3>1. \A f \in batch : f.sock # 0 /\ ~Fails(f) => f.p \in Pipe
      BY DEF Ways, BatchInv, PipeInv
    <3> QED BY <2>1, <2>3, <2>4, <3>1, Known DEF Ways, BatchInv, Fails, Stay
  <2>8. PipeInv'
    <3>1. \A q \in Pipe \ inUse : pipe'[q] = pipe[q]
      BY <2>2, <2>3
    <3>2. \A k \in DOMAIN queue : queue[k] \in Pipe
      BY DEF TypeOK
    <3>3. \A q \in Pipe : pipe[q].sock # None => sk'[pipe[q].sock].net = sk[pipe[q].sock].net
      BY <2>4, Known DEF PipeRec
    <3> QED BY <2>1, <2>2, <2>3, <3>1, <3>2, <3>3, Known DEF Ways, PipeInv, Stay
  <2> QED BY <2>1, <2>4, <2>6, <2>7, <2>8 DEF Ways, SocketsInOrder, Used, AnswerIsTrue
<1>2. CASE WorkerCloses
  <2>0. PICK i \in Socket : i = pipe[closing].sock
    BY <1>2, Known DEF WorkerCloses, Ways, PipeInv, PipeRec
  <2>1. /\ closing # None /\ closing' = None /\ queue' = Append(queue, closing)
        /\ sk' = [j \in Socket |-> IF j = i THEN Opened(sk[j].net, None) ELSE sk[j]]
        /\ pipe' = [pipe EXCEPT ![closing].sock = None]
        /\ UNCHANGED <<inUse, batch, at, cur, answers>>
    BY <1>2, <2>0 DEF WorkerCloses, pool, history
  <2>2. closing \in inUse /\ closing \in Pipe /\ pipe[closing].sock = i
        /\ sk[i].net = "fin"
    BY <2>0, <2>1, Known DEF Ways, PipeInv, PipeRec
  <2>3. /\ \A q \in Pipe : q # closing => pipe'[q] = pipe[q]
        /\ pipe'[closing].sock = None
    BY <2>1, <2>2, Known
  <2>4. /\ \A j \in Socket : /\ sk'[j].net = sk[j].net
                             /\ j # i => sk'[j] = sk[j]
        /\ sk'[i].entry = None /\ sk'[i].worker = None /\ sk'[i].ready = FALSE
    BY <2>1, <2>2, Known DEF SockRec, Opened, Unopened
  <2>5. \A j \in Socket : (Heard(j)' <=> Heard(j)) /\ (j # i => (Failing(j)' <=> Failing(j)))
                          /\ ~Failing(i)'
    <3>1. at = "failing" => cur \in Pipe /\ cur # closing /\ pipe[cur].sock # i
      BY <2>2 DEF Ways, PipeInv
    <3>2. at = "failing" => pipe'[cur] = pipe[cur] /\ at' = at /\ cur' = cur
      BY <2>1, <2>3, <3>1
    <3>3. at # "failing" => at' # "failing"
      BY <2>1
    <3>4. \A j \in Socket : Heard(j)' <=> Heard(j)
      BY <2>1 DEF Heard
    <3> QED BY <3>1, <3>2, <3>3, <3>4 DEF Failing
  <2>6. SocketInv'
    <3> SUFFICES ASSUME NEW j \in Socket PROVE SocketOK(j)'
      BY DEF SocketInv
    <3>1. CASE j = i
      BY <2>2, <2>4, <3>1 DEF SocketOK, Leads
    <3>2. CASE j # i
      <4>1. SocketOK(j) /\ (Leads(j)' => Leads(j)) /\ sk'[j] = sk[j]
        BY <2>4, <2>5, <3>2 DEF Ways, SocketInv, Leads
      <4>2. \A q \in inUse : q \in Pipe /\ (pipe[q].sock = j => pipe'[q].sock = j)
        BY <2>2, <2>3, <3>2 DEF Ways, PipeInv
      <4> QED BY <2>1, <2>5, <3>2, <4>1, <4>2 DEF SocketOK, Stay, Unopened
    <3> QED BY <3>1, <3>2
  <2>7. BatchInv'
    <3>1. \A f \in batch : f.sock # 0 /\ ~Fails(f) =>
             f.p \in Pipe /\ pipe'[f.p].sock \in {f.sock, None}
      BY <2>3 DEF Ways, BatchInv, PipeInv
    <3>2. \A f \in batch : f.sock # 0 /\ Fails(f) => f.sock # i
      BY <2>2 DEF Ways, BatchInv
    <3> QED BY <2>1, <2>4, <3>1, <3>2, Known DEF Ways, BatchInv, Fails, Stay
  <2>8. PipeInv'
    <3>1. \A q \in Pipe \ inUse : pipe'[q] = pipe[q]
      BY <2>2, <2>3
    <3>2. queue \in Seq(Pipe)
      BY DEF TypeOK
    <3>3. \A q \in Pipe : pipe[q].sock # None => sk'[pipe[q].sock].net = sk[pipe[q].sock].net
      BY <2>4, Known DEF PipeRec
    <3>4. \A k \in DOMAIN queue' : queue'[k] \in inUse /\ queue'[k] \in Pipe
                                   /\ pipe'[queue'[k]].sock = None
      <4>1. \A k \in DOMAIN queue' : (k \in DOMAIN queue /\ queue'[k] = queue[k])
                                     \/ queue'[k] = closing
        BY <2>1, <2>2, <3>2
      <4> QED BY <2>2, <2>3, <3>2, <4>1 DEF Ways, PipeInv
    <3>5. /\ at = "failing" => cur # closing
          /\ cur \in Pipe /\ cur # closing => pipe'[cur] = pipe[cur]
      BY <2>2, <2>3 DEF Ways, PipeInv
    <3>6. \A q \in Pipe : pipe'[q].sock # None => pipe'[q] = pipe[q]
      BY <2>3
    <3> QED BY <2>1, <2>3, <3>1, <3>3, <3>4, <3>5, <3>6, Known DEF Ways, PipeInv, Stay
  <2> QED BY <2>1, <2>4, <2>6, <2>7, <2>8 DEF Ways, SocketsInOrder, Used, AnswerIsTrue
<1> QED BY <1>1, <1>2 DEF WorkerStep

LEMMA ElseWays ==
    ASSUME Given,
           AcceptBlocks \/ ReadBreak \/ (\E e \in batch : DealAccept(e)) \/ UNCHANGED vars
    PROVE  Ways' /\ SocketsInOrder' /\ AnswerIsTrue'
<1>1. /\ UNCHANGED <<inUse, pipe, sk, closing, answers>> /\ batch' \subseteq batch
      /\ UNCHANGED <<at, cur>> \/ at' \in {"loop", "accepting"}
      /\ queue' = queue \/ (queue # <<>> /\ queue' = Tail(queue))
  BY DEF AcceptBlocks, ReadBreak, DealAccept, Handles, vars, pool, history
<1> QED BY <1>1, WaysStand DEF Given, SocketsInOrder, Used, AnswerIsTrue

LEMMA AnswersTyped ==
    ASSUME AnswersOK, [Next]_vars
    PROVE  AnswersOK'
<1> USE DEF AnswersOK
<1> DEFINE Ans == {"connected", "failed"}
<1>1. ASSUME NEW i, NEW a \in Ans, answers' = [answers EXCEPT ![i] = Append(@, a)]
      PROVE  AnswersOK'
  <2>1. \A s \in Seq(Ans) : Append(s, a) \in Seq(Ans)
    OBVIOUS
  <2> QED BY <1>1, <2>1
<1>2. ASSUME NEW i, NEW s \in Seq(Ans), answers' = [answers EXCEPT ![i] = s] PROVE AnswersOK'
  BY <1>2
<1>3. <<"connected">> \in Seq(Ans) /\ <<"failed">> \in Seq(Ans)
      /\ <<"connected", "connected">> \in Seq(Ans)
  OBVIOUS
<1>4. CASE DoAccept \/ \E i \in Socket, s \in Client : DialAtOnce(s, i) \/ DialRefused(s, i)
  <2> HIDE DEF Ans, AnswersOK
  <2>1. CASE DoAccept
    BY <1>2, <1>3, <2>1 DEF DoAccept, Accepts
  <2>2. CASE \E i \in Socket, s \in Client : DialAtOnce(s, i) \/ DialRefused(s, i)
    BY <1>2, <1>3, <2>2 DEF DialAtOnce, DialRefused
  <2> QED BY <1>4, <2>1, <2>2
<1>5. CASE DoConnect \/ \E e \in batch : DealFailure(e)
  <2>1. CASE UNCHANGED answers
    BY <2>1
  <2>2. "connected" \in Ans /\ "failed" \in Ans
    OBVIOUS
  <2> HIDE DEF Ans, AnswersOK
  <2>3. CASE DoConnect
    BY <1>1, <2>1, <2>2, <2>3 DEF DoConnect, history
  <2>4. CASE \E e \in batch : DealFailure(e)
    BY <1>1, <2>1, <2>2, <2>4 DEF DealFailure, history
  <2> QED BY <1>5, <2>3, <2>4
<1>6. CASE UNCHANGED answers
  BY <1>6
<1> HIDE DEF AnswersOK
<1> QED BY <1>4, <1>5, <1>6 DEF Next, MainStep, WorkerStep, EpollWait, AcceptBlocks,
           FailureReturns, ReadBreak, DealAccept, DealConnect, Connects, WorkerDeletes,
           WorkerCloses, AddServer, PeerConnects, SynAnswered, PeerEnds, SocketDrains,
           NetworkLeaves, DialPending, vars, history

LEMMA InitWays == Init => AnswersOK /\ Ways /\ SocketsInOrder /\ AnswerIsTrue
<1> SUFFICES ASSUME Init PROVE AnswersOK /\ Ways /\ SocketsInOrder /\ AnswerIsTrue
  OBVIOUS
<1>1. /\ sk = [i \in Socket |-> Unopened] /\ pipe = [p \in Pipe |-> Blank] /\ inUse = {}
      /\ batch = {} /\ at = "loop" /\ closing = None /\ queue = <<>>
      /\ answers = [i \in Socket |-> <<>>]
  BY DEF Init, Pool!Constructed
<1>2. AnswersOK /\ AnswerIsTrue
  BY <1>1 DEF AnswersOK, AnswerIsTrue
<1>3. SocketInv
  BY <1>1 DEF SocketInv, SocketOK, Unopened, Leads, Heard
<1>4. BatchInv
  BY <1>1 DEF BatchInv
<1>5. PipeInv
  <2>1. DOMAIN queue = {}
    BY <1>1
  <2> QED BY <1>1, <2>1 DEF PipeInv, Blank
<1>6. SocketsInOrder
  <2>1. Used = 1 .. 0
    BY <1>1 DEF Used, Unopened
  <2> QED BY <2>1, EngineAssumption DEF SocketsInOrder
<1> QED BY <1>2, <1>3, <1>4, <1>5, <1>6 DEF Ways

LEMMA AllWays == FinOnly => (Spec => []Given)
<1> DEFINE Own == AnswersOK /\ Ways /\ SocketsInOrder /\ AnswerIsTrue
           Base == TypeOK /\ EventOK /\ Sound(list, inUse, made)
<1>1. Spec => []Base
  <2>1. TInv /\ Sound(list, inUse, made) /\ NoForeignPipe => Base
    BY DEF TInv
  <2> QED BY <2>1, Types, Pools, PTL
<1>2. SUFFICES ASSUME FinOnly PROVE Spec => []Given
  OBVIOUS
<1>3. Init => Own
  BY InitWays
<1>4. Base /\ Own /\ [Next]_vars => Own'
  <2> SUFFICES ASSUME Base, Own, [Next]_vars PROVE Own'
    OBVIOUS
  <2>1. Given
    BY <1>2 DEF Given
  <2>2. Ways' /\ SocketsInOrder' /\ AnswerIsTrue'
    BY <2>1, NetworkWays, DialWays, WaitWays, FailureWays, ConnectWays, WorkerWays, ElseWays
       DEF Next, MainStep
  <2> QED BY <2>2, AnswersTyped
<1>5. Base /\ Own => Given
  BY <1>2 DEF Given
<1> HIDE DEF Own, Base
<1> QED BY <1>1, <1>3, <1>4, <1>5, PTL DEF Spec

(***************************************************************************)
(* While peers end with a FIN, a pipe that goes back to the pool is blank, *)
(* and neither the worker nor an event is on its way to it, however        *)
(* attempts, callbacks and the worker interleave (epoller.cpp 192-198).    *)
(***************************************************************************)
THEOREM PoolKeptSound == FinOnly => (Spec => []PoolSound)
<1>1. Given => PoolSound
  <2> SUFFICES ASSUME Given PROVE PoolSound
    OBVIOUS
  <2>1. Pool!Accounted
    BY DEF Given, Sound, Pool!Accounted
  <2>2. \A p \in Pipe \ inUse : /\ pipe[p] = Blank /\ closing # p
                                /\ \A k \in DOMAIN queue : queue[k] # p
    BY Known DEF Given, Ways, PipeInv
  <2> QED BY <2>1, <2>2 DEF PoolSound
<1> QED BY <1>1, AllWays, PTL

(***************************************************************************)
(* The first answer to an attempt is the network's, also when its pipe has *)
(* been another attempt's (epoller.cpp 140-201).                           *)
(***************************************************************************)
THEOREM FirstAnswerIsTrue == FinOnly => (Spec => []AnswerIsTrue)
<1>1. Given => AnswerIsTrue
  BY DEF Given
<1> QED BY <1>1, AllWays, PTL

(***************************************************************************)
(* Nothing is missed by an epoll that reports each edge once: where the    *)
(* main thread will find what it has not dealt with.                       *)
(***************************************************************************)
\* A backlog has its event before DealEvent, or DoAccept is taking from it.
BacklogIsWatched ==
    backlog > 0 => lready \/ at = "accepting" \/ \E e \in batch : "IN" \in e.flags

\* An attempt without an answer waits for the network, or its edge is still to
\* be reported or handled, or OnConnected is about to be called.
Coming(i) == \/ sk[i].net = "syn" \/ sk[i].ready
             \/ \E e \in batch : e.sock = i /\ e.p = sk[i].entry
             \/ at = "adding" /\ pipe[cur].sock = i
AttemptIsWatched == Running => \A i \in Unanswered : Coming(i)

\* Of the events only the listening socket's says that there is input.
Listens == \A e \in batch : "IN" \in e.flags => e = [sock |-> 0, p |-> None, flags |-> {"IN"}]

LEMMA StepListens == Listens /\ BacklogIsWatched /\ [Next]_vars => Listens' /\ BacklogIsWatched'
<1> SUFFICES ASSUME Listens, BacklogIsWatched, [Next]_vars PROVE Listens' /\ BacklogIsWatched'
  OBVIOUS
<1>1. CASE EpollWait
  <2>1. /\ backlog' = backlog /\ lready' = FALSE /\ at = "loop" /\ batch = {}
        /\ batch' = {[sock |-> i, p |-> sk[i].entry, flags |-> Flags(i)] :
                        i \in {j \in Socket : sk[j].ready}}
                    \cup (IF lready THEN {[sock |-> 0, p |-> None, flags |-> {"IN"}]} ELSE {})
    BY <1>1 DEF EpollWait
  <2>2. \A i \in Socket : "IN" \notin Flags(i)
    BY DEF Flags
  <2>3. Listens'
    BY <2>1, <2>2 DEF Listens
  <2>4. ASSUME lready
        PROVE  [sock |-> 0, p |-> None, flags |-> {"IN"}] \in batch'
               /\ "IN" \in [sock |-> 0, p |-> None, flags |-> {"IN"}].flags
    BY <2>1, <2>4
  <2>5. BacklogIsWatched'
    BY <2>1, <2>4 DEF BacklogIsWatched
  <2> QED BY <2>3, <2>5
<1>2. ASSUME NEW e \in batch, DealAccept(e) PROVE Listens' /\ BacklogIsWatched'
  BY <1>2 DEF DealAccept, Handles, Listens, BacklogIsWatched
<1>3. ASSUME NEW e \in batch, DealFailure(e) \/ DealConnect(e)
      PROVE  Listens' /\ BacklogIsWatched'
  <2>1. /\ batch' = batch \ {e} /\ at = "loop" /\ UNCHANGED <<backlog, lready>>
        /\ e.flags \cap {"OUT", "ERR"} # {}
    BY <1>3 DEF DealFailure, DealConnect, Connects, Handles, Fails, server
  <2>2. "IN" \notin e.flags
    <3> SUFFICES ASSUME "IN" \in e.flags PROVE FALSE
      OBVIOUS
    <3>1. e.flags = {"IN"}
      BY DEF Listens
    <3> QED BY <2>1, <3>1
  <2> QED BY <2>1, <2>2 DEF Listens, BacklogIsWatched
<1>4. CASE DoAccept \/ AcceptBlocks \/ PeerConnects
  BY <1>4 DEF DoAccept, Accepts, AcceptBlocks, PeerConnects, server, Listens, BacklogIsWatched
<1>5. CASE \/ FailureReturns \/ DoConnect \/ ReadBreak \/ WorkerStep \/ AddServer
           \/ (\E i \in Socket : SynAnswered(i) \/ PeerEnds(i) \/ SocketDrains(i))
           \/ (\E i \in Socket, s \in Client :
                  DialAtOnce(s, i) \/ DialRefused(s, i) \/ DialPending(s, i))
           \/ UNCHANGED vars
  <2>1. UNCHANGED <<batch, backlog, lready>> /\ (at = "accepting" => at' = "accepting")
    BY <1>5 DEF FailureReturns, DoConnect, ReadBreak, WorkerStep, WorkerDeletes, WorkerCloses,
           AddServer, SynAnswered, PeerEnds, SocketDrains, NetworkLeaves, DialAtOnce,
           DialRefused, DialPending, DialLeaves, vars, server
  <2> QED BY <2>1 DEF Listens, BacklogIsWatched
<1> QED BY <1>1, <1>2, <1>3, <1>4, <1>5 DEF Next, MainStep

(***************************************************************************)
(* One event of the listening socket stands for any number of connections, *)
(* and still none is left in the backlog without an event or a turn of     *)
(* DoAccept's loop to come (epoller.cpp 180-186, SPipe.cpp 27-64).         *)
(***************************************************************************)
THEOREM BacklogIsNotMissed == Spec => []BacklogIsWatched
<1>1. Init => Listens /\ BacklogIsWatched
  BY DEF Init, Listens, BacklogIsWatched
<1> QED BY <1>1, StepListens, PTL DEF Spec

\* A step that takes none of an attempt's ways to its answer.
LEMMA ComingStands ==
    ASSUME AttemptIsWatched, Running, NEW i \in Unanswered',
           sk[i].entry # None /\ answers[i] = <<>>,
           sk'[i].entry = sk[i].entry, sk[i].net = "syn" => sk'[i].net = "syn" \/ sk'[i].ready,
           sk[i].ready => sk'[i].ready,
           \A e \in batch : e.sock = i => e \in batch',
           at = "adding" => at' = "adding" /\ pipe'[cur'].sock = pipe[cur].sock
    PROVE  Coming(i)'
<1>1. i \in Unanswered
  BY DEF Unanswered
<1> QED BY <1>1 DEF AttemptIsWatched, Coming

LEMMA NetworkComes ==
    ASSUME Given, AttemptIsWatched,
           \/ PeerConnects \/ AddServer
           \/ \E i \in Socket : SynAnswered(i) \/ PeerEnds(i) \/ SocketDrains(i)
    PROVE  AttemptIsWatched'
<1> SUFFICES ASSUME NEW j \in Unanswered' PROVE Coming(j)'
  BY DEF AttemptIsWatched
<1>1. Running /\ UNCHANGED <<pipe, batch, at, cur, answers>> /\ j \in Socket
  BY DEF PeerConnects, AddServer, SynAnswered, PeerEnds, SocketDrains, NetworkLeaves,
         ApplicationRuns, history, Unanswered
<1>2. /\ sk'[j].entry = sk[j].entry
      /\ sk'[j] = sk[j] \/ sk'[j].ready = (sk[j].ready \/ sk[j].entry # None)
  <2>1. CASE PeerConnects \/ AddServer
    BY <2>1 DEF PeerConnects, AddServer
  <2>2. ASSUME NEW i \in Socket, NEW net, Changes(i, net)
        PROVE  /\ sk'[j].entry = sk[j].entry
               /\ sk'[j] = sk[j] \/ sk'[j].ready = (sk[j].ready \/ sk[j].entry # None)
    BY <1>1, <2>2, Known DEF Changes, SockRec
  <2> QED BY <2>1, <2>2 DEF SynAnswered, PeerEnds, SocketDrains
<1>3. sk[j].entry # None /\ answers[j] = <<>>
  BY <1>1, <1>2 DEF Unanswered
<1> QED BY <1>1, <1>2, <1>3, ComingStands

LEMMA DialComes ==
    ASSUME Given, AttemptIsWatched,
           \/ DoAccept
           \/ \E i \in Socket, s \in Client :
                 DialAtOnce(s, i) \/ DialRefused(s, i) \/ DialPending(s, i)
    PROVE  AttemptIsWatched'
<1> SUFFICES ASSUME NEW j \in Unanswered' PROVE Coming(j)'
  BY DEF AttemptIsWatched
<1> DEFINE Opens(i, entry, answer) ==
             /\ Fresh(i) /\ sk' = [sk EXCEPT ![i] = entry]
             /\ answers' = [answers EXCEPT ![i] = answer]
             /\ answer # <<>> \/ entry.net = "syn" \/ entry.ready
<1>0. PICK i \in Socket : \E entry, answer : Opens(i, entry, answer)
  <2>1. CASE DoAccept
    <3>1. PICK i \in Socket, p \in Pipe : /\ Fresh(i) /\ sk' = [sk EXCEPT ![i] = Opened("up", p)]
                                          /\ answers' = [answers EXCEPT ![i] = <<"connected">>]
      BY <2>1 DEF DoAccept, Accepts
    <3>2. Opens(i, Opened("up", p), <<"connected">>)
      BY <3>1
    <3> QED BY <3>2
  <2>2. ASSUME NEW i \in Socket, NEW s \in Client, DialAtOnce(s, i)
        PROVE  \E entry, answer : Opens(i, entry, answer)
    <3>1. PICK p \in Pipe : sk' = [sk EXCEPT ![i] = Opened("up", p)]
      BY <2>2 DEF DialAtOnce
    <3>2. Opens(i, Opened("up", p), <<"connected", "connected">>)
      BY <2>2, <3>1 DEF DialAtOnce
    <3> QED BY <3>2
  <2>3. ASSUME NEW i \in Socket, NEW s \in Client, DialRefused(s, i)
        PROVE  \E entry, answer : Opens(i, entry, answer)
    <3>1. Opens(i, Opened("refused", None), <<"failed">>)
      BY <2>3 DEF DialRefused
    <3> QED BY <3>1
  <2>4. ASSUME NEW i \in Socket, NEW s \in Client, DialPending(s, i)
        PROVE  \E entry, answer : Opens(i, entry, answer)
    <3>1. PICK p \in Pipe, net \in {"syn", "up", "refused"} :
             sk' = [sk EXCEPT ![i] = [net |-> net, entry |-> p, ready |-> net # "syn",
                                      worker |-> None]]
      BY <2>4 DEF DialPending
    <3>2. answers' = [answers EXCEPT ![i] = answers[i]] /\ Fresh(i)
      BY <2>4 DEF DialPending, Given, AnswersOK
    <3>3. Opens(i, [net |-> net, entry |-> p, ready |-> net # "syn", worker |-> None],
                answers[i])
      BY <3>1, <3>2
    <3>4. \E answer : Opens(i, [net |-> net, entry |-> p, ready |-> net # "syn",
                                worker |-> None], answer)
      BY <3>3
    <3> HIDE DEF Opens
    <3> QED BY <3>4
  <2> QED BY <2>1, <2>2, <2>3, <2>4
<1>1. PICK entry, answer : Opens(i, entry, answer)
  BY <1>0
<1>2. /\ Running /\ UNCHANGED <<batch, cur>> /\ at # "adding" /\ j \in Socket
  BY DEF DoAccept, Accepts, DialAtOnce, DialRefused, DialPending, DialLeaves, MayDial,
         ApplicationRuns, Unanswered
<1>3. CASE j = i
  <2>1. sk'[i] = entry /\ answers'[i] = answer
    BY <1>1, Known DEF Given, AnswersOK
  <2> QED BY <1>1, <1>3, <2>1 DEF Unanswered, Coming
<1>4. CASE j # i
  <2>1. sk'[j] = sk[j] /\ answers'[j] = answers[j]
    BY <1>1, <1>2, <1>4, Known DEF Given, AnswersOK
  <2>2. sk[j].entry # None /\ answers[j] = <<>>
    BY <2>1 DEF Unanswered
  <2> QED BY <1>2, <2>1, <2>2, ComingStands
<1> QED BY <1>3, <1>4

LEMMA WaitComes == ASSUME Given, AttemptIsWatched, EpollWait PROVE AttemptIsWatched'
<1> SUFFICES ASSUME NEW j \in Unanswered' PROVE Coming(j)'
  BY DEF AttemptIsWatched
<1>1. /\ Running /\ at = "loop" /\ batch = {} /\ UNCHANGED <<answers, at>> /\ j \in Socket
      /\ \A i \in {k \in Socket : sk[k].ready} :
            [sock |-> i, p |-> sk[i].entry, flags |-> Flags(i)] \in batch'
      /\ sk' = [i \in Socket |-> [sk[i] EXCEPT !.ready = FALSE]]
  BY DEF EpollWait, history, Unanswered
<1>2. sk'[j].entry = sk[j].entry /\ sk'[j].net = sk[j].net
  BY <1>1, Known DEF SockRec
<1>3. sk[j].net = "syn" \/ sk[j].ready
  BY <1>1, <1>2 DEF Unanswered, AttemptIsWatched, Coming
<1>4. ASSUME sk[j].ready
      PROVE  \E e \in batch' : e.sock = j /\ e.p = sk'[j].entry
  <2>1. [sock |-> j, p |-> sk[j].entry, flags |-> Flags(j)] \in batch'
    BY <1>1, <1>4
  <2> QED BY <1>2, <2>1
<1> QED BY <1>2, <1>3, <1>4 DEF Coming

LEMMA EventComes ==
    ASSUME Given, Listens, AttemptIsWatched,
           \E e \in batch : DealAccept(e) \/ DealFailure(e) \/ DealConnect(e)
    PROVE  AttemptIsWatched'
<1> SUFFICES ASSUME Running', NEW j \in Unanswered' PROVE Coming(j)'
  BY DEF AttemptIsWatched
<1>1. PICK e \in batch : DealAccept(e) \/ DealFailure(e) \/ DealConnect(e)
  OBVIOUS
<1>2. /\ Running /\ at = "loop" /\ batch' = batch \ {e} /\ sk' = sk /\ j \in Socket
  BY <1>1 DEF DealAccept, DealFailure, DealConnect, Connects, Handles, Unanswered
<1>3. /\ answers' = answers \/ answers' = [answers EXCEPT ![e.sock] = Append(@, "failed")]
  BY <1>1 DEF DealAccept, DealFailure, DealConnect, Connects, history
<1>4. sk[j].entry # None /\ answers[j] = <<>>
  <2>1. e.sock \in Socket \cup {0}
    BY Known
  <2>2. CASE answers' = answers
    BY <1>2, <2>2 DEF Unanswered
  <2>3. CASE answers' = [answers EXCEPT ![e.sock] = Append(@, "failed")]
    <3>1. j # e.sock
      <4> SUFFICES ASSUME j = e.sock PROVE FALSE
        OBVIOUS
      <4>1. answers'[j] = Append(answers[j], "failed")
        BY <1>2, <2>3 DEF Given, AnswersOK
      <4>2. answers[j] \in Seq({"connected", "failed"})
        BY <1>2 DEF Given, AnswersOK
      <4>3. answers'[j] # <<>>
        BY <4>1, <4>2
      <4> QED BY <4>3 DEF Unanswered
    <3> QED BY <1>2, <2>3, <3>1 DEF Unanswered, Given, AnswersOK
  <2> QED BY <1>3, <2>2, <2>3
<1>5. CASE e.sock # j
  BY <1>2, <1>4, <1>5, ComingStands
<1>6. CASE e.sock = j
  <2>1. ~DealAccept(e)
    BY <1>2, <1>6, Known DEF DealAccept, Listens
  <2>2. ~DealFailure(e)
    <3> SUFFICES ASSUME DealFailure(e) PROVE FALSE
      OBVIOUS
    <3>1. answers' = [answers EXCEPT ![e.sock] = Append(@, "failed")]
      BY DEF DealFailure, Running
    <3>2. answers'[j] = Append(answers[j], "failed") /\ answers[j] \in Seq({"connected", "failed"})
      BY <1>2, <1>6, <3>1 DEF Given, AnswersOK
    <3>3. answers'[j] # <<>>
      BY <3>2
    <3> QED BY <3>3 DEF Unanswered
  <2>3. /\ at' = "adding" /\ cur' = e.p /\ ~Fails(e)
        /\ pipe' = [pipe EXCEPT ![e.p].status = "ESTABLISHED"]
    BY <1>1, <2>1, <2>2 DEF DealConnect, Connects
  <2>4. j \in Unanswered /\ (sk[j].net = "syn" \/ sk[j].ready \/ e.p = sk[j].entry)
    <3>1. j \in Unanswered
      BY <1>2, <1>4 DEF Unanswered
    <3>2. \A f \in batch : f.sock = j => f = e
      BY <1>6 DEF Given, Ways, BatchInv
    <3> QED BY <1>2, <3>1, <3>2 DEF AttemptIsWatched, Coming
  <2>5. CASE sk[j].net = "syn" \/ sk[j].ready
    BY <1>2, <2>5 DEF Coming
  <2>6. CASE e.p = sk[j].entry
    <3>1. sk[j].net \in Stay /\ e.p \in inUse /\ e.p \in Pipe
      BY <1>2, <1>6, <2>3, Known DEF Given, Ways, BatchInv, PipeInv
    <3>2. pipe[e.p].sock = j
      BY <1>2, <1>4, <2>6, <3>1 DEF Given, Ways, SocketInv, SocketOK, Leads, Stay
    <3>3. pipe'[e.p].sock = j
      BY <2>3, <3>1, <3>2, Known DEF PipeRec
    <3> QED BY <2>3, <3>3 DEF Coming
  <2> QED BY <2>4, <2>5, <2>6
<1> QED BY <1>5, <1>6

LEMMA AnswerComes ==
    ASSUME Given, AttemptIsWatched, DoConnect \/ FailureReturns \/ AcceptBlocks \/ ReadBreak
    PROVE  AttemptIsWatched'
<1> SUFFICES ASSUME Running', NEW j \in Unanswered' PROVE Coming(j)'
  BY DEF AttemptIsWatched
<1>1. CASE FailureReturns \/ AcceptBlocks \/ ReadBreak
  <2>1. Running /\ UNCHANGED <<sk, batch, answers>> /\ at # "adding" /\ j \in Socket
    BY <1>1 DEF FailureReturns, AcceptBlocks, ReadBreak, history, Unanswered
  <2> QED BY <2>1, ComingStands DEF Unanswered
<1>2. CASE DoConnect
  <2>1. PICK i \in Socket : /\ i = pipe[cur].sock
                            /\ sk' = [sk EXCEPT ![i].worker = cur]
                            /\ answers' = [answers EXCEPT ![i] = Append(@, "connected")]
    BY <1>2 DEF DoConnect, Running
  <2>2. /\ Running /\ at = "adding" /\ batch' = batch /\ j \in Socket
    BY <1>2 DEF DoConnect, Unanswered
  <2>3. j # i
    <3> SUFFICES ASSUME j = i PROVE FALSE
      OBVIOUS
    <3>1. /\ answers'[j] = Append(answers[j], "connected")
          /\ answers[j] \in Seq({"connected", "failed"})
      BY <2>1 DEF Given, AnswersOK
    <3>2. answers'[j] # <<>>
      BY <3>1
    <3> QED BY <3>2 DEF Unanswered
  <2>4. sk'[j] = sk[j] /\ answers'[j] = answers[j]
    BY <2>1, <2>2, <2>3, Known DEF Given, AnswersOK
  <2>5. j \in Unanswered /\ pipe[cur].sock # j
    BY <2>1, <2>2, <2>3, <2>4 DEF Unanswered
  <2> QED BY <2>2, <2>4, <2>5 DEF AttemptIsWatched, Coming
<1> QED BY <1>1, <1>2

LEMMA WorkerComes == ASSUME Given, AttemptIsWatched, WorkerStep PROVE AttemptIsWatched'
<1> SUFFICES ASSUME NEW j \in Unanswered' PROVE Coming(j)'
  BY DEF AttemptIsWatched
<1>0. /\ Running /\ UNCHANGED <<batch, at, cur, answers>> /\ j \in Socket
  BY DEF WorkerStep, WorkerDeletes, WorkerCloses, history, Unanswered
<1>1. ASSUME NEW i \in Socket, WorkerDeletes(i) PROVE Coming(j)'
  <2>1. /\ sk' = [sk EXCEPT ![i].worker = None]
        /\ pipe' = [pipe EXCEPT ![sk[i].worker].status = "UNINITIALIZE"]
    BY <1>1 DEF WorkerDeletes
  <2>2. sk'[j].entry = sk[j].entry /\ sk'[j].net = sk[j].net /\ sk'[j].ready = sk[j].ready
    BY <1>0, <2>1, Known DEF SockRec
  <2>3. \A p \in Pipe : pipe'[p].sock = pipe[p].sock
    BY <2>1, Known DEF PipeRec
  <2>4. at = "adding" => cur \in Pipe
    BY Known DEF Given, TypeOK
  <2> QED BY <1>0, <2>2, <2>3, <2>4, ComingStands DEF Unanswered
<1>2. CASE WorkerCloses
  <2>1. /\ closing # None /\ pipe' = [pipe EXCEPT ![closing].sock = None]
        /\ sk' = [i \in Socket |-> IF i = pipe[closing].sock
                                   THEN Opened(sk[i].net, None) ELSE sk[i]]
    BY <1>2 DEF WorkerCloses
  <2>2. j # pipe[closing].sock
    BY <1>0, <2>1 DEF Unanswered, Opened, Unopened
  <2>3. sk'[j] = sk[j]
    BY <1>0, <2>1, <2>2
  <2>4. \A p \in Pipe : pipe[p].sock = j => pipe'[p].sock = j
    BY <2>1, <2>2, Known DEF PipeRec
  <2>5. at = "adding" => cur \in Pipe
    BY Known DEF Given, TypeOK
  <2>6. j \in Unanswered
    BY <1>0, <2>3 DEF Unanswered
  <2> QED BY <1>0, <2>3, <2>4, <2>5, <2>6 DEF AttemptIsWatched, Coming
<1> QED BY <1>1, <1>2 DEF WorkerStep

(***************************************************************************)
(* While peers end with a FIN, no attempt whose entry is in the engine's   *)
(* epoll is forgotten: the network has still to answer, or the edge is     *)
(* still to be reported, or its event to be handled, though entries are    *)
(* edge triggered and the answer may come before the entry does            *)
(* (epoller.cpp 128-201).                                                  *)
(***************************************************************************)
THEOREM AttemptsAreNotMissed == FinOnly => (Spec => []AttemptIsWatched)
<1> SUFFICES ASSUME FinOnly PROVE Spec => []AttemptIsWatched
  OBVIOUS
<1>1. Init => Listens /\ BacklogIsWatched /\ AttemptIsWatched
  BY DEF Init, Listens, BacklogIsWatched, AttemptIsWatched, Unanswered, Unopened
<1>2. Given /\ Listens /\ AttemptIsWatched /\ [Next]_vars => AttemptIsWatched'
  <2> SUFFICES ASSUME Given, Listens, AttemptIsWatched, [Next]_vars PROVE AttemptIsWatched'
    OBVIOUS
  <2>1. CASE UNCHANGED vars
    BY <2>1 DEF vars, history, AttemptIsWatched, Running, Unanswered, Coming
  <2>2. CASE Next
    BY <2>2, NetworkComes, DialComes, WaitComes, EventComes, AnswerComes, WorkerComes
       DEF Next, MainStep
  <2> QED BY <2>1, <2>2
<1> QED BY <1>1, <1>2, StepListens, AllWays, PTL DEF Spec
=============================================================================
