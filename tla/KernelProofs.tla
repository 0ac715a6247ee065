------------------------------ MODULE KernelProofs ------------------------------
(***************************************************************************)
(* Proofs about Kernel and Logger, for any number of workers, modules,     *)
(* events and lines: types, the pairs of hands a log stream passes         *)
(* through, the order of the lines in the files, whom the main thread      *)
(* waits for, and what Terminate promises.                                 *)
(***************************************************************************)
EXTENDS Kernel, PoolProofs, SequenceTheorems

(***************************************************************************)
(* The logger.  A stream is in one pair of hands because those in use are  *)
(* just those held, and no two hands hold the same; it holds a line.       *)
(***************************************************************************)
HandsDiffer ==
    /\ \A j, k \in DOMAIN lqueue : lqueue[j] = lqueue[k] => j = k
    /\ \A k \in DOMAIN lqueue : lqueue[k] # adding /\ lqueue[k] # taken
    /\ adding # None => adding # taken

HeldNumber == Len(lqueue) + Cardinality({adding} \ {None}) + Cardinality({taken} \ {None})

HandsInv ==
    /\ LogTypeOK
    /\ lpc \in {"write", "recover"} <=> taken # None
    /\ HandsDiffer
    /\ Sound(lfree, lused, lmade)
    /\ lused = Held /\ Cardinality(Held) = HeldNumber
    /\ \A u \in Held : text[u] # <<>>

\* Taking a stream from nobody's hands, and letting one go.
LEMMA Hands ==
    ASSUME HandsInv, NEW u, u # None
    PROVE  /\ IsFiniteSet(Held) /\ Cardinality(Held) \in Nat
           /\ Cardinality({u} \ {None}) = 1 /\ Cardinality({None} \ {None}) = 0
<1>1. \E m \in Nat : Held \in SUBSET (1 .. m)
  BY DEF HandsInv, Sound
<1>2. PICK m \in Nat : Held \in SUBSET (1 .. m)
  BY <1>1
<1>3. IsFiniteSet(1 .. m)
  BY FS_Interval
<1>4. IsFiniteSet(Held)
  BY <1>2, <1>3, FS_Subset
<1>5. {u} \ {None} = {u} /\ {None} \ {None} = {}
  OBVIOUS
<1> QED BY <1>4, <1>5, FS_CardinalityType, FS_Singleton, FS_EmptySet

LEMMA LoggerInit == Init => HandsInv
<1> SUFFICES ASSUME Init PROVE HandsInv
  OBVIOUS
<1> USE DEF Init, LogInit
<1>1. LogTypeOK
  BY KernelAssumption DEF LogTypeOK, Closed
<1>2. HandsDiffer /\ (lpc \in {"write", "recover"} <=> taken # None)
  BY DEF HandsDiffer
<1>3. Held = {}
  BY DEF Held
<1>4. Sound(lfree, lused, lmade)
  <2>1. lfree = NewUnits(0, Block) /\ lused = 1 .. 0 /\ lmade = 0 + Block
    <3>1. lfree = [k \in 1 .. Block |-> k]
      BY DEF LogPool!Constructed
    <3>2. \A k \in 1 .. Block : 0 + k = k
      BY KernelAssumption
    <3> QED BY <3>1, <3>2, KernelAssumption DEF LogPool!Constructed, NewUnits
  <2>2. Cardinality(lused) = 0
    BY FS_EmptySet DEF LogPool!Constructed
  <2> QED BY <2>1, <2>2, KernelAssumption, BlockSound
<1>5. Cardinality(Held) = HeldNumber
  <2>1. {adding} \ {None} = {} /\ {taken} \ {None} = {} /\ Len(lqueue) = 0
    OBVIOUS
  <2>2. HeldNumber = 0 + Cardinality({}) + Cardinality({})
    BY <2>1 DEF HeldNumber
  <2> QED BY <1>3, <2>2, FS_EmptySet
<1> QED BY <1>1, <1>2, <1>3, <1>4, <1>5 DEF HandsInv, LogPool!Constructed

\* A step that leaves the streams where they are.
LEMMA HandsStand ==
    ASSUME HandsInv, LogTypeOK', UNCHANGED <<logPool, text, lqueue, adding, taken>>,
           lpc' \in {"write", "recover"} <=> lpc \in {"write", "recover"}
    PROVE  HandsInv'
BY DEF HandsInv, logPool, HandsDiffer, Held, HeldNumber

LEMMA LogStep == ASSUME HandsInv, Log PROVE HandsInv'
<1> USE KernelAssumption
<1>1. PICK u \in Stream : LogPool!Create(u) /\ adding' = u
                          /\ text' = [text EXCEPT ![u] = Append(@, logged + 1)]
  BY DEF Log
<1>2. /\ adding = None /\ logged < Lines /\ logged' = logged + 1
      /\ UNCHANGED <<lqueue, lpc, taken, file, written, dropped, halted>>
  BY DEF Log
<1>3. u \notin Held /\ Sound(lfree', lused', lmade') /\ lused' = Held \cup {u}
  <2> DEFINE s == IF lfree = <<>> THEN NewUnits(lmade, Block) ELSE lfree
             n == IF lfree = <<>> THEN lmade + Block ELSE lmade
  <2>1. u = Head(s) /\ lfree' = Tail(s) /\ lused' = lused \cup {u} /\ lmade' = n
    BY <1>1 DEF LogPool!Create, LogPool!AllocNewBlob, NewUnits
  <2>2. Head(s) \in (1 .. n) \ lused /\ Sound(Tail(s), lused \cup {Head(s)}, n)
    <3> HIDE DEF s, n
    <3>1. s = (IF lfree = <<>> THEN NewUnits(lmade, Block) ELSE lfree)
          /\ n = (IF lfree = <<>> THEN lmade + Block ELSE lmade)
      BY DEF s, n
    <3> QED BY <3>1, CreateSound DEF HandsInv
  <2> HIDE DEF s, n
  <2> QED BY <2>1, <2>2 DEF HandsInv
<1>4. u # None
  BY DEF Stream
<1>5. LogTypeOK'
  BY <1>1, <1>2 DEF HandsInv, LogTypeOK
<1>6. Held' = Held \cup {u}
  BY <1>1, <1>2, <1>4 DEF Held
<1>7. HandsDiffer'
  BY <1>1, <1>2, <1>3, <1>4 DEF HandsInv, HandsDiffer, Held
<1>8. Cardinality(Held') = HeldNumber'
  <2>1. Cardinality(Held') = Cardinality(Held) + 1
    BY <1>3, <1>4, <1>6, Hands, FS_AddElement
  <2>2. Cardinality(Held) = Len(lqueue) + 0 + Cardinality({taken} \ {None})
    BY <1>2, <1>4, Hands DEF HandsInv, HeldNumber
  <2>3. HeldNumber' = Len(lqueue) + 1 + Cardinality({taken} \ {None})
    BY <1>1, <1>2, <1>4, Hands DEF HeldNumber
  <2>4. Len(lqueue) \in Nat
    BY DEF HandsInv, LogTypeOK
  <2>5. Cardinality({taken} \ {None}) \in Nat
    <3>1. CASE taken = None
      <4>1. Cardinality({None} \ {None}) = 0
        BY <1>4, Hands
      <4> QED BY <3>1, <4>1
    <3>2. CASE taken # None
      BY <3>2, Hands
    <3> QED BY <3>1, <3>2
  <2> QED BY <2>1, <2>2, <2>3, <2>4, <2>5
<1>9. \A v \in Held' : text'[v] # <<>>
  <2>1. text \in [Stream -> Seq(1 .. Lines)] /\ text[u] \in Seq(1 .. Lines)
    BY DEF HandsInv, LogTypeOK
  <2>2. text'[u] = Append(text[u], logged + 1) /\ \A v \in Stream \ {u} : text'[v] = text[v]
    BY <1>1, <2>1
  <2>3. Append(text[u], logged + 1) # <<>>
    BY <2>1
  <2>4. Held \subseteq Stream
    BY DEF HandsInv, LogTypeOK, Held
  <2> QED BY <1>6, <2>2, <2>3, <2>4 DEF HandsInv
<1> QED BY <1>2, <1>3, <1>5, <1>6, <1>7, <1>8, <1>9 DEF HandsInv

LEMMA LogAddStep == ASSUME HandsInv, LogAdd PROVE HandsInv'
<1>1. /\ adding # None /\ Len(lqueue) < LogSize
      /\ lqueue' = Append(lqueue, adding) /\ adding' = None
      /\ UNCHANGED <<logPool, text, lpc, taken, file, fate, halted>>
  BY DEF LogAdd
<1>2. LogTypeOK'
  BY <1>1, KernelAssumption DEF HandsInv, LogTypeOK, fate
<1>3. /\ lqueue \in Seq(Stream) /\ Len(lqueue) \in Nat /\ adding \in Stream
      /\ DOMAIN lqueue = 1 .. Len(lqueue) /\ DOMAIN lqueue' = 1 .. Len(lqueue) + 1
      /\ \A k \in 1 .. Len(lqueue) : lqueue'[k] = lqueue[k]
      /\ lqueue'[Len(lqueue) + 1] = adding /\ Len(lqueue') = Len(lqueue) + 1
  BY <1>1 DEF HandsInv, LogTypeOK
<1>4. Held' = Held
  <2>1. {lqueue'[k] : k \in DOMAIN lqueue'} = {lqueue[k] : k \in DOMAIN lqueue} \cup {adding}
    BY <1>3
  <2> QED BY <1>1, <2>1 DEF Held
<1>5. HandsDiffer'
  <2>1. \A k \in 1 .. Len(lqueue) : lqueue[k] # adding /\ lqueue[k] # taken
    BY <1>3 DEF HandsInv, HandsDiffer
  <2>2. adding # taken
    BY <1>1 DEF HandsInv, HandsDiffer
  <2>3. \A j, k \in 1 .. Len(lqueue) : lqueue[j] = lqueue[k] => j = k
    BY <1>3 DEF HandsInv, HandsDiffer
  <2>4. \A k \in 1 .. Len(lqueue) + 1 : lqueue'[k] # None
    BY <1>1, <1>3, KernelAssumption DEF Stream
  <2> QED BY <1>1, <1>3, <2>1, <2>2, <2>3, <2>4 DEF HandsDiffer
<1>6. HeldNumber' = HeldNumber
  <2>1. Cardinality({adding} \ {None}) = 1 /\ Cardinality({adding'} \ {None}) = 0
    BY <1>1, Hands
  <2>2. HeldNumber' = Len(lqueue) + 1 + 0 + Cardinality({taken} \ {None})
    BY <1>1, <1>3, <2>1 DEF HeldNumber
  <2>3. HeldNumber = Len(lqueue) + 1 + Cardinality({taken} \ {None})
    BY <2>1 DEF HeldNumber
  <2> QED BY <1>3, <2>2, <2>3
<1> QED BY <1>1, <1>2, <1>4, <1>5, <1>6 DEF HandsInv, logPool

LEMMA LogReadStep == ASSUME HandsInv, LogRead PROVE HandsInv'
<1>1. /\ lpc = "read" /\ lqueue # <<>> /\ lpc' = "write"
      /\ taken' = Head(lqueue) /\ lqueue' = Tail(lqueue)
      /\ UNCHANGED <<logPool, text, adding, file, fate, halted>>
  BY DEF LogRead
<1>2. taken = None
  BY <1>1 DEF HandsInv, LogTypeOK
<1>3. /\ lqueue \in Seq(Stream) /\ Len(lqueue) \in Nat \ {0} /\ lqueue' \in Seq(Stream)
      /\ DOMAIN lqueue = 1 .. Len(lqueue) /\ DOMAIN lqueue' = 1 .. Len(lqueue) - 1
      /\ \A k \in 1 .. Len(lqueue) - 1 : lqueue'[k] = lqueue[k + 1]
      /\ taken' = lqueue[1] /\ Len(lqueue') = Len(lqueue) - 1
  BY <1>1 DEF HandsInv, LogTypeOK
<1>4. taken' \in Stream /\ taken' # None
  <2>1. 1 \in DOMAIN lqueue
    BY <1>3
  <2> QED BY <1>3, <2>1, KernelAssumption DEF Stream
<1>5. LogTypeOK'
  BY <1>1, <1>3, <1>4, KernelAssumption DEF HandsInv, LogTypeOK, fate
<1>6. Held' = Held
  <2>1. ASSUME NEW k \in DOMAIN lqueue
        PROVE  lqueue[k] \in {lqueue'[j] : j \in DOMAIN lqueue'} \cup {taken'}
    <3>1. CASE k = 1
      BY <1>3, <3>1
    <3>2. CASE k # 1
      <4>1. k - 1 \in DOMAIN lqueue' /\ lqueue'[k - 1] = lqueue[k]
        BY <1>3, <2>1, <3>2
      <4> QED BY <4>1
    <3> QED BY <3>1, <3>2
  <2>2. \A k \in DOMAIN lqueue' : lqueue'[k] \in {lqueue[j] : j \in DOMAIN lqueue}
    BY <1>3
  <2>3. taken' \in {lqueue[j] : j \in DOMAIN lqueue}
    BY <1>3
  <2> QED BY <1>1, <1>2, <1>4, <2>1, <2>2, <2>3 DEF Held
<1>7. HandsDiffer'
  <2>1. /\ \A j, k \in 1 .. Len(lqueue) : lqueue[j] = lqueue[k] => j = k
        /\ \A k \in 1 .. Len(lqueue) : lqueue[k] # adding
    BY <1>3 DEF HandsInv, HandsDiffer
  <2>2. ASSUME NEW k \in DOMAIN lqueue' PROVE lqueue'[k] # adding /\ lqueue'[k] # taken'
    <3>1. k + 1 \in 1 .. Len(lqueue) /\ 1 \in 1 .. Len(lqueue) /\ k + 1 # 1
          /\ lqueue'[k] = lqueue[k + 1]
      BY <1>3
    <3>2. lqueue[k + 1] # lqueue[1]
      BY <2>1, <3>1
    <3> QED BY <1>3, <2>1, <3>1, <3>2
  <2>3. ASSUME NEW j \in DOMAIN lqueue', NEW k \in DOMAIN lqueue', lqueue'[j] = lqueue'[k]
        PROVE  j = k
    <3>1. /\ j + 1 \in 1 .. Len(lqueue) /\ k + 1 \in 1 .. Len(lqueue)
          /\ lqueue[j + 1] = lqueue[k + 1] /\ j \in Int /\ k \in Int
      BY <1>3, <2>3
    <3>2. j + 1 = k + 1
      BY <2>1, <3>1
    <3> QED BY <3>1, <3>2
  <2>4. adding # taken'
    BY <1>3, <2>1
  <2> QED BY <1>1, <2>2, <2>3, <2>4 DEF HandsDiffer
<1>8. HeldNumber' = HeldNumber
  <2>1. Cardinality({taken'} \ {None}) = 1
    BY <1>4, Hands
  <2>2. Cardinality({None} \ {None}) = 0
    BY <1>4, Hands
  <2>3. HeldNumber' = Len(lqueue) - 1 + Cardinality({adding} \ {None}) + 1
    BY <1>1, <1>3, <2>1 DEF HeldNumber
  <2>4. HeldNumber = Len(lqueue) + Cardinality({adding} \ {None}) + 0
    BY <1>2, <2>2 DEF HeldNumber
  <2>5. Cardinality({adding} \ {None}) \in Nat
    <3>1. CASE adding = None
      BY <2>2, <3>1
    <3>2. CASE adding # None
      BY <3>2, Hands
    <3> QED BY <3>1, <3>2
  <2> QED BY <1>3, <2>3, <2>4, <2>5
<1> QED BY <1>1, <1>4, <1>5, <1>6, <1>7, <1>8 DEF HandsInv, logPool

LEMMA LogWriteStep == ASSUME HandsInv, LogWrite PROVE HandsInv'
<1>1. /\ lpc = "write" /\ lpc' = "recover"
      /\ UNCHANGED <<logPool, text, lqueue, adding, taken, logged>>
  BY DEF LogWrite
<1>2. text[taken] \in Seq(1 .. Lines)
  BY <1>1 DEF HandsInv, LogTypeOK
<1>3. /\ file' \in [open : BOOLEAN, age : {"zero", "recent", "past"}]
      /\ written' \in Seq(1 .. Lines)
  <2>1. file \in [open : BOOLEAN, age : {"zero", "recent", "past"}] /\ written \in Seq(1 .. Lines)
    BY DEF HandsInv, LogTypeOK
  <2>2. written \o text[taken] \in Seq(1 .. Lines)
    BY <1>2, <2>1, ConcatProperties
  <2>3. PICK f \in {file, Fresh} :
           \/ ~Expired(f) /\ FILEWrite(f)
           \/ Expired(f) /\ ~f.open /\ Drop(f)
           \/ Expired(f) /\ f.open
              /\ \E g \in FILEOpen(FILEClose(f)) : IF g.open THEN FILEWrite(g) ELSE Drop(g)
    BY DEF LogWrite, FILEOpen
  <2>4. ASSUME NEW g \in {file, Fresh, Closed}
        PROVE  g \in [open : BOOLEAN, age : {"zero", "recent", "past"}]
    <3>1. CASE g = Fresh
      BY <3>1 DEF Fresh
    <3>2. CASE g = Closed
      BY <3>2 DEF Closed
    <3> QED BY <2>1, <3>1, <3>2
  <2>5. \E g \in {file, Fresh, Closed} : FILEWrite(g) \/ Drop(g)
    BY <2>3 DEF FILEOpen, FILEClose
  <2>6. PICK g \in {file, Fresh, Closed} : FILEWrite(g) \/ Drop(g)
    BY <2>5
  <2>7. file' \in {g, file} /\ written' \in {written \o text[taken], written}
    BY <2>6 DEF FILEWrite, Drop
  <2> QED BY <2>1, <2>2, <2>4, <2>7
<1>4. LogTypeOK'
  BY <1>1, <1>3 DEF HandsInv, LogTypeOK
<1> QED BY <1>1, <1>4, HandsStand

LEMMA LogRecoverStep == ASSUME HandsInv, LogRecover PROVE HandsInv'
<1>1. /\ lpc = "recover" /\ lpc' = "read" /\ taken' = None
      /\ UNCHANGED <<text, lqueue, adding, file, fate, halted>>
      /\ lfree' = Append(lfree, taken) /\ lused' = lused \ {taken} /\ lmade' = lmade
  BY DEF LogRecover, LogPool!Recover
<1>2. taken # None /\ taken \in Held
  BY <1>1 DEF HandsInv, Held
<1>3. Sound(lfree', lused', lmade')
  BY <1>1, <1>2, ReturnSound DEF HandsInv
<1>4. LogTypeOK'
  BY <1>1 DEF HandsInv, LogTypeOK, fate
<1>5. Held' = Held \ {taken}
  BY <1>1, <1>2 DEF Held, HandsInv, HandsDiffer
<1>6. HandsDiffer'
  <2>1. \A k \in DOMAIN lqueue : lqueue[k] # None
    BY KernelAssumption DEF HandsInv, LogTypeOK, Stream
  <2> QED BY <1>1, <2>1 DEF HandsInv, HandsDiffer
<1>7. Cardinality(Held') = HeldNumber'
  <2>1. Cardinality(Held') = Cardinality(Held) - 1
    BY <1>2, <1>5, Hands, FS_RemoveElement
  <2>2. Cardinality({taken} \ {None}) = 1 /\ Cardinality({taken'} \ {None}) = 0
    BY <1>1, <1>2, Hands
  <2>3. HeldNumber = Len(lqueue) + Cardinality({adding} \ {None}) + 1
    BY <2>2 DEF HeldNumber
  <2>4. HeldNumber' = Len(lqueue) + Cardinality({adding} \ {None}) + 0
    BY <1>1, <2>2 DEF HeldNumber
  <2>5. Len(lqueue) \in Nat
    BY DEF HandsInv, LogTypeOK
  <2>6. Cardinality({adding} \ {None}) \in Nat
    <3>1. CASE adding = None
      BY <1>1, <2>2, <3>1
    <3>2. CASE adding # None
      BY <3>2, Hands
    <3> QED BY <3>1, <3>2
  <2> QED BY <2>1, <2>3, <2>4, <2>5, <2>6 DEF HandsInv
<1> QED BY <1>1, <1>2, <1>3, <1>4, <1>5, <1>6, <1>7 DEF HandsInv

LEMMA LogRunStep ==
    ASSUME HandsInv, LogRun \/ LogFileFails \/ FileAges PROVE HandsInv'
<1>1. CASE LogRun
  <2>1. LogTypeOK'
    BY <1>1 DEF HandsInv, LogTypeOK, LogRun, fate
  <2> QED BY <1>1, <2>1, HandsStand DEF LogRun
<1>2. CASE LogFileFails
  <2>1. LogTypeOK'
    BY <1>2 DEF HandsInv, LogTypeOK, LogFileFails, fate
  <2> QED BY <1>2, <2>1, HandsStand DEF LogFileFails
<1>3. CASE FileAges
  <2>1. LogTypeOK'
    BY <1>3 DEF HandsInv, LogTypeOK, FileAges, fate
  <2> QED BY <1>3, <2>1, HandsStand DEF FileAges
<1> QED BY <1>1, <1>2, <1>3

\* Steps of the rest of the process, among them the start of the thread.
LEMMA ElseStep ==
    ASSUME HandsInv, UNCHANGED <<logPool, text, lqueue, adding, taken, file, fate>>,
           lpc' = lpc \/ (lpc = "none" /\ lpc' = "created")
    PROVE  HandsInv'
<1>1. LogTypeOK'
  BY DEF HandsInv, LogTypeOK, fate
<1> QED BY <1>1, HandsStand

(***************************************************************************)
(* The main thread and the workers.  A thread that has gone is stopped,    *)
(* one that runs is not; Terminate waits only for a thread that has come   *)
(* to work, so that the status it waits for means that the thread is done. *)
(***************************************************************************)
MainInv ==
    /\ at \in {"initialize", "load", "modules", "enter", "loop", "turn", "destory",
               "terminate", "waiting", "logger", "return", "exited"}
    /\ turn \in 0 .. 2 * MaxModules + Workers + 1
    /\ modules \in Seq(Names) /\ Len(modules) <= MaxModules
    /\ m_bShutdown \in BOOLEAN /\ asked \in BOOLEAN
    /\ freed \subseteq {"managers", "workers", "logger"}
    /\ halted \in {"no", "freed", "main.cpp:25", "Logicmgr.cpp:76", "Logger.h:41",
                   "Logger.h:48", "Logger.h:51"}
    /\ at = "modules" => turn \in 1 .. 2 * Len(modules) + 1
    /\ at \in {"turn", "terminate"} => turn \in 1 .. Workers + 1
    /\ at = "waiting" => turn \in Worker
    /\ at \in {"initialize", "load", "modules"} => lpc = "none"

ThreadInv ==
    /\ m_nStatus \in [Worker -> {"STOPED", "WORKING", "STOPPING"}]
    /\ wpc \in [Worker -> {"none", "created", "top", "post", "done"}]
    /\ events \in [Worker -> 0 .. Events] /\ made \in 0 .. MaxEvents
    /\ ended \subseteq Worker
    /\ at = "initialize" => ended = {} /\ \A w \in Worker : wpc[w] = "none"
    /\ \A w \in Worker :
          IF wpc[w] \in {"top", "post"} THEN m_nStatus[w] # "STOPED"
                                       ELSE m_nStatus[w] = "STOPED"
    /\ at = "waiting" => wpc[turn] \notin {"none", "created"}
    /\ EndedThreadsAreDone

IInv == HandsInv /\ MainInv /\ ThreadInv

LEMMA InitInv == Init => IInv
<1> SUFFICES ASSUME Init PROVE IInv
  OBVIOUS
<1>1. HandsInv
  BY LoggerInit
<1>2. MainInv
  <2>1. 0 \in 0 .. 2 * MaxModules + Workers + 1
    BY KernelAssumption
  <2>2. <<>> \in Seq(Names) /\ Len(<<>>) <= MaxModules
    BY KernelAssumption
  <2> QED BY <2>1, <2>2 DEF Init, LogInit, MainInv
<1>3. ThreadInv
  BY KernelAssumption DEF Init, ThreadInv, EndedThreadsAreDone
<1> QED BY <1>1, <1>2, <1>3 DEF IInv

LEMMA InitializeStep ==
    ASSUME IInv,
           \/ StartWorkers \/ InitializeFails \/ LoadModule \/ ModulesLoaded
           \/ ModuleReturns \/ StartLogger
    PROVE  IInv'
<1> USE KernelAssumption DEF IInv, Goes, InitializeLeaves
<1>1. UNCHANGED <<logPool, text, lqueue, adding, taken, file, fate, m_bShutdown, asked,
                  m_nStatus, events, made, ended, freed>>
  BY DEF StartWorkers, InitializeFails, LoadModule, ModulesLoaded, ModuleReturns, StartLogger
<1>2. lpc' = lpc \/ (lpc = "none" /\ lpc' = "created")
  BY DEF StartWorkers, InitializeFails, LoadModule, ModulesLoaded, ModuleReturns,
         StartLogger, MainInv
<1>3. HandsInv'
  BY <1>1, <1>2, ElseStep
<1>4. MainInv'
  <2>1. CASE StartWorkers
    BY <1>1, <2>1 DEF StartWorkers, MainInv
  <2>2. CASE InitializeFails
    BY <1>1, <2>2 DEF InitializeFails, MainInv
  <2>3. CASE LoadModule
    BY <1>1, <2>3 DEF LoadModule, MainInv
  <2>4. CASE ModulesLoaded
    BY <1>1, <2>4 DEF ModulesLoaded, MainInv
  <2>5. CASE ModuleReturns
    BY <1>1, <2>5 DEF ModuleReturns, MainInv
  <2>6. CASE StartLogger
    BY <1>1, <2>6 DEF StartLogger, MainInv
  <2> QED BY <2>1, <2>2, <2>3, <2>4, <2>5, <2>6
<1>5. ThreadInv'
  <2>1. CASE StartWorkers
    BY <1>1, <2>1 DEF StartWorkers, ThreadInv, EndedThreadsAreDone
  <2>2. CASE ~StartWorkers
    <3>1. wpc' = wpc /\ at' \in {at, "load", "modules", "enter"} /\ at # "waiting"
      BY <2>2 DEF InitializeFails, LoadModule, ModulesLoaded, ModuleReturns, StartLogger
    <3> QED BY <1>1, <3>1 DEF ThreadInv, EndedThreadsAreDone
  <2> QED BY <2>1, <2>2
<1> QED BY <1>3, <1>4, <1>5

LEMMA LoopStep ==
    ASSUME IInv,
           \/ EnterLoop \/ LoopTest \/ ReadEvent \/ ProcessingReturns \/ TurnEnds \/ Shutdown
    PROVE  IInv'
<1> USE KernelAssumption DEF IInv, Goes, MainLeaves, workVars, InCallback
<1>1. UNCHANGED <<logVars, modules, m_nStatus, wpc, made, ended, freed, halted>>
  BY DEF EnterLoop, LoopTest, ReadEvent, ProcessingReturns, TurnEnds, Shutdown
<1>2. UNCHANGED <<logPool, text, lqueue, adding, lpc, taken, file, fate>>
  BY <1>1 DEF logVars
<1>3. HandsInv'
  BY <1>2, ElseStep
<1>4. MainInv'
  <2>1. CASE EnterLoop
    BY <1>1, <1>2, <2>1 DEF EnterLoop, MainInv
  <2>2. CASE LoopTest
    BY <1>1, <1>2, <2>2 DEF LoopTest, MainInv
  <2>3. CASE ReadEvent
    BY <1>1, <1>2, <2>3 DEF ReadEvent, MainInv
  <2>4. CASE ProcessingReturns
    BY <1>1, <1>2, <2>4 DEF ProcessingReturns, MainInv
  <2>5. CASE TurnEnds
    BY <1>1, <1>2, <2>5 DEF TurnEnds, MainInv
  <2>6. CASE Shutdown
    BY <1>1, <1>2, <2>6 DEF Shutdown, MainInv
  <2> QED BY <2>1, <2>2, <2>3, <2>4, <2>5, <2>6
<1>5. ThreadInv'
  <2>1. at' # "initialize" \/ at' = at
    BY DEF EnterLoop, LoopTest, ReadEvent, ProcessingReturns, TurnEnds, Shutdown
  <2>2. at' # "waiting"
    BY DEF EnterLoop, LoopTest, ReadEvent, ProcessingReturns, TurnEnds, Shutdown
  <2>3. events' \in [Worker -> 0 .. Events]
    BY DEF EnterLoop, LoopTest, ReadEvent, ProcessingReturns, TurnEnds, Shutdown, ThreadInv
  <2> QED BY <1>1, <2>1, <2>2, <2>3 DEF ThreadInv, EndedThreadsAreDone
<1> QED BY <1>3, <1>4, <1>5

LEMMA DestoryStep ==
    ASSUME IInv,
           \/ DestoryManagers \/ Terminate \/ TerminateIdle \/ TerminateReturns
           \/ DeleteWorkers \/ DeleteLogger \/ MainReturns
    PROVE  IInv'
<1> USE KernelAssumption DEF IInv, Goes, DestoryLeaves
<1>1. UNCHANGED <<logVars, modules, m_bShutdown, asked, wpc, events, made, halted>>
  BY DEF DestoryManagers, Terminate, TerminateIdle, TerminateReturns, DeleteWorkers,
         DeleteLogger, MainReturns
<1>2. UNCHANGED <<logPool, text, lqueue, adding, lpc, taken, file, fate>>
  BY <1>1 DEF logVars
<1>3. HandsInv'
  BY <1>2, ElseStep
<1>4. MainInv'
  <2>1. CASE DestoryManagers
    BY <1>1, <1>2, <2>1 DEF DestoryManagers, MainInv
  <2>2. CASE Terminate
    BY <1>1, <1>2, <2>2 DEF Terminate, MainInv, Worker
  <2>3. CASE TerminateIdle
    BY <1>1, <1>2, <2>3 DEF TerminateIdle, MainInv
  <2>4. CASE TerminateReturns
    BY <1>1, <1>2, <2>4 DEF TerminateReturns, MainInv, Worker
  <2>5. CASE DeleteWorkers
    BY <1>1, <1>2, <2>5 DEF DeleteWorkers, MainInv
  <2>6. CASE DeleteLogger
    BY <1>1, <1>2, <2>6 DEF DeleteLogger, MainInv
  <2>7. CASE MainReturns
    BY <1>1, <1>2, <2>7 DEF MainReturns, MainInv
  <2> QED BY <2>1, <2>2, <2>3, <2>4, <2>5, <2>6, <2>7
<1>5. ThreadInv'
  <2>1. CASE Terminate
    <3>1. turn \in Worker
      BY <2>1 DEF Terminate, MainInv, Worker
    <3> QED BY <1>1, <2>1, <3>1 DEF Terminate, ThreadInv, EndedThreadsAreDone
  <2>2. CASE TerminateReturns
    <3>1. turn \in Worker /\ wpc[turn] = "done"
      BY <2>2 DEF TerminateReturns, MainInv, ThreadInv
    <3> QED BY <1>1, <2>2, <3>1 DEF TerminateReturns, ThreadInv, EndedThreadsAreDone
  <2>3. CASE ~Terminate /\ ~TerminateReturns
    <3>1. UNCHANGED <<m_nStatus, ended>> /\ at' \notin {"initialize", "waiting"}
      BY <2>3 DEF DestoryManagers, TerminateIdle, DeleteWorkers, DeleteLogger, MainReturns
    <3> QED BY <1>1, <3>1 DEF ThreadInv, EndedThreadsAreDone
  <2> QED BY <2>1, <2>2, <2>3
<1> QED BY <1>3, <1>4, <1>5

LEMMA ThreadStep ==
    ASSUME IInv,
           \/ \E w \in Worker : WorkerThread(w) \/ WorkerHasEvent(w)
           \/ FreedStep
    PROVE  IInv'
<1> USE KernelAssumption DEF IInv, workVars, mainVars, WorkerGoes
<1>1. UNCHANGED <<logVars, mainVars, ended, freed>>
  BY DEF WorkerThread, WorkerRuns, WorkerStops, WorkerPosts, WorkerHasEvent, FreedStep
<1>2. UNCHANGED <<logPool, text, lqueue, adding, lpc, taken, file, fate>>
  BY <1>1 DEF logVars
<1>3. HandsInv'
  BY <1>2, ElseStep
<1>4. halted' \in {halted, "freed"}
  BY DEF WorkerThread, WorkerRuns, WorkerStops, WorkerPosts, WorkerHasEvent, FreedStep
<1>5. MainInv'
  BY <1>1, <1>2, <1>4 DEF MainInv
<1>6. ThreadInv'
  <2>1. CASE FreedStep
    BY <1>1, <2>1 DEF FreedStep, ThreadInv, EndedThreadsAreDone
  <2>2. ASSUME NEW w \in Worker, WorkerRuns(w) PROVE ThreadInv'
    BY <1>1, <2>2 DEF WorkerRuns, ThreadInv, EndedThreadsAreDone
  <2>3. ASSUME NEW w \in Worker, WorkerStops(w) PROVE ThreadInv'
    BY <1>1, <2>3 DEF WorkerStops, ThreadInv, EndedThreadsAreDone
  <2>4. ASSUME NEW w \in Worker, WorkerHasEvent(w) PROVE ThreadInv'
    BY <1>1, <2>4 DEF WorkerHasEvent, ThreadInv, EndedThreadsAreDone
  <2>5. ASSUME NEW w \in Worker, WorkerPosts(w) PROVE ThreadInv'
    <3>1. wpc[w] = "post" /\ m_nStatus' = m_nStatus /\ events' \in [Worker -> 0 .. Events]
      BY <2>5 DEF WorkerPosts, ThreadInv
    <3>2. PICK to \in {"top", "post"} : wpc' = [wpc EXCEPT ![w] = to]
      BY <2>5 DEF WorkerPosts
    <3>3. made' \in 0 .. MaxEvents
      BY <2>5 DEF WorkerPosts, ThreadInv
    <3> QED BY <1>1, <3>1, <3>2, <3>3 DEF ThreadInv, EndedThreadsAreDone
  <2> QED BY <2>1, <2>2, <2>3, <2>4, <2>5 DEF WorkerThread
<1> QED BY <1>3, <1>5, <1>6

LEMMA LoggerSteps ==
    ASSUME IInv,
           CallLog \/ LogReturns \/ LoggerThread
              \/ (FileAges /\ UNCHANGED <<mainVars, workVars, ended, freed>>)
    PROVE  IInv'
<1> USE DEF IInv, CallLog, LogReturns, LoggerThread, LoggerStep
<1>1. UNCHANGED <<mainVars, workVars, ended, freed>>
  OBVIOUS
<1>2. HandsInv'
  BY LogStep, LogAddStep, LogReadStep, LogWriteStep, LogRecoverStep, LogRunStep
<1>3. MainInv'
  <2>1. lpc = "none" => lpc' = "none"
    BY DEF Log, LogAdd, LogRun, LogRead, LogWrite, LogFileFails, LogRecover, FileAges
  <2>2. halted' \in {halted, "Logger.h:41", "Logger.h:48", "Logger.h:51"}
    <3>1. CASE LogWrite
      BY <3>1 DEF LogWrite, FILEWrite, Drop
    <3>2. CASE ~LogWrite
      BY <3>2 DEF Log, LogAdd, LogRun, LogRead, LogFileFails, LogRecover, FileAges
    <3> QED BY <3>1, <3>2
  <2> QED BY <1>1, <2>1, <2>2 DEF MainInv, mainVars
<1>4. ThreadInv'
  BY <1>1 DEF ThreadInv, EndedThreadsAreDone, mainVars, workVars
<1> QED BY <1>2, <1>3, <1>4

LEMMA StepInv == IInv /\ [Next]_vars => IInv'
<1> SUFFICES ASSUME IInv, [Next]_vars PROVE IInv'
  OBVIOUS
<1>1. CASE UNCHANGED vars
  <2>1. HandsInv'
    BY <1>1, ElseStep DEF vars, logVars, IInv
  <2>2. MainInv' /\ ThreadInv'
    BY <1>1 DEF vars, logVars, mainVars, workVars, IInv, MainInv, ThreadInv,
                EndedThreadsAreDone
  <2> QED BY <2>1, <2>2 DEF IInv
<1>2. CASE Next
  BY <1>2, InitializeStep, LoopStep, DestoryStep, ThreadStep, LoggerSteps DEF Next, MainStep
<1> QED BY <1>1, <1>2

LEMMA Invariant == Spec => []IInv
<1>1. Init => IInv
  BY InitInv
<1>2. IInv /\ [Next]_vars => IInv'
  BY StepInv
<1> QED BY <1>1, <1>2, PTL DEF Spec

(***************************************************************************)
(* Types, and bounds of the counters.                                      *)
(***************************************************************************)
THEOREM TypeCorrect == Spec => []TypeOK
<1>1. IInv => TypeOK
  BY DEF IInv, HandsInv, MainInv, ThreadInv, TypeOK
<1> QED BY <1>1, Invariant, PTL

(***************************************************************************)
(* The main thread, the queue, the logger thread and the pool never hold   *)
(* the same log stream, and lose none, whatever the number of lines and of *)
(* slots (Logger.cpp 33-66, 84-102, TPool.h 51-90).                        *)
(***************************************************************************)
THEOREM LogStreamsAreAccounted == Spec => []StreamsAccounted
<1>1. IInv => LogPool!Accounted
  BY DEF IInv, HandsInv, Sound, LogPool!Accounted
<1>2. IInv => lused = Held /\ Cardinality(Held) = HeldNumber
  BY DEF IInv, HandsInv
<1>3. IInv => StreamsAccounted
  BY <1>1, <1>2 DEF HeldNumber, StreamsAccounted
<1> QED BY <1>3, Invariant, PTL

(***************************************************************************)
(* A worker for which Terminate answers true is not deleted under its own  *)
(* thread, whatever the thread does meanwhile (epollWorker.h 25-37,        *)
(* epollWorker.cpp 69-76, epoller.cpp 65-74).                              *)
(***************************************************************************)
THEOREM EndedWorkersAreDone == Spec => []EndedThreadsAreDone
<1>1. IInv => EndedThreadsAreDone
  BY DEF IInv, ThreadInv
<1> QED BY <1>1, Invariant, PTL

(***************************************************************************)
(* Nothing is written to a closed file: a file that is not open counts as  *)
(* an old one, so that it is opened before it is written to or the line is *)
(* given up (Logger.cpp 45-62, Logger.h 30-45).                            *)
(***************************************************************************)
ClosedIsOld == WritesToFile /\ (~file.open => file.age = "zero")

LEMMA WriteKeepsClosedIsOld ==
    ASSUME LogTypeOK, ClosedIsOld, LogWrite PROVE ClosedIsOld'
<1> DEFINE Old(f) == f.open \in BOOLEAN /\ (~f.open => f.age = "zero")
<1>1. Old(file) /\ Old(Fresh) /\ Old(Closed)
  BY DEF LogTypeOK, ClosedIsOld, Fresh, Closed
<1>2. PICK f \in {file, Fresh} :
         \/ ~Expired(f) /\ FILEWrite(f)
         \/ Expired(f) /\ ~f.open /\ Drop(f)
         \/ Expired(f) /\ f.open
            /\ \E g \in FILEOpen(FILEClose(f)) : IF g.open THEN FILEWrite(g) ELSE Drop(g)
  BY DEF LogWrite, FILEOpen
<1>3. Old(f)
  BY <1>1
<1>4. \E g \in {f, Fresh, Closed} : (g.open /\ FILEWrite(g)) \/ Drop(g)
  <2>1. ~Expired(f) => f.open
    BY <1>3 DEF Expired
  <2> QED BY <1>2, <2>1 DEF FILEOpen, FILEClose
<1>5. PICK g \in {f, Fresh, Closed} : (g.open /\ FILEWrite(g)) \/ Drop(g)
  BY <1>4
<1>6. file' = g /\ halted' = halted
  BY <1>5 DEF FILEWrite, Drop
<1> QED BY <1>1, <1>3, <1>6 DEF ClosedIsOld, WritesToFile

THEOREM NothingWrittenToClosedFile == Spec => []WritesToFile
<1>1. Init => ClosedIsOld
  BY DEF Init, LogInit, ClosedIsOld, WritesToFile, Closed
<1>2. IInv /\ ClosedIsOld /\ [Next]_vars => ClosedIsOld'
  <2> SUFFICES ASSUME IInv, ClosedIsOld, [Next]_vars PROVE ClosedIsOld'
    OBVIOUS
  <2>1. CASE LogWrite
    BY <2>1, WriteKeepsClosedIsOld DEF IInv, HandsInv
  <2>2. CASE FileAges
    BY <2>2 DEF FileAges, ClosedIsOld, WritesToFile, IInv, HandsInv, LogTypeOK
  <2>3. CASE ~LogWrite /\ ~FileAges
    <3>1. /\ file' = file
          /\ halted' \in {halted, "freed", "main.cpp:25", "Logicmgr.cpp:76",
                         "Logger.h:41", "Logger.h:51"}
      BY <2>3 DEF Next, MainStep, vars, logVars, StartWorkers, InitializeFails, LoadModule,
                  ModulesLoaded, ModuleReturns, StartLogger, InitializeLeaves, EnterLoop,
                  LoopTest, ReadEvent, ProcessingReturns, TurnEnds, MainLeaves, Shutdown,
                  CallLog, LogReturns, Log, LogAdd, DestoryManagers, Terminate,
                  TerminateIdle, TerminateReturns, DeleteWorkers, DeleteLogger,
                  MainReturns, DestoryLeaves, WorkerThread, WorkerRuns, WorkerStops,
                  WorkerPosts, WorkerHasEvent, WorkerGoes, FreedStep, LoggerThread,
                  LoggerStep, LogRun, LogRead, LogFileFails, LogRecover
    <3> QED BY <3>1 DEF ClosedIsOld, WritesToFile
  <2> QED BY <2>1, <2>2, <2>3
<1>3. ClosedIsOld => WritesToFile
  BY DEF ClosedIsOld
<1> QED BY <1>1, <1>2, <1>3, Invariant, PTL DEF Spec

(***************************************************************************)
(* The lines in the order of their turns: those whose turn is over are     *)
(* numbered up to Dealt, the logger thread holds the next, the queue those *)
(* after it, the main thread the last one.  A stream brings its own line   *)
(* and otherwise only lines whose turn is over, however often it has been  *)
(* used.                                                                   *)
(***************************************************************************)
Dealt == logged - Waiting
Brings(u, n) == n \in Range(text[u]) /\ Range(text[u]) \subseteq (1 .. Dealt) \cup {n}
InWrite == IF lpc = "write" THEN 1 ELSE 0
OnItsWay(u) == u = adding \/ (lpc = "write" /\ u = taken) \/ \E k \in DOMAIN lqueue : lqueue[k] = u

Numbered ==
    /\ lpc = "write" => Brings(taken, Dealt + 1)
    /\ \A k \in DOMAIN lqueue : Brings(lqueue[k], Dealt + InWrite + k)
    /\ adding # None => Brings(adding, logged)
    /\ \A u \in Stream : ~OnItsWay(u) => Range(text[u]) \subseteq 1 .. Dealt

NoneOvertakes ==
    \A k \in DOMAIN written : \A l \in 1 .. written[k] :
        l \in dropped \/ \E h \in 1 .. k : written[h] = l

LinesInv ==
    halted = "no" => Numbered /\ NoneOvertakes /\ Range(written) \cup dropped = 1 .. Dealt

LEMMA LineTypes ==
    ASSUME HandsInv
    PROVE  /\ logged \in Nat /\ Waiting \in Nat /\ Dealt \in Int /\ Len(lqueue) \in Nat
           /\ DOMAIN lqueue = 1 .. Len(lqueue) /\ InWrite \in Nat
           /\ logged = Dealt + InWrite + Len(lqueue) + (IF adding = None THEN 0 ELSE 1)
<1>1. logged \in Nat /\ Len(lqueue) \in Nat /\ DOMAIN lqueue = 1 .. Len(lqueue)
  <2>1. lqueue \in Seq(Stream) /\ logged \in 0 .. Lines
    BY DEF HandsInv, LogTypeOK
  <2> QED BY <2>1, KernelAssumption
<1>2. PICK a, w, n : /\ a = (IF adding = None THEN 0 ELSE 1)
                     /\ w = (IF lpc = "write" THEN 1 ELSE 0) /\ n = Len(lqueue)
  OBVIOUS
<1>3. a \in {0, 1} /\ w \in {0, 1} /\ n \in Nat
  BY <1>1, <1>2
<1>4. Waiting = n + a + w /\ InWrite = w
  BY <1>2 DEF Waiting, InWrite
<1>5. Dealt = logged - (n + a + w)
  BY <1>4 DEF Dealt
<1>6. /\ Waiting \in Nat /\ Dealt \in Int /\ InWrite \in Nat
      /\ logged = Dealt + InWrite + n + a
  BY <1>1, <1>3, <1>4, <1>5
<1>7. Dealt + InWrite + n + a = Dealt + InWrite + Len(lqueue) + (IF adding = None THEN 0 ELSE 1)
  BY <1>2
<1> QED BY <1>1, <1>6, <1>7

LEMMA AppendRange ==
    ASSUME NEW S, NEW s \in Seq(S), NEW x \in S
    PROVE  Range(Append(s, x)) = Range(s) \cup {x}
<1>1. /\ Append(s, x) \in Seq(S) /\ Len(Append(s, x)) = Len(s) + 1
      /\ \A i \in 1 .. Len(s) : Append(s, x)[i] = s[i]
      /\ Append(s, x)[Len(s) + 1] = x
  BY AppendProperties
<1>2. /\ DOMAIN s = 1 .. Len(s) /\ Len(s) \in Nat
      /\ DOMAIN Append(s, x) = 1 .. Len(s) + 1
  BY <1>1
<1>3. ASSUME NEW i \in 1 .. Len(s) + 1 PROVE i \in 1 .. Len(s) \/ i = Len(s) + 1
  BY <1>2
<1>4. Len(s) + 1 \in 1 .. Len(s) + 1 /\ 1 .. Len(s) \subseteq 1 .. Len(s) + 1
  BY <1>2
<1> QED BY <1>1, <1>2, <1>3, <1>4 DEF Range

LEMMA LogKeepsLines ==
    ASSUME HandsInv, LinesInv, Log, halted = "no" PROVE LinesInv'
<1> USE KernelAssumption
<1>1. PICK u \in Stream : LogPool!Create(u) /\ adding' = u
                          /\ text' = [text EXCEPT ![u] = Append(@, logged + 1)]
  BY DEF Log
<1>2. /\ adding = None /\ logged < Lines /\ logged' = logged + 1
      /\ UNCHANGED <<lqueue, lpc, taken, written, dropped, halted>>
  BY DEF Log
<1>3. u \notin Held
  <2>1. u = Head(IF lfree = <<>> THEN NewUnits(lmade, Block) ELSE lfree)
    BY <1>1 DEF LogPool!Create, LogPool!AllocNewBlob, NewUnits
  <2>2. PICK s, n : s = (IF lfree = <<>> THEN NewUnits(lmade, Block) ELSE lfree)
                    /\ n = (IF lfree = <<>> THEN lmade + Block ELSE lmade)
    OBVIOUS
  <2>3. Head(s) \in (1 .. n) \ lused
    BY <2>2, CreateSound DEF HandsInv
  <2> QED BY <2>1, <2>2, <2>3 DEF HandsInv
<1>4. u # None /\ logged \in Nat /\ text \in [Stream -> Seq(1 .. Lines)]
  BY DEF Stream, HandsInv, LogTypeOK
<1>5. Dealt' = Dealt /\ InWrite' = InWrite
  BY <1>1, <1>2, <1>4, LineTypes DEF Dealt, Waiting, InWrite
<1>6. ~OnItsWay(u)
  BY <1>2, <1>3, <1>4 DEF OnItsWay, Held
<1>7. Range(text'[u]) = Range(text[u]) \cup {logged + 1}
  <2>1. text[u] \in Seq(1 .. Lines) /\ logged + 1 \in 1 .. Lines
    BY <1>2, <1>4
  <2> QED BY <1>1, <1>4, <2>1, AppendRange
<1>8. \A v \in Stream : v # u => text'[v] = text[v]
  BY <1>1, <1>4
<1>9. Numbered'
  <2>1. Brings(adding, logged)'
    <3>1. Range(text[u]) \subseteq 1 .. Dealt
      BY <1>2, <1>6 DEF LinesInv, Numbered
    <3> QED BY <1>1, <1>2, <1>5, <1>7, <3>1 DEF Brings
  <2>2. lpc = "write" => Brings(taken, Dealt + 1)'
    <3>1. lpc = "write" => taken \in Stream /\ taken # u
      BY <1>6 DEF HandsInv, LogTypeOK, OnItsWay
    <3> QED BY <1>2, <1>5, <1>8, <3>1 DEF LinesInv, Numbered, Brings
  <2>3. ASSUME NEW k \in DOMAIN lqueue PROVE Brings(lqueue[k], Dealt + InWrite + k)'
    <3>1. lqueue[k] \in Stream /\ lqueue[k] # u
      BY <1>6 DEF HandsInv, LogTypeOK, OnItsWay
    <3> QED BY <1>2, <1>5, <1>8, <3>1 DEF LinesInv, Numbered, Brings
  <2>4. ASSUME NEW v \in Stream, ~OnItsWay(v)' PROVE Range(text'[v]) \subseteq 1 .. Dealt
    <3>1. v # u /\ v # None
      BY <1>1, <2>4 DEF OnItsWay, Stream
    <3>2. ~OnItsWay(v)
      BY <1>2, <2>4, <3>1 DEF OnItsWay
    <3> QED BY <1>2, <1>8, <3>1, <3>2 DEF LinesInv, Numbered
  <2>5. /\ (lpc = "write" => Brings(taken, Dealt + 1))'
        /\ (\A k \in DOMAIN lqueue : Brings(lqueue[k], Dealt + InWrite + k))'
    BY <1>2, <2>2, <2>3
  <2>6. (\A v \in Stream : ~OnItsWay(v) => Range(text[v]) \subseteq 1 .. Dealt)'
    BY <1>5, <2>4
  <2> QED BY <2>1, <2>5, <2>6 DEF Numbered
<1> QED BY <1>2, <1>5, <1>9 DEF LinesInv, NoneOvertakes

LEMMA QueueKeepsLines ==
    ASSUME HandsInv, LinesInv, LogAdd \/ LogRead, halted = "no"
    PROVE  LinesInv'
<1> USE KernelAssumption
<1>1. UNCHANGED <<text, written, logged, dropped, halted>>
  BY DEF LogAdd, LogRead, fate
<1>2. /\ lqueue \in Seq(Stream) /\ Len(lqueue) \in Nat /\ DOMAIN lqueue = 1 .. Len(lqueue)
      /\ adding \in Stream \cup {None}
  BY DEF HandsInv, LogTypeOK
<1>3. Dealt' = Dealt /\ Numbered'
  <2>1. CASE LogAdd
    <3>1. /\ adding # None /\ lqueue' = Append(lqueue, adding) /\ adding' = None
          /\ UNCHANGED <<lpc, taken>>
      BY <2>1 DEF LogAdd
    <3>2. /\ Len(lqueue') = Len(lqueue) + 1 /\ DOMAIN lqueue' = 1 .. Len(lqueue) + 1
          /\ \A k \in 1 .. Len(lqueue) : lqueue'[k] = lqueue[k]
          /\ lqueue'[Len(lqueue) + 1] = adding
      BY <1>2, <3>1
    <3>3. Dealt' = Dealt /\ InWrite' = InWrite
      BY <1>1, <3>1, <3>2, LineTypes DEF Dealt, Waiting, InWrite
    <3>4. ASSUME NEW k \in DOMAIN lqueue' PROVE Brings(lqueue[k], Dealt + InWrite + k)'
      <4>1. CASE k \in 1 .. Len(lqueue)
        BY <1>1, <1>2, <3>2, <3>3, <4>1 DEF LinesInv, Numbered, Brings
      <4>2. CASE k = Len(lqueue) + 1
        <5>1. logged = Dealt + InWrite + k
          BY <3>1, <4>2, LineTypes
        <5> QED BY <1>1, <3>1, <3>2, <3>3, <4>2, <5>1 DEF LinesInv, Numbered, Brings
      <4> QED BY <1>2, <3>2, <4>1, <4>2
    <3>5. ASSUME NEW u \in Stream, ~OnItsWay(u)' PROVE ~OnItsWay(u)
      <4>1. Len(lqueue) + 1 \in DOMAIN lqueue' /\ DOMAIN lqueue \subseteq DOMAIN lqueue'
        BY <1>2, <3>2
      <4> QED BY <1>2, <3>1, <3>2, <3>5, <4>1 DEF OnItsWay
    <3> QED BY <1>1, <3>1, <3>3, <3>4, <3>5 DEF LinesInv, Numbered, Brings
  <2>2. CASE LogRead
    <3>1. /\ lpc = "read" /\ lqueue # <<>> /\ lpc' = "write"
          /\ taken' = Head(lqueue) /\ lqueue' = Tail(lqueue) /\ adding' = adding
      BY <2>2 DEF LogRead
    <3>2. /\ Len(lqueue) >= 1 /\ Len(lqueue') = Len(lqueue) - 1 /\ taken' = lqueue[1]
          /\ DOMAIN lqueue' = 1 .. Len(lqueue) - 1
          /\ \A k \in 1 .. Len(lqueue) - 1 : lqueue'[k] = lqueue[k + 1]
      BY <1>2, <3>1
    <3>3. Dealt' = Dealt /\ InWrite = 0 /\ InWrite' = 1
      BY <1>1, <3>1, <3>2, LineTypes DEF Dealt, Waiting, InWrite
    <3>4. Brings(taken, Dealt + 1)'
      <4>1. 1 \in DOMAIN lqueue /\ Dealt + InWrite + 1 = Dealt + 1
        BY <1>2, <3>2, <3>3, LineTypes
      <4> QED BY <1>1, <3>2, <3>3, <4>1 DEF LinesInv, Numbered, Brings
    <3>5. ASSUME NEW k \in DOMAIN lqueue' PROVE Brings(lqueue[k], Dealt + InWrite + k)'
      <4>1. k \in Int /\ k + 1 \in DOMAIN lqueue /\ lqueue'[k] = lqueue[k + 1]
        BY <1>2, <3>2
      <4>2. PICK d : d = Dealt /\ d \in Int
        BY LineTypes
      <4>3. Dealt + InWrite + (k + 1) = Dealt' + InWrite' + k
        BY <3>3, <4>1, <4>2
      <4>4. Brings(lqueue[k + 1], Dealt + InWrite + (k + 1))
        BY <4>1 DEF LinesInv, Numbered
      <4> QED BY <1>1, <3>3, <4>1, <4>3, <4>4 DEF Brings
    <3>6. ASSUME NEW u \in Stream, ~OnItsWay(u)' PROVE ~OnItsWay(u)
      <4>1. ASSUME NEW k \in DOMAIN lqueue PROVE lqueue[k] # u
        <5>1. CASE k = 1
          BY <3>1, <3>2, <3>6, <5>1 DEF OnItsWay
        <5>2. CASE k # 1
          <6>1. k - 1 \in DOMAIN lqueue' /\ lqueue'[k - 1] = lqueue[k]
            BY <1>2, <3>2, <5>2
          <6> QED BY <3>6, <6>1 DEF OnItsWay
        <5> QED BY <5>1, <5>2
      <4> QED BY <3>1, <3>6, <4>1 DEF OnItsWay
    <3> QED BY <1>1, <3>1, <3>3, <3>4, <3>5, <3>6 DEF LinesInv, Numbered, Brings
  <2> QED BY <2>1, <2>2
<1> QED BY <1>1, <1>3 DEF LinesInv, NoneOvertakes

\* A turn that is over leaves its stream with old lines and makes the numbers
\* of the others no larger.
LEMMA TurnIsOver ==
    ASSUME HandsInv, Numbered, lpc = "write", lpc' # "write",
           UNCHANGED <<text, lqueue, adding, taken, logged>>
    PROVE  Dealt' = Dealt + 1 /\ Numbered' /\ Dealt \in Nat
<1>1. Dealt' = Dealt + 1 /\ Dealt \in Int /\ InWrite = 1 /\ InWrite' = 0
  BY LineTypes DEF Dealt, Waiting, InWrite
<1>2. Brings(taken, Dealt + 1) /\ taken \in Stream
  BY DEF Numbered, HandsInv, LogTypeOK
<1>3. Dealt \in Nat
  <2>1. text[taken] \in Seq(1 .. Lines) /\ Lines \in Nat
    BY <1>2, KernelAssumption DEF HandsInv, LogTypeOK
  <2>2. PICK k \in DOMAIN text[taken] : text[taken][k] = Dealt + 1
    BY <1>2 DEF Brings, Range
  <2>3. Dealt + 1 \in 1 .. Lines
    BY <2>1, <2>2
  <2> QED BY <1>1, <2>1, <2>3
<1>4. 1 .. Dealt + 1 = (1 .. Dealt) \cup {Dealt + 1}
  BY <1>3
<1>5. ASSUME NEW u, NEW n, Brings(u, n) PROVE Brings(u, n)'
  BY <1>1, <1>4, <1>5 DEF Brings
<1>6. ASSUME NEW k \in DOMAIN lqueue PROVE Brings(lqueue[k], Dealt + InWrite + k)'
  <2>1. Dealt + InWrite + k = Dealt' + InWrite' + k
    BY <1>1, LineTypes
  <2> QED BY <1>5, <2>1 DEF Numbered, Brings
<1>7. adding # None => Brings(adding, logged)'
  BY <1>5 DEF Numbered, Brings
<1>8. ASSUME NEW u \in Stream, ~OnItsWay(u)' PROVE Range(text'[u]) \subseteq 1 .. Dealt'
  <2>1. CASE u = taken
    BY <1>1, <1>2, <1>4, <2>1 DEF Brings
  <2>2. CASE u # taken
    <3>1. ~OnItsWay(u)
      BY <1>8, <2>2 DEF OnItsWay
    <3> QED BY <1>1, <1>4, <3>1 DEF Numbered
  <2> QED BY <2>1, <2>2
<1> QED BY <1>1, <1>3, <1>6, <1>7, <1>8 DEF Numbered

LEMMA WriteKeepsLines ==
    ASSUME HandsInv, LinesInv, LogWrite, halted = "no" PROVE LinesInv'
<1> USE KernelAssumption
<1>1. /\ lpc = "write" /\ lpc' = "recover"
      /\ UNCHANGED <<logPool, text, lqueue, adding, taken, logged>>
  BY DEF LogWrite
<1>2. \E f \in {file, Fresh, Closed} : FILEWrite(f) \/ Drop(f)
  BY DEF LogWrite, FILEOpen, FILEClose
<1>3. Numbered /\ NoneOvertakes /\ Range(written) \cup dropped = 1 .. Dealt
  BY DEF LinesInv
<1>4. Dealt' = Dealt + 1 /\ Numbered' /\ Dealt \in Nat
  BY <1>1, <1>3, TurnIsOver
<1>5. PICK t : t = text[taken]
  OBVIOUS
<1>6. /\ t \in Seq(1 .. Lines) /\ written \in Seq(1 .. Lines)
      /\ Dealt + 1 \in Range(t) /\ Range(t) \subseteq (1 .. Dealt) \cup {Dealt + 1}
  <2>1. taken \in Stream
    BY <1>1 DEF HandsInv, LogTypeOK
  <2> QED BY <1>1, <1>3, <1>5, <2>1 DEF HandsInv, LogTypeOK, Numbered, Brings
<1>7. 1 .. Dealt + 1 = (1 .. Dealt) \cup {Dealt + 1}
  BY <1>4
<1>8. CASE halted' # "no"
  BY <1>8 DEF LinesInv
<1>9. CASE written' = written \o t /\ dropped' = dropped
  <2>1. PICK m, n : m = Len(written) /\ n = Len(t)
    OBVIOUS
  <2>2. /\ m \in Nat /\ n \in Nat /\ DOMAIN written = 1 .. m /\ DOMAIN t = 1 .. n
        /\ DOMAIN written' = 1 .. m + n
        /\ \A k \in 1 .. m : written'[k] = written[k]
        /\ \A k \in 1 .. n : written'[m + k] = t[k]
    BY <1>6, <1>9, <2>1, ConcatProperties
  <2>3. ASSUME NEW k \in DOMAIN written'
        PROVE  k \in 1 .. m \/ (k \in m + 1 .. m + n /\ k - m \in 1 .. n)
    BY <2>2
  <2>4. \A k \in m + 1 .. m + n : k - m \in 1 .. n /\ written'[k] = t[k - m]
    <3> SUFFICES ASSUME NEW k \in m + 1 .. m + n
                 PROVE  k - m \in 1 .. n /\ written'[k] = t[k - m]
      OBVIOUS
    <3>1. k - m \in 1 .. n /\ m + (k - m) = k
      BY <2>2
    <3> QED BY <2>2, <3>1
  <2>5. Range(written') = Range(written) \cup Range(t)
    <3>1. \A k \in 1 .. m : k \in 1 .. m + n
      BY <2>2
    <3>2. \A k \in 1 .. n : m + k \in 1 .. m + n
      BY <2>2
    <3> QED BY <2>2, <2>3, <2>4, <3>1, <3>2 DEF Range
  <2>6. Range(written') \cup dropped' = 1 .. Dealt'
    BY <1>3, <1>4, <1>6, <1>7, <1>9, <2>5
  <2>7. NoneOvertakes'
    <3> SUFFICES ASSUME NEW k \in DOMAIN written', NEW l \in 1 .. written'[k]
                 PROVE  l \in dropped' \/ \E h \in 1 .. k : written'[h] = l
      BY DEF NoneOvertakes
    <3>1. CASE k \in 1 .. m
      <4>1. l \in dropped \/ \E h \in 1 .. k : written[h] = l
        BY <1>3, <2>2, <3>1 DEF NoneOvertakes
      <4>2. \A h \in 1 .. k : written'[h] = written[h]
        BY <2>2, <3>1
      <4> QED BY <1>9, <4>1, <4>2
    <3>2. CASE k \in m + 1 .. m + n
      <4>1. written'[k] \in (1 .. Dealt) \cup {Dealt + 1} /\ k \in 1 .. k
        <5>1. k \in 1 .. k
          BY <2>2, <3>2
        <5>2. t[k - m] \in Range(t) /\ written'[k] = t[k - m]
          BY <2>2, <2>4, <3>2 DEF Range
        <5> QED BY <1>6, <5>1, <5>2
      <4>2. l \in 1 .. Dealt \/ l = written'[k]
        BY <1>4, <4>1
      <4>3. ASSUME l \in 1 .. Dealt, l \notin dropped PROVE \E h \in 1 .. k : written'[h] = l
        <5>1. PICK h \in 1 .. m : written[h] = l
          BY <1>3, <2>2, <4>3 DEF Range
        <5> QED BY <2>2, <3>2, <5>1
      <4> QED BY <1>9, <4>1, <4>2, <4>3
    <3> QED BY <2>3, <3>1, <3>2
  <2> QED BY <1>4, <2>6, <2>7 DEF LinesInv
<1>10. CASE written' = written /\ dropped' = dropped \cup (Range(t) \ Range(written))
  <2>1. Range(written') \cup dropped' = 1 .. Dealt'
    BY <1>3, <1>4, <1>6, <1>7, <1>10
  <2>2. NoneOvertakes'
    BY <1>3, <1>10 DEF NoneOvertakes
  <2> QED BY <1>4, <2>1, <2>2 DEF LinesInv
<1> QED BY <1>2, <1>5, <1>8, <1>9, <1>10 DEF FILEWrite, Drop

\* Steps that leave the lines where they are.
LEMMA LinesStand ==
    ASSUME LinesInv, UNCHANGED <<text, lqueue, adding, fate>>,
           lpc' # "write", lpc # "write", halted' = "no" => halted = "no"
    PROVE  LinesInv'
BY DEF LinesInv, fate, Numbered, NoneOvertakes, Brings, OnItsWay, Dealt, Waiting, InWrite

(***************************************************************************)
(* The turn of every line comes, in the order of the calls of Log, and by  *)
(* its end the line is in a file or given up for want of one; none is in   *)
(* the files before an earlier one that is not given up, whatever the      *)
(* number of lines, slots and streams, and although recycled streams bring *)
(* old lines again.  That a stream in use is in one pair of hands is what  *)
(* keeps a line from being written before its turn (Logger.cpp 43-66,      *)
(* 97-99).                                                                 *)
(***************************************************************************)
LEMMA StepKeepsLines == IInv /\ LinesInv /\ [Next]_vars => LinesInv'
<1> SUFFICES ASSUME IInv, LinesInv, [Next]_vars PROVE LinesInv'
  OBVIOUS
<1> USE DEF IInv
<1>1. CASE Running /\ Log
  BY <1>1, LogKeepsLines DEF Running
<1>2. CASE Running /\ (LogAdd \/ LogRead)
  BY <1>2, QueueKeepsLines DEF Running
<1>3. CASE Running /\ LogWrite
  BY <1>3, WriteKeepsLines DEF Running
<1>4. CASE Running /\ (LogRun \/ LogRecover)
  <2>1. UNCHANGED <<text, lqueue, adding, fate, halted>> /\ lpc # "write" /\ lpc' # "write"
    BY <1>4 DEF LogRun, LogRecover
  <2> QED BY <2>1, LinesStand
<1>5. CASE Running /\ LogFileFails
  BY <1>5 DEF LogFileFails, LinesInv
<1>6. CASE \/ UNCHANGED <<text, lqueue, adding, taken, lpc, fate>> /\ halted' = halted
           \/ UNCHANGED fate /\ halted' # "no"
  BY <1>6 DEF LinesInv, fate, Numbered, NoneOvertakes, Brings, OnItsWay, Dealt, Waiting,
              InWrite
<1>7. CASE UNCHANGED <<text, lqueue, adding, taken, fate, halted>>
           /\ lpc = "none" /\ lpc' = "created"
  BY <1>7, LinesStand
<1>8. CASE Next
  <2>1. CASE LoggerThread \/ CallLog \/ LogReturns
    BY <1>1, <1>2, <1>3, <1>4, <1>5, <2>1 DEF LoggerThread, LoggerStep, CallLog, LogReturns,
                                             InCallback
  <2>2. CASE \/ StartWorkers \/ InitializeFails \/ LoadModule \/ ModulesLoaded
             \/ ModuleReturns \/ StartLogger
    <3>1. CASE StartLogger
      BY <1>7, <2>2, <3>1 DEF StartLogger, InitializeLeaves, Goes, MainInv
    <3>2. CASE ~StartLogger
      BY <1>6, <2>2, <3>2 DEF StartWorkers, InitializeFails, LoadModule, ModulesLoaded,
         ModuleReturns, InitializeLeaves
    <3> QED BY <3>1, <3>2
  <2>3. CASE \/ EnterLoop \/ LoopTest \/ ReadEvent \/ ProcessingReturns \/ TurnEnds \/ Shutdown
    BY <1>6, <2>3 DEF EnterLoop, LoopTest, ReadEvent, ProcessingReturns, TurnEnds, Shutdown,
       MainLeaves, logVars
  <2>4. CASE \/ DestoryManagers \/ Terminate \/ TerminateIdle \/ TerminateReturns
             \/ DeleteWorkers \/ DeleteLogger \/ MainReturns
    BY <1>6, <2>4 DEF DestoryManagers, Terminate, TerminateIdle, TerminateReturns,
       DeleteWorkers, DeleteLogger, MainReturns, DestoryLeaves, logVars
  <2>5. CASE \/ \E w \in Worker : WorkerThread(w) \/ WorkerHasEvent(w)
             \/ FreedStep
    BY <1>6, <2>5 DEF WorkerThread, WorkerRuns, WorkerStops, WorkerPosts, WorkerHasEvent,
       WorkerGoes, FreedStep, logVars
  <2>6. CASE FileAges
    BY <1>6, <2>6 DEF FileAges
  <2> QED BY <1>8, <2>1, <2>2, <2>3, <2>4, <2>5, <2>6 DEF Next, MainStep
<1> QED BY <1>6, <1>8 DEF vars, logVars

THEOREM LinesReachFilesInOrder == Spec => []LinesInOrder
<1>1. Init => LinesInv
  <2> SUFFICES ASSUME Init PROVE LinesInv
    OBVIOUS
  <2>1. /\ written = <<>> /\ logged = 0 /\ dropped = {} /\ lpc = "none"
        /\ adding = None /\ lqueue = <<>> /\ text = [u \in Stream |-> <<>>]
    BY DEF Init, LogInit
  <2>2. Dealt = 0 /\ 1 .. 0 = {} /\ Range(<<>>) = {}
    <3>1. Waiting = 0
      BY <2>1 DEF Waiting
    <3>2. Dealt = 0
      BY <2>1, <3>1 DEF Dealt
    <3>3. Range(<<>>) = {}
      BY DEF Range
    <3> QED BY <3>2, <3>3
  <2>3. Numbered
    BY <2>1, <2>2 DEF Numbered
  <2>4. NoneOvertakes
    BY <2>1 DEF NoneOvertakes
  <2> QED BY <2>1, <2>2, <2>3, <2>4 DEF LinesInv
<1>2. LinesInv => LinesInOrder
  BY DEF LinesInv, LinesInOrder, NoneOvertakes, Dealt
<1> QED BY <1>1, <1>2, StepKeepsLines, Invariant, PTL DEF Spec

(***************************************************************************)
(* The main thread waits in two places: in Log for a free slot of the      *)
(* queue, in Terminate for a worker.  Once the process is initialised it   *)
(* never waits for a thread that has gone or that was never asked: a Log   *)
(* in the loop has a logger thread that reads the queue, Terminate waits   *)
(* for a worker that is still there and has been told to stop, or is done. *)
(* A Log of a module that is being initialised has no such thread yet      *)
(* (Kernel.cpp 31-79, Logger.cpp 84-102, epollWorker.h 25-37).             *)
(***************************************************************************)
WaitsOnTheLiving ==
    Running =>
        /\ adding # None => \/ at = "modules"
                            \/ at = "turn" /\ lpc # "none" /\ "logger" \notin freed
        /\ at = "waiting" =>
              /\ "workers" \notin freed
              /\ \/ wpc[turn] = "done" /\ m_nStatus[turn] = "STOPED"
                 \/ wpc[turn] \in {"top", "post"} /\ m_nStatus[turn] = "STOPPING"

LivingInv ==
    /\ "logger" \in freed => at \in {"return", "exited"}
    /\ "workers" \in freed => at \in {"logger", "return", "exited"}
    /\ at \notin {"initialize", "load", "modules"} => lpc # "none"
    /\ adding # None => at \in {"modules", "turn"}
    /\ at = "waiting" => m_nStatus[turn] # "WORKING"

LEMMA LoggerKeepsLiving ==
    ASSUME IInv, LivingInv,
           CallLog \/ LogReturns \/ LoggerThread
              \/ (FileAges /\ UNCHANGED <<mainVars, workVars, ended, freed>>)
    PROVE  LivingInv'
<1>1. UNCHANGED <<at, turn, m_nStatus, freed>>
  BY DEF CallLog, LogReturns, LoggerThread, mainVars, workVars
<1>2. lpc' = "none" => lpc = "none"
  BY DEF CallLog, LogReturns, LoggerThread, LoggerStep, Log, LogAdd, LogRun, LogRead,
         LogWrite, LogFileFails, LogRecover, FileAges
<1>3. adding' # None => adding # None \/ at \in {"modules", "turn"}
  BY DEF CallLog, LogReturns, LoggerThread, LoggerStep, Log, LogAdd, LogRun, LogRead,
         LogWrite, LogFileFails, LogRecover, FileAges, InCallback
<1> QED BY <1>1, <1>2, <1>3 DEF LivingInv

LEMMA StepKeepsLiving == IInv /\ LivingInv /\ [Next]_vars => LivingInv'
<1> SUFFICES ASSUME IInv, LivingInv, [Next]_vars PROVE LivingInv'
  OBVIOUS
<1>1. CASE UNCHANGED vars
  BY <1>1 DEF vars, logVars, mainVars, workVars, LivingInv
<1>2. CASE \/ StartWorkers \/ InitializeFails \/ LoadModule \/ ModulesLoaded
           \/ ModuleReturns \/ StartLogger
  BY <1>2 DEF StartWorkers, InitializeFails, LoadModule, ModulesLoaded, ModuleReturns,
     StartLogger, InitializeLeaves, Goes, LivingInv
<1>3. CASE \/ EnterLoop \/ LoopTest \/ ReadEvent \/ ProcessingReturns \/ TurnEnds \/ Shutdown
  BY <1>3 DEF EnterLoop, LoopTest, ReadEvent, ProcessingReturns, TurnEnds, Shutdown,
     MainLeaves, logVars, workVars, Goes, LivingInv
<1>4. CASE \/ DestoryManagers \/ Terminate \/ TerminateIdle \/ TerminateReturns
           \/ DeleteWorkers \/ DeleteLogger \/ MainReturns
  <2>1. UNCHANGED <<lpc, adding>>
    BY <1>4 DEF DestoryManagers, Terminate, TerminateIdle, TerminateReturns,
       DeleteWorkers, DeleteLogger, MainReturns, DestoryLeaves, logVars
  <2>2. CASE Terminate
    <3>1. turn \in Worker /\ m_nStatus \in [Worker -> {"STOPED", "WORKING", "STOPPING"}]
      <4>1. turn \in 1 .. Workers + 1 /\ turn <= Workers
        BY <2>2 DEF Terminate, Goes, IInv, MainInv
      <4> QED BY <4>1, KernelAssumption DEF IInv, ThreadInv, Worker
    <3>2. turn' = turn /\ m_nStatus'[turn] = "STOPPING"
      BY <2>2, <3>1 DEF Terminate
    <3> QED BY <2>1, <2>2, <3>2 DEF Terminate, Goes, LivingInv
  <2>3. CASE ~Terminate
    BY <1>4, <2>1, <2>3 DEF DestoryManagers, TerminateIdle, TerminateReturns,
       DeleteWorkers, DeleteLogger, MainReturns, Goes, LivingInv
  <2> QED BY <2>2, <2>3
<1>5. CASE FreedStep \/ \E w \in Worker : WorkerThread(w) \/ WorkerHasEvent(w)
  <2>1. UNCHANGED <<lpc, adding, at, turn, freed>>
    BY <1>5 DEF WorkerThread, WorkerRuns, WorkerStops, WorkerPosts, WorkerHasEvent,
       WorkerGoes, FreedStep, logVars, mainVars
  <2>2. ASSUME at = "waiting", m_nStatus[turn] # "WORKING" PROVE m_nStatus'[turn] # "WORKING"
    <3>1. /\ turn \in Worker /\ wpc[turn] # "created"
          /\ m_nStatus \in [Worker -> {"STOPED", "WORKING", "STOPPING"}]
      BY <2>2 DEF IInv, MainInv, ThreadInv
    <3>2. CASE m_nStatus' = m_nStatus
      BY <2>2, <3>2
    <3>3. ASSUME NEW w \in Worker, WorkerRuns(w) PROVE m_nStatus'[turn] # "WORKING"
      BY <2>2, <3>1, <3>3 DEF WorkerRuns, WorkerGoes
    <3>4. ASSUME NEW w \in Worker, WorkerStops(w) PROVE m_nStatus'[turn] # "WORKING"
      BY <2>2, <3>1, <3>4 DEF WorkerStops, WorkerGoes
    <3> QED BY <1>5, <3>2, <3>3, <3>4 DEF WorkerThread, WorkerPosts, WorkerHasEvent,
            FreedStep, workVars
  <2> QED BY <2>1, <2>2 DEF LivingInv
<1> QED BY <1>1, <1>2, <1>3, <1>4, <1>5, LoggerKeepsLiving DEF Next, MainStep

THEOREM WaitsAreAnswered == Spec => []WaitsOnTheLiving
<1>1. Init => LivingInv
  BY DEF Init, LogInit, LivingInv
<1>2. IInv /\ LivingInv => WaitsOnTheLiving
  BY DEF IInv, MainInv, ThreadInv, LivingInv, WaitsOnTheLiving
<1> QED BY <1>1, <1>2, StepKeepsLiving, Invariant, PTL DEF Spec
==============================================================================
