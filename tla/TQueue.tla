-------------------------------- MODULE TQueue --------------------------------
(***************************************************************************)
(* tlib::TQueue (Public/TQueue.h): the ring that hands io events from a    *)
(* net worker thread to the main thread, and log lines from the main       *)
(* thread to the logger thread.  A flag per slot, m_sign, is the only      *)
(* synchronisation between the two sides when the template parameter lock  *)
(* is false, which is how every queue of the kernel is instantiated; with  *)
(* lock true each side is serialised by a mutex of its own.                *)
(*                                                                         *)
(* One action per access to memory that the other side can observe.  The   *)
(* build is unoptimised x86, so each thread's stores become visible in     *)
(* program order.                                                          *)
(***************************************************************************)
EXTENDS Integers, Sequences, FiniteSets

CONSTANTS Producers, Consumers, Items, NoItem,
          size,       \* template parameter: number of slots
          lock,       \* template parameter: a mutex per side or none
          NoThread,   \* the holder of a free mutex
          CountMod    \* m_nRCount and m_nWCount are u32: 2^32

ASSUME SizeAssumption == size \in Nat \ {0}

\* Without the mutexes the class supports one writer and one reader.
ASSUME LockAssumption ==
    /\ lock \in BOOLEAN
    /\ ~lock => /\ \A p, q \in Producers : p = q
                /\ \A c, d \in Consumers : c = d

ASSUME NoneAssumption == /\ NoItem \notin Items
                         /\ NoThread \notin Producers \cup Consumers

ASSUME CountAssumption == CountMod \in Nat /\ CountMod > size

NOT_EXISTS_DATA == 0
EXISTS_DATA == 1

VARIABLES queue, sign,       \* the slots and their flags
          RIndex, WIndex,    \* next slot of each side; size just before a wrap
          RCount, WCount,    \* items ever read and added, modulo CountMod
          Wlock, Rlock,      \* holders of m_pWlock and m_pRlock
          wpc, call, src, wres,   \* per producer: step, operation, argument, answer
          rpc, value, rres,       \* per consumer: step, out-parameter, answer
          seenR                   \* m_nRCount as IsEmpty has loaded it

ring == <<queue, sign, RIndex, WIndex, RCount, WCount>>
writer == <<wpc, call, src, wres, Wlock>>
reader == <<rpc, value, rres, seenR, Rlock>>
vars == <<ring, writer, reader>>

Slots == 0 .. size - 1

Init == /\ queue = [i \in Slots |-> NoItem]
        /\ sign = [i \in Slots |-> NOT_EXISTS_DATA]
        /\ RIndex = 0 /\ WIndex = 0
        /\ RCount = 0 /\ WCount = 0
        /\ Wlock = NoThread /\ Rlock = NoThread
        /\ wpc = [p \in Producers |-> "idle"]
        /\ call = [p \in Producers |-> "none"]
        /\ src = [p \in Producers |-> NoItem]
        /\ wres = [p \in Producers |-> "none"]
        /\ rpc = [c \in Consumers |-> "idle"]
        /\ value = [c \in Consumers |-> NoItem]
        /\ rres = [c \in Consumers |-> "none"]
        /\ seenR = [c \in Consumers |-> 0]

\* Mutant: the counters are wider than the u32 they are declared with.
IncrementUnbounded(n) == n + 1

Increment(n) == (n + 1) % CountMod

------------------------------------------------------------------------------
(* Add and TryAdd *)

WGoto(p, from, to) == wpc[p] = from /\ wpc' = [wpc EXCEPT ![p] = to]

CallAdd(p) ==
    /\ WGoto(p, "idle", "lock")
    /\ \E op \in {"Add", "TryAdd"}, v \in Items :
          /\ call' = [call EXCEPT ![p] = op]
          /\ src' = [src EXCEPT ![p] = v]
    /\ wres' = [wres EXCEPT ![p] = "pending"]
    /\ UNCHANGED <<ring, reader, Wlock>>

AddLock(p) ==
    /\ WGoto(p, "lock", "check")
    /\ IF lock THEN Wlock = NoThread /\ Wlock' = p ELSE UNCHANGED Wlock
    /\ UNCHANGED <<ring, reader, call, src, wres>>

\* Mutant: the slot's flag is not tested.
AddFindsRoomUntested(p) ==
    /\ WGoto(p, "check", "store")
    /\ UNCHANGED <<ring, reader, call, src, wres, Wlock>>

\* Mutant: the flag is raised before the item is stored.
AddFindsRoomRaisesFlag(p) ==
    /\ WGoto(p, "check", "store")
    /\ sign[WIndex] = NOT_EXISTS_DATA
    /\ sign' = [sign EXCEPT ![WIndex] = EXISTS_DATA]
    /\ UNCHANGED <<queue, RIndex, WIndex, RCount, WCount,
                   reader, call, src, wres, Wlock>>

\* The loop on m_sign[m_nWIndex]: Add stays in it (CSLEEP) while the slot is
\* taken, TryAdd gives up.
AddFindsRoom(p) ==
    /\ WGoto(p, "check", "store")
    /\ sign[WIndex] = NOT_EXISTS_DATA
    /\ UNCHANGED <<ring, reader, call, src, wres, Wlock>>

ReleaseW == Wlock' = NoThread

TryAddFails(p) ==
    /\ WGoto(p, "check", "idle")
    /\ call[p] = "TryAdd"
    /\ sign[WIndex] # NOT_EXISTS_DATA
    /\ wres' = [wres EXCEPT ![p] = "false"]
    /\ ReleaseW
    /\ UNCHANGED <<ring, reader, call, src>>

AddStore(p) ==
    /\ WGoto(p, "store", "publish")
    /\ queue' = [queue EXCEPT ![WIndex] = src[p]]
    /\ UNCHANGED <<sign, RIndex, WIndex, RCount, WCount,
                   reader, call, src, wres, Wlock>>

AddPublish(p) ==
    /\ WGoto(p, "publish", "count")
    /\ sign' = [sign EXCEPT ![WIndex] = EXISTS_DATA]
    /\ WIndex' = WIndex + 1
    /\ UNCHANGED <<queue, RIndex, RCount, WCount,
                   reader, call, src, wres, Wlock>>

\* Mutant: TryAdd forgets m_nWCount.
AddCountOnlyInAdd(p) ==
    /\ WGoto(p, "count", "wrap")
    /\ WCount' = IF call[p] = "Add" THEN Increment(WCount) ELSE WCount
    /\ UNCHANGED <<queue, sign, RIndex, WIndex, RCount,
                   reader, call, src, wres, Wlock>>

AddCount(p) ==
    /\ WGoto(p, "count", "wrap")
    /\ WCount' = Increment(WCount)
    /\ UNCHANGED <<queue, sign, RIndex, WIndex, RCount,
                   reader, call, src, wres, Wlock>>

AddReturn(p) ==
    /\ WGoto(p, "wrap", "idle")
    /\ WIndex' = IF WIndex >= size THEN 0 ELSE WIndex
    /\ wres' = [wres EXCEPT ![p] = "true"]
    /\ ReleaseW
    /\ UNCHANGED <<queue, sign, RIndex, RCount, WCount, reader, call, src>>

AddStep(p) == \/ AddLock(p) \/ AddFindsRoom(p) \/ TryAddFails(p) \/ AddStore(p)
              \/ AddPublish(p) \/ AddCount(p) \/ AddReturn(p)

------------------------------------------------------------------------------
(* Read and IsEmpty *)

RGoto(c, from, to) == rpc[c] = from /\ rpc' = [rpc EXCEPT ![c] = to]

CallRead(c) ==
    /\ RGoto(c, "idle", "lock")
    /\ value' = [value EXCEPT ![c] = NoItem]
    /\ rres' = [rres EXCEPT ![c] = "pending"]
    /\ UNCHANGED <<ring, writer, seenR, Rlock>>

ReadLock(c) ==
    /\ RGoto(c, "lock", "check")
    /\ IF lock THEN Rlock = NoThread /\ Rlock' = c ELSE UNCHANGED Rlock
    /\ UNCHANGED <<ring, writer, value, rres, seenR>>

ReleaseR == Rlock' = NoThread

ReadFindsNothing(c) ==
    /\ RGoto(c, "check", "idle")
    /\ sign[RIndex] # EXISTS_DATA
    /\ rres' = [rres EXCEPT ![c] = "false"]
    /\ ReleaseR
    /\ UNCHANGED <<ring, writer, value, seenR>>

ReadFindsItem(c) ==
    /\ RGoto(c, "check", "copy")
    /\ sign[RIndex] = EXISTS_DATA
    /\ UNCHANGED <<ring, writer, value, rres, seenR, Rlock>>

ReadCopy(c) ==
    /\ RGoto(c, "copy", "clear")
    /\ value' = [value EXCEPT ![c] = queue[RIndex]]
    /\ UNCHANGED <<ring, writer, rres, seenR, Rlock>>

\* Mutant: the flag is left raised.
ReadClearKeepsFlag(c) ==
    /\ RGoto(c, "clear", "count")
    /\ RIndex' = RIndex + 1
    /\ UNCHANGED <<queue, sign, WIndex, RCount, WCount,
                   writer, value, rres, seenR, Rlock>>

ReadClear(c) ==
    /\ RGoto(c, "clear", "count")
    /\ sign' = [sign EXCEPT ![RIndex] = NOT_EXISTS_DATA]
    /\ RIndex' = RIndex + 1
    /\ UNCHANGED <<queue, WIndex, RCount, WCount,
                   writer, value, rres, seenR, Rlock>>

ReadCount(c) ==
    /\ RGoto(c, "count", "wrap")
    /\ RCount' = Increment(RCount)
    /\ UNCHANGED <<queue, sign, RIndex, WIndex, WCount,
                   writer, value, rres, seenR, Rlock>>

ReadReturn(c) ==
    /\ RGoto(c, "wrap", "idle")
    /\ RIndex' = IF RIndex >= size THEN 0 ELSE RIndex
    /\ rres' = [rres EXCEPT ![c] = "true"]
    /\ ReleaseR
    /\ UNCHANGED <<queue, sign, WIndex, RCount, WCount, writer, value, seenR>>

\* IsEmpty compares two counters without a lock: Logger::Run calls it after a
\* Read that found nothing, and stops on a positive answer once told to.
IsEmptyLoadR(c) ==
    /\ RGoto(c, "idle", "compare")
    /\ rres[c] = "false"
    /\ seenR' = [seenR EXCEPT ![c] = RCount]
    /\ UNCHANGED <<ring, writer, value, rres, Rlock>>

IsEmptyCompare(c) ==
    /\ RGoto(c, "compare", "idle")
    /\ rres' = [rres EXCEPT ![c] = IF seenR[c] = WCount THEN "drained" ELSE "busy"]
    /\ seenR' = [seenR EXCEPT ![c] = 0]
    /\ UNCHANGED <<ring, writer, value, Rlock>>

ReadStep(c) == \/ ReadLock(c) \/ ReadFindsNothing(c) \/ ReadFindsItem(c)
               \/ ReadCopy(c) \/ ReadClear(c) \/ ReadCount(c) \/ ReadReturn(c)
               \/ IsEmptyCompare(c)

------------------------------------------------------------------------------
Next == \/ \E p \in Producers : CallAdd(p) \/ AddStep(p)
        \/ \E c \in Consumers : CallRead(c) \/ ReadStep(c) \/ IsEmptyLoadR(c)

\* Threads run; a mutex is not taken away for ever; the reading thread polls in
\* its loop (Kernel::Loop, Logger::Run).  No producer has to call Add.
Fairness ==
    /\ \A p \in Producers : WF_vars(AddStep(p)) /\ SF_vars(AddLock(p))
    /\ \A c \in Consumers : /\ WF_vars(ReadStep(c) \/ CallRead(c))
                            /\ SF_vars(CallRead(c)) /\ SF_vars(ReadLock(c))

Spec == Init /\ [][Next]_vars
FairSpec == Spec /\ Fairness

------------------------------------------------------------------------------
(* Properties *)

TypeOK ==
    /\ queue \in [Slots -> Items \cup {NoItem}]
    /\ sign \in [Slots -> {NOT_EXISTS_DATA, EXISTS_DATA}]
    /\ RIndex \in 0 .. size /\ WIndex \in 0 .. size
    /\ RCount \in 0 .. CountMod - 1 /\ WCount \in 0 .. CountMod - 1
    /\ Wlock \in Producers \cup {NoThread}
    /\ Rlock \in Consumers \cup {NoThread}
    /\ wpc \in [Producers -> {"idle", "lock", "check", "store", "publish",
                              "count", "wrap"}]
    /\ call \in [Producers -> {"none", "Add", "TryAdd"}]
    /\ src \in [Producers -> Items \cup {NoItem}]
    /\ wres \in [Producers -> {"none", "pending", "true", "false"}]
    /\ rpc \in [Consumers -> {"idle", "lock", "check", "copy", "clear",
                              "count", "wrap", "compare"}]
    /\ value \in [Consumers -> Items \cup {NoItem}]
    /\ rres \in [Consumers -> {"none", "pending", "true", "false",
                               "drained", "busy"}]
    /\ seenR \in [Consumers -> 0 .. CountMod - 1]

InAdd(p) == wpc[p] \notin {"idle", "lock"}
InRead(c) == rpc[c] \notin {"idle", "lock", "compare"}

\* The slots of a writer between its test of m_sign and its publication, and
\* of a reader between its test and its release: never the same slot, so
\* m_queue[i] is never read while it is written (Add lines 53-58, Read 103-109).
SlotOwnership ==
    \A p \in Producers, c \in Consumers :
        wpc[p] \in {"store", "publish"} /\ rpc[c] \in {"copy", "clear"}
            => WIndex # RIndex

\* Where each side will work next once a pending wrap is done.
Wrapped(i) == IF i = size THEN 0 ELSE i
HeadSlot == Wrapped(RIndex)
TailSlot == Wrapped(WIndex)

\* Distance of slot i from the head of the ring, and the slot at a distance.
Distance(i) == IF i >= HeadSlot THEN i - HeadSlot ELSE i - HeadSlot + size
SlotAt(d) == IF HeadSlot + d < size THEN HeadSlot + d ELSE HeadSlot + d - size

Length == IF sign[HeadSlot] = NOT_EXISTS_DATA THEN 0
          ELSE IF TailSlot > HeadSlot THEN TailSlot - HeadSlot ELSE TailSlot - HeadSlot + size

\* The occupied slots are the ones from the head to the tail, cyclically: no
\* hole and no stale flag is left however the two sides interleave.
Contiguous == \A i \in Slots : sign[i] = EXISTS_DATA <=> Distance(i) < Length

Fifo == [k \in 1 .. Length |-> queue[SlotAt(k - 1)]]

\* TQueue implements a bounded FIFO in which every call is one step: Add and
\* TryAdd take effect when m_sign is set (line 58, 84), Read when it is reset
\* (line 109); TryAdd refuses only a full queue and Read finds nothing only in
\* an empty one; nothing is lost, duplicated or reordered.
Abstract == INSTANCE BoundedFifo WITH
    fifo <- Fifo,
    wres <- [p \in Producers |->
                IF wpc[p] \in {"count", "wrap"} THEN "true" ELSE wres[p]],
    value <- [c \in Consumers |->
                IF rpc[c] = "clear" THEN NoItem ELSE value[c]],
    rres <- [c \in Consumers |->
                IF rpc[c] \in {"count", "wrap"} THEN "true"
                ELSE IF rres[c] \in {"drained", "busy"} THEN "false"
                ELSE rres[c]],
    Capacity <- size

ImplementsFifo == Abstract!Spec

\* When IsEmpty tells the stopping reader that the queue is drained, the only
\* items still inside belong to calls of Add that have not returned
\* (IsEmpty, lines 125-127, against the order of lines 58 and 59).
DrainedMeansReturned ==
    [][\A c \in Consumers :
          rres[c] # "drained" /\ rres'[c] = "drained"
              => Length <= Cardinality({p \in Producers : wpc[p] = "count"})]_vars

\* A call of Add ends: room appears because the reader polls (lines 53-55).
AddReturns == \A p \in Producers : wpc[p] # "idle" ~> wpc[p] = "idle"

\* What was handed over is taken, slot by slot.
EveryItemIsTaken ==
    \A i \in Slots : sign[i] = EXISTS_DATA ~> sign[i] = NOT_EXISTS_DATA
=============================================================================
