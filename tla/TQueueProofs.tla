----------------------------- MODULE TQueueProofs -----------------------------
(***************************************************************************)
(* Proofs about TQueue for every ring size, every set of items and, with   *)
(* the mutexes, every number of threads on each side.                      *)
(***************************************************************************)
EXTENDS TQueue, SequenceTheorems, FiniteSetTheorems, TLAPS

(***************************************************************************)
(* Type correctness is inductive by itself once the index of a side that   *)
(* is about to use it is known to be inside the ring, so the two are one   *)
(* invariant with the mutual exclusion that keeps the index still.         *)
(***************************************************************************)
AtMostOnePerSide ==
    /\ \A p, q \in Producers : InAdd(p) /\ InAdd(q) => p = q
    /\ \A c, d \in Consumers : InRead(c) /\ InRead(d) => c = d
    /\ lock => /\ \A p \in Producers : InAdd(p) => Wlock = p
               /\ \A c \in Consumers : InRead(c) => Rlock = c

IndexInRing ==
    /\ (\A p \in Producers : wpc[p] \notin {"count", "wrap"}) => WIndex < size
    /\ (\A c \in Consumers : rpc[c] \notin {"count", "wrap"}) => RIndex < size

\* The flag a side has tested stays as tested until that side changes it.
TestedFlagHolds ==
    /\ \A p \in Producers :
          wpc[p] \in {"store", "publish"} => sign[WIndex] = NOT_EXISTS_DATA
    /\ \A c \in Consumers :
          rpc[c] \in {"copy", "clear"} => sign[RIndex] = EXISTS_DATA

OwnershipInv == TypeOK /\ AtMostOnePerSide /\ IndexInRing /\ TestedFlagHolds

LEMMA OwnershipInit == Init => OwnershipInv
<1> USE SizeAssumption, LockAssumption, NoneAssumption, CountAssumption
<1> QED BY DEF Init, OwnershipInv, TypeOK, AtMostOnePerSide, IndexInRing,
               TestedFlagHolds, InAdd, InRead, Slots, NOT_EXISTS_DATA, EXISTS_DATA

LEMMA IncrementInRange ==
    ASSUME NEW n \in 0 .. CountMod - 1
    PROVE  Increment(n) \in 0 .. CountMod - 1
BY CountAssumption, SizeAssumption DEF Increment

\* A side that has not yet moved its index points inside the ring.
LEMMA WriterInRing ==
    ASSUME OwnershipInv,
           NEW p \in Producers, wpc[p] \in {"check", "store", "publish"}
    PROVE  WIndex \in Slots /\ WIndex < size
<1>1. \A q \in Producers : wpc[q] \notin {"count", "wrap"}
  BY DEF OwnershipInv, AtMostOnePerSide, InAdd
<1>2. WIndex < size
  BY <1>1 DEF OwnershipInv, IndexInRing
<1> QED BY <1>2, SizeAssumption DEF OwnershipInv, TypeOK, Slots

LEMMA ReaderInRing ==
    ASSUME OwnershipInv,
           NEW c \in Consumers, rpc[c] \in {"check", "copy", "clear"}
    PROVE  RIndex \in Slots /\ RIndex < size
<1>1. \A d \in Consumers : rpc[d] \notin {"count", "wrap"}
  BY DEF OwnershipInv, AtMostOnePerSide, InRead
<1>2. RIndex < size
  BY <1>1 DEF OwnershipInv, IndexInRing
<1> QED BY <1>2, SizeAssumption DEF OwnershipInv, TypeOK, Slots

LEMMA OwnershipStep == OwnershipInv /\ [Next]_vars => OwnershipInv'
<1> SUFFICES ASSUME OwnershipInv, [Next]_vars PROVE OwnershipInv'
  OBVIOUS
<1> USE DEF OwnershipInv, ring, writer, reader
<1>1. ASSUME NEW p \in Producers, CallAdd(p) PROVE OwnershipInv'
  <2>1. TypeOK'
    BY <1>1 DEF CallAdd, WGoto, TypeOK
  <2>2. AtMostOnePerSide'
    BY <1>1 DEF CallAdd, WGoto, TypeOK, AtMostOnePerSide, InAdd, InRead
  <2>3. IndexInRing'
    BY <1>1, SizeAssumption DEF CallAdd, WGoto, TypeOK, IndexInRing
  <2>4. TestedFlagHolds'
    BY <1>1, SizeAssumption
    DEF CallAdd, WGoto, TypeOK, TestedFlagHolds, IndexInRing, Slots,
        AtMostOnePerSide, InAdd, NOT_EXISTS_DATA, EXISTS_DATA
  <2> QED BY <2>1, <2>2, <2>3, <2>4
<1>2. ASSUME NEW p \in Producers, AddLock(p) PROVE OwnershipInv'
  <2>1. TypeOK'
    BY <1>2 DEF AddLock, WGoto, TypeOK
  <2>2. AtMostOnePerSide'
    BY <1>2, LockAssumption, NoneAssumption
      DEF AddLock, WGoto, TypeOK, AtMostOnePerSide, InAdd, InRead
  <2>3. IndexInRing'
    BY <1>2, SizeAssumption DEF AddLock, WGoto, TypeOK, IndexInRing
  <2>4. TestedFlagHolds'
    BY <1>2, SizeAssumption
    DEF AddLock, WGoto, TypeOK, TestedFlagHolds, IndexInRing, Slots,
        AtMostOnePerSide, InAdd, NOT_EXISTS_DATA, EXISTS_DATA
  <2> QED BY <2>1, <2>2, <2>3, <2>4
<1>3. ASSUME NEW p \in Producers, AddFindsRoom(p) PROVE OwnershipInv'
  <2>1. TypeOK'
    BY <1>3 DEF AddFindsRoom, WGoto, TypeOK
  <2>2. AtMostOnePerSide'
    BY <1>3 DEF AddFindsRoom, WGoto, TypeOK, AtMostOnePerSide, InAdd, InRead
  <2>3. IndexInRing'
    BY <1>3, SizeAssumption DEF AddFindsRoom, WGoto, TypeOK, IndexInRing
  <2>4. TestedFlagHolds'
    BY <1>3, SizeAssumption
    DEF AddFindsRoom, WGoto, TypeOK, TestedFlagHolds, IndexInRing, Slots,
        AtMostOnePerSide, InAdd, NOT_EXISTS_DATA, EXISTS_DATA
  <2> QED BY <2>1, <2>2, <2>3, <2>4
<1>4. ASSUME NEW p \in Producers, TryAddFails(p) PROVE OwnershipInv'
  <2>1. TypeOK'
    BY <1>4 DEF TryAddFails, WGoto, ReleaseW, TypeOK
  <2>2. AtMostOnePerSide'
    BY <1>4 DEF TryAddFails, WGoto, ReleaseW, TypeOK, AtMostOnePerSide, InAdd, InRead
  <2>3. IndexInRing'
    BY <1>4, SizeAssumption DEF TryAddFails, WGoto, ReleaseW, TypeOK, IndexInRing
  <2>4. TestedFlagHolds'
    BY <1>4, SizeAssumption
    DEF TryAddFails, WGoto, ReleaseW, TypeOK, TestedFlagHolds, IndexInRing, Slots,
        AtMostOnePerSide, InAdd, NOT_EXISTS_DATA, EXISTS_DATA
  <2> QED BY <2>1, <2>2, <2>3, <2>4
<1>5. ASSUME NEW p \in Producers, AddStore(p) PROVE OwnershipInv'
  <2>1. TypeOK'
    BY <1>5 DEF AddStore, WGoto, TypeOK, Slots, NOT_EXISTS_DATA, EXISTS_DATA
  <2>2. AtMostOnePerSide'
    BY <1>5 DEF AddStore, WGoto, TypeOK, AtMostOnePerSide, InAdd, InRead
  <2>3. IndexInRing'
    BY <1>5, SizeAssumption DEF AddStore, WGoto, TypeOK, IndexInRing
  <2>4. TestedFlagHolds'
    BY <1>5, SizeAssumption
    DEF AddStore, WGoto, TypeOK, TestedFlagHolds, IndexInRing, Slots,
        AtMostOnePerSide, InAdd, NOT_EXISTS_DATA, EXISTS_DATA
  <2> QED BY <2>1, <2>2, <2>3, <2>4
<1>6. ASSUME NEW p \in Producers, AddPublish(p) PROVE OwnershipInv'
  <2>5. WIndex \in Slots /\ WIndex < size
    BY <1>6, WriterInRing DEF AddPublish, WGoto
  <2>6. \A q \in Producers : wpc'[q] \notin {"store", "publish"}
    BY <1>6 DEF AddPublish, WGoto, TypeOK, AtMostOnePerSide, InAdd
  <2>1. TypeOK'
    BY <1>6, <2>5, <2>6, SizeAssumption, CountAssumption
      DEF AddPublish, WGoto, TypeOK, Slots, NOT_EXISTS_DATA, EXISTS_DATA
  <2>2. AtMostOnePerSide'
    BY <1>6 DEF AddPublish, WGoto, TypeOK, AtMostOnePerSide, InAdd, InRead
  <2>3. IndexInRing'
    BY <1>6, SizeAssumption DEF AddPublish, WGoto, TypeOK, IndexInRing
  <2>4. TestedFlagHolds'
    BY <1>6, <2>5, <2>6, SizeAssumption
    DEF AddPublish, WGoto, TypeOK, TestedFlagHolds, IndexInRing, Slots,
        NOT_EXISTS_DATA, EXISTS_DATA
  <2> QED BY <2>1, <2>2, <2>3, <2>4
<1>7. ASSUME NEW p \in Producers, AddCount(p) PROVE OwnershipInv'
  <2>1. TypeOK'
    BY <1>7, IncrementInRange DEF AddCount, WGoto, TypeOK
  <2>2. AtMostOnePerSide'
    BY <1>7 DEF AddCount, WGoto, TypeOK, AtMostOnePerSide, InAdd, InRead
  <2>3. IndexInRing'
    BY <1>7, SizeAssumption DEF AddCount, WGoto, TypeOK, IndexInRing
  <2>4. TestedFlagHolds'
    BY <1>7, SizeAssumption
    DEF AddCount, WGoto, TypeOK, TestedFlagHolds, IndexInRing, Slots,
        AtMostOnePerSide, InAdd, NOT_EXISTS_DATA, EXISTS_DATA
  <2> QED BY <2>1, <2>2, <2>3, <2>4
<1>8. ASSUME NEW p \in Producers, AddReturn(p) PROVE OwnershipInv'
  <2>1. TypeOK'
    BY <1>8, SizeAssumption, CountAssumption DEF AddReturn, WGoto, ReleaseW, TypeOK
  <2>2. AtMostOnePerSide'
    BY <1>8 DEF AddReturn, WGoto, ReleaseW, TypeOK, AtMostOnePerSide, InAdd, InRead
  <2>3. IndexInRing'
    BY <1>8, SizeAssumption
      DEF AddReturn, WGoto, ReleaseW, TypeOK, IndexInRing, AtMostOnePerSide,
          InAdd
  <2>4. TestedFlagHolds'
    BY <1>8, SizeAssumption
    DEF AddReturn, WGoto, ReleaseW, TypeOK, TestedFlagHolds, IndexInRing, Slots,
        AtMostOnePerSide, InAdd, NOT_EXISTS_DATA, EXISTS_DATA
  <2> QED BY <2>1, <2>2, <2>3, <2>4
<1>9. ASSUME NEW c \in Consumers, CallRead(c) PROVE OwnershipInv'
  <2>1. TypeOK'
    BY <1>9 DEF CallRead, RGoto, TypeOK
  <2>2. AtMostOnePerSide'
    BY <1>9 DEF CallRead, RGoto, TypeOK, AtMostOnePerSide, InAdd, InRead
  <2>3. IndexInRing'
    BY <1>9, SizeAssumption DEF CallRead, RGoto, TypeOK, IndexInRing
  <2>4. TestedFlagHolds'
    BY <1>9, SizeAssumption
    DEF CallRead, RGoto, TypeOK, TestedFlagHolds, IndexInRing, Slots,
        AtMostOnePerSide, InRead, NOT_EXISTS_DATA, EXISTS_DATA
  <2> QED BY <2>1, <2>2, <2>3, <2>4
<1>10. ASSUME NEW c \in Consumers, ReadLock(c) PROVE OwnershipInv'
  <2>1. TypeOK'
    BY <1>10 DEF ReadLock, RGoto, TypeOK
  <2>2. AtMostOnePerSide'
    BY <1>10, LockAssumption, NoneAssumption
      DEF ReadLock, RGoto, TypeOK, AtMostOnePerSide, InAdd, InRead
  <2>3. IndexInRing'
    BY <1>10, SizeAssumption DEF ReadLock, RGoto, TypeOK, IndexInRing
  <2>4. TestedFlagHolds'
    BY <1>10, SizeAssumption
    DEF ReadLock, RGoto, TypeOK, TestedFlagHolds, IndexInRing, Slots,
        AtMostOnePerSide, InRead, NOT_EXISTS_DATA, EXISTS_DATA
  <2> QED BY <2>1, <2>2, <2>3, <2>4
<1>11. ASSUME NEW c \in Consumers, ReadFindsNothing(c) PROVE OwnershipInv'
  <2>1. TypeOK'
    BY <1>11 DEF ReadFindsNothing, RGoto, ReleaseR, TypeOK
  <2>2. AtMostOnePerSide'
    BY <1>11 DEF ReadFindsNothing, RGoto, ReleaseR, TypeOK, AtMostOnePerSide, InAdd, InRead
  <2>3. IndexInRing'
    BY <1>11, SizeAssumption DEF ReadFindsNothing, RGoto, ReleaseR, TypeOK, IndexInRing
  <2>4. TestedFlagHolds'
    BY <1>11, SizeAssumption
    DEF ReadFindsNothing, RGoto, ReleaseR, TypeOK, TestedFlagHolds, IndexInRing,
        Slots, AtMostOnePerSide, InRead, NOT_EXISTS_DATA, EXISTS_DATA
  <2> QED BY <2>1, <2>2, <2>3, <2>4
<1>12. ASSUME NEW c \in Consumers, ReadFindsItem(c) PROVE OwnershipInv'
  <2>1. TypeOK'
    BY <1>12 DEF ReadFindsItem, RGoto, TypeOK
  <2>2. AtMostOnePerSide'
    BY <1>12 DEF ReadFindsItem, RGoto, TypeOK, AtMostOnePerSide, InAdd, InRead
  <2>3. IndexInRing'
    BY <1>12, SizeAssumption DEF ReadFindsItem, RGoto, TypeOK, IndexInRing
  <2>4. TestedFlagHolds'
    BY <1>12, SizeAssumption
    DEF ReadFindsItem, RGoto, TypeOK, TestedFlagHolds, IndexInRing, Slots,
        AtMostOnePerSide, InRead, NOT_EXISTS_DATA, EXISTS_DATA
  <2> QED BY <2>1, <2>2, <2>3, <2>4
<1>13. ASSUME NEW c \in Consumers, ReadCopy(c) PROVE OwnershipInv'
  <2>5. RIndex \in Slots /\ RIndex < size
    BY <1>13, ReaderInRing DEF ReadCopy, RGoto
  <2>1. TypeOK'
    BY <1>13, <2>5 DEF ReadCopy, RGoto, TypeOK, Slots, NOT_EXISTS_DATA, EXISTS_DATA
  <2>2. AtMostOnePerSide'
    BY <1>13 DEF ReadCopy, RGoto, TypeOK, AtMostOnePerSide, InAdd, InRead
  <2>3. IndexInRing'
    BY <1>13, SizeAssumption DEF ReadCopy, RGoto, TypeOK, IndexInRing
  <2>4. TestedFlagHolds'
    BY <1>13, <2>5, SizeAssumption
    DEF ReadCopy, RGoto, TypeOK, TestedFlagHolds, IndexInRing, Slots,
        NOT_EXISTS_DATA, EXISTS_DATA
  <2> QED BY <2>1, <2>2, <2>3, <2>4
<1>14. ASSUME NEW c \in Consumers, ReadClear(c) PROVE OwnershipInv'
  <2>5. RIndex \in Slots /\ RIndex < size
    BY <1>14, ReaderInRing DEF ReadClear, RGoto
  <2>6. \A d \in Consumers : rpc'[d] \notin {"copy", "clear"}
    BY <1>14 DEF ReadClear, RGoto, TypeOK, AtMostOnePerSide, InRead
  <2>1. TypeOK'
    BY <1>14, <2>5, <2>6, SizeAssumption, CountAssumption
      DEF ReadClear, RGoto, TypeOK, Slots, NOT_EXISTS_DATA, EXISTS_DATA
  <2>2. AtMostOnePerSide'
    BY <1>14 DEF ReadClear, RGoto, TypeOK, AtMostOnePerSide, InAdd, InRead
  <2>3. IndexInRing'
    BY <1>14, SizeAssumption DEF ReadClear, RGoto, TypeOK, IndexInRing
  <2>4. TestedFlagHolds'
    BY <1>14, <2>5, <2>6, SizeAssumption
    DEF ReadClear, RGoto, TypeOK, TestedFlagHolds, IndexInRing, Slots,
        NOT_EXISTS_DATA, EXISTS_DATA
  <2> QED BY <2>1, <2>2, <2>3, <2>4
<1>15. ASSUME NEW c \in Consumers, ReadCount(c) PROVE OwnershipInv'
  <2>1. TypeOK'
    BY <1>15, IncrementInRange DEF ReadCount, RGoto, TypeOK
  <2>2. AtMostOnePerSide'
    BY <1>15 DEF ReadCount, RGoto, TypeOK, AtMostOnePerSide, InAdd, InRead
  <2>3. IndexInRing'
    BY <1>15, SizeAssumption DEF ReadCount, RGoto, TypeOK, IndexInRing
  <2>4. TestedFlagHolds'
    BY <1>15, SizeAssumption
    DEF ReadCount, RGoto, TypeOK, TestedFlagHolds, IndexInRing, Slots,
        AtMostOnePerSide, InRead, NOT_EXISTS_DATA, EXISTS_DATA
  <2> QED BY <2>1, <2>2, <2>3, <2>4
<1>16. ASSUME NEW c \in Consumers, ReadReturn(c) PROVE OwnershipInv'
  <2>1. TypeOK'
    BY <1>16, SizeAssumption, CountAssumption DEF ReadReturn, RGoto, ReleaseR, TypeOK
  <2>2. AtMostOnePerSide'
    BY <1>16 DEF ReadReturn, RGoto, ReleaseR, TypeOK, AtMostOnePerSide, InAdd, InRead
  <2>3. IndexInRing'
    BY <1>16, SizeAssumption
      DEF ReadReturn, RGoto, ReleaseR, TypeOK, IndexInRing, AtMostOnePerSide,
          InRead
  <2>4. TestedFlagHolds'
    BY <1>16, SizeAssumption
    DEF ReadReturn, RGoto, ReleaseR, TypeOK, TestedFlagHolds, IndexInRing, Slots,
        AtMostOnePerSide, InRead, NOT_EXISTS_DATA, EXISTS_DATA
  <2> QED BY <2>1, <2>2, <2>3, <2>4
<1>17. ASSUME NEW c \in Consumers, IsEmptyLoadR(c) PROVE OwnershipInv'
  <2>1. TypeOK'
    BY <1>17 DEF IsEmptyLoadR, RGoto, TypeOK
  <2>2. AtMostOnePerSide'
    BY <1>17 DEF IsEmptyLoadR, RGoto, TypeOK, AtMostOnePerSide, InAdd, InRead
  <2>3. IndexInRing'
    BY <1>17, SizeAssumption DEF IsEmptyLoadR, RGoto, TypeOK, IndexInRing
  <2>4. TestedFlagHolds'
    BY <1>17, SizeAssumption
    DEF IsEmptyLoadR, RGoto, TypeOK, TestedFlagHolds, IndexInRing, Slots,
        AtMostOnePerSide, InRead, NOT_EXISTS_DATA, EXISTS_DATA
  <2> QED BY <2>1, <2>2, <2>3, <2>4
<1>18. ASSUME NEW c \in Consumers, IsEmptyCompare(c) PROVE OwnershipInv'
  <2>1. TypeOK'
    BY <1>18, CountAssumption DEF IsEmptyCompare, RGoto, TypeOK
  <2>2. AtMostOnePerSide'
    BY <1>18 DEF IsEmptyCompare, RGoto, TypeOK, AtMostOnePerSide, InAdd, InRead
  <2>3. IndexInRing'
    BY <1>18, SizeAssumption DEF IsEmptyCompare, RGoto, TypeOK, IndexInRing
  <2>4. TestedFlagHolds'
    BY <1>18, SizeAssumption
    DEF IsEmptyCompare, RGoto, TypeOK, TestedFlagHolds, IndexInRing, Slots,
        AtMostOnePerSide, InRead, NOT_EXISTS_DATA, EXISTS_DATA
  <2> QED BY <2>1, <2>2, <2>3, <2>4
<1>19. CASE UNCHANGED vars
  BY <1>19 DEF vars, TypeOK, AtMostOnePerSide, IndexInRing, TestedFlagHolds,
                InAdd, InRead
<1> QED
  BY <1>1, <1>2, <1>3, <1>4, <1>5, <1>6, <1>7, <1>8, <1>9, <1>10, <1>11, <1>12,
     <1>13, <1>14, <1>15, <1>16, <1>17, <1>18, <1>19
  DEF Next, AddStep, ReadStep

\* The types of the ring and of the local state of every call (TQueue.h).
THEOREM TypeCorrect == Spec => []TypeOK
<1>1. OwnershipInv => TypeOK
  BY DEF OwnershipInv
<1> QED BY OwnershipInit, OwnershipStep, <1>1, PTL DEF Spec

\* m_queue[i] is never read while it is written, for any ring size.
THEOREM NoTornItem == Spec => []SlotOwnership
<1>1. OwnershipInv => SlotOwnership
  BY DEF OwnershipInv, TestedFlagHolds, SlotOwnership, NOT_EXISTS_DATA, EXISTS_DATA
<1> QED BY OwnershipInit, OwnershipStep, <1>1, PTL DEF Spec

(***************************************************************************)
(* The shape of the ring: the raised flags run from the head to the tail.  *)
(***************************************************************************)
RingShape == /\ Contiguous
             /\ sign[HeadSlot] = NOT_EXISTS_DATA => TailSlot = HeadSlot

LEMMA SlotsInRing ==
    ASSUME OwnershipInv
    PROVE  /\ HeadSlot \in Slots /\ TailSlot \in Slots
           /\ Length \in 0 .. size
           /\ \A i \in Slots : sign[i] \in {0, 1}
BY SizeAssumption DEF OwnershipInv, TypeOK, Slots, HeadSlot, TailSlot, Wrapped,
       Length, NOT_EXISTS_DATA, EXISTS_DATA

\* Raising a flag makes the occupied part one slot longer at its tail.
LEMMA PublishGrows ==
    ASSUME OwnershipInv, RingShape, NEW p \in Producers, AddPublish(p)
    PROVE  /\ RingShape'
           /\ HeadSlot' = HeadSlot
           /\ Length' = Length + 1
           /\ Distance(WIndex) = Length
           /\ SlotAt(Length) = WIndex
<1>1. WIndex \in 0 .. size - 1 /\ TailSlot = WIndex /\ sign[WIndex] = 0
  BY WriterInRing, SizeAssumption
  DEF AddPublish, WGoto, TailSlot, Wrapped, OwnershipInv, TestedFlagHolds,
      NOT_EXISTS_DATA, Slots
<1>2. /\ HeadSlot \in 0 .. size - 1
      /\ HeadSlot' = HeadSlot
      /\ TailSlot' = IF WIndex + 1 = size THEN 0 ELSE WIndex + 1
  BY SlotsInRing DEF AddPublish, HeadSlot, TailSlot, Wrapped, Slots
<1>3. \A i \in Slots : /\ sign[i] \in {0, 1}
                       /\ sign'[i] = IF i = WIndex THEN 1 ELSE sign[i]
  BY <1>1, SlotsInRing DEF AddPublish, OwnershipInv, TypeOK, EXISTS_DATA
<1>4. Distance(WIndex) = Length /\ Length \in 0 .. size - 1
  BY <1>1, <1>2, <1>3, SizeAssumption
  DEF RingShape, Contiguous, Distance, Length, Slots, NOT_EXISTS_DATA, EXISTS_DATA
<1>5. Length' = Length + 1
  BY <1>1, <1>2, <1>3, SizeAssumption
  DEF RingShape, Length, Contiguous, Distance, Slots, NOT_EXISTS_DATA, EXISTS_DATA
<1>6. sign'[HeadSlot'] = 1
  BY <1>1, <1>2, <1>3
  DEF RingShape, Slots, NOT_EXISTS_DATA
<1>7. Contiguous'
  <2> SUFFICES ASSUME NEW i \in Slots
               PROVE  sign'[i] = 1 <=> Distance(i)' < Length'
    BY DEF Contiguous, EXISTS_DATA, Slots
  <2>1. Distance(i)' = Distance(i) /\ Distance(i) \in 0 .. size - 1
    BY <1>2, SizeAssumption DEF Distance, Slots
  <2>2. Distance(i) = Distance(WIndex) => i = WIndex
    BY <1>1, <1>2, SizeAssumption DEF Distance, Slots
  <2>3. sign[i] = 1 <=> Distance(i) < Length
    BY DEF RingShape, Contiguous, EXISTS_DATA
  <2> QED BY <1>1, <1>3, <1>4, <1>5, <2>1, <2>2, <2>3
<1>8. SlotAt(Length) = WIndex
  BY <1>1, <1>2, <1>4, SizeAssumption DEF SlotAt, Distance
<1> QED BY <1>2, <1>4, <1>5, <1>6, <1>7, <1>8 DEF RingShape, NOT_EXISTS_DATA

\* Lowering a flag makes it one slot shorter at its head.
LEMMA ClearShrinks ==
    ASSUME OwnershipInv, RingShape, NEW c \in Consumers, ReadClear(c)
    PROVE  /\ RingShape'
           /\ Length > 0
           /\ Length' = Length - 1
           /\ HeadSlot = RIndex
           /\ HeadSlot' = Wrapped(RIndex + 1)
<1>1. RIndex \in 0 .. size - 1 /\ HeadSlot = RIndex /\ sign[RIndex] = 1
  BY ReaderInRing, SizeAssumption
  DEF ReadClear, RGoto, HeadSlot, Wrapped, OwnershipInv, TestedFlagHolds,
      EXISTS_DATA, Slots
<1>2. /\ TailSlot \in 0 .. size - 1
      /\ TailSlot' = TailSlot
      /\ HeadSlot' = IF RIndex + 1 = size THEN 0 ELSE RIndex + 1
  BY SlotsInRing DEF ReadClear, HeadSlot, TailSlot, Wrapped, Slots
<1>3. \A i \in Slots : /\ sign[i] \in {0, 1}
                       /\ sign'[i] = IF i = RIndex THEN 0 ELSE sign[i]
  BY <1>1, SlotsInRing DEF ReadClear, OwnershipInv, TypeOK, NOT_EXISTS_DATA
<1>4. Length \in 1 .. size
  BY <1>1, <1>2, SizeAssumption DEF Length, NOT_EXISTS_DATA
<1>5. \A i \in Slots : sign[i] = 1 <=> Distance(i) < Length
  BY DEF RingShape, Contiguous, EXISTS_DATA
<1>6. \A i \in Slots : Distance(i)' = IF i = RIndex THEN size - 1 ELSE Distance(i) - 1
  BY <1>1, <1>2, SizeAssumption DEF Distance, Slots
<1>7. HeadSlot' \in Slots
  BY <1>1, <1>2, SizeAssumption DEF Slots
<1>8. sign'[HeadSlot'] = 0 <=> Length = 1
  <2>1. HeadSlot' # RIndex => Distance(HeadSlot') = 1
    BY <1>1, <1>2, SizeAssumption DEF Distance
  <2>2. HeadSlot' = RIndex => size = 1
    BY <1>1, <1>2, SizeAssumption
  <2> QED BY <1>1, <1>3, <1>4, <1>5, <1>7, <2>1, <2>2
<1>9. Length = 1 => TailSlot = HeadSlot'
  BY <1>1, <1>2, SizeAssumption DEF Length, NOT_EXISTS_DATA
<1>10. Length' = Length - 1
  BY <1>1, <1>2, <1>3, <1>7, <1>8, SizeAssumption DEF Length, NOT_EXISTS_DATA
<1>11. Contiguous'
  <2> SUFFICES ASSUME NEW i \in Slots
               PROVE  sign'[i] = 1 <=> Distance(i)' < Length'
    BY DEF Contiguous, EXISTS_DATA, Slots
  <2>1. Distance(i) \in 0 .. size - 1
    BY <1>1, SizeAssumption DEF Distance, Slots
  <2> QED BY <1>3, <1>4, <1>5, <1>6, <1>10, <2>1, SizeAssumption
<1> QED BY <1>1, <1>2, <1>4, <1>8, <1>9, <1>10, <1>11 DEF RingShape, NOT_EXISTS_DATA, Wrapped

\* Every other step leaves the flags and the wrapped ends of the ring alone.
RingStands == sign' = sign /\ HeadSlot' = HeadSlot /\ TailSlot' = TailSlot

LEMMA OtherStepsKeepRing ==
    ASSUME OwnershipInv, [Next]_vars,
           \A p \in Producers : ~AddPublish(p),
           \A c \in Consumers : ~ReadClear(c)
    PROVE  RingStands
<1>1. ASSUME NEW p \in Producers, CallAdd(p) PROVE RingStands
  BY <1>1 DEF CallAdd, RingStands, HeadSlot, TailSlot, Wrapped, ring
<1>2. ASSUME NEW p \in Producers, AddLock(p) PROVE RingStands
  BY <1>2 DEF AddLock, RingStands, HeadSlot, TailSlot, Wrapped, ring
<1>3. ASSUME NEW p \in Producers, AddFindsRoom(p) PROVE RingStands
  BY <1>3 DEF AddFindsRoom, RingStands, HeadSlot, TailSlot, Wrapped, ring
<1>4. ASSUME NEW p \in Producers, TryAddFails(p) PROVE RingStands
  BY <1>4 DEF TryAddFails, RingStands, HeadSlot, TailSlot, Wrapped, ring
<1>5. ASSUME NEW p \in Producers, AddStore(p) PROVE RingStands
  BY <1>5 DEF AddStore, RingStands, HeadSlot, TailSlot, Wrapped, ring
<1>6. ASSUME NEW p \in Producers, AddCount(p) PROVE RingStands
  BY <1>6 DEF AddCount, RingStands, HeadSlot, TailSlot, Wrapped, ring
<1>7. ASSUME NEW p \in Producers, AddReturn(p) PROVE RingStands
  BY <1>7, SizeAssumption
    DEF AddReturn, RingStands, HeadSlot, TailSlot, Wrapped, ring, OwnershipInv,
        TypeOK
<1>8. ASSUME NEW c \in Consumers, CallRead(c) PROVE RingStands
  BY <1>8 DEF CallRead, RingStands, HeadSlot, TailSlot, Wrapped, ring
<1>9. ASSUME NEW c \in Consumers, ReadLock(c) PROVE RingStands
  BY <1>9 DEF ReadLock, RingStands, HeadSlot, TailSlot, Wrapped, ring
<1>10. ASSUME NEW c \in Consumers, ReadFindsNothing(c) PROVE RingStands
  BY <1>10 DEF ReadFindsNothing, RingStands, HeadSlot, TailSlot, Wrapped, ring
<1>11. ASSUME NEW c \in Consumers, ReadFindsItem(c) PROVE RingStands
  BY <1>11 DEF ReadFindsItem, RingStands, HeadSlot, TailSlot, Wrapped, ring
<1>12. ASSUME NEW c \in Consumers, ReadCopy(c) PROVE RingStands
  BY <1>12 DEF ReadCopy, RingStands, HeadSlot, TailSlot, Wrapped, ring
<1>13. ASSUME NEW c \in Consumers, ReadCount(c) PROVE RingStands
  BY <1>13 DEF ReadCount, RingStands, HeadSlot, TailSlot, Wrapped, ring
<1>14. ASSUME NEW c \in Consumers, ReadReturn(c) PROVE RingStands
  BY <1>14, SizeAssumption
    DEF ReadReturn, RingStands, HeadSlot, TailSlot, Wrapped, ring, OwnershipInv,
        TypeOK
<1>15. ASSUME NEW c \in Consumers, IsEmptyLoadR(c) PROVE RingStands
  BY <1>15 DEF IsEmptyLoadR, RingStands, HeadSlot, TailSlot, Wrapped, ring
<1>16. ASSUME NEW c \in Consumers, IsEmptyCompare(c) PROVE RingStands
  BY <1>16 DEF IsEmptyCompare, RingStands, HeadSlot, TailSlot, Wrapped, ring
<1>17. CASE UNCHANGED vars
  BY <1>17 DEF vars, ring, RingStands, HeadSlot, TailSlot, Wrapped
<1> QED
  BY <1>1, <1>2, <1>3, <1>4, <1>5, <1>6, <1>7, <1>8, <1>9, <1>10, <1>11, <1>12,
     <1>13, <1>14, <1>15, <1>16, <1>17
  DEF Next, AddStep, ReadStep

RingInv == OwnershipInv /\ RingShape

LEMMA RingInit == Init => RingInv
<1> SUFFICES ASSUME Init PROVE RingShape
  BY OwnershipInit DEF RingInv
<1>1. \A i \in Slots : sign[i] = 0
  BY DEF Init, NOT_EXISTS_DATA
<1>2. HeadSlot = 0 /\ TailSlot = 0 /\ 0 \in Slots
  BY SizeAssumption DEF Init, HeadSlot, TailSlot, Wrapped, Slots
<1>3. Length = 0
  BY <1>1, <1>2 DEF Length, NOT_EXISTS_DATA
<1> QED BY <1>1, <1>2, <1>3
  DEF RingShape, Contiguous, Distance, Slots, EXISTS_DATA

LEMMA RingStep == RingInv /\ [Next]_vars => RingInv'
<1> SUFFICES ASSUME RingInv, [Next]_vars PROVE RingShape'
  BY OwnershipStep DEF RingInv
<1>1. ASSUME NEW p \in Producers, AddPublish(p) PROVE RingShape'
  BY <1>1, PublishGrows DEF RingInv
<1>2. ASSUME NEW c \in Consumers, ReadClear(c) PROVE RingShape'
  BY <1>2, ClearShrinks DEF RingInv
<1>3. CASE RingStands
  BY <1>3 DEF RingStands, RingInv, RingShape, Contiguous, Distance, Length, Slots
<1> QED BY <1>1, <1>2, <1>3, OtherStepsKeepRing DEF RingInv

\* The raised flags are one run of slots from the head to the tail, for any
\* ring size and any interleaving of the two sides.
THEOREM RingContiguous == Spec => []Contiguous
<1>1. RingInv => Contiguous
  BY DEF RingInv, RingShape
<1> QED BY RingInit, RingStep, <1>1, PTL DEF Spec

------------------------------------------------------------------------------
(***************************************************************************)
(* TQueue implements BoundedFifo.                                          *)
(***************************************************************************)
Elements == Items \cup {NoItem}

\* What the calls in progress carry from one of their steps to the next.
HandOff ==
    /\ \A p \in Producers : wpc[p] = "publish" => queue[WIndex] = src[p]
    /\ \A c \in Consumers :
          /\ rpc[c] = "clear" => value[c] = queue[RIndex]
          /\ rpc[c] \in {"lock", "check", "copy"} => value[c] = NoItem
    /\ \A p \in Producers : wpc[p] = "idle" <=> wres[p] # "pending"
    /\ \A c \in Consumers :
          /\ rpc[c] \in {"idle", "compare"} <=> rres[c] # "pending"
          /\ rpc[c] = "compare" => rres[c] = "false"

FifoInv == RingInv /\ HandOff

LEMMA FifoIsSeq ==
    ASSUME RingInv
    PROVE  /\ Fifo \in Seq(Elements)
           /\ Len(Fifo) = Length
           /\ \A k \in 1 .. Length : Fifo[k] = queue[SlotAt(k - 1)]
<1>1. Length \in 0 .. size /\ HeadSlot \in 0 .. size - 1
  BY SlotsInRing DEF RingInv, Slots
<1>2. \A k \in 1 .. Length : SlotAt(k - 1) \in Slots
  BY <1>1, SizeAssumption DEF SlotAt, Slots
<1>3. \A k \in 1 .. Length : queue[SlotAt(k - 1)] \in Elements
  BY <1>2 DEF RingInv, OwnershipInv, TypeOK, Elements
<1> QED BY <1>1, <1>3, IsASeq DEF Fifo

\* The first Length slots from the head are the raised ones.
LEMMA OccupiedSlots ==
    ASSUME RingInv, NEW k \in 1 .. Length
    PROVE  SlotAt(k - 1) \in Slots /\ sign[SlotAt(k - 1)] = EXISTS_DATA
<1>1. Length \in 0 .. size /\ HeadSlot \in 0 .. size - 1
  BY SlotsInRing DEF RingInv, Slots
<1>2. SlotAt(k - 1) \in Slots /\ Distance(SlotAt(k - 1)) = k - 1
  BY <1>1, SizeAssumption DEF SlotAt, Distance, Slots
<1> QED BY <1>1, <1>2 DEF RingInv, RingShape, Contiguous

LEMMA FifoStands ==
    ASSUME RingInv, RingStands, queue' = queue
    PROVE  Fifo' = Fifo
BY DEF RingStands, Fifo, Length, SlotAt

LEMMA StoreKeepsFifo ==
    ASSUME RingInv, NEW p \in Producers, AddStore(p)
    PROVE  Fifo' = Fifo
<1>1. sign[WIndex] # EXISTS_DATA
  BY DEF AddStore, WGoto, RingInv, OwnershipInv, TestedFlagHolds,
         NOT_EXISTS_DATA, EXISTS_DATA
<1>2. \A k \in 1 .. Length : queue'[SlotAt(k - 1)] = queue[SlotAt(k - 1)]
  BY <1>1, OccupiedSlots DEF AddStore, RingInv, OwnershipInv, TypeOK
<1>3. Length' = Length /\ \A d : SlotAt(d)' = SlotAt(d)
  BY DEF AddStore, Length, SlotAt, HeadSlot, TailSlot, Wrapped
<1> QED BY <1>2, <1>3 DEF Fifo

LEMMA PublishAppends ==
    ASSUME FifoInv, RingInv', NEW p \in Producers, AddPublish(p)
    PROVE  Len(Fifo) < size /\ Fifo' = Append(Fifo, src[p])
<1>1. /\ HeadSlot' = HeadSlot
      /\ Length' = Length + 1
      /\ SlotAt(Length) = WIndex
  BY PublishGrows DEF FifoInv, RingInv
<1>2. Length \in 0 .. size - 1
  <2>1. Distance(WIndex) = Length
    BY PublishGrows DEF FifoInv, RingInv
  <2>2. WIndex \in Slots /\ HeadSlot \in Slots /\ Length \in 0 .. size
    BY WriterInRing, SlotsInRing DEF AddPublish, WGoto, FifoInv, RingInv
  <2> QED BY <2>1, <2>2, SizeAssumption DEF Distance, Slots
<1>3. Len(Fifo) < size
  BY <1>2, FifoIsSeq, SizeAssumption DEF FifoInv
<1>4. queue' = queue /\ src[p] = queue[WIndex] /\ src[p] \in Elements
  BY DEF AddPublish, WGoto, FifoInv, HandOff, RingInv, OwnershipInv, TypeOK, Elements
<1>5. Fifo' = [k \in 1 .. Length + 1 |-> queue[SlotAt(k - 1)]]
  BY <1>1, <1>4 DEF Fifo, SlotAt
<1>6. Append(Fifo, src[p]) = [k \in 1 .. Length + 1 |-> queue[SlotAt(k - 1)]]
  <2>1. Append(Fifo, src[p]) \in Seq(Elements)
    BY <1>4, FifoIsSeq, AppendProperties DEF FifoInv
  <2>2. /\ Len(Append(Fifo, src[p])) = Length + 1
        /\ \A k \in 1 .. Length : Append(Fifo, src[p])[k] = queue[SlotAt(k - 1)]
        /\ Append(Fifo, src[p])[Length + 1] = queue[SlotAt(Length)]
    BY <1>1, <1>4, FifoIsSeq, AppendProperties DEF FifoInv
  <2>3. \A k \in 1 .. Length + 1 : Append(Fifo, src[p])[k] = queue[SlotAt(k - 1)]
    BY <1>2, <2>2
  <2> QED BY <2>1, <2>2, <2>3
<1> QED BY <1>3, <1>5, <1>6

LEMMA ClearTakesHead ==
    ASSUME FifoInv, RingInv', NEW c \in Consumers, ReadClear(c)
    PROVE  Fifo # <<>> /\ value[c] = Head(Fifo) /\ Fifo' = Tail(Fifo)
<1>1. /\ Length > 0 /\ Length' = Length - 1
      /\ HeadSlot = RIndex
      /\ HeadSlot' = Wrapped(RIndex + 1)
  BY ClearShrinks DEF FifoInv, RingInv
<1>2. Length \in 1 .. size /\ HeadSlot \in 0 .. size - 1
  BY <1>1, SlotsInRing DEF FifoInv, RingInv, Slots
<1>3. Fifo \in Seq(Elements) /\ Len(Fifo) = Length /\ Fifo # <<>>
  BY <1>2, FifoIsSeq DEF FifoInv
<1>4. SlotAt(0) = RIndex
  BY <1>1, <1>2, SizeAssumption DEF SlotAt
<1>5. value[c] = Head(Fifo)
  <2>1. value[c] = queue[RIndex]
    BY DEF ReadClear, RGoto, FifoInv, HandOff
  <2>2. Fifo[1] = queue[RIndex]
    BY <1>2, <1>4, FifoIsSeq DEF FifoInv
  <2> QED BY <1>3, <2>1, <2>2
<1>6. \A k \in 1 .. Length - 1 : SlotAt(k - 1)' = SlotAt(k)
  BY <1>1, <1>2, SizeAssumption DEF SlotAt, Wrapped
<1>7. Fifo' = [k \in 1 .. Length - 1 |-> queue[SlotAt(k)]]
  BY <1>1, <1>6 DEF Fifo, ReadClear
<1>8. Tail(Fifo) = [k \in 1 .. Length - 1 |-> queue[SlotAt(k)]]
  <2>1. /\ Tail(Fifo) \in Seq(Elements)
        /\ Len(Tail(Fifo)) = Length - 1
        /\ \A k \in 1 .. Length - 1 : Tail(Fifo)[k] = Fifo[k + 1]
    BY <1>3, HeadTailProperties
  <2>2. \A k \in 1 .. Length - 1 : Fifo[k + 1] = queue[SlotAt(k)]
    <3> SUFFICES ASSUME NEW k \in 1 .. Length - 1
                 PROVE  Fifo[k + 1] = queue[SlotAt(k)]
      OBVIOUS
    <3>1. k + 1 \in 1 .. Length /\ (k + 1) - 1 = k
      BY <1>2
    <3> QED BY <3>1, FifoIsSeq DEF FifoInv
  <2>3. \A k \in 1 .. Length - 1 : Tail(Fifo)[k] = queue[SlotAt(k)]
    BY <2>1, <2>2
  <2>4. Tail(Fifo) = [k \in 1 .. Length - 1 |-> Tail(Fifo)[k]]
    BY <2>1, LenProperties
  <2> QED BY <2>3, <2>4
<1> QED BY <1>3, <1>5, <1>7, <1>8

LEMMA HandOffInit == Init => HandOff
BY NoneAssumption DEF Init, HandOff

LEMMA HandOffStep ==
    ASSUME RingInv, HandOff, [Next]_vars
    PROVE  HandOff'
<1> USE DEF HandOff, RingInv, OwnershipInv, TypeOK, ring, writer, reader
<1>1. ASSUME NEW p \in Producers, CallAdd(p) PROVE HandOff'
  BY <1>1 DEF CallAdd, WGoto
<1>2. ASSUME NEW p \in Producers, AddLock(p) PROVE HandOff'
  BY <1>2 DEF AddLock, WGoto
<1>3. ASSUME NEW p \in Producers, AddFindsRoom(p) PROVE HandOff'
  BY <1>3 DEF AddFindsRoom, WGoto
<1>4. ASSUME NEW p \in Producers, TryAddFails(p) PROVE HandOff'
  BY <1>4 DEF TryAddFails, WGoto, ReleaseW
<1>5. ASSUME NEW p \in Producers, AddStore(p) PROVE HandOff'
  <2>1. WIndex \in Slots
    BY <1>5, WriterInRing DEF AddStore, WGoto
  <2>2. \A c \in Consumers : rpc[c] = "clear" => RIndex # WIndex
    BY <1>5 DEF AddStore, WGoto, TestedFlagHolds, NOT_EXISTS_DATA, EXISTS_DATA
  <2>3. \A q \in Producers : wpc'[q] = "publish" => queue'[WIndex'] = src'[q]
    BY <1>5, <2>1 DEF AddStore, WGoto, AtMostOnePerSide, InAdd
  <2>4. \A c \in Consumers :
           /\ rpc'[c] = "clear" => value'[c] = queue'[RIndex']
           /\ rpc'[c] \in {"lock", "check", "copy"} => value'[c] = NoItem
    BY <1>5, <2>2 DEF AddStore, WGoto
  <2>5. /\ \A q \in Producers : wpc'[q] = "idle" <=> wres'[q] # "pending"
        /\ \A c \in Consumers :
              /\ rpc'[c] \in {"idle", "compare"} <=> rres'[c] # "pending"
              /\ rpc'[c] = "compare" => rres'[c] = "false"
    BY <1>5 DEF AddStore, WGoto
  <2> QED BY <2>3, <2>4, <2>5
<1>6. ASSUME NEW p \in Producers, AddPublish(p) PROVE HandOff'
  BY <1>6 DEF AddPublish, WGoto, AtMostOnePerSide, InAdd
<1>7. ASSUME NEW p \in Producers, AddCount(p) PROVE HandOff'
  BY <1>7 DEF AddCount, WGoto
<1>8. ASSUME NEW p \in Producers, AddReturn(p) PROVE HandOff'
  BY <1>8 DEF AddReturn, WGoto, AtMostOnePerSide, InAdd, ReleaseW
<1>9. ASSUME NEW c \in Consumers, CallRead(c) PROVE HandOff'
  BY <1>9 DEF CallRead, RGoto
<1>10. ASSUME NEW c \in Consumers, ReadLock(c) PROVE HandOff'
  BY <1>10 DEF ReadLock, RGoto
<1>11. ASSUME NEW c \in Consumers, ReadFindsNothing(c) PROVE HandOff'
  BY <1>11 DEF ReadFindsNothing, RGoto, ReleaseR
<1>12. ASSUME NEW c \in Consumers, ReadFindsItem(c) PROVE HandOff'
  BY <1>12 DEF ReadFindsItem, RGoto
<1>13. ASSUME NEW c \in Consumers, ReadCopy(c) PROVE HandOff'
  BY <1>13 DEF ReadCopy, RGoto, AtMostOnePerSide, InRead
<1>14. ASSUME NEW c \in Consumers, ReadClear(c) PROVE HandOff'
  BY <1>14 DEF ReadClear, RGoto, AtMostOnePerSide, InRead
<1>15. ASSUME NEW c \in Consumers, ReadCount(c) PROVE HandOff'
  BY <1>15 DEF ReadCount, RGoto
<1>16. ASSUME NEW c \in Consumers, ReadReturn(c) PROVE HandOff'
  BY <1>16 DEF ReadReturn, RGoto, AtMostOnePerSide, InRead, ReleaseR
<1>17. ASSUME NEW c \in Consumers, IsEmptyLoadR(c) PROVE HandOff'
  BY <1>17 DEF IsEmptyLoadR, RGoto
<1>18. ASSUME NEW c \in Consumers, IsEmptyCompare(c) PROVE HandOff'
  BY <1>18 DEF IsEmptyCompare, RGoto
<1>19. CASE UNCHANGED vars
  BY <1>19 DEF vars
<1> QED
  BY <1>1, <1>2, <1>3, <1>4, <1>5, <1>6, <1>7, <1>8, <1>9, <1>10, <1>11, <1>12,
     <1>13, <1>14, <1>15, <1>16, <1>17, <1>18, <1>19
  DEF Next, AddStep, ReadStep

LEMMA FifoInit == Init => FifoInv /\ Fifo = <<>>
<1> SUFFICES ASSUME Init PROVE Fifo = <<>>
  BY RingInit, HandOffInit DEF FifoInv
<1>1. HeadSlot \in Slots /\ sign[HeadSlot] = 0
  BY SizeAssumption DEF Init, HeadSlot, Wrapped, Slots, NOT_EXISTS_DATA
<1>2. Len(Fifo) = 0 /\ Fifo \in Seq(Elements)
  BY <1>1, RingInit, FifoIsSeq DEF Length, NOT_EXISTS_DATA
<1> QED BY <1>2, EmptySeq

LEMMA FifoStep == FifoInv /\ [Next]_vars => FifoInv'
BY RingStep, HandOffStep DEF FifoInv

LEMMA AbstractInit == Init => Abstract!Init
BY FifoInit DEF Init, Abstract!Init

\* A step of TQueue is a step of BoundedFifo or changes nothing of it.
LEMMA AbstractStep ==
    ASSUME FifoInv, FifoInv', [Next]_vars
    PROVE  [Abstract!Next]_(Abstract!vars)
<1> DEFINE W == [p \in Producers |->
                   IF wpc[p] \in {"count", "wrap"} THEN "true" ELSE wres[p]]
           V == [c \in Consumers |->
                   IF rpc[c] = "clear" THEN NoItem ELSE value[c]]
           R == [c \in Consumers |->
                   IF rpc[c] \in {"count", "wrap"} THEN "true"
                   ELSE IF rres[c] \in {"drained", "busy"} THEN "false"
                   ELSE rres[c]]
           Stutters == UNCHANGED <<Fifo, call, src, W, V, R>>
<1> USE DEF ring, writer, reader
<1>t. TypeOK /\ TypeOK' /\ RingInv /\ RingInv' /\ HandOff /\ HandOff'
  BY DEF FifoInv, RingInv, OwnershipInv
<1>1. ASSUME NEW p \in Producers, CallAdd(p) PROVE Abstract!CallAdd(p)
  <2>1. Fifo' = Fifo
    BY <1>1 DEF CallAdd, Fifo, Length, SlotAt, HeadSlot, TailSlot, Wrapped
  <2>2. W' = [W EXCEPT ![p] = "pending"]
    BY <1>1, <1>t DEF CallAdd, WGoto, TypeOK
  <2>3. W[p] # "pending"
    BY <1>1, <1>t DEF CallAdd, WGoto, HandOff
  <2>4. V' = V /\ R' = R
    BY <1>1 DEF CallAdd
  <2> QED BY <1>1, <2>1, <2>2, <2>3, <2>4 DEF CallAdd, Abstract!CallAdd
<1>2. ASSUME NEW p \in Producers, AddLock(p) PROVE Stutters
  BY <1>2, <1>t DEF AddLock, WGoto, TypeOK, Fifo, Length,
     SlotAt, HeadSlot, TailSlot, Wrapped
<1>3. ASSUME NEW p \in Producers, AddFindsRoom(p) PROVE Stutters
  BY <1>3, <1>t DEF AddFindsRoom, WGoto, TypeOK, Fifo, Length,
     SlotAt, HeadSlot, TailSlot, Wrapped
<1>5. ASSUME NEW p \in Producers, AddStore(p) PROVE Stutters
  <2>1. Fifo' = Fifo
    BY <1>5, <1>t, StoreKeepsFifo
  <2> QED BY <1>5, <1>t, <2>1 DEF AddStore, WGoto, TypeOK
<1>6. ASSUME NEW p \in Producers, AddPublish(p) PROVE Abstract!Put(p)
  <2>1. Len(Fifo) < size /\ Fifo' = Append(Fifo, src[p])
    BY <1>6, <1>t, PublishAppends
  <2>2. W' = [W EXCEPT ![p] = "true"]
    BY <1>6, <1>t DEF AddPublish, WGoto, TypeOK
  <2>3. W[p] = "pending"
    BY <1>6, <1>t DEF AddPublish, WGoto, HandOff
  <2>4. V' = V /\ R' = R
    BY <1>6 DEF AddPublish
  <2> QED BY <1>6, <2>1, <2>2, <2>3, <2>4 DEF AddPublish, Abstract!Put
<1>7. ASSUME NEW p \in Producers, AddCount(p) PROVE Stutters
  BY <1>7, <1>t DEF AddCount, WGoto, TypeOK, Fifo, Length,
     SlotAt, HeadSlot, TailSlot, Wrapped
<1>8. ASSUME NEW p \in Producers, AddReturn(p) PROVE Stutters
  <2>1. TailSlot' = TailSlot
    BY <1>8, <1>t, SizeAssumption DEF AddReturn, TailSlot, Wrapped, TypeOK
  <2>2. Fifo' = Fifo
    BY <1>8, <2>1 DEF AddReturn, Fifo, Length, SlotAt, HeadSlot, Wrapped
  <2> QED BY <1>8, <1>t, <2>2 DEF AddReturn, WGoto, TypeOK
<1>9. ASSUME NEW c \in Consumers, CallRead(c) PROVE Abstract!CallRead(c)
  <2>1. Fifo' = Fifo
    BY <1>9 DEF CallRead, Fifo, Length, SlotAt, HeadSlot, TailSlot, Wrapped
  <2>2. V' = [V EXCEPT ![c] = NoItem]
    BY <1>9, <1>t DEF CallRead, RGoto, TypeOK
  <2>3. R' = [R EXCEPT ![c] = "pending"]
    BY <1>9, <1>t DEF CallRead, RGoto, TypeOK
  <2>4. R[c] # "pending"
    BY <1>9, <1>t DEF CallRead, RGoto, HandOff
  <2>5. W' = W
    BY <1>9 DEF CallRead
  <2> QED BY <1>9, <2>1, <2>2, <2>3, <2>4, <2>5 DEF CallRead, Abstract!CallRead
<1>10. ASSUME NEW c \in Consumers, ReadLock(c) PROVE Stutters
  BY <1>10, <1>t DEF ReadLock, RGoto, TypeOK, Fifo, Length,
     SlotAt, HeadSlot, TailSlot, Wrapped
<1>12. ASSUME NEW c \in Consumers, ReadFindsItem(c) PROVE Stutters
  BY <1>12, <1>t DEF ReadFindsItem, RGoto, TypeOK, Fifo, Length,
     SlotAt, HeadSlot, TailSlot, Wrapped
<1>13. ASSUME NEW c \in Consumers, ReadCopy(c) PROVE Stutters
  <2>1. Fifo' = Fifo
    BY <1>13 DEF ReadCopy, Fifo, Length, SlotAt, HeadSlot, TailSlot, Wrapped
  <2>2. value[c] = NoItem
    BY <1>13, <1>t DEF ReadCopy, RGoto, HandOff
  <2>3. V' = V
    BY <1>13, <1>t, <2>2 DEF ReadCopy, RGoto, TypeOK
  <2>4. R' = R
    BY <1>13, <1>t DEF ReadCopy, RGoto, TypeOK
  <2>5. W' = W
    BY <1>13 DEF ReadCopy
  <2> QED BY <1>13, <2>1, <2>3, <2>4, <2>5 DEF ReadCopy
<1>15. ASSUME NEW c \in Consumers, ReadCount(c) PROVE Stutters
  BY <1>15, <1>t DEF ReadCount, RGoto, TypeOK, Fifo, Length,
     SlotAt, HeadSlot, TailSlot, Wrapped
<1>16. ASSUME NEW c \in Consumers, ReadReturn(c) PROVE Stutters
  <2>1. HeadSlot' = HeadSlot
    BY <1>16, <1>t, SizeAssumption DEF ReadReturn, HeadSlot, Wrapped, TypeOK
  <2>2. Fifo' = Fifo
    BY <1>16, <2>1 DEF ReadReturn, Fifo, Length, SlotAt, TailSlot, Wrapped
  <2> QED BY <1>16, <1>t, <2>2 DEF ReadReturn, RGoto, TypeOK
<1>17. ASSUME NEW c \in Consumers, IsEmptyLoadR(c) PROVE Stutters
  BY <1>17, <1>t DEF IsEmptyLoadR, RGoto, TypeOK, Fifo, Length,
     SlotAt, HeadSlot, TailSlot, Wrapped
<1>18. ASSUME NEW c \in Consumers, IsEmptyCompare(c) PROVE Stutters
  <2>1. Fifo' = Fifo
    BY <1>18 DEF IsEmptyCompare, Fifo, Length, SlotAt, HeadSlot, TailSlot, Wrapped
  <2>2. R' = R
    BY <1>18, <1>t DEF IsEmptyCompare, RGoto, TypeOK, HandOff
  <2>3. V' = V
    BY <1>18, <1>t DEF IsEmptyCompare, RGoto, TypeOK
  <2>4. W' = W
    BY <1>18 DEF IsEmptyCompare
  <2> QED BY <1>18, <2>1, <2>2, <2>3, <2>4 DEF IsEmptyCompare
<1>19. ASSUME UNCHANGED vars PROVE Stutters
  BY <1>19 DEF vars, Fifo, Length, SlotAt, HeadSlot, TailSlot, Wrapped
<1>4. ASSUME NEW p \in Producers, TryAddFails(p) PROVE Abstract!Refuse(p)
  <2>1. TailSlot = WIndex /\ TailSlot \in Slots /\ HeadSlot \in Slots /\ sign[TailSlot] = 1
    BY <1>4, <1>t, WriterInRing, SlotsInRing, SizeAssumption
    DEF TryAddFails, WGoto, RingInv, TailSlot, Wrapped, TypeOK, NOT_EXISTS_DATA, EXISTS_DATA
  <2>2. Distance(TailSlot) < Length
    BY <1>t, <2>1 DEF RingInv, RingShape, Contiguous, EXISTS_DATA
  <2>3. Length = size
    BY <2>1, <2>2, SizeAssumption DEF Distance, Length, Slots
  <2>4. Len(Fifo) = size /\ Fifo' = Fifo
    BY <1>4, <1>t, <2>3, FifoIsSeq
    DEF TryAddFails, Fifo, Length, SlotAt, HeadSlot, TailSlot, Wrapped
  <2>5. W' = [W EXCEPT ![p] = "false"]
    BY <1>4, <1>t DEF TryAddFails, WGoto, TypeOK
  <2>6. W[p] = "pending"
    BY <1>4, <1>t DEF TryAddFails, WGoto, HandOff
  <2>7. V' = V /\ R' = R
    BY <1>4 DEF TryAddFails
  <2> QED BY <1>4, <2>4, <2>5, <2>6, <2>7 DEF TryAddFails, Abstract!Refuse
<1>11. ASSUME NEW c \in Consumers, ReadFindsNothing(c) PROVE Abstract!FindNothing(c)
  <2>1. HeadSlot = RIndex /\ sign[HeadSlot] = 0
    BY <1>11, <1>t, ReaderInRing, SlotsInRing, SizeAssumption
    DEF ReadFindsNothing, RGoto, RingInv, HeadSlot, Wrapped, TypeOK,
        NOT_EXISTS_DATA, EXISTS_DATA
  <2>2. Len(Fifo) = 0 /\ Fifo \in Seq(Elements)
    BY <1>t, <2>1, FifoIsSeq DEF Length, NOT_EXISTS_DATA
  <2>3. Fifo = <<>> /\ Fifo' = Fifo
    BY <1>11, <2>2, EmptySeq
    DEF ReadFindsNothing, Fifo, Length, SlotAt, HeadSlot, TailSlot, Wrapped
  <2>4. R' = [R EXCEPT ![c] = "false"]
    BY <1>11, <1>t DEF ReadFindsNothing, RGoto, TypeOK
  <2>5. R[c] = "pending"
    BY <1>11, <1>t DEF ReadFindsNothing, RGoto, HandOff
  <2>6. V' = V
    BY <1>11, <1>t DEF ReadFindsNothing, RGoto, TypeOK
  <2>7. W' = W
    BY <1>11 DEF ReadFindsNothing
  <2> QED BY <1>11, <2>3, <2>4, <2>5, <2>6, <2>7 DEF ReadFindsNothing, Abstract!FindNothing
<1>14. ASSUME NEW c \in Consumers, ReadClear(c) PROVE Abstract!Take(c)
  <2>1. Fifo # <<>> /\ value[c] = Head(Fifo) /\ Fifo' = Tail(Fifo)
    BY <1>14, <1>t, ClearTakesHead
  <2>2. V' = [V EXCEPT ![c] = value[c]]
    BY <1>14, <1>t DEF ReadClear, RGoto, TypeOK
  <2>3. R' = [R EXCEPT ![c] = "true"]
    BY <1>14, <1>t DEF ReadClear, RGoto, TypeOK
  <2>4. R[c] = "pending"
    BY <1>14, <1>t DEF ReadClear, RGoto, HandOff
  <2>5. W' = W
    BY <1>14 DEF ReadClear
  <2> QED BY <1>14, <2>1, <2>2, <2>3, <2>4, <2>5 DEF ReadClear, Abstract!Take
<1>20. Stutters => UNCHANGED Abstract!vars
  BY DEF Abstract!vars
<1>21. UNCHANGED vars => Stutters
  BY <1>19
<1> HIDE DEF Stutters, W, V, R
<1> QED
  BY <1>1, <1>2, <1>3, <1>4, <1>5, <1>6, <1>7, <1>8, <1>9, <1>10, <1>11, <1>12,
     <1>13, <1>14, <1>15, <1>16, <1>17, <1>18, <1>20, <1>21
  DEF Next, AddStep, ReadStep, Abstract!Next

\* For every ring size the queue is one bounded FIFO to the threads that share
\* it: no item is lost, duplicated, reordered or delivered half-written.
THEOREM Refinement == Spec => ImplementsFifo
<1>1. Init => FifoInv
  BY FifoInit
<1>2. FifoInv /\ FifoInv' /\ [Next]_vars => [Abstract!Next]_(Abstract!vars)
  BY AbstractStep
<1> QED BY <1>1, <1>2, FifoStep, AbstractInit, PTL
  DEF Spec, ImplementsFifo, Abstract!Spec

------------------------------------------------------------------------------
(***************************************************************************)
(* IsEmpty.  The counters differ, modulo CountMod, by the length of the    *)
(* queue and the calls that have moved an item without counting it yet.    *)
(***************************************************************************)
Adding == IF \E p \in Producers : wpc[p] = "count" THEN 1 ELSE 0
Taking == IF \E c \in Consumers : rpc[c] = "count" THEN 1 ELSE 0

Ahead == RCount + Taking + Length - WCount - Adding

Counted == Ahead = 0 \/ Ahead = CountMod \/ Ahead = 0 - CountMod

\* With one reader nothing is read between the two loads of IsEmpty.
OneReader == \A c, d \in Consumers : c = d

SeenIsCurrent == \A c \in Consumers : rpc[c] = "compare" => seenR[c] = RCount

LEMMA NextCount ==
    ASSUME NEW n \in 0 .. CountMod - 1
    PROVE  Increment(n) = IF n = CountMod - 1 THEN 0 ELSE n + 1
BY CountAssumption, SizeAssumption DEF Increment

Numbers == /\ Adding \in 0 .. 1 /\ Taking \in 0 .. 1 /\ Length \in 0 .. size
           /\ RCount \in 0 .. CountMod - 1 /\ WCount \in 0 .. CountMod - 1

LEMMA Numbered == RingInv => Numbers
BY SizeAssumption, CountAssumption, SlotsInRing
DEF RingInv, OwnershipInv, TypeOK, Adding, Taking, Numbers

\* Steps that neither move nor count an item.
LEMMA CountStands ==
    ASSUME RingInv, [Next]_vars,
           \A p \in Producers : ~AddPublish(p) /\ ~AddCount(p),
           \A c \in Consumers : ~ReadClear(c) /\ ~ReadCount(c)
    PROVE  UNCHANGED <<RCount, WCount, Adding, Taking, Length>>
<1>1. Length' = Length
  BY OtherStepsKeepRing DEF RingInv, RingStands, Length
<1> DEFINE Stand == /\ UNCHANGED <<RCount, WCount>>
                    /\ \A p \in Producers : wpc'[p] = "count" <=> wpc[p] = "count"
                    /\ \A c \in Consumers : rpc'[c] = "count" <=> rpc[c] = "count"
<1>2. Stand
  <2>1. wpc \in [Producers -> {"idle", "lock", "check", "store", "publish", "count", "wrap"}]
        /\ rpc \in [Consumers -> {"idle", "lock", "check", "copy", "clear", "count", "wrap",
                                  "compare"}]
    BY DEF RingInv, OwnershipInv, TypeOK
  <2>2. ASSUME NEW p \in Producers, CallAdd(p) \/ AddStep(p)
        PROVE  Stand
    BY <2>1, <2>2
      DEF CallAdd, AddStep, AddLock, AddFindsRoom, TryAddFails, AddStore,
          AddReturn,
                      WGoto, ring, reader
  <2>3. ASSUME NEW c \in Consumers, CallRead(c) \/ ReadStep(c) \/ IsEmptyLoadR(c)
        PROVE  Stand
    BY <2>1, <2>3
      DEF CallRead, ReadStep, ReadLock, ReadFindsNothing, ReadFindsItem,
          ReadCopy,
                      ReadReturn, IsEmptyLoadR, IsEmptyCompare, RGoto, ring, writer
  <2>4. CASE UNCHANGED vars
    BY <2>4 DEF vars, ring, writer, reader
  <2> QED BY <2>2, <2>3, <2>4 DEF Next
<1> QED BY <1>1, <1>2 DEF Adding, Taking

\* At most one call per side has moved an item without counting it.
LEMMA OnePending ==
    ASSUME RingInv
    PROVE  /\ \A p, q \in Producers : wpc[p] \in {"publish", "count"} /\ wpc[q] = "count" => p = q
           /\ \A c, d \in Consumers : rpc[c] \in {"clear", "count"} /\ rpc[d] = "count" => c = d
BY DEF RingInv, OwnershipInv, AtMostOnePerSide, InAdd, InRead

LEMMA CountStep == RingInv /\ Counted /\ [Next]_vars => Counted'
<1> SUFFICES ASSUME RingInv, Counted, [Next]_vars PROVE Counted'
  OBVIOUS
<1>1. Numbers /\ Numbers'
  BY RingStep, Numbered, PTL
<1>2. CountMod \in Nat /\ size \in Nat /\ size > 0 /\ CountMod > size
  BY SizeAssumption, CountAssumption
<1>3. wpc \in [Producers -> {"idle", "lock", "check", "store", "publish", "count", "wrap"}]
      /\ rpc \in [Consumers -> {"idle", "lock", "check", "copy", "clear", "count", "wrap",
                                "compare"}]
  BY DEF RingInv, OwnershipInv, TypeOK
<1>4. ASSUME NEW p \in Producers, AddPublish(p) PROVE Counted'
  <2>1. Length' = Length + 1 /\ UNCHANGED <<RCount, WCount, rpc>>
    BY <1>4, PublishGrows DEF AddPublish, RingInv, reader
  <2>2. Adding = 0 /\ Adding' = 1 /\ Taking' = Taking
    BY <1>3, <1>4, <2>1, OnePending DEF AddPublish, WGoto, Adding, Taking
  <2> QED BY <1>1, <1>2, <2>1, <2>2 DEF Numbers, Counted, Ahead
<1>5. ASSUME NEW p \in Producers, AddCount(p) PROVE Counted'
  <2>1. /\ WCount' = Increment(WCount) /\ UNCHANGED <<RCount, rpc>>
        /\ Length' = Length
    BY <1>5 DEF AddCount, reader, Length, HeadSlot, TailSlot, Wrapped
  <2>2. Adding = 1 /\ Adding' = 0 /\ Taking' = Taking
    BY <1>3, <1>5, <2>1, OnePending DEF AddCount, WGoto, Adding, Taking
  <2>3. WCount' = IF WCount = CountMod - 1 THEN 0 ELSE WCount + 1
    BY <1>1, <2>1, NextCount DEF Numbers
  <2> QED BY <1>1, <1>2, <2>1, <2>2, <2>3 DEF Numbers, Counted, Ahead
<1>6. ASSUME NEW c \in Consumers, ReadClear(c) PROVE Counted'
  <2>1. Length' = Length - 1 /\ UNCHANGED <<RCount, WCount, wpc>>
    BY <1>6, ClearShrinks DEF ReadClear, RingInv, writer
  <2>2. Taking = 0 /\ Taking' = 1 /\ Adding' = Adding
    BY <1>3, <1>6, <2>1, OnePending DEF ReadClear, RGoto, Adding, Taking
  <2> QED BY <1>1, <1>2, <2>1, <2>2 DEF Numbers, Counted, Ahead
<1>7. ASSUME NEW c \in Consumers, ReadCount(c) PROVE Counted'
  <2>1. /\ RCount' = Increment(RCount) /\ UNCHANGED <<WCount, wpc>>
        /\ Length' = Length
    BY <1>7 DEF ReadCount, writer, Length, HeadSlot, TailSlot, Wrapped
  <2>2. Taking = 1 /\ Taking' = 0 /\ Adding' = Adding
    BY <1>3, <1>7, <2>1, OnePending DEF ReadCount, RGoto, Adding, Taking
  <2>3. RCount' = IF RCount = CountMod - 1 THEN 0 ELSE RCount + 1
    BY <1>1, <2>1, NextCount DEF Numbers
  <2> QED BY <1>1, <1>2, <2>1, <2>2, <2>3 DEF Numbers, Counted, Ahead
<1>8. CASE UNCHANGED <<RCount, WCount, Adding, Taking, Length>>
  BY <1>8 DEF Counted, Ahead
<1> QED BY <1>4, <1>5, <1>6, <1>7, <1>8, CountStands

LEMMA CountInit == Init => Counted /\ SeenIsCurrent
<1> SUFFICES ASSUME Init PROVE Counted /\ SeenIsCurrent
  OBVIOUS
<1>1. Adding = 0 /\ Taking = 0 /\ RCount = 0 /\ WCount = 0
  BY DEF Init, Adding, Taking
<1>2. Length = 0
  BY SizeAssumption DEF Init, Length, HeadSlot, Wrapped, Slots, NOT_EXISTS_DATA
<1> QED BY <1>1, <1>2 DEF Init, Counted, Ahead, SeenIsCurrent

LEMMA SeenStep == OneReader => (RingInv /\ SeenIsCurrent /\ [Next]_vars => SeenIsCurrent')
<1> SUFFICES ASSUME OneReader, RingInv, SeenIsCurrent, [Next]_vars,
                    NEW c \in Consumers, rpc'[c] = "compare"
             PROVE  seenR'[c] = RCount'
  BY DEF SeenIsCurrent
<1>1. rpc \in [Consumers -> {"idle", "lock", "check", "copy", "clear", "count", "wrap",
                             "compare"}]
      /\ seenR \in [Consumers -> 0 .. CountMod - 1]
  BY DEF RingInv, OwnershipInv, TypeOK
<1>2. ASSUME NEW p \in Producers, CallAdd(p) \/ AddStep(p) PROVE seenR'[c] = RCount'
  BY <1>2 DEF CallAdd, AddStep, AddLock, AddFindsRoom, TryAddFails, AddStore, AddPublish,
              AddCount, AddReturn, ring, reader, SeenIsCurrent
<1>3. ASSUME NEW d \in Consumers, CallRead(d) \/ ReadStep(d) PROVE seenR'[c] = RCount'
  <2>1. d = c
    BY DEF OneReader
  <2>2. rpc'[c] # "compare"
    BY <1>1, <1>3, <2>1 DEF CallRead, ReadStep, ReadLock, ReadFindsNothing, ReadFindsItem,
          ReadCopy, ReadClear, ReadCount, ReadReturn, IsEmptyCompare, RGoto
  <2> QED BY <2>2
<1>4. ASSUME NEW d \in Consumers, IsEmptyLoadR(d) PROVE seenR'[c] = RCount'
  <2>1. d = c
    BY DEF OneReader
  <2> QED BY <1>1, <1>4, <2>1 DEF IsEmptyLoadR, ring
<1>5. CASE UNCHANGED vars
  BY <1>5 DEF vars, ring, reader, SeenIsCurrent
<1> QED BY <1>2, <1>3, <1>4, <1>5 DEF Next

LEMMA DrainedStep ==
    ASSUME OneReader, RingInv, Counted, SeenIsCurrent, [Next]_vars,
           NEW c \in Consumers, rres[c] # "drained", rres'[c] = "drained"
    PROVE  Length <= Cardinality({p \in Producers : wpc[p] = "count"})
<1> DEFINE Late == {p \in Producers : wpc[p] = "count"}
<1>1. rres \in [Consumers -> {"none", "pending", "true", "false", "drained", "busy"}]
  BY DEF RingInv, OwnershipInv, TypeOK
<1>2. IsEmptyCompare(c) /\ seenR[c] = WCount
  <2>1. ASSUME NEW p \in Producers, CallAdd(p) \/ AddStep(p) PROVE FALSE
    BY <2>1 DEF CallAdd, AddStep, AddLock, AddFindsRoom, TryAddFails, AddStore, AddPublish,
                AddCount, AddReturn, reader
  <2>2. ASSUME NEW d \in Consumers,
               CallRead(d) \/ IsEmptyLoadR(d) \/ (ReadStep(d) /\ ~IsEmptyCompare(d))
        PROVE  FALSE
    BY <1>1, <2>2
      DEF CallRead, ReadStep, ReadLock, ReadFindsNothing, ReadFindsItem,
          ReadCopy,
                      ReadClear, ReadCount, ReadReturn, IsEmptyLoadR
  <2>3. ASSUME NEW d \in Consumers, IsEmptyCompare(d)
        PROVE  d = c /\ seenR[c] = WCount
    <3>1. d = c
      BY DEF OneReader
    <3> QED BY <1>1, <2>3, <3>1 DEF IsEmptyCompare
  <2>4. CASE UNCHANGED vars
    BY <2>4 DEF vars, reader
  <2> QED BY <2>1, <2>2, <2>3, <2>4 DEF Next
<1>3. rpc[c] = "compare" /\ RCount = WCount
  BY <1>2 DEF IsEmptyCompare, RGoto, SeenIsCurrent
<1>4. Taking = 0
  BY <1>3 DEF OneReader, Taking
<1>5. Length = Adding
  BY <1>3, <1>4, Numbered, SizeAssumption, CountAssumption DEF Numbers, Counted, Ahead
<1>6. CASE Late = {}
  <2>1. Adding = 0
    BY <1>6 DEF Adding
  <2> QED BY <1>5, <1>6, <2>1, FS_EmptySet
<1>7. CASE Late # {}
  <2>1. PICK p \in Producers : wpc[p] = "count"
    BY <1>7
  <2>2. Late = {p}
    BY <2>1, OnePending
  <2>3. Cardinality(Late) = 1
    BY <2>2, FS_Singleton
  <2> QED BY <1>5, <2>1, <2>3 DEF Adding
<1> QED BY <1>6, <1>7

(***************************************************************************)
(* For the queues of the kernel, which have one reader: what IsEmpty calls *)
(* drained holds no more than what Add has published without having        *)
(* returned, also when the u32 counters have wrapped (IsEmpty, lines       *)
(* 125-127, against the order of lines 58 and 59).                         *)
(***************************************************************************)
THEOREM DrainedIsReturned == OneReader => (Spec => DrainedMeansReturned)
<1> SUFFICES ASSUME OneReader PROVE Spec => DrainedMeansReturned
  OBVIOUS
<1>1. RingInv /\ Counted /\ SeenIsCurrent /\ [Next]_vars =>
        [\A c \in Consumers : rres[c] # "drained" /\ rres'[c] = "drained"
            => Length <= Cardinality({p \in Producers : wpc[p] = "count"})]_vars
  BY DrainedStep
<1>2. RingInv /\ SeenIsCurrent /\ [Next]_vars => SeenIsCurrent'
  BY SeenStep
<1> QED BY <1>1, <1>2, RingInit, RingStep, CountInit, CountStep, PTL
        DEF Spec, DrainedMeansReturned
=============================================================================
