------------------------------ MODULE TimerProofs ------------------------------
(***************************************************************************)
(* Proofs about Timer for any number of timers, nodes and arguments, as    *)
(* long as an s32 can number the slots of all due dates: the wheel never   *)
(* loses a running timer and never runs one early, not even when the       *)
(* uptime, in milliseconds, no longer fits the s32 of Processing, and a    *)
(* scan gets closer to its target with every step but those of callbacks.  *)
(***************************************************************************)
EXTENDS Timer, SequenceTheorems, TLAPS

------------------------------------------------------------------------------
(* Rounding to slots *)

LEMMA DividedNat ==
    ASSUME NEW a \in Nat
    PROVE  /\ Divided(a) \in Nat
           /\ Scale * Divided(a) <= a
           /\ a < Scale * (Divided(a) + 1)
BY ScaleAssumption DEF Divided

LEMMA ProductMonotonic ==
    ASSUME NEW s \in Nat, NEW p \in Nat, NEW q \in Nat, p <= q
    PROVE  s * p <= s * q
<1>1. PICK d \in Nat : q = p + d
  <2>1. q - p \in Nat /\ q = p + (q - p)
    OBVIOUS
  <2> QED BY <2>1
<1>2. s * q = s * p + s * d
  BY <1>1
<1>3. s * d \in Nat /\ s * p \in Nat
  OBVIOUS
<1> QED BY <1>2, <1>3

\* A later date never falls into an earlier slot.
LEMMA DividedMonotonic ==
    ASSUME NEW a \in Nat, NEW b \in Nat, a <= b
    PROVE  Divided(a) <= Divided(b)
<1> SUFFICES ASSUME Divided(b) + 1 <= Divided(a) PROVE FALSE
  BY DividedNat
<1>1. Scale * (Divided(b) + 1) <= Scale * Divided(a)
  BY ScaleAssumption, DividedNat, ProductMonotonic
<1> QED BY <1>1, DividedNat, ScaleAssumption

\* One interval later is at least one slot later.
LEMMA NextSlotIsLater ==
    ASSUME NEW a \in Nat, NEW i \in Nat, i >= MinInterval
    PROVE  Divided(a) + 1 <= Divided(a + i)
<1>1. a + Scale \in Nat /\ a + i \in Nat /\ a + Scale <= a + i
  BY ScaleAssumption
<1>2. Divided(a + Scale) <= Divided(a + i)
  BY <1>1, DividedMonotonic
<1>3. Divided(a) + 1 <= Divided(a + Scale)
  <2> SUFFICES ASSUME Divided(a + Scale) <= Divided(a) PROVE FALSE
    BY <1>1, DividedNat
  <2>1. Scale * Divided(a + Scale) <= Scale * Divided(a)
    BY <1>1, ScaleAssumption, DividedNat, ProductMonotonic
  <2>2. Scale * (Divided(a + Scale) + 1) = Scale * Divided(a + Scale) + Scale
    BY <1>1, DividedNat, ScaleAssumption
  <2>3. a + Scale < Scale * (Divided(a + Scale) + 1) /\ Scale * Divided(a) <= a
    BY <1>1, DividedNat
  <2>4. Scale * Divided(a + Scale) \in Nat /\ Scale * Divided(a) \in Nat
    BY <1>1, DividedNat, ScaleAssumption
  <2> QED BY <2>1, <2>2, <2>3, <2>4, ScaleAssumption
<1> QED BY <1>1, <1>2, <1>3, DividedNat

\* As long as it fits, the conversion to s32 changes nothing.
LEMMA FitsS32 ==
    ASSUME NEW x \in Nat, x < S32
    PROVE  ToS32(x) = x
<1>1. x + S32 < 2 * S32 /\ x + S32 \in Nat
  BY ScaleAssumption
<1>2. (x + S32) % (2 * S32) = x + S32
  BY <1>1, ScaleAssumption
<1> QED BY <1>2, ScaleAssumption DEF ToS32

\* LOOP_FOREVER fits as well.
LEMMA ForeverFits == ToS32(LOOP_FOREVER) = LOOP_FOREVER
<1>1. S32 - 1 \in Nat /\ S32 - 1 < 2 * S32 /\ 2 * S32 \in Nat \ {0}
  BY ScaleAssumption
<1>2. (S32 - 1) % (2 * S32) = S32 - 1
  BY <1>1
<1>3. -1 + S32 = S32 - 1
  BY ScaleAssumption
<1> QED BY <1>1, <1>2, <1>3, ScaleAssumption DEF ToS32, LOOP_FOREVER

\* When it does not fit, the conversion yields an earlier time.
LEMMA NeverLaterInS32 ==
    ASSUME NEW x \in Nat
    PROVE  ToS32(x) \in Int /\ ToS32(x) <= x
<1> DEFINE m == 2 * S32
           y == x + S32
<1>1. m \in Nat \ {0} /\ y \in Nat
  BY ScaleAssumption
<1> HIDE DEF m, y
<1>2. y = m * (y \div m) + (y % m) /\ (y % m) \in Nat /\ (y \div m) \in Nat
  BY <1>1
<1>3. \A a, b \in Nat : a * b \in Nat
  OBVIOUS
<1>4. m * (y \div m) \in Nat
  BY <1>1, <1>2, <1>3
<1>5. (y % m) <= y
  BY <1>1, <1>2, <1>4
<1> QED BY <1>2, <1>5, ScaleAssumption DEF ToS32, m, y

LEMMA TargetNotAhead ==
    ASSUME NEW x \in Nat
    PROVE  Divided(ToS32(x)) \in Int /\ Divided(ToS32(x)) <= Divided(x)
<1>1. ToS32(x) \in Int /\ ToS32(x) <= x
  BY NeverLaterInS32
<1>2. CASE ToS32(x) \in Nat
  BY <1>1, <1>2, DividedMonotonic, DividedNat
<1>3. CASE ToS32(x) \notin Nat
  <2> DEFINE z == -ToS32(x)
  <2>1. z \in Nat /\ ~(ToS32(x) >= 0)
    BY <1>1, <1>3
  <2> HIDE DEF z
  <2>2. (z \div Scale) \in Nat
    BY <2>1, ScaleAssumption
  <2>3. Divided(ToS32(x)) = -(z \div Scale)
    BY <2>1 DEF Divided, z
  <2> QED BY <2>2, <2>3, DividedNat
<1> QED BY <1>2, <1>3

------------------------------------------------------------------------------
(* Pushing a node on a slot list *)

LEMMA PushFront ==
    ASSUME NEW S, NEW s \in Seq(S), NEW e \in S
    PROVE  /\ <<e>> \o s \in Seq(S)
           /\ Len(<<e>> \o s) = Len(s) + 1
           /\ (<<e>> \o s)[1] = e
           /\ \A i \in 1 .. Len(s) : (<<e>> \o s)[i + 1] = s[i]
<1>1. <<e>> \in Seq(S) /\ Len(<<e>>) = 1 /\ <<e>>[1] = e
  OBVIOUS
<1>2. /\ <<e>> \o s \in Seq(S)
      /\ Len(<<e>> \o s) = 1 + Len(s)
      /\ \A i \in 1 .. 1 + Len(s) :
            (<<e>> \o s)[i] = IF i <= 1 THEN <<e>>[i] ELSE s[i - 1]
  BY <1>1, ConcatProperties
<1>3. Len(s) \in Nat
  OBVIOUS
<1>4. ASSUME NEW i \in 1 .. Len(s) PROVE (<<e>> \o s)[i + 1] = s[i]
  <2>1. i + 1 \in 1 .. 1 + Len(s) /\ ~(i + 1 <= 1) /\ (i + 1) - 1 = i
    BY <1>3
  <2> QED BY <1>2, <2>1
<1> QED BY <1>1, <1>2, <1>3, <1>4

SlotsTyped == \A k \in DOMAIN slots : slots[k] \in Seq(Nodes)

LEMMA SlotAddEntries ==
    ASSUME SlotsTyped, NEW k \in Int, NEW n \in Nodes, SlotAdd(k, n)
    PROVE  /\ DOMAIN slots' = DOMAIN slots \cup {k}
           /\ SlotsTyped'
           /\ \A j \in DOMAIN slots' : j # k => slots'[j] = slots[j]
           /\ SlotList(k) \in Seq(Nodes)
           /\ DOMAIN slots'[k] = 1 .. Len(SlotList(k)) + 1
           /\ slots'[k][1] = n
           /\ \A i \in 1 .. Len(SlotList(k)) : slots'[k][i + 1] = SlotList(k)[i]
<1>1. SlotList(k) \in Seq(Nodes)
  BY DEF SlotsTyped, SlotList
<1>2. /\ DOMAIN slots' = DOMAIN slots \cup {k}
      /\ slots'[k] = <<n>> \o SlotList(k)
      /\ \A j \in DOMAIN slots' : j # k => slots'[j] = slots[j]
  BY DEF SlotAdd
<1>3. /\ slots'[k] \in Seq(Nodes)
      /\ Len(slots'[k]) = Len(SlotList(k)) + 1
      /\ slots'[k][1] = n
      /\ \A i \in 1 .. Len(SlotList(k)) : slots'[k][i + 1] = SlotList(k)[i]
  BY <1>1, <1>2, PushFront
<1>4. DOMAIN slots'[k] = 1 .. Len(SlotList(k)) + 1
  BY <1>3
<1>5. SlotsTyped'
  BY <1>2, <1>3 DEF SlotsTyped
<1> QED BY <1>1, <1>2, <1>3, <1>4, <1>5

\* The wheel after a push holds what it held and the pushed node.
LEMMA SlotAddKeepsWheel ==
    ASSUME SlotsTyped, ListedOnce, NEW k \in Int, NEW n \in Nodes, SlotAdd(k, n),
           \A j \in DOMAIN slots : \A i \in DOMAIN slots[j] : slots[j][i] # n
    PROVE  /\ SlotsTyped' /\ ListedOnce'
           /\ \E i \in DOMAIN slots'[k] : slots'[k][i] = n
           /\ DOMAIN slots' = DOMAIN slots \cup {k}
           /\ \A j \in DOMAIN slots : \A h \in DOMAIN slots[j] :
                 \E i \in DOMAIN slots'[j] : slots'[j][i] = slots[j][h]
           /\ \A j \in DOMAIN slots' : \A i \in DOMAIN slots'[j] :
                 \/ j = k /\ slots'[j][i] = n
                 \/ /\ j \in DOMAIN slots
                    /\ \E h \in DOMAIN slots[j] : slots'[j][i] = slots[j][h]
<1> DEFINE L == SlotList(k)
<1>1. /\ DOMAIN slots' = DOMAIN slots \cup {k}
      /\ SlotsTyped'
      /\ \A j \in DOMAIN slots' : j # k => slots'[j] = slots[j]
      /\ L \in Seq(Nodes)
      /\ DOMAIN slots'[k] = 1 .. Len(L) + 1
      /\ slots'[k][1] = n
      /\ \A i \in 1 .. Len(L) : slots'[k][i + 1] = L[i]
  BY SlotAddEntries
<1>2. k \in DOMAIN slots => L = slots[k]
  BY DEF SlotList
<1>3. k \notin DOMAIN slots => L = <<>> /\ Len(L) = 0
  BY DEF SlotList
<1>4. Len(L) \in Nat /\ DOMAIN L = 1 .. Len(L)
  BY <1>1
<1> HIDE DEF L
<1>5. \A i \in DOMAIN slots'[k] :
         \/ i = 1 /\ slots'[k][i] = n
         \/ /\ k \in DOMAIN slots /\ i - 1 \in DOMAIN slots[k]
            /\ slots'[k][i] = slots[k][i - 1]
  <2> SUFFICES ASSUME NEW i \in 2 .. Len(L) + 1
               PROVE  /\ k \in DOMAIN slots /\ i - 1 \in DOMAIN slots[k]
                      /\ slots'[k][i] = slots[k][i - 1]
    BY <1>1, <1>4
  <2>1. i - 1 \in 1 .. Len(L) /\ (i - 1) + 1 = i
    BY <1>4
  <2>2. slots'[k][i] = L[i - 1]
    BY <1>1, <2>1
  <2>3. k \in DOMAIN slots
    BY <1>3, <1>4
  <2> QED BY <1>2, <1>4, <2>1, <2>2, <2>3
<1>6. \A i \in DOMAIN slots'[k] : i \in Nat
  BY <1>1, <1>4
<1>7. ListedOnce'
  <2> SUFFICES ASSUME NEW j \in DOMAIN slots', NEW m \in DOMAIN slots',
                      NEW h \in DOMAIN slots'[j], NEW i \in DOMAIN slots'[m],
                      slots'[j][h] = slots'[m][i]
               PROVE  j = m /\ h = i
    BY DEF ListedOnce
  <2>1. CASE j # k /\ m # k
    BY <1>1, <2>1 DEF ListedOnce
  <2>2. CASE j = k /\ m # k
    <3>1. m \in DOMAIN slots /\ slots'[m] = slots[m]
      BY <1>1, <2>2
    <3> QED BY <1>5, <2>2, <3>1 DEF ListedOnce
  <2>3. CASE j # k /\ m = k
    <3>1. j \in DOMAIN slots /\ slots'[j] = slots[j]
      BY <1>1, <2>3
    <3> QED BY <1>5, <2>3, <3>1 DEF ListedOnce
  <2>4. CASE j = k /\ m = k
    <3>0. /\ h \in DOMAIN slots'[k] /\ i \in DOMAIN slots'[k]
          /\ slots'[k][h] = slots'[k][i]
      BY <2>4
    <3>1. CASE h = 1 \/ i = 1
      <4>1. \A g \in DOMAIN slots'[k] : slots'[k][g] = n => g = 1
        BY <1>5
      <4> QED BY <1>1, <2>4, <3>0, <3>1, <4>1
    <3>2. CASE h # 1 /\ i # 1
      <4>1. /\ k \in DOMAIN slots
            /\ h - 1 \in DOMAIN slots[k] /\ i - 1 \in DOMAIN slots[k]
            /\ slots[k][h - 1] = slots[k][i - 1]
        BY <1>5, <3>0, <3>2
      <4>2. h - 1 = i - 1
        BY <4>1 DEF ListedOnce
      <4> QED BY <1>6, <2>4, <3>0, <4>2
    <3> QED BY <3>1, <3>2
  <2> QED BY <2>1, <2>2, <2>3, <2>4
<1>8. ASSUME NEW j \in DOMAIN slots, NEW h \in DOMAIN slots[j]
      PROVE  \E i \in DOMAIN slots'[j] : slots'[j][i] = slots[j][h]
  <2>1. CASE j # k
    BY <1>1, <2>1
  <2>2. CASE j = k
    <3>1. h \in 1 .. Len(L) /\ L = slots[k]
      BY <1>2, <1>4, <2>2
    <3>2. h + 1 \in DOMAIN slots'[k] /\ slots'[k][h + 1] = slots[k][h]
      BY <1>1, <1>4, <3>1
    <3> QED BY <2>2, <3>2
  <2> QED BY <2>1, <2>2
<1>9. \E i \in DOMAIN slots'[k] : slots'[k][i] = n
  BY <1>1, <1>4
<1>10. ASSUME NEW j \in DOMAIN slots', NEW i \in DOMAIN slots'[j]
       PROVE  \/ j = k /\ slots'[j][i] = n
              \/ /\ j \in DOMAIN slots
                 /\ \E h \in DOMAIN slots[j] : slots'[j][i] = slots[j][h]
  <2>1. CASE j = k
    BY <1>5, <2>1
  <2>2. CASE j # k
    BY <1>1, <2>2
  <2> QED BY <2>1, <2>2
<1> QED BY <1>1, <1>7, <1>8, <1>9, <1>10

------------------------------------------------------------------------------
(* The inductive invariant *)

\* With slots of 20 ms an s32 numbers the slots of 497 days; the arguments of
\* StartTimer survive their conversion, 24.8 days.
DatesFit ==
    /\ \A x \in Delays \cup Intervals : x < S32 /\ Divided(MaxNow + x) < S32
    /\ \A l \in Loops : l < S32

\* Then no conversion makes a node's fields negative.
FittingNode == [status : {"NOT_FOUND", "RUN"}, timer : Timers \cup {NoTimer},
                interval : Nat, max : {LOOP_FOREVER} \cup Nat, hits : Nat, next : Nat]

TypesFit == WheelOK /\ node \in [Nodes -> FittingNode]

InCallback == pc \in {"onstart", "ontime", "onterminate"}

\* Where Processing stands: the cursor trails the clock, and the node being
\* called back belongs to the slot under the cursor until it is moved.
ScanInv ==
    /\ InCallback <=> cur # NoNode
    /\ pc # "idle" => tick <= now /\ target <= Divided(tick)
    /\ pc = "run" \/ InCallback => cursor < target /\ cursor \in DOMAIN slots
    /\ cursor <= Divided(now)
    /\ InCallback => Live(cur)
    /\ pc \in {"onstart", "ontime"} => Divided(node[cur].next) = cursor

FreeInv == \A n \in Nodes :
    /\ ~Live(n) => node[n] = FreeNode
    /\ Live(n) => node[n].interval \in Intervals

TimerInv == TypesFit /\ EveryTimerIsAhead /\ ScanInv /\ FreeInv

LEMMA TimerInit == Init => TimerInv
<1> SUFFICES ASSUME Init PROVE TimerInv
  OBVIOUS
<1>1. Divided(0) = 0
  BY ScaleAssumption, DividedNat DEF Divided
<1>2. DOMAIN slots = {}
  BY DEF Init
<1>3. TypesFit
  BY <1>2, ScaleAssumption DEF Init, TypesFit, WheelOK, FittingNode, FreeNode
<1>4. EveryTimerIsAhead
  BY <1>2 DEF Init, EveryTimerIsAhead, EveryTimerListed, ListedAhead, ListedOnce,
              Live, FreeNode
<1>5. ScanInv /\ FreeInv
  BY <1>1 DEF Init, ScanInv, FreeInv, InCallback, Live, FreeNode
<1> QED BY <1>3, <1>4, <1>5 DEF TimerInv

\* Steps that touch neither the wheel nor a node.
LEMMA WheelStands ==
    ASSUME EveryTimerIsAhead, slots' = slots, node' = node, cur' = cur,
           cursor' = cursor
    PROVE  EveryTimerIsAhead'
BY DEF EveryTimerIsAhead, EveryTimerListed, ListedAhead, ListedOnce, Live

LEMMA NodeFields ==
    ASSUME TypesFit, NEW n \in Nodes
    PROVE  /\ node[n].next \in Nat /\ node[n].interval \in Nat
           /\ node[n].hits \in Nat
           /\ node[n].max \in {LOOP_FOREVER} \cup Nat
           /\ node[n].status \in {"NOT_FOUND", "RUN"}
           /\ node[n].timer \in Timers \cup {NoTimer}
BY DEF TypesFit, WheelOK, FittingNode

LEMMA ClockStep ==
    ASSUME TimerInv, Clock
    PROVE  TimerInv'
<1> PICK d \in ClockSteps : now + d <= MaxNow /\ now' = now + d
  BY DEF Clock
<1>1. now \in Nat /\ now' \in 0 .. MaxNow /\ now <= now'
  BY ArgumentAssumption, ScaleAssumption DEF TimerInv, TypesFit, WheelOK
<1>2. Divided(now) <= Divided(now')
  BY <1>1, DividedMonotonic
<1>3. TypesFit'
  BY <1>1 DEF Clock, TimerInv, TypesFit, WheelOK
<1>4. EveryTimerIsAhead'
  BY WheelStands DEF Clock, TimerInv
<1>5. ScanInv'
  <2>1. cursor <= Divided(now')
    BY <1>1, <1>2, DividedNat DEF TimerInv, ScanInv, TypesFit, WheelOK
  <2> QED BY <1>1, <2>1 DEF Clock, TimerInv, TypesFit, WheelOK, ScanInv, InCallback, Live
<1> QED BY <1>3, <1>4, <1>5 DEF TimerInv, Clock, FreeInv, Live

LEMMA KillTimerStep ==
    ASSUME TimerInv, NEW t \in Timers, KillTimer(t)
    PROVE  TimerInv'
<1>1. TypesFit'
  BY DEF KillTimer, TimerInv, TypesFit, WheelOK
<1>2. EveryTimerIsAhead'
  BY WheelStands DEF KillTimer, TimerInv
<1> QED BY <1>1, <1>2 DEF KillTimer, TimerInv, ScanInv, FreeInv, InCallback, Live

LEMMA ProcessingStarts ==
    ASSUME TimerInv, Processing
    PROVE  TimerInv'
<1>1. now \in Nat /\ target' \in Int /\ target' <= Divided(now)
  BY TargetNotAhead DEF Processing, TimerInv, TypesFit, WheelOK
<1>2. TypesFit'
  BY <1>1 DEF Processing, TimerInv, TypesFit, WheelOK
<1>3. EveryTimerIsAhead'
  BY WheelStands DEF Processing, TimerInv
<1> QED BY <1>1, <1>2, <1>3 DEF Processing, TimerInv, ScanInv, FreeInv, InCallback, Live

\* The cursor may pass a slot that does not exist: no node is behind it then.
LEMMA ScanStepStep ==
    ASSUME TimerInv, ScanStep
    PROVE  TimerInv'
<1>1. CASE cursor \in DOMAIN slots
  <2>1. TypesFit'
    BY <1>1 DEF ScanStep, TimerInv, TypesFit, WheelOK
  <2>2. EveryTimerIsAhead'
    BY <1>1, WheelStands DEF ScanStep, TimerInv
  <2> QED BY <1>1, <2>1, <2>2
      DEF ScanStep, TimerInv, ScanInv, FreeInv, InCallback, Live
<1>2. CASE cursor \notin DOMAIN slots
  <2>1. TypesFit'
    BY <1>2 DEF ScanStep, TimerInv, TypesFit, WheelOK
  <2>2. ListedAhead'
    <3> SUFFICES ASSUME NEW k \in DOMAIN slots, NEW i \in DOMAIN slots[k]
                 PROVE  k >= cursor + 1
      BY <1>2 DEF ScanStep, TimerInv, EveryTimerIsAhead, ListedAhead, Live
    <3>1. k >= cursor /\ k # cursor /\ k \in Int /\ cursor \in Int
      BY <1>2 DEF TimerInv, EveryTimerIsAhead, ListedAhead, TypesFit, WheelOK
    <3> QED BY <3>1
  <2>3. EveryTimerListed' /\ ListedOnce'
    BY <1>2 DEF ScanStep, TimerInv, EveryTimerIsAhead, EveryTimerListed, ListedOnce, Live
  <2>4. cursor + 1 <= Divided(now)
    <3>1. Divided(tick) <= Divided(now) /\ Divided(tick) \in Nat /\ Divided(now) \in Nat
      BY DividedMonotonic, DividedNat DEF ScanStep, TimerInv, ScanInv, TypesFit, WheelOK
    <3> QED BY <3>1 DEF ScanStep, TimerInv, ScanInv, TypesFit, WheelOK
  <2> QED BY <1>2, <2>1, <2>2, <2>3, <2>4
      DEF ScanStep, TimerInv, EveryTimerIsAhead, ScanInv, FreeInv, InCallback, Live
<1> QED BY <1>1, <1>2

LEMMA ScanEndsStep ==
    ASSUME TimerInv, ScanEnds
    PROVE  TimerInv'
<1>1. TypesFit'
  BY ScaleAssumption DEF ScanEnds, TimerInv, TypesFit, WheelOK
<1>2. EveryTimerIsAhead'
  BY WheelStands DEF ScanEnds, TimerInv
<1> QED BY <1>1, <1>2 DEF ScanEnds, TimerInv, ScanInv, FreeInv, InCallback, Live

LEMMA OnStartReturnsStep ==
    ASSUME TimerInv, OnStartReturns
    PROVE  TimerInv'
<1>1. TypesFit'
  BY DEF OnStartReturns, TimerInv, TypesFit, WheelOK
<1>2. EveryTimerIsAhead'
  BY WheelStands DEF OnStartReturns, TimerInv
<1> QED BY <1>1, <1>2 DEF OnStartReturns, TimerInv, ScanInv, FreeInv, InCallback, Live

LEMMA RunNodeStep ==
    ASSUME TimerInv, RunNode
    PROVE  TimerInv'
<1> DEFINE n == Head(slots[cursor])
<1>1. /\ cursor \in DOMAIN slots /\ slots[cursor] \in Seq(Nodes)
      /\ slots[cursor] # <<>>
      /\ DOMAIN slots' = DOMAIN slots
      /\ slots'[cursor] = Tail(slots[cursor])
      /\ \A k \in DOMAIN slots : k # cursor => slots'[k] = slots[k]
      /\ cur' = n /\ cur = NoNode
  BY DEF RunNode, TimerInv, TypesFit, WheelOK, ScanInv, InCallback
<1>2. /\ n \in Nodes /\ n = slots[cursor][1] /\ 1 \in DOMAIN slots[cursor]
      /\ slots'[cursor] \in Seq(Nodes)
      /\ DOMAIN slots[cursor] = 1 .. Len(slots[cursor])
      /\ DOMAIN slots'[cursor] = 1 .. Len(slots[cursor]) - 1
      /\ Len(slots[cursor]) \in Nat
      /\ \A i \in 1 .. Len(slots[cursor]) - 1 :
            slots'[cursor][i] = slots[cursor][i + 1]
  <2>1. /\ Tail(slots[cursor]) \in Seq(Nodes)
        /\ Head(slots[cursor]) \in Nodes
        /\ Len(Tail(slots[cursor])) = Len(slots[cursor]) - 1
        /\ \A i \in 1 .. Len(Tail(slots[cursor])) :
              Tail(slots[cursor])[i] = slots[cursor][i + 1]
    BY <1>1, HeadTailProperties
  <2>2. Head(slots[cursor]) = slots[cursor][1] /\ Len(slots[cursor]) > 0
    BY <1>1, EmptySeq
  <2>3. DOMAIN Tail(slots[cursor]) = 1 .. Len(Tail(slots[cursor]))
    BY <2>1
  <2> QED BY <1>1, <2>1, <2>2, <2>3
<1>3. Live(n) /\ Divided(node[n].next) = cursor
  BY <1>1, <1>2 DEF TimerInv, EveryTimerIsAhead, ListedAhead
<1> HIDE DEF n
<1>4. TypesFit'
  <2>1. \A k \in DOMAIN slots' : slots'[k] \in Seq(Nodes)
    BY <1>1, <1>2 DEF TimerInv, TypesFit, WheelOK
  <2>2. pc' \in {"onstart", "ontime"}
    BY DEF RunNode
  <2> QED BY <1>1, <1>2, <2>1, <2>2 DEF RunNode, TimerInv, TypesFit, WheelOK
\* Every entry that is left was there, and is not the node taken out.
<1>5. ASSUME NEW k \in DOMAIN slots', NEW i \in DOMAIN slots'[k]
      PROVE  \E h \in DOMAIN slots[k] :
                /\ slots'[k][i] = slots[k][h]
                /\ slots[k][h] # n
                /\ k = cursor => h = i + 1
                /\ k # cursor => h = i
  <2>1. CASE k = cursor
    <3>1. i + 1 \in DOMAIN slots[cursor] /\ i + 1 # 1
      BY <1>2, <2>1
    <3>2. slots[cursor][i + 1] # slots[cursor][1]
      BY <1>1, <1>2, <3>1 DEF TimerInv, EveryTimerIsAhead, ListedOnce
    <3> QED BY <1>2, <2>1, <3>1, <3>2
  <2>2. CASE k # cursor
    BY <1>1, <1>2, <2>2 DEF TimerInv, EveryTimerIsAhead, ListedOnce
  <2> QED BY <2>1, <2>2
<1>6. EveryTimerListed'
  <2> SUFFICES ASSUME NEW m \in Nodes, Live(m), m # n
               PROVE  \E k \in DOMAIN slots' : \E i \in DOMAIN slots'[k] :
                         slots'[k][i] = m
    BY <1>1 DEF RunNode, EveryTimerListed, Live
  <2> PICK k \in DOMAIN slots : \E i \in DOMAIN slots[k] : slots[k][i] = m
    BY <1>1, ArgumentAssumption DEF TimerInv, EveryTimerIsAhead, EveryTimerListed
  <2> PICK i \in DOMAIN slots[k] : slots[k][i] = m
    OBVIOUS
  <2>1. CASE k # cursor
    BY <1>1, <2>1
  <2>2. CASE k = cursor
    <3>1. i - 1 \in DOMAIN slots'[cursor] /\ (i - 1) + 1 = i
      BY <1>2, <2>2
    <3>2. slots'[cursor][i - 1] = m
      BY <1>2, <2>2, <3>1
    <3> QED BY <1>1, <3>1, <3>2
  <2> QED BY <2>1, <2>2
<1>7. ListedAhead'
  <2> SUFFICES ASSUME NEW k \in DOMAIN slots', NEW i \in DOMAIN slots'[k]
               PROVE  /\ Live(slots'[k][i]) /\ slots'[k][i] # n
                      /\ k = Divided(node[slots'[k][i]].next) /\ k >= cursor
    BY <1>1 DEF RunNode, ListedAhead, Live
  <2> QED BY <1>1, <1>5 DEF TimerInv, EveryTimerIsAhead, ListedAhead
<1>8. ListedOnce'
  <2> SUFFICES ASSUME NEW j \in DOMAIN slots', NEW k \in DOMAIN slots',
                      NEW h \in DOMAIN slots'[j], NEW i \in DOMAIN slots'[k],
                      slots'[j][h] = slots'[k][i]
               PROVE  j = k /\ h = i
    BY DEF ListedOnce
  <2>1. PICK g \in DOMAIN slots[j] :
            /\ slots'[j][h] = slots[j][g]
            /\ j = cursor => g = h + 1
            /\ j # cursor => g = h
    BY <1>5
  <2>2. PICK f \in DOMAIN slots[k] :
            /\ slots'[k][i] = slots[k][f]
            /\ k = cursor => f = i + 1
            /\ k # cursor => f = i
    BY <1>5
  <2>3. j = k /\ g = f
    <3>1. slots[j][g] = slots[k][f]
      BY <2>1, <2>2
    <3>2. j \in DOMAIN slots /\ k \in DOMAIN slots
      BY <1>1
    <3>3. ListedOnce
      BY DEF TimerInv, EveryTimerIsAhead
    <3> QED BY <3>1, <3>2, <3>3 DEF ListedOnce
  <2>4. j = cursor => h \in Nat /\ i \in Nat
    BY <1>2, <2>3
  <2> QED BY <2>1, <2>2, <2>3, <2>4
<1>9. ScanInv'
  <2>1. pc' \in {"onstart", "ontime"} /\ pc = "run"
    BY DEF RunNode
  <2>2. n # NoNode
    BY <1>2, ArgumentAssumption
  <2> QED BY <1>1, <1>3, <2>1, <2>2
      DEF RunNode, TimerInv, ScanInv, InCallback, Live
<1> QED BY <1>4, <1>6, <1>7, <1>8, <1>9
    DEF RunNode, TimerInv, EveryTimerIsAhead, FreeInv, Live

LEMMA SlotDoneStep ==
    ASSUME TimerInv, SlotDone
    PROVE  TimerInv'
<1>1. /\ cursor \in DOMAIN slots /\ slots[cursor] = <<>>
      /\ DOMAIN slots' = DOMAIN slots \ {cursor}
      /\ \A k \in DOMAIN slots' : slots'[k] = slots[k]
      /\ cursor' = cursor + 1 /\ cursor \in Nat
      /\ cur' = cur /\ cur = NoNode /\ node' = node
  BY DEF SlotDone, TimerInv, TypesFit, WheelOK, ScanInv, InCallback
<1>2. TypesFit'
  BY <1>1 DEF SlotDone, TimerInv, TypesFit, WheelOK
<1>3. DOMAIN slots[cursor] = {}
  BY <1>1
<1>4. EveryTimerListed'
  BY <1>1, <1>3 DEF TimerInv, EveryTimerIsAhead, EveryTimerListed, Live
<1>5. ListedAhead'
  <2> SUFFICES ASSUME NEW k \in DOMAIN slots', NEW i \in DOMAIN slots'[k]
               PROVE  /\ Live(slots[k][i]) /\ slots[k][i] # cur
                      /\ k = Divided(node[slots[k][i]].next) /\ k >= cursor + 1
    BY <1>1 DEF ListedAhead, Live
  <2>1. /\ Live(slots[k][i]) /\ slots[k][i] # cur
        /\ k = Divided(node[slots[k][i]].next) /\ k >= cursor
    BY <1>1 DEF TimerInv, EveryTimerIsAhead, ListedAhead
  <2>2. k \in Int /\ k # cursor
    BY <1>1 DEF TimerInv, TypesFit, WheelOK
  <2> QED BY <1>1, <2>1, <2>2
<1>6. ListedOnce'
  BY <1>1 DEF TimerInv, EveryTimerIsAhead, ListedOnce
<1>7. cursor + 1 <= Divided(now)
  <2>1. Divided(tick) <= Divided(now) /\ Divided(tick) \in Nat /\ Divided(now) \in Nat
    BY DividedMonotonic, DividedNat DEF SlotDone, TimerInv, ScanInv, TypesFit, WheelOK
  <2> QED BY <1>1, <2>1 DEF SlotDone, TimerInv, ScanInv, TypesFit, WheelOK
<1>8. ScanInv'
  BY <1>1, <1>7 DEF SlotDone, TimerInv, ScanInv, InCallback, Live
<1> QED BY <1>2, <1>4, <1>5, <1>6, <1>8
    DEF SlotDone, TimerInv, EveryTimerIsAhead, FreeInv, Live

\* A node not in the wheel enters it at a slot the cursor has not passed.
LEMMA ArmKeepsWheel ==
    ASSUME TypesFit, ListedAhead, ListedOnce,
           NEW n \in Nodes, NEW next \in Nat,
           \A j \in DOMAIN slots : \A i \in DOMAIN slots[j] : slots[j][i] # n,
           ResetTimeNode(n, next),
           Divided(next) >= cursor, Divided(next) < S32, cursor' = cursor,
           node'[n].status = "RUN", node'[n].next = next,
           \A m \in Nodes : m # n => node'[m] = node[m],
           cur' # n,
           \A j \in DOMAIN slots : \A i \in DOMAIN slots[j] : slots[j][i] # cur',
           \A m \in Nodes : Live(m) /\ m # n /\ m # cur' =>
              \E k \in DOMAIN slots : \E i \in DOMAIN slots[k] : slots[k][i] = m
    PROVE  /\ EveryTimerIsAhead'
           /\ \A j \in DOMAIN slots' : slots'[j] \in Seq(Nodes)
           /\ DOMAIN slots' = DOMAIN slots \cup {Divided(next)}
<1>1. Divided(next) \in Int /\ SlotAdd(Divided(next), n) /\ SlotsTyped
  BY DividedNat, FitsS32 DEF ResetTimeNode, Offset, TypesFit, WheelOK, SlotsTyped
<1> DEFINE k == Divided(next)
<1> HIDE DEF k
<1>2. /\ SlotsTyped' /\ ListedOnce'
      /\ \E i \in DOMAIN slots'[k] : slots'[k][i] = n
      /\ DOMAIN slots' = DOMAIN slots \cup {k}
      /\ \A j \in DOMAIN slots : \A h \in DOMAIN slots[j] :
            \E i \in DOMAIN slots'[j] : slots'[j][i] = slots[j][h]
      /\ \A j \in DOMAIN slots' : \A i \in DOMAIN slots'[j] :
            \/ j = k /\ slots'[j][i] = n
            \/ /\ j \in DOMAIN slots
               /\ \E h \in DOMAIN slots[j] : slots'[j][i] = slots[j][h]
  <2>1. /\ k \in Int /\ SlotAdd(k, n) /\ SlotsTyped /\ ListedOnce /\ n \in Nodes
        /\ \A j \in DOMAIN slots : \A i \in DOMAIN slots[j] : slots[j][i] # n
    BY <1>1 DEF k
  <2> QED BY <2>1, SlotAddKeepsWheel
<1>3. EveryTimerListed'
  <2> SUFFICES ASSUME NEW m \in Nodes, node'[m].status = "RUN", m # cur'
               PROVE  \E j \in DOMAIN slots' : \E i \in DOMAIN slots'[j] :
                         slots'[j][i] = m
    BY DEF EveryTimerListed, Live
  <2>1. CASE m = n
    BY <1>2, <2>1
  <2>2. CASE m # n
    <3>1. PICK j \in DOMAIN slots : \E h \in DOMAIN slots[j] : slots[j][h] = m
      BY <2>2 DEF Live
    <3>2. PICK h \in DOMAIN slots[j] : slots[j][h] = m
      BY <3>1
    <3>3. \E i \in DOMAIN slots'[j] : slots'[j][i] = slots[j][h]
      BY <1>2
    <3> QED BY <1>2, <3>2, <3>3
  <2> QED BY <2>1, <2>2
<1>4. ListedAhead'
  <2>1. ASSUME NEW j \in DOMAIN slots', NEW i \in DOMAIN slots'[j]
        PROVE  /\ node'[slots'[j][i]].status = "RUN" /\ slots'[j][i] # cur'
               /\ j = Divided(node'[slots'[j][i]].next) /\ j >= cursor'
    <3>1. CASE j = k /\ slots'[j][i] = n
      BY <3>1 DEF k
    <3>2. CASE j \in DOMAIN slots /\ \E h \in DOMAIN slots[j] : slots'[j][i] = slots[j][h]
      <4>1. PICK h \in DOMAIN slots[j] : slots'[j][i] = slots[j][h]
        BY <3>2
      <4>2. slots[j] \in Seq(Nodes)
        BY <3>2 DEF TypesFit, WheelOK
      <4>3. slots[j][h] # n /\ slots[j][h] # cur' /\ slots[j][h] \in Nodes
        BY <3>2, <4>2
      <4>4. /\ node[slots[j][h]].status = "RUN"
            /\ j = Divided(node[slots[j][h]].next) /\ j >= cursor
        BY <3>2 DEF ListedAhead, Live
      <4>5. node'[slots[j][h]] = node[slots[j][h]]
        BY <4>3
      <4> QED BY <4>1, <4>3, <4>4, <4>5
    <3> QED BY <1>2, <3>1, <3>2
  <2> QED BY <2>1 DEF ListedAhead, Live, Divided
<1>5. \A j \in DOMAIN slots' : slots'[j] \in Seq(Nodes)
  BY <1>2 DEF SlotsTyped
<1> QED BY <1>2, <1>3, <1>4, <1>5 DEF EveryTimerIsAhead, k

\* Arguments that fit reach the node as they are.
LEMMA StartTimerFits ==
    ASSUME DatesFit, NEW t \in Timers, StartTimer(t)
    PROVE  \E n \in Nodes, i \in Intervals, d \in Delays, l \in Loops :
              /\ ~Live(n)
              /\ node' = [node EXCEPT ![n] =
                            [status |-> "RUN", timer |-> t, interval |-> i,
                             max |-> l, hits |-> 0, next |-> now + d]]
              /\ ResetTimeNode(n, now + d)
<1>1. \A x \in Intervals \cup Delays \cup Loops : ToS32(x) = x
  <2> SUFFICES ASSUME NEW x \in Intervals \cup Delays \cup Loops PROVE ToS32(x) = x
    OBVIOUS
  <2>1. CASE x = LOOP_FOREVER
    BY <2>1, ForeverFits
  <2>2. CASE x # LOOP_FOREVER
    <3>1. x \in Nat /\ x < S32
      BY <2>2, ArgumentAssumption DEF DatesFit
    <3> QED BY <3>1, FitsS32
  <2> QED BY <2>1, <2>2
<1>2. PICK n \in Nodes, i \in Intervals, d \in Delays, l \in Loops :
          /\ ~Live(n)
          /\ node' = [node EXCEPT ![n] =
                        [status |-> "RUN", timer |-> t, interval |-> ToS32(i),
                         max |-> ToS32(l), hits |-> 0, next |-> now + ToS32(d)]]
          /\ ResetTimeNode(n, now + ToS32(d))
  BY DEF StartTimer
<1>3. ToS32(i) = i /\ ToS32(d) = d /\ ToS32(l) = l
  BY <1>1
<1> QED BY <1>2, <1>3

\* A new timer, also one started in a callback, lands at or after the slot of
\* the present time, which the cursor has not reached.
LEMMA StartTimerStep ==
    ASSUME DatesFit, TimerInv, NEW t \in Timers, StartTimer(t)
    PROVE  TimerInv'
<1>1. PICK n \in Nodes, i \in Intervals, d \in Delays, l \in Loops :
          /\ ~Live(n)
          /\ node' = [node EXCEPT ![n] =
                        [status |-> "RUN", timer |-> t, interval |-> i,
                         max |-> l, hits |-> 0, next |-> now + d]]
          /\ ResetTimeNode(n, now + d)
  BY StartTimerFits
<1> DEFINE new == [status |-> "RUN", timer |-> t, interval |-> i,
                   max |-> l, hits |-> 0, next |-> now + d]
<1>2. /\ now \in Nat /\ now + d \in Nat /\ now <= now + d
      /\ Divided(now) <= Divided(now + d)
      /\ Divided(now) \in Nat /\ Divided(now + d) \in Nat
  <2>1. now \in Nat /\ now + d \in Nat /\ now <= now + d
    BY ArgumentAssumption DEF TimerInv, TypesFit, WheelOK
  <2> HIDE DEF new
  <2> QED BY <2>1, DividedMonotonic, DividedNat
<1>3. new \in FittingNode
  BY <1>2, ArgumentAssumption DEF FittingNode
<1>4. /\ node' \in [Nodes -> FittingNode] /\ node'[n] = new
      /\ node'[n].status = "RUN" /\ node'[n].next = now + d
      /\ node'[n].interval \in Intervals
      /\ \A m \in Nodes : m # n => node'[m] = node[m]
  BY <1>1, <1>3, ArgumentAssumption DEF TimerInv, TypesFit, WheelOK
<1>5. /\ cursor' = cursor /\ cur' = cur /\ pc' = pc /\ now' = now
      /\ tick' = tick /\ target' = target /\ killed' \subseteq Timers
  BY DEF StartTimer, TimerInv, TypesFit, WheelOK
<1>6. cur # n
  BY <1>1, ArgumentAssumption DEF TimerInv, ScanInv, TypesFit, WheelOK
<1>7. \A j \in DOMAIN slots : \A h \in DOMAIN slots[j] :
         slots[j][h] # n /\ slots[j][h] # cur
  BY <1>1 DEF TimerInv, EveryTimerIsAhead, ListedAhead
<1>8. Divided(now + d) >= cursor /\ Divided(now + d) < S32
  <2>1. cursor \in Nat /\ cursor <= Divided(now)
    BY DEF TimerInv, ScanInv, TypesFit, WheelOK
  <2>2. MaxNow + d \in Nat /\ now + d <= MaxNow + d
    BY ArgumentAssumption, ScaleAssumption DEF TimerInv, TypesFit, WheelOK
  <2> HIDE DEF new
  <2>3. Divided(now + d) <= Divided(MaxNow + d) /\ Divided(MaxNow + d) \in Nat
    BY <1>2, <2>2, DividedMonotonic, DividedNat
  <2>4. Divided(MaxNow + d) < S32
    BY DEF DatesFit
  <2> QED BY <1>2, <2>1, <2>3, <2>4, ScaleAssumption
<1>9. /\ EveryTimerIsAhead'
      /\ \A j \in DOMAIN slots' : slots'[j] \in Seq(Nodes)
      /\ DOMAIN slots' = DOMAIN slots \cup {Divided(now + d)}
  <2> DEFINE next == now + d
  <2>1. \A m \in Nodes : Live(m) /\ m # n /\ m # cur' =>
            \E k \in DOMAIN slots : \E h \in DOMAIN slots[k] : slots[k][h] = m
    BY <1>5 DEF TimerInv, EveryTimerIsAhead, EveryTimerListed
  <2>2. TypesFit /\ ListedAhead /\ ListedOnce
    BY DEF TimerInv, EveryTimerIsAhead
  <2>3. /\ next \in Nat /\ ResetTimeNode(n, next)
        /\ Divided(next) >= cursor /\ Divided(next) < S32
        /\ node'[n].next = next /\ node'[n].status = "RUN"
        /\ \A m \in Nodes : m # n => node'[m] = node[m]
    BY <1>1, <1>2, <1>4, <1>8
  <2>4. /\ cursor' = cursor /\ cur' # n
        /\ \A j \in DOMAIN slots : \A h \in DOMAIN slots[j] : slots[j][h] # n
        /\ \A j \in DOMAIN slots : \A h \in DOMAIN slots[j] : slots[j][h] # cur'
    BY <1>5, <1>6, <1>7
  <2>5. /\ EveryTimerIsAhead'
        /\ \A j \in DOMAIN slots' : slots'[j] \in Seq(Nodes)
        /\ DOMAIN slots' = DOMAIN slots \cup {Divided(next)}
    <3> HIDE DEF next, new
    <3> QED BY <2>1, <2>2, <2>3, <2>4, ArmKeepsWheel
  <2> QED BY <2>5
<1> HIDE DEF new
<1>10. TypesFit'
  <2>1. DOMAIN slots' \subseteq Int
    BY <1>2, <1>9 DEF TimerInv, TypesFit, WheelOK
  <2> QED BY <1>4, <1>5, <1>9, <2>1 DEF TimerInv, TypesFit, WheelOK
<1>11. ScanInv'
  <2>1. cur # NoNode => node'[cur] = node[cur]
    BY <1>4, <1>6 DEF TimerInv, TypesFit, WheelOK
  <2> QED BY <1>5, <1>9, <2>1 DEF TimerInv, ScanInv, InCallback, Live
<1>12. FreeInv'
  BY <1>4 DEF TimerInv, FreeInv, Live
<1> QED BY <1>9, <1>10, <1>11, <1>12 DEF TimerInv

\* A node is run in the slot of its due date, and that slot is a whole slot
\* behind the tick Processing scans to.
LEMMA CursorIsPast == TimerInv => NeverEarly
<1> SUFFICES ASSUME TimerInv, pc \in {"onstart", "ontime"}
             PROVE  node[cur].next <= tick
  BY DEF NeverEarly
<1>1. /\ Divided(node[cur].next) < Divided(tick) /\ tick \in Nat
      /\ cur \in Nodes
  <2>1. tick \in Nat /\ target \in Int /\ cursor \in Nat /\ Divided(tick) \in Nat
    BY DividedNat DEF TimerInv, TypesFit, WheelOK
  <2>2. /\ target <= Divided(tick) /\ cursor < target
        /\ Divided(node[cur].next) = cursor /\ cur \in Nodes
    BY ArgumentAssumption DEF TimerInv, ScanInv, InCallback, TypesFit, WheelOK
  <2> QED BY <2>1, <2>2
<1>2. node[cur].next \in Nat
  BY <1>1, NodeFields DEF TimerInv
<1> SUFFICES ASSUME tick <= node[cur].next PROVE FALSE
  BY <1>1, <1>2
<1>3. Divided(tick) <= Divided(node[cur].next)
  BY <1>1, <1>2, DividedMonotonic
<1> QED BY <1>1, <1>2, <1>3, DividedNat

\* Re-arming takes the running node to a later slot: the one under the cursor
\* can be erased once it is empty.
LEMMA OnTimeReturnsStep ==
    ASSUME DatesFit, TimerInv, OnTimeReturns
    PROVE  TimerInv'
<1> DEFINE next == node[cur].next + node[cur].interval
<1>1. /\ cur \in Nodes /\ cur # NoNode /\ Live(cur) /\ pc = "ontime"
      /\ Divided(node[cur].next) = cursor
      /\ cursor < target /\ cursor \in DOMAIN slots
  BY ArgumentAssumption DEF OnTimeReturns, TimerInv, ScanInv, InCallback, TypesFit, WheelOK
<1>2. /\ node[cur].next \in Nat /\ node[cur].interval \in Nat
      /\ node[cur].hits \in Nat /\ node[cur].interval \in Intervals
      /\ node[cur].interval >= MinInterval /\ next \in Nat
  BY <1>1, NodeFields, ArgumentAssumption DEF TimerInv, FreeInv
<1>3. /\ node'[cur].status = node[cur].status /\ node'[cur].next = next
      /\ node'[cur].interval = node[cur].interval
      /\ node' \in [Nodes -> FittingNode]
      /\ \A m \in Nodes : m # cur => node'[m] = node[m]
  <2>1. node' = [node EXCEPT ![cur] =
                   [node[cur] EXCEPT !.hits = node[cur].hits + 1, !.next = next]]
    BY <1>1 DEF OnTimeReturns, TimerInv, TypesFit, WheelOK, FittingNode
  <2>2. [node[cur] EXCEPT !.hits = node[cur].hits + 1, !.next = next] \in FittingNode
    <3>1. node[cur] \in FittingNode /\ node[cur].hits + 1 \in Nat
      BY <1>1, <1>2 DEF TimerInv, TypesFit, WheelOK
    <3> HIDE DEF next
    <3> QED BY <1>2, <3>1 DEF FittingNode
  <2>3. node[cur] \in FittingNode
    BY <1>1 DEF TimerInv, TypesFit, WheelOK
  <2> QED BY <1>1, <2>1, <2>2, <2>3 DEF TimerInv, TypesFit, WheelOK, FittingNode
<1>4. Divided(next) >= cursor /\ Divided(next) < S32
  <2>1. Divided(node[cur].next) + 1 <= Divided(next)
    BY <1>2, NextSlotIsLater
  <2>2. node[cur].next <= MaxNow
    <3>1. node[cur].next <= tick
      BY <1>1, CursorIsPast DEF NeverEarly
    <3> QED BY <1>2, <3>1, ScaleAssumption DEF TimerInv, TypesFit, WheelOK
  <2> DEFINE last == MaxNow + node[cur].interval
  <2>3. last \in Nat /\ next <= last
    BY <1>2, <2>2, ScaleAssumption
  <2>4. Divided(last) < S32
    BY <1>2 DEF DatesFit
  <2> HIDE DEF last
  <2>5. Divided(next) <= Divided(last)
    <3> HIDE DEF next
    <3> QED BY <1>2, <2>3, DividedMonotonic
  <2> QED BY <1>1, <1>2, <2>1, <2>3, <2>4, <2>5, DividedNat, ScaleAssumption
<1>5. /\ cursor' = cursor /\ now' = now /\ tick' = tick /\ target' = target
      /\ killed' = killed
  BY DEF OnTimeReturns
<1>6. FreeInv'
  BY <1>1, <1>2, <1>3 DEF TimerInv, FreeInv, Live
<1>7. CASE LastHit(cur)
  <2>1. slots' = slots /\ cur' = cur /\ pc' = "onterminate"
    BY <1>7 DEF OnTimeReturns
  <2>2. TypesFit'
    BY <1>3, <1>5, <2>1 DEF TimerInv, TypesFit, WheelOK
  <2>3. EveryTimerListed' /\ ListedOnce'
    BY <1>1, <1>3, <1>5, <2>1
       DEF TimerInv, EveryTimerIsAhead, EveryTimerListed, ListedOnce, Live
  <2>4. ListedAhead'
    <3>1. ASSUME NEW k \in DOMAIN slots, NEW i \in DOMAIN slots[k]
          PROVE  node'[slots[k][i]] = node[slots[k][i]]
      BY <1>3, <3>1 DEF TimerInv, TypesFit, WheelOK, EveryTimerIsAhead, ListedAhead
    <3> QED BY <1>5, <2>1, <3>1 DEF TimerInv, EveryTimerIsAhead, ListedAhead, Live
  <2>5. ScanInv'
    BY <1>1, <1>3, <1>5, <2>1 DEF TimerInv, ScanInv, InCallback, Live
  <2> QED BY <1>6, <2>2, <2>3, <2>4, <2>5 DEF TimerInv, EveryTimerIsAhead
<1>8. CASE ~LastHit(cur)
  <2>1. cur' = NoNode /\ pc' = "run" /\ ResetTimeNode(cur, next)
    BY <1>3, <1>8 DEF OnTimeReturns
  <2>2. \A j \in DOMAIN slots : \A h \in DOMAIN slots[j] :
           slots[j][h] # cur /\ slots[j][h] # cur' /\ slots[j][h] \in Nodes
    BY <2>1, ArgumentAssumption
       DEF TimerInv, TypesFit, WheelOK, EveryTimerIsAhead, ListedAhead
  <2>3. \A m \in Nodes : Live(m) /\ m # cur /\ m # cur' =>
            \E k \in DOMAIN slots : \E h \in DOMAIN slots[k] : slots[k][h] = m
    BY DEF TimerInv, EveryTimerIsAhead, EveryTimerListed
  <2>4. TypesFit /\ ListedAhead /\ ListedOnce /\ cur' # cur
    BY <1>1, <2>1 DEF TimerInv, EveryTimerIsAhead
  <2>5. node'[cur].status = "RUN" /\ node'[cur].next = next
    BY <1>1, <1>3 DEF Live
  <2>6. /\ EveryTimerIsAhead'
        /\ \A j \in DOMAIN slots' : slots'[j] \in Seq(Nodes)
        /\ DOMAIN slots' = DOMAIN slots \cup {Divided(next)}
    <3>1. /\ next \in Nat /\ cur \in Nodes
          /\ Divided(next) >= cursor /\ Divided(next) < S32
          /\ \A m \in Nodes : m # cur => node'[m] = node[m]
          /\ \A j \in DOMAIN slots : \A h \in DOMAIN slots[j] : slots[j][h] # cur
          /\ \A j \in DOMAIN slots : \A h \in DOMAIN slots[j] : slots[j][h] # cur'
      BY <1>1, <1>2, <1>3, <1>4, <2>2
    <3> HIDE DEF next
    <3> QED BY <1>5, <2>1, <2>3, <2>4, <2>5, <3>1, ArmKeepsWheel
  <2>7. TypesFit'
    <3>1. DOMAIN slots' \subseteq Int
      <4>1. Divided(next) \in Int
        BY <1>2, DividedNat
      <4> HIDE DEF next
      <4> QED BY <2>6, <4>1 DEF TimerInv, TypesFit, WheelOK
    <3> QED BY <1>1, <1>3, <1>5, <2>1, <2>6, <3>1 DEF TimerInv, TypesFit, WheelOK
  <2>8. ScanInv'
    BY <1>1, <1>5, <2>1, <2>6 DEF TimerInv, ScanInv, InCallback
  <2> QED BY <1>6, <2>6, <2>7, <2>8 DEF TimerInv
<1> QED BY <1>7, <1>8

LEMMA OnTerminateReturnsStep ==
    ASSUME TimerInv, OnTerminateReturns
    PROVE  TimerInv'
<1>1. /\ cur \in Nodes /\ cur # NoNode /\ pc = "onterminate"
      /\ cursor < target /\ cursor \in DOMAIN slots
  BY ArgumentAssumption DEF OnTerminateReturns, TimerInv, ScanInv, InCallback, TypesFit, WheelOK
<1>2. /\ node' = [node EXCEPT ![cur] = FreeNode]
      /\ cur' = NoNode /\ pc' = "run" /\ slots' = slots
      /\ cursor' = cursor /\ now' = now /\ tick' = tick /\ target' = target
      /\ killed' = killed
  BY DEF OnTerminateReturns
<1>3. /\ node'[cur] = FreeNode
      /\ \A m \in Nodes : m # cur => node'[m] = node[m]
  BY <1>1, <1>2 DEF TimerInv, TypesFit, WheelOK
<1>4. FreeNode \in FittingNode /\ FreeNode.status # "RUN"
  BY DEF FreeNode, FittingNode
<1>5. TypesFit'
  BY <1>1, <1>2, <1>4 DEF TimerInv, TypesFit, WheelOK
<1>6. EveryTimerListed' /\ ListedOnce'
  BY <1>2, <1>3, <1>4
     DEF TimerInv, EveryTimerIsAhead, EveryTimerListed, ListedOnce, Live
<1>7. ListedAhead'
  <2>1. ASSUME NEW k \in DOMAIN slots, NEW i \in DOMAIN slots[k]
        PROVE  /\ slots[k][i] \in Nodes
               /\ node'[slots[k][i]] = node[slots[k][i]]
    BY <1>3, <2>1 DEF TimerInv, TypesFit, WheelOK, EveryTimerIsAhead, ListedAhead
  <2> QED BY <1>2, <2>1, ArgumentAssumption
          DEF TimerInv, EveryTimerIsAhead, ListedAhead, Live
<1>8. ScanInv'
  BY <1>1, <1>2 DEF TimerInv, ScanInv, InCallback
<1>9. FreeInv'
  BY <1>3, <1>4 DEF TimerInv, FreeInv, Live
<1> QED BY <1>5, <1>6, <1>7, <1>8, <1>9 DEF TimerInv, EveryTimerIsAhead

------------------------------------------------------------------------------
(* The theorems *)

LEMMA TimerStep ==
    ASSUME DatesFit, TimerInv, [Next]_vars
    PROVE  TimerInv'
<1>1. CASE Clock
  BY <1>1, ClockStep
<1>2. CASE Processing
  BY <1>2, ProcessingStarts
<1>3. CASE ScanStep
  BY <1>3, ScanStepStep
<1>4. CASE ScanEnds
  BY <1>4, ScanEndsStep
<1>5. CASE RunNode
  BY <1>5, RunNodeStep
<1>6. CASE SlotDone
  BY <1>6, SlotDoneStep
<1>7. CASE OnStartReturns
  BY <1>7, OnStartReturnsStep
<1>8. CASE OnTimeReturns
  BY <1>8, OnTimeReturnsStep
<1>9. CASE OnTerminateReturns
  BY <1>9, OnTerminateReturnsStep
<1>10. CASE \E t \in Timers : StartTimer(t)
  BY <1>10, StartTimerStep
<1>11. CASE \E t \in Timers : KillTimer(t)
  BY <1>11, KillTimerStep
<1>12. CASE UNCHANGED vars
  BY <1>12 DEF vars, TimerInv, TypesFit, WheelOK, EveryTimerIsAhead, EveryTimerListed,
               ListedAhead, ListedOnce, ScanInv, FreeInv, InCallback, Live
<1> QED BY <1>1, <1>2, <1>3, <1>4, <1>5, <1>6, <1>7, <1>8, <1>9, <1>10, <1>11,
           <1>12 DEF Next, ProcessingStep

LEMMA TimerInvariant == DatesFit => (Spec => []TimerInv)
<1> SUFFICES ASSUME DatesFit PROVE Spec => []TimerInv
  OBVIOUS
<1>1. Init => TimerInv
  BY TimerInit
<1>2. TimerInv /\ [Next]_vars => TimerInv'
  BY TimerStep
<1> QED BY <1>1, <1>2, PTL DEF Spec

\* Every variable keeps its type; in particular SlotRun's slot exists while its
\* nodes are run (Timermgr.cpp 59-66).
THEOREM TypeCorrect == DatesFit => (Spec => []TypeOK)
<1>1. TimerInv => TypeOK
  BY DEF TimerInv, TypesFit, TypeOK, FittingNode, NodeType, LOOP_FOREVER
<1> QED BY <1>1, TimerInvariant, PTL

\* No running timer is ever lost by the wheel: it is in exactly one slot, that
\* of its due date, at or after the cursor (Timermgr.cpp 84-98).
THEOREM NoTimerLost == DatesFit => (Spec => []EveryTimerIsAhead)
<1>1. TimerInv => EveryTimerIsAhead
  BY DEF TimerInv
<1> QED BY <1>1, TimerInvariant, PTL

\* No callback runs before its due date (TimeNode.cpp 44-52).
THEOREM NoTimerEarly == DatesFit => (Spec => []NeverEarly)
BY CursorIsPast, TimerInvariant, PTL

------------------------------------------------------------------------------
(* The contract *)

\* What a node owes the application, as Contract reads it.
Owed(x) ==
    IF x.status = "RUN"
    THEN [timer |-> x.timer, due |-> x.next, period |-> x.interval,
          left |-> IF x.max \in {LOOP_FOREVER, 0} THEN -1 ELSE x.max - x.hits]
    ELSE [timer |-> NoTimer, due |-> 0, period |-> 0, left |-> 0]

Promises == [n \in Nodes |-> Owed(node[n])]

Nothing == [timer |-> NoTimer, due |-> 0, period |-> 0, left |-> 0]

\* A node has calls left until its last OnTime has returned; from then on until
\* OnTerminate has returned it is the current node.
Counts(n) == node[n].max \notin {LOOP_FOREVER, 0}

LeftInv ==
    /\ \A n \in Nodes : Live(n) =>
          /\ node[n].timer \in Timers
          /\ Counts(n) => /\ node[n].hits <= node[n].max
                          /\ node[n].hits = node[n].max <=>
                                pc = "onterminate" /\ n = cur
    /\ pc = "onterminate" => Counts(cur)

ContractInv == TimerInv /\ LeftInv

\* Steps that neither touch a node nor the phase in which the last call is over.
LEMMA LeftStands ==
    ASSUME LeftInv, node' = node, cur' = cur,
           pc = "onterminate" <=> pc' = "onterminate"
    PROVE  LeftInv'
BY DEF LeftInv, Live, Counts

\* The same, when the current node changes outside that phase.
LEMMA LeftStandsElsewhere ==
    ASSUME LeftInv, node' = node, pc # "onterminate", pc' # "onterminate"
    PROVE  LeftInv'
BY DEF LeftInv, Live, Counts

\* One call of OnTime, on the record of a promise.
Called(r) == [r EXCEPT !.due = @ + r.period, !.left = IF @ = -1 THEN @ ELSE @ - 1]

LEMMA OneCallLess ==
    ASSUME NEW t, NEW d, NEW p, NEW l, NEW r,
           r = [timer |-> t, due |-> d, period |-> p, left |-> l]
    PROVE  Called(r)
              = [timer |-> t, due |-> d + p, period |-> p,
                 left |-> IF l = -1 THEN l ELSE l - 1]
<1> DEFINE e == d + p
           m == IF l = -1 THEN l ELSE l - 1
<1>1. r.period = p /\ r.due = d /\ r.left = l
  OBVIOUS
<1>2. Called(r) = [r EXCEPT !.due = e, !.left = m]
  BY <1>1 DEF Called
<1>3. [r EXCEPT !.due = e, !.left = m]
         = [timer |-> t, due |-> e, period |-> p, left |-> m]
  <2> HIDE DEF e, m
  <2>1. [r EXCEPT !.due = e] = [timer |-> t, due |-> e, period |-> p, left |-> l]
    OBVIOUS
  <2>2. [[timer |-> t, due |-> e, period |-> p, left |-> l] EXCEPT !.left = m]
           = [timer |-> t, due |-> e, period |-> p, left |-> m]
    OBVIOUS
  <2> QED BY <2>1, <2>2
<1> QED BY <1>2, <1>3

LEMMA CalledAt ==
    ASSUME NEW S, NEW P, P = [m \in S |-> P[m]], NEW n \in S
    PROVE  [P EXCEPT ![n] = Called(P[n])]
              = [P EXCEPT ![n].due = @ + P[n].period,
                          ![n].left = IF @ = -1 THEN @ ELSE @ - 1]
BY DEF Called

LEMMA Undisturbed ==
    ASSUME node' = node, now' = now
    PROVE  UNCHANGED Contract!vars
BY DEF Contract!vars, Live

LEMMA StartKeepsContract ==
    ASSUME DatesFit, ContractInv, NEW t \in Timers, StartTimer(t)
    PROVE  LeftInv' /\ Contract!Next
<1>1. PICK n \in Nodes, i \in Intervals, d \in Delays, l \in Loops :
          /\ ~Live(n)
          /\ node' = [node EXCEPT ![n] =
                        [status |-> "RUN", timer |-> t, interval |-> i,
                         max |-> l, hits |-> 0, next |-> now + d]]
  BY StartTimerFits
<1>2. /\ node \in [Nodes -> FittingNode] /\ pc' = pc /\ cur' = cur /\ now' = now
      /\ l = LOOP_FOREVER \/ l \in Nat
  BY ArgumentAssumption DEF StartTimer, ContractInv, TimerInv, TypesFit, WheelOK
<1>3. /\ node'[n] = [status |-> "RUN", timer |-> t, interval |-> i,
                     max |-> l, hits |-> 0, next |-> now + d]
      /\ \A m \in Nodes : m # n => node'[m] = node[m]
  BY <1>1, <1>2
<1>4. pc = "onterminate" => cur \in Nodes /\ cur # n
  BY <1>1, ArgumentAssumption DEF ContractInv, TimerInv, ScanInv, InCallback, TypesFit, WheelOK
<1>5. LeftInv'
  <2>1. ASSUME NEW m \in Nodes, node'[m].status = "RUN"
        PROVE  /\ node'[m].timer \in Timers
               /\ node'[m].max \notin {LOOP_FOREVER, 0} =>
                     /\ node'[m].hits <= node'[m].max
                     /\ node'[m].hits = node'[m].max <=>
                           pc' = "onterminate" /\ m = cur'
    <3>1. CASE m = n
      <4>1. node'[m].timer = t /\ node'[m].max = l /\ node'[m].hits = 0
        BY <1>3, <3>1
      <4>2. l \notin {LOOP_FOREVER, 0} => 0 <= l /\ 0 # l
        BY <1>2
      <4> QED BY <1>2, <1>4, <3>1, <4>1, <4>2
    <3>2. CASE m # n
      BY <1>2, <1>3, <2>1, <3>2 DEF ContractInv, LeftInv, Live, Counts
    <3> QED BY <3>1, <3>2
  <2>2. pc' = "onterminate" => node'[cur'].max \notin {LOOP_FOREVER, 0}
    BY <1>2, <1>3, <1>4 DEF ContractInv, LeftInv, Counts
  <2> QED BY <2>1, <2>2 DEF LeftInv, Live, Counts
<1>6. Contract!Start(n, t)
  <2>1. Promises[n] = Nothing
    BY <1>1 DEF Promises, Owed, Nothing, Live
  <2>2. Promises' = [Promises EXCEPT ![n] =
              [timer |-> t, due |-> now + d, period |-> i,
               left |-> IF l \in {-1, 0} THEN -1 ELSE l]]
    <3>1. Owed(node'[n]) = [timer |-> t, due |-> now + d, period |-> i,
                            left |-> IF l \in {-1, 0} THEN -1 ELSE l]
      <4>1. l \notin {-1, 0} => l - 0 = l
        BY <1>2 DEF LOOP_FOREVER
      <4> QED BY <1>3, <4>1 DEF Owed, LOOP_FOREVER
    <3>2. \A m \in Nodes : m # n => Owed(node'[m]) = Owed(node[m])
      BY <1>3
    <3> QED BY <3>1, <3>2 DEF Promises
  <2> QED BY <1>2, <2>1, <2>2
      DEF Contract!Start, Contract!Nothing, Contract!Times, Contract!Forever,
          Promises, Owed, Nothing, Live
<1> QED BY <1>5, <1>6 DEF Contract!Next

\* A call of OnTime is owed, and it is due.
LEMMA OnTimeKeepsContract ==
    ASSUME ContractInv, OnTimeReturns
    PROVE  LeftInv' /\ Contract!Next
<1>1. /\ cur \in Nodes /\ cur # NoNode /\ Live(cur) /\ pc = "ontime"
      /\ now \in Nat /\ tick \in Nat /\ tick <= now /\ now' = now
      /\ node[cur] \in FittingNode
  BY ArgumentAssumption, ScaleAssumption
     DEF OnTimeReturns, ContractInv, TimerInv, ScanInv, InCallback, TypesFit, WheelOK
<1>2. /\ node[cur].next \in Nat /\ node[cur].interval \in Nat
      /\ node[cur].hits \in Nat /\ node[cur].max \in {LOOP_FOREVER} \cup Nat
      /\ node[cur].next <= tick
  BY <1>1, NodeFields, CursorIsPast DEF ContractInv, TimerInv, NeverEarly
<1>3. /\ node'[cur].status = "RUN" /\ node'[cur].timer = node[cur].timer
      /\ node'[cur].interval = node[cur].interval /\ node'[cur].max = node[cur].max
      /\ node'[cur].hits = node[cur].hits + 1
      /\ node'[cur].next = node[cur].next + node[cur].interval
      /\ \A m \in Nodes : m # cur => node'[m] = node[m]
  BY <1>1 DEF OnTimeReturns, ContractInv, TimerInv, TypesFit, WheelOK, FittingNode, Live
<1>4. /\ node[cur].timer \in Timers
      /\ Counts(cur) => node[cur].hits <= node[cur].max /\ node[cur].hits # node[cur].max
  BY <1>1 DEF ContractInv, LeftInv
<1>5. /\ pc' = "onterminate" <=> LastHit(cur)
      /\ pc' = "onterminate" => cur' = cur
  BY DEF OnTimeReturns
<1>6. /\ LastHit(cur) => Counts(cur)
      /\ Counts(cur) => (LastHit(cur) <=> node[cur].hits + 1 = node[cur].max)
      /\ Counts(cur) => node[cur].hits + 1 <= node[cur].max /\ node[cur].max \in Nat
  BY <1>2, <1>4 DEF LastHit, Counts, LOOP_FOREVER
<1>7. LeftInv'
  <2>1. ASSUME NEW m \in Nodes, node'[m].status = "RUN"
        PROVE  /\ node'[m].timer \in Timers
               /\ node'[m].max \notin {LOOP_FOREVER, 0} =>
                     /\ node'[m].hits <= node'[m].max
                     /\ node'[m].hits = node'[m].max <=>
                           pc' = "onterminate" /\ m = cur'
    <3>1. CASE m = cur
      BY <1>3, <1>4, <1>5, <1>6, <3>1 DEF Counts
    <3>2. CASE m # cur
      BY <1>1, <1>3, <1>5, <2>1, <3>2 DEF ContractInv, LeftInv, Live, Counts
    <3> QED BY <3>1, <3>2
  <2>2. pc' = "onterminate" => node'[cur'].max \notin {LOOP_FOREVER, 0}
    BY <1>3, <1>5, <1>6 DEF Counts
  <2> QED BY <2>1, <2>2 DEF LeftInv, Live, Counts
<1>8. PICK n \in Nodes : n = cur
  BY <1>1
<1>9. Contract!Fire(n)
  <2>1. /\ Promises[cur] # Nothing /\ Promises[cur].left # 0
        /\ Promises[cur].due <= now
    <3>1. Promises[cur] = Owed(node[cur])
      BY <1>1 DEF Promises
    <3>2. Owed(node[cur]) = [timer |-> node[cur].timer, due |-> node[cur].next,
                             period |-> node[cur].interval,
                             left |-> IF Counts(cur) THEN node[cur].max - node[cur].hits
                                      ELSE -1]
      BY <1>1 DEF Owed, Live, Counts
    <3>3. node[cur].timer # NoTimer
      BY <1>4, ArgumentAssumption
    <3>4. Counts(cur) => node[cur].max - node[cur].hits # 0
      BY <1>2, <1>6
    <3>5. node[cur].next <= now
      BY <1>1, <1>2
    <3>6. Owed(node[cur]).timer = node[cur].timer /\ Nothing.timer = NoTimer
      BY <3>2 DEF Nothing
    <3> QED BY <3>1, <3>2, <3>3, <3>4, <3>5, <3>6
  <2>2. Promises' = [Promises EXCEPT ![cur] = Called(Promises[cur])]
    <3>1. Promises[cur] = Owed(node[cur]) /\ Promises'[cur] = Owed(node'[cur])
      BY <1>1 DEF Promises
    <3>2. Owed(node[cur]) = [timer |-> node[cur].timer, due |-> node[cur].next,
                             period |-> node[cur].interval,
                             left |-> IF Counts(cur) THEN node[cur].max - node[cur].hits
                                      ELSE -1]
      BY <1>1 DEF Owed, Live, Counts
    <3>3. Owed(node'[cur]) =
             [timer |-> node[cur].timer, due |-> node[cur].next + node[cur].interval,
              period |-> node[cur].interval,
              left |-> IF Counts(cur) THEN node[cur].max - (node[cur].hits + 1)
                       ELSE -1]
      BY <1>1, <1>3 DEF Owed, Live, Counts
    <3>4. Counts(cur) =>
             /\ node[cur].max - node[cur].hits # -1
             /\ node[cur].max - (node[cur].hits + 1) = (node[cur].max - node[cur].hits) - 1
      BY <1>2, <1>6
    <3>5. Owed(node'[cur]) = Called(Owed(node[cur]))
      <4>1. (IF Counts(cur) THEN node[cur].max - (node[cur].hits + 1) ELSE -1)
               = IF (IF Counts(cur) THEN node[cur].max - node[cur].hits ELSE -1) = -1
                 THEN (IF Counts(cur) THEN node[cur].max - node[cur].hits ELSE -1)
                 ELSE (IF Counts(cur) THEN node[cur].max - node[cur].hits ELSE -1) - 1
        BY <3>4
      <4> DEFINE l == IF Counts(cur) THEN node[cur].max - node[cur].hits ELSE -1
      <4>2. Owed(node[cur]) = [timer |-> node[cur].timer, due |-> node[cur].next,
                               period |-> node[cur].interval, left |-> l]
        BY <3>2
      <4>3. Owed(node'[cur]) =
               [timer |-> node[cur].timer,
                due |-> node[cur].next + node[cur].interval,
                period |-> node[cur].interval,
                left |-> IF l = -1 THEN l ELSE l - 1]
        BY <3>3, <4>1
      <4> HIDE DEF l
      <4> QED BY <4>2, <4>3, OneCallLess
    <3>6. \A m \in Nodes : m # cur => Owed(node'[m]) = Owed(node[m])
      BY <1>3
    <3>7. /\ DOMAIN Promises = Nodes /\ DOMAIN Promises' = Nodes
          /\ \A m \in Nodes : m # cur => Promises'[m] = Promises[m]
      BY <3>6 DEF Promises
    <3> QED BY <1>1, <3>1, <3>5, <3>7 DEF Promises
  <2>3. Promises' = [Promises EXCEPT
                       ![n].due = @ + Promises[n].period,
                       ![n].left = IF @ = -1 THEN @ ELSE @ - 1]
    <3>1. Promises = [m \in Nodes |-> Promises[m]]
      BY DEF Promises
    <3>2. Promises' = [Promises EXCEPT ![n] = Called(Promises[n])]
      BY <1>8, <2>2
    <3> QED BY <3>1, <3>2, CalledAt
  <2> QED BY <1>1, <1>8, <2>1, <2>3
      DEF Contract!Fire, Contract!Nothing, Contract!Forever, Promises, Owed,
          Nothing, Live
<1> QED BY <1>7, <1>9 DEF Contract!Next

\* OnTerminate ends a promise none of whose calls is left.
LEMMA OnTerminateKeepsContract ==
    ASSUME ContractInv, OnTerminateReturns
    PROVE  LeftInv' /\ Contract!Next
<1>1. /\ cur \in Nodes /\ Live(cur) /\ pc = "onterminate" /\ pc' = "run"
      /\ now' = now /\ node \in [Nodes -> FittingNode]
  BY ArgumentAssumption
     DEF OnTerminateReturns, ContractInv, TimerInv, ScanInv, InCallback, TypesFit, WheelOK
<1>2. node'[cur] = FreeNode /\ \A m \in Nodes : m # cur => node'[m] = node[m]
  BY <1>1 DEF OnTerminateReturns
<1>3. /\ node[cur].timer \in Timers /\ Counts(cur)
      /\ node[cur].hits = node[cur].max /\ node[cur].hits \in Nat
  BY <1>1, NodeFields DEF ContractInv, TimerInv, LeftInv
<1>4. LeftInv'
  BY <1>1, <1>2 DEF ContractInv, LeftInv, Live, Counts, FreeNode
<1>5. PICK n \in Nodes : n = cur
  BY <1>1
<1>6. Contract!Finish(n)
  <2>1. Promises[cur] # Nothing /\ Promises[cur].left = 0
    <3>1. Promises[cur] = [timer |-> node[cur].timer, due |-> node[cur].next,
                           period |-> node[cur].interval,
                           left |-> node[cur].max - node[cur].hits]
      BY <1>1, <1>3 DEF Promises, Owed, Live, Counts
    <3>2. node[cur].max - node[cur].hits = 0 /\ node[cur].timer # NoTimer
      BY <1>3, ArgumentAssumption
    <3>3. Promises[cur].timer = node[cur].timer /\ Nothing.timer = NoTimer
      BY <3>1 DEF Nothing
    <3> QED BY <3>1, <3>2, <3>3
  <2>2. Promises' = [Promises EXCEPT ![cur] = Nothing]
    <3>1. Owed(node'[cur]) = Nothing
      BY <1>2 DEF Owed, FreeNode, Nothing
    <3>2. \A m \in Nodes : m # cur => Owed(node'[m]) = Owed(node[m])
      BY <1>2
    <3> QED BY <1>1, <3>1, <3>2 DEF Promises
  <2> QED BY <1>1, <1>5, <2>1, <2>2
      DEF Contract!Finish, Contract!Nothing, Promises, Owed, Nothing, Live
<1> QED BY <1>4, <1>6 DEF Contract!Next

LEMMA ContractStep ==
    ASSUME DatesFit, ContractInv, [Next]_vars
    PROVE  LeftInv' /\ [Contract!Next]_(Contract!vars)
<1> USE DEF ContractInv
<1>1. CASE Clock
  <2>1. LeftInv' /\ node' = node
    BY <1>1, LeftStands DEF Clock
  <2>2. Contract!Clock
    BY <1>1 DEF Clock, Contract!Clock, Live
  <2> QED BY <2>1, <2>2 DEF Contract!Next
<1>2. CASE Processing \/ ScanStep \/ ScanEnds \/ SlotDone \/ OnStartReturns
  <2>1. /\ node' = node /\ now' = now /\ cur' = cur
        /\ pc # "onterminate" /\ pc' # "onterminate"
    BY <1>2 DEF Processing, ScanStep, ScanEnds, SlotDone, OnStartReturns
  <2> QED BY <2>1, LeftStands, Undisturbed
<1>3. CASE RunNode
  <2>1. /\ node' = node /\ now' = now
        /\ pc # "onterminate" /\ pc' # "onterminate"
    BY <1>3 DEF RunNode
  <2> QED BY <2>1, LeftStandsElsewhere, Undisturbed
<1>4. CASE OnTimeReturns
  BY <1>4, OnTimeKeepsContract
<1>5. CASE OnTerminateReturns
  BY <1>5, OnTerminateKeepsContract
<1>6. CASE \E t \in Timers : StartTimer(t)
  BY <1>6, StartKeepsContract
<1>7. CASE \E t \in Timers : KillTimer(t)
  BY <1>7, LeftStands, Undisturbed DEF KillTimer
<1>8. CASE UNCHANGED vars
  BY <1>8, LeftStands, Undisturbed DEF vars
<1> QED BY <1>1, <1>2, <1>3, <1>4, <1>5, <1>6, <1>7, <1>8 DEF Next, ProcessingStep

\* Timermgr implements TimerContract: the n-th call of OnTime comes no earlier
\* than its date, dates do not drift, and after the last call comes OnTerminate
\* and nothing else, whatever timers callbacks start (TimeNode.cpp 26-61).
THEOREM ContractKept == DatesFit => (Spec => KeepsContract)
<1> SUFFICES ASSUME DatesFit PROVE Spec => KeepsContract
  OBVIOUS
<1>1. Init => Contract!Init /\ LeftInv
  BY DEF Init, Contract!Init, Contract!Nothing, LeftInv, Live, FreeNode, Counts
<1>2. TimerInv /\ LeftInv /\ [Next]_vars => LeftInv' /\ [Contract!Next]_(Contract!vars)
  BY ContractStep DEF ContractInv
<1>3. Spec => []TimerInv
  BY TimerInvariant
<1> QED BY <1>1, <1>2, <1>3, PTL DEF Spec, KeepsContract, Contract!Spec

------------------------------------------------------------------------------
(* How a scan ends *)

\* The slot a new timer lands in, and the one a timer is armed for again.
LEMMA NewSlot ==
    ASSUME DatesFit, TimerInv, NEW d \in Delays
    PROVE  Offset(now + d) = Divided(now + d) /\ Divided(now) <= Offset(now + d)
<1>1. /\ now \in Nat /\ now + d \in Nat /\ now <= now + d
      /\ MaxNow + d \in Nat /\ now + d <= MaxNow + d
  BY ArgumentAssumption, ScaleAssumption DEF TimerInv, TypesFit, WheelOK
<1>2. PICK a, b : a = now + d /\ b = MaxNow + d
  OBVIOUS
<1>3. Divided(now) <= Divided(a) /\ Divided(a) <= Divided(b) /\ Divided(b) < S32
  BY <1>1, <1>2, DividedMonotonic DEF DatesFit
<1>4. Divided(a) \in Nat /\ Divided(b) \in Nat
  BY <1>1, <1>2, DividedNat
<1>5. Divided(a) < S32
  BY <1>3, <1>4, ScaleAssumption
<1> QED BY <1>2, <1>3, <1>4, <1>5, FitsS32 DEF Offset

LEMMA NextSlot ==
    ASSUME DatesFit, TimerInv, pc = "ontime"
    PROVE  cursor < Offset(node[cur].next + node[cur].interval)
<1>1. /\ cur \in Nodes /\ Live(cur) /\ Divided(node[cur].next) = cursor /\ cursor \in Nat
      /\ tick \in Nat /\ tick <= MaxNow
  BY ArgumentAssumption, ScaleAssumption DEF TimerInv, ScanInv, InCallback, TypesFit, WheelOK
<1>2. PICK x, i : x = node[cur].next /\ i = node[cur].interval
  OBVIOUS
<1>3. x \in Nat /\ i \in Intervals /\ i \in Nat /\ i >= MinInterval /\ x <= MaxNow
  <2>1. x \in Nat /\ i \in Intervals /\ i \in Nat /\ i >= MinInterval
    BY <1>1, <1>2, NodeFields, ArgumentAssumption DEF TimerInv, FreeInv
  <2>2. x <= tick
    BY <1>2, CursorIsPast DEF NeverEarly
  <2> QED BY <1>1, <2>1, <2>2, ScaleAssumption
<1>4. PICK a, b : a = x + i /\ b = MaxNow + i
  OBVIOUS
<1>5. a \in Nat /\ b \in Nat /\ a <= b
  BY <1>3, <1>4, ScaleAssumption
<1>6. Divided(x) + 1 <= Divided(a)
  BY <1>3, <1>4, NextSlotIsLater
<1>7. Divided(a) <= Divided(b) /\ Divided(b) < S32 /\ Divided(a) \in Nat /\ Divided(b) \in Nat
  BY <1>3, <1>4, <1>5, DividedMonotonic, DividedNat DEF DatesFit
<1>8. Offset(a) = Divided(a)
  <2>1. Divided(a) < S32
    BY <1>7, ScaleAssumption
  <2> QED BY <1>7, <2>1, FitsS32 DEF Offset
<1> QED BY <1>1, <1>2, <1>4, <1>6, <1>7, <1>8

(***************************************************************************)
(* A scan gets closer to its end with each of its steps, and nothing else  *)
(* keeps it from it: what is left are the slots ahead, the opening of the  *)
(* slot under the cursor, the nodes in it and the callbacks of the node in *)
(* hand.  A callback may start any number of timers with no delay, and a   *)
(* node may be armed again: none of them joins a slot of the scan          *)
(* (Timermgr.cpp 44-68, 70-98, TimeNode.cpp 26-61).                        *)
(***************************************************************************)
CallsLeft == IF pc = "onstart" THEN 3
             ELSE IF pc = "ontime" THEN 2 ELSE IF pc = "onterminate" THEN 1 ELSE 0

ToGo == [slots |-> IF cursor < target THEN target - cursor ELSE 0,
         opening |-> IF pc = "scan" THEN 1 ELSE 0,
         nodes |-> IF pc = "scan" THEN 0 ELSE Len(slots[cursor]),
         calls |-> CallsLeft]

Counts4 == [slots : Nat, opening : 0 .. 1, nodes : Nat, calls : 0 .. 3]

Less(a, b) ==
    \/ a.slots < b.slots
    \/ a.slots = b.slots /\ a.opening < b.opening
    \/ a.slots = b.slots /\ a.opening = b.opening /\ a.nodes < b.nodes
    \/ a.slots = b.slots /\ a.opening = b.opening /\ a.nodes = b.nodes /\ a.calls < b.calls

GetsCloser ==
    pc # "idle" =>
        /\ ToGo \in Counts4
        /\ \/ pc' = "idle"
           \/ ToGo' \in Counts4 /\ Less(ToGo', ToGo)
           \/ ToGo' = ToGo /\ ~ProcessingStep

LEMMA ToGoCounts == TimerInv /\ pc # "idle" => ToGo \in Counts4
<1> SUFFICES ASSUME TimerInv, pc # "idle" PROVE ToGo \in Counts4
  OBVIOUS
<1>1. cursor \in Nat /\ target \in Int
  BY DEF TimerInv, TypesFit, WheelOK
<1>2. pc # "scan" => Len(slots[cursor]) \in Nat
  <2> SUFFICES ASSUME pc # "scan" PROVE slots[cursor] \in Seq(Nodes)
    OBVIOUS
  <2> QED BY DEF TimerInv, ScanInv, InCallback, TypesFit, WheelOK
<1> QED BY <1>1, <1>2 DEF ToGo, Counts4, CallsLeft

LEMMA ScanStepsGetCloser ==
    ASSUME DatesFit, TimerInv, ProcessingStep, pc # "idle", pc' # "idle"
    PROVE  Less(ToGo', ToGo)
<1>1. /\ cursor \in Nat /\ target \in Int
      /\ pc \in {"scan", "run", "onstart", "ontime", "onterminate"}
      /\ pc # "scan" => cursor < target /\ cursor \in DOMAIN slots
                        /\ slots[cursor] \in Seq(Nodes) /\ Len(slots[cursor]) \in Nat
  BY DEF TimerInv, ScanInv, InCallback, TypesFit, WheelOK
<1>2. CASE ScanStep
  <2>1. CASE cursor \in DOMAIN slots
    BY <1>1, <1>2, <2>1 DEF ScanStep, Less, ToGo
  <2>2. CASE cursor \notin DOMAIN slots
    BY <1>1, <1>2, <2>2 DEF ScanStep, Less, ToGo
  <2> QED BY <2>1, <2>2
<1>3. CASE RunNode
  <2>1. /\ slots[cursor] # <<>> /\ slots'[cursor] = Tail(slots[cursor])
        /\ UNCHANGED <<cursor, target>> /\ pc = "run" /\ pc' # "scan"
    BY <1>1, <1>3 DEF RunNode
  <2>2. Len(slots'[cursor]) = Len(slots[cursor]) - 1
    BY <1>1, <2>1, HeadTailProperties
  <2> QED BY <1>1, <2>1, <2>2 DEF Less, ToGo
<1>4. CASE SlotDone
  BY <1>1, <1>4 DEF SlotDone, Less, ToGo
<1>5. CASE OnStartReturns
  BY <1>1, <1>5 DEF OnStartReturns, Less, ToGo, CallsLeft
<1>6. CASE OnTimeReturns
  <2>1. UNCHANGED <<cursor, target>> /\ pc = "ontime" /\ pc' \in {"onterminate", "run"}
    BY <1>6 DEF OnTimeReturns
  <2>2. slots'[cursor] = slots[cursor]
    <3>1. CASE LastHit(cur)
      BY <1>6, <3>1 DEF OnTimeReturns
    <3>2. CASE ~LastHit(cur)
      <4>1. cur \in Nodes
        BY <2>1, ArgumentAssumption DEF TimerInv, ScanInv, InCallback, TypesFit, WheelOK
      <4>2. node'[cur].next = node[cur].next + node[cur].interval
        BY <1>6, <4>1 DEF OnTimeReturns, TimerInv, TypesFit, WheelOK, FittingNode
      <4>3. PICK k : k = Offset(node[cur].next + node[cur].interval)
        OBVIOUS
      <4>4. SlotAdd(k, cur)
        BY <1>6, <3>2, <4>2, <4>3 DEF OnTimeReturns, ResetTimeNode
      <4>5. k # cursor
        BY <1>1, <2>1, <4>3, NextSlot
      <4> QED BY <1>1, <2>1, <4>4, <4>5 DEF SlotAdd
    <3> QED BY <3>1, <3>2
  <2> QED BY <1>1, <2>1, <2>2 DEF Less, ToGo, CallsLeft
<1>7. CASE OnTerminateReturns
  BY <1>1, <1>7 DEF OnTerminateReturns, Less, ToGo, CallsLeft
<1> QED BY <1>2, <1>3, <1>4, <1>5, <1>6, <1>7 DEF ProcessingStep, Processing, ScanEnds

LEMMA OthersDoNotHinder ==
    ASSUME DatesFit, TimerInv, [Next]_vars, ~ProcessingStep, pc # "idle"
    PROVE  ToGo' = ToGo
<1>1. CASE UNCHANGED <<cursor, slots, pc, target>>
  BY <1>1 DEF ToGo, CallsLeft
<1>2. CASE \E t \in Timers : StartTimer(t)
  <2>1. UNCHANGED <<cursor, pc, target>> /\ InCallback
    BY <1>2 DEF StartTimer, ApplicationRuns, InCallback
  <2>2. PICK n \in Nodes, d \in Delays : SlotAdd(Offset(now + d), n)
    BY <1>2, StartTimerFits DEF ResetTimeNode
  <2>3. cursor # Offset(now + d)
    <3>1. /\ cursor \in Nat /\ target \in Int /\ tick \in Nat /\ now \in Nat /\ tick <= now
          /\ cursor < target /\ target <= Divided(tick)
      BY <2>1, ScaleAssumption DEF TimerInv, ScanInv, InCallback, TypesFit, WheelOK
    <3>2. Divided(tick) <= Divided(now) /\ Divided(tick) \in Nat /\ Divided(now) \in Nat
      BY <3>1, DividedMonotonic, DividedNat
    <3>3. cursor < Divided(now)
      BY <3>1, <3>2
    <3>4. Divided(now) <= Offset(now + d) /\ Offset(now + d) = Divided(now + d)
      BY NewSlot
    <3> QED BY <3>1, <3>2, <3>3, <3>4
  <2>4. cursor \in DOMAIN slots
    BY <2>1 DEF TimerInv, ScanInv
  <2>5. slots'[cursor] = slots[cursor]
    BY <2>2, <2>3, <2>4 DEF SlotAdd
  <2> QED BY <2>1, <2>5 DEF ToGo, CallsLeft
<1> QED BY <1>1, <1>2 DEF Next, Clock, KillTimer, vars

THEOREM ScansGetCloser == DatesFit => (Spec => [][GetsCloser]_vars)
<1> SUFFICES ASSUME DatesFit PROVE Spec => [][GetsCloser]_vars
  OBVIOUS
<1>1. TimerInv /\ (pc # "idle" => ToGo \in Counts4)' /\ [Next]_vars => [GetsCloser]_vars
  BY ToGoCounts, ScanStepsGetCloser, OthersDoNotHinder DEF GetsCloser
<1>2. Spec => []TimerInv
  BY TimerInvariant
<1> QED BY <1>1, <1>2, ToGoCounts, PTL DEF Spec

(***************************************************************************)
(* A scan leaves nothing behind: when it ends, no timer is running that    *)
(* was due in a slot before that of its tick, whichever timers were        *)
(* started or armed again meanwhile (Timermgr.cpp 44-68), as long as an    *)
(* s32 holds the tick.                                                     *)
(***************************************************************************)
CatchesUp ==
    ScanEnds /\ tick < S32 =>
        \A n \in Nodes : Live(n) => Divided(node[n].next) >= Divided(tick)

ScansToTick == pc # "idle" => target = Divided(ToS32(tick))

LEMMA ScanIsComplete == ASSUME TimerInv, ScansToTick PROVE CatchesUp
<1> SUFFICES ASSUME ScanEnds, tick < S32, NEW n \in Nodes, Live(n)
             PROVE  Divided(node[n].next) >= Divided(tick)
  BY DEF CatchesUp
<1>1. target = Divided(tick) /\ cursor >= target /\ cur = NoNode /\ tick \in Nat
  BY FitsS32, ScaleAssumption
     DEF ScanEnds, ScansToTick, TimerInv, ScanInv, InCallback, TypesFit, WheelOK
<1>2. PICK k \in DOMAIN slots : \E i \in DOMAIN slots[k] : slots[k][i] = n
  BY <1>1, ArgumentAssumption DEF TimerInv, EveryTimerIsAhead, EveryTimerListed
<1>3. k = Divided(node[n].next) /\ k >= cursor
  BY <1>2 DEF TimerInv, EveryTimerIsAhead, ListedAhead
<1>4. k \in Int /\ cursor \in Nat /\ Divided(tick) \in Nat
  BY <1>1, <1>2, DividedNat DEF TimerInv, TypesFit, WheelOK
<1> QED BY <1>1, <1>3, <1>4

THEOREM ScansCatchUp == DatesFit => (Spec => [][CatchesUp]_vars)
<1> SUFFICES ASSUME DatesFit PROVE Spec => [][CatchesUp]_vars
  OBVIOUS
<1>1. Init => ScansToTick
  BY DEF Init, ScansToTick
<1>2. ScansToTick /\ [Next]_vars => ScansToTick'
  BY DEF ScansToTick, Next, vars, Clock, ProcessingStep, Processing, ScanStep, ScanEnds,
         RunNode, SlotDone, OnStartReturns, OnTimeReturns, OnTerminateReturns,
         StartTimer, ApplicationRuns, KillTimer
<1>3. TimerInv /\ ScansToTick => [CatchesUp]_vars
  BY ScanIsComplete
<1>4. Spec => []TimerInv
  BY TimerInvariant
<1> QED BY <1>1, <1>2, <1>3, <1>4, PTL DEF Spec
===============================================================================
