--------------------------------- MODULE Timer ---------------------------------
(***************************************************************************)
(* The timer wheel (kernel/timermgr): Timermgr, TimeNode and TimeSlot.     *)
(* Everything runs on the main thread, but not atomically: Processing      *)
(* calls the application back (OnStart, OnTime, OnTerminate), and a        *)
(* callback may start further timers while the wheel is being scanned and  *)
(* while the clock goes on.                                                *)
(*                                                                         *)
(* Times are milliseconds since m_lStartRunTick.                           *)
(***************************************************************************)
EXTENDS Integers, Sequences

CONSTANTS Timers,       \* the (id, ITimer) pairs of the application
          Nodes,        \* the TimeNode objects of s_oTimeNodePool
          NoTimer, NoNode,
          Intervals, Delays, Loops,   \* arguments of StartTimer
          Killable,     \* timers the application tries to kill
          Scale,        \* m_nTimeScale, 20
          MinInterval,  \* the 100 of StartTimer's assertion
          S32,          \* 2^31: an s32 holds -S32 .. S32 - 1
          ClockSteps,   \* how far the clock moves at once
          MaxNow        \* bound: the clock stops here

LOOP_FOREVER == -1

ASSUME ScaleAssumption == /\ Scale \in Nat \ {0}
                          /\ MinInterval \in Nat /\ MinInterval >= Scale
                          /\ S32 \in Nat \ {0} /\ MaxNow \in Nat

\* StartTimer asserts interval >= 100.  A wall clock that steps back is left
\* out by choosing ClockSteps among the naturals.
ASSUME ArgumentAssumption ==
    /\ \A i \in Intervals : i \in Nat /\ i >= MinInterval
    /\ Delays \subseteq Nat
    /\ \A l \in Loops : l = LOOP_FOREVER \/ l \in Nat
    /\ ClockSteps \subseteq Nat
    /\ NoTimer \notin Timers /\ NoNode \notin Nodes

VARIABLES now,      \* tools::GetTimeMillisecond() - m_lStartRunTick
          cursor,   \* m_nCursor
          slots,    \* m_oTimeSlotMap: the slot lists, most recent node first
          node,     \* the TimeNode objects
          pc,       \* where Processing is
          tick,     \* its local lTick
          target,   \* its local nCursor
          cur,      \* the node whose callback is running
          killed    \* timers KillTimer has been called for since they started

vars == <<now, cursor, slots, node, pc, tick, target, cur, killed>>

\* Conversion to s32 and C++ division, which rounds towards zero.
ToS32(x) == ((x + S32) % (2 * S32)) - S32
Divided(x) == IF x >= 0 THEN x \div Scale ELSE -((-x) \div Scale)

\* A released node is zeroed (TimeNode::Release), hence TIMER_STATUS_NOT_FOUND.
\* No code adds to s_oTimeNodeMap, so FindNode never finds a node and no node
\* ever gets another status than these two.
FreeNode == [status |-> "NOT_FOUND", timer |-> NoTimer, interval |-> 0,
             max |-> 0, hits |-> 0, next |-> 0]

Live(n) == node[n].status = "RUN"

Init == /\ now = 0 /\ cursor = 0
        /\ slots = [k \in {} |-> <<>>]
        /\ node = [n \in Nodes |-> FreeNode]
        /\ pc = "idle" /\ tick = 0 /\ target = 0 /\ cur = NoNode
        /\ killed = {}

Clock == /\ \E d \in ClockSteps : now + d <= MaxNow /\ now' = now + d
         /\ UNCHANGED <<cursor, slots, node, pc, tick, target, cur, killed>>

------------------------------------------------------------------------------
\* TimeSlot::Add pushes at the head; SlotAdd makes the slot if there is none.
SlotList(k) == IF k \in DOMAIN slots THEN slots[k] ELSE <<>>

\* Mutant: an existing slot is replaced by a fresh one.
SlotAddFresh(k, n) ==
    slots' = [j \in DOMAIN slots \cup {k} |-> IF j = k THEN <<n>> ELSE slots[j]]

SlotAdd(k, n) ==
    slots' = [j \in DOMAIN slots \cup {k} |->
                 IF j = k THEN <<n>> \o SlotList(k) ELSE slots[j]]

\* The offset is an s32 too; it counts slots and so lasts Scale times longer.
Offset(next) == ToS32(Divided(next))

ResetTimeNode(n, next) == SlotAdd(Offset(next), n)

\* The application runs between two turns of the main loop and in callbacks.
ApplicationRuns == pc \in {"idle", "onstart", "ontime", "onterminate"}

\* The arguments are s64, those of SetTimer s32: interval, delay and loop are
\* narrowed after the assertion on the interval.
StartTimer(t) ==
    /\ ApplicationRuns
    /\ \E n \in Nodes, i \in Intervals, d \in Delays, l \in Loops :
          /\ ~Live(n)
          /\ node' = [node EXCEPT ![n] =
                        [status |-> "RUN", timer |-> t, interval |-> ToS32(i),
                         max |-> ToS32(l), hits |-> 0,
                         next |-> now + ToS32(d)]]
          /\ ResetTimeNode(n, now + ToS32(d))
    /\ killed' = killed \ {t}
    /\ UNCHANGED <<now, cursor, pc, tick, target, cur>>

\* Kernel::KillTimer is commented out; Timermgr::KillTimer looks the node up in
\* the empty s_oTimeNodeMap.  Either way only the caller remembers the call.
KillTimer(t) ==
    /\ ApplicationRuns
    /\ t \in Killable
    /\ killed' = killed \cup {t}
    /\ UNCHANGED <<now, cursor, slots, node, pc, tick, target, cur>>

------------------------------------------------------------------------------
(* Processing *)

Processing ==
    /\ pc = "idle"
    /\ pc' = "scan"
    /\ tick' = now
    /\ target' = Divided(ToS32(now))
    /\ UNCHANGED <<now, cursor, slots, node, cur, killed>>

\* Mutant: <= in the loop condition.
ScanStepInclusive ==
    /\ pc = "scan"
    /\ cursor <= target
    /\ IF cursor \in DOMAIN slots
       THEN pc' = "run" /\ UNCHANGED cursor
       ELSE cursor' = cursor + 1 /\ UNCHANGED pc
    /\ UNCHANGED <<now, slots, node, tick, target, cur, killed>>

\* Mutant: the cursor advances only past slots that exist.
ScanStepStuck ==
    /\ pc = "scan"
    /\ cursor < target
    /\ cursor \in DOMAIN slots
    /\ pc' = "run"
    /\ UNCHANGED <<now, cursor, slots, node, tick, target, cur, killed>>

\* The head of the for loop, and SlotRun when the slot exists.
ScanStep ==
    /\ pc = "scan"
    /\ cursor < target
    /\ IF cursor \in DOMAIN slots
       THEN pc' = "run" /\ UNCHANGED cursor
       ELSE cursor' = cursor + 1 /\ UNCHANGED pc
    /\ UNCHANGED <<now, slots, node, tick, target, cur, killed>>

ScanEnds ==
    /\ pc = "scan"
    /\ cursor >= target
    /\ pc' = "idle"
    /\ tick' = 0 /\ target' = 0
    /\ UNCHANGED <<now, cursor, slots, node, cur, killed>>

\* TimeSlot::Run unlinks the head and enters TimeNode::OnTimer.
RunNode ==
    /\ pc = "run"
    /\ slots[cursor] # <<>>
    /\ cur' = Head(slots[cursor])
    /\ slots' = [slots EXCEPT ![cursor] = Tail(@)]
    /\ pc' = IF node[cur'].hits = 0 THEN "onstart" ELSE "ontime"
    /\ UNCHANGED <<now, cursor, node, tick, target, killed>>

\* Mutant: the slot is erased inside the loop over its nodes.
SlotDoneTwice ==
    /\ pc = "run"
    /\ slots[cursor] = <<>>
    /\ slots' = [j \in DOMAIN slots \ {cursor} |-> slots[j]]
    /\ UNCHANGED <<now, cursor, node, pc, tick, target, cur, killed>>

\* The slot is released and erased, and the loop goes on.
SlotDone ==
    /\ pc = "run"
    /\ slots[cursor] = <<>>
    /\ slots' = [j \in DOMAIN slots \ {cursor} |-> slots[j]]
    /\ cursor' = cursor + 1
    /\ pc' = "scan"
    /\ UNCHANGED <<now, node, tick, target, cur, killed>>

OnStartReturns ==
    /\ pc = "onstart"
    /\ pc' = "ontime"
    /\ UNCHANGED <<now, cursor, slots, node, tick, target, cur, killed>>

LastHit(n) == node[n].hits + 1 = node[n].max /\ node[n].max # LOOP_FOREVER

\* Mutant: the node is re-armed from the time of the call, not of the due date.
OnTimeReturnsDrifting ==
    /\ pc = "ontime"
    /\ node' = [node EXCEPT ![cur].hits = @ + 1,
                            ![cur].next = tick + node[cur].interval]
    /\ IF LastHit(cur)
       THEN pc' = "onterminate" /\ UNCHANGED <<slots, cur>>
       ELSE /\ ResetTimeNode(cur, node'[cur].next)
            /\ cur' = NoNode /\ pc' = "run"
    /\ UNCHANGED <<now, cursor, tick, target, killed>>

\* Mutant: the node is not re-armed.
OnTimeReturnsDropped ==
    /\ pc = "ontime"
    /\ node' = [node EXCEPT ![cur].hits = @ + 1,
                            ![cur].next = @ + node[cur].interval]
    /\ IF LastHit(cur)
       THEN pc' = "onterminate" /\ UNCHANGED cur
       ELSE cur' = NoNode /\ pc' = "run"
    /\ UNCHANGED <<now, cursor, slots, tick, target, killed>>

OnTimeReturns ==
    /\ pc = "ontime"
    /\ node' = [node EXCEPT ![cur].hits = @ + 1,
                            ![cur].next = @ + node[cur].interval]
    /\ IF LastHit(cur)
       THEN pc' = "onterminate" /\ UNCHANGED <<slots, cur>>
       ELSE /\ ResetTimeNode(cur, node'[cur].next)
            /\ cur' = NoNode /\ pc' = "run"
    /\ UNCHANGED <<now, cursor, tick, target, killed>>

OnTerminateReturns ==
    /\ pc = "onterminate"
    /\ node' = [node EXCEPT ![cur] = FreeNode]
    /\ cur' = NoNode /\ pc' = "run"
    /\ UNCHANGED <<now, cursor, slots, tick, target, killed>>

ProcessingStep == \/ Processing \/ ScanStep \/ ScanEnds \/ RunNode \/ SlotDone
                  \/ OnStartReturns \/ OnTimeReturns \/ OnTerminateReturns

Next == \/ Clock \/ ProcessingStep
        \/ \E t \in Timers : StartTimer(t) \/ KillTimer(t)

Spec == Init /\ [][Next]_vars

\* Kernel::Loop calls Processing on every turn, callbacks return and time goes
\* on.
FairSpec == Spec /\ WF_vars(ProcessingStep) /\ WF_vars(Clock)

------------------------------------------------------------------------------
(* Properties *)

NodeType == [status : {"NOT_FOUND", "RUN"}, timer : Timers \cup {NoTimer},
             interval : Int, max : Int, hits : Nat, next : Int]

WheelOK ==
    /\ now \in 0 .. MaxNow /\ cursor \in Nat
    /\ DOMAIN slots \subseteq Int
    /\ \A k \in DOMAIN slots : slots[k] \in Seq(Nodes)
    /\ pc \in {"idle", "scan", "run", "onstart", "ontime", "onterminate"}
    /\ tick \in 0 .. MaxNow /\ target \in Int
    /\ cur \in Nodes \cup {NoNode}
    /\ pc = "run" => cursor \in DOMAIN slots
    /\ killed \subseteq Timers

TypeOK == WheelOK /\ node \in [Nodes -> NodeType]

\* A running timer whose callback is not being run is in the wheel, once, in
\* the slot of its due date, and the cursor has not passed that slot: a node
\* behind m_nCursor would never run again (Timermgr.cpp 84-98).
EveryTimerListed ==
    \A n \in Nodes : Live(n) /\ n # cur =>
        \E k \in DOMAIN slots : \E i \in DOMAIN slots[k] : slots[k][i] = n

ListedAhead ==
    \A k \in DOMAIN slots : \A i \in DOMAIN slots[k] :
        /\ Live(slots[k][i]) /\ slots[k][i] # cur
        /\ k = Divided(node[slots[k][i]].next)
        /\ k >= cursor

ListedOnce ==
    \A j, k \in DOMAIN slots : \A h \in DOMAIN slots[j], i \in DOMAIN slots[k] :
        slots[j][h] = slots[k][i] => j = k /\ h = i

EveryTimerIsAhead == EveryTimerListed /\ ListedAhead /\ ListedOnce

\* No callback runs before its due date, although a slot stands for Scale
\* milliseconds and due dates are rounded down to a slot.
NeverEarly == pc \in {"onstart", "ontime"} => node[cur].next <= tick

\* Timermgr implements the contract of StartTimer.
Contract == INSTANCE TimerContract WITH
    promise <- [n \in Nodes |->
        IF Live(n)
        THEN [timer |-> node[n].timer, due |-> node[n].next,
              period |-> node[n].interval,
              left |-> IF node[n].max \in {LOOP_FOREVER, 0} THEN -1
                       ELSE node[n].max - node[n].hits]
        ELSE [timer |-> NoTimer, due |-> 0, period |-> 0, left |-> 0]]

KeepsContract == Contract!Spec

\* A due timer is run: the callbacks of other timers, the timers they start
\* and a late Processing do not starve it.
Overdue(n) == Live(n) /\ Divided(node[n].next) < Divided(now)
DueTimerRuns == \A n \in Nodes : Overdue(n) ~> ~Overdue(n) \/ cur = n

\* Processing comes to an end although the callbacks it runs start new timers,
\* with no delay even: none of those lands in a slot of the present scan.
ProcessingEnds == pc # "idle" ~> pc = "idle"

\* IKernel.h 68-69: OnTerminate is called when the developer removes a timer.
\* A killed timer then no longer runs.
KillEndsTimer ==
    \A t \in Killable :
        t \in killed ~> (t \notin killed \/ \A n \in Nodes : node[n].timer # t)
=============================================================================
