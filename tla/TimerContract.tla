----------------------------- MODULE TimerContract -----------------------------
(***************************************************************************)
(* What ITimermgr::StartTimer promises an application: the n-th OnTime     *)
(* comes no earlier than delay + (n-1) * interval after the call, the due  *)
(* dates do not drift, and after `loop' calls there is no other.           *)
(***************************************************************************)
EXTENDS Integers

CONSTANTS Timers, Nodes, NoTimer, Intervals, Delays, Loops, ClockSteps, MaxNow

VARIABLES now,      \* the clock
          promise   \* promise[n]: one running timer, or Nothing

vars == <<now, promise>>

Forever == -1
Nothing == [timer |-> NoTimer, due |-> 0, period |-> 0, left |-> 0]

\* loop = -1 is for ever by its declaration; the code gives 0 the same meaning.
Times(loop) == IF loop \in {-1, 0} THEN Forever ELSE loop

Init == now = 0 /\ promise = [n \in Nodes |-> Nothing]

Clock == /\ \E d \in ClockSteps : now + d <= MaxNow /\ now' = now + d
         /\ UNCHANGED promise

Start(n, t) ==
    /\ promise[n] = Nothing
    /\ \E i \in Intervals, d \in Delays, l \in Loops :
          promise' = [promise EXCEPT ![n] =
                        [timer |-> t, due |-> now + d, period |-> i,
                         left |-> Times(l)]]
    /\ UNCHANGED now

\* A call of OnTime.
Fire(n) ==
    /\ promise[n] # Nothing
    /\ promise[n].left # 0
    /\ promise[n].due <= now
    /\ promise' = [promise EXCEPT
                     ![n].due = @ + promise[n].period,
                     ![n].left = IF @ = Forever THEN @ ELSE @ - 1]
    /\ UNCHANGED now

\* After the call of OnTerminate.
Finish(n) ==
    /\ promise[n] # Nothing
    /\ promise[n].left = 0
    /\ promise' = [promise EXCEPT ![n] = Nothing]
    /\ UNCHANGED now

Next == Clock \/ \E n \in Nodes : Fire(n) \/ Finish(n) \/ \E t \in Timers : Start(n, t)

Spec == Init /\ [][Next]_vars
=============================================================================
