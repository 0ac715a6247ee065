----------------------------- MODULE BoundedFifo -----------------------------
(***************************************************************************)
(* What tlib::TQueue promises to the threads that share it: one bounded    *)
(* first-in first-out queue on which every call takes effect in a single   *)
(* step between its start and its return.                                  *)
(***************************************************************************)
EXTENDS Naturals, Sequences

CONSTANTS Producers,   \* threads that call Add or TryAdd
          Consumers,   \* threads that call Read
          Items,       \* the values a producer may hand over
          NoItem,      \* what the caller's variable holds before Read fills it
          Capacity     \* number of items the queue can hold

VARIABLES fifo,    \* the items handed over and not yet taken, oldest first
          call,    \* call[p]: the operation p called last
          src,     \* src[p]: the item of that call
          wres,    \* wres[p]: what the call has answered, "pending" before
          value,   \* value[c]: the item c's last Read has produced
          rres     \* rres[c]: what that Read has answered

vars == <<fifo, call, src, wres, value, rres>>

Answers == {"none", "pending", "true", "false"}

Init == /\ fifo = <<>>
        /\ call = [p \in Producers |-> "none"]
        /\ src = [p \in Producers |-> NoItem]
        /\ wres = [p \in Producers |-> "none"]
        /\ value = [c \in Consumers |-> NoItem]
        /\ rres = [c \in Consumers |-> "none"]

CallAdd(p) ==
    /\ wres[p] # "pending"
    /\ \E op \in {"Add", "TryAdd"}, v \in Items :
          /\ call' = [call EXCEPT ![p] = op]
          /\ src' = [src EXCEPT ![p] = v]
    /\ wres' = [wres EXCEPT ![p] = "pending"]
    /\ UNCHANGED <<fifo, value, rres>>

\* The item joins the tail. Add waits for room, so there is no other outcome
\* for it.
Put(p) ==
    /\ wres[p] = "pending"
    /\ Len(fifo) < Capacity
    /\ fifo' = Append(fifo, src[p])
    /\ wres' = [wres EXCEPT ![p] = "true"]
    /\ UNCHANGED <<call, src, value, rres>>

\* TryAdd may refuse, and only when the queue is full at that moment.
Refuse(p) ==
    /\ wres[p] = "pending"
    /\ call[p] = "TryAdd"
    /\ Len(fifo) = Capacity
    /\ wres' = [wres EXCEPT ![p] = "false"]
    /\ UNCHANGED <<fifo, call, src, value, rres>>

CallRead(c) ==
    /\ rres[c] # "pending"
    /\ rres' = [rres EXCEPT ![c] = "pending"]
    /\ value' = [value EXCEPT ![c] = NoItem]
    /\ UNCHANGED <<fifo, call, src, wres>>

Take(c) ==
    /\ rres[c] = "pending"
    /\ fifo # <<>>
    /\ value' = [value EXCEPT ![c] = Head(fifo)]
    /\ fifo' = Tail(fifo)
    /\ rres' = [rres EXCEPT ![c] = "true"]
    /\ UNCHANGED <<call, src, wres>>

\* Read answers false only when the queue is empty at that moment.
FindNothing(c) ==
    /\ rres[c] = "pending"
    /\ fifo = <<>>
    /\ rres' = [rres EXCEPT ![c] = "false"]
    /\ UNCHANGED <<fifo, call, src, wres, value>>

Next == \/ \E p \in Producers : CallAdd(p) \/ Put(p) \/ Refuse(p)
        \/ \E c \in Consumers : CallRead(c) \/ Take(c) \/ FindNothing(c)

Spec == Init /\ [][Next]_vars
=============================================================================
