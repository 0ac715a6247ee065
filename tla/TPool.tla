--------------------------------- MODULE TPool ---------------------------------
(***************************************************************************)
(* Public/TPool.h: units allocated in blocks and kept in a free list.      *)
(* Create and Recover run under the pool's lock or on one thread only; the *)
(* status that Recover tests before it takes the lock is changed by nobody *)
(* but the user of the unit.                                               *)
(***************************************************************************)
EXTENDS Naturals, Sequences

CONSTANT Block      \* units of a block (template parameters size and count)

VARIABLES list,     \* m_list
          inUse,    \* units whose status is IN_USE
          made      \* units allocated so far

AllocNewBlob == [k \in 1 .. Block |-> made + k]

\* The pool as the constructor leaves it.
Constructed == list = [k \in 1 .. Block |-> k] /\ inUse = {} /\ made = Block

\* Create answers u, the head of the list.
Create(u) ==
    LET stock == IF list = <<>> THEN AllocNewBlob ELSE list
    IN /\ u = Head(stock)
       /\ list' = Tail(stock)
       /\ inUse' = inUse \cup {u}
       /\ made' = IF list = <<>> THEN made + Block ELSE made

\* What Recover asserts of its argument.
Recoverable(u) == u \in inUse

Recover(u) ==
    /\ Recoverable(u)
    /\ list' = Append(list, u)
    /\ inUse' = inUse \ {u}
    /\ UNCHANGED made

\* Every unit is free once or in use.
Accounted == /\ {list[k] : k \in DOMAIN list} = (1 .. made) \ inUse
             /\ \A j, k \in DOMAIN list : list[j] = list[k] => j = k
=============================================================================
