------------------------------- MODULE MCTQueue -------------------------------
(***************************************************************************)
(* A small instance of TQueue: the lock-free queue the kernel uses, with   *)
(* one worker and one main thread.                                         *)
(***************************************************************************)
EXTENDS TQueue
=============================================================================
