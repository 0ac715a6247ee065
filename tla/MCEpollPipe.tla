------------------------------ MODULE MCEpollPipe ------------------------------
(***************************************************************************)
(* Small instances of EpollPipe.                                           *)
(***************************************************************************)
EXTENDS EpollPipe
=============================================================================
