----------------------------- MODULE MCEpollEngine -----------------------------
(***************************************************************************)
(* Small instances of EpollEngine.                                         *)
(***************************************************************************)
EXTENDS EpollEngine
=============================================================================
