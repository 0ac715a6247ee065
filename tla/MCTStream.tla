------------------------------- MODULE MCTStream -------------------------------
(***************************************************************************)
(* A small instance of TStream: two readers, as the send stream has, and a *)
(* buffer of two bytes for the BUFF_SIZE of a connection.                  *)
(***************************************************************************)
EXTENDS TStream
=============================================================================
