------------------------------ MODULE MCIocpPipe ------------------------------
(***************************************************************************)
(* A small instance of IocpPipe.                                           *)
(***************************************************************************)
EXTENDS IocpPipe
=============================================================================
