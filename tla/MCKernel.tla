-------------------------------- MODULE MCKernel --------------------------------
(***************************************************************************)
(* A small instance of Kernel and Logger.                                  *)
(***************************************************************************)
EXTENDS Kernel
=============================================================================
