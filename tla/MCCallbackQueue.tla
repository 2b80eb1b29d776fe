-------------------------- MODULE MCCallbackQueue --------------------------
(***************************************************************************)
(* Instances of CallbackQueue for TLC.                                     *)
(***************************************************************************)
EXTENDS CallbackQueue, TLC
=============================================================================
