--------------------------- MODULE MCWriteNotify ---------------------------
(***************************************************************************)
(* Instances of WriteNotify for TLC.                                       *)
(***************************************************************************)
EXTENDS WriteNotify
=============================================================================
