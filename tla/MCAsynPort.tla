----------------------------- MODULE MCAsynPort -----------------------------
(***************************************************************************)
(* An instance of AsynPort for TLC: one user, which queues with a timeout. *)
(***************************************************************************)
EXTENDS AsynPort

CONSTANT u1

MCRequests == {<<u1, "low", TRUE>>}
=============================================================================
