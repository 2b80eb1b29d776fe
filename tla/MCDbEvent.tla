----------------------------- MODULE MCDbEvent -----------------------------
(***************************************************************************)
(* Instances of DbEvent for TLC.                                           *)
(***************************************************************************)
EXTENDS DbEvent, TLC

Symmetry == Permutations(Events) \cup Permutations(Callers \ {Task})
=============================================================================
