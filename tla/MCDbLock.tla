------------------------------ MODULE MCDbLock ------------------------------
(***************************************************************************)
(* Instances of DbLock for TLC.                                            *)
(***************************************************************************)
EXTENDS DbLock, TLC

\* For runs without dblsr, which runs in some of the threads only.
Symmetry ==
    Permutations(Threads) \cup Permutations(Records) \cup Permutations(LockSets)
=============================================================================
