----------------------------- MODULE MCDbNotify -----------------------------
(***************************************************************************)
(* Three records in a chain of forward links; two puts on the first, one   *)
(* on the second.                                                          *)
(***************************************************************************)
EXTENDS DbNotify, TLC

CONSTANTS r1, r2, r3, p1, p2, p3

MCTarget == p1 :> r1 @@ p2 :> r1 @@ p3 :> r2
MCChain == r1 :> <<r1, r2, r3>> @@ r2 :> <<r2, r3>> @@ r3 :> <<r3>>
=============================================================================
