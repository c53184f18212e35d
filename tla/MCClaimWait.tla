---------------------------- MODULE MCClaimWait -----------------------------
(* Small instances of ClaimWait: one loop runs every kind, the other only   *)
(* those of the second job, as the Bridge's priority lane does.             *)
EXTENDS ClaimWait

CONSTANTS w1, w2
LaneCanClaim == [w \in Waiters |-> IF w = w1 THEN Jobs ELSE {2}]
=============================================================================
