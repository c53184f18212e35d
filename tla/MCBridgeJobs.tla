---------------------------- MODULE MCBridgeJobs ----------------------------
(* Small instances of BridgeJobs.                                          *)
EXTENDS BridgeJobs, TLC

PathSymmetry == Permutations(Paths)
=============================================================================
