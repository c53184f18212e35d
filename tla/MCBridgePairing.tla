-------------------------- MODULE MCBridgePairing ---------------------------
(* Small instances of BridgePairing.                                       *)
EXTENDS BridgePairing, TLC

SaverSymmetry == Permutations(Savers)
=============================================================================
