---------------------------- MODULE MCLibraryScan ----------------------------
EXTENDS LibraryScan, TLC

(* The books are interchangeable. *)
BookSymmetry == Permutations(Books)
=============================================================================
