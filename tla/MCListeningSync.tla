--------------------------- MODULE MCListeningSync ---------------------------
EXTENDS ListeningSync

(* The players are interchangeable. *)
PlayerSymmetry == Permutations(Players)
=============================================================================
