--------------------------- MODULE MCTurnRepository ---------------------------
(* Small instances of TurnRepository for TLC. *)
EXTENDS TurnRepository, TLC

Symmetry == Permutations(Runtimes) \cup Permutations(Turns)

=============================================================================
