---------------------------- MODULE MCOperationGate ----------------------------
(* Small instances of OperationGate for TLC. *)
EXTENDS OperationGate, TLC

\* State objects are interchangeable; the users are few enough to keep apart.
ObjectSymmetry == Permutations(Objects)

=============================================================================
