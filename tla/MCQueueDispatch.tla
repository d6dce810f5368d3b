--------------------------- MODULE MCQueueDispatch ---------------------------
(* Model values for QueueDispatch: messages of a user, and background ones. *)
EXTENDS QueueDispatch

CONSTANTS user, background
MCForeground == {user}
RuntimeSymmetry == Permutations(Runtimes)
=============================================================================
