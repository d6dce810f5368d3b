--------------------------- MODULE MCSessionStream ---------------------------
(* Small instances of SessionStream for TLC. *)
EXTENDS SessionStream

CONSTANTS u1, a1
=============================================================================
