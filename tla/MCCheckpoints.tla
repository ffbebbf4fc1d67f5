--------------------------- MODULE MCCheckpoints ---------------------------
(* Model values for checking Checkpoints.                                  *)
EXTENDS Checkpoints, TLC
=============================================================================
