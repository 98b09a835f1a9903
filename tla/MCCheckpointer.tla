--------------------------- MODULE MCCheckpointer ---------------------------
(* Instances of Checkpointer for TLC; the constants are in the cfg files. *)
EXTENDS Checkpointer
=============================================================================
