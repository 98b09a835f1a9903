--------------------------- MODULE MCSuspendSignal ---------------------------
(* Instances of SuspendSignal for TLC; the constants are in the cfg files. *)
EXTENDS SuspendSignal
=============================================================================
