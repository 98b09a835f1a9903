------------------------------- MODULE MCStep --------------------------------
(* Instances of Step for TLC; the constants are in the cfg files.           *)
EXTENDS Step
=============================================================================
