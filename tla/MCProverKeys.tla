---------------------------- MODULE MCProverKeys ----------------------------
(* Small instances of the key directory.                                   *)
EXTENDS ProverKeys
=============================================================================
