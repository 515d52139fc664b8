---------------------------- MODULE MCGenerators ----------------------------
(* Small instances of the generator table.                                 *)
EXTENDS Generators
=============================================================================
