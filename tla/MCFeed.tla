-------------------------------- MODULE MCFeed --------------------------------
(* Small instances of the feed over the wallet's keys.                     *)
EXTENDS Feed

TwoKinds == {"envelope", "opened"}
Symmetry == Permutations(Accounts)
=============================================================================
