------------------------------ MODULE MCPanel ------------------------------
(* Small instances of the commit panel.  Which account is which does not   *)
(* matter.                                                                 *)
EXTENDS Panel, TLC

\* One text is typed; commitments differ in their blinding.
MCTexts == {<<0>>}

Symmetry == Permutations(Accounts)
=============================================================================
