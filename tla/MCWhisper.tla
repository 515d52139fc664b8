----------------------------- MODULE MCWhisper -----------------------------
(***************************************************************************)
(* Small instances of the package.  The mail configurations leave no       *)
(* blinding to commit with, the secrets configuration no key to register,  *)
(* so each looks at one half of the package in depth: the halves share the *)
(* ledger and nothing else.  Which account is which does not matter, and   *)
(* the properties of the secrets configuration are all safety.             *)
(***************************************************************************)
EXTENDS Whisper, TLC

Symmetry == Permutations(Accounts)
=============================================================================
