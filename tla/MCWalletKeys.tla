---------------------------- MODULE MCWalletKeys ----------------------------
(* Small instances of the key hook.                                        *)
EXTENDS WalletKeys
=============================================================================
