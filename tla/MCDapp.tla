------------------------------- MODULE MCDapp -------------------------------
(* Small instances of the app's sessions.                                  *)
EXTENDS Dapp

CONSTANTS alice, bob, p, q

Transactions == 1..MaxTxs

\* Alice has a session; Bob only ever registers from elsewhere.
MCLocalKey == [c \in Clients |-> p]
=============================================================================
