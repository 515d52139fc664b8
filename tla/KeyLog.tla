------------------------------- MODULE KeyLog -------------------------------
(***************************************************************************)
(* What the registry and the envelopes together promise, with no registry  *)
(* entry, object id, clock or event in sight: every account has a log of   *)
(* public keys that only grows at its end, and a delivery is stamped, once *)
(* and for all, with the position and the key that end the recipient's log *)
(* at the moment of delivery.                                              *)
(***************************************************************************)
EXTENDS Naturals, Sequences

CONSTANTS Accounts, PubKeys, DeliveryIds

VARIABLES
  log,   \* account -> sequence of its public keys, oldest first
  mail   \* delivery id -> [from, to, position, key], partial

LogInit ==
  /\ log = [a \in Accounts |-> <<>>]
  /\ mail = [id \in {} |-> 0]

Rotate(a, key) ==
  /\ log' = [log EXCEPT ![a] = Append(@, key)]
  /\ UNCHANGED mail

Deliver(id, from, to) ==
  /\ id \notin DOMAIN mail
  /\ log[to] # <<>>
  /\ mail' = [d \in DOMAIN mail \cup {id} |->
                IF d = id
                  THEN [from     |-> from,
                        to       |-> to,
                        position |-> Len(log[to]),
                        key      |-> log[to][Len(log[to])]]
                  ELSE mail[d]]
  /\ UNCHANGED log

LogNext ==
  \/ \E a \in Accounts, key \in PubKeys : Rotate(a, key)
  \/ \E id \in DeliveryIds, from, to \in Accounts : Deliver(id, from, to)

LogSpec == LogInit /\ [][LogNext]_<<log, mail>>

=============================================================================
