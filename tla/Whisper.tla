------------------------------ MODULE Whisper ------------------------------
(***************************************************************************)
(* The package: contracts/sources/whisper.move shares exactly one          *)
(* KeyRegistry at publication, and the entry functions of the registry,    *)
(* the envelopes and the commitments run against one ledger.  A            *)
(* transaction may be sent by any account with any arguments; the ones     *)
(* that abort change nothing and are not steps.                            *)
(***************************************************************************)
EXTENDS Envelopes, Commitments

vars == <<chainVars, registryVars, envelopes, commitments>>

Init ==
  /\ ChainInit
  /\ RegistryInit
  /\ EnvelopesInit
  /\ CommitmentsInit

Tick == AdvanceClock /\ UNCHANGED <<registryVars, envelopes, commitments>>

Register ==
  /\ \E account \in Accounts, pubkey \in PubKeys :
       register_encryption_key(account, pubkey)
  /\ UNCHANGED <<envelopes, commitments>>

Post ==
  /\ \E sender, recipient \in Accounts, keyId \in ObjectIds,
        version \in KeyVersions, sealed \in Sealed :
       post_envelope(sender, recipient, keyId, version, sealed)
  /\ UNCHANGED commitments

Commit ==
  /\ \E author \in Accounts, encoding_id \in EncodingIds, point \in Points :
       commit_secret(author, encoding_id, point)
  /\ UNCHANGED <<registryVars, envelopes>>

Open ==
  /\ \E sender \in Accounts, id \in DOMAIN commitments,
        stream \in Streams, blinding \in Blindings :
       open_secret(sender, id, stream, blinding)
  /\ UNCHANGED <<registryVars, envelopes>>

OpenWithProof ==
  /\ \E sender \in Accounts, id \in DOMAIN commitments,
        claimed \in Words, proof \in Proofs :
       open_with_proof(sender, id, claimed, proof)
  /\ UNCHANGED <<registryVars, envelopes>>

VerifyProof ==
  /\ \E inputs \in PublicInputs, proof \in Proofs : call_verifier(inputs, proof)
  /\ UNCHANGED <<registryVars, envelopes>>

Transfer ==
  /\ \E id \in DOMAIN commitments, to \in Accounts : public_transfer(id, to)
  /\ UNCHANGED <<registryVars, envelopes>>

Next ==
  \/ Tick
  \/ Register
  \/ Post
  \/ Commit
  \/ Open
  \/ OpenWithProof
  \/ VerifyProof
  \/ Transfer

Spec == Init /\ [][Next]_vars

-----------------------------------------------------------------------------
Event == EncryptionKeyRegistered \cup EnvelopePosted \cup SecretCommitted
           \cup SecretOpened \cup SecretPartialOpened \cup ProofVerified

\* The type of the ledger: every object, entry and event has the fields and
\* the ranges its Move struct gives it, and ids not handed out name nothing.
TypeOK ==
  /\ now \in 0..MaxTime
  /\ nextId \in 1..(MaxObjects + 1)
  /\ events \in Seq(Event)
  /\ DOMAIN entries \subseteq Accounts
  /\ entries \in [DOMAIN entries -> KeyEntry]
  /\ DOMAIN keys \subseteq 1..(nextId - 1)
  /\ keys \in [DOMAIN keys -> EncryptionKey]
  /\ DOMAIN envelopes \subseteq 1..(nextId - 1)
  /\ envelopes \in [DOMAIN envelopes -> Envelope]
  /\ DOMAIN commitments \subseteq 1..(nextId - 1)
  /\ commitments \in [DOMAIN commitments -> SecretCommitment]

\* History is not rewritten: no step removes or changes a key object, an
\* envelope or an event, takes an entry away or turns its version back, or
\* changes anything of a commitment but its owner and, once, its opening.
KeepsHistory ==
  /\ \A id \in DOMAIN keys : id \in DOMAIN keys' /\ keys'[id] = keys[id]
  /\ \A id \in DOMAIN envelopes :
       id \in DOMAIN envelopes' /\ envelopes'[id] = envelopes[id]
  /\ Len(events) <= Len(events')
  /\ \A i \in DOMAIN events : events'[i] = events[i]
  /\ \A a \in DOMAIN entries :
       /\ a \in DOMAIN entries'
       /\ entries[a] # entries'[a] =>
            entries'[a].key_version = entries[a].key_version + 1
  /\ \A id \in DOMAIN commitments :
       /\ id \in DOMAIN commitments'
       /\ [commitments'[id] EXCEPT !.owner = commitments[id].owner]
            \in {commitments[id],
                 [commitments[id] EXCEPT !.opened = TRUE,
                                         !.opened_at_ms = now]}
       /\ commitments[id].opened =>
            /\ commitments'[id].opened
            /\ commitments'[id].opened_at_ms = commitments[id].opened_at_ms

HistoryKept == [][KeepsHistory]_vars

-----------------------------------------------------------------------------
\* The refinement mapping to KeyLog.  The log of an account is read off its
\* key objects by version; a delivery takes its key from the key object the
\* envelope names, never from the registry entry.
VersionOf(a) == IF has_entry(a) THEN entries[a].key_version ELSE 0

KeyAt(a, v) == CHOOSE id \in KeysOf(a) : keys[id].key_version = v

keyLog == [a \in Accounts |-> [v \in 1..VersionOf(a) |-> keys[KeyAt(a, v)].pubkey]]

deliveries ==
  [x \in DOMAIN envelopes |->
     [from     |-> envelopes[x].sender,
      to       |-> envelopes[x].recipient,
      position |-> envelopes[x].recipient_key_version,
      key      |-> keys[envelopes[x].recipient_key_id].pubkey]]

KL == INSTANCE KeyLog WITH DeliveryIds <- ObjectIds,
                           log <- keyLog, mail <- deliveries

\* The package implements the abstract key log: rotations append, and a
\* posted envelope targets the end of the log, for ever.
ImplementsKeyLog == KL!LogSpec

=============================================================================
