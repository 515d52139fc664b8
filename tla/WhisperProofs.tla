--------------------------- MODULE WhisperProofs ---------------------------
(***************************************************************************)
(* Theorems about the package, for every set of accounts, keys, bodies and *)
(* encodings and every bound.                                              *)
(***************************************************************************)
EXTENDS Whisper, TLAPS

\* Appending to a sequence given as a function on 1..n.
LEMMA AppendFunction ==
  ASSUME NEW n \in Nat, NEW x, NEW s, NEW t,
         s = [i \in 1..n |-> s[i]], t = [i \in 1..(n + 1) |-> t[i]],
         \A i \in 1..n : t[i] = s[i], t[n + 1] = x
  PROVE  t = Append(s, x)
  OBVIOUS

\* The ids of an account's keys are numbers, also after a step.
LEMMA NextKeyIdsNat ==
  ASSUME TypeOK', NEW a, NEW id \in KeysOf(a)'
  PROVE  id \in Nat
  BY DEF KeysOf, TypeOK

USE ChainAssumption, RegistryAssumption, PedersenAssumption, CommitmentsAssumption

-----------------------------------------------------------------------------
(* Type correctness.                                                       *)

\* A commitment computed by pedersen_commit is a point.
LEMMA CommitIsPoint ==
  ASSUME NEW e \in Words, NEW s \in Streams, NEW b \in Blindings
  PROVE  pedersen_commit(e, s, b) \in Points
<1>1. ASSUME NEW i \in 0..MaxStream
      PROVE  augmented_stream(e, s)[i] % ScalarL \in 0..(ScalarL - 1)
  <2>1. augmented_stream(e, s)[i] \in Nat
    <3>1. PICK n \in 0..MaxStream : s \in [1..n -> Words]
      BY DEF Streams, StreamsOfLength
    <3>2. QED
      BY <3>1 DEF augmented_stream, Words
  <2>2. QED
    BY <2>1
<1>2. QED
  BY <1>1 DEF pedersen_commit, Points, fq_to_fr

\* Appending an event of the right type keeps the log well typed.
LEMMA AppendEvent ==
  ASSUME events \in Seq(Event), NEW e \in Event
  PROVE  Append(events, e) \in Seq(Event)
  OBVIOUS

\* Adding one element to a partial function keeps it well typed.
LEMMA PartialUpdate ==
  ASSUME NEW R, NEW f, f \in [DOMAIN f -> R], NEW n, NEW v \in R, NEW g,
         g = [x \in DOMAIN f \cup {n} |-> IF x = n THEN v ELSE f[x]]
  PROVE  DOMAIN g = DOMAIN f \cup {n} /\ g \in [DOMAIN g -> R]
  OBVIOUS

\* The ids handed out so far, after one more is.
LEMMA IdsGrow ==
  ASSUME TypeOK, NewObject
  PROVE  /\ nextId \in ObjectIds /\ nextId \in Nat /\ nextId' = nextId + 1
         /\ nextId' \in 1..(MaxObjects + 1)
         /\ 1..(nextId' - 1) = 1..(nextId - 1) \cup {nextId}
<1>1. nextId \in 1..(MaxObjects + 1) /\ nextId <= MaxObjects /\ nextId' = nextId + 1
  BY DEF TypeOK, NewObject
<1>2. nextId \in Nat /\ 1 <= nextId /\ nextId' \in 1..(MaxObjects + 1)
  BY <1>1
<1>3. \A x : x \in 1..nextId <=> x \in 1..(nextId - 1) \/ x = nextId
  BY <1>2
<1>4. nextId' - 1 = nextId
  BY <1>1, <1>2
<1>5. QED
  BY <1>1, <1>2, <1>3, <1>4 DEF ObjectIds

\* The ledger at publication is well typed.
LEMMA InitType == Init => TypeOK
  BY DEF Init, TypeOK, ChainInit, RegistryInit, EnvelopesInit, CommitmentsInit

\* The next version of an account is a positive number.
LEMMA NextVersionPositive ==
  ASSUME TypeOK, NEW account
  PROVE  next_version(account) \in Nat \ {0}
<1>1. ASSUME has_entry(account) PROVE entries[account].key_version \in Nat
  <2>1. account \in DOMAIN entries
    BY <1>1 DEF has_entry
  <2>2. entries \in [DOMAIN entries -> KeyEntry]
    BY DEF TypeOK
  <2>3. entries[account] \in KeyEntry
    BY <2>1, <2>2
  <2>4. QED
    BY <2>3 DEF KeyEntry, KeyVersions
<1>2. QED
  BY <1>1 DEF next_version

\* A registration or rotation keeps the ledger well typed.
LEMMA RegisterType == TypeOK /\ Register => TypeOK'
<1> SUFFICES ASSUME TypeOK, Register PROVE TypeOK'
  OBVIOUS
<1>1. PICK account \in Accounts, pubkey \in PubKeys :
        register_encryption_key(account, pubkey)
  BY DEF Register
<1> DEFINE version == next_version(account)
<1>2. version \in KeyVersions
  <2>1. version <= MaxU64
    BY <1>1 DEF register_encryption_key
  <2>2. version \in Nat \ {0}
    BY NextVersionPositive
  <2>3. QED
    BY <2>1, <2>2 DEF KeyVersions
<1>3. NewObject /\ now' = now
  BY <1>1 DEF register_encryption_key, put_entry
<1>4. events' \in Seq(Event)
  <2>1. [type |-> "EncryptionKeyRegistered", key_id |-> nextId, account |-> account,
         pubkey |-> pubkey, key_version |-> version, rotated_at_ms |-> now] \in Event
    BY <1>2, <1>3, IdsGrow DEF Event, EncryptionKeyRegistered, TypeOK
  <2>2. QED
    BY <1>1, <2>1, AppendEvent DEF register_encryption_key, put_entry, Emit, TypeOK
<1>5. DOMAIN keys' \subseteq 1..(nextId' - 1) /\ keys' \in [DOMAIN keys' -> EncryptionKey]
  <2> DEFINE key == [account |-> account, pubkey |-> pubkey, key_version |-> version,
                     rotated_at_ms |-> now]
  <2>1. key \in EncryptionKey
    BY <1>2 DEF EncryptionKey, TypeOK
  <2>2. keys' = [id \in DOMAIN keys \cup {nextId} |-> IF id = nextId THEN key ELSE keys[id]]
    BY <1>1 DEF register_encryption_key, put_entry
  <2> HIDE DEF key
  <2>3. DOMAIN keys' = DOMAIN keys \cup {nextId} /\ keys' \in [DOMAIN keys' -> EncryptionKey]
    BY <2>1, <2>2, PartialUpdate DEF TypeOK
  <2>4. QED
    BY <1>3, <2>3, IdsGrow DEF TypeOK
<1>6. DOMAIN entries' \subseteq Accounts /\ entries' \in [DOMAIN entries' -> KeyEntry]
  <2> DEFINE entry == [pubkey |-> pubkey, current_key_id |-> nextId, key_version |-> version,
                       rotated_at_ms |-> now]
  <2>1. entry \in KeyEntry
    BY <1>2, <1>3, IdsGrow DEF KeyEntry, TypeOK
  <2>2. entries' = [a \in DOMAIN entries \cup {account} |-> IF a = account THEN entry ELSE entries[a]]
    BY <1>1 DEF register_encryption_key, put_entry
  <2> HIDE DEF entry
  <2>3. QED
    BY <2>1, <2>2, PartialUpdate DEF TypeOK
<1>7. envelopes' = envelopes /\ commitments' = commitments
  BY DEF Register
<1>8. QED
  BY <1>3, <1>4, <1>5, <1>6, <1>7, IdsGrow DEF TypeOK

\* Posting an envelope keeps the ledger well typed.
LEMMA PostType == TypeOK /\ Post => TypeOK'
<1> SUFFICES ASSUME TypeOK, Post PROVE TypeOK'
  OBVIOUS
<1>1. PICK sender \in Accounts, recipient \in Accounts, keyId \in ObjectIds,
           version \in KeyVersions, sealed \in Sealed :
        post_envelope(sender, recipient, keyId, version, sealed)
  BY DEF Post
<1>2. NewObject /\ now' = now /\ entries' = entries /\ keys' = keys
  BY <1>1 DEF post_envelope, posted
<1>3. events' \in Seq(Event)
  <2>1. [type |-> "EnvelopePosted", envelope_object_id |-> nextId, sender |-> sender,
         recipient |-> recipient, recipient_key_id |-> keyId,
         recipient_key_version |-> version, recipient_pk |-> sealed.recipient_pk,
         created_at_ms |-> now] \in Event
    BY <1>2, IdsGrow DEF Event, EnvelopePosted, Sealed, TypeOK
  <2>2. QED
    BY <1>1, <2>1, AppendEvent DEF post_envelope, posted, Emit, TypeOK
<1>4. DOMAIN envelopes' \subseteq 1..(nextId' - 1) /\ envelopes' \in [DOMAIN envelopes' -> Envelope]
  <2> DEFINE envelope == [sender |-> sender, recipient |-> recipient,
                          recipient_key_id |-> keyId, recipient_key_version |-> version,
                          sealed |-> sealed, created_at_ms |-> now]
  <2>1. envelope \in Envelope
    BY DEF Envelope, TypeOK
  <2>2. envelopes' = [id \in DOMAIN envelopes \cup {nextId} |->
                        IF id = nextId THEN envelope ELSE envelopes[id]]
    BY <1>1 DEF post_envelope, posted
  <2> HIDE DEF envelope
  <2>3. DOMAIN envelopes' = DOMAIN envelopes \cup {nextId}
          /\ envelopes' \in [DOMAIN envelopes' -> Envelope]
    BY <2>1, <2>2, PartialUpdate DEF TypeOK
  <2>4. QED
    BY <1>2, <2>3, IdsGrow DEF TypeOK
<1>5. commitments' = commitments
  BY DEF Post
<1>6. QED
  BY <1>2, <1>3, <1>4, <1>5, IdsGrow DEF TypeOK

\* A new commitment keeps the ledger well typed.
LEMMA CommitType == TypeOK /\ Commit => TypeOK'
<1> SUFFICES ASSUME TypeOK, Commit PROVE TypeOK'
  OBVIOUS
<1>1. PICK author \in Accounts, encoding_id \in EncodingIds, point \in Points :
        commit_secret(author, encoding_id, point)
  BY DEF Commit
<1>2. NewObject /\ now' = now
  BY <1>1 DEF commit_secret
<1>3. events' \in Seq(Event)
  <2>1. [type |-> "SecretCommitted", commitment_id |-> nextId, author |-> author,
         encoding_id |-> encoding_id, point |-> point, created_at_ms |-> now] \in Event
    BY <1>2, IdsGrow DEF Event, SecretCommitted, TypeOK
  <2>2. QED
    BY <1>1, <2>1, AppendEvent DEF commit_secret, Emit, TypeOK
<1>4. DOMAIN commitments' \subseteq 1..(nextId' - 1)
        /\ commitments' \in [DOMAIN commitments' -> SecretCommitment]
  <2> DEFINE c == [author |-> author, owner |-> author, encoding_id |-> encoding_id,
                   point |-> point, created_at_ms |-> now, opened |-> FALSE,
                   opened_at_ms |-> 0]
  <2>1. c \in SecretCommitment
    BY DEF SecretCommitment, TypeOK
  <2>2. commitments' = [id \in DOMAIN commitments \cup {nextId} |->
                          IF id = nextId THEN c ELSE commitments[id]]
    BY <1>1 DEF commit_secret
  <2> HIDE DEF c
  <2>3. DOMAIN commitments' = DOMAIN commitments \cup {nextId}
          /\ commitments' \in [DOMAIN commitments' -> SecretCommitment]
    BY <2>1, <2>2, PartialUpdate DEF TypeOK
  <2>4. QED
    BY <1>2, <2>3, IdsGrow DEF TypeOK
<1>5. entries' = entries /\ keys' = keys /\ envelopes' = envelopes
  BY DEF Commit, registryVars
<1>6. QED
  BY <1>2, <1>3, <1>4, <1>5, IdsGrow DEF TypeOK

\* A full opening keeps the ledger well typed.
LEMMA OpenType == TypeOK /\ Open => TypeOK'
<1> SUFFICES ASSUME TypeOK, Open PROVE TypeOK'
  OBVIOUS
<1>1. PICK sender \in Accounts, id \in DOMAIN commitments,
           stream \in Streams, blinding \in Blindings :
        open_secret(sender, id, stream, blinding)
  BY DEF Open
<1>2. id \in ObjectIds /\ commitments[id] \in SecretCommitment
  BY DEF TypeOK, ObjectIds
<1>3. events' \in Seq(Event)
  <2>1. [type |-> "SecretOpened", commitment_id |-> id, author |-> commitments[id].author,
         encoding_id |-> commitments[id].encoding_id, point |-> commitments[id].point,
         stream |-> stream, blinding |-> blinding, opened_at_ms |-> now] \in Event
    BY <1>2 DEF Event, SecretOpened, SecretCommitment, TypeOK
  <2>2. QED
    BY <1>1, <2>1, AppendEvent DEF open_secret, open_secret_asserts, Emit, TypeOK
<1>4. DOMAIN commitments' = DOMAIN commitments
        /\ commitments' \in [DOMAIN commitments' -> SecretCommitment]
  BY <1>1, <1>2 DEF open_secret, TypeOK, SecretCommitment
<1>5. QED
  BY <1>1, <1>3, <1>4 DEF TypeOK, Open, registryVars, open_secret

\* A partial opening, with its two events, keeps the ledger well typed.
LEMMA OpenWithProofType == TypeOK /\ OpenWithProof => TypeOK'
<1> SUFFICES ASSUME TypeOK, OpenWithProof PROVE TypeOK'
  OBVIOUS
<1>1. PICK sender \in Accounts, id \in DOMAIN commitments, claimed \in Words,
           proof \in Proofs : open_with_proof(sender, id, claimed, proof)
  BY DEF OpenWithProof
<1> DEFINE c == commitments[id]
           verified == [type |-> "ProofVerified", inputs |-> public_inputs(c, claimed)]
           opened == [type |-> "SecretPartialOpened", commitment_id |-> id,
                      author |-> c.author, encoding_id |-> c.encoding_id,
                      point |-> c.point, claimed_first_value |-> claimed,
                      opened_at_ms |-> now]
<1>2. id \in ObjectIds /\ c \in SecretCommitment
  BY DEF TypeOK, ObjectIds
<1>3. verified \in Event
  BY <1>2 DEF Event, ProofVerified, public_inputs, PublicInputs, SecretCommitment
<1>4. opened \in Event
  BY <1>2 DEF Event, SecretPartialOpened, SecretCommitment, TypeOK
<1>5. events' = Append(Append(events, verified), opened)
  BY <1>1 DEF open_with_proof
<1>6. events' \in Seq(Event)
  <2> HIDE DEF verified, opened
  <2>1. Append(events, verified) \in Seq(Event)
    BY <1>3 DEF TypeOK
  <2>2. QED
    BY <1>4, <1>5, <2>1
<1>7. QED
  BY <1>1, <1>6 DEF TypeOK, OpenWithProof, registryVars, open_with_proof

\* A direct call of the verifier keeps the ledger well typed.
LEMMA VerifyProofType == TypeOK /\ VerifyProof => TypeOK'
<1> SUFFICES ASSUME TypeOK, VerifyProof PROVE TypeOK'
  OBVIOUS
<1>1. PICK inputs \in PublicInputs, proof \in Proofs : call_verifier(inputs, proof)
  BY DEF VerifyProof
<1> DEFINE e == [type |-> "ProofVerified", inputs |-> inputs]
<1>2. e \in Event
  BY DEF Event, ProofVerified
<1>3. events' \in Seq(Event)
  BY <1>1, <1>2, AppendEvent DEF call_verifier, Emit, TypeOK
<1>4. QED
  BY <1>1, <1>3 DEF TypeOK, VerifyProof, registryVars, call_verifier

\* Every reachable ledger is well typed.
THEOREM TypeCorrect == Spec => []TypeOK
<1>1. TypeOK /\ [Next]_vars => TypeOK'
  <2> SUFFICES ASSUME TypeOK, [Next]_vars PROVE TypeOK'
    OBVIOUS
  <2>1. CASE Tick
    <3>1. now' \in 0..MaxTime
      BY <2>1 DEF Tick, AdvanceClock, TypeOK
    <3>2. QED
      BY <2>1, <3>1 DEF Tick, AdvanceClock, TypeOK, registryVars
  <2>2. CASE Register
    BY <2>2, RegisterType
  <2>3. CASE Post
    BY <2>3, PostType
  <2>4. CASE Commit
    BY <2>4, CommitType
  <2>5. CASE Open
    BY <2>5, OpenType
  <2>6. CASE OpenWithProof
    BY <2>6, OpenWithProofType
  <2>7. CASE Transfer
    <3>1. PICK id \in DOMAIN commitments, to \in Accounts : public_transfer(id, to)
      BY <2>7 DEF Transfer
    <3>2. commitments' \in [DOMAIN commitments -> SecretCommitment]
      BY <3>1 DEF public_transfer, TypeOK, SecretCommitment
    <3>3. QED
      BY <2>7, <3>1, <3>2 DEF Transfer, public_transfer, TypeOK, registryVars, chainVars
  <2>8. CASE VerifyProof
    BY <2>8, VerifyProofType
  <2>9. CASE UNCHANGED vars
    BY <2>9 DEF vars, chainVars, registryVars, TypeOK
  <2>10. QED
    BY <2>1, <2>2, <2>3, <2>4, <2>5, <2>6, <2>7, <2>8, <2>9 DEF Next
<1>2. QED
  BY InitType, <1>1, PTL DEF Spec

-----------------------------------------------------------------------------
(* The key history.  EntryIsNewestKey is inductive with TypeOK;            *)
(* RotationHistoryLinear needs it, because a new key takes its version     *)
(* from the entry and its time and id from the ledger.                     *)

\* What a registration does to the key objects and the entries, pointwise.
KeyAdded(account, pubkey) ==
  /\ nextId \in Nat /\ nextId \notin DOMAIN keys
  /\ \A id \in DOMAIN keys : id \in Nat /\ id < nextId
  /\ DOMAIN keys' = DOMAIN keys \cup {nextId}
  /\ \A id \in DOMAIN keys : keys'[id] = keys[id]
  /\ keys'[nextId].account = account
  /\ keys'[nextId].pubkey = pubkey
  /\ keys'[nextId].key_version = next_version(account)
  /\ keys'[nextId].rotated_at_ms = now
  /\ DOMAIN entries' = DOMAIN entries \cup {account}
  /\ \A a \in DOMAIN entries : a # account => entries'[a] = entries[a]
  /\ entries'[account].pubkey = pubkey
  /\ entries'[account].current_key_id = nextId
  /\ entries'[account].key_version = next_version(account)
  /\ entries'[account].rotated_at_ms = now
  /\ now' = now /\ now \in Nat
  /\ next_version(account) \in Nat \ {0}

\* What a registration does, with its account, key and version named.
LEMMA RegisterEffect ==
  ASSUME TypeOK, Register
  PROVE  \E account \in Accounts, pubkey \in PubKeys :
           register_encryption_key(account, pubkey) /\ KeyAdded(account, pubkey)
<1>0. PICK account \in Accounts, pubkey \in PubKeys :
        register_encryption_key(account, pubkey)
  BY DEF Register
<1>1. nextId \in Nat /\ nextId \notin DOMAIN keys
        /\ \A id \in DOMAIN keys : id \in Nat /\ id < nextId
  BY DEF TypeOK
<1>2. next_version(account) \in Nat \ {0}
  BY NextVersionPositive
<1>3. KeyAdded(account, pubkey)
  BY <1>0, <1>1, <1>2 DEF register_encryption_key, put_entry, TypeOK, KeyAdded
<1>4. QED
  BY <1>0, <1>3

\* An account's entry or keys are touched by no action but Register.
LEMMA RegistryFrame ==
  TypeOK /\ [Next]_vars => Register \/ UNCHANGED registryVars
<1>1. Post => UNCHANGED registryVars
  BY DEF Post, post_envelope, registryVars
<1>2. QED
  BY <1>1 DEF Next, vars, Tick, Commit, Open, OpenWithProof, VerifyProof, Transfer,
              registryVars

\* Time and the supply of ids never go back.
LEMMA ClockAndIdsAdvance ==
  ASSUME TypeOK, [Next]_vars
  PROVE  now' \in Nat /\ now <= now' /\ nextId' \in Nat /\ nextId <= nextId'
<1>1. now \in Nat /\ nextId \in Nat
  BY DEF TypeOK
<1>2. Register \/ Post \/ Commit => now' = now /\ nextId' = nextId + 1
  BY DEF Register, register_encryption_key, Post, post_envelope, Commit,
         commit_secret, NewObject
<1>3. Open \/ OpenWithProof \/ VerifyProof \/ Transfer => now' = now /\ nextId' = nextId
  BY DEF Open, open_secret, OpenWithProof, open_with_proof, VerifyProof,
         call_verifier, Transfer, public_transfer, chainVars
<1>4. Tick => now' = now + 1 /\ nextId' = nextId
  BY DEF Tick, AdvanceClock
<1>5. QED
  BY <1>1, <1>2, <1>3, <1>4 DEF Next, vars, chainVars

\* Versions and times are numbers.
LEMMA StampTypes ==
  ASSUME TypeOK
  PROVE  /\ \A id \in DOMAIN keys :
              keys[id].rotated_at_ms \in Nat /\ keys[id].key_version \in Nat
         /\ \A a \in DOMAIN entries : entries[a].key_version \in Nat
         /\ now \in Nat
<1>1. \A id \in DOMAIN keys : keys[id] \in EncryptionKey
  BY DEF TypeOK
<1>2. \A a \in DOMAIN entries : entries[a] \in KeyEntry
  BY DEF TypeOK
<1>3. now \in Nat
  BY DEF TypeOK
<1>4. QED
  BY <1>1, <1>2, <1>3 DEF EncryptionKey, KeyEntry, KeyVersions

\* The registry part of the invariant is inductive: entries.
LEMMA EntryIsNewestKeyStep ==
  TypeOK /\ EntryIsNewestKey /\ [Next]_vars => EntryIsNewestKey'
<1> SUFFICES ASSUME TypeOK, EntryIsNewestKey, [Next]_vars PROVE EntryIsNewestKey'
  OBVIOUS
<1>1. CASE Register
  <2>1. PICK account \in Accounts, pubkey \in PubKeys : KeyAdded(account, pubkey)
    BY <1>1, RegisterEffect
  <2>2. ASSUME NEW a \in DOMAIN entries'
        PROVE  LET entry == entries'[a]
               IN /\ entry.current_key_id \in KeysOf(a)'
                  /\ LET key == keys'[entry.current_key_id]
                     IN /\ key.pubkey = entry.pubkey
                        /\ key.key_version = entry.key_version
                        /\ key.rotated_at_ms = entry.rotated_at_ms
                  /\ \A id \in KeysOf(a)' : keys'[id].key_version <= entry.key_version
    <3>1. CASE a = account
      <4>1. \A id \in DOMAIN keys : keys[id].account = account =>
              keys[id].key_version <= next_version(account)
        <5>1. ASSUME NEW id \in DOMAIN keys, keys[id].account = account
              PROVE  /\ has_entry(account)
                     /\ keys[id].key_version <= entries[account].key_version
          <6>1. has_entry(account) /\ account \in DOMAIN entries /\ id \in KeysOf(account)
            BY <5>1 DEF EntryIsNewestKey, KeysOf, has_entry
          <6>2. \A k \in KeysOf(account) : keys[k].key_version <= entries[account].key_version
            BY <6>1 DEF EntryIsNewestKey
          <6>3. QED
            BY <6>1, <6>2
        <5>2. \A id \in DOMAIN keys : keys[id].key_version \in Nat
          BY DEF TypeOK, EncryptionKey, KeyVersions
        <5>3. has_entry(account) => entries[account].key_version \in Nat
          BY DEF TypeOK, KeyEntry, KeyVersions, has_entry
        <5>4. QED
          BY <5>1, <5>2, <5>3 DEF next_version
      <4>2. QED
        BY <2>1, <3>1, <4>1 DEF KeyAdded, KeysOf
    <3>2. CASE a # account
      BY <2>1, <3>2 DEF KeyAdded, KeysOf, EntryIsNewestKey
    <3>3. QED
      BY <3>1, <3>2
  <2>3. \A id \in DOMAIN keys' : has_entry(keys[id].account)'
    BY <2>1 DEF KeyAdded, EntryIsNewestKey, has_entry
  <2>4. QED
    BY <2>2, <2>3 DEF EntryIsNewestKey
<1>2. CASE UNCHANGED registryVars
  BY <1>2 DEF EntryIsNewestKey, registryVars, KeysOf, has_entry
<1>3. QED
  BY <1>1, <1>2, RegistryFrame

\* The registry part of the invariant is inductive: histories.
LEMMA RotationHistoryLinearStep ==
  TypeOK /\ EntryIsNewestKey /\ RotationHistoryLinear /\ [Next]_vars
    => RotationHistoryLinear'
<1> SUFFICES ASSUME TypeOK, EntryIsNewestKey, RotationHistoryLinear, [Next]_vars
             PROVE  RotationHistoryLinear'
  OBVIOUS
<1> USE DEF KeysOf
<1>0. /\ \A id \in DOMAIN keys : keys[id].rotated_at_ms \in Nat /\ keys[id].key_version \in Nat
      /\ \A a \in DOMAIN entries : entries[a].key_version \in Nat
      /\ now \in Nat
  BY StampTypes
<1>1. CASE Register
  <2>1. PICK account \in Accounts, pubkey \in PubKeys : KeyAdded(account, pubkey)
    BY <1>1, RegisterEffect
  <2>2. \A id \in DOMAIN keys : keys[id].account = account =>
          keys[id].key_version < next_version(account)
    BY <1>0 DEF EntryIsNewestKey, next_version, has_entry
  <2>3. \A id \in DOMAIN keys' : keys'[id].rotated_at_ms <= now'
    BY <1>0, <2>1 DEF KeyAdded, RotationHistoryLinear
  <2>4. ASSUME NEW id1 \in DOMAIN keys', NEW id2 \in DOMAIN keys',
               keys'[id1].account = keys'[id2].account
        PROVE  keys'[id1].key_version < keys'[id2].key_version <=> id1 < id2
    BY <1>0, <2>1, <2>2, <2>4 DEF KeyAdded, RotationHistoryLinear
  <2>5. ASSUME NEW id1 \in DOMAIN keys', NEW id2 \in DOMAIN keys',
               keys'[id1].account = keys'[id2].account, id1 < id2
        PROVE  keys'[id1].rotated_at_ms <= keys'[id2].rotated_at_ms
    BY <1>0, <2>1, <2>5 DEF KeyAdded, RotationHistoryLinear
  <2>6. ASSUME NEW a \in DOMAIN entries', NEW v \in 1..entries'[a].key_version
        PROVE  \E id \in KeysOf(a)' : keys'[id].key_version = v
    <3>1. CASE a # account
      BY <1>0, <2>1, <3>1 DEF KeyAdded, RotationHistoryLinear
    <3>2. CASE a = account /\ v = next_version(account)
      BY <2>1, <3>2 DEF KeyAdded
    <3>3. CASE a = account /\ v # next_version(account)
      <4>1. has_entry(account) /\ v \in 1..entries[account].key_version
        BY <1>0, <2>1, <3>3 DEF KeyAdded, next_version, has_entry
      <4>2. QED
        BY <2>1, <3>3, <4>1 DEF KeyAdded, RotationHistoryLinear, has_entry
    <3>4. QED
      BY <3>1, <3>2, <3>3
  <2>7. QED
    BY <2>3, <2>4, <2>5, <2>6 DEF RotationHistoryLinear
<1>2. CASE UNCHANGED registryVars
  <2>1. now' \in Nat /\ now <= now'
    BY ClockAndIdsAdvance
  <2>2. QED
    BY <1>0, <1>2, <2>1 DEF RotationHistoryLinear, registryVars
<1>3. QED
  BY <1>1, <1>2, RegistryFrame

\* The registry entry of an account is its newest key object, field for field.
THEOREM EntryNewest == Spec => []EntryIsNewestKey
<1>1. Init => EntryIsNewestKey
  BY DEF Init, RegistryInit, EntryIsNewestKey
<1>2. QED
  BY <1>1, TypeCorrect, EntryIsNewestKeyStep, PTL DEF Spec

\* Versions of an account's keys are contiguous, and ids and times follow them.
THEOREM RotationLinear == Spec => []RotationHistoryLinear
<1>1. Init => RotationHistoryLinear
  BY DEF Init, RegistryInit, RotationHistoryLinear
<1>2. QED
  BY <1>1, TypeCorrect, EntryNewest, RotationHistoryLinearStep, PTL DEF Spec

-----------------------------------------------------------------------------
(* Historical anchors.  A stored envelope's key object keeps its contents, *)
(* and every key minted later has a higher id and a later time; the key a  *)
(* new envelope names is the newest, because it is the entry's.            *)

\* Fields of an envelope that are compared as numbers.
LEMMA EnvelopeTypes ==
  ASSUME TypeOK
  PROVE  \A x \in DOMAIN envelopes :
           /\ x \in Nat /\ x < nextId /\ nextId \in Nat
           /\ envelopes[x].recipient_key_version \in Nat
           /\ envelopes[x].created_at_ms \in Nat
<1>1. \A x \in DOMAIN envelopes : envelopes[x] \in Envelope
  BY DEF TypeOK
<1>2. \A x \in DOMAIN envelopes : x \in Nat /\ x < nextId /\ nextId \in Nat
  BY DEF TypeOK
<1>3. QED
  BY <1>1, <1>2 DEF Envelope, KeyVersions

\* What a post does to the envelopes, pointwise, and what it checked first.
EnvelopeAdded(sender, recipient, keyId, version, sealed) ==
  /\ build_envelope_asserts(recipient, keyId, version, sealed)
  /\ nextId \in Nat /\ nextId \notin DOMAIN envelopes
  /\ DOMAIN envelopes' = DOMAIN envelopes \cup {nextId}
  /\ \A x \in DOMAIN envelopes : envelopes'[x] = envelopes[x]
  /\ envelopes'[nextId].sender = sender
  /\ envelopes'[nextId].recipient = recipient
  /\ envelopes'[nextId].recipient_key_id = keyId
  /\ envelopes'[nextId].recipient_key_version = version
  /\ envelopes'[nextId].sealed = sealed
  /\ envelopes'[nextId].created_at_ms = now
  /\ now' = now /\ entries' = entries /\ keys' = keys

\* What posting an envelope does, with the envelope and its recipient named.
LEMMA PostEffect ==
  ASSUME TypeOK, Post
  PROVE  \E sender, recipient \in Accounts, keyId \in ObjectIds,
            version \in KeyVersions, sealed \in Sealed :
           /\ post_envelope(sender, recipient, keyId, version, sealed)
           /\ EnvelopeAdded(sender, recipient, keyId, version, sealed)
<1>0. PICK sender \in Accounts, recipient \in Accounts, keyId \in ObjectIds,
           version \in KeyVersions, sealed \in Sealed :
        post_envelope(sender, recipient, keyId, version, sealed)
  BY DEF Post
<1>1. nextId \in Nat /\ nextId \notin DOMAIN envelopes
  BY DEF TypeOK
<1>2. EnvelopeAdded(sender, recipient, keyId, version, sealed)
  BY <1>0, <1>1 DEF post_envelope, posted, EnvelopeAdded
<1>3. QED
  BY <1>0, <1>2

\* Envelopes are touched by no action but Post.
LEMMA EnvelopesFrame ==
  TypeOK /\ [Next]_vars => Post \/ UNCHANGED envelopes
  BY DEF Next, vars, Tick, Register, Commit, Open, OpenWithProof, VerifyProof, call_verifier, Transfer

\* Key objects never change and keep their ids below the supply.
LEMMA KeysKept ==
  ASSUME TypeOK, [Next]_vars
  PROVE  \A id \in DOMAIN keys : id \in DOMAIN keys' /\ keys'[id] = keys[id]
<1>1. CASE Register
  BY <1>1, RegisterEffect DEF KeyAdded
<1>2. CASE UNCHANGED registryVars
  BY <1>2 DEF registryVars
<1>3. QED
  BY <1>1, <1>2, RegistryFrame

\* No step moves the anchor of an envelope: a later key comes after it.
LEMMA EnvelopeAnchoredStep ==
  TypeOK /\ EntryIsNewestKey /\ RotationHistoryLinear /\ EnvelopeAnchored /\ [Next]_vars
    => EnvelopeAnchored'
<1> SUFFICES ASSUME TypeOK, EntryIsNewestKey, RotationHistoryLinear, EnvelopeAnchored,
                    [Next]_vars
             PROVE  EnvelopeAnchored'
  OBVIOUS
<1> USE DEF KeysOf
<1>1. CASE Register
  <2>1. PICK account \in Accounts, pubkey \in PubKeys : KeyAdded(account, pubkey)
    BY <1>1, RegisterEffect
  <2>2. envelopes' = envelopes
    BY <1>1 DEF Register
  <2>3. QED
    BY <2>1, <2>2, EnvelopeTypes, StampTypes DEF EnvelopeAnchored, KeyAdded
<1>2. CASE Post
  <2>1. PICK sender \in Accounts, recipient \in Accounts, keyId \in ObjectIds,
             version \in KeyVersions, sealed \in Sealed :
          EnvelopeAdded(sender, recipient, keyId, version, sealed)
    BY <1>2, PostEffect
  <2>2. /\ keyId \in KeysOf(recipient)
        /\ keys[keyId].key_version = version
        /\ keys[keyId].rotated_at_ms <= now
        /\ keyId < nextId
        /\ \A id \in KeysOf(recipient) : ~(keys[id].key_version > version)
    <3>1. /\ has_entry(recipient)
          /\ entries[recipient].key_version = version
          /\ entries[recipient].current_key_id = keyId
      BY <2>1 DEF EnvelopeAdded, build_envelope_asserts
    <3>2. keyId \in KeysOf(recipient) /\ keys[keyId].key_version = version
      BY <3>1 DEF EntryIsNewestKey, has_entry
    <3>3. keyId < nextId
      BY <3>2 DEF TypeOK
    <3>4. \A id \in KeysOf(recipient) : ~(keys[id].key_version > version)
      BY <3>1, StampTypes DEF EntryIsNewestKey, has_entry
    <3>5. QED
      BY <3>2, <3>3, <3>4 DEF RotationHistoryLinear
  <2>3. QED
    BY <2>1, <2>2, StampTypes DEF EnvelopeAnchored, EnvelopeAdded
<1>3. CASE UNCHANGED registryVars /\ UNCHANGED envelopes
  <2>1. now' \in Nat /\ now <= now' /\ now \in Nat
    BY ClockAndIdsAdvance, StampTypes
  <2>2. QED
    BY <1>3, <2>1, EnvelopeTypes DEF EnvelopeAnchored, registryVars
<1>4. QED
  BY <1>1, <1>2, <1>3, RegistryFrame, EnvelopesFrame

\* A posted envelope names, for ever, the key object that was the recipient's
\* newest one when it was posted.
THEOREM Anchored == Spec => []EnvelopeAnchored
<1>1. Init => EnvelopeAnchored
  BY DEF Init, EnvelopesInit, EnvelopeAnchored
<1>2. QED
  BY <1>1, TypeCorrect, EntryNewest, RotationLinear, EnvelopeAnchoredStep, PTL DEF Spec

-----------------------------------------------------------------------------
(* Reveals.  The claim of every partial open, and the first word of every  *)
(* full opening that verifies, is the scalar the stored point has on the   *)
(* generator of the first stream element; a point never changes.           *)

\* The scalar on the first stream generator, of a stream that is not empty.
LEMMA FirstScalar ==
  ASSUME NEW e, NEW s \in Streams, s # <<>>, NEW b
  PROVE  pedersen_commit(e, s, b).scalars[1] = fq_to_fr(s[1])
<1>1. PICK n \in 0..MaxStream : s \in [1..n -> Words]
  BY DEF Streams, StreamsOfLength
<1>2. n # 0
  <2> SUFFICES ASSUME n = 0 PROVE FALSE
    OBVIOUS
  <2>1. s \in [{} -> Words]
    BY <1>1
  <2>2. s = <<>>
    BY <2>1
  <2>3. QED
    BY <2>2
<1>3. 1 \in DOMAIN s /\ 1 \in 0..MaxStream
  BY <1>1, <1>2
<1>4. QED
  BY <1>3 DEF pedersen_commit, augmented_stream

\* A proved claim is that scalar.
LEMMA ClaimIsFirstScalar ==
  ASSUME NEW point, NEW e, NEW v, pedersen_opens_to(point, e, v)
  PROVE  point.scalars[1] = fq_to_fr(v)
<1>1. PICK s \in StreamsOfLength(StreamLen), b \in Blindings :
        pedersen_commit(e, s, b) = point /\ s[1] = v
  BY DEF pedersen_opens_to
<1>2. s \in Streams /\ s # <<>>
  <2>1. StreamLen \in 0..MaxStream /\ 1 \in DOMAIN s
    BY DEF StreamsOfLength
  <2>2. QED
    BY <2>1 DEF Streams
<1>3. QED
  BY <1>1, <1>2, FirstScalar

\* The log grows at its end only, and appending shows the new event last.
LEMMA AppendAt ==
  ASSUME NEW S, NEW s \in Seq(S), NEW e
  PROVE  /\ DOMAIN Append(s, e) = DOMAIN s \cup {Len(s) + 1}
         /\ Len(s) + 1 \notin DOMAIN s
         /\ Len(Append(s, e)) = Len(s) + 1
         /\ \A i \in DOMAIN s : Append(s, e)[i] = s[i]
         /\ Append(s, e)[Len(s) + 1] = e
  OBVIOUS

\* The identity of a commitment: what no action changes of it.
LEMMA CommitmentsKept ==
  ASSUME TypeOK, [Next]_vars
  PROVE  \A id \in DOMAIN commitments :
           /\ id \in DOMAIN commitments'
           /\ commitments'[id].point = commitments[id].point
           /\ commitments'[id].encoding_id = commitments[id].encoding_id
           /\ commitments'[id].author = commitments[id].author
           /\ commitments'[id].created_at_ms = commitments[id].created_at_ms
<1>0. \A id \in DOMAIN commitments : commitments[id] \in SecretCommitment
  BY DEF TypeOK
<1>1. CASE Commit
  <2>1. nextId \notin DOMAIN commitments
    BY DEF TypeOK
  <2>2. QED
    BY <1>1, <2>1 DEF Commit, commit_secret
<1>2. CASE Open
  BY <1>0, <1>2 DEF Open, open_secret, SecretCommitment
<1>3. CASE Transfer
  BY <1>0, <1>3 DEF Transfer, public_transfer, SecretCommitment
<1>4. CASE UNCHANGED commitments
  BY <1>4
<1>5. QED
  BY <1>1, <1>2, <1>3, <1>4
  DEF Next, vars, Tick, Register, Post, OpenWithProof, open_with_proof, VerifyProof,
      call_verifier

\* The inductive form of RevealsAgree: each reveal fits the stored point.
RevealFits(cs, e) ==
  /\ e.type = "SecretPartialOpened" =>
       /\ e.commitment_id \in DOMAIN cs
       /\ fq_to_fr(e.claimed_first_value) = cs[e.commitment_id].point.scalars[1]
  /\ e.type = "SecretOpened" =>
       /\ e.commitment_id \in DOMAIN cs
       /\ e.point = cs[e.commitment_id].point
       /\ e.stream \in Streams /\ e.stream # <<>>

RevealsFitPoint == \A i \in DOMAIN events : RevealFits(commitments, events[i])

\* Whatever is revealed fits the point it is revealed of, after every step.
LEMMA RevealsFitPointStep == TypeOK /\ RevealsFitPoint /\ [Next]_vars => RevealsFitPoint'
<1> SUFFICES ASSUME TypeOK, RevealsFitPoint, [Next]_vars PROVE RevealsFitPoint'
  OBVIOUS
<1>1. ASSUME NEW i \in DOMAIN events
      PROVE  RevealFits(commitments', events[i])
  BY CommitmentsKept DEF RevealFits, RevealsFitPoint
<1>2. events \in Seq(Event)
  BY DEF TypeOK
<1>3. ASSUME NEW e, events' = Append(events, e),
             e.type \notin {"SecretPartialOpened", "SecretOpened"}
      PROVE  RevealsFitPoint'
  BY <1>1, <1>2, <1>3, AppendAt DEF RevealsFitPoint, RevealFits
<1>4. CASE Open
  <2>1. PICK sender \in Accounts, id \in DOMAIN commitments, stream \in Streams,
             blinding \in Blindings : open_secret(sender, id, stream, blinding)
    BY <1>4 DEF Open
  <2> DEFINE e == [type |-> "SecretOpened", commitment_id |-> id,
                   author |-> commitments[id].author,
                   encoding_id |-> commitments[id].encoding_id,
                   point |-> commitments[id].point,
                   stream |-> stream, blinding |-> blinding, opened_at_ms |-> now]
  <2>2. events' = Append(events, e) /\ stream # <<>>
    BY <2>1 DEF open_secret, open_secret_asserts, Emit
  <2>3. RevealFits(commitments', e)
    BY <2>2, CommitmentsKept DEF RevealFits
  <2> HIDE DEF e
  <2>4. QED
    BY <1>1, <1>2, <2>2, <2>3, AppendAt DEF RevealsFitPoint
<1>5. CASE OpenWithProof
  <2>1. PICK sender \in Accounts, id \in DOMAIN commitments, claimed \in Words,
             proof \in Proofs : open_with_proof(sender, id, claimed, proof)
    BY <1>5 DEF OpenWithProof
  <2> DEFINE c == commitments[id]
             verified == [type |-> "ProofVerified", inputs |-> public_inputs(c, claimed)]
             e == [type |-> "SecretPartialOpened", commitment_id |-> id,
                   author |-> c.author, encoding_id |-> c.encoding_id,
                   point |-> c.point, claimed_first_value |-> claimed,
                   opened_at_ms |-> now]
  <2>2. events' = Append(Append(events, verified), e)
    BY <2>1 DEF open_with_proof
  <2>3. pedersen_opens_to(c.point, c.encoding_id, claimed)
    BY <2>1 DEF open_with_proof, verify_pedersen_opens_to, public_inputs, Proofs
  <2>4. RevealFits(commitments', e)
    BY <2>3, CommitmentsKept, ClaimIsFirstScalar DEF RevealFits
  <2>5. RevealFits(commitments', verified)
    BY DEF RevealFits
  <2>6. c \in SecretCommitment /\ verified \in Event
    BY DEF TypeOK, Event, ProofVerified, public_inputs, PublicInputs, SecretCommitment
  <2> HIDE DEF e, verified
  <2>7. Append(events, verified) \in Seq(Event)
    BY <1>2, <2>6
  <2>8. \A i \in DOMAIN Append(events, verified) : RevealFits(commitments', events'[i])
    BY <1>1, <1>2, <2>2, <2>5, <2>7, AppendAt
  <2>9. QED
    BY <2>2, <2>4, <2>7, <2>8, AppendAt DEF RevealsFitPoint
<1>6. CASE Register
  BY <1>3, <1>6 DEF Register, register_encryption_key, put_entry, Emit
<1>7. CASE Post
  BY <1>3, <1>7 DEF Post, post_envelope, posted, Emit
<1>8. CASE Commit
  BY <1>3, <1>8 DEF Commit, commit_secret, Emit
<1>9. CASE VerifyProof
  BY <1>3, <1>9 DEF VerifyProof, call_verifier, Emit
<1>10. CASE UNCHANGED events
  BY <1>1, <1>10 DEF RevealsFitPoint
<1>11. QED
  BY <1>4, <1>5, <1>6, <1>7, <1>8, <1>9, <1>10
  DEF Next, vars, chainVars, Tick, AdvanceClock, Transfer, public_transfer

\* Two values that fit one point agree modulo the group order.
LEMMA RevealsFitImpliesAgree == TypeOK /\ RevealsFitPoint => RevealsAgree
<1> SUFFICES ASSUME TypeOK, RevealsFitPoint PROVE RevealsAgree
  OBVIOUS
<1>1. ASSUME NEW i \in EventsOf("SecretPartialOpened")
      PROVE  fq_to_fr(events[i].claimed_first_value)
               = commitments[events[i].commitment_id].point.scalars[1]
  BY <1>1 DEF RevealsFitPoint, RevealFits, EventsOf
<1>2. ASSUME NEW k \in EventsOf("SecretOpened"),
             verify_opening(events[k].point, events[k].encoding_id,
                            events[k].stream, events[k].blinding)
      PROVE  fq_to_fr(events[k].stream[1])
               = commitments[events[k].commitment_id].point.scalars[1]
  BY <1>2, FirstScalar DEF RevealsFitPoint, RevealFits, EventsOf, verify_opening
<1>3. QED
  BY <1>1, <1>2 DEF RevealsAgree

\* Everything revealed of one commitment agrees, modulo the group order.
THEOREM RevealsConsistent == Spec => []RevealsAgree
<1>1. Init => RevealsFitPoint
  BY DEF Init, ChainInit, RevealsFitPoint
<1>2. QED
  BY <1>1, TypeCorrect, RevealsFitPointStep, RevealsFitImpliesAgree, PTL DEF Spec

-----------------------------------------------------------------------------
(* The log.  An action adds one event of its own type, or none of a type.  *)

Silent(t) ==
  /\ EventsOf(t)' = EventsOf(t)
  /\ \A i \in EventsOf(t) : events'[i] = events[i]

Adds(t, e) ==
  LET n == Len(events) + 1
  IN /\ EventsOf(t)' = EventsOf(t) \cup {n}
     /\ n \in Nat /\ events'[n] = e
     /\ \A i \in EventsOf(t) : i \in Nat /\ i < n /\ events'[i] = events[i]

\* An event that is emitted is the newest of its type, and of no other type.
LEMMA EmitEffect ==
  ASSUME TypeOK, NEW e, Emit(e), NEW t
  PROVE  IF e.type = t THEN Adds(t, e) ELSE Silent(t)
<1>1. events \in Seq(Event) /\ events' = Append(events, e)
  BY DEF TypeOK, Emit
<1>2. /\ DOMAIN events' = DOMAIN events \cup {Len(events) + 1}
      /\ Len(events) + 1 \notin DOMAIN events
      /\ \A i \in DOMAIN events : events'[i] = events[i]
      /\ events'[Len(events) + 1] = e
  BY <1>1, AppendAt
<1>3. Len(events) + 1 \in Nat /\ \A i \in DOMAIN events : i \in Nat /\ i < Len(events) + 1
  BY <1>1
<1>4. QED
  BY <1>2, <1>3 DEF Adds, Silent, EventsOf

\* The registration event of a registration.
registered(account, pubkey) ==
  [type          |-> "EncryptionKeyRegistered",
   key_id        |-> nextId,
   account       |-> account,
   pubkey        |-> pubkey,
   key_version   |-> next_version(account),
   rotated_at_ms |-> now]

\* A registration is logged as what it did.
LEMMA RegisterLog ==
  ASSUME TypeOK, Register
  PROVE  \E account \in Accounts, pubkey \in PubKeys :
           /\ KeyAdded(account, pubkey)
           /\ keys'[nextId] = [account       |-> account,
                               pubkey        |-> pubkey,
                               key_version   |-> next_version(account),
                               rotated_at_ms |-> now]
           /\ Adds("EncryptionKeyRegistered", registered(account, pubkey))
<1>1. PICK account \in Accounts, pubkey \in PubKeys :
        register_encryption_key(account, pubkey) /\ KeyAdded(account, pubkey)
  BY RegisterEffect
<1>2. Emit(registered(account, pubkey))
  BY <1>1 DEF register_encryption_key, registered
<1>3. registered(account, pubkey).type = "EncryptionKeyRegistered"
  BY DEF registered
<1>4. keys'[nextId] = [account       |-> account,
                       pubkey        |-> pubkey,
                       key_version   |-> next_version(account),
                       rotated_at_ms |-> now]
  BY <1>1 DEF register_encryption_key
<1>5. QED
  BY <1>1, <1>2, <1>3, <1>4, EmitEffect

\* Which types an action leaves alone.
LEMMA LogFrame ==
  ASSUME TypeOK, [Next]_vars
  PROVE  /\ Register \/ Silent("EncryptionKeyRegistered")
         /\ Post \/ Silent("EnvelopePosted")
         /\ Commit \/ Silent("SecretCommitted")
         /\ Open \/ Silent("SecretOpened")
<1> DEFINE Types == {"EncryptionKeyRegistered", "EnvelopePosted", "SecretCommitted",
                     "SecretOpened"}
<1>1. ASSUME NEW e, Emit(e)
      PROVE  \A t \in Types : e.type = t \/ Silent(t)
  BY <1>1, EmitEffect
<1>2. CASE Register
  <2>1. PICK e : Emit(e) /\ e.type = "EncryptionKeyRegistered"
    BY <1>2 DEF Register, register_encryption_key
  <2>2. QED
    BY <1>1, <1>2, <2>1
<1>3. CASE Post
  <2>1. PICK e : Emit(e) /\ e.type = "EnvelopePosted"
    BY <1>3 DEF Post, post_envelope, posted
  <2>2. QED
    BY <1>1, <1>3, <2>1
<1>4. CASE Commit
  <2>1. PICK e : Emit(e) /\ e.type = "SecretCommitted"
    BY <1>4 DEF Commit, commit_secret
  <2>2. QED
    BY <1>1, <1>4, <2>1
<1>5. CASE Open
  <2>1. PICK e : Emit(e) /\ e.type = "SecretOpened"
    BY <1>5 DEF Open, open_secret
  <2>2. QED
    BY <1>1, <1>5, <2>1
<1>6. CASE OpenWithProof
  <2>1. PICK verified, opened :
          /\ events' = Append(Append(events, verified), opened)
          /\ verified.type = "ProofVerified" /\ opened.type = "SecretPartialOpened"
    BY <1>6 DEF OpenWithProof, open_with_proof
  <2>2. \A t \in Types : Silent(t)
    <3> DEFINE n == Len(events)
    <3>1. events \in Seq(Event) /\ n \in Nat /\ DOMAIN events = 1..n
      BY DEF TypeOK
    <3>2. /\ DOMAIN events' = 1..(n + 2)
          /\ \A i \in 1..n : events'[i] = events[i]
          /\ events'[n + 1] = verified /\ events'[n + 2] = opened
      BY <2>1, <3>1
    <3>3. QED
      BY <2>1, <3>1, <3>2 DEF Silent, EventsOf
  <2>3. QED
    BY <2>2
<1>7. CASE VerifyProof
  <2>1. PICK e : Emit(e) /\ e.type = "ProofVerified"
    BY <1>7 DEF VerifyProof, call_verifier
  <2>2. QED
    BY <1>1, <2>1
<1>8. CASE UNCHANGED events
  BY <1>8 DEF Silent, EventsOf
<1>9. QED
  BY <1>2, <1>3, <1>4, <1>5, <1>6, <1>7, <1>8
  DEF Next, vars, chainVars, Tick, AdvanceClock, Transfer, public_transfer

-----------------------------------------------------------------------------
(* Readers of the log.                                                     *)

\* The registration events are the key objects, in the order of their ids, and
\* the last one of an account is its entry.
LEMMA EventsRebuildRegistryStep ==
  TypeOK /\ EntryIsNewestKey /\ EventsRebuildRegistry /\ [Next]_vars
    => EventsRebuildRegistry'
<1> SUFFICES ASSUME TypeOK, EntryIsNewestKey, EventsRebuildRegistry, [Next]_vars
             PROVE  EventsRebuildRegistry'
  OBVIOUS
<1> DEFINE T   == "EncryptionKeyRegistered"
           log == EventsOf(T)
<1>1. CASE Register
  <2>1. PICK account \in Accounts, pubkey \in PubKeys :
          /\ KeyAdded(account, pubkey)
          /\ keys'[nextId] = [account       |-> account,
                              pubkey        |-> pubkey,
                              key_version   |-> next_version(account),
                              rotated_at_ms |-> now]
          /\ Adds(T, registered(account, pubkey))
    BY <1>1, RegisterLog
  <2> DEFINE n == Len(events) + 1
  <2>2. /\ log' = log \cup {n} /\ n \in Nat
        /\ \A i \in log : i \in Nat /\ i < n /\ events'[i] = events[i]
    BY <2>1 DEF Adds
  <2>3. /\ events'[n].key_id = nextId /\ events'[n].account = account
        /\ events'[n].pubkey = pubkey /\ events'[n].rotated_at_ms = now
        /\ events'[n].key_version = next_version(account)
    BY <2>1 DEF Adds, registered
  <2>4. \A i \in log : events[i].key_id \in DOMAIN keys
    BY DEF EventsRebuildRegistry
  <2> HIDE DEF n, log
  <2>5. ASSUME NEW i \in log'
        PROVE  /\ events'[i].key_id \in DOMAIN keys'
               /\ keys'[events'[i].key_id] = [account       |-> events'[i].account,
                                              pubkey        |-> events'[i].pubkey,
                                              key_version   |-> events'[i].key_version,
                                              rotated_at_ms |-> events'[i].rotated_at_ms]
    <3>1. CASE i \in log
      <4>1. keys[events[i].key_id] = [account       |-> events[i].account,
                                      pubkey        |-> events[i].pubkey,
                                      key_version   |-> events[i].key_version,
                                      rotated_at_ms |-> events[i].rotated_at_ms]
        BY <3>1 DEF EventsRebuildRegistry, log
      <4>2. QED
        BY <2>1, <2>2, <2>4, <3>1, <4>1 DEF KeyAdded
    <3>2. CASE i = n
      BY <2>1, <2>3, <3>2 DEF KeyAdded
    <3>3. QED
      BY <2>2, <2>5, <3>1, <3>2
  <2>6. ASSUME NEW id \in DOMAIN keys'
        PROVE  \E i \in log' : events'[i].key_id = id
    <3>1. CASE id \in DOMAIN keys
      <4>1. PICK i \in log : events[i].key_id = id
        BY <3>1 DEF EventsRebuildRegistry, log
      <4>2. QED
        BY <2>2, <4>1
    <3>2. CASE id = nextId
      BY <2>2, <2>3, <3>2
    <3>3. QED
      BY <2>1, <3>1, <3>2 DEF KeyAdded
  <2>7. ASSUME NEW i \in log', NEW j \in log', i < j
        PROVE  events'[i].key_id < events'[j].key_id
    <3>1. i \in log
      BY <2>2, <2>7
    <3>2. CASE j \in log
      BY <2>2, <2>7, <3>1, <3>2 DEF EventsRebuildRegistry, log
    <3>3. CASE j = n
      BY <2>1, <2>2, <2>3, <2>4, <3>1, <3>3 DEF KeyAdded
    <3>4. QED
      BY <2>2, <3>2, <3>3
  <2>8. ASSUME NEW i \in log',
               \A j \in log' : events'[j].account = events'[i].account => j <= i
        PROVE  entries'[events'[i].account].current_key_id = events'[i].key_id
    <3>1. CASE i = n
      BY <2>1, <2>3, <3>1 DEF KeyAdded
    <3>2. CASE i \in log
      <4>1. events[i].account # account
        <5>1. n \in log' /\ i < n /\ i \in Nat /\ events'[i] = events[i]
          BY <2>2, <3>2
        <5>2. ~(n <= i)
          BY <2>2, <5>1
        <5>3. QED
          BY <2>3, <2>8, <5>1, <5>2
      <4>2. events[i].account \in DOMAIN entries
        <5>1. keys[events[i].key_id] = [account       |-> events[i].account,
                                        pubkey        |-> events[i].pubkey,
                                        key_version   |-> events[i].key_version,
                                        rotated_at_ms |-> events[i].rotated_at_ms]
          BY <3>2 DEF EventsRebuildRegistry, log
        <5>2. keys[events[i].key_id].account = events[i].account
          BY <5>1
        <5>3. QED
          BY <2>4, <3>2, <5>2 DEF EntryIsNewestKey, has_entry
      <4>3. \A j \in log : events[j].account = events[i].account => j <= i
        BY <2>2, <2>8, <3>2
      <4>4. entries[events[i].account].current_key_id = events[i].key_id
        BY <3>2, <4>3 DEF EventsRebuildRegistry, log
      <4>5. QED
        BY <2>1, <2>2, <3>2, <4>1, <4>2, <4>4 DEF KeyAdded
    <3>3. QED
      BY <2>2, <3>1, <3>2
  <2>9. QED
    BY <2>5, <2>6, <2>7, <2>8 DEF EventsRebuildRegistry, log
<1>2. CASE Silent(T) /\ UNCHANGED registryVars
  BY <1>2 DEF Silent, EventsRebuildRegistry, registryVars
<1>3. QED
  BY <1>1, <1>2, LogFrame, RegistryFrame

\* A reader of the registration events alone holds the registry.
THEOREM RegistryRebuilt == Spec => []EventsRebuildRegistry
<1>1. Init => EventsRebuildRegistry
  BY DEF Init, ChainInit, RegistryInit, EventsRebuildRegistry, EventsOf
<1>2. QED
  BY <1>1, TypeCorrect, EntryNewest, EventsRebuildRegistryStep, PTL DEF Spec

\* Posting an envelope logs its routing, and nothing else is logged of one.
LEMMA InboxCompleteStep ==
  TypeOK /\ InboxComplete /\ [Next]_vars => InboxComplete'
<1> SUFFICES ASSUME TypeOK, InboxComplete, [Next]_vars PROVE InboxComplete'
  OBVIOUS
<1> DEFINE T   == "EnvelopePosted"
           log == EventsOf(T)
           Matches(e, m) == /\ e.sender = m.sender
                            /\ e.recipient = m.recipient
                            /\ e.recipient_key_id = m.recipient_key_id
                            /\ e.recipient_key_version = m.recipient_key_version
                            /\ e.sealed.recipient_pk = m.recipient_pk
                            /\ e.created_at_ms = m.created_at_ms
<1>1. CASE Post
  <2>1. PICK sender \in Accounts, recipient \in Accounts, keyId \in ObjectIds,
             version \in KeyVersions, sealed \in Sealed :
          /\ post_envelope(sender, recipient, keyId, version, sealed)
          /\ EnvelopeAdded(sender, recipient, keyId, version, sealed)
    BY <1>1, PostEffect
  <2> DEFINE n == Len(events) + 1
             m == posted(nextId, [sender                |-> sender,
                                  recipient             |-> recipient,
                                  recipient_key_id      |-> keyId,
                                  recipient_key_version |-> version,
                                  sealed                |-> sealed,
                                  created_at_ms         |-> now])
  <2>2. Emit(m) /\ m.type = T
    BY <2>1 DEF post_envelope, posted
  <2>3. Adds(T, m)
    BY <2>2, EmitEffect
  <2>4. /\ log' = log \cup {n} /\ n \in Nat /\ events'[n] = m
        /\ \A i \in log : i \in Nat /\ i < n /\ events'[i] = events[i]
    BY <2>3 DEF Adds
  <2>5. m.envelope_object_id = nextId /\ Matches(envelopes'[nextId], m)
    BY <2>1 DEF posted, EnvelopeAdded
  <2>6. \A i \in log : /\ events[i].envelope_object_id \in DOMAIN envelopes
                       /\ Matches(envelopes[events[i].envelope_object_id], events[i])
    BY DEF InboxComplete
  <2>7. \A x \in DOMAIN envelopes : \E i \in log : events[i].envelope_object_id = x
    BY DEF InboxComplete
  <2>8. \A i, j \in log :
          events[i].envelope_object_id = events[j].envelope_object_id => i = j
    BY DEF InboxComplete
  <2>9. /\ nextId \notin DOMAIN envelopes
        /\ DOMAIN envelopes' = DOMAIN envelopes \cup {nextId}
        /\ \A x \in DOMAIN envelopes : envelopes'[x] = envelopes[x]
    BY <2>1 DEF EnvelopeAdded
  <2> HIDE DEF n, m, log, Matches
  <2>10. \A i \in log' : /\ events'[i].envelope_object_id \in DOMAIN envelopes'
                         /\ Matches(envelopes'[events'[i].envelope_object_id], events'[i])
    BY <2>4, <2>5, <2>6, <2>9
  <2>11. \A x \in DOMAIN envelopes' : \E i \in log' : events'[i].envelope_object_id = x
    BY <2>4, <2>5, <2>7, <2>9
  <2>12. \A i, j \in log' :
           events'[i].envelope_object_id = events'[j].envelope_object_id => i = j
    BY <2>4, <2>5, <2>6, <2>8, <2>9
  <2>13. QED
    BY <2>10, <2>11, <2>12 DEF InboxComplete, log, Matches
<1>2. CASE Silent(T) /\ UNCHANGED envelopes
  BY <1>2 DEF Silent, InboxComplete
<1>3. QED
  BY <1>1, <1>2, LogFrame, EnvelopesFrame

\* A reader of the posted events misses no envelope and is misled about none.
THEOREM InboxFound == Spec => []InboxComplete
<1>1. Init => InboxComplete
  BY DEF Init, ChainInit, EnvelopesInit, InboxComplete, EventsOf
<1>2. QED
  BY <1>1, TypeCorrect, InboxCompleteStep, PTL DEF Spec

-----------------------------------------------------------------------------
(* Readers of the log: commitments.  An opening is logged not before the   *)
(* commitment, because commitments were logged in the past.                *)

\* Two commitments that differ in their owner at most.
SameButOwner(c, d) ==
  /\ c.author = d.author /\ c.encoding_id = d.encoding_id /\ c.point = d.point
  /\ c.created_at_ms = d.created_at_ms
  /\ c.opened = d.opened /\ c.opened_at_ms = d.opened_at_ms

\* A commitment with the fields its SecretCommitted event gives it.
Committed(c, e) ==
  /\ e.author = c.author /\ e.encoding_id = c.encoding_id /\ e.point = c.point
  /\ e.created_at_ms = c.created_at_ms

\* What a commit does to the commitments and the log.
LEMMA CommitEffect ==
  ASSUME TypeOK, Commit
  PROVE  \E e : /\ e.commitment_id = nextId /\ e.created_at_ms = now
                /\ Adds("SecretCommitted", e)
                /\ nextId \notin DOMAIN commitments
                /\ DOMAIN commitments' = DOMAIN commitments \cup {nextId}
                /\ \A id \in DOMAIN commitments : commitments'[id] = commitments[id]
                /\ Committed(commitments'[nextId], e)
                /\ ~commitments'[nextId].opened
<1>1. PICK author \in Accounts, encoding_id \in EncodingIds, point \in Points :
        commit_secret(author, encoding_id, point)
  BY DEF Commit
<1> DEFINE e == [type          |-> "SecretCommitted",
                 commitment_id |-> nextId,
                 author        |-> author,
                 encoding_id   |-> encoding_id,
                 point         |-> point,
                 created_at_ms |-> now]
<1>2. nextId \notin DOMAIN commitments
  BY DEF TypeOK
<1>3. Emit(e)
  BY <1>1 DEF commit_secret
<1>4. Adds("SecretCommitted", e)
  BY <1>3, EmitEffect
<1>5. /\ DOMAIN commitments' = DOMAIN commitments \cup {nextId}
      /\ \A id \in DOMAIN commitments : commitments'[id] = commitments[id]
      /\ Committed(commitments'[nextId], e)
      /\ ~commitments'[nextId].opened
  BY <1>1, <1>2 DEF commit_secret, Committed
<1>6. e.commitment_id = nextId /\ e.created_at_ms = now
  OBVIOUS
<1> HIDE DEF e
<1>7. QED
  BY <1>2, <1>4, <1>5, <1>6

\* What an opening does to the commitments and the log.
LEMMA OpenEffect ==
  ASSUME TypeOK, Open
  PROVE  \E e : \E id \in DOMAIN commitments :
           /\ e.commitment_id = id /\ e.opened_at_ms = now
           /\ Adds("SecretOpened", e)
           /\ ~commitments[id].opened
           /\ DOMAIN commitments' = DOMAIN commitments
           /\ \A x \in DOMAIN commitments : x # id => commitments'[x] = commitments[x]
           /\ commitments'[id].author = commitments[id].author
           /\ commitments'[id].encoding_id = commitments[id].encoding_id
           /\ commitments'[id].point = commitments[id].point
           /\ commitments'[id].created_at_ms = commitments[id].created_at_ms
           /\ commitments'[id].opened /\ commitments'[id].opened_at_ms = now
<1>1. PICK sender \in Accounts, id \in DOMAIN commitments, stream \in Streams,
           blinding \in Blindings : open_secret(sender, id, stream, blinding)
  BY DEF Open
<1> DEFINE e == [type |-> "SecretOpened", commitment_id |-> id,
                 author |-> commitments[id].author,
                 encoding_id |-> commitments[id].encoding_id,
                 point |-> commitments[id].point,
                 stream |-> stream, blinding |-> blinding, opened_at_ms |-> now]
<1>2. Emit(e)
  BY <1>1 DEF open_secret
<1>3. Adds("SecretOpened", e)
  BY <1>2, EmitEffect
<1>4. commitments[id] \in SecretCommitment
  BY DEF TypeOK
<1>5. /\ ~commitments[id].opened
      /\ DOMAIN commitments' = DOMAIN commitments
      /\ \A x \in DOMAIN commitments : x # id => commitments'[x] = commitments[x]
  BY <1>1 DEF open_secret, open_secret_asserts
<1>6. /\ commitments'[id].author = commitments[id].author
      /\ commitments'[id].encoding_id = commitments[id].encoding_id
      /\ commitments'[id].point = commitments[id].point
      /\ commitments'[id].created_at_ms = commitments[id].created_at_ms
      /\ commitments'[id].opened /\ commitments'[id].opened_at_ms = now
  BY <1>1, <1>4 DEF open_secret, SecretCommitment
<1>7. e.commitment_id = id /\ e.opened_at_ms = now
  OBVIOUS
<1> HIDE DEF e
<1>8. QED
  BY <1>3, <1>5, <1>6, <1>7

\* Commitments change by a commit, an opening, or in their owner.
LEMMA CommitmentsFrame ==
  ASSUME TypeOK, [Next]_vars
  PROVE  \/ Commit \/ Open
         \/ /\ DOMAIN commitments' = DOMAIN commitments
            /\ \A id \in DOMAIN commitments :
                 SameButOwner(commitments'[id], commitments[id])
<1>1. CASE Transfer
  <2>1. \A id \in DOMAIN commitments : commitments[id] \in SecretCommitment
    BY DEF TypeOK
  <2>2. PICK x \in DOMAIN commitments, to \in Accounts : public_transfer(x, to)
    BY <1>1 DEF Transfer
  <2>3. commitments' = [commitments EXCEPT ![x].owner = to]
    BY <2>2 DEF public_transfer
  <2>4. \A id \in DOMAIN commitments : SameButOwner(commitments'[id], commitments[id])
    BY <2>1, <2>3 DEF SameButOwner, SecretCommitment
  <2>5. QED
    BY <2>3, <2>4
<1>2. CASE UNCHANGED commitments
  BY <1>2 DEF SameButOwner
<1>3. QED
  BY <1>1, <1>2
  DEF Next, vars, Tick, Register, Post, OpenWithProof, open_with_proof, VerifyProof,
      call_verifier

\* One step does not commit and open: a commit takes a new id, an opening none.
LEMMA CommitOrOpen == TypeOK => ~(Commit /\ Open)
<1>1. Commit => nextId' = nextId + 1
  BY DEF Commit, commit_secret, NewObject
<1>2. Open => nextId' = nextId
  BY DEF Open, open_secret
<1>3. TypeOK => nextId \in Nat
  BY DEF TypeOK
<1>4. QED
  BY <1>1, <1>2, <1>3

\* Commitments are logged with times that have passed.
CommittedInPast ==
  \A i \in EventsOf("SecretCommitted") :
    events[i].created_at_ms \in Nat /\ events[i].created_at_ms <= now

\* No step logs a commitment of the future.
LEMMA CommittedInPastStep ==
  TypeOK /\ CommittedInPast /\ [Next]_vars => CommittedInPast'
<1> SUFFICES ASSUME TypeOK, CommittedInPast, [Next]_vars PROVE CommittedInPast'
  OBVIOUS
<1>1. now \in Nat /\ now' \in Nat /\ now <= now'
  BY ClockAndIdsAdvance, StampTypes
<1>2. CASE Commit
  <2>1. PICK e : Adds("SecretCommitted", e) /\ e.created_at_ms = now
    BY <1>2, CommitEffect
  <2>2. QED
    BY <1>1, <2>1 DEF Adds, CommittedInPast
<1>3. CASE Silent("SecretCommitted")
  BY <1>1, <1>3 DEF Silent, CommittedInPast
<1>4. QED
  BY <1>2, <1>3, LogFrame

\* The commitments and their events stay the same list through every step.
LEMMA EventsRebuildCommitmentsStep ==
  TypeOK /\ CommittedInPast /\ EventsRebuildCommitments /\ [Next]_vars
    => EventsRebuildCommitments'
<1> SUFFICES ASSUME TypeOK, CommittedInPast, EventsRebuildCommitments, [Next]_vars
             PROVE  EventsRebuildCommitments'
  OBVIOUS
<1> DEFINE C == EventsOf("SecretCommitted")
           O == EventsOf("SecretOpened")
           cs == commitments
           ev == events
<1>1. /\ \A id \in DOMAIN cs : \E i \in C : ev[i].commitment_id = id /\ Committed(cs[id], ev[i])
      /\ \A i \in C : ev[i].commitment_id \in DOMAIN cs
      /\ \A i, j \in C : ev[i].commitment_id = ev[j].commitment_id => i = j
      /\ \A id \in DOMAIN cs : cs[id].opened <=> \E k \in O : ev[k].commitment_id = id
      /\ \A i, j \in O : ev[i].commitment_id = ev[j].commitment_id => i = j
      /\ \A k \in O :
           /\ cs[ev[k].commitment_id].opened_at_ms = ev[k].opened_at_ms
           /\ \E i \in C : /\ i < k
                           /\ ev[i].commitment_id = ev[k].commitment_id
                           /\ ev[i].created_at_ms <= ev[k].opened_at_ms
  BY DEF EventsRebuildCommitments, Committed
<1>2. \A k \in O : ev[k].commitment_id \in DOMAIN cs
  BY <1>1
<1>3. \A i \in C : i \in Nat /\ i < Len(ev) + 1 /\ Len(ev) + 1 \in Nat
  BY DEF TypeOK, EventsOf
<1>4. \A i \in C : ev[i].created_at_ms <= now
  BY DEF CommittedInPast
<1>5. SUFFICES
        /\ \A id \in DOMAIN cs' :
             \E i \in C' : ev'[i].commitment_id = id /\ Committed(cs'[id], ev'[i])
        /\ \A i \in C' : ev'[i].commitment_id \in DOMAIN cs'
        /\ \A i, j \in C' : ev'[i].commitment_id = ev'[j].commitment_id => i = j
        /\ \A id \in DOMAIN cs' : cs'[id].opened <=> \E k \in O' : ev'[k].commitment_id = id
        /\ \A i, j \in O' : ev'[i].commitment_id = ev'[j].commitment_id => i = j
        /\ \A k \in O' :
             /\ cs'[ev'[k].commitment_id].opened_at_ms = ev'[k].opened_at_ms
             /\ \E i \in C' : /\ i < k
                              /\ ev'[i].commitment_id = ev'[k].commitment_id
                              /\ ev'[i].created_at_ms <= ev'[k].opened_at_ms
  BY <1>5 DEF EventsRebuildCommitments, Committed
<1>6. CASE Commit
  <2>1. PICK e : /\ e.commitment_id = nextId /\ Adds("SecretCommitted", e)
                 /\ nextId \notin DOMAIN cs
                 /\ DOMAIN cs' = DOMAIN cs \cup {nextId}
                 /\ \A id \in DOMAIN cs : cs'[id] = cs[id]
                 /\ Committed(cs'[nextId], e)
                 /\ ~cs'[nextId].opened
    BY <1>6, CommitEffect
  <2> DEFINE n == Len(ev) + 1
  <2>2. /\ C' = C \cup {n} /\ ev'[n] = e
        /\ \A i \in C : i < n /\ ev'[i] = ev[i]
    BY <2>1 DEF Adds
  <2>3. O' = O /\ \A k \in O : ev'[k] = ev[k]
    BY <1>6, CommitOrOpen, LogFrame DEF Silent
  <2> HIDE DEF n, C, O, cs, ev
  <2>4. \A id \in DOMAIN cs' :
          \E i \in C' : ev'[i].commitment_id = id /\ Committed(cs'[id], ev'[i])
    BY <1>1, <2>1, <2>2
  <2>5. \A i \in C' : ev'[i].commitment_id \in DOMAIN cs'
    BY <1>1, <2>1, <2>2
  <2>6. \A i, j \in C' : ev'[i].commitment_id = ev'[j].commitment_id => i = j
    BY <1>1, <2>1, <2>2
  <2>7. \A id \in DOMAIN cs' : cs'[id].opened <=> \E k \in O' : ev'[k].commitment_id = id
    BY <1>1, <1>2, <2>1, <2>3
  <2>8. \A i, j \in O' : ev'[i].commitment_id = ev'[j].commitment_id => i = j
    BY <1>1, <2>3
  <2>9. ASSUME NEW k \in O'
        PROVE  /\ cs'[ev'[k].commitment_id].opened_at_ms = ev'[k].opened_at_ms
               /\ \E i \in C' : /\ i < k
                                /\ ev'[i].commitment_id = ev'[k].commitment_id
                                /\ ev'[i].created_at_ms <= ev'[k].opened_at_ms
    BY <1>1, <1>2, <2>1, <2>2, <2>3
  <2>10. QED
    BY <2>4, <2>5, <2>6, <2>7, <2>8, <2>9
<1>7. CASE Open
  <2>1. PICK x, e :
           /\ x \in DOMAIN cs
           /\ e.commitment_id = x /\ e.opened_at_ms = now
           /\ Adds("SecretOpened", e)
           /\ ~cs[x].opened
           /\ DOMAIN cs' = DOMAIN cs
           /\ \A id \in DOMAIN cs : id # x => cs'[id] = cs[id]
           /\ cs'[x].author = cs[x].author
           /\ cs'[x].encoding_id = cs[x].encoding_id
           /\ cs'[x].point = cs[x].point
           /\ cs'[x].created_at_ms = cs[x].created_at_ms
           /\ cs'[x].opened /\ cs'[x].opened_at_ms = now
    BY <1>7, OpenEffect
  <2> DEFINE n == Len(ev) + 1
  <2>2. /\ O' = O \cup {n} /\ ev'[n] = e
        /\ \A k \in O : ev'[k] = ev[k]
    BY <2>1 DEF Adds
  <2>3. C' = C /\ \A i \in C : ev'[i] = ev[i]
    BY <1>7, CommitOrOpen, LogFrame DEF Silent
  <2>4. \A i \in C : i < n
    BY <1>3
  <2>5. \A id \in DOMAIN cs : \A i \in C : Committed(cs[id], ev[i]) => Committed(cs'[id], ev[i])
    BY <2>1 DEF Committed
  <2> HIDE DEF n, C, O, cs, ev
  <2>6. \A id \in DOMAIN cs' :
          \E i \in C' : ev'[i].commitment_id = id /\ Committed(cs'[id], ev'[i])
    BY <1>1, <2>1, <2>3, <2>5
  <2>7. \A i \in C' : ev'[i].commitment_id \in DOMAIN cs'
    BY <1>1, <2>1, <2>3
  <2>8. \A i, j \in C' : ev'[i].commitment_id = ev'[j].commitment_id => i = j
    BY <1>1, <2>3
  <2>9. ASSUME NEW id \in DOMAIN cs'
        PROVE  cs'[id].opened <=> \E k \in O' : ev'[k].commitment_id = id
    BY <1>1, <2>1, <2>2
  <2>10. ~\E k \in O : ev[k].commitment_id = x
    BY <1>1, <2>1
  <2>11. \A i, j \in O' : ev'[i].commitment_id = ev'[j].commitment_id => i = j
    BY <1>1, <2>1, <2>2, <2>10
  <2>12. ASSUME NEW k \in O'
         PROVE  /\ cs'[ev'[k].commitment_id].opened_at_ms = ev'[k].opened_at_ms
                /\ \E i \in C' : /\ i < k
                                 /\ ev'[i].commitment_id = ev'[k].commitment_id
                                 /\ ev'[i].created_at_ms <= ev'[k].opened_at_ms
    <3>1. CASE k \in O
      BY <1>1, <1>2, <2>1, <2>2, <2>3, <2>10, <3>1
    <3>2. CASE k = n
      <4>1. PICK i \in C : ev[i].commitment_id = x
        BY <1>1, <2>1
      <4>2. QED
        BY <1>4, <2>1, <2>2, <2>3, <2>4, <3>2, <4>1
    <3>3. QED
      BY <2>2, <3>1, <3>2
  <2>13. QED
    BY <2>6, <2>7, <2>8, <2>9, <2>11, <2>12
<1>8. ASSUME ~Commit, ~Open
      PROVE  /\ C' = C /\ \A i \in C : ev'[i] = ev[i]
             /\ O' = O /\ \A k \in O : ev'[k] = ev[k]
             /\ DOMAIN cs' = DOMAIN cs
             /\ \A id \in DOMAIN cs : SameButOwner(cs'[id], cs[id])
  BY <1>8, LogFrame, CommitmentsFrame DEF Silent
<1>9. CASE ~Commit /\ ~Open
  <2>1. /\ C' = C /\ \A i \in C : ev'[i] = ev[i]
        /\ O' = O /\ \A k \in O : ev'[k] = ev[k]
        /\ DOMAIN cs' = DOMAIN cs
        /\ \A id \in DOMAIN cs : SameButOwner(cs'[id], cs[id])
    BY <1>8, <1>9
  <2> HIDE DEF C, O, cs, ev
  <2>2. ASSUME NEW id \in DOMAIN cs', NEW i \in C, Committed(cs[id], ev[i])
        PROVE  Committed(cs'[id], ev'[i])
    BY <2>1, <2>2 DEF SameButOwner, Committed
  <2>3. \A id \in DOMAIN cs' :
          \E i \in C' : ev'[i].commitment_id = id /\ Committed(cs'[id], ev'[i])
    BY <1>1, <2>1, <2>2
  <2>4. /\ \A i \in C' : ev'[i].commitment_id \in DOMAIN cs'
        /\ \A i, j \in C' : ev'[i].commitment_id = ev'[j].commitment_id => i = j
    BY <1>1, <2>1
  <2>5. \A id \in DOMAIN cs' :
          cs'[id].opened <=> \E k \in O' : ev'[k].commitment_id = id
    BY <1>1, <2>1 DEF SameButOwner
  <2>6. \A i, j \in O' : ev'[i].commitment_id = ev'[j].commitment_id => i = j
    BY <1>1, <2>1
  <2>7. ASSUME NEW k \in O'
        PROVE  /\ cs'[ev'[k].commitment_id].opened_at_ms = ev'[k].opened_at_ms
               /\ \E i \in C' : /\ i < k
                                /\ ev'[i].commitment_id = ev'[k].commitment_id
                                /\ ev'[i].created_at_ms <= ev'[k].opened_at_ms
    BY <1>1, <1>2, <2>1 DEF SameButOwner
  <2>8. QED
    BY <2>3, <2>4, <2>5, <2>6, <2>7
<1>10. QED
  BY <1>6, <1>7, <1>9

\* A reader of the commitment events alone knows what is committed and opened.
THEOREM CommitmentsRebuilt == Spec => []EventsRebuildCommitments
<1>1. Init => CommittedInPast /\ EventsRebuildCommitments
  BY DEF Init, ChainInit, CommitmentsInit, CommittedInPast, EventsRebuildCommitments, EventsOf
<1>2. QED
  BY <1>1, TypeCorrect, CommittedInPastStep, EventsRebuildCommitmentsStep, PTL DEF Spec

-----------------------------------------------------------------------------
(* History.                                                                *)

\* The log grows at its end: what was logged stays where it is.
LEMMA EventsKept ==
  ASSUME TypeOK, [Next]_vars
  PROVE  Len(events) <= Len(events') /\ \A i \in DOMAIN events : events'[i] = events[i]
<1>1. events \in Seq(Event)
  BY DEF TypeOK
<1>2. ASSUME NEW e, Emit(e) PROVE Len(events) <= Len(events')
                                    /\ \A i \in DOMAIN events : events'[i] = events[i]
  BY <1>1, <1>2 DEF Emit
<1>3. CASE OpenWithProof
  <2>1. PICK d, e : events' = Append(Append(events, d), e)
    BY <1>3 DEF OpenWithProof, open_with_proof
  <2>2. QED
    BY <1>1, <2>1
<1>4. CASE Register \/ Post \/ Commit \/ Open \/ VerifyProof
  <2>1. \E e : Emit(e)
    BY <1>4 DEF Register, register_encryption_key, Post, post_envelope, Commit,
       commit_secret, Open, open_secret, VerifyProof, call_verifier
  <2>2. QED
    BY <1>2, <2>1
<1>5. CASE UNCHANGED events
  BY <1>1, <1>5
<1>6. QED
  BY <1>3, <1>4, <1>5
  DEF Next, vars, chainVars, Tick, AdvanceClock, Transfer, public_transfer

\* What one step may do to a commitment.
LEMMA CommitmentHistory ==
  ASSUME TypeOK, [Next]_vars, NEW id \in DOMAIN commitments
  PROVE  /\ id \in DOMAIN commitments'
         /\ [commitments'[id] EXCEPT !.owner = commitments[id].owner]
              \in {commitments[id], [commitments[id] EXCEPT !.opened = TRUE,
                                                            !.opened_at_ms = now]}
         /\ commitments[id].opened =>
              /\ commitments'[id].opened
              /\ commitments'[id].opened_at_ms = commitments[id].opened_at_ms
<1> DEFINE c == commitments[id]
<1>1. c \in SecretCommitment
  BY DEF TypeOK
<1>2. [c EXCEPT !.owner = c.owner] = c
  BY <1>1 DEF SecretCommitment
<1>3. CASE Commit
  <2>1. id \in DOMAIN commitments' /\ commitments'[id] = c
    BY <1>3, CommitEffect
  <2>2. QED
    BY <1>2, <2>1
<1>4. CASE Open
  <2>1. PICK sender \in Accounts, x \in DOMAIN commitments, stream \in Streams,
             blinding \in Blindings : open_secret(sender, x, stream, blinding)
    BY <1>4 DEF Open
  <2>2. commitments' = [commitments EXCEPT ![x].opened = TRUE, ![x].opened_at_ms = now]
          /\ ~commitments[x].opened
    BY <2>1 DEF open_secret, open_secret_asserts
  <2>3. CASE x # id
    BY <1>2, <2>2, <2>3
  <2>4. CASE x = id
    <3>1. commitments'[id] = [c EXCEPT !.opened = TRUE, !.opened_at_ms = now]
            /\ id \in DOMAIN commitments' /\ ~c.opened
      BY <2>2, <2>4
    <3>2. [[c EXCEPT !.opened = TRUE, !.opened_at_ms = now] EXCEPT !.owner = c.owner]
            = [c EXCEPT !.opened = TRUE, !.opened_at_ms = now]
      BY <1>1 DEF SecretCommitment
    <3>3. QED
      BY <3>1, <3>2
  <2>5. QED
    BY <2>3, <2>4
<1>5. CASE Transfer
  <2>1. PICK x \in DOMAIN commitments, to \in Accounts : public_transfer(x, to)
    BY <1>5 DEF Transfer
  <2>2. commitments' = [commitments EXCEPT ![x].owner = to]
    BY <2>1 DEF public_transfer
  <2>3. CASE x # id
    BY <1>2, <2>2, <2>3
  <2>4. CASE x = id
    <3>1. commitments'[id] = [c EXCEPT !.owner = to] /\ id \in DOMAIN commitments'
      BY <2>2, <2>4
    <3>2. /\ [[c EXCEPT !.owner = to] EXCEPT !.owner = c.owner] = c
          /\ [c EXCEPT !.owner = to].opened = c.opened
          /\ [c EXCEPT !.owner = to].opened_at_ms = c.opened_at_ms
      BY <1>1 DEF SecretCommitment
    <3>3. QED
      BY <3>1, <3>2
  <2>5. QED
    BY <2>3, <2>4
<1>6. CASE UNCHANGED commitments
  BY <1>2, <1>6
<1>7. QED
  BY <1>3, <1>4, <1>5, <1>6
  DEF Next, vars, Tick, Register, Post, OpenWithProof, open_with_proof, VerifyProof,
      call_verifier

\* No step rewrites history.
LEMMA HistoryStep == TypeOK /\ [Next]_vars => KeepsHistory
<1> SUFFICES ASSUME TypeOK, [Next]_vars PROVE KeepsHistory
  OBVIOUS
<1>1. \A id \in DOMAIN envelopes : id \in DOMAIN envelopes' /\ envelopes'[id] = envelopes[id]
  <2>1. CASE Post
    BY <2>1, PostEffect DEF EnvelopeAdded
  <2>2. CASE UNCHANGED envelopes
    BY <2>2
  <2>3. QED
    BY <2>1, <2>2, EnvelopesFrame
<1>2. ASSUME NEW a \in DOMAIN entries
      PROVE  /\ a \in DOMAIN entries'
             /\ entries[a] # entries'[a] =>
                  entries'[a].key_version = entries[a].key_version + 1
  <2>1. CASE Register
    <3>1. PICK account \in Accounts, pubkey \in PubKeys : KeyAdded(account, pubkey)
      BY <2>1, RegisterEffect
    <3>2. QED
      BY <3>1 DEF KeyAdded, next_version, has_entry
  <2>2. CASE UNCHANGED registryVars
    BY <2>2 DEF registryVars
  <2>3. QED
    BY <2>1, <2>2, RegistryFrame
<1>3. QED
  BY <1>1, <1>2, KeysKept, EventsKept, CommitmentHistory DEF KeepsHistory

\* No step removes or rewrites what the ledger has recorded.
THEOREM HistoryPreserved == Spec => HistoryKept
<1>1. TypeOK /\ [Next]_vars => [KeepsHistory]_vars
  BY HistoryStep
<1>2. QED
  BY <1>1, TypeCorrect, PTL DEF Spec, HistoryKept

-----------------------------------------------------------------------------
(* Refinement: the package implements the abstract key log. Under the       *)
(* mapping of module Whisper, a registration is a Rotate, a post is a       *)
(* Deliver and every other transaction a stutter.                           *)

\* A version an account has reached names exactly one of its keys.
LEMMA KeyAtUnique ==
  ASSUME TypeOK, RotationHistoryLinear, NEW a, NEW v \in 1..VersionOf(a)
  PROVE  /\ KeyAt(a, v) \in KeysOf(a) /\ keys[KeyAt(a, v)].key_version = v
         /\ \A id \in KeysOf(a) : keys[id].key_version = v => id = KeyAt(a, v)
<1>1. has_entry(a)
  BY DEF VersionOf
<1>2. \E id \in KeysOf(a) : keys[id].key_version = v
  BY <1>1 DEF RotationHistoryLinear, VersionOf, has_entry
<1>3. KeyAt(a, v) \in KeysOf(a) /\ keys[KeyAt(a, v)].key_version = v
  BY <1>2 DEF KeyAt
<1>4. ASSUME NEW id \in KeysOf(a), keys[id].key_version = v
      PROVE  id = KeyAt(a, v)
  <2> DEFINE w == KeyAt(a, v)
  <2> HIDE DEF w
  <2>1. w \in KeysOf(a) /\ keys[w].key_version = v
    BY <1>3 DEF w
  <2>2. id \in Nat /\ w \in Nat /\ v \in Nat
    BY <1>4, <2>1, StampTypes DEF KeysOf, TypeOK
  <2>3. ~(id < w) /\ ~(w < id)
    BY <1>4, <2>1, <2>2 DEF RotationHistoryLinear, KeysOf
  <2>4. id = w
    BY <2>2, <2>3
  <2>5. QED
    BY <2>4 DEF w
<1>5. QED
  BY <1>3, <1>4

\* The length of a log is a number, with or without an entry.
LEMMA VersionIsNat == ASSUME TypeOK, NEW a PROVE VersionOf(a) \in Nat
  BY StampTypes DEF VersionOf, has_entry

\* The key at a version already reached stays where it is.
LEMMA KeyAtKept ==
  ASSUME TypeOK, TypeOK', RotationHistoryLinear, RotationHistoryLinear', [Next]_vars,
         NEW a, NEW v \in 1..VersionOf(a), v \in 1..VersionOf(a)'
  PROVE  KeyAt(a, v)' = KeyAt(a, v) /\ keys'[KeyAt(a, v)] = keys[KeyAt(a, v)]
<1> DEFINE w == KeyAt(a, v)
<1>1. w \in KeysOf(a) /\ keys[w].key_version = v
  BY KeyAtUnique
<1> HIDE DEF w
<1>2. keys'[w] = keys[w] /\ w \in KeysOf(a)'
  BY <1>1, KeysKept DEF KeysOf
<1>3. \E id \in KeysOf(a)' : keys'[id].key_version = v
  BY <1>1, <1>2
<1>4. KeyAt(a, v)' \in KeysOf(a)' /\ keys'[KeyAt(a, v)'].key_version = v
  BY <1>3 DEF KeyAt
<1>5. KeyAt(a, v)' = w
  <2> DEFINE u == KeyAt(a, v)'
  <2>1. u \in KeysOf(a)' /\ keys'[u].key_version = v
    BY <1>4
  <2> HIDE DEF u
  <2>2. u \in Nat /\ w \in Nat /\ v \in Nat
    BY <1>2, <2>1, NextKeyIdsNat
  <2>3. ~(u < w) /\ ~(w < u)
    BY <1>1, <1>2, <2>1, <2>2 DEF RotationHistoryLinear, KeysOf
  <2>4. QED
    BY <2>2, <2>3 DEF u
<1>6. QED
  BY <1>2, <1>5 DEF w

\* A registration appends to the log of its account and to no other.
LEMMA RegisterAppends ==
  ASSUME TypeOK, TypeOK', EntryIsNewestKey, RotationHistoryLinear, RotationHistoryLinear',
         [Next]_vars, NEW account \in Accounts, NEW pubkey \in PubKeys,
         KeyAdded(account, pubkey)
  PROVE  keyLog' = [keyLog EXCEPT ![account] = Append(@, pubkey)]
<1>1. \A a \in Accounts : a # account => VersionOf(a)' = VersionOf(a)
  BY DEF KeyAdded, VersionOf, has_entry
<1>2. VersionOf(account)' = VersionOf(account) + 1 /\ VersionOf(account) \in Nat
  BY VersionIsNat DEF KeyAdded, VersionOf, has_entry, next_version
<1>3. ASSUME NEW a \in Accounts, a # account
      PROVE  keyLog'[a] = keyLog[a]
  <2>1. VersionOf(a)' = VersionOf(a)
    BY <1>1, <1>3
  <2>2. ASSUME NEW v \in 1..VersionOf(a)
        PROVE  keys'[KeyAt(a, v)'].pubkey = keys[KeyAt(a, v)].pubkey
    BY <2>1, <2>2, KeyAtKept
  <2>3. QED
    BY <2>1, <2>2 DEF keyLog
<1>4. keyLog'[account] = Append(keyLog[account], pubkey)
  <2>0. PICK n \in Nat : n = VersionOf(account)
    BY <1>2
  <2>1. ASSUME NEW v \in 1..n
        PROVE  keys'[KeyAt(account, v)'].pubkey = keys[KeyAt(account, v)].pubkey
    BY <1>2, <2>0, <2>1, KeyAtKept
  <2>2. keys'[KeyAt(account, n + 1)'].pubkey = pubkey
    <3>1. nextId \in KeysOf(account)' /\ keys'[nextId].key_version = n + 1
            /\ keys'[nextId].pubkey = pubkey
      BY <2>0 DEF KeyAdded, KeysOf, VersionOf, next_version
    <3>2. n + 1 \in 1..VersionOf(account)'
      BY <1>2, <2>0
    <3>3. nextId = KeyAt(account, n + 1)'
      <4> DEFINE u == KeyAt(account, n + 1)'
      <4>1. u \in KeysOf(account)' /\ keys'[u].key_version = n + 1
        BY <3>1 DEF KeyAt
      <4> HIDE DEF u
      <4>2. u \in Nat /\ nextId \in Nat /\ n + 1 \in Nat
        BY <3>1, <4>1, <2>0, NextKeyIdsNat
      <4>3. ~(u < nextId) /\ ~(nextId < u)
        BY <3>1, <4>1, <4>2 DEF RotationHistoryLinear, KeysOf
      <4>4. QED
        BY <4>2, <4>3 DEF u
    <3>4. QED
      BY <3>1, <3>3
  <2>3. keyLog[account] = [v \in 1..n |-> keys[KeyAt(account, v)].pubkey]
    BY <2>0 DEF keyLog
  <2>4. keyLog'[account] = [v \in 1..(n + 1) |-> keys'[KeyAt(account, v)'].pubkey]
    BY <1>2, <2>0 DEF keyLog
  <2>5. QED
    BY <2>1, <2>2, <2>3, <2>4, AppendFunction
<1>5. QED
  BY <1>3, <1>4 DEF keyLog

\* Only a registration changes a log.
LEMMA KeyLogFrame ==
  ASSUME TypeOK, TypeOK', RotationHistoryLinear, RotationHistoryLinear', [Next]_vars,
         UNCHANGED registryVars
  PROVE  keyLog' = keyLog
<1>1. \A a \in Accounts : VersionOf(a)' = VersionOf(a)
  BY DEF registryVars, VersionOf, has_entry
<1>2. ASSUME NEW a \in Accounts, NEW v \in 1..VersionOf(a)
      PROVE  keys'[KeyAt(a, v)'].pubkey = keys[KeyAt(a, v)].pubkey
  BY <1>1, <1>2, KeyAtKept
<1>3. QED
  BY <1>1, <1>2 DEF keyLog

\* What has been delivered stays as it was stamped.
LEMMA DeliveriesKept ==
  ASSUME TypeOK, EnvelopeAnchored, [Next]_vars, NEW x \in DOMAIN envelopes,
         x \in DOMAIN envelopes', envelopes'[x] = envelopes[x]
  PROVE  deliveries'[x] = deliveries[x]
<1>1. envelopes[x].recipient_key_id \in DOMAIN keys
  BY DEF EnvelopeAnchored, KeysOf
<1>2. keys'[envelopes'[x].recipient_key_id] = keys[envelopes[x].recipient_key_id]
  BY <1>1, KeysKept
<1>3. QED
  BY <1>2 DEF deliveries

\* A post delivers at the end of the recipient's log.
LEMMA PostDelivers ==
  ASSUME TypeOK, EntryIsNewestKey, RotationHistoryLinear, EnvelopeAnchored, [Next]_vars,
         Post
  PROVE  \E id \in ObjectIds, from, to \in Accounts :
           /\ id \notin DOMAIN deliveries
           /\ keyLog[to] # <<>>
           /\ deliveries' = [d \in DOMAIN deliveries \cup {id} |->
                               IF d = id
                                 THEN [from |-> from, to |-> to,
                                       position |-> Len(keyLog[to]),
                                       key |-> keyLog[to][Len(keyLog[to])]]
                                 ELSE deliveries[d]]
<1>1. PICK sender \in Accounts, recipient \in Accounts, keyId \in ObjectIds,
           version \in KeyVersions, sealed \in Sealed :
        /\ post_envelope(sender, recipient, keyId, version, sealed)
        /\ EnvelopeAdded(sender, recipient, keyId, version, sealed)
  BY PostEffect
<1>2. nextId \in ObjectIds /\ nextId \notin DOMAIN deliveries
  BY <1>1, IdsGrow DEF post_envelope, posted, EnvelopeAdded, deliveries
<1>3. VersionOf(recipient) = version /\ version \in 1..VersionOf(recipient) /\ version \in Nat
  BY <1>1 DEF EnvelopeAdded, build_envelope_asserts, VersionOf, KeyVersions
<1>4. keyLog[recipient] = [v \in 1..version |-> keys[KeyAt(recipient, v)].pubkey]
  BY <1>3 DEF keyLog
<1>5. Len(keyLog[recipient]) = version /\ keyLog[recipient] # <<>>
  BY <1>3, <1>4
<1>6. keyLog[recipient][version] = keys[keyId].pubkey
  <2>1. keyId \in KeysOf(recipient) /\ keys[keyId].key_version = version
    BY <1>1 DEF EnvelopeAdded, build_envelope_asserts, EntryIsNewestKey, has_entry
  <2>2. keyId = KeyAt(recipient, version)
    BY <1>3, <2>1, KeyAtUnique
  <2>3. QED
    BY <1>3, <1>4, <2>2
<1>7. deliveries'[nextId] = [from |-> sender, to |-> recipient, position |-> version,
                             key |-> keys[keyId].pubkey]
  BY <1>1 DEF EnvelopeAdded, deliveries
<1>8. \A d \in DOMAIN deliveries : deliveries'[d] = deliveries[d]
  BY <1>1, DeliveriesKept DEF EnvelopeAdded, deliveries
<1>9. deliveries' = [d \in DOMAIN deliveries \cup {nextId} |-> deliveries'[d]]
  BY <1>1 DEF EnvelopeAdded, deliveries
<1>10. deliveries' = [d \in DOMAIN deliveries \cup {nextId} |->
                        IF d = nextId
                          THEN [from |-> sender, to |-> recipient,
                                position |-> Len(keyLog[recipient]),
                                key |-> keyLog[recipient][Len(keyLog[recipient])]]
                          ELSE deliveries[d]]
  BY <1>5, <1>6, <1>7, <1>8, <1>9
<1>11. QED
  BY <1>2, <1>5, <1>10

\* Every step of the package is a step of the key log or leaves it alone.
LEMMA StepRefines ==
  ASSUME TypeOK, TypeOK', EntryIsNewestKey, RotationHistoryLinear, RotationHistoryLinear',
         EnvelopeAnchored, [Next]_vars
  PROVE  [KL!LogNext]_<<keyLog, deliveries>>
<1>1. ASSUME UNCHANGED envelopes PROVE deliveries' = deliveries
  BY <1>1, DeliveriesKept DEF deliveries
<1>2. CASE Register
  <2>1. PICK account \in Accounts, pubkey \in PubKeys : KeyAdded(account, pubkey)
    BY <1>2, RegisterEffect
  <2>2. KL!Rotate(account, pubkey)
    BY <1>1, <1>2, <2>1, RegisterAppends DEF Register, KL!Rotate
  <2>3. QED
    BY <2>2 DEF KL!LogNext
<1>3. CASE Post
  <2>1. keyLog' = keyLog
    BY <1>3, KeyLogFrame DEF Post, post_envelope, posted, registryVars
  <2>2. QED
    BY <1>3, <2>1, PostDelivers DEF KL!LogNext, KL!Deliver
<1>4. CASE UNCHANGED registryVars /\ UNCHANGED envelopes
  BY <1>1, <1>4, KeyLogFrame
<1>5. QED
  BY <1>2, <1>3, <1>4, RegistryFrame, EnvelopesFrame

\* The empty package is the empty key log.
LEMMA InitRefines == Init => KL!LogInit
<1> SUFFICES ASSUME Init PROVE KL!LogInit
  OBVIOUS
<1>1. DOMAIN entries = {} /\ DOMAIN envelopes = {}
  BY DEF Init, RegistryInit, EnvelopesInit
<1>2. \A a \in Accounts : VersionOf(a) = 0
  BY <1>1 DEF VersionOf, has_entry
<1>3. keyLog = [a \in Accounts |-> <<>>]
  <2>1. ASSUME NEW a \in Accounts PROVE keyLog[a] = <<>>
    BY <1>2 DEF keyLog
  <2>2. QED
    BY <2>1 DEF keyLog
<1>4. deliveries = [id \in {} |-> 0]
  BY <1>1 DEF deliveries
<1>5. QED
  BY <1>3, <1>4 DEF KL!LogInit

\* The package implements the abstract key log, for any number of accounts,
\* keys and transactions.
THEOREM Implements == Spec => ImplementsKeyLog
<1>1. TypeOK /\ TypeOK' /\ EntryIsNewestKey /\ RotationHistoryLinear
        /\ RotationHistoryLinear' /\ EnvelopeAnchored /\ [Next]_vars
      => [KL!LogNext]_<<keyLog, deliveries>>
  BY StepRefines
<1>2. QED
  BY <1>1, InitRefines, TypeCorrect, EntryNewest, RotationLinear, Anchored, PTL
  DEF Spec, ImplementsKeyLog, KL!LogSpec

=============================================================================
