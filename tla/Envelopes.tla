----------------------------- MODULE Envelopes -----------------------------
(***************************************************************************)
(* contracts/sources/envelopes.move: post_envelope checks the recipient's  *)
(* registry entry and freezes an Envelope.  What the client sealed is      *)
(* opaque to the chain; of its fields the model keeps the ones a property  *)
(* or a check looks at: the recipient key it was sealed to and whether the *)
(* ciphertext is empty.  `body' stands for the sender's key, envelope id,  *)
(* encoding id, ciphertext words and MAC tag together.                     *)
(***************************************************************************)
EXTENDS Registry

CONSTANTS
  Bodies,   \* sealed contents
  Empty     \* a body whose ciphertext has length zero

VARIABLE
  envelopes   \* frozen Envelope objects: id -> Envelope, partial

Sealed == [recipient_pk : PubKeys, body : Bodies \cup {Empty}]

Envelope == [sender                : Accounts,
             recipient             : Accounts,
             recipient_key_id      : ObjectIds,
             recipient_key_version : KeyVersions,
             sealed                : Sealed,
             created_at_ms         : 0..MaxTime]

\* The event carries every field of the object except the ciphertext.
EnvelopePosted == [type                  : {"EnvelopePosted"},
                   envelope_object_id    : ObjectIds,
                   sender                : Accounts,
                   recipient             : Accounts,
                   recipient_key_id      : ObjectIds,
                   recipient_key_version : KeyVersions,
                   recipient_pk          : PubKeys,
                   created_at_ms         : 0..MaxTime]

EnvelopesInit == envelopes = [id \in {} |-> 0]

\* Faulty variants of the assertions: the key id, or the version, not checked.
build_envelope_asserts_any_id(recipient, keyId, version, sealed) ==
  /\ sealed.body # Empty
  /\ has_entry(recipient)
  /\ entries[recipient].key_version = version

build_envelope_asserts_any_version(recipient, keyId, version, sealed) ==
  /\ sealed.body # Empty
  /\ has_entry(recipient)
  /\ entries[recipient].current_key_id = keyId

\* The assertions of build_envelope, in its order.
build_envelope_asserts(recipient, keyId, version, sealed) ==
  /\ sealed.body # Empty
  /\ has_entry(recipient)
  /\ entries[recipient].key_version = version
  /\ entries[recipient].current_key_id = keyId

\* Faulty variant: the event routed to the sender.
posted_to_sender(id, e) ==
  [type                  |-> "EnvelopePosted",
   envelope_object_id    |-> id,
   sender                |-> e.sender,
   recipient             |-> e.sender,
   recipient_key_id      |-> e.recipient_key_id,
   recipient_key_version |-> e.recipient_key_version,
   recipient_pk          |-> e.sealed.recipient_pk,
   created_at_ms         |-> e.created_at_ms]

posted(id, e) ==
  [type                  |-> "EnvelopePosted",
   envelope_object_id    |-> id,
   sender                |-> e.sender,
   recipient             |-> e.recipient,
   recipient_key_id      |-> e.recipient_key_id,
   recipient_key_version |-> e.recipient_key_version,
   recipient_pk          |-> e.sealed.recipient_pk,
   created_at_ms         |-> e.created_at_ms]

post_envelope(sender, recipient, keyId, version, sealed) ==
  LET e == [sender                |-> sender,
            recipient             |-> recipient,
            recipient_key_id      |-> keyId,
            recipient_key_version |-> version,
            sealed                |-> sealed,
            created_at_ms         |-> now]
  IN /\ build_envelope_asserts(recipient, keyId, version, sealed)
     /\ NewObject
     /\ envelopes' = [id \in DOMAIN envelopes \cup {nextId} |->
                        IF id = nextId THEN e ELSE envelopes[id]]
     /\ Emit(posted(nextId, e))
     /\ UNCHANGED <<now, entries, keys>>

-----------------------------------------------------------------------------
\* A stored envelope keeps a stable anchor: the key object it names exists,
\* belongs to the recipient, has the version the envelope says, and was the
\* recipient's newest key when the envelope was posted, however often the
\* recipient has rotated since.  No registry entry is needed to tell.
EnvelopeAnchored ==
  \A x \in DOMAIN envelopes :
    LET e == envelopes[x]
    IN /\ e.recipient_key_id \in KeysOf(e.recipient)
       /\ keys[e.recipient_key_id].key_version = e.recipient_key_version
       /\ e.recipient_key_id < x
       /\ e.created_at_ms <= now
       /\ keys[e.recipient_key_id].rotated_at_ms <= e.created_at_ms
       /\ \A id \in KeysOf(e.recipient) :
            keys[id].key_version > e.recipient_key_version =>
              x < id /\ e.created_at_ms <= keys[id].rotated_at_ms

\* Inbox discovery is by event: each envelope has exactly one EnvelopePosted
\* event, which names a stored object with the same routing fields.
InboxComplete ==
  LET log == EventsOf("EnvelopePosted")
  IN /\ \A i \in log :
          /\ events[i].envelope_object_id \in DOMAIN envelopes
          /\ LET e == envelopes[events[i].envelope_object_id]
             IN /\ e.sender = events[i].sender
                /\ e.recipient = events[i].recipient
                /\ e.recipient_key_id = events[i].recipient_key_id
                /\ e.recipient_key_version = events[i].recipient_key_version
                /\ e.sealed.recipient_pk = events[i].recipient_pk
                /\ e.created_at_ms = events[i].created_at_ms
     /\ \A x \in DOMAIN envelopes : \E i \in log : events[i].envelope_object_id = x
     /\ \A i, j \in log :
          events[i].envelope_object_id = events[j].envelope_object_id => i = j

=============================================================================
