---------------------------- MODULE Commitments ----------------------------
(***************************************************************************)
(* contracts/sources/commitments.move with the verifier wrapper it calls   *)
(* in proofs.move.  A SecretCommitment is an owned object with `store', so *)
(* its owner may hand it on with Sui's public transfer; entry functions    *)
(* take it from the sender that owns it.  Groth16 is ideal: a proof is     *)
(* made for one vector of public inputs, exists only when the circuit's    *)
(* relation holds of them, and verifies against no other.                  *)
(***************************************************************************)
EXTENDS Chain, Pedersen

CONSTANT EncodingIds   \* encoding ids callers attach to a commitment

ASSUME CommitmentsAssumption == EncodingIds \subseteq Words

VARIABLE
  commitments   \* SecretCommitment objects: id -> record with its Sui owner

SecretCommitment == [author        : Accounts,
                     owner         : Accounts,
                     encoding_id   : EncodingIds,
                     point         : Points,
                     created_at_ms : 0..MaxTime,
                     opened        : BOOLEAN,
                     opened_at_ms  : 0..MaxTime]

SecretCommitted == [type          : {"SecretCommitted"},
                    commitment_id : ObjectIds,
                    author        : Accounts,
                    encoding_id   : EncodingIds,
                    point         : Points,
                    created_at_ms : 0..MaxTime]

SecretOpened == [type          : {"SecretOpened"},
                 commitment_id : ObjectIds,
                 author        : Accounts,
                 encoding_id   : EncodingIds,
                 point         : Points,
                 stream        : Streams,
                 blinding      : Blindings,
                 opened_at_ms  : 0..MaxTime]

SecretPartialOpened == [type                : {"SecretPartialOpened"},
                        commitment_id       : ObjectIds,
                        author              : Accounts,
                        encoding_id         : EncodingIds,
                        point               : Points,
                        claimed_first_value : Words,
                        opened_at_ms        : 0..MaxTime]

\* The four public inputs of the circuit, in its order.
PublicInputs == [point : Points, encoding_id : EncodingIds, claimed : Words]

ProofVerified == [type : {"ProofVerified"}, inputs : PublicInputs]

\* Proofs that can exist: one per vector of public inputs the relation holds of.
Proofs == {p \in PublicInputs : pedersen_opens_to(p.point, p.encoding_id, p.claimed)}

CommitmentsInit == commitments = [id \in {} |-> 0]

Owns(sender, id) == id \in DOMAIN commitments /\ commitments[id].owner = sender

\* The point is whatever the caller supplies.
commit_secret(author, encoding_id, point) ==
  /\ NewObject
  /\ commitments' = [id \in DOMAIN commitments \cup {nextId} |->
                       IF id = nextId
                         THEN [author        |-> author,
                               owner         |-> author,
                               encoding_id   |-> encoding_id,
                               point         |-> point,
                               created_at_ms |-> now,
                               opened        |-> FALSE,
                               opened_at_ms  |-> 0]
                         ELSE commitments[id]]
  /\ Emit([type          |-> "SecretCommitted",
           commitment_id |-> nextId,
           author        |-> author,
           encoding_id   |-> encoding_id,
           point         |-> point,
           created_at_ms |-> now])
  /\ UNCHANGED now

\* Faulty variant: a commitment can be opened again.
open_secret_asserts_repeatable(id, stream) == stream # <<>>

open_secret_asserts(id, stream) == ~commitments[id].opened /\ stream # <<>>

\* Faulty variant: the sender, who may have been handed the commitment, put in
\* the author's place.
open_secret_by_sender(sender, id, stream, blinding) ==
  /\ Owns(sender, id)
  /\ open_secret_asserts(id, stream)
  /\ commitments' = [commitments EXCEPT ![id].opened = TRUE,
                                        ![id].opened_at_ms = now,
                                        ![id].author = sender]
  /\ Emit([type          |-> "SecretOpened",
           commitment_id |-> id,
           author        |-> sender,
           encoding_id   |-> commitments[id].encoding_id,
           point         |-> commitments[id].point,
           stream        |-> stream,
           blinding      |-> blinding,
           opened_at_ms  |-> now])
  /\ UNCHANGED <<now, nextId>>

\* The stream and the blinding are published as they come, unverified.
open_secret(sender, id, stream, blinding) ==
  /\ Owns(sender, id)
  /\ open_secret_asserts(id, stream)
  /\ commitments' = [commitments EXCEPT ![id].opened = TRUE,
                                        ![id].opened_at_ms = now]
  /\ Emit([type          |-> "SecretOpened",
           commitment_id |-> id,
           author        |-> commitments[id].author,
           encoding_id   |-> commitments[id].encoding_id,
           point         |-> commitments[id].point,
           stream        |-> stream,
           blinding      |-> blinding,
           opened_at_ms  |-> now])
  /\ UNCHANGED <<now, nextId>>

\* The inputs verify_pedersen_opens_to packs for an open of commitment c: the
\* stored point and encoding id, and the claimed value of the caller.
public_inputs(c, claimed) ==
  [point |-> c.point, encoding_id |-> c.encoding_id, claimed |-> claimed]

\* Faulty variant: the claimed value left out of the packed inputs.
verify_unclaimed(inputs, proof) ==
  /\ proof \in Proofs
  /\ proof.point = inputs.point /\ proof.encoding_id = inputs.encoding_id

verify_pedersen_opens_to(inputs, proof) == proof \in Proofs /\ proof = inputs

\* The verifier is a public function: anyone can call it on inputs of his own,
\* and its event then says nothing of any commitment object.
call_verifier(inputs, proof) ==
  /\ verify_pedersen_opens_to(inputs, proof)
  /\ Emit([type |-> "ProofVerified", inputs |-> inputs])
  /\ UNCHANGED <<now, nextId, commitments>>

\* Neither consumes nor marks the commitment.  ProofVerified is emitted by the
\* verifier first.
open_with_proof(sender, id, claimed, proof) ==
  /\ Owns(sender, id)
  /\ LET c == commitments[id]
         inputs == public_inputs(c, claimed)
     IN /\ verify_pedersen_opens_to(inputs, proof)
        /\ Len(events) + 1 < MaxEvents
        /\ events' = Append(Append(events,
             [type |-> "ProofVerified", inputs |-> inputs]),
             [type                |-> "SecretPartialOpened",
              commitment_id       |-> id,
              author              |-> c.author,
              encoding_id         |-> c.encoding_id,
              point               |-> c.point,
              claimed_first_value |-> claimed,
              opened_at_ms        |-> now])
  /\ UNCHANGED <<now, nextId, commitments>>

\* Sui's public_transfer of an object that has `store', by its owner.
public_transfer(id, to) ==
  /\ id \in DOMAIN commitments
  /\ commitments' = [commitments EXCEPT ![id].owner = to]
  /\ UNCHANGED chainVars

-----------------------------------------------------------------------------
\* "Readers reconstruct state from SecretCommitted / SecretOpened events":
\* the committed events and the objects are the same list, a commitment is
\* opened exactly when one SecretOpened event names it, after the committed
\* one, and the times on the object are those of its events.
EventsRebuildCommitments ==
  LET committed == EventsOf("SecretCommitted")
      opened    == EventsOf("SecretOpened")
  IN /\ \A id \in DOMAIN commitments :
          \E i \in committed :
            /\ events[i].commitment_id = id
            /\ events[i].author = commitments[id].author
            /\ events[i].encoding_id = commitments[id].encoding_id
            /\ events[i].point = commitments[id].point
            /\ events[i].created_at_ms = commitments[id].created_at_ms
     /\ \A i \in committed : events[i].commitment_id \in DOMAIN commitments
     /\ \A i, j \in committed :
          events[i].commitment_id = events[j].commitment_id => i = j
     /\ \A id \in DOMAIN commitments :
          commitments[id].opened <=> \E k \in opened : events[k].commitment_id = id
     /\ \A i, j \in opened :
          events[i].commitment_id = events[j].commitment_id => i = j
     /\ \A k \in opened :
          /\ commitments[events[k].commitment_id].opened_at_ms = events[k].opened_at_ms
          /\ \E i \in committed :
               /\ i < k
               /\ events[i].commitment_id = events[k].commitment_id
               /\ events[i].created_at_ms <= events[k].opened_at_ms

\* Everything revealed of one commitment fits together: two partial opens
\* claim, modulo the group order, the same first word, and so does a full
\* opening a reader finds correct.  The order in which they were posted, the
\* owners they were posted by and the proofs used do not matter.
RevealsAgree ==
  LET partial == EventsOf("SecretPartialOpened")
      opened  == EventsOf("SecretOpened")
  IN /\ \A i, j \in partial :
          events[i].commitment_id = events[j].commitment_id =>
            fq_to_fr(events[i].claimed_first_value)
              = fq_to_fr(events[j].claimed_first_value)
     /\ \A i \in partial, k \in opened :
          /\ events[i].commitment_id = events[k].commitment_id
          /\ verify_opening(events[k].point, events[k].encoding_id,
                            events[k].stream, events[k].blinding)
          => fq_to_fr(events[i].claimed_first_value) = fq_to_fr(events[k].stream[1])

\* "The committer cannot open point to a different (encoding_id, stream)
\* pair": the claims of two partial opens are the same field element.
PartialOpensBindWord ==
  \A i, j \in EventsOf("SecretPartialOpened") :
    events[i].commitment_id = events[j].commitment_id =>
      events[i].claimed_first_value = events[j].claimed_first_value

=============================================================================
