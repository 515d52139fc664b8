------------------------------ MODULE Pedersen ------------------------------
(***************************************************************************)
(* The commitment of crates/protocol/src/commitment.rs over the vector     *)
(* Pedersen commitment of crates/crypto/src/babyjub/pedersen.rs, and the   *)
(* statement of the pedersen_opens_to circuit, with ideal cryptography: a  *)
(* point is the tuple of scalars on the independent generators G_0, G_1,   *)
(* ... and on H.  Field elements live in Fq, of size BaseP; commit reduces *)
(* each of them modulo ScalarL, the order of the group (fq_to_fr), and a   *)
(* generator past the end of the stream has scalar zero.  Both facts are   *)
(* kept, because they decide what a commitment binds.                      *)
(***************************************************************************)
EXTENDS Integers, Sequences

CONSTANTS
  BaseP,      \* size of the base field
  ScalarL,    \* size of the scalar field; smaller than the base field's
  StreamLen,  \* STREAM_LEN: the stream length the circuit is built for
  MaxStream,  \* bound: longest stream considered
  Blindings   \* blinding scalars

ASSUME PedersenAssumption ==
  /\ BaseP \in Nat /\ ScalarL \in Nat /\ 0 < ScalarL /\ ScalarL <= BaseP
  /\ StreamLen \in Nat /\ MaxStream \in Nat
  /\ 0 < StreamLen /\ StreamLen <= MaxStream

Words == 0..(BaseP - 1)

StreamsOfLength(n) == [1..n -> Words]

Streams == UNION {StreamsOfLength(n) : n \in 0..MaxStream}

fq_to_fr(x) == x % ScalarL

\* The element that [encoding_id, ...stream] has at generator slot i.
augmented_stream(encoding_id, stream) ==
  [i \in 0..MaxStream |->
     IF i = 0 THEN encoding_id
     ELSE IF i \in DOMAIN stream THEN stream[i] ELSE 0]

pedersen_commit(encoding_id, stream, blinding) ==
  LET augmented == augmented_stream(encoding_id, stream)
  IN [scalars |-> [i \in 0..MaxStream |-> fq_to_fr(augmented[i])],
      blinding |-> blinding]

Points == [scalars : [0..MaxStream -> 0..(ScalarL - 1)], blinding : Blindings]

\* A reader's check of a published opening: recompute the point, with the
\* encoding id the commitment is published under.
verify_opening(point, encoding_id, stream, blinding) ==
  pedersen_commit(encoding_id, stream, blinding) = point

\* The relation generate_constraints enforces: some stream and blinding the
\* prover knows commit to the point under encoding_id, and the stream's first
\* element is the claimed value.
pedersen_opens_to(point, encoding_id, claimed) ==
  \E stream \in StreamsOfLength(StreamLen), blinding \in Blindings :
    /\ pedersen_commit(encoding_id, stream, blinding) = point
    /\ stream[1] = claimed

=============================================================================
