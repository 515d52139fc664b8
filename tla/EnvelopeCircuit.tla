-------------------------- MODULE EnvelopeCircuit --------------------------
(* The circuits envelope_open_at_0 and pedersen_opens_to: the relation      *)
(* their constraints enforce between the public inputs and an assignment of *)
(* the witnesses, the assignment a prover makes, the instance a setup is    *)
(* run on, and the texts of inputs.                                         *)
EXTENDS EnvelopeSuite

CONSTANTS
    generator,
    field(_),        \* a small number as a field element
    commit(_, _),    \* commit(stream, blinding): a vector Pedersen commitment
    STREAM_LEN,      \* length of the streams the circuits are built for
    dummy_sk,        \* the two secrets of the setup instance
    is_element(_), is_scalar(_)  \* texts that parse in Fq, in Fr

\* The two sides of ECDH agree for the secrets of the setup instance.
ASSUME CircuitAssumption ==
    /\ STREAM_LEN \in Nat \ {0}
    /\ mul(dummy_sk[1], mul(dummy_sk[2], generator))
           = mul(dummy_sk[2], mul(dummy_sk[1], generator))

SIGNAL_DOMAIN == "envelope-open-signal"
POSITION == 1

signal_inputs(e) ==
    coords(e.sender_pk) \o coords(e.recipient_pk)
        \o <<e.envelope_id, e.encoding_id, e.mac_tag>> \o e.ciphertext

compute_signal_native(e) == sponge(tag_of(SIGNAL_DOMAIN), signal_inputs(e))

envelope_key_var(role, shared, envelope_id) ==
    kdf_derive_var(coords(shared), <<tag_of(role), envelope_id>>)

\* Faulty variants: without the constraint on the tag, and without the one on
\* the claimed word.
envelope_open_at_0_untagged(public, w) ==
    LET e == w.envelope
        shared == mul(w.ecdh_scalar, e.sender_pk)
        key_enc == envelope_key_var(CIPHER_ROLE, shared, e.envelope_id)
    IN  /\ mul(w.pk_scalar, generator) = e.recipient_pk
        /\ decrypt_var(key_enc, e.ciphertext)[POSITION] = public[2]
        /\ sponge_var(tag_of(SIGNAL_DOMAIN), signal_inputs(e)) = public[1]

envelope_open_at_0_unclaimed(public, w) ==
    LET e == w.envelope
        shared == mul(w.ecdh_scalar, e.sender_pk)
        key_mac == envelope_key_var(MAC_ROLE, shared, e.envelope_id)
    IN  /\ mul(w.pk_scalar, generator) = e.recipient_pk
        /\ mac_var(key_mac, mac_input(e.encoding_id, e.ciphertext)) = e.mac_tag
        /\ sponge_var(tag_of(SIGNAL_DOMAIN), signal_inputs(e)) = public[1]

\* Each multiplication allocates the bits of its scalar anew: the constraints
\* by themselves relate `w.pk_scalar` and `w.ecdh_scalar` in no way.
envelope_open_at_0(public, w) ==
    LET e == w.envelope
        shared == mul(w.ecdh_scalar, e.sender_pk)
        key_enc == envelope_key_var(CIPHER_ROLE, shared, e.envelope_id)
        key_mac == envelope_key_var(MAC_ROLE, shared, e.envelope_id)
    IN  /\ mul(w.pk_scalar, generator) = e.recipient_pk
        /\ mac_var(key_mac, mac_input(e.encoding_id, e.ciphertext)) = e.mac_tag
        /\ decrypt_var(key_enc, e.ciphertext)[POSITION] = public[2]
        /\ sponge_var(tag_of(SIGNAL_DOMAIN), signal_inputs(e)) = public[1]

\* What `new` assigns: one secret key, in both places.
assign_envelope(recipient_sk, e) ==
    [pk_scalar |-> recipient_sk, ecdh_scalar |-> recipient_sk, envelope |-> e]

augmented_stream(encoding_id, stream) == <<encoding_id>> \o stream

pedersen_opens_to(public, w) ==
    /\ coords(commit(augmented_stream(public[3], w.stream), w.blinding))
           = <<public[1], public[2]>>
    /\ w.stream[1] = public[4]

satisfied(circuit, instance) ==
    CASE circuit = "envelope_open_at_0" -> envelope_open_at_0(instance.public, instance.w)
      [] circuit = "pedersen_opens_to" -> pedersen_opens_to(instance.public, instance.w)

-----------------------------------------------------------------------------
(* The instances of a setup *)

\* The crate's own copy of seal.
protocol_envelope_seal(sender_sk, sender_pk, recipient_pk, envelope_id, encoding_id, plaintext) ==
    LET shared == mul(sender_sk, recipient_pk)
        key_enc == kdf_derive(coords(shared), <<tag_of(CIPHER_ROLE), envelope_id>>)
        key_mac == kdf_derive(coords(shared), <<tag_of(MAC_ROLE), envelope_id>>)
        ct == encrypt(key_enc, plaintext)
    IN  [sender_pk |-> sender_pk, recipient_pk |-> recipient_pk,
         envelope_id |-> envelope_id, encoding_id |-> encoding_id,
         ciphertext |-> ct, mac_tag |-> mac(key_mac, <<encoding_id>> \o ct)]

zeros == [i \in 1..STREAM_LEN |-> field(0)]

empty_envelope ==
    LET e == protocol_envelope_seal(dummy_sk[1], mul(dummy_sk[1], generator),
                 mul(dummy_sk[2], generator), field(1), field(7), zeros)
    IN  [public |-> <<compute_signal_native(e), zeros[POSITION]>>,
         w |-> assign_envelope(dummy_sk[2], e)]

empty_pedersen ==
    LET point == commit(augmented_stream(field(0), zeros), 1)
    IN  [public |-> coords(point) \o <<field(0), zeros[1]>>,
         w |-> [stream |-> zeros, blinding |-> 1]]

empty(circuit) ==
    CASE circuit = "envelope_open_at_0" -> empty_envelope
      [] circuit = "pedersen_opens_to" -> empty_pedersen

-----------------------------------------------------------------------------
(* Texts: what a prover sends, and what a verifier sends. A ciphertext or   *)
(* stream of another length is refused before, with the JSON.               *)

AllElements(texts) == \A k \in DOMAIN texts : is_element(texts[k])

envelope_try_from(i) ==
    IF /\ AllElements(<<i.signal, i.claimed_value, i.envelope_id, i.encoding_id, i.mac_tag>>)
       /\ AllElements(i.ciphertext)
       /\ is_scalar(i.recipient_sk)
       /\ {i.sender_pk, i.recipient_pk} \subseteq ValidPoints
    THEN Ok([public |-> <<i.signal, i.claimed_value>>,
             w |-> assign_envelope(i.recipient_sk,
                       [f \in {"sender_pk", "recipient_pk", "envelope_id",
                               "encoding_id", "ciphertext", "mac_tag"} |-> i[f]])])
    ELSE Err("InputsError")

pedersen_try_from(i) ==
    IF /\ i.commitment \in ValidPoints
       /\ AllElements(<<i.encoding_id, i.claimed_first_value>> \o i.stream)
       /\ is_scalar(i.blinding)
    THEN Ok([public |-> coords(i.commitment) \o <<i.encoding_id, i.claimed_first_value>>,
             w |-> [stream |-> i.stream, blinding |-> i.blinding]])
    ELSE Err("InputsError")

try_from(circuit, i) ==
    CASE circuit = "envelope_open_at_0" -> envelope_try_from(i)
      [] circuit = "pedersen_opens_to" -> pedersen_try_from(i)

has_shape(circuit, i) ==
    CASE circuit = "envelope_open_at_0" -> Len(i.ciphertext) = STREAM_LEN
      [] circuit = "pedersen_opens_to" -> Len(i.stream) = STREAM_LEN

envelope_public_inputs_from(p) ==
    IF AllElements(<<p.signal, p.claimed_value>>) THEN Ok(<<p.signal, p.claimed_value>>)
    ELSE Err("InputsError")

pedersen_public_inputs_from(p) ==
    IF p.commitment \in ValidPoints /\ AllElements(<<p.encoding_id, p.claimed_first_value>>)
    THEN Ok(coords(p.commitment) \o <<p.encoding_id, p.claimed_first_value>>)
    ELSE Err("InputsError")

public_inputs_from(circuit, p) ==
    CASE circuit = "envelope_open_at_0" -> envelope_public_inputs_from(p)
      [] circuit = "pedersen_opens_to" -> pedersen_public_inputs_from(p)
=============================================================================
