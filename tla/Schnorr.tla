------------------------------- MODULE Schnorr -------------------------------
(* Schnorr signatures over streams of field elements, and their             *)
(* verification in a circuit.                                               *)
EXTENDS Keys

MAX_MESSAGE_LEN == 11

message_hash(message) ==
    LET hash == poseidon_hash_fixed(domain_tag("schnorr-message"), message)
    IN  IF Len(message) > MAX_MESSAGE_LEN THEN Err("MessageTooLong")
        ELSE IF hash.ok THEN hash ELSE Err("panic")

challenge_inner(r, pk, m_hash) ==
    poseidon_hash_fixed(domain_tag("schnorr-challenge"),
                        <<r[1], r[2], pk[1], pk[2], m_hash>>).value

\* Faulty variant: the response forgets the secret key.
sign_nonce_only(sk, pk, message) ==
    LET m_hash == message_hash(message)
        k == fq_to_fr(poseidon_hash_fixed(domain_tag("schnorr-nonce"),
                                          <<sk, m_hash.value>>).value)
        c == fq_to_fr(challenge_inner(mul(k, generator), pk, m_hash.value))
    IN  IF m_hash.ok THEN Ok([r |-> mul(k, generator), s |-> (k + c) % L]) ELSE m_hash

sign(sk, pk, message) ==
    LET m_hash == message_hash(message)
        k == fq_to_fr(poseidon_hash_fixed(domain_tag("schnorr-nonce"),
                                          <<sk, m_hash.value>>).value)
        r == mul(k, generator)
        c == fq_to_fr(challenge_inner(r, pk, m_hash.value))
    IN  IF m_hash.ok THEN Ok([r |-> r, s |-> (k + c * sk) % L]) ELSE m_hash

verify(pk, message, sig) ==
    LET m_hash == message_hash(message)
        c == fq_to_fr(challenge_inner(sig.r, pk, m_hash.value))
    IN  IF m_hash.ok
        THEN Ok(mul(sig.s, generator) = add(sig.r, mul(c, pk)))
        ELSE m_hash

-----------------------------------------------------------------------------
(* Gadget: the challenge is not reduced modulo L, all its bits multiply the *)
(* key. The response is bits of the prover's.                               *)

message_hash_var(message) ==
    poseidon_hash_fixed_var(domain_tag("schnorr-message"), message)

\* Faulty variant: the challenge is cut to the bits of a scalar.
verify_var_cut(pk, message, r, witness) ==
    LET m_hash == message_hash_var(message)
        c_fq == poseidon_hash_fixed_var(domain_tag("schnorr-challenge"),
                    <<r[1], r[2], pk[1], pk[2], m_hash.value>>).value
    IN  IF m_hash.ok
        THEN Ok(scalar_mul_var(witness, generator)
                    = add(r, scalar_mul_le(LEBits(c_fq, FrBits), pk)))
        ELSE m_hash

verify_var(pk, message, r, witness) ==
    LET m_hash == message_hash_var(message)
        c_fq == poseidon_hash_fixed_var(domain_tag("schnorr-challenge"),
                    <<r[1], r[2], pk[1], pk[2], m_hash.value>>).value
        c_pk == scalar_mul_le(LEBits(c_fq, FqBits), pk)
    IN  IF m_hash.ok
        THEN Ok(scalar_mul_var(witness, generator) = add(r, c_pk))
        ELSE m_hash
=============================================================================
