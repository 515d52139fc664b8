-------------------------------- MODULE Keys --------------------------------
(* Key pairs from seeds, and the shared point of two of them.               *)
EXTENDS Curve, Poseidon

CONSTANT domain_tag(_)  \* BLAKE2b of a domain string, as a field element

ASSUME TagsInField ==
    \A name \in {"keypair", "schnorr-message", "schnorr-nonce", "schnorr-challenge",
                 "kdf", "stream-cipher", "mac"} : domain_tag(name) \in Fq

fq_to_fr(x) == x % L

\* A seed is a sequence of 32-byte numbers; Seed::from_bytes takes two.
keypair_from_seed(seed) ==
    LET sk == fq_to_fr(poseidon3(<<domain_tag("keypair"), seed[1] % P, seed[2] % P>>))
    IN  [sk |-> sk, pk |-> mul(sk, generator)]

\* Faulty variant: a shared point with the cofactor of one side only.
shared_secret_lopsided(sk, pk_peer) == add(mul(sk, pk_peer), mul(sk, generator))

shared_secret(sk, pk_peer) == mul(sk, pk_peer)

-----------------------------------------------------------------------------
(* Gadgets. `witness` stands for the bits the prover assigned. *)

pk_from_sk_var(witness) == scalar_mul_var(witness, generator)
shared_secret_var(witness, pk_peer) == scalar_mul_var(witness, pk_peer)
=============================================================================
