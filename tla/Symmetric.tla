----------------------------- MODULE Symmetric -----------------------------
(* Key derivation, stream cipher and MAC over the two Poseidon hashes, for  *)
(* any hashes and any addition of field elements, natively and as the       *)
(* gadgets of a circuit compute them.                                       *)
EXTENDS Naturals, Sequences

CONSTANTS fixed(_, _), sponge(_, _),          \* hashes: a tag and the inputs
          fixed_var(_, _), sponge_var(_, _),  \* their gadgets
          plus(_, _), minus(_, _),
          tag_of(_),     \* the domain tag of a string
          index(_)       \* a position as a field element

kdf_derive(shared, context) == fixed(tag_of("kdf"), shared \o context)

keystream_at(key, i) == fixed(tag_of("stream-cipher"), <<key, index(i)>>)
encrypt(key, plaintext) ==
    [i \in 1..Len(plaintext) |-> plus(plaintext[i], keystream_at(key, i - 1))]
\* Faulty variant: positions counted from one.
decrypt_from_one(key, ciphertext) ==
    [i \in 1..Len(ciphertext) |-> minus(ciphertext[i], keystream_at(key, i))]

decrypt(key, ciphertext) ==
    [i \in 1..Len(ciphertext) |-> minus(ciphertext[i], keystream_at(key, i - 1))]

mac(key, message) == sponge(tag_of("mac"), <<key>> \o message)
mac_verify(key, message, tag) == mac(key, message) = tag

-----------------------------------------------------------------------------
(* Gadgets *)

kdf_derive_var(shared, context) == fixed_var(tag_of("kdf"), shared \o context)
keystream_at_var(key, i) == fixed_var(tag_of("stream-cipher"), <<key, index(i)>>)
encrypt_var(key, plaintext) ==
    [i \in 1..Len(plaintext) |-> plus(plaintext[i], keystream_at_var(key, i - 1))]
decrypt_var(key, ciphertext) ==
    [i \in 1..Len(ciphertext) |-> minus(ciphertext[i], keystream_at_var(key, i - 1))]
mac_var(key, message) == sponge_var(tag_of("mac"), <<key>> \o message)
=============================================================================
