--------------------------- MODULE CurveBindings ---------------------------
(* The exported functions of crypto-wasm on curve points, signatures,       *)
(* commitments and hashes, called one after the other from JavaScript with  *)
(* any texts, and the circuits that repeat their computations. `call` is    *)
(* the call whose reply JavaScript holds. JavaScript and WASM run one call  *)
(* at a time.                                                               *)
EXTENDS HashToCurve, Schnorr, TextUtf8

CONSTANTS ScalarTexts, CoordTexts, PeerTexts,  \* texts callers send
          Seeds, Messages, Streams, Elements,
          CircuitMessages, CircuitStreams, \* field elements, in circuits
          TextStreams, Texts               \* texts of streams, and byte strings

\* Texts are integers; what circuits hold are elements of the field. The
\* generators of every stream are at hand.
ASSUME BindingsAssumption ==
    /\ ScalarTexts \cup CoordTexts \cup Elements \subseteq Int
    /\ PeerTexts \subseteq Int \X Int
    /\ Seeds \cup Messages \cup Streams \cup TextStreams \subseteq Seq(Int)
    /\ CircuitMessages \cup CircuitStreams \subseteq Seq(Fq)
    /\ \A s \in Streams \cup CircuitStreams : Len(s) <= MaxStream
    /\ Texts \subseteq Seq(Bytes)

VARIABLE call

NoCall == [fn |-> "none"]
Called(fn, args, reply) ==
    /\ call = NoCall
    /\ call' = [fn |-> fn, args |-> args, reply |-> reply]

Sym == INSTANCE Symmetric WITH
    fixed      <- LAMBDA tag, inputs : poseidon_hash_fixed(tag, inputs).value,
    sponge     <- poseidon_hash_sponge,
    fixed_var  <- LAMBDA tag, inputs : poseidon_hash_fixed_var(tag, inputs).value,
    sponge_var <- poseidon_hash_sponge_var,
    plus       <- LAMBDA x, y : (x + y) % P,
    minus      <- LAMBDA x, y : (x - y) % P,
    tag_of     <- domain_tag,
    index      <- LAMBDA i : i % P

-----------------------------------------------------------------------------

Init == call = NoCall

Returned == call # NoCall /\ call' = NoCall

mul_generator(text) ==
    LET k == scalar_from_decimal(text)
    IN  IF k.ok THEN Ok(point_to_strings(mul(k.value, generator))) ELSE k

\* The reply repeats the texts as they came.
validate_point(x, y) ==
    LET p == point_from_strings(x, y) IN IF p.ok THEN Ok(<<x, y>>) ELSE p

binding_keypair(seed) ==
    IF Len(seed) # 2 THEN Err("seed length")
    ELSE Ok(point_to_strings(keypair_from_seed(seed).pk))

ecdh(seed, x, y) ==
    LET peer == point_from_strings(x, y) IN
    IF Len(seed) # 2 THEN Err("seed length")
    ELSE IF ~peer.ok THEN peer
    ELSE Ok(point_to_strings(shared_secret(keypair_from_seed(seed).sk, peer.value)))

pedersen_commit(stream, blinding) ==
    LET fields == decimals_to_fields(stream)
        r == scalar_from_decimal(blinding)
    IN  IF ~fields.ok THEN fields ELSE IF ~r.ok THEN r
        ELSE Ok(point_to_strings(commit(fields.value, r.value)))

schnorr_sign(seed, message) ==
    LET stream == decimals_to_fields(message)
        pair == keypair_from_seed(seed)
    IN  IF Len(seed) # 2 THEN Err("seed length")
        ELSE IF ~stream.ok THEN stream
        ELSE sign(pair.sk, pair.pk, stream.value)

schnorr_verify(pk, message, r, s) ==
    LET pk_point == point_from_strings(pk[1], pk[2])
        r_point == point_from_strings(r[1], r[2])
        scalar == scalar_from_decimal(s)
        stream == decimals_to_fields(message)
    IN  IF ~pk_point.ok THEN pk_point ELSE IF ~r_point.ok THEN r_point
        ELSE IF ~scalar.ok THEN scalar ELSE IF ~stream.ok THEN stream
        ELSE verify(pk_point.value, stream.value, [r |-> r_point.value, s |-> scalar.value])

hash_fixed(tag, inputs) ==
    LET d == fq_from_decimal(tag)
        fields == decimals_to_fields(inputs)
    IN  IF ~d.ok THEN d ELSE IF ~fields.ok THEN fields
        ELSE poseidon_hash_fixed(d.value, fields.value)

hash_sponge(tag, inputs) ==
    LET d == fq_from_decimal(tag)
        fields == decimals_to_fields(inputs)
    IN  IF ~d.ok THEN d ELSE IF ~fields.ok THEN fields
        ELSE Ok(poseidon_hash_sponge(d.value, fields.value))

binding_kdf(x, y, context) ==
    LET shared == point_from_strings(x, y)
        fields == decimals_to_fields(context)
    IN  IF ~shared.ok THEN shared ELSE IF ~fields.ok THEN fields
        ELSE poseidon_hash_fixed(domain_tag("kdf"), shared.value \o fields.value)

cipher_encrypt(key, plaintext) ==
    LET k == fq_from_decimal(key)
        fields == decimals_to_fields(plaintext)
    IN  IF ~k.ok THEN k ELSE IF ~fields.ok THEN fields
        ELSE Ok(Sym!encrypt(k.value, fields.value))

cipher_decrypt(key, ciphertext) ==
    LET k == fq_from_decimal(key)
        fields == decimals_to_fields(ciphertext)
    IN  IF ~k.ok THEN k ELSE IF ~fields.ok THEN fields
        ELSE Ok(Sym!decrypt(k.value, fields.value))

binding_mac(key, message) ==
    LET k == fq_from_decimal(key)
        fields == decimals_to_fields(message)
    IN  IF ~k.ok THEN k ELSE IF ~fields.ok THEN fields
        ELSE Ok(Sym!mac(k.value, fields.value))

binding_mac_verify(key, message, tag) ==
    LET k == fq_from_decimal(key)
        fields == decimals_to_fields(message)
        t == fq_from_decimal(tag)
    IN  IF ~k.ok THEN k ELSE IF ~fields.ok THEN fields ELSE IF ~t.ok THEN t
        ELSE Ok(Sym!mac_verify(k.value, fields.value, t.value))

text_utf8_v1_decode(texts) ==
    LET fields == decimals_to_fields(texts) IN
    IF fields.ok THEN decode_text(fields.value) ELSE fields

\* The circuits that verify a signature or open a commitment, for the bits
\* the prover assigned to their scalar.
verify_circuit(pk, message, r, witness) == verify_var(pk, message, r, witness)
commit_circuit(stream, witness) == Ok(commit_var(stream, witness))
-----------------------------------------------------------------------------

MulGenerator == \E t \in ScalarTexts : Called("mul_generator", <<t>>, mul_generator(t))
ValidatePoint == \E x, y \in CoordTexts :
    Called("validate_point", <<x, y>>, validate_point(x, y))
KeypairFromSeed == \E seed \in Seeds :
    Called("keypair_from_seed", <<seed>>, binding_keypair(seed))
Ecdh == \E seed \in Seeds, p \in PeerTexts :
    Called("ecdh", <<seed, p>>, ecdh(seed, p[1], p[2]))
PedersenCommit == \E stream \in Streams, b \in ScalarTexts :
    Called("pedersen_commit", <<stream, b>>, pedersen_commit(stream, b))
SchnorrSign == \E seed \in Seeds, m \in Messages :
    Called("schnorr_sign", <<seed, m>>, schnorr_sign(seed, m))
SchnorrVerify == \E pk, r \in PeerTexts, m \in CircuitMessages \cup {<<-1>>}, s \in ScalarTexts :
    Called("schnorr_verify", <<pk, m, r, s>>, schnorr_verify(pk, m, r, s))
PoseidonFixed == \E tag \in Elements, in \in Messages :
    Called("poseidon_hash_fixed", <<tag, in>>, hash_fixed(tag, in))
PoseidonSponge == \E tag \in Elements, in \in Messages :
    Called("poseidon_hash_sponge", <<tag, in>>, hash_sponge(tag, in))
KdfDerive == \E p \in PeerTexts, context \in Messages :
    Called("kdf_derive", <<p, context>>, binding_kdf(p[1], p[2], context))
CipherEncrypt == \E key \in Elements, m \in Streams :
    Called("cipher_encrypt", <<key, m>>, cipher_encrypt(key, m))
CipherDecrypt == \E key \in Elements, c \in Streams :
    Called("cipher_decrypt", <<key, c>>, cipher_decrypt(key, c))
Mac == \E key \in Elements, m \in Messages :
    Called("mac", <<key, m>>, binding_mac(key, m))
MacVerify == \E key, tag \in Elements, m \in Messages :
    Called("mac_verify", <<key, m, tag>>, binding_mac_verify(key, m, tag))
DeriveGenerator == \E digests \in [1..MaxCounter -> Digests] :
    Called("derive", <<digests>>, try_and_increment(digests))
TextEncode == \E b \in Texts : Called("payload_encode", <<b>>, payload_encode(b))
TextDecode == \E texts \in TextStreams :
    Called("text_utf8_v1_decode", <<texts>>, text_utf8_v1_decode(texts))
PayloadDecode ==
    \E id \in {0, text_utf8_v1_id}, stream \in {t \in TextStreams : \A i \in DOMAIN t : t[i] \in Fq} :
    LET payload == [encoding_id |-> id, stream |-> stream]
    IN  Called("payload_decode", <<payload>>, payload_decode(payload))
VerifyCircuit == \E pk, r \in Subgroup, m \in CircuitMessages, w \in WitnessScalars :
    Called("verify_var", <<pk, m, r, w>>, verify_circuit(pk, m, r, w))
CommitCircuit == \E stream \in CircuitStreams, w \in WitnessScalars :
    Called("commit_var", <<stream, w>>, commit_circuit(stream, w))

Next ==
    \/ MulGenerator \/ ValidatePoint \/ KeypairFromSeed \/ Ecdh
    \/ PedersenCommit \/ SchnorrSign \/ SchnorrVerify
    \/ PoseidonFixed \/ PoseidonSponge \/ KdfDerive
    \/ CipherEncrypt \/ CipherDecrypt \/ Mac \/ MacVerify
    \/ TextEncode \/ TextDecode \/ PayloadDecode
    \/ DeriveGenerator \/ VerifyCircuit \/ CommitCircuit
    \/ Returned

Spec == Init /\ [][Next]_call
-----------------------------------------------------------------------------
(* Properties *)

IsCall(fns) == call.fn \in fns
Accepted(fns) == IsCall(fns) /\ call.reply.ok

\* wire.rs promises that a point that survives decoding is a genuine subgroup
\* point, once and for all callers. Every point a function returns is a point
\* of the subgroup in canonical texts, and validate_point, which repeats its
\* texts, accepts exactly the texts that name one.
OnlySubgroupPoints ==
    /\ Accepted({"mul_generator", "keypair_from_seed", "ecdh", "pedersen_commit"})
           => call.reply.value \in Subgroup
    /\ Accepted({"schnorr_sign"}) => call.reply.value.r \in Subgroup
    /\ IsCall({"validate_point"}) =>
           call.reply.ok <=> /\ \A i \in 1..2 : IsDecimal(call.args[i])
                             /\ <<call.args[1] % P, call.args[2] % P>> \in Subgroup

\* Two parties get the same shared point, each from its own seed and the
\* other's key, however the texts of that key are written.
EcdhAgrees ==
    Accepted({"ecdh"}) =>
        LET mine == call.args[1]
            peer == <<call.args[2][1] % P, call.args[2][2] % P>>
            pk == keypair_from_seed(mine).pk
        IN \A theirs \in Seeds :
               Len(theirs) = 2 /\ keypair_from_seed(theirs).pk = peer
                   => ecdh(theirs, pk[1], pk[2]) = call.reply

\* A signature verifies under its key, and of all responses only the signed
\* one does, in whatever text below or above the group order.
SignaturesVerify ==
    Accepted({"schnorr_sign"}) =>
        LET pk == keypair_from_seed(call.args[1]).pk
            sig == call.reply.value
        IN \A s \in 0..(2 * L) :
               schnorr_verify(pk, call.args[2], sig.r, s) = Ok(s % L = sig.s)

\* A circuit's bits may spell a scalar beyond the group order, and multiply by
\* a challenge or an element that was never reduced. On points of the subgroup
\* that decides nothing: the circuits agree with the native functions.
CircuitsAgree ==
    /\ IsCall({"verify_var"}) =>
           LET native == verify(call.args[1], call.args[2],
                                [r |-> call.args[3], s |-> call.args[4] % L])
           IN  /\ call.reply.ok <=> native.ok
               /\ native.ok => call.reply.value = native.value
    /\ IsCall({"commit_var"}) =>
           call.reply.value = commit(call.args[1], call.args[2] % L)

\* The arity check of the fixed hash counts the tag and stops short of the
\* widths that have no tables: no call panics, whoever makes it, and gadget
\* and native hash agree wherever they are defined.
HashesDefined ==
    /\ IsCall({"poseidon_hash_fixed"}) =>
           LET fields == decimals_to_fields(<<call.args[1]>> \o call.args[2])
               gadget == poseidon_hash_fixed_var(fields.value[1], Tail(fields.value))
           IN  /\ call.reply # Err("panic")
               /\ fields.ok => (call.reply.ok = gadget.ok)
               /\ call.reply.ok => (call.reply = gadget)
    /\ Accepted({"poseidon_hash_sponge"}) =>
           LET fields == decimals_to_fields(<<call.args[1]>> \o call.args[2])
           IN  call.reply.value = poseidon_hash_sponge_var(fields.value[1], Tail(fields.value))
    /\ IsCall({"schnorr_sign", "schnorr_verify", "kdf_derive"}) => call.reply # Err("panic")

\* What the sponge absorbs tells apart any two calls: no padding makes the
\* tape of one tag and stream the tape of another.
TapesDistinct ==
    Accepted({"poseidon_hash_sponge"}) =>
        \A tag \in Fq, n \in 0..(Len(call.args[2]) + 1) :
            LET mine == [i \in DOMAIN call.args[2] |-> call.args[2][i] % P]
                Other(x) == IF n <= Len(mine) THEN SubSeq(mine, 1, n) ELSE Append(mine, x)
            IN \A x \in {0, 1} :
                   tape(tag, Other(x)) = tape(call.args[1] % P, mine)
                       => tag = call.args[1] % P /\ Other(x) = mine

\* Whatever the digests, a derived generator is a point of the subgroup and
\* not its identity, and only digests that name no such point are fruitless.
GeneratorsSound ==
    IsCall({"derive"}) =>
        IF call.reply.ok THEN call.reply.value \in Subgroup \ {IDENTITY}
        ELSE \A c \in 1..MaxCounter : \A p \in CurvePoints :
                 p[2] = call.args[1][c] % P
                 /\ (p[1] = 0 \/ IsOdd(p[1]) = (call.args[1][c] >= power(2, DigestBits - 1)))
                     => mul(8, p) = IDENTITY

\* Commitments add up, element by element, as long as no sum of two elements
\* leaves the field: a wrapped element would be reduced by another modulus.
CommitHomomorphic ==
    Accepted({"pedersen_commit"}) =>
        LET mine == [i \in DOMAIN call.args[1] |-> call.args[1][i] % P] IN
        \A theirs \in CircuitStreams, r \in Fr :
            Len(theirs) = Len(mine) /\ (\A i \in DOMAIN mine : mine[i] + theirs[i] < P)
                => add(call.reply.value, commit(theirs, r))
                       = commit([i \in DOMAIN mine |-> mine[i] + theirs[i]],
                                (call.args[2] + r) % L)

\* What is encrypted under a key decrypts under it and a tag verifies under
\* it; the gadgets derive, encrypt and tag alike.
SymmetricAgree ==
    /\ Accepted({"cipher_encrypt"}) =>
           LET key == call.args[1] % P IN
           /\ Sym!decrypt_var(key, call.reply.value) = decimals_to_fields(call.args[2]).value
           /\ cipher_decrypt(call.args[1], call.reply.value) = decimals_to_fields(call.args[2])
    /\ Accepted({"cipher_decrypt"}) =>
           Sym!encrypt_var(call.args[1] % P, call.reply.value)
               = decimals_to_fields(call.args[2]).value
    /\ Accepted({"mac"}) =>
           LET fields == decimals_to_fields(call.args[2]).value IN
           /\ call.reply.value = Sym!mac_var(call.args[1] % P, fields)
           /\ binding_mac_verify(call.args[1], call.args[2], call.reply.value) = Ok(TRUE)
    /\ Accepted({"kdf_derive"}) =>
           call.reply.value = Sym!kdf_derive_var(
               <<call.args[1][1] % P, call.args[1][2] % P>>,
               decimals_to_fields(call.args[2]).value)

\* encoding/mod.rs makes decode invert encode on whatever encode accepts, and
\* text-utf8-v1 wants no second stream to decode to a text. A stream whose
\* length prefix is a usize decodes only if it is what encode makes of the
\* bytes. A longer prefix is cut to a usize, against the documents, which promise
\* DecodeIsBijection: such a stream decodes only if encode makes it but for the cut.
TextDecodesItself ==
    /\ Accepted({"payload_encode"}) =>
           /\ payload_decode(call.reply.value) = Ok(call.args[1])
           /\ text_utf8_v1_decode(call.reply.value.stream) = Ok(call.args[1])
    /\ Accepted({"text_utf8_v1_decode"}) =>
           LET stream == decimals_to_fields(call.args[1]).value
               made == encode_text(call.reply.value)
           IN  /\ stream[1] < UsizeBase => made = Ok(stream)
               /\ made = Ok([i \in DOMAIN stream |->
                              IF i = 1 THEN field_to_usize(stream[1]) ELSE stream[i]])
               /\ stream[1] < LimbBase
    /\ Accepted({"payload_decode"}) =>
           /\ call.args[1].encoding_id = text_utf8_v1_id
           /\ call.reply = text_utf8_v1_decode(call.args[1].stream)

\* What the documents say: "(encode, decode) a bijection on accepted inputs", with a
\* length prefix in [0, MAX_BYTES]. It is so where a usize is as wide as a limb, and
\* not on wasm32.
DecodeIsBijection ==
    Accepted({"text_utf8_v1_decode"}) =>
        encode_text(call.reply.value) = Ok(decimals_to_fields(call.args[1]).value)
=============================================================================
