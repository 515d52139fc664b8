--------------------------- MODULE MailboxProofs ---------------------------
(* What the envelope suite, the circuits and the proof service promise, for *)
(* any accounts, keys, payloads and envelopes, over ideal primitives: the   *)
(* laws below say what is assumed of hashes, sums and the group.            *)
EXTENDS Mailbox, SequenceTheorems, TLAPS

-----------------------------------------------------------------------------
(* The laws. F are the field elements, P the points, K the scalars.         *)

Tags == {"kdf", "stream-cipher", "mac", CIPHER_ROLE, MAC_ROLE, SIGNAL_DOMAIN}

\* Hashes are free, as in the run: no two inputs collide.
HashLaws(F) ==
    /\ \A t \in F, x \in Seq(F) : fixed(t, x) \in F /\ sponge(t, x) \in F
    /\ \A t, u \in F, x, y \in Seq(F) : fixed(t, x) = fixed(u, y) => x = y
    /\ \A t, u \in F, x, y \in Seq(F) : sponge(t, x) = sponge(u, y) => x = y

\* A difference undoes a sum, on either side.
SumLaws(F) ==
    \A a, k \in F : /\ plus(a, k) \in F
                    /\ minus(plus(a, k), k) = a
                    /\ minus(plus(a, k), a) = k

\* Tags and numbers are elements, and different numbers different elements.
NumberLaws(F) ==
    /\ \A name \in Tags : tag_of(name) \in F
    /\ \A n \in Nat : index(n) \in F /\ field(n) \in F
    /\ \A m, n \in Nat : (index(m) = index(n) => m = n) /\ (field(m) = field(n) => m = n)

\* Multiples are points, and a point is known by its two coordinates.
PointLaws(F, P, K) ==
    /\ ValidPoints \subseteq P
    /\ \A k \in K, p \in P : mul(k, p) \in P
    /\ \A p \in P : coords(p) \in Seq(F) /\ Len(coords(p)) = 2
    /\ \A p, q \in P : coords(p) = coords(q) => p = q

Payload(F) == [encoding_id : F, stream : Seq(F)]
TextPoint(P) == [point : P, spelling : {0, 1}]
TextEnvelope(F, P) == [sender_pk : TextPoint(P), recipient_pk : TextPoint(P), envelope_id : F,
                       encoding_id : F, ciphertext : Seq(F), mac_tag : F]

\* Secrets are scalars, and the envelopes that nobody sealed carry no MAC.
InputLaws(F, P, K) ==
    /\ \A k \in KeyNames : Secret(k[1], k[2]) \in K
    /\ Payloads \subseteq Payload(F)
    /\ OddEnvelopes \subseteq TextEnvelope(F, P)
    /\ \A d \in OddEnvelopes, t \in F, x \in Seq(F) : d.mac_tag # sponge(t, x)

\* What the circuits add: their gadgets compute the hashes, a commitment is a
\* point, and so are the keys of the setup instance; multiples commute.
CircuitLaws(P, K) ==
    /\ \A t, x : fixed_var(t, x) = fixed(t, x) /\ sponge_var(t, x) = sponge(t, x)
    /\ \A s, b : commit(s, b) \in P
    /\ dummy_sk[1] \in K /\ dummy_sk[2] \in K /\ generator \in P
    /\ \A k, l \in K : mul(k, mul(l, generator)) = mul(l, mul(k, generator))

OpeningFields == {"commitment", "encoding_id", "claimed_first_value", "stream", "blinding"}

\* What a prover may be sent: T are the texts, of which elements and scalars
\* parse. A commitment binds the scalars of what it is made to, and no more.
TextLaws(F, P, K, T) ==
    /\ F \subseteq T /\ Blindings \subseteq K
    /\ \A x : (is_element(x) => x \in F) /\ (is_scalar(x) => x \in K)
    /\ \A d \in OddInputs : d.ciphertext \in Seq(T)
    /\ \A d \in OddOpenings :
           DOMAIN d = OpeningFields /\ d.commitment \in P /\ d.stream \in Seq(T)
    /\ \A s, t \in Seq(F), b, c \in K :
           commit(s, b) = commit(t, c)
           => \A k \in DOMAIN s \cap DOMAIN t : fq_to_fr(s[k]) = fq_to_fr(t[k])

Laws(F, P, K) ==
    /\ HashLaws(F) /\ SumLaws(F) /\ NumberLaws(F)
    /\ PointLaws(F, P, K) /\ InputLaws(F, P, K)

-----------------------------------------------------------------------------
(* Sequences.                                                               *)

\* A first element and the rest determine each other.
LEMMA ConsInjective ==
  ASSUME NEW E, NEW a \in E, NEW b \in E, NEW s \in Seq(E), NEW t \in Seq(E),
         <<a>> \o s = <<b>> \o t
  PROVE  a = b /\ s = t
<1>1. (<<a>> \o s)[1] = a /\ (<<b>> \o t)[1] = b
  OBVIOUS
<1>2. Len(<<a>> \o s) = Len(s) + 1 /\ Len(<<b>> \o t) = Len(t) + 1
  OBVIOUS
<1>3. Len(s) = Len(t) /\ Len(s) \in Nat
  BY <1>2
<1>4. \A i \in 1..Len(s) : (<<a>> \o s)[i + 1] = s[i] /\ (<<b>> \o t)[i + 1] = t[i]
  BY <1>3
<1>5. \A i \in 1..Len(s) : s[i] = t[i]
  BY <1>4
<1>6. s = t
  BY <1>3, <1>5
<1> QED
  BY <1>1, <1>6

\* The elements of two pairs in a row.
LEMMA Paired ==
  ASSUME NEW E, NEW s \in Seq(E), NEW t \in Seq(E), Len(s) = 2, Len(t) = 2
  PROVE  /\ s \o t \in Seq(E)
         /\ (s \o t)[1] = s[1] /\ (s \o t)[2] = s[2]
         /\ (s \o t)[3] = t[1] /\ (s \o t)[4] = t[2]
<1>1. \A i \in 1..(Len(s) + Len(t)) :
         (s \o t)[i] = IF i <= Len(s) THEN s[i] ELSE t[i - Len(s)]
  BY ConcatProperties
<1>2. /\ 3 \in 1..(Len(s) + Len(t)) /\ ~(3 <= Len(s)) /\ 3 - Len(s) = 1
      /\ 4 \in 1..(Len(s) + Len(t)) /\ ~(4 <= Len(s)) /\ 4 - Len(s) = 2
      /\ 1 \in 1..(Len(s) + Len(t)) /\ 1 <= Len(s)
      /\ 2 \in 1..(Len(s) + Len(t)) /\ 2 <= Len(s)
  OBVIOUS
<1>3. (s \o t)[3] = t[3 - Len(s)] /\ (s \o t)[4] = t[4 - Len(s)]
  BY <1>1, <1>2
<1>4. (s \o t)[1] = s[1] /\ (s \o t)[2] = s[2]
  BY <1>1, <1>2
<1>5. s \o t \in Seq(E)
  BY ConcatProperties
<1> QED
  BY <1>2, <1>3, <1>4, <1>5

\* What a key is derived from: a sequence of elements, from which point, role
\* and envelope id can be read.
KdfText(p, t, i) == coords(p) \o <<t, i>>

LEMMA KdfInput ==
  ASSUME NEW F, NEW P, NEW K, Laws(F, P, K),
         NEW p \in P, NEW q \in P, NEW t \in F, NEW u \in F, NEW i \in F, NEW j \in F
  PROVE  /\ KdfText(p, t, i) \in Seq(F)
         /\ KdfText(p, t, i) = KdfText(q, u, j) => p = q /\ i = j
<1> DEFINE c == coords(p)
           d == coords(q)
           v == <<t, i>>
           w == <<u, j>>
<1>1. c \in Seq(F) /\ d \in Seq(F) /\ Len(c) = 2 /\ Len(d) = 2
  BY DEF Laws, PointLaws
<1>2. v \in Seq(F) /\ w \in Seq(F) /\ Len(v) = 2 /\ Len(w) = 2 /\ v[2] = i /\ w[2] = j
  OBVIOUS
<1> HIDE DEF c, d, v, w
<1>3. c \o v \in Seq(F)
  BY <1>1, <1>2, Paired
<1>4. ASSUME c \o v = d \o w
      PROVE  p = q /\ i = j
  <2>1. /\ (c \o v)[1] = c[1] /\ (c \o v)[2] = c[2] /\ (c \o v)[4] = v[2]
        /\ (d \o w)[1] = d[1] /\ (d \o w)[2] = d[2] /\ (d \o w)[4] = w[2]
    BY <1>1, <1>2, Paired
  <2>2. c[1] = d[1] /\ c[2] = d[2] /\ i = j
    BY <1>2, <1>4, <2>1
  <2>3. c = d
    BY <1>1, <2>2
  <2> QED
    BY <2>2, <2>3 DEF Laws, PointLaws, c, d
<1>5. KdfText(p, t, i) = c \o v /\ KdfText(q, u, j) = d \o w
  BY DEF KdfText, c, d, v, w
<1> QED
  BY <1>3, <1>4, <1>5

\* cipher.rs: encryption keeps the length of a stream.
LEMMA EncryptLength ==
  ASSUME NEW E, NEW s \in Seq(E), NEW key
  PROVE  Len(encrypt(key, s)) = Len(s)
<1>1. DOMAIN encrypt(key, s) = 1..Len(s)
  BY DEF encrypt
<1>2. Len(s) \in Nat
  OBVIOUS
<1> QED
  BY <1>1, <1>2, SMT DEF encrypt

\* cipher.rs: decrypt with the key of encrypt gives the stream back, at every
\* length.
LEMMA DecryptInvertsEncrypt ==
  ASSUME NEW E, NEW F, NEW key, NEW s \in Seq(E),
         \A i \in Nat : keystream_at(key, i) \in F,
         \A a \in E, k \in F : minus(plus(a, k), k) = a
  PROVE  decrypt(key, encrypt(key, s)) = s
<1> DEFINE c == encrypt(key, s)
<1>1. Len(c) = Len(s)
  BY EncryptLength
<1>2. \A i \in 1..Len(s) : c[i] = plus(s[i], keystream_at(key, i - 1))
  BY DEF encrypt
<1>3. \A i \in 1..Len(s) : minus(c[i], keystream_at(key, i - 1)) = s[i]
  <2> TAKE i \in 1..Len(s)
  <2>1. s[i] \in E
    OBVIOUS
  <2>2. keystream_at(key, i - 1) \in F
    BY i - 1 \in Nat
  <2> QED
    BY <1>2, <2>1, <2>2
<1>4. decrypt(key, c) = [i \in 1..Len(s) |-> s[i]]
  BY <1>1, <1>3, Zenon DEF decrypt
<1>5. s = [i \in 1..Len(s) |-> s[i]]
  OBVIOUS
<1> QED
  BY <1>4, <1>5

\* envelope.rs: what one key pair seals for another, the other opens, whatever
\* the payload, its length and the envelope id.
THEOREM OpenInvertsSeal ==
  ASSUME NEW E, NEW F,
         \A tag, inputs : fixed(tag, inputs) \in F,
         \A a \in E, k \in F : minus(plus(a, k), k) = a,
         NEW sender_sk, NEW sender_pk, NEW recipient_sk, NEW recipient_pk,
         mul(recipient_sk, sender_pk) = mul(sender_sk, recipient_pk),
         NEW id, NEW payload \in [encoding_id : E, stream : Seq(E)]
  PROVE  open(recipient_sk, recipient_pk,
              seal(sender_sk, sender_pk, recipient_pk, id, payload)) = Ok(payload)
<1> DEFINE shared == mul(sender_sk, recipient_pk)
           key_enc == envelope_key(CIPHER_ROLE, shared, id)
           e == seal(sender_sk, sender_pk, recipient_pk, id, payload)
<1>1. /\ e.sender_pk = sender_pk
      /\ e.recipient_pk = recipient_pk
      /\ e.envelope_id = id
      /\ e.encoding_id = payload.encoding_id
      /\ e.ciphertext = encrypt(key_enc, payload.stream)
      /\ e.mac_tag = mac(envelope_key(MAC_ROLE, shared, id),
                         mac_input(payload.encoding_id, e.ciphertext))
  BY DEF seal
<1>2. decrypt(key_enc, e.ciphertext) = payload.stream
  <2>1. \A i \in Nat : keystream_at(key_enc, i) \in F
    BY DEF keystream_at
  <2>2. payload.stream \in Seq(E)
    OBVIOUS
  <2> HIDE DEF key_enc
  <2>3. decrypt(key_enc, encrypt(key_enc, payload.stream)) = payload.stream
    BY <2>1, <2>2, DecryptInvertsEncrypt
  <2> QED
    BY <1>1, <2>3
<1>3. open_with(shared, e) = Ok([encoding_id |-> payload.encoding_id,
                                 stream |-> payload.stream])
  BY <1>1, <1>2 DEF open_with, mac_verify
<1>4. payload = [encoding_id |-> payload.encoding_id, stream |-> payload.stream]
  OBVIOUS
<1> QED
  BY <1>1, <1>3, <1>4 DEF open

-----------------------------------------------------------------------------
(* What a sealed envelope consists of.                                      *)

SecretOf(k) == Secret(k[1], k[2])
KeyOf(k) == public_key(k[1], k[2])

\* Keys of the registry are points, and so is what they share.
LEMMA SharedPoints ==
  ASSUME NEW F, NEW P, NEW K, Laws(F, P, K), NEW k \in KeyNames
  PROVE  /\ KeyOf(k) \in P /\ KeyOf(k) \in PublicKeys
         /\ \A p \in P : mul(SecretOf(k), p) \in P
<1>1. KeyOf(k) \in PublicKeys
  BY Zenon DEF PublicKeys, KeyOf
<1>2. PublicKeys \subseteq P
  BY MailboxAssumption DEF Laws, PointLaws
<1> QED
  BY <1>1, <1>2, Zenon DEF Laws, PointLaws, InputLaws, SecretOf

\* A derived key is an element and determines the shared point and the id.
LEMMA EnvelopeKeys ==
  ASSUME NEW F, NEW P, NEW K, Laws(F, P, K),
         NEW role \in {CIPHER_ROLE, MAC_ROLE}, NEW p \in P, NEW q \in P, NEW i \in F, NEW j \in F
  PROVE  /\ envelope_key(role, p, i) \in F
         /\ envelope_key(role, p, i) = envelope_key(role, q, j) => p = q /\ i = j
<1>1. tag_of("kdf") \in F /\ tag_of(role) \in F
  BY DEF Laws, NumberLaws, Tags
<1> DEFINE x == KdfText(p, tag_of(role), i)
           y == KdfText(q, tag_of(role), j)
<1>2. x \in Seq(F) /\ y \in Seq(F) /\ (x = y => p = q /\ i = j)
  BY <1>1, KdfInput
<1>3. /\ envelope_key(role, p, i) = fixed(tag_of("kdf"), x)
      /\ envelope_key(role, q, j) = fixed(tag_of("kdf"), y)
  BY DEF envelope_key, kdf_derive, KdfText
<1> HIDE DEF x, y
<1>4. fixed(tag_of("kdf"), x) \in F
  BY <1>1, <1>2 DEF Laws, HashLaws
<1>5. fixed(tag_of("kdf"), x) = fixed(tag_of("kdf"), y) => x = y
  BY <1>1, <1>2 DEF Laws, HashLaws
<1> QED
  BY <1>2, <1>3, <1>4, <1>5

\* What a tag is the hash of: a sequence of elements, from which key, encoding
\* id and ciphertext can be read.
MacText(key, encoding, ct) == <<key>> \o mac_input(encoding, ct)

LEMMA MacTyped ==
  ASSUME NEW F, NEW P, NEW K, Laws(F, P, K), NEW key \in F, NEW a \in F, NEW c \in Seq(F)
  PROVE  /\ MacText(key, a, c) \in Seq(F)
         /\ mac(key, mac_input(a, c)) = sponge(tag_of("mac"), MacText(key, a, c))
         /\ mac(key, mac_input(a, c)) \in F
<1>1. <<a>> \in Seq(F) /\ <<key>> \in Seq(F)
  OBVIOUS
<1>2. mac_input(a, c) \in Seq(F)
  BY <1>1, ConcatProperties DEF mac_input
<1>3. MacText(key, a, c) \in Seq(F)
  BY <1>1, <1>2, ConcatProperties DEF MacText
<1>4. mac(key, mac_input(a, c)) = sponge(tag_of("mac"), MacText(key, a, c))
  BY DEF mac, MacText
<1>5. tag_of("mac") \in F
  BY DEF Laws, NumberLaws, Tags
<1> QED
  BY <1>3, <1>4, <1>5 DEF Laws, HashLaws

LEMMA MacInjective ==
  ASSUME NEW F, NEW P, NEW K, Laws(F, P, K),
         NEW key \in F, NEW a \in F, NEW c \in Seq(F),
         NEW other \in F, NEW b \in F, NEW d \in Seq(F),
         mac(key, mac_input(a, c)) = mac(other, mac_input(b, d))
  PROVE  key = other /\ a = b /\ c = d
<1> DEFINE u == mac_input(a, c)
           v == mac_input(b, d)
<1>1. <<a>> \in Seq(F) /\ <<b>> \in Seq(F)
  OBVIOUS
<1>2. u \in Seq(F) /\ v \in Seq(F)
  BY <1>1, ConcatProperties DEF mac_input
<1>3. u = v => a = b /\ c = d
  BY ConsInjective DEF mac_input
<1>4. tag_of("mac") \in F
  BY DEF Laws, NumberLaws, Tags
<1>5. MacText(key, a, c) = MacText(other, b, d)
  <2>1. /\ MacText(key, a, c) \in Seq(F)
        /\ mac(key, mac_input(a, c)) = sponge(tag_of("mac"), MacText(key, a, c))
    BY MacTyped
  <2>2. /\ MacText(other, b, d) \in Seq(F)
        /\ mac(other, mac_input(b, d)) = sponge(tag_of("mac"), MacText(other, b, d))
    BY MacTyped
  <2> QED
    BY <1>4, <2>1, <2>2 DEF Laws, HashLaws
<1>6. <<key>> \o u = <<other>> \o v
  BY <1>5 DEF MacText
<1> HIDE DEF u, v
<1>7. key = other /\ u = v
  BY <1>2, <1>6, ConsInjective
<1> QED
  BY <1>3, <1>7

\* A ciphertext is a sequence of elements.
LEMMA CipherTyped ==
  ASSUME NEW F, NEW P, NEW K, Laws(F, P, K), NEW key \in F, NEW s \in Seq(F)
  PROVE  /\ encrypt(key, s) \in Seq(F)
         /\ decrypt(key, encrypt(key, s)) = s
         /\ \A i \in Nat : keystream_at(key, i) \in F
<1>1. \A i \in Nat : keystream_at(key, i) \in F
  <2> TAKE i \in Nat
  <2>1. tag_of("stream-cipher") \in F /\ index(i) \in F
    BY DEF Laws, NumberLaws, Tags
  <2>2. <<key, index(i)>> \in Seq(F)
    BY <2>1
  <2> QED
    BY <2>1, <2>2 DEF keystream_at, Laws, HashLaws
<1>2. \A i \in 1..Len(s) : s[i] \in F /\ i - 1 \in Nat
  OBVIOUS
<1>3. \A i \in 1..Len(s) : plus(s[i], keystream_at(key, i - 1)) \in F
  BY <1>1, <1>2 DEF Laws, SumLaws
<1>4. encrypt(key, s) = [i \in 1..Len(s) |-> plus(s[i], keystream_at(key, i - 1))]
  BY DEF encrypt
<1>5. Len(s) \in Nat
  OBVIOUS
<1>6. encrypt(key, s) \in Seq(F)
  BY <1>3, <1>4, <1>5
<1>7. decrypt(key, encrypt(key, s)) = s
  <2>1. \A a \in F, k \in F : minus(plus(a, k), k) = a
    BY DEF Laws, SumLaws
  <2> QED
    BY <1>1, <2>1, DecryptInvertsEncrypt
<1> QED
  BY <1>1, <1>6, <1>7

\* An envelope by its fields.
Envelope(s, r, id, encoding, ct, tag) ==
    [sender_pk |-> s, recipient_pk |-> r, envelope_id |-> id,
     encoding_id |-> encoding, ciphertext |-> ct, mac_tag |-> tag]

\* An envelope with other keys, which leave the rest of it.
WithKeys(e, s, r) == [e EXCEPT !.sender_pk = s, !.recipient_pk = r]

LEMMA OtherKeys ==
  ASSUME NEW e, NEW s, NEW r, NEW id, NEW encoding, NEW ct, NEW tag,
         e = Envelope(s, r, id, encoding, ct, tag), NEW t, NEW u
  PROVE  WithKeys(e, t, u) = Envelope(t, u, id, encoding, ct, tag)
<1> DEFINE d == [e EXCEPT !.sender_pk = t]
<1>1. WithKeys(e, t, u) = [d EXCEPT !.recipient_pk = u]
  BY Zenon DEF WithKeys
<1>2. d = Envelope(t, r, id, encoding, ct, tag)
  BY DEF Envelope
<1> HIDE DEF d
<1>3. [d EXCEPT !.recipient_pk = u] = Envelope(t, u, id, encoding, ct, tag)
  BY <1>2 DEF Envelope
<1> QED
  BY <1>1, <1>3

\* seal, on the texts of two keys of the registry.
LEMMA SealedTexts ==
  ASSUME NEW F, NEW P, NEW K, Laws(F, P, K), NEW k \in KeyNames, NEW l \in KeyNames,
         NEW id \in F, NEW payload \in Payload(F)
  PROVE  LET e == seal_texts(SecretOf(k), text_of(KeyOf(k)), text_of(KeyOf(l)), id, payload)
             shared == mul(SecretOf(k), KeyOf(l))
         IN  /\ e \in TextEnvelope(F, P)
             /\ e.sender_pk = text_of(KeyOf(k)) /\ e.recipient_pk = text_of(KeyOf(l))
             /\ e.envelope_id = id /\ e.encoding_id = payload.encoding_id
             /\ e.ciphertext = encrypt(envelope_key(CIPHER_ROLE, shared, id), payload.stream)
             /\ e.mac_tag = mac(envelope_key(MAC_ROLE, shared, id),
                                mac_input(e.encoding_id, e.ciphertext))
<1> DEFINE shared == mul(SecretOf(k), KeyOf(l))
           ct == encrypt(envelope_key(CIPHER_ROLE, shared, id), payload.stream)
           tag == mac(envelope_key(MAC_ROLE, shared, id), mac_input(payload.encoding_id, ct))
           s == text_of(KeyOf(k))
           r == text_of(KeyOf(l))
<1>1. shared \in P
  BY SharedPoints
<1>2. s \in TextPoint(P) /\ r \in TextPoint(P) /\ s.point = KeyOf(k) /\ r.point = KeyOf(l)
  BY SharedPoints DEF text_of, TextPoint
<1>3. payload.encoding_id \in F /\ payload.stream \in Seq(F)
  BY DEF Payload
<1>4. envelope_key(CIPHER_ROLE, shared, id) \in F /\ envelope_key(MAC_ROLE, shared, id) \in F
  BY <1>1, EnvelopeKeys DEF CIPHER_ROLE, MAC_ROLE
<1>5. ct \in Seq(F)
  BY <1>3, <1>4, CipherTyped
<1> HIDE DEF ct
<1>6. tag \in F
  BY <1>3, <1>4, <1>5, MacTyped
<1> HIDE DEF tag
<1>7. seal_texts(SecretOf(k), s, r, id, payload)
        = Envelope(s, r, id, payload.encoding_id, ct, tag)
  <2>1. seal(SecretOf(k), KeyOf(k), KeyOf(l), id, payload)
          = Envelope(KeyOf(k), KeyOf(l), id, payload.encoding_id, ct, tag)
    BY DEF seal, Envelope, ct, tag
  <2> HIDE DEF s, r, shared
  <2>2. seal_texts(SecretOf(k), s, r, id, payload)
          = WithKeys(seal(SecretOf(k), s.point, r.point, id, payload), s, r)
    BY DEF seal_texts, WithKeys
  <2> QED
    BY <1>2, <2>1, <2>2, OtherKeys
<1> HIDE DEF s, r
<1>8. seal_texts(SecretOf(k), s, r, id, payload) \in TextEnvelope(F, P)
  BY <1>2, <1>3, <1>5, <1>6, <1>7 DEF TextEnvelope, Envelope
<1> QED
  BY <1>7, <1>8 DEF s, r, ct, tag, Envelope

-----------------------------------------------------------------------------
(* The invariant: every envelope is what its sender's key sealed for its    *)
(* recipient's, under an id of its own.                                     *)

Letter(F, P) == [from : KeyNames, to : KeyNames, payload : Payloads,
                 envelope : TextEnvelope(F, P)]

Sealed(m, n) ==
    m.envelope = seal_texts(SecretOf(m.from), text_of(KeyOf(m.from)), text_of(KeyOf(m.to)),
                            field(n), m.payload)

KeysKnown == keys \in [Accounts -> Nat] /\ \A a \in Accounts : keys[a] <= MaxVersion(a)

MailSealed(F, P) == mail \in Seq(Letter(F, P)) /\ \A n \in DOMAIN mail : Sealed(mail[n], n)

\* A version an account has is one it may have.
LEMMA KeyHeld ==
  ASSUME KeysKnown, NEW a \in Accounts, NEW v \in 1..keys[a]
  PROVE  /\ <<a, v>> \in KeyNames
         /\ SecretOf(<<a, v>>) = Secret(a, v) /\ KeyOf(<<a, v>>) = public_key(a, v)
<1>1. keys[a] \in Nat /\ keys[a] <= MaxVersion(a) /\ MaxVersion(a) \in Nat
  BY MailboxAssumption DEF KeysKnown
<1>2. v \in 1..MaxVersion(a)
  BY <1>1
<1>3. <<a, v>> \in KeyNames
  BY <1>2 DEF KeyNames
<1> QED
  BY <1>3 DEF SecretOf, KeyOf

\* Only Register and Send change keys and mail, and what is done with a call
\* leaves both alone.
LEMMA StepCases ==
  ASSUME [Next]_vars
  PROVE  \/ \E a \in Accounts : Register(a)
         \/ \E a, b \in Accounts, payload \in Payloads : Send(a, b, payload)
         \/ UNCHANGED <<keys, mail>>
<1>1. CASE UNCHANGED vars
  BY <1>1 DEF vars
<1>2. CASE \E a \in Accounts : Register(a) \/ OpenInApp(a) \/ OpenNative(a)
  BY <1>2 DEF OpenInApp, OpenNative
<1>3. CASE \E circuit \in Circuits :
             ProveOnServer(circuit) \/ ProveInBrowser(circuit) \/ Setup(circuit)
  BY <1>3 DEF ProveOnServer, ProveInBrowser, Setup, Proves
<1>4. CASE ProveThroughClient
  BY <1>4 DEF ProveThroughClient, Proves
<1>5. CASE VerifyOnServer \/ VerifyInBrowser \/ VerifyOnChain
  BY <1>5 DEF VerifyOnServer, VerifyInBrowser, VerifyOnChain, Verifies
<1>6. CASE Returned
  BY <1>6 DEF Returned
<1> QED
  BY <1>1, <1>2, <1>3, <1>4, <1>5, <1>6 DEF Next

\* What one key may seal for another is a letter.
LEMMA LetterTyped ==
  ASSUME NEW F, NEW P, NEW K, Laws(F, P, K), NEW k \in KeyNames, NEW l \in KeyNames,
         NEW n \in Nat, NEW payload \in Payloads
  PROVE  LET m == letter(k, l, field(n), payload)
         IN  m \in Letter(F, P) /\ Sealed(m, n)
<1> DEFINE envelope == seal_texts(SecretOf(k), text_of(KeyOf(k)), text_of(KeyOf(l)),
                                  field(n), payload)
           m == [from |-> k, to |-> l, payload |-> payload, envelope |-> envelope]
<1>1. field(n) \in F /\ payload \in Payload(F)
  BY DEF Laws, NumberLaws, InputLaws
<1>2. envelope \in TextEnvelope(F, P)
  BY <1>1, SealedTexts
<1>3. letter(k, l, field(n), payload) = m
  BY DEF letter, SecretOf, KeyOf
<1> HIDE DEF envelope
<1>4. m \in Letter(F, P)
  BY <1>2 DEF Letter
<1>5. Sealed(m, n)
  BY DEF Sealed, envelope
<1> QED
  BY <1>3, <1>4, <1>5

\* A letter that is sent is sealed under the next id.
LEMMA SendStep ==
  ASSUME NEW F, NEW P, NEW K, Laws(F, P, K), KeysKnown, MailSealed(F, P),
         NEW a \in Accounts, NEW b \in Accounts, NEW payload \in Payloads,
         Send(a, b, payload)
  PROVE  MailSealed(F, P)'
<1> DEFINE k == <<a, keys[a]>>
           l == <<b, keys[b]>>
           n == Len(mail) + 1
           m == letter(k, l, field(n), payload)
<1>1. keys[a] \in 1..keys[a] /\ keys[b] \in 1..keys[b]
  BY DEF Send, KeysKnown
<1>2. k \in KeyNames /\ l \in KeyNames
  BY <1>1, KeyHeld
<1>3. mail' = Append(mail, m)
  BY DEF Send
<1>4. Len(mail) \in Nat /\ mail \in Seq(Letter(F, P))
  BY DEF MailSealed
<1>5. n \in Nat
  BY <1>4
<1> HIDE DEF k, l, n
<1>7. m \in Letter(F, P)
  BY <1>2, <1>5, LetterTyped
<1>8. Sealed(m, n)
  BY <1>2, <1>5, LetterTyped
<1> HIDE DEF m
<1>9. mail' \in Seq(Letter(F, P))
  BY <1>3, <1>4, <1>7
<1>10. ASSUME NEW i \in DOMAIN mail'
       PROVE  Sealed(mail'[i], i)
  <2>1. i = n \/ i \in DOMAIN mail
    BY <1>3, <1>4, <1>7 DEF n
  <2>2. CASE i = n
    BY <2>2, <1>3, <1>4, <1>8 DEF n
  <2>3. CASE i \in DOMAIN mail
    <3>1. mail'[i] = mail[i]
      BY <2>3, <1>3, <1>4, <1>7
    <3> QED
      BY <2>3, <3>1 DEF MailSealed
  <2> QED
    BY <2>1, <2>2, <2>3
<1> QED
  BY <1>9, <1>10 DEF MailSealed, Sealed

\* No other step disturbs it.
LEMMA MailStep ==
  ASSUME NEW F, NEW P, NEW K, Laws(F, P, K), KeysKnown, MailSealed(F, P), [Next]_vars
  PROVE  KeysKnown' /\ MailSealed(F, P)'
<1>1. CASE \E a \in Accounts : Register(a)
  <2>1. PICK a \in Accounts : Register(a)
    BY <1>1
  <2>2. keys[a] \in Nat /\ MaxVersion(a) \in Nat /\ keys[a] < MaxVersion(a)
    BY <2>1, MailboxAssumption DEF Register, KeysKnown
  <2>3. KeysKnown'
    BY <2>1, <2>2 DEF Register, KeysKnown
  <2> QED
    BY <2>1, <2>3 DEF Register, MailSealed
<1>2. CASE \E a, b \in Accounts, payload \in Payloads : Send(a, b, payload)
  <2>1. UNCHANGED keys
    BY <1>2 DEF Send
  <2>2. MailSealed(F, P)'
    BY <1>2, SendStep
  <2> QED
    BY <2>1, <2>2 DEF KeysKnown
<1>3. CASE UNCHANGED <<keys, mail>>
  BY <1>3 DEF KeysKnown, MailSealed
<1> QED
  BY <1>1, <1>2, <1>3, StepCases

LEMMA MailInit ==
  ASSUME NEW F, NEW P, Init
  PROVE  KeysKnown /\ MailSealed(F, P)
<1>1. KeysKnown
  BY MailboxAssumption DEF Init, KeysKnown
<1>2. MailSealed(F, P)
  BY DEF Init, MailSealed
<1> QED
  BY <1>1, <1>2

LEMMA MailInvariant ==
  ASSUME NEW F, NEW P, NEW K, Laws(F, P, K)
  PROVE  Spec => [](KeysKnown /\ MailSealed(F, P))
<1>1. Init => KeysKnown /\ MailSealed(F, P)
  BY MailInit
<1>2. KeysKnown /\ MailSealed(F, P) /\ [Next]_vars => (KeysKnown /\ MailSealed(F, P))'
  BY MailStep
<1> QED
  BY <1>1, <1>2, PTL DEF Spec

-----------------------------------------------------------------------------
(* What is known of a letter.                                               *)

\* The point the two keys of a letter share.
SharedOf(m) == mul(SecretOf(m.from), KeyOf(m.to))

LEMMA LetterFields ==
  ASSUME NEW F, NEW P, NEW K, Laws(F, P, K), MailSealed(F, P), NEW n \in DOMAIN mail
  PROVE  LET m == mail[n]
             e == m.envelope
         IN  /\ n \in Nat /\ m.from \in KeyNames /\ m.to \in KeyNames
             /\ m.payload \in Payload(F) /\ m.payload.stream # <<>>
             /\ SharedOf(m) \in P /\ field(n) \in F
             /\ e \in TextEnvelope(F, P)
             /\ e.sender_pk = text_of(KeyOf(m.from)) /\ e.recipient_pk = text_of(KeyOf(m.to))
             /\ e.envelope_id = field(n) /\ e.encoding_id = m.payload.encoding_id
             /\ e.ciphertext = encrypt(envelope_key(CIPHER_ROLE, SharedOf(m), field(n)),
                                       m.payload.stream)
             /\ e.mac_tag = mac(envelope_key(MAC_ROLE, SharedOf(m), field(n)),
                                mac_input(e.encoding_id, e.ciphertext))
<1> DEFINE m == mail[n]
<1>1. m \in Letter(F, P) /\ Sealed(m, n) /\ n \in Nat
  BY DEF MailSealed
<1> HIDE DEF m
<1>2. /\ m.from \in KeyNames /\ m.to \in KeyNames
      /\ m.payload \in Payload(F) /\ m.payload.stream # <<>>
  BY <1>1, MailboxAssumption DEF Letter, Laws, InputLaws
<1>3. SharedOf(m) \in P
  BY <1>2, SharedPoints DEF SharedOf
<1>4. field(n) \in F
  BY <1>1 DEF Laws, NumberLaws
<1> QED
  BY <1>1, <1>2, <1>3, <1>4, SealedTexts DEF Sealed, SharedOf, m

\* A place of the keystream determines the key and the position.
LEMMA KeystreamPlaces ==
  ASSUME NEW F, NEW P, NEW K, Laws(F, P, K),
         NEW key \in F, NEW other \in F, NEW i \in Nat, NEW j \in Nat,
         keystream_at(key, i) = keystream_at(other, j)
  PROVE  key = other /\ i = j
<1> DEFINE x == <<key, index(i)>>
           y == <<other, index(j)>>
<1>1. tag_of("stream-cipher") \in F /\ index(i) \in F /\ index(j) \in F
  BY DEF Laws, NumberLaws, Tags
<1>2. x \in Seq(F) /\ y \in Seq(F) /\ (x = y => key = other /\ index(i) = index(j))
  BY <1>1
<1>3. fixed(tag_of("stream-cipher"), x) = fixed(tag_of("stream-cipher"), y)
  BY DEF keystream_at
<1> HIDE DEF x, y
<1>4. x = y
  BY <1>1, <1>2, <1>3 DEF Laws, HashLaws
<1> QED
  BY <1>2, <1>4 DEF Laws, NumberLaws

\* What hides a word is the place of the keystream at its position, under the
\* letter's own key.
LEMMA MaskOfWord ==
  ASSUME NEW F, NEW P, NEW K, Laws(F, P, K), MailSealed(F, P),
         NEW n \in DOMAIN mail, NEW i \in DOMAIN mail[n].payload.stream
  PROVE  /\ i \in Nat /\ i - 1 \in Nat
         /\ minus(mail[n].envelope.ciphertext[i], mail[n].payload.stream[i])
                = keystream_at(envelope_key(CIPHER_ROLE, SharedOf(mail[n]), field(n)), i - 1)
<1> DEFINE s == mail[n].payload.stream
           key == envelope_key(CIPHER_ROLE, SharedOf(mail[n]), field(n))
<1>1. s \in Seq(F)
  BY LetterFields DEF Payload
<1>2. mail[n].envelope.ciphertext = encrypt(key, s)
  BY LetterFields
<1>3. key \in F
  BY LetterFields, EnvelopeKeys
<1> HIDE DEF s, key
<1>4. i \in 1..Len(s) /\ Len(s) \in Nat /\ s[i] \in F
  BY <1>1 DEF s
<1>5. i \in Nat /\ i - 1 \in Nat
  BY <1>4
<1>6. keystream_at(key, i - 1) \in F
  BY <1>1, <1>3, <1>5, CipherTyped
<1>7. encrypt(key, s)[i] = plus(s[i], keystream_at(key, i - 1))
  BY <1>4 DEF encrypt
<1> QED
  BY <1>2, <1>4, <1>5, <1>6, <1>7 DEF Laws, SumLaws, s, key

\* Equal masks are one place of one keystream: the key tells the envelope by its
\* id, which is drawn afresh, and the place tells the word.
LEMMA MasksDiffer ==
  ASSUME NEW F, NEW P, NEW K, Laws(F, P, K), MailSealed(F, P)
  PROVE  KeystreamNotReused
<1> DEFINE mask(w) == minus(mail[w[1]].envelope.ciphertext[w[2]],
                            mail[w[1]].payload.stream[w[2]])
           Sent == UNION {Words(n) : n \in DOMAIN mail}
<1>1. ASSUME NEW a \in Sent, NEW b \in Sent, mask(a) = mask(b)
      PROVE  a = b
  <2>1. PICK m \in DOMAIN mail : a \in Words(m)
    OBVIOUS
  <2>2. PICK i \in DOMAIN mail[m].payload.stream : a = <<m, i>>
    BY <2>1 DEF Words
  <2>3. PICK n \in DOMAIN mail : b \in Words(n)
    OBVIOUS
  <2>4. PICK j \in DOMAIN mail[n].payload.stream : b = <<n, j>>
    BY <2>3 DEF Words
  <2> DEFINE k == envelope_key(CIPHER_ROLE, SharedOf(mail[m]), field(m))
             l == envelope_key(CIPHER_ROLE, SharedOf(mail[n]), field(n))
  <2>5. /\ m \in Nat /\ SharedOf(mail[m]) \in P /\ field(m) \in F
        /\ n \in Nat /\ SharedOf(mail[n]) \in P /\ field(n) \in F
    BY LetterFields
  <2>6. k \in F /\ l \in F /\ (k = l => field(m) = field(n))
    BY <2>5, EnvelopeKeys
  <2>7. /\ i \in Nat /\ i - 1 \in Nat /\ mask(a) = keystream_at(k, i - 1)
        /\ j \in Nat /\ j - 1 \in Nat /\ mask(b) = keystream_at(l, j - 1)
    BY <2>2, <2>4, MaskOfWord
  <2>8. keystream_at(k, i - 1) = keystream_at(l, j - 1)
    BY <1>1, <2>7
  <2> HIDE DEF k, l
  <2>9. k = l /\ i - 1 = j - 1
    BY <2>6, <2>7, <2>8, KeystreamPlaces
  <2>10. m = n
    BY <2>5, <2>6, <2>9 DEF Laws, NumberLaws
  <2>11. i = j
    BY <2>7, <2>9
  <2> QED
    BY <2>2, <2>4, <2>10, <2>11
<1> QED
  BY <1>1 DEF KeystreamNotReused

\* No two words ever sent are hidden by the same element: not in one envelope,
\* not in two of one pair, in either direction, and not across rotations.
THEOREM MasksNotReused ==
  ASSUME NEW F, NEW P, NEW K, Laws(F, P, K)
  PROVE  Spec => []KeystreamNotReused
<1>1. KeysKnown /\ MailSealed(F, P) => KeystreamNotReused
  BY MasksDiffer
<1> QED
  BY <1>1, MailInvariant, PTL

-----------------------------------------------------------------------------
(* What an account may be handed: fields of envelopes that were posted, or  *)
(* of odd ones.                                                             *)

Plausible(F, P, e) ==
    /\ e \in TextEnvelope(F, P)
    /\ e.sender_pk.point \in Senders
    /\ \/ \E n \in DOMAIN mail : e.mac_tag = mail[n].envelope.mac_tag
       \/ \E d \in OddEnvelopes : e.mac_tag = d.mac_tag

LEMMA PlausibleGiven ==
  ASSUME NEW F, NEW P, NEW K, Laws(F, P, K), MailSealed(F, P),
         NEW e \in Posted \cup OddEnvelopes
  PROVE  Plausible(F, P, e)
<1>1. CASE e \in Posted
  <2>1. PICK n \in DOMAIN mail : e = mail[n].envelope
    BY <1>1 DEF Posted
  <2>2. /\ e \in TextEnvelope(F, P) /\ mail[n].from \in KeyNames
        /\ e.sender_pk = text_of(KeyOf(mail[n].from))
    BY <2>1, LetterFields
  <2>3. e.sender_pk.point \in Senders
    BY <2>2, SharedPoints DEF Senders, text_of
  <2> QED
    BY <2>1, <2>2, <2>3 DEF Plausible
<1>2. CASE e \in OddEnvelopes
  <2>1. e \in TextEnvelope(F, P)
    BY <1>2 DEF Laws, InputLaws
  <2>2. e.sender_pk.point \in Senders
    BY <1>2 DEF Senders
  <2> QED
    BY <1>2, <2>1, <2>2 DEF Plausible
<1> QED
  BY <1>1, <1>2

\* An envelope with a field of another.
WithField(e, f, d) == [e EXCEPT ![f] = d[f]]

LEMMA PlausibleMixed ==
  ASSUME NEW F, NEW P, NEW e, NEW d, Plausible(F, P, e), Plausible(F, P, d),
         NEW f \in DOMAIN e
  PROVE  Plausible(F, P, WithField(e, f, d))
<1> DEFINE x == WithField(e, f, d)
<1>1. e \in TextEnvelope(F, P) /\ d \in TextEnvelope(F, P)
  BY DEF Plausible
<1>2. DOMAIN e = {"sender_pk", "recipient_pk", "envelope_id", "encoding_id", "ciphertext", "mac_tag"}
  BY <1>1 DEF TextEnvelope
<1>3. /\ x = [g \in DOMAIN e |-> IF g = f THEN d[g] ELSE e[g]]
      /\ \A g \in DOMAIN e : x[g] \in {e[g], d[g]}
  BY <1>1 DEF TextEnvelope, WithField
<1> HIDE DEF x
<1>4. /\ x.sender_pk \in {e.sender_pk, d.sender_pk}
      /\ x.recipient_pk \in {e.recipient_pk, d.recipient_pk}
      /\ x.envelope_id \in {e.envelope_id, d.envelope_id}
      /\ x.encoding_id \in {e.encoding_id, d.encoding_id}
      /\ x.ciphertext \in {e.ciphertext, d.ciphertext}
      /\ x.mac_tag \in {e.mac_tag, d.mac_tag}
  BY <1>2, <1>3
<1>5. x = [sender_pk |-> x.sender_pk, recipient_pk |-> x.recipient_pk,
           envelope_id |-> x.envelope_id, encoding_id |-> x.encoding_id,
           ciphertext |-> x.ciphertext, mac_tag |-> x.mac_tag]
  BY <1>2, <1>3
<1>6. x \in TextEnvelope(F, P)
  BY <1>1, <1>4, <1>5 DEF TextEnvelope
<1>7. x.sender_pk.point \in Senders
  BY <1>4 DEF Plausible
<1> QED
  BY <1>4, <1>6, <1>7 DEF Plausible, x

\* Another shape.
LEMMA PlausibleReshaped ==
  ASSUME NEW F, NEW P, NEW e, Plausible(F, P, e), e.ciphertext # <<>>,
         e.recipient_pk.point \in Senders, NEW x \in Reshaped(e)
  PROVE  Plausible(F, P, x)
<1>1. e \in TextEnvelope(F, P)
  BY DEF Plausible
<1>2. /\ e = Envelope(e.sender_pk, e.recipient_pk, e.envelope_id, e.encoding_id,
                      e.ciphertext, e.mac_tag)
      /\ e.sender_pk \in TextPoint(P) /\ e.recipient_pk \in TextPoint(P)
      /\ e.envelope_id \in F /\ e.encoding_id \in F /\ e.ciphertext \in Seq(F) /\ e.mac_tag \in F
  BY <1>1 DEF TextEnvelope, Envelope
<1>3. CASE x = [e EXCEPT !.ciphertext = Tail(@)]
  <2>1. Tail(e.ciphertext) \in Seq(F)
    BY <1>2
  <2>2. x = Envelope(e.sender_pk, e.recipient_pk, e.envelope_id, e.encoding_id,
                     Tail(e.ciphertext), e.mac_tag)
    BY <1>2, <1>3 DEF Envelope
  <2> QED
    BY <1>2, <2>1, <2>2 DEF Plausible, TextEnvelope, Envelope
<1>4. CASE x = [e EXCEPT !.ciphertext = Append(@, e.mac_tag)]
  <2>1. Append(e.ciphertext, e.mac_tag) \in Seq(F)
    BY <1>2
  <2>2. x = Envelope(e.sender_pk, e.recipient_pk, e.envelope_id, e.encoding_id,
                     Append(e.ciphertext, e.mac_tag), e.mac_tag)
    BY <1>2, <1>4 DEF Envelope
  <2> QED
    BY <1>2, <2>1, <2>2 DEF Plausible, TextEnvelope, Envelope
<1>5. CASE x = [e EXCEPT !.recipient_pk.spelling = 1]
  <2> DEFINE r == [e.recipient_pk EXCEPT !.spelling = 1]
  <2>1. r \in TextPoint(P)
    BY <1>2 DEF TextPoint
  <2>2. x = [e EXCEPT !.recipient_pk = r]
    BY <1>5, Zenon
  <2> HIDE DEF r
  <2>3. x = Envelope(e.sender_pk, r, e.envelope_id, e.encoding_id, e.ciphertext, e.mac_tag)
    BY <1>2, <2>2 DEF Envelope
  <2> QED
    BY <1>2, <2>1, <2>3 DEF Plausible, TextEnvelope, Envelope
<1>6. CASE x = [e EXCEPT !.sender_pk = e.recipient_pk, !.recipient_pk = e.sender_pk]
  <2>1. x = WithKeys(e, e.recipient_pk, e.sender_pk)
    BY <1>6, Zenon DEF WithKeys
  <2>2. x = Envelope(e.recipient_pk, e.sender_pk, e.envelope_id, e.encoding_id,
                     e.ciphertext, e.mac_tag)
    BY <1>2, <2>1, OtherKeys
  <2> QED
    BY <1>2, <2>2 DEF Plausible, TextEnvelope, Envelope
<1> QED
  BY <1>3, <1>4, <1>5, <1>6, Zenon DEF Reshaped

LEMMA ReceivedPlausible ==
  ASSUME NEW F, NEW P, NEW K, Laws(F, P, K), MailSealed(F, P), NEW x \in Received
  PROVE  Plausible(F, P, x)
<1>1. PICK e \in Posted : x \in Mixed(e, Posted \cup OddEnvelopes) \cup Reshaped(e)
  BY DEF Received
<1>2. Plausible(F, P, e)
  BY PlausibleGiven
<1>3. CASE x \in Mixed(e, Posted \cup OddEnvelopes)
  <2>1. PICK f \in DOMAIN e, d \in Posted \cup OddEnvelopes : x = WithField(e, f, d)
    BY <1>3 DEF Mixed, WithField
  <2>2. Plausible(F, P, d)
    BY PlausibleGiven
  <2> QED
    BY <1>2, <2>1, <2>2, PlausibleMixed
<1>4. CASE x \in Reshaped(e)
  <2>1. PICK n \in DOMAIN mail : e = mail[n].envelope
    BY DEF Posted
  <2>2. mail[n].to \in KeyNames /\ e.recipient_pk = text_of(KeyOf(mail[n].to))
    BY <2>1, LetterFields
  <2>3. e.recipient_pk.point \in Senders
    BY <2>2, SharedPoints DEF Senders, text_of
  <2>4. e.ciphertext # <<>>
    <3> DEFINE s == mail[n].payload.stream
               key == envelope_key(CIPHER_ROLE, SharedOf(mail[n]), field(n))
    <3>1. s \in Seq(F) /\ s # <<>> /\ e.ciphertext = encrypt(key, s)
      BY <2>1, LetterFields DEF Payload
    <3> HIDE DEF s, key
    <3>2. Len(encrypt(key, s)) = Len(s)
      BY <3>1, EncryptLength
    <3>3. Len(s) # 0
      BY <3>1
    <3> QED
      BY <3>1, <3>2, <3>3
  <2> QED
    BY <1>2, <1>4, <2>3, <2>4, PlausibleReshaped
<1> QED
  BY <1>1, <1>3, <1>4

-----------------------------------------------------------------------------
(* Opening.                                                                 *)

\* A tag that verifies was made by seal: under the same shared point, for the
\* same id, encoding and ciphertext.
LEMMA TagOrigin ==
  ASSUME NEW F, NEW P, NEW K, Laws(F, P, K), MailSealed(F, P),
         NEW shared \in P, NEW id \in F, NEW encoding \in F, NEW ct \in Seq(F),
         NEW n \in DOMAIN mail,
         mac(envelope_key(MAC_ROLE, shared, id), mac_input(encoding, ct))
             = mail[n].envelope.mac_tag
  PROVE  /\ shared = SharedOf(mail[n]) /\ id = field(n)
         /\ encoding = mail[n].envelope.encoding_id /\ ct = mail[n].envelope.ciphertext
<1> DEFINE e == mail[n].envelope
           key == envelope_key(MAC_ROLE, shared, id)
           other == envelope_key(MAC_ROLE, SharedOf(mail[n]), field(n))
<1>1. /\ SharedOf(mail[n]) \in P /\ field(n) \in F /\ e \in TextEnvelope(F, P)
      /\ e.mac_tag = mac(other, mac_input(e.encoding_id, e.ciphertext))
  BY LetterFields
<1>2. e.encoding_id \in F /\ e.ciphertext \in Seq(F)
  BY <1>1 DEF TextEnvelope
<1>3. /\ key \in F /\ other \in F
      /\ key = other => shared = SharedOf(mail[n]) /\ id = field(n)
  BY <1>1, EnvelopeKeys
<1> HIDE DEF e, key, other
<1>4. mac(key, mac_input(encoding, ct)) = mac(other, mac_input(e.encoding_id, e.ciphertext))
  BY <1>1 DEF e, key
<1>5. key = other /\ encoding = e.encoding_id /\ ct = e.ciphertext
  BY <1>2, <1>3, <1>4, MacInjective
<1> QED
  BY <1>3, <1>5 DEF e

\* The two sides of ECDH agree, and only they.
LEMMA Ecdh ==
  /\ \A k, l \in KeyNames : mul(SecretOf(k), KeyOf(l)) = mul(SecretOf(l), KeyOf(k))
  /\ \A k, l, r \in KeyNames, p \in Senders :
        mul(SecretOf(r), p) = mul(SecretOf(k), KeyOf(l))
            => {p, KeyOf(r)} = {KeyOf(k), KeyOf(l)}
  BY MailboxAssumption DEF SecretOf, KeyOf

\* Two keys share the point of a letter exactly if they are its two keys.
LEMMA SharedPair ==
  ASSUME NEW k \in KeyNames, NEW p \in Senders, NEW m, m.from \in KeyNames, m.to \in KeyNames
  PROVE  mul(SecretOf(k), p) = SharedOf(m)
             <=> {p, KeyOf(k)} = {KeyOf(m.from), KeyOf(m.to)}
<1>1. ASSUME NEW i \in KeyNames, NEW j \in KeyNames
      PROVE  mul(SecretOf(i), KeyOf(j)) = mul(SecretOf(j), KeyOf(i))
  BY Ecdh
<1>2. ASSUME mul(SecretOf(k), p) = SharedOf(m)
      PROVE  {p, KeyOf(k)} = {KeyOf(m.from), KeyOf(m.to)}
  BY <1>2, Ecdh DEF SharedOf
<1>3. ASSUME {p, KeyOf(k)} = {KeyOf(m.from), KeyOf(m.to)}
      PROVE  mul(SecretOf(k), p) = SharedOf(m)
  <2>1. \/ p = KeyOf(m.from) /\ KeyOf(k) = KeyOf(m.to)
        \/ p = KeyOf(m.to) /\ KeyOf(k) = KeyOf(m.from)
    BY <1>3
  <2>2. CASE p = KeyOf(m.from) /\ KeyOf(k) = KeyOf(m.to)
    <3>1. mul(SecretOf(k), KeyOf(m.from)) = mul(SecretOf(m.from), KeyOf(k))
      BY <1>1
    <3> QED
      BY <2>2, <3>1 DEF SharedOf
  <2>3. CASE p = KeyOf(m.to) /\ KeyOf(k) = KeyOf(m.from)
    <3>1. mul(SecretOf(k), KeyOf(m.to)) = mul(SecretOf(m.to), KeyOf(k))
      BY <1>1
    <3>2. mul(SecretOf(m.to), KeyOf(m.from)) = mul(SecretOf(m.from), KeyOf(m.to))
      BY <1>1
    <3> QED
      BY <2>3, <3>1, <3>2 DEF SharedOf
  <2> QED
    BY <2>1, <2>2, <2>3
<1> QED
  BY <1>2, <1>3

\* The letters an envelope may be read as.
Origins(e) == {n \in DOMAIN mail : SameSeal(mail[n].envelope, e)}

\* For the holder of its recipient key an envelope opens exactly if it carries
\* a seal, and then to what was sealed.
LEMMA OpensSealed ==
  ASSUME NEW F, NEW P, NEW K, Laws(F, P, K), MailSealed(F, P),
         NEW k \in KeyNames, NEW e, Plausible(F, P, e), e.recipient_pk.point = KeyOf(k),
         NEW reply, reply = open_with(mul(SecretOf(k), e.sender_pk.point), FromTexts(e))
  PROVE  /\ reply.ok <=> Origins(e) # {}
         /\ reply.ok => \A n \in Origins(e) : reply.value = mail[n].payload
<1> DEFINE p == e.sender_pk.point
           shared == mul(SecretOf(k), p)
           key_enc == envelope_key(CIPHER_ROLE, shared, e.envelope_id)
           fits == mac(envelope_key(MAC_ROLE, shared, e.envelope_id),
                       mac_input(e.encoding_id, e.ciphertext)) = e.mac_tag
<1>1. /\ e.envelope_id \in F /\ e.encoding_id \in F /\ e.ciphertext \in Seq(F)
      /\ p \in P /\ p \in Senders
  BY DEF Plausible, TextEnvelope, TextPoint
<1>2. shared \in P
  BY <1>1, SharedPoints
<1>3. /\ FromTexts(e).envelope_id = e.envelope_id /\ FromTexts(e).encoding_id = e.encoding_id
      /\ FromTexts(e).ciphertext = e.ciphertext /\ FromTexts(e).mac_tag = e.mac_tag
  BY DEF FromTexts, Plausible, TextEnvelope
<1>4. /\ reply.ok <=> fits
      /\ reply.ok => reply.value = [encoding_id |-> e.encoding_id,
                                    stream |-> decrypt(key_enc, e.ciphertext)]
  BY <1>3 DEF open_with, mac_verify, Ok, Err
<1> HIDE DEF p, shared
<1>5. ASSUME fits PROVE Origins(e) # {}
  <2>1. PICK n \in DOMAIN mail : e.mac_tag = mail[n].envelope.mac_tag
    <3> SUFFICES ASSUME NEW d \in OddEnvelopes, e.mac_tag = d.mac_tag PROVE FALSE
      BY DEF Plausible
    <3>1. envelope_key(MAC_ROLE, shared, e.envelope_id) \in F
      BY <1>1, <1>2, EnvelopeKeys
    <3>2. PICK x \in Seq(F) : e.mac_tag = sponge(tag_of("mac"), x)
      BY <1>1, <1>5, <3>1, MacTyped
    <3>3. tag_of("mac") \in F
      BY DEF Laws, NumberLaws, Tags
    <3> QED
      BY <3>2, <3>3 DEF Laws, InputLaws
  <2>2. /\ shared = SharedOf(mail[n]) /\ e.envelope_id = field(n)
        /\ e.encoding_id = mail[n].envelope.encoding_id
        /\ e.ciphertext = mail[n].envelope.ciphertext
    <3>1. mac(envelope_key(MAC_ROLE, shared, e.envelope_id),
              mac_input(e.encoding_id, e.ciphertext)) = mail[n].envelope.mac_tag
      BY <1>5, <2>1
    <3> HIDE DEF fits, key_enc
    <3> QED
      BY <1>1, <1>2, <3>1, TagOrigin
  <2>3. /\ mail[n].from \in KeyNames /\ mail[n].to \in KeyNames
        /\ mail[n].envelope.sender_pk = text_of(KeyOf(mail[n].from))
        /\ mail[n].envelope.recipient_pk = text_of(KeyOf(mail[n].to))
        /\ mail[n].envelope.envelope_id = field(n)
    BY LetterFields
  <2>4. {p, KeyOf(k)} = {KeyOf(mail[n].from), KeyOf(mail[n].to)}
    BY <1>1, <2>2, <2>3, SharedPair DEF shared
  <2>5. SameSeal(mail[n].envelope, e)
    BY <2>1, <2>2, <2>3, <2>4 DEF SameSeal, text_of, p
  <2> QED
    BY <2>5 DEF Origins
<1>6. ASSUME NEW n \in Origins(e)
      PROVE  fits /\ [encoding_id |-> e.encoding_id, stream |-> decrypt(key_enc, e.ciphertext)]
                         = mail[n].payload
  <2> DEFINE m == mail[n]
             d == m.envelope
  <2>1. n \in DOMAIN mail /\ SameSeal(d, e)
    BY DEF Origins
  <2>2. /\ m.from \in KeyNames /\ m.to \in KeyNames /\ m.payload \in Payload(F)
        /\ d.sender_pk = text_of(KeyOf(m.from)) /\ d.recipient_pk = text_of(KeyOf(m.to))
        /\ d.envelope_id = field(n) /\ d.encoding_id = m.payload.encoding_id
        /\ d.ciphertext = encrypt(envelope_key(CIPHER_ROLE, SharedOf(m), field(n)),
                                  m.payload.stream)
        /\ d.mac_tag = mac(envelope_key(MAC_ROLE, SharedOf(m), field(n)),
                           mac_input(d.encoding_id, d.ciphertext))
    BY <2>1, LetterFields
  <2>3. /\ {d.sender_pk.point, d.recipient_pk.point} = {p, KeyOf(k)}
        /\ d.envelope_id = e.envelope_id /\ d.encoding_id = e.encoding_id
        /\ d.ciphertext = e.ciphertext /\ d.mac_tag = e.mac_tag
    BY <2>1 DEF SameSeal, p
  <2> HIDE DEF m, d
  <2>4. shared = SharedOf(m)
    <3>1. {p, KeyOf(k)} = {KeyOf(m.from), KeyOf(m.to)}
      BY <2>2, <2>3 DEF text_of
    <3> QED
      BY <1>1, <2>2, <3>1, SharedPair DEF shared
  <2>5. fits
    BY <2>2, <2>3, <2>4
  <2>6. m.payload.stream \in Seq(F)
    BY <2>2 DEF Payload
  <2>7. key_enc \in F
    BY <1>1, <1>2, EnvelopeKeys
  <2>8. e.ciphertext = encrypt(key_enc, m.payload.stream)
    BY <2>2, <2>3, <2>4
  <2> HIDE DEF key_enc
  <2>9. decrypt(key_enc, e.ciphertext) = m.payload.stream
    BY <2>6, <2>7, <2>8, CipherTyped
  <2>10. m.payload = [encoding_id |-> m.payload.encoding_id, stream |-> m.payload.stream]
    BY <2>2 DEF Payload
  <2> QED
    BY <2>2, <2>3, <2>5, <2>9, <2>10 DEF m
<1> QED
  BY <1>4, <1>5, <1>6

\* FromTexts, field by field.
LEMMA PointsOfTexts ==
  ASSUME NEW F, NEW P, NEW e \in TextEnvelope(F, P)
  PROVE  FromTexts(e) = Envelope(e.sender_pk.point, e.recipient_pk.point, e.envelope_id,
                                 e.encoding_id, e.ciphertext, e.mac_tag)
<1>1. e = Envelope(e.sender_pk, e.recipient_pk, e.envelope_id, e.encoding_id,
                   e.ciphertext, e.mac_tag)
  BY DEF TextEnvelope, Envelope
<1>2. FromTexts(e) = WithKeys(e, e.sender_pk.point, e.recipient_pk.point)
  BY DEF FromTexts, WithKeys
<1> QED
  BY <1>1, <1>2, OtherKeys

\* envelope.rs, open, on a decoded envelope.
LEMMA OpensNative ==
  ASSUME NEW F, NEW P, NEW K, Laws(F, P, K), MailSealed(F, P),
         NEW k \in KeyNames, NEW e, Plausible(F, P, e),
         NEW reply, reply = open(SecretOf(k), KeyOf(k), FromTexts(e))
  PROVE  /\ reply.ok <=> e.recipient_pk.point = KeyOf(k) /\ Origins(e) # {}
         /\ reply.ok => \A n \in Origins(e) : reply.value = mail[n].payload
<1>1. /\ FromTexts(e).recipient_pk = e.recipient_pk.point
      /\ FromTexts(e).sender_pk = e.sender_pk.point
  BY PointsOfTexts DEF Plausible, Envelope
<1>2. CASE e.recipient_pk.point = KeyOf(k)
  <2>1. reply = open_with(mul(SecretOf(k), e.sender_pk.point), FromTexts(e))
    BY <1>1, <1>2 DEF open
  <2> QED
    BY <1>2, <2>1, OpensSealed
<1>3. CASE e.recipient_pk.point # KeyOf(k)
  BY <1>1, <1>3 DEF open, Err
<1> QED
  BY <1>2, <1>3

\* suite.ts, open, on texts: also the spelling of the recipient must be right.
LEMMA OpensTexts ==
  ASSUME NEW F, NEW P, NEW K, Laws(F, P, K), MailSealed(F, P),
         NEW k \in KeyNames, NEW e, Plausible(F, P, e),
         NEW reply, reply = open_texts(SecretOf(k), text_of(KeyOf(k)), e)
  PROVE  /\ reply.ok <=> /\ e.recipient_pk.point = KeyOf(k) /\ e.recipient_pk.spelling = 0
                         /\ Origins(e) # {}
         /\ reply.ok => \A n \in Origins(e) : reply.value = mail[n].payload
<1>1. e.recipient_pk = text_of(KeyOf(k))
        <=> e.recipient_pk.point = KeyOf(k) /\ e.recipient_pk.spelling = 0
  BY DEF Plausible, TextEnvelope, TextPoint, text_of
<1>2. CASE e.recipient_pk # text_of(KeyOf(k))
  BY <1>1, <1>2 DEF open_texts, Err
<1>3. CASE e.recipient_pk = text_of(KeyOf(k)) /\ e.sender_pk.point \notin ValidPoints
  <2>1. ~reply.ok
    BY <1>3 DEF open_texts, Err
  <2>2. ASSUME NEW n \in Origins(e) PROVE FALSE
    <3>1. /\ n \in DOMAIN mail
          /\ e.sender_pk.point \in {mail[n].envelope.sender_pk.point,
                                    mail[n].envelope.recipient_pk.point}
      BY DEF Origins, SameSeal
    <3>2. /\ mail[n].from \in KeyNames /\ mail[n].to \in KeyNames
          /\ mail[n].envelope.sender_pk = text_of(KeyOf(mail[n].from))
          /\ mail[n].envelope.recipient_pk = text_of(KeyOf(mail[n].to))
      BY <3>1, LetterFields
    <3>3. e.sender_pk.point \in PublicKeys
      BY <3>1, <3>2, SharedPoints DEF text_of
    <3> QED
      BY <1>3, <3>3, MailboxAssumption
  <2> QED
    BY <2>1, <2>2
<1>4. CASE e.recipient_pk = text_of(KeyOf(k)) /\ e.sender_pk.point \in ValidPoints
  <2>1. reply = open_with(mul(SecretOf(k), e.sender_pk.point), FromTexts(e))
    BY <1>4 DEF open_texts
  <2> QED
    BY <1>1, <1>4, <2>1, OpensSealed
<1> QED
  BY <1>2, <1>3, <1>4

\* The copy of seal in the circuit crate seals as the protocol crate does.
LEMMA SealsAlike ==
  ASSUME NEW F, NEW P, NEW K, Laws(F, P, K), MailSealed(F, P), NEW n \in DOMAIN mail
  PROVE  LET m == mail[n]
             e == FromTexts(m.envelope)
         IN  protocol_envelope_seal(Secret(m.from[1], m.from[2]), e.sender_pk, e.recipient_pk,
                 e.envelope_id, m.payload.encoding_id, m.payload.stream) = e
<1> DEFINE m == mail[n]
           d == m.envelope
           e == FromTexts(d)
           ct == encrypt(envelope_key(CIPHER_ROLE, SharedOf(m), field(n)), m.payload.stream)
           tag == mac(envelope_key(MAC_ROLE, SharedOf(m), field(n)),
                      mac_input(m.payload.encoding_id, ct))
<1>1. /\ d \in TextEnvelope(F, P)
      /\ d.sender_pk = text_of(KeyOf(m.from)) /\ d.recipient_pk = text_of(KeyOf(m.to))
      /\ d.envelope_id = field(n) /\ d.encoding_id = m.payload.encoding_id
      /\ d.ciphertext = ct /\ d.mac_tag = tag
  BY LetterFields
<1> HIDE DEF d, ct, tag
<1>2. e = Envelope(KeyOf(m.from), KeyOf(m.to), field(n), m.payload.encoding_id, ct, tag)
  BY <1>1, PointsOfTexts DEF text_of
<1>3. protocol_envelope_seal(SecretOf(m.from), KeyOf(m.from), KeyOf(m.to), field(n),
                             m.payload.encoding_id, m.payload.stream)
        = Envelope(KeyOf(m.from), KeyOf(m.to), field(n), m.payload.encoding_id, ct, tag)
  BY DEF protocol_envelope_seal, Envelope, SharedOf, envelope_key, mac_input, ct, tag
<1>4. /\ e.sender_pk = KeyOf(m.from) /\ e.recipient_pk = KeyOf(m.to)
      /\ e.envelope_id = field(n)
  BY <1>2 DEF Envelope
<1> HIDE DEF e, m
<1>5. protocol_envelope_seal(SecretOf(m.from), e.sender_pk, e.recipient_pk, e.envelope_id,
                             m.payload.encoding_id, m.payload.stream) = e
  BY <1>2, <1>3, <1>4
<1> QED
  BY <1>5 DEF SecretOf, d, e, m

\* What is right of a call of open.
OpenedRight(c) ==
    LET e == c.envelope
        canonical == c.op = "open_texts" => e.recipient_pk.spelling = 0
    IN  /\ c.reply.ok <=> IsFor(e, c.reader) /\ canonical /\ Origins(e) # {}
        /\ c.reply.ok => \A n \in Origins(e) : c.reply.value = mail[n].payload

LEMMA OpenInAppRight ==
  ASSUME NEW F, NEW P, NEW K, Laws(F, P, K), KeysKnown, MailSealed(F, P),
         NEW a \in Accounts, OpenInApp(a)
  PROVE  OpenedRight(call')
<1> DEFINE k == <<a, keys[a]>>
<1>1. PICK e \in Received :
        call' = [op |-> "open_texts", reader |-> k, envelope |-> e,
                 reply |-> open_texts(Secret(a, keys[a]), text_of(public_key(a, keys[a])), e)]
  BY DEF OpenInApp
<1>2. keys[a] \in 1..keys[a]
  BY DEF OpenInApp, KeysKnown
<1>3. /\ k \in KeyNames /\ SecretOf(k) = Secret(a, keys[a])
      /\ KeyOf(k) = public_key(a, keys[a])
  BY <1>2, KeyHeld
<1>4. Plausible(F, P, e)
  BY ReceivedPlausible
<1> HIDE DEF k
<1> DEFINE reply == open_texts(SecretOf(k), text_of(KeyOf(k)), e)
<1>5. /\ reply.ok <=> /\ e.recipient_pk.point = KeyOf(k) /\ e.recipient_pk.spelling = 0
                      /\ Origins(e) # {}
      /\ reply.ok => \A n \in Origins(e) : reply.value = mail[n].payload
  BY <1>3, <1>4, OpensTexts
<1>6. call' = [op |-> "open_texts", reader |-> k, envelope |-> e, reply |-> reply]
  BY <1>1, <1>3
<1> HIDE DEF reply
<1> QED
  BY <1>5, <1>6 DEF OpenedRight, IsFor, KeyOf

LEMMA OpenNativeRight ==
  ASSUME NEW F, NEW P, NEW K, Laws(F, P, K), KeysKnown, MailSealed(F, P),
         NEW a \in Accounts, OpenNative(a)
  PROVE  OpenedRight(call')
<1>1. PICK v \in Versions(a), e \in Received :
        call' = [op |-> "open", reader |-> <<a, v>>, envelope |-> e,
                 reply |-> open(Secret(a, v), public_key(a, v), FromTexts(e))]
  BY DEF OpenNative
<1> DEFINE k == <<a, v>>
<1>2. /\ k \in KeyNames /\ SecretOf(k) = Secret(a, v) /\ KeyOf(k) = public_key(a, v)
  BY KeyHeld DEF Versions
<1>3. Plausible(F, P, e)
  BY ReceivedPlausible
<1> HIDE DEF k
<1> DEFINE reply == open(SecretOf(k), KeyOf(k), FromTexts(e))
<1>4. /\ reply.ok <=> e.recipient_pk.point = KeyOf(k) /\ Origins(e) # {}
      /\ reply.ok => \A n \in Origins(e) : reply.value = mail[n].payload
  BY <1>2, <1>3, OpensNative
<1>5. call' = [op |-> "open", reader |-> k, envelope |-> e, reply |-> reply]
  BY <1>1, <1>2 DEF k
<1> HIDE DEF reply
<1> QED
  BY <1>4, <1>5 DEF OpenedRight, IsFor, KeyOf

\* The calls a step may leave.
LEMMA CallCases ==
  ASSUME [Next]_vars
  PROVE  \/ call' = call /\ UNCHANGED mail
         \/ call = NoCall /\ call' = NoCall
         \/ \E a \in Accounts : OpenInApp(a) \/ OpenNative(a)
         \/ call'.op \in {"prove_route", "prove_wasm", "setup", "verify", "none"} /\ UNCHANGED mail
<1>1. CASE UNCHANGED vars
  BY <1>1 DEF vars
<1>2. CASE \E a \in Accounts : Register(a) \/ OpenInApp(a) \/ OpenNative(a)
  BY <1>2 DEF Register
<1>3. CASE \E a, b \in Accounts, payload \in Payloads : Send(a, b, payload)
  BY <1>3 DEF Send, Idle
<1>4. CASE \E circuit \in Circuits :
             ProveOnServer(circuit) \/ ProveInBrowser(circuit) \/ Setup(circuit)
  <2>1. PICK circuit \in Circuits :
          ProveOnServer(circuit) \/ ProveInBrowser(circuit) \/ Setup(circuit)
    BY <1>4
  <2>2. CASE ProveOnServer(circuit)
    BY <2>2 DEF ProveOnServer, Proves
  <2>3. CASE ProveInBrowser(circuit)
    BY <2>3 DEF ProveInBrowser, Proves
  <2>4. CASE Setup(circuit)
    BY <2>4 DEF Setup
  <2> QED
    BY <2>1, <2>2, <2>3, <2>4
<1>5. CASE ProveThroughClient
  BY <1>5 DEF ProveThroughClient, Proves
<1>6. CASE VerifyOnServer \/ VerifyInBrowser \/ VerifyOnChain
  BY <1>6 DEF VerifyOnServer, VerifyInBrowser, VerifyOnChain, Verifies
<1>7. CASE Returned
  BY <1>7 DEF Returned, NoCall
<1> QED
  BY <1>1, <1>2, <1>3, <1>4, <1>5, <1>6, <1>7 DEF Next

OpenCallRight == call.op \in {"open", "open_texts"} => OpenedRight(call)

LEMMA OpenCallStep ==
  ASSUME NEW F, NEW P, NEW K, Laws(F, P, K), KeysKnown, MailSealed(F, P),
         OpenCallRight, [Next]_vars
  PROVE  OpenCallRight'
<1>1. CASE call' = call /\ UNCHANGED mail
  BY <1>1 DEF OpenCallRight, OpenedRight, Origins
<1>2. CASE \E a \in Accounts : OpenInApp(a) \/ OpenNative(a)
  <2>1. OpenedRight(call')
    BY <1>2, OpenInAppRight, OpenNativeRight
  <2>2. UNCHANGED mail
    BY <1>2 DEF OpenInApp, OpenNative
  <2> QED
    BY <2>1, <2>2 DEF OpenCallRight, OpenedRight, Origins
<1>3. CASE call' = NoCall
  BY <1>3 DEF OpenCallRight, NoCall
<1>4. CASE call'.op \in {"prove_route", "prove_wasm", "setup", "verify", "none"}
  BY <1>4 DEF OpenCallRight
<1> QED
  BY <1>1, <1>2, <1>3, <1>4, CallCases

LEMMA OpenRightImplies ==
  ASSUME NEW F, NEW P, NEW K, Laws(F, P, K), MailSealed(F, P), OpenCallRight
  PROVE  OpensToSealed
<1>1. call.op \in {"open", "open_texts"} =>
        LET e == call.envelope
            origins == {n \in DOMAIN mail : SameSeal(mail[n].envelope, e)}
            canonical == call.op = "open_texts" => e.recipient_pk.spelling = 0
        IN  /\ call.reply.ok <=> IsFor(e, call.reader) /\ canonical /\ origins # {}
            /\ call.reply.ok => \A n \in origins : call.reply.value = mail[n].payload
  BY DEF OpenCallRight, OpenedRight, Origins
<1>2. \A n \in DOMAIN mail :
        LET m == mail[n]
            e == FromTexts(m.envelope)
        IN  protocol_envelope_seal(Secret(m.from[1], m.from[2]), e.sender_pk, e.recipient_pk,
                e.envelope_id, m.payload.encoding_id, m.payload.stream) = e
  BY SealsAlike
<1> QED
  BY <1>1, <1>2, Zenon DEF OpensToSealed

\* An envelope opens for the holder of its recipient key if it carries what one
\* of its two keys sealed for the other, and then to that payload; whatever else
\* was altered makes it fail. For any accounts, payloads and rotations.
THEOREM OpensWhatWasSealed ==
  ASSUME NEW F, NEW P, NEW K, Laws(F, P, K)
  PROVE  Spec => []OpensToSealed
<1>1. Init => OpenCallRight
  BY DEF Init, NoCall, OpenCallRight
<1>2. KeysKnown /\ MailSealed(F, P) /\ OpenCallRight /\ [Next]_vars => OpenCallRight'
  BY OpenCallStep
<1>3. MailSealed(F, P) /\ OpenCallRight => OpensToSealed
  BY OpenRightImplies
<1> QED
  BY <1>1, <1>2, <1>3, MailInvariant, PTL DEF Spec

-----------------------------------------------------------------------------
(* The circuits.                                                            *)

LEMMA Gadgets ==
  ASSUME NEW P, NEW K, CircuitLaws(P, K)
  PROVE  /\ \A role, p, id : envelope_key_var(role, p, id) = envelope_key(role, p, id)
         /\ \A key, x : mac_var(key, x) = mac(key, x)
         /\ \A key, c : decrypt_var(key, c) = decrypt(key, c)
<1>1. \A role, p, id : envelope_key_var(role, p, id) = envelope_key(role, p, id)
  BY DEF CircuitLaws, envelope_key_var, kdf_derive_var, envelope_key, kdf_derive
<1>2. \A key, x : mac_var(key, x) = mac(key, x)
  BY DEF CircuitLaws, mac_var, mac
<1>3. ASSUME NEW key, NEW c PROVE decrypt_var(key, c) = decrypt(key, c)
  <2>1. \A i : keystream_at_var(key, i) = keystream_at(key, i)
    BY DEF CircuitLaws, keystream_at_var, keystream_at
  <2> QED
    BY <2>1 DEF decrypt_var, decrypt
<1> QED
  BY <1>1, <1>2, <1>3

\* What the circuit of an envelope states, by its fields.
EnvelopeFacts(public, sk, s, r, id, encoding, ct, tag) ==
    /\ mul(sk, generator) = r
    /\ mac(envelope_key(MAC_ROLE, mul(sk, s), id), mac_input(encoding, ct)) = tag
    /\ decrypt(envelope_key(CIPHER_ROLE, mul(sk, s), id), ct)[POSITION] = public[2]
    /\ sponge(tag_of(SIGNAL_DOMAIN),
              coords(s) \o coords(r) \o <<id, encoding, tag>> \o ct) = public[1]

\* With one secret in both places the constraints state just that.
LEMMA EnvelopeRelation ==
  ASSUME NEW P, NEW K, CircuitLaws(P, K), NEW public, NEW sk, NEW e
  PROVE  envelope_open_at_0(public, assign_envelope(sk, e))
             <=> EnvelopeFacts(public, sk, e.sender_pk, e.recipient_pk, e.envelope_id,
                               e.encoding_id, e.ciphertext, e.mac_tag)
<1> DEFINE w == assign_envelope(sk, e)
<1>1. w.pk_scalar = sk /\ w.ecdh_scalar = sk /\ w.envelope = e
  BY DEF assign_envelope
<1> HIDE DEF w
<1>2. sponge_var(tag_of(SIGNAL_DOMAIN), signal_inputs(e))
        = sponge(tag_of(SIGNAL_DOMAIN), signal_inputs(e))
  BY DEF CircuitLaws
<1>3. envelope_open_at_0(public, w)
        <=> EnvelopeFacts(public, sk, e.sender_pk, e.recipient_pk, e.envelope_id,
                          e.encoding_id, e.ciphertext, e.mac_tag)
  BY <1>1, <1>2, Gadgets DEF envelope_open_at_0, EnvelopeFacts, signal_inputs
<1> QED
  BY <1>3 DEF w

\* What a prover's envelope states is that the secret opens it to the claim,
\* and that it has the signal.
LEMMA EnvelopeProves ==
  ASSUME NEW P, NEW K, CircuitLaws(P, K), NEW i, envelope_try_from(i).ok
  PROVE  LET instance == envelope_try_from(i).value
         IN  /\ instance.public = <<i.signal, i.claimed_value>>
             /\ envelope_open_at_0(instance.public, instance.w)
                    <=> EnvelopeFacts(instance.public, i.recipient_sk, i.sender_pk,
                            i.recipient_pk, i.envelope_id, i.encoding_id, i.ciphertext, i.mac_tag)
             /\ envelope_open_at_0(instance.public, instance.w) <=> Holds("envelope_open_at_0", i)
<1> DEFINE e == [f \in {"sender_pk", "recipient_pk", "envelope_id",
                        "encoding_id", "ciphertext", "mac_tag"} |-> i[f]]
           public == <<i.signal, i.claimed_value>>
           facts == EnvelopeFacts(public, i.recipient_sk, i.sender_pk, i.recipient_pk,
                                  i.envelope_id, i.encoding_id, i.ciphertext, i.mac_tag)
<1>1. envelope_try_from(i).value = [public |-> public, w |-> assign_envelope(i.recipient_sk, e)]
  BY DEF envelope_try_from, Ok, Err
<1>2. /\ e.sender_pk = i.sender_pk /\ e.recipient_pk = i.recipient_pk
      /\ e.envelope_id = i.envelope_id /\ e.encoding_id = i.encoding_id
      /\ e.ciphertext = i.ciphertext /\ e.mac_tag = i.mac_tag
  OBVIOUS
<1> HIDE DEF e
<1>3. envelope_open_at_0(public, assign_envelope(i.recipient_sk, e)) <=> facts
  BY <1>2, EnvelopeRelation
<1>4. public[1] = i.signal /\ public[2] = i.claimed_value
  OBVIOUS
<1> HIDE DEF public
<1>5. facts <=> Holds("envelope_open_at_0", i)
  <2> DEFINE pk == mul(i.recipient_sk, generator)
             opened == open(i.recipient_sk, pk, i)
             shared == mul(i.recipient_sk, i.sender_pk)
  <2>1. Holds("envelope_open_at_0", i)
          <=> /\ opened.ok /\ opened.value.stream[1] = i.claimed_value
              /\ compute_signal_native(i) = i.signal
    BY DEF Holds
  <2>2. opened.ok <=> /\ i.recipient_pk = pk
                      /\ mac(envelope_key(MAC_ROLE, shared, i.envelope_id),
                             mac_input(i.encoding_id, i.ciphertext)) = i.mac_tag
    BY DEF open, open_with, mac_verify, Ok, Err
  <2>3. opened.ok => opened.value.stream
                        = decrypt(envelope_key(CIPHER_ROLE, shared, i.envelope_id), i.ciphertext)
    BY DEF open, open_with, mac_verify, Ok, Err
  <2>4. compute_signal_native(i) = sponge(tag_of(SIGNAL_DOMAIN), coords(i.sender_pk)
          \o coords(i.recipient_pk) \o <<i.envelope_id, i.encoding_id, i.mac_tag>> \o i.ciphertext)
    BY DEF compute_signal_native, signal_inputs
  <2> HIDE DEF opened
  <2> QED
    BY <1>4, <2>1, <2>2, <2>3, <2>4 DEF EnvelopeFacts, POSITION
<1> QED
  BY <1>1, <1>3, <1>5 DEF public

\* The public inputs of a commitment are its coordinates, the encoding id and
\* the claimed word.
PedersenInputs(p, encoding, claimed) == coords(p) \o <<encoding, claimed>>

LEMMA PedersenPublic ==
  ASSUME NEW F, NEW P, NEW K, Laws(F, P, K), NEW p \in P, NEW encoding, NEW claimed
  PROVE  LET public == PedersenInputs(p, encoding, claimed)
         IN  /\ <<public[1], public[2]>> = coords(p)
             /\ public[3] = encoding /\ public[4] = claimed
<1> DEFINE E == F \cup {encoding, claimed}
           c == coords(p)
           d == <<encoding, claimed>>
<1>1. c \in Seq(F) /\ Len(c) = 2
  BY DEF Laws, PointLaws
<1>2. d \in Seq(E) /\ Len(d) = 2 /\ d[1] = encoding /\ d[2] = claimed
  OBVIOUS
<1>3. c \in Seq(E)
  BY <1>1
<1>4. c = <<c[1], c[2]>>
  BY <1>1
<1> HIDE DEF c, d, E
<1>5. /\ (c \o d)[1] = c[1] /\ (c \o d)[2] = c[2]
      /\ (c \o d)[3] = d[1] /\ (c \o d)[4] = d[2]
  BY <1>1, <1>2, <1>3, Paired
<1> QED
  BY <1>2, <1>4, <1>5 DEF PedersenInputs, c, d

\* What a prover's commitment states is that stream and blinding open it.
LEMMA PedersenProves ==
  ASSUME NEW F, NEW P, NEW K, Laws(F, P, K), CircuitLaws(P, K),
         NEW i, pedersen_try_from(i).ok
  PROVE  LET instance == pedersen_try_from(i).value
         IN  /\ instance.public = PedersenInputs(i.commitment, i.encoding_id, i.claimed_first_value)
             /\ pedersen_opens_to(instance.public, instance.w) <=> Holds("pedersen_opens_to", i)
<1> DEFINE public == PedersenInputs(i.commitment, i.encoding_id, i.claimed_first_value)
           w == [stream |-> i.stream, blinding |-> i.blinding]
           made == commit(<<i.encoding_id>> \o i.stream, i.blinding)
<1>1. i.commitment \in P /\ pedersen_try_from(i).value = [public |-> public, w |-> w]
  BY DEF pedersen_try_from, PedersenInputs, Ok, Err, Laws, PointLaws
<1>2. made \in P
  BY DEF CircuitLaws
<1>3. /\ <<public[1], public[2]>> = coords(i.commitment)
      /\ public[3] = i.encoding_id /\ public[4] = i.claimed_first_value
  <2>1. i.commitment \in P
    BY <1>1
  <2> QED
    BY <2>1, PedersenPublic
<1>4. made = i.commitment <=> coords(made) = coords(i.commitment)
  BY <1>1, <1>2 DEF Laws, PointLaws
<1> HIDE DEF public
<1>5. pedersen_opens_to(public, w)
        <=> coords(made) = coords(i.commitment) /\ i.stream[1] = i.claimed_first_value
  BY <1>3 DEF pedersen_opens_to, augmented_stream
<1>6. Holds("pedersen_opens_to", i)
        <=> made = i.commitment /\ i.stream[1] = i.claimed_first_value
  BY DEF Holds
<1> HIDE DEF made, w
<1> QED
  BY <1>1, <1>4, <1>5, <1>6 DEF public

\* Of inputs that parse, the constraints are satisfied exactly if the statement
\* holds natively.
LEMMA SatisfiedHolds ==
  ASSUME NEW F, NEW P, NEW K, Laws(F, P, K), CircuitLaws(P, K),
         NEW circuit \in Circuits, NEW i, try_from(circuit, i).ok
  PROVE  satisfied(circuit, try_from(circuit, i).value) <=> Holds(circuit, i)
<1>1. CASE circuit = "envelope_open_at_0"
  <2>1. try_from(circuit, i) = envelope_try_from(i)
    BY <1>1 DEF try_from
  <2>2. satisfied(circuit, try_from(circuit, i).value)
          <=> envelope_open_at_0(envelope_try_from(i).value.public, envelope_try_from(i).value.w)
    BY <1>1, <2>1 DEF satisfied
  <2> QED
    BY <1>1, <2>1, <2>2, EnvelopeProves
<1>2. CASE circuit = "pedersen_opens_to"
  <2>1. try_from(circuit, i) = pedersen_try_from(i)
    BY <1>2 DEF try_from
  <2>2. satisfied(circuit, try_from(circuit, i).value)
          <=> pedersen_opens_to(pedersen_try_from(i).value.public, pedersen_try_from(i).value.w)
    BY <1>2, <2>1 DEF satisfied
  <2> QED
    BY <1>2, <2>1, <2>2, PedersenProves
<1> QED
  BY <1>1, <1>2 DEF Circuits

-----------------------------------------------------------------------------
(* Proving.                                                                 *)

Whole(circuit, i, pk) == has_shape(circuit, i) /\ try_from(circuit, i).ok /\ pk # Torn

\* A reply is a proof that verifies exactly if it should be.
Outcome(circuit, i, pk, reply) ==
    (reply.ok /\ reply.value # junk) <=> (Whole(circuit, i, pk) /\ Holds(circuit, i))

\* groth16.rs, prove, under a key that deserialized.
LEMMA ProveOutcome ==
  ASSUME NEW circuit, NEW instance, NEW pk, pk # Torn, NEW debug \in BOOLEAN
  PROVE  LET reply == prove(circuit, instance, pk, debug)
         IN  (reply.ok /\ reply.value # junk) <=> satisfied(circuit, instance)
<1>1. CASE satisfied(circuit, instance)
  <2>1. prove(circuit, instance, pk, debug) = Ok([key |-> pk, public |-> instance.public])
    BY <1>1 DEF prove
  <2>2. [key |-> pk, public |-> instance.public] # junk
    BY DEF junk
  <2> QED
    BY <1>1, <2>1, <2>2 DEF Ok
<1>2. CASE ~satisfied(circuit, instance) /\ debug
  BY <1>2 DEF prove, Err
<1>3. CASE ~satisfied(circuit, instance) /\ ~debug
  BY <1>3 DEF prove, Ok
<1> QED
  BY <1>1, <1>2, <1>3

LEMMA Refused == \A e : ~Err(e).ok
  BY DEF Err

\* The status of an error is no reply.
LEMMA StatusErr ==
  /\ ~Status("UnknownCircuit").ok /\ ~Status("BadInputs").ok /\ ~Status("BadProofBytes").ok
  /\ ~Status("rejected JSON").ok /\ ~Status("panic").ok
<1>1. ~Status("UnknownCircuit").ok
  <2>1. Status("UnknownCircuit") = Err(404)
    BY DEF Status
  <2> QED
    BY <2>1, Refused
<1>2. ~Status("BadInputs").ok
  <2>1. Status("BadInputs") = Err(400)
    BY DEF Status
  <2> QED
    BY <2>1, Refused
<1>3. ~Status("BadProofBytes").ok
  <2>1. Status("BadProofBytes") = Err(400)
    BY DEF Status
  <2> QED
    BY <2>1, Refused
<1>4. ~Status("rejected JSON").ok
  <2>1. Status("rejected JSON") = Err(422)
    BY DEF Status
  <2> QED
    BY <2>1, Refused
<1>5. ~Status("panic").ok
  <2>1. Status("panic") = Err(0)
    BY DEF Status
  <2> QED
    BY <2>1, Refused
<1> QED
  BY <1>1, <1>2, <1>3, <1>4, <1>5

LEMMA KeysWhole ==
  ASSUME NEW circuit \in Circuits
  PROVE  /\ circuit \in DOMAIN registry
         /\ registry[circuit] # Torn
  BY DEF registry, key_pair, Torn, Circuits

\* prover-server's route.
LEMMA RouteOutcome ==
  ASSUME NEW F, NEW P, NEW K, Laws(F, P, K), CircuitLaws(P, K),
         NEW circuit \in Circuits, NEW i, NEW debug \in BOOLEAN
  PROVE  Outcome(circuit, i, registry[circuit], prove_route(circuit, i, debug))
<1> DEFINE instance == try_from(circuit, i)
           pk == registry[circuit]
           proof == prove(circuit, instance.value, pk, debug)
           reply == prove_route(circuit, i, debug)
<1>1. circuit \in DOMAIN registry /\ pk # Torn
  BY KeysWhole
<1>2. ~Status("rejected JSON").ok /\ ~Status("BadInputs").ok /\ ~Status("panic").ok
  BY StatusErr
<1>3. CASE ~has_shape(circuit, i)
  <2>1. reply = Status("rejected JSON")
    BY <1>3 DEF prove_route
  <2> QED
    BY <1>2, <1>3, <2>1 DEF Outcome, Whole
<1>4. CASE has_shape(circuit, i) /\ ~instance.ok
  <2>1. reply = Status("BadInputs")
    BY <1>1, <1>4 DEF prove_route
  <2> QED
    BY <1>2, <1>4, <2>1 DEF Outcome, Whole
<1>5. CASE has_shape(circuit, i) /\ instance.ok
  <2>1. reply = IF proof.ok THEN proof ELSE Status("panic")
    BY <1>1, <1>5 DEF prove_route
  <2>2. (proof.ok /\ proof.value # junk) <=> satisfied(circuit, instance.value)
    BY <1>1, ProveOutcome
  <2>3. satisfied(circuit, instance.value) <=> Holds(circuit, i)
    BY <1>5, SatisfiedHolds
  <2> HIDE DEF proof, reply, pk
  <2>4. (reply.ok /\ reply.value # junk) <=> (proof.ok /\ proof.value # junk)
    BY <1>2, <2>1
  <2>5. Whole(circuit, i, pk)
    BY <1>1, <1>5 DEF Whole
  <2> QED
    BY <2>2, <2>3, <2>4, <2>5 DEF Outcome, pk, reply
<1> QED
  BY <1>3, <1>4, <1>5

\* prover-wasm's prove, with whatever bytes for a key.
LEMMA WasmOutcome ==
  ASSUME NEW F, NEW P, NEW K, Laws(F, P, K), CircuitLaws(P, K),
         NEW circuit \in Circuits, NEW i, NEW pk, NEW debug \in BOOLEAN
  PROVE  Outcome(circuit, i, pk, prove_wasm(circuit, i, pk, debug))
<1> DEFINE instance == try_from(circuit, i)
           reply == prove_wasm(circuit, i, pk, debug)
<1>1. CASE ~has_shape(circuit, i)
  <2>1. reply = Err("inputs json")
    BY <1>1 DEF prove_wasm
  <2> QED
    BY <1>1, <2>1, Refused DEF Outcome, Whole
<1>2. CASE has_shape(circuit, i) /\ ~instance.ok
  <2>1. reply = instance
    BY <1>2 DEF prove_wasm
  <2> QED
    BY <1>2, <2>1 DEF Outcome, Whole
<1>3. CASE has_shape(circuit, i) /\ instance.ok /\ pk = Torn
  <2>1. deserialize_key(pk) = Err("Deserialize")
    BY <1>3 DEF deserialize_key
  <2>2. reply = Err("Deserialize")
    BY <1>3, <2>1 DEF prove_wasm, Err
  <2> QED
    BY <1>3, <2>2, Refused DEF Outcome, Whole
<1>4. CASE has_shape(circuit, i) /\ instance.ok /\ pk # Torn
  <2>1. deserialize_key(pk) = Ok(pk)
    BY <1>4 DEF deserialize_key
  <2>2. reply = prove(circuit, instance.value, pk, debug)
    BY <1>4, <2>1 DEF prove_wasm, Ok
  <2>3. (reply.ok /\ reply.value # junk) <=> satisfied(circuit, instance.value)
    BY <1>4, <2>2, ProveOutcome
  <2>4. satisfied(circuit, instance.value) <=> Holds(circuit, i)
    BY <1>4, SatisfiedHolds
  <2> QED
    BY <1>4, <2>3, <2>4 DEF Outcome, Whole
<1> QED
  BY <1>1, <1>2, <1>3, <1>4

\* The SDK's client asks the route about the opening it was given.
LEMMA ClientOutcome ==
  ASSUME NEW F, NEW P, NEW K, Laws(F, P, K), CircuitLaws(P, K), NEW i, NEW debug \in BOOLEAN
  PROVE  Outcome("pedersen_opens_to", i, registry["pedersen_opens_to"],
                 proveCommitmentOpening(i.commitment, i, i.claimed_first_value, debug))
<1> DEFINE circuit == "pedersen_opens_to"
           body == [commitment |-> i.commitment, encoding_id |-> i.encoding_id,
                    claimed_first_value |-> i.claimed_first_value,
                    stream |-> i.stream, blinding |-> i.blinding]
           reply == proveCommitmentOpening(i.commitment, i, i.claimed_first_value, debug)
<1>1. CASE Len(i.stream) # STREAM_LEN
  <2>1. ~has_shape(circuit, i)
    BY <1>1 DEF has_shape
  <2>2. reply = Err("stream length")
    BY <1>1 DEF proveCommitmentOpening
  <2> QED
    BY <2>1, <2>2, Refused DEF Outcome, Whole
<1>2. CASE Len(i.stream) = STREAM_LEN
  <2>1. reply = prove_route(circuit, body, debug)
    BY <1>2 DEF proveCommitmentOpening
  <2>2. Outcome(circuit, body, registry[circuit], prove_route(circuit, body, debug))
    BY RouteOutcome DEF Circuits
  <2>3. /\ body.commitment = i.commitment /\ body.encoding_id = i.encoding_id
        /\ body.claimed_first_value = i.claimed_first_value
        /\ body.stream = i.stream /\ body.blinding = i.blinding
    OBVIOUS
  <2> HIDE DEF body, reply
  <2>4. /\ has_shape(circuit, body) <=> has_shape(circuit, i)
        /\ try_from(circuit, body) = try_from(circuit, i)
        /\ Holds(circuit, body) <=> Holds(circuit, i)
    BY <2>3 DEF has_shape, try_from, pedersen_try_from, Holds
  <2> QED
    BY <2>1, <2>2, <2>4 DEF Outcome, Whole, reply
<1> QED
  BY <1>1, <1>2

\* The instances a setup is run on satisfy their circuits.
LEMMA EmptyEnvelope ==
  ASSUME NEW F, NEW P, NEW K, Laws(F, P, K), CircuitLaws(P, K)
  PROVE  envelope_open_at_0(empty_envelope.public, empty_envelope.w)
<1> DEFINE d == dummy_sk[1]
           k == dummy_sk[2]
           shared == mul(d, mul(k, generator))
           ct == encrypt(envelope_key(CIPHER_ROLE, shared, field(1)), zeros)
           tag == mac(envelope_key(MAC_ROLE, shared, field(1)), mac_input(field(7), ct))
           e == Envelope(mul(d, generator), mul(k, generator), field(1), field(7), ct, tag)
           public == <<compute_signal_native(e), zeros[POSITION]>>
<1>1. shared \in P /\ shared = mul(k, mul(d, generator))
  BY CircuitAssumption DEF Laws, PointLaws, CircuitLaws
<1>2. field(0) \in F /\ field(1) \in F
  BY DEF Laws, NumberLaws
<1>3. zeros \in Seq(F)
  BY <1>2, CircuitAssumption DEF zeros
<1>4. decrypt(envelope_key(CIPHER_ROLE, shared, field(1)), ct) = zeros
  <2>1. envelope_key(CIPHER_ROLE, shared, field(1)) \in F
    BY <1>1, <1>2, EnvelopeKeys
  <2> QED
    BY <1>3, <2>1, CipherTyped
<1>5. protocol_envelope_seal(d, mul(d, generator), mul(k, generator), field(1), field(7), zeros) = e
  BY DEF protocol_envelope_seal, Envelope, envelope_key, mac_input
<1> HIDE DEF ct, tag, shared
<1>6. /\ e.sender_pk = mul(d, generator) /\ e.recipient_pk = mul(k, generator)
      /\ e.envelope_id = field(1) /\ e.encoding_id = field(7)
      /\ e.ciphertext = ct /\ e.mac_tag = tag
  BY DEF Envelope
<1>7. empty_envelope = [public |-> public, w |-> assign_envelope(k, e)]
  BY <1>5, Zenon DEF empty_envelope
<1> HIDE DEF e
<1>8. public[1] = compute_signal_native(e) /\ public[2] = zeros[POSITION]
  OBVIOUS
<1> HIDE DEF public
<1>9. EnvelopeFacts(public, k, e.sender_pk, e.recipient_pk, e.envelope_id, e.encoding_id,
                    e.ciphertext, e.mac_tag)
  <2>1. mul(k, e.sender_pk) = shared
    BY <1>1, <1>6
  <2>2. mac(envelope_key(MAC_ROLE, shared, field(1)), mac_input(field(7), ct)) = tag
    BY DEF tag
  <2>3. sponge(tag_of(SIGNAL_DOMAIN), coords(e.sender_pk) \o coords(e.recipient_pk)
                   \o <<e.envelope_id, e.encoding_id, e.mac_tag>> \o e.ciphertext) = public[1]
    BY <1>8 DEF compute_signal_native, signal_inputs
  <2> QED
    BY <1>4, <1>6, <1>8, <2>1, <2>2, <2>3 DEF EnvelopeFacts
<1>10. envelope_open_at_0(public, assign_envelope(k, e))
  BY <1>9, EnvelopeRelation
<1> QED
  BY <1>7, <1>10

LEMMA EmptyPedersen ==
  ASSUME NEW F, NEW P, NEW K, Laws(F, P, K), CircuitLaws(P, K)
  PROVE  pedersen_opens_to(empty_pedersen.public, empty_pedersen.w)
<1> DEFINE point == commit(augmented_stream(field(0), zeros), 1)
           public == PedersenInputs(point, field(0), zeros[1])
           w == [stream |-> zeros, blinding |-> 1]
<1>1. empty_pedersen = [public |-> public, w |-> w]
  BY DEF empty_pedersen, PedersenInputs
<1>2. point \in P
  BY DEF CircuitLaws
<1>3. /\ <<public[1], public[2]>> = coords(point)
      /\ public[3] = field(0) /\ public[4] = zeros[1]
  BY <1>2, PedersenPublic
<1>4. w.stream = zeros /\ w.blinding = 1
  OBVIOUS
<1> HIDE DEF public, w
<1>5. pedersen_opens_to(public, w)
  BY <1>3, <1>4 DEF pedersen_opens_to
<1> QED
  BY <1>1, <1>5

-----------------------------------------------------------------------------
(* A call of a prover or a setup.                                           *)

LEMMA SetupSatisfied ==
  ASSUME NEW F, NEW P, NEW K, Laws(F, P, K), CircuitLaws(P, K), NEW circuit \in Circuits
  PROVE  satisfied(circuit, empty(circuit))
<1>1. CASE circuit = "envelope_open_at_0"
  BY <1>1, EmptyEnvelope DEF satisfied, empty
<1>2. CASE circuit = "pedersen_opens_to"
  BY <1>2, EmptyPedersen DEF satisfied, empty
<1> QED
  BY <1>1, <1>2 DEF Circuits

\* What is right of one.
ProvedRight(c) ==
    /\ c.op \in {"prove_route", "prove_wasm"} => Outcome(c.circuit, c.inputs, c.pk, c.reply)
    /\ c.op = "setup" => satisfied(c.circuit, c.instance)

LEMMA ProvedCall ==
  ASSUME NEW op \in {"prove_route", "prove_wasm"}, NEW circuit, NEW i, NEW pk, NEW reply,
         Proves(op, circuit, i, pk, reply), Outcome(circuit, i, pk, reply)
  PROVE  ProvedRight(call')
<1>1. call' = [op |-> op, circuit |-> circuit, inputs |-> i, pk |-> pk, reply |-> reply]
  BY DEF Proves
<1> QED
  BY <1>1 DEF ProvedRight

LEMMA ProveSteps ==
  ASSUME NEW F, NEW P, NEW K, Laws(F, P, K), CircuitLaws(P, K), NEW circuit \in Circuits,
         ProveOnServer(circuit) \/ ProveInBrowser(circuit) \/ ProveThroughClient \/ Setup(circuit)
  PROVE  ProvedRight(call')
<1>1. CASE ProveOnServer(circuit)
  <2>1. PICK i \in ProverInputs(circuit), debug \in BOOLEAN :
          Proves("prove_route", circuit, i, registry[circuit], prove_route(circuit, i, debug))
    BY <1>1 DEF ProveOnServer
  <2> QED
    BY <2>1, RouteOutcome, ProvedCall
<1>2. CASE ProveInBrowser(circuit)
  <2>1. PICK i \in ProverInputs(circuit) :
          \E pk \in IF i \in Claims \cup Openings THEN HeldKeys(circuit) ELSE {registry[circuit]} :
              Proves("prove_wasm", circuit, i, pk, prove_wasm(circuit, i, pk, FALSE))
    BY <1>2 DEF ProveInBrowser
  <2>2. PICK pk : Proves("prove_wasm", circuit, i, pk, prove_wasm(circuit, i, pk, FALSE))
    BY <2>1
  <2> QED
    BY <2>2, WasmOutcome, ProvedCall
<1>3. CASE ProveThroughClient
  <2>1. PICK i \in ProverInputs("pedersen_opens_to"), debug \in BOOLEAN :
          Proves("prove_route", "pedersen_opens_to", i, registry["pedersen_opens_to"],
                 proveCommitmentOpening(i.commitment, i, i.claimed_first_value, debug))
    BY <1>3 DEF ProveThroughClient
  <2> QED
    BY <2>1, ClientOutcome, ProvedCall
<1>4. CASE Setup(circuit)
  <2>1. call' = [op |-> "setup", circuit |-> circuit, instance |-> empty(circuit)]
    BY <1>4 DEF Setup
  <2> QED
    BY <2>1, SetupSatisfied DEF ProvedRight
<1> QED
  BY <1>1, <1>2, <1>3, <1>4

LEMMA ProofCallStep ==
  ASSUME NEW F, NEW P, NEW K, Laws(F, P, K), CircuitLaws(P, K),
         ProvedRight(call), [Next]_vars
  PROVE  ProvedRight(call')
<1>1. CASE UNCHANGED vars
  BY <1>1 DEF vars
<1>2. CASE \E a \in Accounts : Register(a) \/ OpenInApp(a) \/ OpenNative(a)
  <2>1. PICK a \in Accounts : Register(a) \/ OpenInApp(a) \/ OpenNative(a)
    BY <1>2
  <2>2. call' = call \/ call'.op \in {"open", "open_texts"}
    BY <2>1 DEF Register, OpenInApp, OpenNative
  <2> QED
    BY <2>2 DEF ProvedRight
<1>3. CASE \E a, b \in Accounts, payload \in Payloads : Send(a, b, payload)
  BY <1>3 DEF Send
<1>4. CASE \E circuit \in Circuits :
             ProveOnServer(circuit) \/ ProveInBrowser(circuit) \/ Setup(circuit)
  BY <1>4, ProveSteps
<1>5. CASE ProveThroughClient
  BY <1>5, ProveSteps DEF Circuits
<1>6. CASE VerifyOnServer \/ VerifyInBrowser \/ VerifyOnChain
  <2>1. call'.op = "verify"
    BY <1>6 DEF VerifyOnServer, VerifyInBrowser, VerifyOnChain, Verifies
  <2> QED
    BY <2>1 DEF ProvedRight
<1>7. CASE Returned
  BY <1>7 DEF Returned, NoCall, ProvedRight
<1> QED
  BY <1>1, <1>2, <1>3, <1>4, <1>5, <1>6, <1>7 DEF Next

\* A prover gets a proof that verifies exactly if its inputs and its key parse
\* and the statement of the circuit holds natively, on the server, through the
\* client and in the browser, whatever the inputs; and a setup never runs on an
\* instance that fails its circuit.
THEOREM ProofsMeanOpens ==
  ASSUME NEW F, NEW P, NEW K, Laws(F, P, K), CircuitLaws(P, K)
  PROVE  Spec => []ProofMeansOpens
<1>1. Init => ProvedRight(call)
  BY DEF Init, NoCall, ProvedRight
<1>2. ProvedRight(call) /\ [Next]_vars => ProvedRight(call)'
  BY ProofCallStep
<1>3. ProvedRight(call) => ProofMeansOpens
  BY DEF ProvedRight, Outcome, Whole, ProofMeansOpens
<1> QED
  BY <1>1, <1>2, <1>3, PTL DEF Spec

-----------------------------------------------------------------------------
(* What a proof about an envelope says of the mail.                         *)

InputFields == {"signal", "claimed_value", "recipient_sk", "sender_pk", "recipient_pk",
                "envelope_id", "encoding_id", "ciphertext", "mac_tag"}

\* An envelope of points and elements, whatever else it carries.
Decoded(F, P, e) ==
    /\ e.sender_pk \in P /\ e.recipient_pk \in P
    /\ e.envelope_id \in F /\ e.encoding_id \in F /\ e.mac_tag \in F
    /\ e.ciphertext \in Seq(F)

\* The claim of a letter names the signal of its envelope.
LEMMA ClaimFields ==
  ASSUME NEW F, NEW P, NEW K, Laws(F, P, K), MailSealed(F, P), NEW n \in DOMAIN mail
  PROVE  LET m == mail[n]
             e == FromTexts(m.envelope)
         IN  /\ Decoded(F, P, e)
             /\ ClaimOf(m).signal = compute_signal_native(e)
             /\ e.sender_pk = KeyOf(m.from) /\ e.recipient_pk = KeyOf(m.to)
             /\ e.envelope_id = field(n) /\ e.ciphertext = m.envelope.ciphertext
<1> DEFINE m == mail[n]
           d == m.envelope
           e == FromTexts(d)
<1>1. /\ d \in TextEnvelope(F, P) /\ d.envelope_id = field(n)
      /\ d.sender_pk = text_of(KeyOf(m.from)) /\ d.recipient_pk = text_of(KeyOf(m.to))
      /\ m.from \in KeyNames /\ m.to \in KeyNames
  BY LetterFields
<1> HIDE DEF d, m
<1>2. e = Envelope(KeyOf(m.from), KeyOf(m.to), field(n), d.encoding_id, d.ciphertext, d.mac_tag)
  BY <1>1, PointsOfTexts DEF text_of
<1>3. /\ e.sender_pk = KeyOf(m.from) /\ e.recipient_pk = KeyOf(m.to) /\ e.envelope_id = field(n)
      /\ e.encoding_id = d.encoding_id /\ e.ciphertext = d.ciphertext /\ e.mac_tag = d.mac_tag
  BY <1>2 DEF Envelope
<1>4. KeyOf(m.from) \in P /\ KeyOf(m.to) \in P
  BY <1>1, SharedPoints
<1>5. /\ d.envelope_id \in F /\ d.encoding_id \in F /\ d.mac_tag \in F
      /\ d.ciphertext \in Seq(F)
  BY <1>1 DEF TextEnvelope
<1> HIDE DEF e
<1>6. Decoded(F, P, e)
  BY <1>1, <1>3, <1>4, <1>5 DEF Decoded
<1>7. ClaimOf(m).signal = compute_signal_native(e)
  BY DEF ClaimOf, e, d
<1> QED
  BY <1>3, <1>6, <1>7 DEF e, d, m

\* Two sequences in a row.
LEMMA Joined ==
  ASSUME NEW E, NEW s \in Seq(E), NEW t \in Seq(E)
  PROVE  /\ s \o t \in Seq(E) /\ Len(s \o t) = Len(s) + Len(t)
         /\ Len(s) \in Nat /\ Len(t) \in Nat
         /\ \A i \in 1..(Len(s) + Len(t)) :
                (s \o t)[i] = IF i <= Len(s) THEN s[i] ELSE t[i - Len(s)]
<1>1. s \o t \in Seq(E)
  BY ConcatProperties
<1>2. Len(s \o t) = Len(s) + Len(t)
  BY ConcatProperties
<1>3. \A i \in 1..(Len(s) + Len(t)) : (s \o t)[i] = IF i <= Len(s) THEN s[i] ELSE t[i - Len(s)]
  BY ConcatProperties
<1> QED
  BY <1>1, <1>2, <1>3

\* Rows that begin equally far determine each other's halves.
LEMMA SplitRows ==
  ASSUME NEW E, NEW s \in Seq(E), NEW t \in Seq(E), NEW u \in Seq(E), NEW v \in Seq(E),
         Len(s) = Len(u), s \o t = u \o v
  PROVE  s = u /\ t = v
<1>1. /\ s \o t \in Seq(E) /\ Len(s \o t) = Len(s) + Len(t) /\ Len(s) \in Nat /\ Len(t) \in Nat
      /\ \A i \in 1..(Len(s) + Len(t)) :
             (s \o t)[i] = IF i <= Len(s) THEN s[i] ELSE t[i - Len(s)]
  BY Joined
<1>2. /\ Len(u \o v) = Len(u) + Len(v) /\ Len(v) \in Nat
      /\ \A i \in 1..(Len(u) + Len(v)) :
             (u \o v)[i] = IF i <= Len(u) THEN u[i] ELSE v[i - Len(u)]
  BY Joined
<1>3. Len(t) = Len(v)
  BY <1>1, <1>2
<1>4. ASSUME NEW i \in 1..Len(s) PROVE s[i] = u[i]
  <2>1. i \in 1..(Len(s) + Len(t)) /\ i \in 1..(Len(u) + Len(v)) /\ i <= Len(s) /\ i <= Len(u)
    BY <1>1, <1>2
  <2> QED
    BY <1>1, <1>2, <2>1
<1>5. ASSUME NEW i \in 1..Len(t) PROVE t[i] = v[i]
  <2> DEFINE j == Len(s) + i
  <2>1. /\ j \in 1..(Len(s) + Len(t)) /\ ~(j <= Len(s)) /\ j - Len(s) = i
        /\ j \in 1..(Len(u) + Len(v)) /\ ~(j <= Len(u)) /\ j - Len(u) = i
    BY <1>1, <1>3
  <2> HIDE DEF j
  <2>2. (s \o t)[j] = t[i] /\ (u \o v)[j] = v[i]
    BY <1>1, <1>2, <2>1
  <2> QED
    BY <2>2
<1>6. s = u
  BY <1>1, <1>4, SeqEqual
<1>7. t = v
  BY <1>3, <1>5, SeqEqual
<1> QED
  BY <1>6, <1>7

SignalRow(s, r, h, ct) == coords(s) \o coords(r) \o h \o ct

LEMMA SignalTyped ==
  ASSUME NEW F, NEW P, NEW K, Laws(F, P, K),
         NEW s \in P, NEW r \in P, NEW h \in Seq(F), NEW ct \in Seq(F)
  PROVE  SignalRow(s, r, h, ct) \in Seq(F)
<1>1. coords(s) \in Seq(F) /\ coords(r) \in Seq(F)
  BY DEF Laws, PointLaws
<1> DEFINE a == coords(s)
           b == coords(r)
           ab == a \o b
           abh == ab \o h
<1>2. ab \in Seq(F)
  BY <1>1, ConcatProperties
<1>3. abh \in Seq(F)
  BY <1>2, ConcatProperties
<1> HIDE DEF abh
<1>4. abh \o ct \in Seq(F)
  BY <1>3, ConcatProperties
<1> QED
  BY <1>4 DEF SignalRow, abh

\* Every field of the envelope can be read from what its signal is the hash of.
LEMMA SignalInjective ==
  ASSUME NEW F, NEW P, NEW K, Laws(F, P, K),
         NEW d, NEW e, Decoded(F, P, d), Decoded(F, P, e),
         compute_signal_native(d) = compute_signal_native(e)
  PROVE  /\ d.sender_pk = e.sender_pk /\ d.recipient_pk = e.recipient_pk
         /\ d.envelope_id = e.envelope_id /\ d.ciphertext = e.ciphertext
<1> DEFINE h == <<d.envelope_id, d.encoding_id, d.mac_tag>>
           g == <<e.envelope_id, e.encoding_id, e.mac_tag>>
           text == SignalRow(d.sender_pk, d.recipient_pk, h, d.ciphertext)
           other == SignalRow(e.sender_pk, e.recipient_pk, g, e.ciphertext)
<1>1. /\ d.sender_pk \in P /\ d.recipient_pk \in P /\ d.ciphertext \in Seq(F)
      /\ e.sender_pk \in P /\ e.recipient_pk \in P /\ e.ciphertext \in Seq(F)
  BY DEF Decoded
<1>2. /\ h \in Seq(F) /\ g \in Seq(F) /\ Len(h) = 3 /\ Len(g) = 3
      /\ h = g => d.envelope_id = e.envelope_id
  BY DEF Decoded
<1>3. /\ compute_signal_native(d) = sponge(tag_of(SIGNAL_DOMAIN), text)
      /\ compute_signal_native(e) = sponge(tag_of(SIGNAL_DOMAIN), other)
  BY DEF compute_signal_native, signal_inputs, SignalRow
<1> HIDE DEF h, g
<1>4. text \in Seq(F) /\ other \in Seq(F)
  BY <1>1, <1>2, SignalTyped
<1>5. tag_of(SIGNAL_DOMAIN) \in F
  BY DEF Laws, NumberLaws, Tags
<1> HIDE DEF text, other
<1>6. text = other
  BY <1>3, <1>4, <1>5 DEF Laws, HashLaws
<1> DEFINE a == coords(d.sender_pk)
           b == coords(d.recipient_pk)
           x == coords(e.sender_pk)
           y == coords(e.recipient_pk)
           ab == a \o b
           xy == x \o y
           abh == ab \o h
           xyg == xy \o g
<1>7. abh \o d.ciphertext = xyg \o e.ciphertext
  BY <1>6 DEF text, other, SignalRow
<1>8. /\ a \in Seq(F) /\ b \in Seq(F) /\ x \in Seq(F) /\ y \in Seq(F)
      /\ Len(a) = 2 /\ Len(b) = 2 /\ Len(x) = 2 /\ Len(y) = 2
      /\ a = x => d.sender_pk = e.sender_pk
      /\ b = y => d.recipient_pk = e.recipient_pk
  BY <1>1 DEF Laws, PointLaws
<1> HIDE DEF a, b, x, y
<1>9. ab \in Seq(F) /\ xy \in Seq(F) /\ Len(ab) = 4 /\ Len(xy) = 4
  <2>1. ab \in Seq(F) /\ Len(ab) = Len(a) + Len(b)
    BY <1>8, Joined
  <2>2. xy \in Seq(F) /\ Len(xy) = Len(x) + Len(y)
    BY <1>8, Joined
  <2> QED
    BY <1>8, <2>1, <2>2
<1>10. ab = xy => a = x /\ b = y
  BY <1>8, SplitRows
<1> HIDE DEF ab, xy
<1>11. abh \in Seq(F) /\ xyg \in Seq(F) /\ Len(abh) = 7 /\ Len(xyg) = 7
  <2>1. abh \in Seq(F) /\ Len(abh) = Len(ab) + Len(h)
    BY <1>2, <1>9, Joined
  <2>2. xyg \in Seq(F) /\ Len(xyg) = Len(xy) + Len(g)
    BY <1>2, <1>9, Joined
  <2> QED
    BY <1>2, <1>9, <2>1, <2>2
<1>12. abh = xyg => ab = xy /\ h = g
  BY <1>2, <1>9, SplitRows
<1> HIDE DEF abh, xyg
<1>13. abh = xyg /\ d.ciphertext = e.ciphertext
  BY <1>1, <1>7, <1>11, SplitRows
<1> QED
  BY <1>2, <1>8, <1>10, <1>12, <1>13

\* Some of the inputs of a prover are those of another.
LEMMA CombinedFields ==
  ASSUME NEW i, NEW others, NEW x \in Combined(i, others)
  PROVE  /\ DOMAIN x = DOMAIN i
         /\ \E d \in others : \A f \in DOMAIN i : x[f] \in {i[f], d[f]}
<1>1. PICK altered \in SUBSET DOMAIN i, d \in others :
        x = [f \in DOMAIN i |-> IF f \in altered THEN d[f] ELSE i[f]]
  BY DEF Combined
<1> QED
  BY <1>1

\* What is claimed of a letter that was or might have been sent.
LEMMA ClaimTyped ==
  ASSUME NEW F, NEW P, NEW m, m.envelope \in TextEnvelope(F, P)
  PROVE  DOMAIN ClaimOf(m) = InputFields /\ ClaimOf(m).ciphertext \in Seq(F)
<1> DEFINE e == m.envelope
<1>1. FromTexts(e).ciphertext = e.ciphertext
  BY PointsOfTexts DEF Envelope
<1>2. e.ciphertext \in Seq(F)
  BY DEF TextEnvelope
<1> QED
  BY <1>1, <1>2 DEF ClaimOf, InputFields

LEMMA DraftClaims ==
  ASSUME NEW F, NEW P, NEW K, Laws(F, P, K), MailSealed(F, P)
  PROVE  /\ \A m \in Drafts : m.envelope \in TextEnvelope(F, P)
         /\ \A o \in Claims : DOMAIN o = InputFields /\ o.ciphertext \in Seq(F)
<1>1. ASSUME NEW m \in Drafts PROVE m.envelope \in TextEnvelope(F, P)
  <2>1. PICK n \in DOMAIN mail, payload \in Payloads :
          m = letter(mail[n].from, mail[n].to, field(n), payload)
    BY DEF Drafts
  <2>2. n \in Nat /\ mail[n].from \in KeyNames /\ mail[n].to \in KeyNames
    BY LetterFields
  <2> QED
    BY <2>1, <2>2, LetterTyped DEF Letter
<1>2. \A n \in DOMAIN mail : mail[n].envelope \in TextEnvelope(F, P)
  BY LetterFields
<1>3. ASSUME NEW o \in Claims PROVE DOMAIN o = InputFields /\ o.ciphertext \in Seq(F)
  <2>1. \E m : m.envelope \in TextEnvelope(F, P) /\ o = ClaimOf(m)
    BY <1>1, <1>2 DEF Claims
  <2> QED
    BY <2>1, ClaimTyped
<1> QED
  BY <1>1, <1>3

\* The ciphertext of a prover is a sequence of texts.
LEMMA InputCiphertext ==
  ASSUME NEW F, NEW P, NEW K, NEW T, Laws(F, P, K), TextLaws(F, P, K, T), MailSealed(F, P),
         NEW i \in EnvelopeInputs
  PROVE  i.ciphertext \in Seq(T)
<1> DEFINE others == Claims \cup OddInputs
           combined == UNION {Combined(ClaimOf(m), others) : m \in Drafts}
<1>1. ASSUME NEW d \in others PROVE d.ciphertext \in Seq(T)
  <2>1. CASE d \in Claims
    <3>1. d.ciphertext \in Seq(F) /\ F \subseteq T
      BY <2>1, DraftClaims DEF TextLaws
    <3> QED
      BY <3>1
  <2>2. CASE d \in OddInputs
    BY <2>2 DEF TextLaws
  <2> QED
    BY <2>1, <2>2
<1> HIDE DEF others
<1>2. ASSUME NEW x \in combined
      PROVE  DOMAIN x = InputFields /\ x.ciphertext \in Seq(T)
  <2>1. PICK m \in Drafts : x \in Combined(ClaimOf(m), others)
    OBVIOUS
  <2>2. DOMAIN ClaimOf(m) = InputFields /\ ClaimOf(m).ciphertext \in Seq(T)
    <3>1. /\ DOMAIN ClaimOf(m) = InputFields
          /\ ClaimOf(m).ciphertext \in Seq(F) /\ F \subseteq T
      BY <2>1, DraftClaims, ClaimTyped DEF TextLaws
    <3> QED
      BY <3>1
  <2>3. PICK d \in others : \A f \in DOMAIN ClaimOf(m) : x[f] \in {ClaimOf(m)[f], d[f]}
    BY <2>1, CombinedFields
  <2>4. x.ciphertext \in {ClaimOf(m).ciphertext, d.ciphertext}
    BY <2>2, <2>3 DEF InputFields
  <2>5. DOMAIN x = InputFields
    BY <2>1, <2>2, CombinedFields
  <2> QED
    BY <1>1, <2>2, <2>4, <2>5
<1>3. i \in combined \/ \E x \in combined : i = [x EXCEPT !.signal = compute_signal_native(x)]
  BY DEF EnvelopeInputs, Others, others
<1> HIDE DEF combined
<1>4. ASSUME NEW x \in combined, i = [x EXCEPT !.signal = compute_signal_native(x)]
      PROVE  i.ciphertext \in Seq(T)
  <2>1. DOMAIN x = InputFields /\ x.ciphertext \in Seq(T)
    BY <1>2
  <2>2. i.ciphertext = x.ciphertext
    BY <1>4, <2>1 DEF InputFields
  <2> QED
    BY <2>1, <2>2
<1> QED
  BY <1>2, <1>3, <1>4

\* What parses.
LEMMA ParsedEnvelope ==
  ASSUME NEW i, envelope_try_from(i).ok
  PROVE  /\ is_element(i.envelope_id) /\ is_element(i.encoding_id) /\ is_element(i.mac_tag)
         /\ \A k \in DOMAIN i.ciphertext : is_element(i.ciphertext[k])
         /\ is_scalar(i.recipient_sk)
         /\ i.sender_pk \in ValidPoints /\ i.recipient_pk \in ValidPoints
<1> DEFINE texts == <<i.signal, i.claimed_value, i.envelope_id, i.encoding_id, i.mac_tag>>
<1>1. /\ AllElements(texts) /\ AllElements(i.ciphertext) /\ is_scalar(i.recipient_sk)
      /\ {i.sender_pk, i.recipient_pk} \subseteq ValidPoints
  BY DEF envelope_try_from, Ok, Err
<1>2. /\ {3, 4, 5} \subseteq DOMAIN texts
      /\ texts[3] = i.envelope_id /\ texts[4] = i.encoding_id /\ texts[5] = i.mac_tag
  OBVIOUS
<1> HIDE DEF texts
<1> QED
  BY <1>1, <1>2 DEF AllElements

\* A sequence of texts that parse is one of elements.
LEMMA ParsedSequence ==
  ASSUME NEW F, NEW P, NEW K, NEW T, TextLaws(F, P, K, T), NEW s \in Seq(T),
         \A k \in DOMAIN s : is_element(s[k])
  PROVE  s \in Seq(F)
<1>1. \A k \in 1..Len(s) : s[k] \in F
  BY DEF TextLaws
<1> QED
  BY <1>1

LEMMA TypedInputs ==
  ASSUME NEW F, NEW P, NEW K, NEW T, Laws(F, P, K), TextLaws(F, P, K, T), MailSealed(F, P),
         NEW i \in EnvelopeInputs, envelope_try_from(i).ok
  PROVE  i.recipient_sk \in K /\ Decoded(F, P, i)
<1>1. i.ciphertext \in Seq(F)
  BY InputCiphertext, ParsedEnvelope, ParsedSequence
<1>2. i.envelope_id \in F /\ i.encoding_id \in F /\ i.mac_tag \in F /\ i.recipient_sk \in K
  BY ParsedEnvelope DEF TextLaws
<1>3. i.sender_pk \in P /\ i.recipient_pk \in P
  BY ParsedEnvelope DEF Laws, PointLaws
<1> QED
  BY <1>1, <1>2, <1>3 DEF Decoded

\* Every letter that has the signal begins with the claimed word.
EnvelopeTold(signal, claimed) ==
    \A n \in DOMAIN mail : ClaimOf(mail[n]).signal = signal
        => mail[n].payload.stream[1] = claimed

LEMMA EnvelopeTells ==
  ASSUME NEW F, NEW P, NEW K, NEW T, Laws(F, P, K), CircuitLaws(P, K), TextLaws(F, P, K, T),
         MailSealed(F, P),
         NEW i \in EnvelopeInputs, envelope_try_from(i).ok, Holds("envelope_open_at_0", i)
  PROVE  EnvelopeTold(i.signal, i.claimed_value)
<1> SUFFICES ASSUME NEW n \in DOMAIN mail, ClaimOf(mail[n]).signal = i.signal
             PROVE  mail[n].payload.stream[1] = i.claimed_value
  BY DEF EnvelopeTold
<1> DEFINE m == mail[n]
           e == m.envelope
           shared == mul(i.recipient_sk, i.sender_pk)
<1>1. i.recipient_sk \in K /\ Decoded(F, P, i)
  BY TypedInputs
<1>2. /\ mul(i.recipient_sk, generator) = i.recipient_pk
      /\ decrypt(envelope_key(CIPHER_ROLE, shared, i.envelope_id), i.ciphertext)[1]
             = i.claimed_value
  <2> DEFINE public == envelope_try_from(i).value.public
  <2>1. /\ public = <<i.signal, i.claimed_value>>
        /\ EnvelopeFacts(public, i.recipient_sk, i.sender_pk, i.recipient_pk, i.envelope_id,
                         i.encoding_id, i.ciphertext, i.mac_tag)
    BY EnvelopeProves
  <2>2. public[2] = i.claimed_value
    BY <2>1
  <2> HIDE DEF public
  <2> QED
    BY <2>1, <2>2 DEF EnvelopeFacts, POSITION
<1>3. /\ m.from \in KeyNames /\ m.to \in KeyNames /\ m.payload \in Payload(F)
      /\ SharedOf(m) \in P /\ field(n) \in F /\ e \in TextEnvelope(F, P)
      /\ e.ciphertext = encrypt(envelope_key(CIPHER_ROLE, SharedOf(m), field(n)), m.payload.stream)
  BY LetterFields
<1> HIDE DEF shared
\* The signal is that of one envelope: the proof is about the letter's.
<1>8. /\ i.sender_pk = KeyOf(m.from) /\ i.recipient_pk = KeyOf(m.to)
      /\ i.envelope_id = field(n) /\ i.ciphertext = e.ciphertext
  <2> DEFINE d == FromTexts(mail[n].envelope)
  <2>1. /\ Decoded(F, P, d) /\ ClaimOf(mail[n]).signal = compute_signal_native(d)
        /\ d.sender_pk = KeyOf(m.from) /\ d.recipient_pk = KeyOf(m.to)
        /\ d.envelope_id = field(n) /\ d.ciphertext = e.ciphertext
    BY ClaimFields
  <2> HIDE DEF d
  <2>2. compute_signal_native(i) = compute_signal_native(d)
    BY <2>1 DEF Holds
  <2>3. /\ i.sender_pk = d.sender_pk /\ i.recipient_pk = d.recipient_pk
        /\ i.envelope_id = d.envelope_id /\ i.ciphertext = d.ciphertext
    BY <1>1, <2>1, <2>2, SignalInjective
  <2> QED
    BY <2>1, <2>3
<1> HIDE DEF m, e
\* So its secret is one of the recipient's key, and the shared point the letter's.
<1>9. shared = SharedOf(m)
  <2>1. /\ KeyOf(m.from) = mul(SecretOf(m.from), generator) /\ SecretOf(m.from) \in K
        /\ mul(i.recipient_sk, generator) = KeyOf(m.to)
    BY <1>2, <1>3, <1>8 DEF SecretOf, KeyOf, public_key, Laws, InputLaws
  <2>2. mul(i.recipient_sk, mul(SecretOf(m.from), generator))
          = mul(SecretOf(m.from), mul(i.recipient_sk, generator))
    BY <1>1, <2>1 DEF CircuitLaws
  <2> QED
    BY <1>8, <2>1, <2>2 DEF shared, SharedOf
<1> DEFINE key == envelope_key(CIPHER_ROLE, SharedOf(m), field(n))
           s == m.payload.stream
<1>10. key \in F /\ s \in Seq(F)
  BY <1>3, EnvelopeKeys DEF Payload
<1>11. decrypt(key, i.ciphertext)[1] = i.claimed_value /\ i.ciphertext = encrypt(key, s)
  BY <1>2, <1>3, <1>8, <1>9
<1> HIDE DEF key, s
<1>12. decrypt(key, encrypt(key, s)) = s
  BY <1>10, CipherTyped
<1> QED
  BY <1>11, <1>12 DEF s, m

-----------------------------------------------------------------------------
(* What a proof about a commitment says of the payloads.                    *)

\* Whoever committed to a payload, committed to the scalars that are claimed.
PedersenTold(commitment, encoding, claimed) ==
    \A payload \in Payloads, b \in Blindings :
        OpeningOf(payload, b).commitment = commitment
        => /\ fq_to_fr(encoding) = fq_to_fr(payload.encoding_id)
           /\ fq_to_fr(claimed) = fq_to_fr(payload.stream[1])

\* The stream of a prover is a sequence of texts.
LEMMA InputStream ==
  ASSUME NEW F, NEW P, NEW K, NEW T, Laws(F, P, K), TextLaws(F, P, K, T),
         NEW i \in ProverInputs("pedersen_opens_to")
  PROVE  i.stream \in Seq(T)
<1> DEFINE others == Openings \cup OddOpenings
<1>1. ASSUME NEW o \in others PROVE DOMAIN o = OpeningFields /\ o.stream \in Seq(T)
  <2>1. CASE o \in Openings
    <3>1. PICK payload \in Payloads, b \in Blindings : o = OpeningOf(payload, b)
      BY <2>1 DEF Openings
    <3>2. payload.stream \in Seq(F) /\ F \subseteq T
      BY DEF Laws, InputLaws, Payload, TextLaws
    <3> QED
      BY <3>1, <3>2 DEF OpeningOf, OpeningFields
  <2>2. CASE o \in OddOpenings
    BY <2>2 DEF TextLaws
  <2> QED
    BY <2>1, <2>2
<1>2. PICK o \in others : i \in Combined(o, others)
  BY DEF ProverInputs, Others
<1> HIDE DEF others
<1>3. PICK d \in others : \A f \in DOMAIN o : i[f] \in {o[f], d[f]}
  BY <1>2, CombinedFields
<1>4. i.stream \in {o.stream, d.stream}
  BY <1>1, <1>3 DEF OpeningFields
<1> QED
  BY <1>1, <1>4

\* What a commitment is made to begins with the encoding id and the first word.
LEMMA AugmentedWords ==
  ASSUME NEW F, NEW a \in F, NEW s \in Seq(F), Len(s) > 0
  PROVE  /\ augmented_stream(a, s) \in Seq(F) /\ {1, 2} \subseteq DOMAIN augmented_stream(a, s)
         /\ augmented_stream(a, s)[1] = a /\ augmented_stream(a, s)[2] = s[1]
<1> DEFINE h == <<a>>
<1>1. h \in Seq(F) /\ Len(h) = 1 /\ h[1] = a
  OBVIOUS
<1> HIDE DEF h
<1>2. /\ h \o s \in Seq(F) /\ Len(h \o s) = Len(h) + Len(s) /\ Len(s) \in Nat
      /\ \A i \in 1..(Len(h) + Len(s)) :
             (h \o s)[i] = IF i <= Len(h) THEN h[i] ELSE s[i - Len(h)]
  BY <1>1, Joined
<1>3. /\ 1 \in 1..(Len(h) + Len(s)) /\ 1 <= Len(h)
      /\ 2 \in 1..(Len(h) + Len(s)) /\ ~(2 <= Len(h)) /\ 2 - Len(h) = 1
  BY <1>1, <1>2
<1>4. (h \o s)[1] = a /\ (h \o s)[2] = s[1]
  BY <1>1, <1>2, <1>3
<1>5. {1, 2} \subseteq DOMAIN (h \o s)
  BY <1>2, <1>3
<1> QED
  BY <1>2, <1>4, <1>5 DEF augmented_stream, h

\* Texts that all parse, two of them and a row.
LEMMA ParsedTexts ==
  ASSUME NEW T, NEW a, NEW b, NEW s \in Seq(T), AllElements(<<a, b>> \o s)
  PROVE  is_element(a) /\ \A k \in DOMAIN s : is_element(s[k])
<1> DEFINE E == T \cup {a, b}
           h == <<a, b>>
<1>1. h \in Seq(E) /\ Len(h) = 2 /\ h[1] = a /\ s \in Seq(E)
  OBVIOUS
<1>2. AllElements(h \o s)
  OBVIOUS
<1> HIDE DEF h, E
<1>3. /\ h \o s \in Seq(E) /\ Len(h \o s) = Len(h) + Len(s) /\ Len(s) \in Nat
      /\ \A k \in 1..(Len(h) + Len(s)) :
             (h \o s)[k] = IF k <= Len(h) THEN h[k] ELSE s[k - Len(h)]
  BY <1>1, Joined
<1>4. \A k \in 1..(Len(h) + Len(s)) : is_element((h \o s)[k])
  <2>1. DOMAIN (h \o s) = 1..(Len(h) + Len(s))
    BY <1>3
  <2> QED
    BY <1>2, <2>1 DEF AllElements
<1>5. is_element(a)
  <2>1. 1 \in 1..(Len(h) + Len(s)) /\ 1 <= Len(h)
    BY <1>1, <1>3
  <2> QED
    BY <1>1, <1>3, <1>4, <2>1
<1>6. ASSUME NEW k \in DOMAIN s PROVE is_element(s[k])
  <2> DEFINE j == k + 2
  <2>1. j \in 1..(Len(h) + Len(s)) /\ ~(j <= Len(h)) /\ j - Len(h) = k
    BY <1>1, <1>3
  <2> HIDE DEF j
  <2>2. (h \o s)[j] = s[k]
    BY <1>3, <2>1
  <2> QED
    BY <1>4, <2>1, <2>2
<1> QED
  BY <1>5, <1>6

\* The texts of an opening that parses are elements.
LEMMA ParsedOpening ==
  ASSUME NEW F, NEW P, NEW K, NEW T, Laws(F, P, K), TextLaws(F, P, K, T),
         NEW i \in ProverInputs("pedersen_opens_to"), pedersen_try_from(i).ok
  PROVE  i.encoding_id \in F /\ i.stream \in Seq(F) /\ i.blinding \in K
<1>1. i.stream \in Seq(T)
  BY InputStream
<1>2. /\ AllElements(<<i.encoding_id, i.claimed_first_value>> \o i.stream)
      /\ is_scalar(i.blinding)
  BY DEF pedersen_try_from, Ok, Err
<1>3. /\ is_element(i.encoding_id)
      /\ \A k \in DOMAIN i.stream : is_element(i.stream[k])
  BY <1>1, <1>2, ParsedTexts
<1>4. i.stream \in Seq(F)
  BY <1>1, <1>3, ParsedSequence
<1> QED
  BY <1>2, <1>3, <1>4 DEF TextLaws

LEMMA PedersenTells ==
  ASSUME NEW F, NEW P, NEW K, NEW T, Laws(F, P, K), TextLaws(F, P, K, T),
         NEW i \in ProverInputs("pedersen_opens_to"), pedersen_try_from(i).ok,
         has_shape("pedersen_opens_to", i), Holds("pedersen_opens_to", i)
  PROVE  PedersenTold(i.commitment, i.encoding_id, i.claimed_first_value)
<1> SUFFICES ASSUME NEW payload \in Payloads, NEW b \in Blindings,
                    OpeningOf(payload, b).commitment = i.commitment
             PROVE  /\ fq_to_fr(i.encoding_id) = fq_to_fr(payload.encoding_id)
                    /\ fq_to_fr(i.claimed_first_value) = fq_to_fr(payload.stream[1])
  BY DEF PedersenTold
<1> DEFINE s == augmented_stream(i.encoding_id, i.stream)
           t == augmented_stream(payload.encoding_id, payload.stream)
<1>1. i.encoding_id \in F /\ i.stream \in Seq(F) /\ i.blinding \in K
  BY ParsedOpening
<1>2. Len(i.stream) > 0
  BY CircuitAssumption DEF has_shape
<1>3. /\ payload.encoding_id \in F /\ payload.stream \in Seq(F) /\ payload.stream # <<>>
      /\ b \in K
  BY MailboxAssumption DEF Laws, InputLaws, Payload, TextLaws
<1>4. Len(payload.stream) > 0
  BY <1>3
<1>5. /\ s \in Seq(F) /\ {1, 2} \subseteq DOMAIN s
      /\ s[1] = i.encoding_id /\ s[2] = i.stream[1]
  BY <1>1, <1>2, AugmentedWords
<1>6. /\ t \in Seq(F) /\ {1, 2} \subseteq DOMAIN t
      /\ t[1] = payload.encoding_id /\ t[2] = payload.stream[1]
  BY <1>3, <1>4, AugmentedWords
<1>7. commit(s, i.blinding) = i.commitment /\ i.stream[1] = i.claimed_first_value
  BY DEF Holds, augmented_stream
<1>8. commit(t, b) = i.commitment
  BY DEF OpeningOf
<1> HIDE DEF s, t
<1>9. \A k \in DOMAIN s \cap DOMAIN t : fq_to_fr(s[k]) = fq_to_fr(t[k])
  BY <1>1, <1>3, <1>5, <1>6, <1>7, <1>8 DEF TextLaws
<1>10. 1 \in DOMAIN s \cap DOMAIN t /\ 2 \in DOMAIN s \cap DOMAIN t
  BY <1>5, <1>6
<1> QED
  BY <1>5, <1>6, <1>7, <1>9, <1>10

-----------------------------------------------------------------------------
(* Verifying. The invariant: a proof a prover returned, but for junk, is of *)
(* the public inputs it was made for, and these tell the truth.             *)

Told(circuit, p) ==
    CASE circuit = "envelope_open_at_0" -> EnvelopeTold(p.signal, p.claimed_value)
      [] circuit = "pedersen_opens_to" ->
             PedersenTold(p.commitment, p.encoding_id, p.claimed_first_value)

GoodProof(circuit, i, proof) ==
    /\ try_from(circuit, i).ok
    /\ proof.public = try_from(circuit, i).value.public
    /\ Told(circuit, i)

Proven(c) ==
    c.op \in {"prove_route", "prove_wasm"} =>
        /\ c.circuit \in Circuits
        /\ c.reply.ok /\ c.reply.value # junk => GoodProof(c.circuit, c.inputs, c.reply.value)

\* What satisfies a circuit tells the truth.
LEMMA InputsTell ==
  ASSUME NEW F, NEW P, NEW K, NEW T, Laws(F, P, K), CircuitLaws(P, K), TextLaws(F, P, K, T),
         MailSealed(F, P),
         NEW circuit \in Circuits, NEW i \in ProverInputs(circuit),
         has_shape(circuit, i), try_from(circuit, i).ok, Holds(circuit, i)
  PROVE  Told(circuit, i)
<1>1. CASE circuit = "envelope_open_at_0"
  <2>1. i \in EnvelopeInputs /\ envelope_try_from(i).ok
    BY <1>1 DEF ProverInputs, try_from
  <2> QED
    BY <1>1, <2>1, EnvelopeTells DEF Told
<1>2. CASE circuit = "pedersen_opens_to"
  <2>1. pedersen_try_from(i).ok
    BY <1>2 DEF try_from
  <2> QED
    BY <1>2, <2>1, PedersenTells DEF Told
<1> QED
  BY <1>1, <1>2 DEF Circuits

\* Whatever a prover returns but junk is made of the inputs it was given.
LEMMA ProofOfInputs ==
  ASSUME NEW circuit, NEW instance, NEW pk, NEW debug \in BOOLEAN,
         NEW reply, reply = prove(circuit, instance, pk, debug),
         reply.ok, reply.value # junk
  PROVE  reply.value.public = instance.public
<1>1. CASE satisfied(circuit, instance)
  BY <1>1 DEF prove, Ok
<1>2. CASE ~satisfied(circuit, instance) /\ debug
  BY <1>2 DEF prove, Err
<1>3. CASE ~satisfied(circuit, instance) /\ ~debug
  BY <1>3 DEF prove, Ok
<1> QED
  BY <1>1, <1>2, <1>3

LEMMA RouteProof ==
  ASSUME NEW circuit, NEW i, NEW debug \in BOOLEAN,
         NEW reply, reply = prove_route(circuit, i, debug), reply.ok, reply.value # junk
  PROVE  reply.value.public = try_from(circuit, i).value.public
<1> DEFINE instance == try_from(circuit, i)
           proof == prove(circuit, instance.value, registry[circuit], debug)
<1>1. /\ ~Status("rejected JSON").ok /\ ~Status("UnknownCircuit").ok
      /\ ~Status("BadInputs").ok /\ ~Status("panic").ok
  BY StatusErr
<1>2. /\ has_shape(circuit, i) /\ circuit \in DOMAIN registry /\ instance.ok
      /\ reply = IF proof.ok THEN proof ELSE Status("panic")
  BY <1>1 DEF prove_route
<1> HIDE DEF proof, instance
<1>3. proof.ok /\ reply = proof
  BY <1>1, <1>2
<1> QED
  BY <1>3, ProofOfInputs DEF proof, instance

LEMMA WasmProof ==
  ASSUME NEW circuit, NEW i, NEW pk, NEW debug \in BOOLEAN,
         NEW reply, reply = prove_wasm(circuit, i, pk, debug), reply.ok, reply.value # junk
  PROVE  reply.value.public = try_from(circuit, i).value.public
<1> DEFINE instance == try_from(circuit, i)
           key == deserialize_key(pk)
<1>1. has_shape(circuit, i) /\ instance.ok /\ key.ok
        /\ reply = prove(circuit, instance.value, key.value, debug)
  BY Refused DEF prove_wasm
<1> QED
  BY <1>1, ProofOfInputs

LEMMA ProvenCall ==
  ASSUME NEW F, NEW P, NEW K, NEW T, Laws(F, P, K), CircuitLaws(P, K), TextLaws(F, P, K, T),
         MailSealed(F, P),
         NEW op, NEW circuit \in Circuits, NEW i \in ProverInputs(circuit), NEW pk, NEW reply,
         Proves(op, circuit, i, pk, reply), Outcome(circuit, i, pk, reply),
         reply.ok /\ reply.value # junk
             => reply.value.public = try_from(circuit, i).value.public
  PROVE  Proven(call)'
<1>1. /\ call' = [op |-> op, circuit |-> circuit, inputs |-> i, pk |-> pk, reply |-> reply]
      /\ UNCHANGED mail
  BY DEF Proves
<1>2. ASSUME reply.ok, reply.value # junk
      PROVE  GoodProof(circuit, i, reply.value)'
  <2>1. has_shape(circuit, i) /\ try_from(circuit, i).ok /\ Holds(circuit, i)
    BY <1>2 DEF Outcome, Whole
  <2>2. Told(circuit, i)
    BY <2>1, InputsTell
  <2>3. Told(circuit, i)'
    BY <1>1, <2>2 DEF Told, EnvelopeTold, PedersenTold
  <2> QED
    BY <1>2, <2>1, <2>3 DEF GoodProof
<1> QED
  BY <1>1, <1>2 DEF Proven

LEMMA ClientProof ==
  ASSUME NEW i, NEW debug \in BOOLEAN, NEW reply,
         reply = proveCommitmentOpening(i.commitment, i, i.claimed_first_value, debug),
         reply.ok, reply.value # junk
  PROVE  reply.value.public = try_from("pedersen_opens_to", i).value.public
<1> DEFINE body == [commitment |-> i.commitment, encoding_id |-> i.encoding_id,
                    claimed_first_value |-> i.claimed_first_value,
                    stream |-> i.stream, blinding |-> i.blinding]
<1>1. reply = prove_route("pedersen_opens_to", body, debug)
  BY Refused DEF proveCommitmentOpening
<1>2. /\ body.commitment = i.commitment /\ body.encoding_id = i.encoding_id
      /\ body.claimed_first_value = i.claimed_first_value
      /\ body.stream = i.stream /\ body.blinding = i.blinding
  OBVIOUS
<1> HIDE DEF body
<1>3. reply.value.public = try_from("pedersen_opens_to", body).value.public
  BY <1>1, RouteProof
<1>4. try_from("pedersen_opens_to", body) = try_from("pedersen_opens_to", i)
  BY <1>2 DEF try_from, pedersen_try_from
<1> QED
  BY <1>3, <1>4

\* The provers make good proofs.
LEMMA ProvenSteps ==
  ASSUME NEW F, NEW P, NEW K, NEW T, Laws(F, P, K), CircuitLaws(P, K), TextLaws(F, P, K, T),
         MailSealed(F, P), NEW circuit \in Circuits,
         ProveOnServer(circuit) \/ ProveInBrowser(circuit) \/ ProveThroughClient
  PROVE  Proven(call)'
<1>1. CASE ProveOnServer(circuit)
  <2>1. PICK i \in ProverInputs(circuit), debug \in BOOLEAN :
          Proves("prove_route", circuit, i, registry[circuit], prove_route(circuit, i, debug))
    BY <1>1 DEF ProveOnServer
  <2>2. Outcome(circuit, i, registry[circuit], prove_route(circuit, i, debug))
    BY RouteOutcome
  <2> QED
    BY <2>1, <2>2, RouteProof, ProvenCall
<1>2. CASE ProveInBrowser(circuit)
  <2>1. PICK i \in ProverInputs(circuit) :
          \E pk \in IF i \in Claims \cup Openings THEN HeldKeys(circuit) ELSE {registry[circuit]} :
              Proves("prove_wasm", circuit, i, pk, prove_wasm(circuit, i, pk, FALSE))
    BY <1>2 DEF ProveInBrowser
  <2>2. PICK pk : Proves("prove_wasm", circuit, i, pk, prove_wasm(circuit, i, pk, FALSE))
    BY <2>1
  <2>3. Outcome(circuit, i, pk, prove_wasm(circuit, i, pk, FALSE))
    BY WasmOutcome
  <2> QED
    BY <2>2, <2>3, WasmProof, ProvenCall
<1>3. CASE ProveThroughClient
  <2>1. PICK i \in ProverInputs("pedersen_opens_to"), debug \in BOOLEAN :
          Proves("prove_route", "pedersen_opens_to", i, registry["pedersen_opens_to"],
                 proveCommitmentOpening(i.commitment, i, i.claimed_first_value, debug))
    BY <1>3 DEF ProveThroughClient
  <2>2. Outcome("pedersen_opens_to", i, registry["pedersen_opens_to"],
                proveCommitmentOpening(i.commitment, i, i.claimed_first_value, debug))
    BY ClientOutcome
  <2>3. "pedersen_opens_to" \in Circuits
    BY DEF Circuits
  <2> QED
    BY <2>1, <2>2, <2>3, ClientProof, ProvenCall
<1> QED
  BY <1>1, <1>2, <1>3

\* A proof is accepted only under a key that is whole, for the public inputs of
\* the request.
Accepted(circuit, p, proof) ==
    \E key : key # Torn /\ proof = [key |-> key, public |-> pack_public_inputs(circuit, p)]

LEMMA VerifyAccepts ==
  ASSUME NEW vk, NEW public, NEW proof
  PROVE  /\ verify(vk, public, proof) = Ok(TRUE) => proof = [key |-> vk, public |-> public]
         /\ verify(vk, public, proof).value => proof = [key |-> vk, public |-> public]
<1>1. CASE proof = [key |-> vk, public |-> public]
  BY <1>1
<1>2. CASE proof # [key |-> vk, public |-> public]
  <2>1. verify(vk, public, proof) = Ok(FALSE)
    BY <1>2 DEF verify
  <2> QED
    BY <2>1 DEF Ok
<1> QED
  BY <1>1, <1>2

\* The texts of the public inputs, packed.
LEMMA PackedInputs ==
  ASSUME NEW circuit \in Circuits, NEW p, public_inputs_from(circuit, p).ok
  PROVE  public_inputs_from(circuit, p).value = pack_public_inputs(circuit, p)
<1>1. CASE circuit = "envelope_open_at_0"
  BY <1>1 DEF public_inputs_from, envelope_public_inputs_from, pack_public_inputs, Ok, Err
<1>2. CASE circuit = "pedersen_opens_to"
  BY <1>2 DEF public_inputs_from, pedersen_public_inputs_from, pack_public_inputs, Ok, Err
<1> QED
  BY <1>1, <1>2 DEF Circuits

LEMMA NotAccepted == \A e : Err(e) # Ok(TRUE)
  BY DEF Ok, Err

LEMMA OkAccepted == \A r : r = Ok(TRUE) => r.ok
  BY DEF Ok

LEMMA RouteAccepts ==
  ASSUME NEW circuit \in Circuits, NEW p, NEW bytes,
         verify_route(circuit, p, bytes) = Ok(TRUE)
  PROVE  Accepted(circuit, p, bytes)
<1> DEFINE inputs == public_inputs_from(circuit, p)
           proof == deserialize_proof(bytes)
<1>1. /\ Status("UnknownCircuit") # Ok(TRUE) /\ Status("BadInputs") # Ok(TRUE)
      /\ Status("BadProofBytes") # Ok(TRUE)
  BY StatusErr, OkAccepted
<1>2. /\ inputs.ok /\ proof.ok
      /\ verify(registry[circuit], inputs.value, proof.value) = Ok(TRUE)
  BY <1>1 DEF verify_route
<1>3. proof.value = bytes
  BY <1>2 DEF deserialize_proof, Ok, Err
<1> HIDE DEF proof
<1>4. inputs.value = pack_public_inputs(circuit, p)
  BY <1>2, PackedInputs
<1> HIDE DEF inputs
<1>5. bytes = [key |-> registry[circuit], public |-> inputs.value]
  BY <1>2, <1>3, VerifyAccepts
<1> QED
  BY <1>4, <1>5, KeysWhole DEF Accepted

LEMMA WasmAccepts ==
  ASSUME NEW circuit \in Circuits, NEW p, NEW bytes, NEW vk_bytes,
         verify_wasm(circuit, p, bytes, vk_bytes) = Ok(TRUE)
  PROVE  Accepted(circuit, p, bytes)
<1> DEFINE inputs == public_inputs_from(circuit, p)
           proof == deserialize_proof(bytes)
           vk == deserialize_key(vk_bytes)
<1>1. inputs.ok /\ proof.ok /\ vk.ok /\ verify(vk.value, inputs.value, proof.value) = Ok(TRUE)
  BY OkAccepted DEF verify_wasm
<1>2. proof.value = bytes
  BY <1>1 DEF deserialize_proof, Ok, Err
<1>3. vk.value # Torn
  BY <1>1 DEF deserialize_key, Ok, Err
<1> HIDE DEF proof, vk
<1>4. inputs.value = pack_public_inputs(circuit, p)
  BY <1>1, PackedInputs
<1> HIDE DEF inputs
<1>5. bytes = [key |-> vk.value, public |-> inputs.value]
  BY <1>1, <1>2, VerifyAccepts
<1> QED
  BY <1>3, <1>4, <1>5 DEF Accepted

LEMMA ChainAccepts ==
  ASSUME NEW circuit \in Circuits, NEW p, NEW bytes,
         verify_on_chain(circuit, p, bytes) = Ok(TRUE)
  PROVE  Accepted(circuit, p, bytes)
<1> DEFINE inputs == pack_public_inputs(circuit, p)
           proof == deserialize_proof(bytes)
<1>1. proof.ok /\ verify(exported_vk(circuit), inputs, proof.value).value
  BY NotAccepted DEF verify_on_chain
<1>2. proof.value = bytes
  BY <1>1 DEF deserialize_proof, Ok, Err
<1> HIDE DEF proof, inputs
<1>3. bytes = [key |-> exported_vk(circuit), public |-> inputs]
  BY <1>1, <1>2, VerifyAccepts
<1>4. exported_vk(circuit) # Torn
  BY DEF exported_vk, key_pair, Torn, Circuits
<1> QED
  BY <1>3, <1>4 DEF Accepted, inputs

\* A request is about the proof that was made, or torn.
LEMMA RequestProof ==
  ASSUME NEW r \in Requests
  PROVE  r.proof \in {call.reply.value, torn_proof}
<1> DEFINE own == PublicPart(call.circuit, call.inputs)
           proof == call.reply.value
           others == {PublicPart(call.circuit, i) : i \in Others(call.circuit)}
           publics == IF proof = junk THEN {own} ELSE Combined(own, others)
<1>1. \/ \E p \in publics : r = [public |-> p, proof |-> proof]
      \/ r = [public |-> own, proof |-> torn_proof]
  BY DEF Requests
<1> HIDE DEF publics, own, proof
<1> QED
  BY <1>1 DEF proof

\* The public inputs of a request about a commitment.
PedersenParts == {"commitment", "encoding_id", "claimed_first_value"}

LEMMA RequestParts ==
  ASSUME NEW F, NEW P, NEW K, NEW T, Laws(F, P, K), CircuitLaws(P, K), TextLaws(F, P, K, T),
         call.circuit = "pedersen_opens_to", call.inputs.commitment \in P, NEW r \in Requests
  PROVE  r.public.commitment \in P
<1> DEFINE own == PublicPart(call.circuit, call.inputs)
           others == {PublicPart(call.circuit, i) : i \in Others(call.circuit)}
<1>1. \A i : /\ PublicPart(call.circuit, i) = [f \in PedersenParts |-> i[f]]
             /\ PublicPart(call.circuit, i).commitment = i.commitment
  BY DEF PublicPart, PedersenParts
<1>2. ASSUME NEW i \in Others(call.circuit) PROVE i.commitment \in P
  <2>1. i \in Openings \cup OddOpenings
    BY DEF Others
  <2>2. CASE i \in Openings
    <3>1. PICK q \in Payloads, c \in Blindings : i = OpeningOf(q, c)
      BY <2>2 DEF Openings
    <3> QED
      BY <3>1 DEF OpeningOf, CircuitLaws
  <2>3. CASE i \in OddOpenings
    BY <2>3 DEF TextLaws
  <2> QED
    BY <2>1, <2>2, <2>3
<1>3. DOMAIN own = PedersenParts /\ own.commitment \in P
  BY <1>1
<1>4. \A d \in others : d.commitment \in P
  BY <1>1, <1>2
<1>5. r.public = own \/ r.public \in Combined(own, others)
  BY DEF Requests
<1> HIDE DEF own, others
<1>6. CASE r.public = own
  BY <1>3, <1>6
<1>7. CASE r.public \in Combined(own, others)
  <2>1. PICK d \in others : \A f \in DOMAIN own : r.public[f] \in {own[f], d[f]}
    BY <1>7, CombinedFields
  <2>2. r.public.commitment \in {own.commitment, d.commitment}
    BY <1>3, <2>1 DEF PedersenParts
  <2> QED
    BY <1>3, <1>4, <2>2
<1> QED
  BY <1>5, <1>6, <1>7

\* What a request is told of, if its proof is accepted.
LEMMA AcceptedTold ==
  ASSUME NEW F, NEW P, NEW K, NEW T, Laws(F, P, K), CircuitLaws(P, K), TextLaws(F, P, K, T),
         Proven(call), Proved, NEW r \in Requests, r.proof # torn_proof,
         Accepted(call.circuit, r.public, r.proof)
  PROVE  call.circuit \in Circuits /\ Told(call.circuit, r.public)
<1> DEFINE p == r.public
           i == call.inputs
           proof == call.reply.value
<1>1. r.proof = proof
  BY RequestProof
<1>2. PICK key : key # Torn /\ proof = [key |-> key, public |-> pack_public_inputs(call.circuit, p)]
  BY <1>1 DEF Accepted
<1>3. proof # junk
  BY <1>2 DEF junk
<1>4. GoodProof(call.circuit, i, proof)
  BY <1>3 DEF Proved, Proven
<1>5. call.circuit \in Circuits /\ try_from(call.circuit, i).ok /\ Told(call.circuit, i)
  BY <1>4 DEF GoodProof, Proved, Proven
<1>6. pack_public_inputs(call.circuit, p) = try_from(call.circuit, i).value.public
  BY <1>2, <1>4 DEF GoodProof
<1> HIDE DEF proof
<1>7. CASE call.circuit = "envelope_open_at_0"
  <2>1. try_from(call.circuit, i).value.public = <<i.signal, i.claimed_value>>
    BY <1>5, <1>7 DEF try_from, envelope_try_from, Ok, Err
  <2>2. pack_public_inputs(call.circuit, p) = <<p.signal, p.claimed_value>>
    BY <1>7 DEF pack_public_inputs
  <2>3. p.signal = i.signal /\ p.claimed_value = i.claimed_value
    BY <1>6, <2>1, <2>2
  <2> QED
    BY <1>5, <1>7, <2>3 DEF Told
<1>8. CASE call.circuit = "pedersen_opens_to"
  <2>1. i.commitment \in P
    BY <1>5, <1>8 DEF try_from, pedersen_try_from, Ok, Err, Laws, PointLaws
  <2>2. p.commitment \in P
    BY <1>8, <2>1, RequestParts
  <2> DEFINE u == PedersenInputs(i.commitment, i.encoding_id, i.claimed_first_value)
             v == PedersenInputs(p.commitment, p.encoding_id, p.claimed_first_value)
  <2>3. try_from(call.circuit, i).value.public = u
    BY <1>5, <1>8 DEF try_from, pedersen_try_from, PedersenInputs, Ok, Err
  <2>4. pack_public_inputs(call.circuit, p) = v
    BY <1>8 DEF pack_public_inputs, PedersenInputs
  <2>5. u = v
    BY <1>6, <2>3, <2>4
  <2>6. <<u[1], u[2]>> = coords(i.commitment) /\ u[3] = i.encoding_id /\ u[4] = i.claimed_first_value
    BY <2>1, PedersenPublic
  <2>7. <<v[1], v[2]>> = coords(p.commitment) /\ v[3] = p.encoding_id /\ v[4] = p.claimed_first_value
    BY <2>2, PedersenPublic
  <2> HIDE DEF u, v
  <2>8. coords(i.commitment) = coords(p.commitment)
    BY <2>5, <2>6, <2>7
  <2>9. p.commitment = i.commitment
    BY <2>1, <2>2, <2>8 DEF Laws, PointLaws
  <2>10. p.encoding_id = i.encoding_id /\ p.claimed_first_value = i.claimed_first_value
    BY <2>5, <2>6, <2>7
  <2> QED
    BY <1>5, <1>8, <2>2, <2>9, <2>10 DEF Told
<1> QED
  BY <1>5, <1>7, <1>8 DEF Circuits

\* What an accepted verification says is the truth.
VerdictTrue(c) ==
    (c.op = "verify" /\ c.reply = Ok(TRUE)) =>
        c.circuit \in Circuits /\ Told(c.circuit, c.public)

LEMMA TornRefused ==
  /\ ~deserialize_proof(torn_proof).ok
  /\ \A p, vk : \A circuit \in Circuits :
         /\ verify_route(circuit, p, torn_proof) # Ok(TRUE)
         /\ verify_wasm(circuit, p, torn_proof, vk) # Ok(TRUE)
         /\ verify_on_chain(circuit, p, torn_proof) # Ok(TRUE)
<1>1. ~deserialize_proof(torn_proof).ok
  BY DEF deserialize_proof, Err
<1>2. ASSUME NEW circuit \in Circuits, NEW p
      PROVE  verify_route(circuit, p, torn_proof) # Ok(TRUE)
  <2>1. verify_route(circuit, p, torn_proof)
          \in {Status("UnknownCircuit"), Status("BadInputs"), Status("BadProofBytes")}
    BY <1>1 DEF verify_route
  <2> QED
    BY <2>1, StatusErr, OkAccepted
<1>3. \A p, vk : \A circuit \in Circuits : verify_wasm(circuit, p, torn_proof, vk) # Ok(TRUE)
  BY <1>1, OkAccepted DEF verify_wasm
<1>4. \A p : \A circuit \in Circuits : verify_on_chain(circuit, p, torn_proof) # Ok(TRUE)
  BY <1>1, NotAccepted DEF verify_on_chain
<1> QED
  BY <1>1, <1>2, <1>3, <1>4

\* A request is answered in one of the three ways.
Answered(r, reply) ==
    /\ Verifies("verify", r, reply)
    /\ \/ reply = verify_route(call.circuit, r.public, r.proof)
       \/ \E vk \in HeldKeys(call.circuit) :
              reply = verify_wasm(call.circuit, r.public, r.proof, vk)
       \/ reply = verify_on_chain(call.circuit, r.public, r.proof)

LEMMA VerifySteps ==
  ASSUME NEW F, NEW P, NEW K, NEW T, Laws(F, P, K), CircuitLaws(P, K), TextLaws(F, P, K, T),
         Proven(call), VerifyOnServer \/ VerifyInBrowser \/ VerifyOnChain
  PROVE  VerdictTrue(call)'
<1>1. Proved
  BY DEF VerifyOnServer, VerifyInBrowser, VerifyOnChain
<1>2. PICK reply : \E r \in Requests : Answered(r, reply)
  BY DEF VerifyOnServer, VerifyInBrowser, VerifyOnChain, Answered
<1>3. PICK r \in Requests : Answered(r, reply)
  BY <1>2
<1>4. /\ call' = [op |-> "verify", circuit |-> call.circuit, public |-> r.public, reply |-> reply]
      /\ UNCHANGED mail
  BY <1>3 DEF Answered, Verifies
<1>5. ASSUME reply = Ok(TRUE)
      PROVE  call.circuit \in Circuits /\ Told(call.circuit, r.public)
  <2>1. call.circuit \in Circuits
    BY <1>1 DEF Proved, Proven
  <2>2. r.proof # torn_proof
    BY <1>3, <1>5, <2>1, TornRefused DEF Answered
  <2>3. Accepted(call.circuit, r.public, r.proof)
    BY <1>3, <1>5, <2>1, RouteAccepts, WasmAccepts, ChainAccepts DEF Answered
  <2> QED
    BY <1>1, <2>2, <2>3, AcceptedTold
<1>6. ASSUME reply = Ok(TRUE)
      PROVE  Told(call.circuit, r.public)' /\ call'.circuit = call.circuit
  BY <1>4, <1>5, <1>6 DEF Told, EnvelopeTold, PedersenTold
<1> QED
  BY <1>4, <1>5, <1>6 DEF VerdictTrue, Told

\* The invariant of proofs and verdicts.
ProofsTrue == Proven(call) /\ VerdictTrue(call)

LEMMA ProofsStep ==
  ASSUME NEW F, NEW P, NEW K, NEW T, Laws(F, P, K), CircuitLaws(P, K), TextLaws(F, P, K, T),
         MailSealed(F, P), ProofsTrue, [Next]_vars
  PROVE  ProofsTrue'
<1>1. ASSUME call'.op \notin {"prove_route", "prove_wasm", "verify"} PROVE ProofsTrue'
  BY <1>1 DEF ProofsTrue, Proven, VerdictTrue
<1>2. CASE UNCHANGED vars
  <2>1. call' = call /\ mail' = mail
    BY <1>2 DEF vars
  <2> QED
    BY <2>1 DEF ProofsTrue, Proven, VerdictTrue, GoodProof, Told, EnvelopeTold, PedersenTold
<1>3. CASE \E a \in Accounts : Register(a) \/ OpenInApp(a) \/ OpenNative(a)
  <2>1. call'.op \in {"none", "open", "open_texts"}
    BY <1>3 DEF Register, OpenInApp, OpenNative, Idle, NoCall
  <2> QED
    BY <1>1, <2>1
<1>4. CASE \E a, b \in Accounts, payload \in Payloads : Send(a, b, payload)
  <2>1. call'.op = "none"
    BY <1>4 DEF Send, Idle, NoCall
  <2> QED
    BY <1>1, <2>1
<1>5. CASE \E circuit \in Circuits :
             ProveOnServer(circuit) \/ ProveInBrowser(circuit) \/ Setup(circuit)
  <2>1. PICK circuit \in Circuits :
          ProveOnServer(circuit) \/ ProveInBrowser(circuit) \/ Setup(circuit)
    BY <1>5
  <2>2. CASE ProveOnServer(circuit) \/ ProveInBrowser(circuit)
    <3>1. Proven(call)'
      BY <2>2, ProvenSteps
    <3>2. call'.op \in {"prove_route", "prove_wasm"}
      <4>1. CASE ProveOnServer(circuit)
        BY <4>1 DEF ProveOnServer, Proves
      <4>2. CASE ProveInBrowser(circuit)
        BY <4>2 DEF ProveInBrowser, Proves
      <4> QED
        BY <2>2, <4>1, <4>2
    <3> QED
      BY <3>1, <3>2 DEF ProofsTrue, VerdictTrue
  <2>3. CASE Setup(circuit)
    BY <1>1, <2>3 DEF Setup
  <2> QED
    BY <2>1, <2>2, <2>3
<1>6. CASE ProveThroughClient
  <2>1. Proven(call)'
    BY <1>6, ProvenSteps DEF Circuits
  <2>2. call'.op = "prove_route"
    BY <1>6 DEF ProveThroughClient, Proves
  <2> QED
    BY <2>1, <2>2 DEF ProofsTrue, VerdictTrue
<1>7. CASE VerifyOnServer \/ VerifyInBrowser \/ VerifyOnChain
  <2>1. VerdictTrue(call)'
    BY <1>7, VerifySteps DEF ProofsTrue
  <2>2. call'.op = "verify"
    BY <1>7 DEF VerifyOnServer, VerifyInBrowser, VerifyOnChain, Verifies
  <2> QED
    BY <2>1, <2>2 DEF ProofsTrue, Proven
<1>8. CASE Returned
  BY <1>1, <1>8 DEF Returned, NoCall
<1> QED
  BY <1>2, <1>3, <1>4, <1>5, <1>6, <1>7, <1>8 DEF Next

LEMMA ProofsTrueImplies ==
  ASSUME ProofsTrue
  PROVE  VerifiedMeansTrue
  BY DEF ProofsTrue, VerdictTrue, Told, EnvelopeTold, PedersenTold, VerifiedMeansTrue

\* An accepted proof can be relied on without the witnesses, on the server, in
\* the browser and on the chain, whoever made it of whatever: a posted envelope
\* that has the signal begins with the claimed word, and a commitment that was
\* made to a payload was made under the encoding id and to the word that are
\* claimed, or to ones that are the same scalars.
THEOREM VerifiedTellTruth ==
  ASSUME NEW F, NEW P, NEW K, NEW T, Laws(F, P, K), CircuitLaws(P, K), TextLaws(F, P, K, T)
  PROVE  Spec => []VerifiedMeansTrue
<1>1. Init => ProofsTrue
  BY DEF Init, NoCall, ProofsTrue, Proven, VerdictTrue
<1>2. KeysKnown /\ MailSealed(F, P) /\ ProofsTrue /\ [Next]_vars => ProofsTrue'
  BY ProofsStep
<1>3. ProofsTrue => VerifiedMeansTrue
  BY ProofsTrueImplies
<1> QED
  BY <1>1, <1>2, <1>3, MailInvariant, PTL DEF Spec

=============================================================================
