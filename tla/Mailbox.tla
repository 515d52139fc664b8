------------------------------ MODULE Mailbox ------------------------------
(* Accounts publish keys, seal payloads to each other and open what they    *)
(* get; a recipient proves the first word of an envelope, and others verify *)
(* the proof. What is opened, proved or verified may have been altered on   *)
(* its way. `call` is the last call of an open, a prove or a verify.        *)
EXTENDS ProofService, Integers, Sequences, FiniteSets

CONSTANTS
    Accounts,
    Secret(_, _),   \* the secret key of an account and a version
    Payloads,
    MaxVersion(_),  \* bound on the keys of an account
    MaxMail,        \* bound on the envelopes
    OddEnvelopes,   \* envelopes that nobody sealed, to take fields from
    OddInputs, OddOpenings,  \* inputs of provers, to take fields from
    MaxAltered,     \* bound on the fields a prover's input has from another
    Blindings,
    fq_to_fr(_)     \* the scalar that commit makes of an element

VARIABLES keys, mail, call

vars == <<keys, mail, call>>

NoCall == [op |-> "none"]
Idle == call = NoCall

\* Keys are published as the canonical texts of their point.
text_of(point) == [point |-> point, spelling |-> 0]
public_key(a, version) == mul(Secret(a, version), generator)

Versions(a) == 1..keys[a]

\* The keys there may be, by account and version, and the points that may be
\* named as senders.
KeyNames == UNION {{a} \X (1..MaxVersion(a)) : a \in Accounts}
PublicKeys == {public_key(k[1], k[2]) : k \in KeyNames}
Senders == PublicKeys \cup {d.sender_pk.point : d \in OddEnvelopes}

\* Keys are points. The two sides of ECDH agree, and no other pair of keys, and
\* no point taken from elsewhere, has the same shared point.
ASSUME MailboxAssumption ==
    /\ MaxMail \in Nat /\ MaxAltered \in Nat
    /\ \A a \in Accounts : MaxVersion(a) \in Nat
    /\ \A p \in Payloads : p.stream # <<>>
    /\ PublicKeys \subseteq ValidPoints
    /\ \A k, l \in KeyNames :
           mul(Secret(k[1], k[2]), public_key(l[1], l[2]))
               = mul(Secret(l[1], l[2]), public_key(k[1], k[2]))
    /\ \A k, l, r \in KeyNames, p \in Senders :
           mul(Secret(r[1], r[2]), p) = mul(Secret(k[1], k[2]), public_key(l[1], l[2]))
               => {p, public_key(r[1], r[2])} = {public_key(k[1], k[2]), public_key(l[1], l[2])}

Init ==
    /\ keys = [a \in Accounts |-> 0]
    /\ mail = <<>>
    /\ call = NoCall

\* keys[a] is the version of the key of `a` in the registry.
Register(a) ==
    /\ Idle
    /\ keys[a] < MaxVersion(a)
    /\ keys' = [keys EXCEPT ![a] = @ + 1]
    /\ UNCHANGED <<mail, call>>

\* An envelope with what only its parties know of it.
letter(from, to, envelope_id, payload) ==
    [from |-> from, to |-> to, payload |-> payload,
     envelope |-> seal_texts(Secret(from[1], from[2]), text_of(public_key(from[1], from[2])),
                             text_of(public_key(to[1], to[2])), envelope_id, payload)]

\* The id of an envelope is drawn afresh.
Send(a, b, payload) ==
    /\ Idle
    /\ Len(mail) < MaxMail
    /\ keys[a] > 0
    /\ keys[b] > 0
    /\ mail' = Append(mail, letter(<<a, keys[a]>>, <<b, keys[b]>>, field(Len(mail) + 1), payload))
    /\ UNCHANGED <<keys, call>>

-----------------------------------------------------------------------------
(* An account opens an envelope as it was posted, or one whose fields come  *)
(* from another, whose ciphertext is cut or longer, whose recipient is      *)
(* written beyond the prime, or whose two keys are exchanged.               *)

Posted == {mail[n].envelope : n \in DOMAIN mail}

Reshaped(e) ==
    {[e EXCEPT !.ciphertext = Tail(@)],
     [e EXCEPT !.ciphertext = Append(@, e.mac_tag)],
     [e EXCEPT !.recipient_pk.spelling = 1],
     [e EXCEPT !.sender_pk = e.recipient_pk, !.recipient_pk = e.sender_pk]}

Mixed(e, others) == {[e EXCEPT ![f] = d[f]] : f \in DOMAIN e, d \in others}

Received == UNION {Mixed(e, Posted \cup OddEnvelopes) \cup Reshaped(e) : e \in Posted}

\* The app holds the newest key of its account only.
OpenInApp(a) == Idle /\ \E e \in Received :
    /\ keys[a] > 0
    /\ call' = [op |-> "open_texts", reader |-> <<a, keys[a]>>, envelope |-> e,
                reply |-> open_texts(Secret(a, keys[a]), text_of(public_key(a, keys[a])), e)]
    /\ UNCHANGED <<keys, mail>>

\* A caller of the crate has decoded the sender's point.
OpenNative(a) ==
    Idle /\ \E v \in Versions(a), e \in {d \in Received : d.sender_pk.point \in ValidPoints} :
    /\ call' = [op |-> "open", reader |-> <<a, v>>, envelope |-> e,
                reply |-> open(Secret(a, v), public_key(a, v), FromTexts(e))]
    /\ UNCHANGED <<keys, mail>>

-----------------------------------------------------------------------------
(* Proofs: of the first word of an envelope, or of an opened commitment.    *)

\* What the recipient of m sends to prove its first word.
ClaimOf(m) ==
    LET e == FromTexts(m.envelope)
    IN  [signal |-> compute_signal_native(e), claimed_value |-> m.payload.stream[1],
         recipient_sk |-> Secret(m.to[1], m.to[2]),
         sender_pk |-> e.sender_pk, recipient_pk |-> e.recipient_pk,
         envelope_id |-> e.envelope_id, encoding_id |-> e.encoding_id,
         ciphertext |-> e.ciphertext, mac_tag |-> e.mac_tag]

\* The newest envelope, and what its sender might have sealed in its place: an
\* envelope that is not posted can be proved about as well.
Drafts == {letter(mail[n].from, mail[n].to, field(n), payload) :
               n \in DOMAIN mail \cap {Len(mail)}, payload \in Payloads}

Claims == {ClaimOf(mail[n]) : n \in DOMAIN mail} \cup {ClaimOf(m) : m \in Drafts}

OpeningOf(payload, blinding) ==
    [commitment |-> commit(augmented_stream(payload.encoding_id, payload.stream), blinding),
     encoding_id |-> payload.encoding_id, claimed_first_value |-> payload.stream[1],
     stream |-> payload.stream, blinding |-> blinding]

\* Commitments and keys share nothing: these calls come before any key.
NoKeys == \A a \in Accounts : keys[a] = 0
Openings == IF NoKeys THEN {OpeningOf(p, b) : p \in Payloads, b \in Blindings} ELSE {}

Others(circuit) ==
    CASE circuit = "envelope_open_at_0" -> Claims \cup OddInputs
      [] circuit = "pedersen_opens_to" -> Openings \cup OddOpenings

Combined(i, others) ==
    {[f \in DOMAIN i |-> IF f \in altered THEN d[f] ELSE i[f]] :
         altered \in {S \in SUBSET DOMAIN i : Cardinality(S) <= MaxAltered}, d \in others}

\* A bound: the newest envelope and its drafts are proved about, the others
\* lend them fields. The signal may be computed again of what came out.
EnvelopeInputs ==
    LET combined == UNION {Combined(ClaimOf(m), Others("envelope_open_at_0")) : m \in Drafts}
        parsed == {i \in combined : envelope_try_from(i).ok}
    IN  combined \cup {[i EXCEPT !.signal = compute_signal_native(i)] : i \in parsed}

ProverInputs(circuit) ==
    CASE circuit = "envelope_open_at_0" -> EnvelopeInputs
      [] circuit = "pedersen_opens_to" ->
             IF NoKeys THEN UNION {Combined(i, Others(circuit)) : i \in Others(circuit)} ELSE {}

Proves(op, circuit, inputs, pk, reply) ==
    /\ call' = [op |-> op, circuit |-> circuit, inputs |-> inputs, pk |-> pk, reply |-> reply]
    /\ UNCHANGED <<keys, mail>>

ProveOnServer(circuit) == Idle /\ \E i \in ProverInputs(circuit), debug \in BOOLEAN :
    Proves("prove_route", circuit, i, registry[circuit], prove_route(circuit, i, debug))

ProveThroughClient == Idle /\ \E i \in ProverInputs("pedersen_opens_to"), debug \in BOOLEAN :
    Proves("prove_route", "pedersen_opens_to", i, registry["pedersen_opens_to"],
           proveCommitmentOpening(i.commitment, i, i.claimed_first_value, debug))

\* The browser may hold the keys of another setup, or of a cut download.
HeldKeys(circuit) == {vk_route(circuit).value, key_pair(circuit, served_setup + 1), Torn}

\* A bound: altered inputs come with the keys of the server.
ProveInBrowser(circuit) == Idle /\ \E i \in ProverInputs(circuit) :
    \E pk \in IF i \in Claims \cup Openings THEN HeldKeys(circuit) ELSE {registry[circuit]} :
        Proves("prove_wasm", circuit, i, pk, prove_wasm(circuit, i, pk, FALSE))

\* A setup is run on the empty instance of a circuit.
Setup(circuit) ==
    /\ Idle
    /\ NoKeys
    /\ call' = [op |-> "setup", circuit |-> circuit, instance |-> empty(circuit)]
    /\ UNCHANGED <<keys, mail>>

-----------------------------------------------------------------------------
(* A proof just made is verified against public inputs that may be others.  *)

Proved == call.op \in {"prove_route", "prove_wasm"} /\ call.reply.ok

PublicPart(circuit, i) ==
    [f \in IF circuit = "envelope_open_at_0" THEN {"signal", "claimed_value"}
           ELSE {"commitment", "encoding_id", "claimed_first_value"} |-> i[f]]

\* The proof with the public inputs it was made for or with some of them
\* exchanged, and bytes that are no proof. A bound: junk comes with its own.
Requests ==
    LET own == PublicPart(call.circuit, call.inputs)
        others == {PublicPart(call.circuit, i) : i \in Others(call.circuit)}
        proof == call.reply.value
    IN  {[public |-> p, proof |-> proof] :
             p \in IF proof = junk THEN {own} ELSE Combined(own, others)}
            \cup {[public |-> own, proof |-> torn_proof]}

Verifies(op, r, reply) ==
    /\ Proved
    /\ call' = [op |-> op, circuit |-> call.circuit, public |-> r.public, reply |-> reply]
    /\ UNCHANGED <<keys, mail>>

VerifyOnServer == Proved /\ \E r \in Requests :
    Verifies("verify", r, verify_route(call.circuit, r.public, r.proof))

VerifyInBrowser == Proved /\ \E r \in Requests, vk \in HeldKeys(call.circuit) :
    Verifies("verify", r, verify_wasm(call.circuit, r.public, r.proof, vk))

VerifyOnChain == Proved /\ \E r \in Requests :
    Verifies("verify", r, verify_on_chain(call.circuit, r.public, r.proof))

Returned == call # NoCall /\ call' = NoCall /\ UNCHANGED <<keys, mail>>

Next ==
    \/ \E a \in Accounts : Register(a) \/ OpenInApp(a) \/ OpenNative(a)
    \/ \E a, b \in Accounts, payload \in Payloads : Send(a, b, payload)
    \/ \E circuit \in Circuits :
           ProveOnServer(circuit) \/ ProveInBrowser(circuit) \/ Setup(circuit)
    \/ ProveThroughClient
    \/ VerifyOnServer \/ VerifyInBrowser \/ VerifyOnChain
    \/ Returned

Spec == Init /\ [][Next]_vars

-----------------------------------------------------------------------------
(* Properties *)

\* Everything the tag stands for. The shared point is that of an unordered
\* pair of keys, so the tag does not say which of the two sealed.
SameSeal(d, e) ==
    /\ {d.sender_pk.point, d.recipient_pk.point} = {e.sender_pk.point, e.recipient_pk.point}
    /\ \A f \in {"envelope_id", "encoding_id", "ciphertext", "mac_tag"} : d[f] = e[f]

IsFor(e, reader) == e.recipient_pk.point = public_key(reader[1], reader[2])

\* An envelope opens for the holder of its recipient key if it carries what
\* one of the two keys sealed for the other, and then yields that payload; a
\* change to the ciphertext, its length, the tag, the encoding id, the
\* envelope id or a key makes it fail, whatever the other fields are. The app
\* also refuses a recipient written beyond the prime, and the copy of seal in
\* the circuit crate seals alike.
OpensToSealed ==
    /\ call.op \in {"open", "open_texts"} =>
           LET e == call.envelope
               origins == {n \in DOMAIN mail : SameSeal(mail[n].envelope, e)}
               canonical == call.op = "open_texts" => e.recipient_pk.spelling = 0
           IN  /\ call.reply.ok <=> IsFor(e, call.reader) /\ canonical /\ origins # {}
               /\ call.reply.ok => \A n \in origins : call.reply.value = mail[n].payload
    /\ Idle => \A n \in DOMAIN mail :
           LET m == mail[n]
               e == FromTexts(m.envelope)
           IN  protocol_envelope_seal(Secret(m.from[1], m.from[2]), e.sender_pk, e.recipient_pk,
                   e.envelope_id, m.payload.encoding_id, m.payload.stream) = e

Words(m) == {<<m, i>> : i \in DOMAIN mail[m].payload.stream}

\* No two words that were ever sent are hidden by the same element, not in
\* one envelope, not in two of one pair of accounts, in either direction, and
\* not across rotations.
KeystreamNotReused ==
    Idle => \A a, b \in UNION {Words(m) : m \in DOMAIN mail} :
        LET mask(w) == minus(mail[w[1]].envelope.ciphertext[w[2]],
                             mail[w[1]].payload.stream[w[2]])
        IN  mask(a) = mask(b) => a = b

\* What the statement of the circuit says, in terms of the native functions.
Holds(circuit, i) ==
    CASE circuit = "envelope_open_at_0" ->
             LET opened == open(i.recipient_sk, mul(i.recipient_sk, generator), i)
             IN  /\ opened.ok
                 /\ opened.value.stream[1] = i.claimed_value
                 /\ compute_signal_native(i) = i.signal
      [] circuit = "pedersen_opens_to" ->
             /\ commit(<<i.encoding_id>> \o i.stream, i.blinding) = i.commitment
             /\ i.stream[1] = i.claimed_first_value

\* A prover gets a proof that verifies if and only if its inputs parse, its
\* key does, and what the circuit states is true of them natively: the secret
\* key opens the very envelope of the signal to the claimed first word, or
\* the stream and blinding open the commitment. A setup runs on an instance
\* that satisfies the circuit.
ProofMeansOpens ==
    /\ call.op \in {"prove_route", "prove_wasm"} =>
           LET whole == /\ has_shape(call.circuit, call.inputs)
                        /\ try_from(call.circuit, call.inputs).ok
                        /\ call.pk # Torn
           IN  (call.reply.ok /\ call.reply.value # junk)
                   <=> (whole /\ Holds(call.circuit, call.inputs))
    /\ call.op = "setup" => satisfied(call.circuit, call.instance)

\* An accepted proof can be relied on without the witnesses, whoever made it.
\* An envelope that was posted and has the signal begins with the claimed word.
\* A commitment that was made to a payload was made under the encoding id and to
\* the word that are claimed, as scalars: an element and its sum with the order of
\* the group have one commitment, so the claim may be off by that.
VerifiedMeansTrue ==
    (call.op = "verify" /\ call.reply = Ok(TRUE)) =>
        LET p == call.public IN
        CASE call.circuit = "envelope_open_at_0" ->
                 \A n \in DOMAIN mail : ClaimOf(mail[n]).signal = p.signal
                     => mail[n].payload.stream[1] = p.claimed_value
          [] call.circuit = "pedersen_opens_to" ->
                 \A payload \in Payloads, b \in Blindings :
                     OpeningOf(payload, b).commitment = p.commitment
                     => /\ fq_to_fr(p.encoding_id) = fq_to_fr(payload.encoding_id)
                        /\ fq_to_fr(p.claimed_first_value) = fq_to_fr(payload.stream[1])
=============================================================================
