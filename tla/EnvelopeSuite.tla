--------------------------- MODULE EnvelopeSuite ---------------------------
(* seal and open of the protocol crate and of the SDK, which mirrors them:  *)
(* ECDH, KDF, stream cipher and MAC composed into an envelope.              *)
EXTENDS Symmetric, Results

CONSTANTS
    mul(_, _),   \* a scalar times a point
    coords(_)    \* the two coordinates of a point, field elements

CIPHER_ROLE == "envelope-cipher-key"
MAC_ROLE == "envelope-mac-key"

\* Faulty variant: one key for all envelopes of a pair.
envelope_key_reused(role, shared, envelope_id) ==
    kdf_derive(coords(shared), <<tag_of(role)>>)

envelope_key(role, shared, envelope_id) ==
    kdf_derive(coords(shared), <<tag_of(role), envelope_id>>)

\* Faulty variant: the encoding id is not authenticated.
mac_input_unlabelled(encoding_id, ciphertext) == ciphertext

mac_input(encoding_id, ciphertext) == <<encoding_id>> \o ciphertext

seal(sender_sk, sender_pk, recipient_pk, envelope_id, payload) ==
    LET shared == mul(sender_sk, recipient_pk)
        ct == encrypt(envelope_key(CIPHER_ROLE, shared, envelope_id), payload.stream)
    IN  [sender_pk    |-> sender_pk,
         recipient_pk |-> recipient_pk,
         envelope_id  |-> envelope_id,
         encoding_id  |-> payload.encoding_id,
         ciphertext   |-> ct,
         mac_tag      |-> mac(envelope_key(MAC_ROLE, shared, envelope_id),
                              mac_input(payload.encoding_id, ct))]

\* The part of open that needs the shared point.
open_with(shared, envelope) ==
    LET key_mac == envelope_key(MAC_ROLE, shared, envelope.envelope_id)
        key_enc == envelope_key(CIPHER_ROLE, shared, envelope.envelope_id)
        message == mac_input(envelope.encoding_id, envelope.ciphertext)
    IN  IF ~mac_verify(key_mac, message, envelope.mac_tag) THEN Err("MacFailure")
        ELSE Ok([encoding_id |-> envelope.encoding_id,
                 stream      |-> decrypt(key_enc, envelope.ciphertext)])

open(recipient_sk, recipient_pk, envelope) ==
    IF envelope.recipient_pk # recipient_pk THEN Err("WrongRecipient")
    ELSE open_with(mul(recipient_sk, envelope.sender_pk), envelope)

-----------------------------------------------------------------------------
(* The SDK holds an envelope as texts. A text of a point is the point and   *)
(* its spelling, 0 if every coordinate is written below the prime; text may *)
(* also be of no point. The other texts are reduced wherever they are used. *)

CONSTANT ValidPoints

FromTexts(texts) ==
    [texts EXCEPT !.sender_pk = @.point, !.recipient_pk = @.point]

seal_texts(sender_sk, sender_pk, recipient_pk, envelope_id, payload) ==
    [seal(sender_sk, sender_pk.point, recipient_pk.point, envelope_id, payload)
        EXCEPT !.sender_pk = sender_pk, !.recipient_pk = recipient_pk]

\* The recipient is compared as text, and the ECDH binding refuses a sender
\* that is no point of the subgroup.
open_texts(recipient_sk, recipient_pk, texts) ==
    IF texts.recipient_pk # recipient_pk THEN Err("WrongRecipient")
    ELSE IF texts.sender_pk.point \notin ValidPoints THEN Err("InvalidPoint")
    ELSE open_with(mul(recipient_sk, texts.sender_pk.point), FromTexts(texts))
=============================================================================
