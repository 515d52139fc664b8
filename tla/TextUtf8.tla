------------------------------ MODULE TextUtf8 ------------------------------
(* text-utf8-v1: a text of at most MAX_BYTES bytes as a stream of a length  *)
(* prefix and Chunks chunks of ChunkBytes bytes, and payloads, which carry  *)
(* the id of their encoding. A byte is below ByteBase, a limb of a field    *)
(* element below LimbBase (2^64), a usize below UsizeBase.                  *)
EXTENDS Field

CONSTANTS ByteBase, ChunkBytes, Chunks,
          LimbBase, UsizeBase,
          from_utf8(_),    \* whether bytes are valid UTF-8
          path_digest(_)   \* BLAKE2b of the path of an encoding's document

ASSUME TextAssumption ==
    /\ {ByteBase, ChunkBytes, Chunks, LimbBase, UsizeBase} \subseteq Nat \ {0}
    /\ power(ByteBase, ChunkBytes) < P /\ P <= power(ByteBase, ChunkBytes + 1)
    /\ Chunks * ChunkBytes < P /\ Chunks * ChunkBytes < UsizeBase
    /\ UsizeBase <= LimbBase

MAX_BYTES == Chunks * ChunkBytes
FIELD_COUNT == 1 + Chunks

Bytes == 0..(ByteBase - 1)

encoding_id(path) == path_digest(path) % P
text_utf8_v1_id == encoding_id("text-utf8-v1")

from_be_bytes_mod_order(bytes) ==
    LET upto[n \in 0..Len(bytes)] ==
            IF n = 0 THEN 0 ELSE ByteBase * upto[n - 1] + bytes[n]
    IN  upto[Len(bytes)] % P

\* All the bytes a field element may need: one more than a chunk has.
field_to_be(f) ==
    [i \in 1..(ChunkBytes + 1) |-> (f \div power(ByteBase, ChunkBytes + 1 - i)) % ByteBase]

encode_text(input) ==
    LET padded == [i \in 1..MAX_BYTES |-> IF i <= Len(input) THEN input[i] ELSE 0]
        chunk(c) == SubSeq(padded, (c - 1) * ChunkBytes + 1, c * ChunkBytes)
    IN  IF Len(input) > MAX_BYTES \/ ~from_utf8(input) THEN Err("InvalidInput")
        ELSE Ok(<<Len(input) % P>>
                    \o [c \in 1..Chunks |-> from_be_bytes_mod_order(chunk(c))])

\* The length is the prefix's lowest limb, cut to a usize.
field_to_usize(f) == (f % LimbBase) % UsizeBase

validate_structural(stream) ==
    /\ Len(stream) = FIELD_COUNT
    /\ stream[1] \div LimbBase = 0
    /\ field_to_usize(stream[1]) <= MAX_BYTES
    /\ \A i \in 2..FIELD_COUNT : field_to_be(stream[i])[1] = 0

padded_bytes(stream) ==
    [i \in 1..MAX_BYTES |->
        field_to_be(stream[2 + ((i - 1) \div ChunkBytes)])[2 + ((i - 1) % ChunkBytes)]]

\* Faulty variant: what follows the text is not looked at.
decode_text_unpadded(stream) ==
    IF ~validate_structural(stream) THEN Err("StructuralInvalid")
    ELSE LET bytes == SubSeq(padded_bytes(stream), 1, field_to_usize(stream[1]))
         IN  IF from_utf8(bytes) THEN Ok(bytes) ELSE Err("SemanticInvalid")

decode_text(stream) ==
    IF ~validate_structural(stream) THEN Err("StructuralInvalid")
    ELSE LET len == field_to_usize(stream[1])
             padded == padded_bytes(stream)
             bytes == SubSeq(padded, 1, len)
         IN  IF \E i \in (len + 1)..MAX_BYTES : padded[i] # 0 THEN Err("StructuralInvalid")
             ELSE IF ~from_utf8(bytes) THEN Err("SemanticInvalid")
             ELSE Ok(bytes)

-----------------------------------------------------------------------------
(* Payloads: a stream and the id of the encoding that produced it. *)

payload_encode(input) ==
    LET s == encode_text(input) IN
    IF s.ok THEN Ok([encoding_id |-> text_utf8_v1_id, stream |-> s.value]) ELSE s

payload_decode(payload) ==
    IF payload.encoding_id # text_utf8_v1_id THEN Err("WrongEncoding")
    ELSE decode_text(payload.stream)
=============================================================================
