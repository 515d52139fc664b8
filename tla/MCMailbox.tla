----------------------------- MODULE MCMailbox -----------------------------
(* Points are exponents of a generator in a group of prime order, hashes    *)
(* and sums are terms, and a commitment is a point outside the group's own  *)
(* numbers that names the scalars it commits to.                            *)
EXTENDS Mailbox

Prime == 101
NotAPoint == -1
MCValidPoints == 0..(Prime - 1) \cup 1000..1999
MCmul(k, p) == (k * p) % Prime
MCcoords(p) == <<<<"x", p>>, <<"y", p>>>>

MCtag_of(name) == name
MCfield(n) == <<"number", n>>
MCfixed(tag, inputs) == <<"hash", tag, inputs>>
MCsponge(tag, inputs) == <<"sponge", tag, inputs>>

\* A sum of an element and a mask, and a difference that does not cancel.
MCplus(a, k) == <<"sum", a, k>>
MCminus(c, k) ==
    IF c[1] = "sum" THEN IF c[3] = k THEN c[2]
                         ELSE IF c[2] = k THEN c[3] ELSE <<"difference", c, k>>
    ELSE <<"difference", c, k>>

\* A commitment binds the scalars, which are the numbers modulo three.
MCfq_to_fr(x) == IF x[1] = "number" THEN x[2] % 3 ELSE 0
MCcommit(stream, b) ==
    1000 + 100 * b + 9 * MCfq_to_fr(stream[1]) + 3 * MCfq_to_fr(stream[2]) + MCfq_to_fr(stream[3])

NotANumber == <<"text">>
MCis_element(x) == x # NotANumber
MCis_scalar(k) == k >= 0

MCAccounts == {1, 2}
MCMaxVersion(a) == a  \* one account keeps its key, the other rotates
MCSecret(a, version) == IF a = 1 THEN <<2, 3>>[version] ELSE <<5, 7>>[version]
MCdummy_sk == <<11, 13>>
MCPayloads == {[encoding_id |-> MCfield(3), stream |-> <<MCfield(1), MCfield(2)>>],
               [encoding_id |-> MCfield(3), stream |-> <<MCfield(2), MCfield(2)>>]}

MCOddEnvelopes ==
    {[sender_pk |-> text_of(NotAPoint), recipient_pk |-> text_of(NotAPoint),
      envelope_id |-> MCfield(4), encoding_id |-> MCfield(4),
      ciphertext |-> <<MCfield(4), MCfield(4)>>, mac_tag |-> MCfield(4)]}

MCOddInputs ==
    {[signal |-> NotANumber, claimed_value |-> NotANumber, recipient_sk |-> -1,
      sender_pk |-> NotAPoint, recipient_pk |-> NotAPoint,
      envelope_id |-> NotANumber, encoding_id |-> NotANumber,
      ciphertext |-> <<MCfield(4)>>, mac_tag |-> NotANumber],
     [signal |-> MCfield(4), claimed_value |-> MCfield(4), recipient_sk |-> 11,
      sender_pk |-> 11, recipient_pk |-> 11,
      envelope_id |-> MCfield(4), encoding_id |-> MCfield(4),
      ciphertext |-> <<MCfield(4), NotANumber>>, mac_tag |-> MCfield(4)]}

\* The last one opens the commitment to the first payload to numbers that differ
\* from it by multiples of three.
MCOddOpenings ==
    {[commitment |-> NotAPoint, encoding_id |-> NotANumber, claimed_first_value |-> NotANumber,
      stream |-> <<MCfield(1)>>, blinding |-> -1],
     [commitment |-> 50, encoding_id |-> MCfield(4), claimed_first_value |-> MCfield(4),
      stream |-> <<MCfield(1), NotANumber>>, blinding |-> 3],
     [commitment |-> MCcommit(<<MCfield(3), MCfield(1), MCfield(2)>>, 0),
      encoding_id |-> MCfield(6), claimed_first_value |-> MCfield(4),
      stream |-> <<MCfield(4), MCfield(2)>>, blinding |-> 0]}
=============================================================================
