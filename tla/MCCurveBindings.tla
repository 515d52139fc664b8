-------------------------- MODULE MCCurveBindings --------------------------
(* A curve of 40 points over the field of 29 elements, with a subgroup of   *)
(* five, and Poseidon with three rounds.                                    *)
EXTENDS CurveBindings

MCGenerator == <<1, 23>>

MCark(w, k) == (5 * k + 7 * w + 3) % P
MCmds(w, i, j) == inverse[i + j]
\* H and G_0 are found at the second counter: the first digest of H is on no
\* point, that of G_0 on one of small order.
MCblake2b(seed, counter) ==
    CASE seed = <<"H">> -> IF counter = 0 THEN 13 ELSE 36
      [] seed = <<"G", 0>> -> IF counter = 0 THEN 3 ELSE 38
      [] seed = <<"G", 1>> -> IF counter = 0 THEN 5 ELSE 9
MCdomain_tag(name) ==
    CASE name = "keypair" -> 3
      [] name = "schnorr-message" -> 7
      [] name = "schnorr-nonce" -> 11
      [] name = "schnorr-challenge" -> 13
      [] name = "kdf" -> 17
      [] name = "stream-cipher" -> 19
      [] name = "mac" -> 23

MCScalarTexts == -1..7
MCCoordTexts == -1..40
\* The subgroup, one point of it written beyond the field, the other kinds.
MCPeerTexts == Subgroup \cup {<<30, 52>>, <<0, 28>>, <<1, 1>>, <<-1, 23>>}
MCSeeds == {<<>>, <<1>>} \cup ({0, 1, 2, 3, 30, 31} \X {0, 5})
Count(n) == [i \in 1..n |-> (3 * i) % P]
MCMessages == {<<>>, <<0>>, <<1>>, <<1, 0>>, <<1, 1>>, <<0, 1>>, <<30>>, <<2, -1>>, <<1, 0, 0>>}
    \cup {Count(n) : n \in {9, 10, 11, 12}}
MCStreams == {<<>>, <<-1>>} \cup {<<x>> : x \in {0, 1, 4, 5, 24, 28, 29}}
    \cup ({0, 3, 14, 28} \X {0, 2, 15})
MCElements == {-1, 0, 1, 16, 28, 30}
MCCircuitMessages == {<<>>, <<1>>, <<2, 1>>, Count(12)}
MCCircuitStreams == {<<>>} \cup {<<x>> : x \in Fq} \cup ({0, 7, 28} \X {1, 19})

\* Bytes below 4: 2 starts a character of two bytes, 3 ends it. The id of
\* the encoding is an element of MCElements.
MCfrom_utf8(b) ==
    \A i \in DOMAIN b :
        /\ b[i] = 2 => (i < Len(b) /\ b[i + 1] = 3)
        /\ b[i] = 3 => (i > 1 /\ b[i - 1] = 2)
MCpath_digest(path) == 45
MCTexts == UNION {[1..n -> 0..3] : n \in 0..5}
MCTextStreams ==
    {<<n, a, b>> : n \in -1..29,
                   a \in {0, 1, 4, 5, 6, 11, 14, 16, 28}, b \in {0, 1, 4, 11, 12, 16}}
    \cup {<<>>, <<1, 4>>, <<1, 4, 0, 0>>}
=============================================================================
