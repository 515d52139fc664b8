---------------------------- MODULE HashToCurve ----------------------------
(* The Pedersen generators by try-and-increment, and the commitment over    *)
(* them, natively and in a circuit.                                         *)
EXTENDS Keys, FiniteSetsExt

CONSTANTS DigestBits,      \* a BLAKE2b digest is a number of this many bits
          MaxCounter,      \* the counters tried are 0..MaxCounter - 1
          blake2b(_, _)    \* blake2b(seed, counter)

Digests == 0..(power(2, DigestBits) - 1)

IsOdd(x) == x % 2 = 1

\* The point with this y and a root x of the wanted parity, if there is one.
\* Negating the other root keeps a root of zero whatever its parity.
point_from_y(y, want_odd_x) ==
    LET y2 == (y * y) % P
        denominator == (COEFF_A - COEFF_D * y2) % P
        Root(x) == (x * x) % P = ((1 - y2) * inverse[denominator]) % P
    IN  IF denominator = 0 THEN {}
        ELSE {<<x, y>> : x \in {r \in Fq : Root(r) /\ (r = 0 \/ IsOdd(r) = want_odd_x)}}

\* Faulty variant: the cofactor may have taken the point to the identity.
candidate_any(digest) ==
    {q \in {mul(8, p) : p \in point_from_y(digest % P, digest >= power(2, DigestBits - 1))} :
        is_in_prime_subgroup(q)}

\* The generator a digest leads to, if any: its point times the cofactor.
candidate(digest) ==
    {q \in {mul(8, p) : p \in point_from_y(digest % P, digest >= power(2, DigestBits - 1))} :
        q # IDENTITY /\ is_in_prime_subgroup(q)}

\* The result for the digests of counters 0, 1, ..., or "panic" after the last.
try_and_increment(digests) ==
    LET hits == {c \in 1..Len(digests) : candidate(digests[c]) # {}}
    IN  IF hits = {} THEN Err("panic")
        ELSE Ok(CHOOSE q \in candidate(digests[Min(hits)]) : TRUE)

digests_of(seed) == [c \in 1..MaxCounter |-> blake2b(seed, c - 1)]
derive_h == try_and_increment(digests_of(<<"H">>))
derive_g_at(i) == try_and_increment(digests_of(<<"G", i>>))

-----------------------------------------------------------------------------
(* Commitments. The generators are computed once, up to MaxStream of them.  *)

CONSTANT MaxStream
g_generator == [i \in 0..(MaxStream - 1) |-> derive_g_at(i).value]
h_generator == derive_h.value

\* Digests are numbers, and every generator in use is found.
ASSUME GeneratorsAssumption ==
    /\ {DigestBits, MaxCounter, MaxStream} \subseteq Nat
    /\ \A c \in 1..MaxCounter : digests_of(<<"H">>)[c] \in Digests
    /\ \A i \in 0..(MaxStream - 1), c \in 1..MaxCounter : digests_of(<<"G", i>>)[c] \in Digests
    /\ derive_h.ok /\ \A i \in 0..(MaxStream - 1) : derive_g_at(i).ok

\* Faulty variant: elements are cut to the bits of a scalar, not reduced.
commit_cut(stream, blinding) ==
    LET upto[n \in 0..Len(stream)] ==
            IF n = 0 THEN mul(blinding, h_generator)
            ELSE add(upto[n - 1], mul(stream[n] % power(2, FrBits - 1), g_generator[n - 1]))
    IN  upto[Len(stream)]

commit(stream, blinding) ==
    LET upto[n \in 0..Len(stream)] ==
            IF n = 0 THEN mul(blinding, h_generator)
            ELSE add(upto[n - 1], mul(fq_to_fr(stream[n]), g_generator[n - 1]))
    IN  upto[Len(stream)]

\* The elements enter with all the bits of Fq, the blinding as witness bits.
commit_var(stream, witness) ==
    LET upto[n \in 0..Len(stream)] ==
            IF n = 0 THEN scalar_mul_var(witness, h_generator)
            ELSE add(upto[n - 1], scalar_mul_le(LEBits(stream[n], FqBits), g_generator[n - 1]))
    IN  upto[Len(stream)]
=============================================================================
