------------------------------- MODULE Curve -------------------------------
(* Baby Jubjub: a twisted Edwards curve over Fq with a subgroup of prime    *)
(* order L and cofactor 8, its points as decimal texts, and the operations  *)
(* a circuit performs on it over bits. The group law is the one of arkworks.*)
EXTENDS Field, FiniteSets

CONSTANTS L,          \* order of the subgroup: the scalar field is Fr
          COEFF_A, COEFF_D,
          GENERATOR,  \* Base8
          FqBits, FrBits  \* MODULUS_BIT_SIZE of the two fields

Fr == 0..(L - 1)

IDENTITY == <<0, 1>>
generator == GENERATOR

is_on_curve(p) ==
    (COEFF_A * p[1] * p[1] + p[2] * p[2]) % P
        = (1 + COEFF_D * ((p[1] * p[1] * p[2] * p[2]) % P)) % P

CurvePoints == {p \in Fq \X Fq : is_on_curve(p)}

add_points(p, q) ==
    LET t == (COEFF_D * ((p[1] * q[1] * p[2] * q[2]) % P)) % P
    IN  <<((p[1] * q[2] + p[2] * q[1]) * inverse[(1 + t) % P]) % P,
          ((p[2] * q[2] - COEFF_A * p[1] * q[1]) * inverse[(1 - t) % P]) % P>>

\* The group law once computed: a table from pairs of points to their sum.
sum_of == [pair \in CurvePoints \X CurvePoints |-> add_points(pair[1], pair[2])]
add(p, q) == sum_of[<<p, q>>]

multiples[n \in Nat] ==
    IF n = 0 THEN [p \in CurvePoints |-> IDENTITY]
             ELSE [p \in CurvePoints |-> add(multiples[n - 1][p], p)]

mul(scalar, p) == multiples[scalar][p]

is_in_prime_subgroup(p) == mul(L, p) = IDENTITY
Subgroup == {p \in CurvePoints : is_in_prime_subgroup(p)}

\* What config.rs pins: an ERC-2494 style dialect with complete addition,
\* order 8 * L, and a generator of the subgroup.
ASSUME CurveAssumption ==
    /\ {L, FqBits, FrBits} \subseteq Nat /\ {COEFF_A, COEFF_D} \subseteq Fq
    /\ L > 1 /\ \A x \in 2..(L - 1) : L % x # 0
    /\ L < P /\ power(2, FrBits) > L /\ power(2, FqBits) > P
    /\ \E x \in Fq : (x * x) % P = COEFF_A
    /\ ~ \E x \in Fq : (x * x) % P = COEFF_D
    /\ Cardinality(CurvePoints) = 8 * L
    /\ GENERATOR \in Subgroup \ {IDENTITY}

\* The group law of arkworks: complete, associative, and of the curve's order.
ASSUME GroupAssumption ==
    /\ \A p, q \in CurvePoints : add(p, q) \in CurvePoints
    /\ \A p, q, r \in CurvePoints : add(add(p, q), r) = add(p, add(q, r))
    /\ \A p \in CurvePoints : mul(8 * L, p) = IDENTITY

-----------------------------------------------------------------------------
(* Texts *)

scalar_from_decimal(text) ==
    IF IsDecimal(text) THEN Ok(text % L) ELSE Err("NotDecimal")

point_to_strings(p) == p

\* Faulty variant: the curve equation is the only check.
point_from_strings_on_curve(x, y) ==
    LET p == <<x % P, y % P>> IN
    IF ~IsDecimal(x) \/ ~IsDecimal(y) THEN Err("NotDecimal")
    ELSE IF ~is_on_curve(p) THEN Err("NotOnCurve") ELSE Ok(p)

point_from_strings(x, y) ==
    LET p == <<x % P, y % P>> IN
    IF ~IsDecimal(x) \/ ~IsDecimal(y) THEN Err("NotDecimal")
    ELSE IF ~is_on_curve(p) THEN Err("NotOnCurve")
    ELSE IF ~is_in_prime_subgroup(p) THEN Err("NotInPrimeSubgroup")
    ELSE Ok(p)

-----------------------------------------------------------------------------
(* Inside a circuit: a scalar is a sequence of bits, least significant      *)
(* first. Witness bits are whatever the prover puts there.                  *)

LEBits(n, width) == [i \in 1..width |-> (n \div power(2, i - 1)) % 2]

\* Double and add over the bits: the sum of the first n bits' powers of p.
scalar_mul_le(bits, p) ==
    LET walk[n \in 0..Len(bits)] ==
            IF n = 0 THEN [acc |-> IDENTITY, power |-> p]
            ELSE LET prev == walk[n - 1]
                 IN [acc |-> IF bits[n] = 1 THEN add(prev.acc, prev.power)
                                            ELSE prev.acc,
                     power |-> add(prev.power, prev.power)]
    IN  walk[Len(bits)].acc

WitnessScalars == 0..(power(2, FrBits) - 1)

scalar_mul_var(witness, p) == scalar_mul_le(LEBits(witness, FrBits), p)
=============================================================================
