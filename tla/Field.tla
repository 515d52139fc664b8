------------------------------- MODULE Field -------------------------------
(* The base field of Baby Jubjub, and the decimal texts in which field      *)
(* elements cross into JavaScript. A text is an integer: a negative one     *)
(* stands for any text with a sign or another character, a non-negative one *)
(* for its digits, which may name a value beyond the field.                 *)
EXTENDS Integers, Sequences, Results

CONSTANT P  \* the prime of the base field

ASSUME FieldAssumption ==
    /\ P \in Nat /\ P > 2
    /\ \A x \in 2..(P - 1) : P % x # 0

Fq == 0..(P - 1)

\* A power as a product, from which its laws follow.
power(base, n) ==
    LET upto[k \in 0..n] == IF k = 0 THEN 1 ELSE base * upto[k - 1] IN upto[n]

inverse == [x \in Fq \ {0} |-> CHOOSE y \in Fq : (x * y) % P = 1]

IsDecimal(text) == text >= 0

fq_from_decimal(text) ==
    IF IsDecimal(text) THEN Ok(text % P) ELSE Err("NotDecimal")

decimals_to_fields(texts) ==
    IF \A i \in DOMAIN texts : IsDecimal(texts[i])
    THEN Ok([i \in DOMAIN texts |-> texts[i] % P])
    ELSE Err("NotDecimal")
=============================================================================
