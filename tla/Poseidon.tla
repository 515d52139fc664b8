------------------------------ MODULE Poseidon ------------------------------
(* The two Poseidon hashes of the protocol, as the native crate computes    *)
(* them and as the circuit gadget does. Round constants, matrices and the   *)
(* widths they exist for are tables of light-poseidon, here constants.      *)
EXTENDS Field

CONSTANTS ark(_, _),      \* ark(w, k): constant k of the tables of width w
          mds(_, _, _),   \* mds(w, i, j): the matrix of width w
          FullRounds, PartialRounds, Alpha,
          MaxWidth        \* light-poseidon ships tables for widths 2..MaxWidth

Rounds == FullRounds + PartialRounds

ASSUME PoseidonAssumption ==
    /\ {FullRounds, PartialRounds} \subseteq Nat
    /\ FullRounds % 2 = 0
    /\ Alpha = 5 /\ MaxWidth = 13
    /\ \A w \in 2..MaxWidth :
           /\ \A k \in 0..(Rounds * w - 1) : ark(w, k) \in Fq
           /\ \A i, j \in 1..w : mds(w, i, j) \in Fq

IsFullRound(r) == r < FullRounds \div 2 \/ r >= FullRounds \div 2 + PartialRounds

\* `\o <<>>` makes TLC compute the row once.
apply_ark(s, r) ==
    [i \in 1..Len(s) |-> (s[i] + ark(Len(s), r * Len(s) + i - 1)) % P] \o <<>>

apply_mds(s) ==
    LET row(i) ==
            LET upto[j \in 0..Len(s)] ==
                    IF j = 0 THEN 0 ELSE (upto[j - 1] + mds(Len(s), i, j) * s[j]) % P
            IN  upto[Len(s)]
    IN  [i \in 1..Len(s) |-> row(i)] \o <<>>

-----------------------------------------------------------------------------
(* Native *)

pow(x) == power(x, Alpha) % P

sbox(s, r) ==
    [i \in 1..Len(s) |-> IF i = 1 \/ IsFullRound(r) THEN pow(s[i]) ELSE s[i]] \o <<>>

permutation(s) ==
    LET after[r \in 0..Rounds] ==
            IF r = 0 THEN s ELSE apply_mds(sbox(apply_ark(after[r - 1], r - 1), r - 1))
    IN  after[Rounds]

\* light-poseidon's hasher for n inputs: a zero, then the inputs.
new_circom(n) == n + 1 \in 2..MaxWidth
circom_hash(inputs) == permutation(<<0>> \o inputs)[1]

poseidon3(inputs) == circom_hash(inputs)

\* Faulty variant: the tag is not counted.
InRange_tag_forgotten(inputs) == Len(inputs) \in 0..12

InRange(inputs) == 1 + Len(inputs) \in 1..12

poseidon_hash_fixed(tag, inputs) ==
    IF ~InRange(inputs) THEN Err("ArityOutOfRange")
    ELSE IF new_circom(1 + Len(inputs)) THEN Ok(circom_hash(<<tag>> \o inputs))
    ELSE Err("panic")

Rate == 2

\* What the sponge absorbs: the tag, the inputs, a one, and a zero if that
\* is needed to fill the last chunk.
TapeLength(n) == IF (n + 2) % Rate = 0 THEN n + 2 ELSE n + 3
\* Faulty variant: padded with zeros only.
tape_of_zeros(tag, inputs) ==
    [i \in 1..TapeLength(Len(inputs)) |->
        CASE i = 1 -> tag
          [] i \in 2..(Len(inputs) + 1) -> inputs[i - 1]
          [] i > Len(inputs) + 1 -> 0]

tape(tag, inputs) ==
    [i \in 1..TapeLength(Len(inputs)) |->
        CASE i = 1 -> tag
          [] i \in 2..(Len(inputs) + 1) -> inputs[i - 1]
          [] i = Len(inputs) + 2 -> 1
          [] i > Len(inputs) + 2 -> 0]

poseidon_hash_sponge(tag, inputs) ==
    LET absorbed == tape(tag, inputs)
        state[k \in 0..(Len(absorbed) \div Rate)] ==
            IF k = 0 THEN <<0, 0, 0>>
            ELSE LET s == state[k - 1]
                 IN permutation(<<(s[1] + absorbed[2 * k - 1]) % P,
                                  (s[2] + absorbed[2 * k]) % P, s[3]>>)
    IN  state[Len(absorbed) \div Rate][1]

-----------------------------------------------------------------------------
(* Gadget *)

pow_var(x) ==
    LET x2 == (x * x) % P
        x4 == (x2 * x2) % P
    IN  (x4 * x) % P

sbox_var(s, r) ==
    [i \in 1..Len(s) |-> IF i = 1 \/ IsFullRound(r) THEN pow_var(s[i]) ELSE s[i]] \o <<>>

permute_var(s) ==
    LET after[r \in 0..Rounds] ==
            IF r = 0 THEN s
            ELSE apply_mds(sbox_var(apply_ark(after[r - 1], r - 1), r - 1))
    IN  after[Rounds]

poseidon_hash_fixed_var(tag, inputs) ==
    IF ~InRange(inputs) \/ Alpha # 5 THEN Err("Unsatisfiable")
    ELSE IF Len(inputs) + 2 \in 2..MaxWidth
         THEN Ok(permute_var(<<0, tag>> \o inputs)[1])
    ELSE Err("panic")

poseidon_hash_sponge_var(tag, inputs) ==
    LET absorbed == tape(tag, inputs)
        state[k \in 0..(Len(absorbed) \div Rate)] ==
            IF k = 0 THEN <<0, 0, 0>>
            ELSE LET s == state[k - 1]
                 IN permute_var(<<(s[1] + absorbed[2 * k - 1]) % P,
                                  (s[2] + absorbed[2 * k]) % P, s[3]>>)
    IN  state[Len(absorbed) \div Rate][1]
=============================================================================
