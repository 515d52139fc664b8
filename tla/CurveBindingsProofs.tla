------------------------- MODULE CurveBindingsProofs -------------------------
(* The invariants of the exported functions of crypto-wasm, for every prime, *)
(* every curve, every choice of tables and digests, and texts and streams of *)
(* any length. Of arkworks it is assumed that points add up in a group of order *)
(* 8 L; GroupAssumption of Curve says so, and TLC evaluates it.            *)
EXTENDS CurveBindings, SequenceTheorems, WellFoundedInduction, TLAPS

-----------------------------------------------------------------------------
(* Integers: division by a positive number has one quotient and one remainder, *)
(* and remainders add and multiply.                                        *)

\* The quotient and the remainder the provers know.
LEMMA Division ==
  ASSUME NEW x \in Int, NEW m \in Nat \ {0}
  PROVE  /\ x % m \in 0..(m - 1) /\ x \div m \in Int
         /\ x = m * (x \div m) + (x % m)
  OBVIOUS

\* Two remainders that differ by a multiple are equal.
LEMMA SmallMultiple ==
  ASSUME NEW m \in Nat \ {0}, NEW k \in Int, NEW r \in 0..(m-1), NEW s \in 0..(m-1),
         m * k + r = s
  PROVE  k = 0 /\ r = s
<1>1. CASE k >= 1
  <2>1. m * k >= m
    BY <1>1
  <2> QED BY <2>1
<1>2. CASE k <= -1
  <2>1. m * k <= -m
    BY <1>2
  <2> QED BY <2>1
<1> QED BY <1>1, <1>2

\* Whatever is a quotient and a remainder is the quotient and the remainder.
LEMMA ModUnique ==
  ASSUME NEW x \in Int, NEW m \in Nat \ {0}, NEW q \in Int, NEW r \in 0..(m-1),
         x = m * q + r
  PROVE  x % m = r /\ x \div m = q
<1> DEFINE d == x \div m
           s == x % m
<1>1. s \in 0..(m-1) /\ d \in Int /\ x = m * d + s
  BY Division
<1> HIDE DEF d, s
<1>2. m * (q - d) + r = s
  <2>1. m * (q - d) = m * q - m * d
    BY <1>1
  <2> QED BY <1>1, <2>1
<1>3. q - d = 0 /\ r = s
  BY <1>1, <1>2, SmallMultiple, q - d \in Int
<1> QED BY <1>1, <1>3 DEF d, s

\* A multiple of the modulus changes no remainder.
LEMMA ModShift ==
  ASSUME NEW x \in Int, NEW m \in Nat \ {0}, NEW k \in Int
  PROVE  (x + m * k) % m = x % m
<1> DEFINE d == x \div m
           s == x % m
<1>1. s \in 0..(m-1) /\ d \in Int /\ x = m * d + s
  BY Division
<1> HIDE DEF d, s
<1>2. x + m * k = m * (d + k) + s
  BY <1>1
<1>3. x + m * k \in Int /\ d + k \in Int
  BY <1>1
<1>4. (x + m * k) % m = s
  BY <1>1, <1>2, <1>3, ModUnique
<1> QED BY <1>4 DEF s

\* A summand may be reduced before the sum is.
LEMMA ModAdd ==
  ASSUME NEW x \in Int, NEW y \in Int, NEW m \in Nat \ {0}
  PROVE  ((x % m) + y) % m = (x + y) % m
<1> DEFINE d == x \div m
           s == x % m
<1>1. s \in 0..(m-1) /\ d \in Int /\ x = m * d + s
  BY Division
<1> HIDE DEF d, s
<1>2. x + y = (s + y) + m * d
  BY <1>1
<1>3. ((s + y) + m * d) % m = (s + y) % m
  BY <1>1, ModShift, s + y \in Int
<1>4. (x + y) % m = (s + y) % m
  BY <1>2, <1>3
<1> QED BY <1>4 DEF s

\* A factor may be reduced before the product is.
LEMMA ModMul ==
  ASSUME NEW x \in Int, NEW y \in Int, NEW m \in Nat \ {0}
  PROVE  ((x % m) * y) % m = (x * y) % m
<1> DEFINE d == x \div m
           s == x % m
<1>1. s \in 0..(m-1) /\ d \in Int /\ x = m * d + s
  BY Division
<1> HIDE DEF d, s
<1>2. x * y = (s * y) + m * (d * y)
  <2>1. x * y = (m * d) * y + s * y
    BY <1>1
  <2>2. (m * d) * y = m * (d * y)
    BY <1>1
  <2> QED BY <2>1, <2>2, <1>1
<1>3. s * y \in Int /\ d * y \in Int
  BY <1>1
<1>4. ((s * y) + m * (d * y)) % m = (s * y) % m
  BY <1>3, ModShift
<1>5. (x * y) % m = (s * y) % m
  BY <1>2, <1>4
<1> QED BY <1>5 DEF s

\* What is below the modulus is its own remainder.
LEMMA ModSmall ==
  ASSUME NEW m \in Nat \ {0}, NEW x \in 0..(m-1)
  PROVE  x % m = x
<1>1. x = m * 0 + x
  OBVIOUS
<1> QED BY <1>1, ModUnique

\* Division of naturals.
LEMMA DivNat ==
  ASSUME NEW x \in Nat, NEW m \in Nat \ {0}
  PROVE  x \div m \in Nat /\ (x % m) \in 0..(m - 1) /\ x = (x \div m) * m + (x % m)
<1> DEFINE d == x \div m
           s == x % m
<1>1. s \in 0..(m-1) /\ d \in Int /\ x = m * d + s
  BY Division
<1> HIDE DEF d, s
<1>2. d >= 0
  <2>1. SUFFICES ASSUME d <= -1 PROVE FALSE
    BY <1>1
  <2>2. m * d <= m * (-1)
    BY <1>1, <2>1
  <2> QED BY <1>1, <2>2
<1>3. m * d = d * m
  BY <1>1
<1> QED BY <1>1, <1>2, <1>3 DEF d, s

-----------------------------------------------------------------------------
(* Induction and recursion over the naturals, from the well-founded order of *)
(* the library: a set with 0 and the successor of each of its numbers has them *)
(* all, a non-empty set of numbers has a least one, and n steps from a start *)
(* make one run, which is what unfolds a recursive function.               *)

\* Induction: a set of numbers in place of a predicate.
LEMMA SetInduction ==
  ASSUME NEW S, 0 \in S, \A n \in Nat : n \in S => n + 1 \in S
  PROVE  \A n \in Nat : n \in S
<1> DEFINE R == OpToRel(<, Nat)
           T == Nat \ S
<1>1. IsWellFoundedOn(R, Nat)
  BY NatLessThanWellFounded
<1>2. \A x, y \in Nat : x < y => <<x, y>> \in R
  BY DEF OpToRel
<1> HIDE DEF R
<1>3. SUFFICES ASSUME T # {} PROVE FALSE
  OBVIOUS
<1>4. PICK x \in T : \A y \in T : ~ (<<y, x>> \in R)
  <2>1. T \subseteq Nat
    OBVIOUS
  <2> HIDE DEF T
  <2> QED BY <1>1, <1>3, <2>1, WFMin
<1>5. x # 0 /\ x \in Nat
  OBVIOUS
<1>6. x - 1 \in Nat /\ x - 1 < x
  BY <1>5
<1>7. x - 1 \in S
  BY <1>2, <1>4, <1>5, <1>6
<1>8. (x - 1) + 1 \in S
  BY <1>6, <1>7
<1> QED
  BY <1>5, <1>8

\* A non-empty set of numbers has a least one.
LEMMA Least ==
  ASSUME NEW S, S \subseteq Nat, S # {}
  PROVE  \E x \in S : \A y \in S : x <= y
<1> DEFINE R == OpToRel(<, Nat)
<1>1. IsWellFoundedOn(R, Nat)
  BY NatLessThanWellFounded
<1>2. \A x, y \in Nat : x < y => <<x, y>> \in R
  BY DEF OpToRel
<1> HIDE DEF R
<1>3. PICK x \in S : \A y \in S : ~ (<<y, x>> \in R)
  BY <1>1, WFMin
<1>4. \A y \in S : ~(y < x)
  BY <1>2, <1>3
<1> QED BY <1>4

\* A run of n steps.
Steps(D) == [D \X Nat -> D]
Iterations(D, a, step) ==
    {f \in [Nat -> D] : f[0] = a /\ \A n \in Nat : f[n + 1] = step[<<f[n], n + 1>>]}
Runs(D, a, step, n) ==
    {g \in [0..n -> D] : g[0] = a /\ \A i \in 1..n : g[i] = step[<<g[i - 1], i>>]}

\* From any start there is a run of any length.
LEMMA Recursion ==
  ASSUME NEW D, NEW a \in D, NEW step \in Steps(D)
  PROVE  \A n \in Nat : Runs(D, a, step, n) # {}
<1> DEFINE S == {n \in Nat : Runs(D, a, step, n) # {}}
<1>1. 0 \in S
  <2> DEFINE g == [i \in 0..0 |-> a]
  <2>1. g \in Runs(D, a, step, 0)
    BY DEF Runs
  <2> QED BY <2>1
<1>2. ASSUME NEW n \in Nat, n \in S
      PROVE  n + 1 \in S
  <2>1. PICK g : g \in Runs(D, a, step, n)
    BY <1>2
  <2> DEFINE h == [i \in 0..(n + 1) |-> IF i = n + 1 THEN step[<<g[n], n + 1>>] ELSE g[i]]
  <2>2. g \in [0..n -> D] /\ g[0] = a /\ \A i \in 1..n : g[i] = step[<<g[i - 1], i>>]
    BY <2>1 DEF Runs
  <2>3. step[<<g[n], n + 1>>] \in D
    <3>1. g[n] \in D
      BY <2>2
    <3>2. <<g[n], n + 1>> \in D \X Nat
      BY <3>1
    <3> QED BY <3>2 DEF Steps
  <2>4. h \in [0..(n + 1) -> D]
    BY <2>2, <2>3
  <2>5. h[0] = a
    BY <2>2
  <2>6. ASSUME NEW i \in 1..(n + 1)
        PROVE  h[i] = step[<<h[i - 1], i>>]
    <3>1. CASE i = n + 1
      <4>1. n + 1 \in 0..(n + 1) /\ n \in 0..(n + 1) /\ n # n + 1 /\ (n + 1) - 1 = n
        OBVIOUS
      <4>2. h[n + 1] = step[<<g[n], n + 1>>] /\ h[n] = g[n]
        BY <4>1
      <4> QED BY <3>1, <4>1, <4>2
    <3>2. CASE i # n + 1
      <4>1. i \in 1..n /\ i \in 0..(n + 1) /\ i - 1 \in 0..(n + 1) /\ i - 1 # n + 1
        BY <3>2
      <4>2. h[i] = g[i] /\ h[i - 1] = g[i - 1]
        BY <3>2, <4>1
      <4> QED BY <2>2, <4>1, <4>2
    <3> QED BY <3>1, <3>2
  <2> HIDE DEF h
  <2>7. h \in Runs(D, a, step, n + 1)
    BY <2>4, <2>5, <2>6 DEF Runs
  <2> QED BY <2>7
<1> HIDE DEF S
<1>3. \A n \in Nat : n \in S
  BY <1>1, <1>2, SetInduction
<1> QED BY <1>3 DEF S

\* Two runs from one start agree as far as both go.
LEMMA RunsAgree ==
  ASSUME NEW D, NEW a \in D, NEW step, NEW m \in Nat, NEW n \in Nat,
         NEW g \in Runs(D, a, step, m), NEW h \in Runs(D, a, step, n)
  PROVE  \A i \in Nat : i <= m /\ i <= n => g[i] = h[i]
<1> DEFINE S == {i \in Nat : i <= m /\ i <= n => g[i] = h[i]}
<1>1. 0 \in S
  BY DEF Runs
<1>2. ASSUME NEW i \in Nat, i \in S
      PROVE  i + 1 \in S
  <2>1. SUFFICES ASSUME i + 1 <= m, i + 1 <= n PROVE g[i + 1] = h[i + 1]
    OBVIOUS
  <2>2. g[i] = h[i]
    BY <1>2, <2>1
  <2>3. i + 1 \in 1..m /\ i + 1 \in 1..n /\ (i + 1) - 1 = i
    BY <2>1
  <2>4. g[i + 1] = step[<<g[i], i + 1>>] /\ h[i + 1] = step[<<h[i], i + 1>>]
    BY <2>3 DEF Runs
  <2> QED BY <2>2, <2>4
<1> HIDE DEF S
<1>3. \A i \in Nat : i \in S
  BY <1>1, <1>2, SetInduction
<1> QED BY <1>3 DEF S

\* Runs of every length make one function on the naturals.
LEMMA RecursionNat ==
  ASSUME NEW D, NEW a \in D, NEW step \in Steps(D)
  PROVE  Iterations(D, a, step) # {}
<1> DEFINE run[n \in Nat] == CHOOSE g : g \in Runs(D, a, step, n)
           f == [n \in Nat |-> run[n][n]]
<1>1. \A n \in Nat : run[n] \in Runs(D, a, step, n)
  BY Recursion
<1> HIDE DEF run
<1>2. \A n \in Nat : run[n][n] \in D
  <2> TAKE n \in Nat
  <2>1. run[n] \in [0..n -> D] /\ n \in 0..n
    BY <1>1 DEF Runs
  <2> QED BY <2>1
<1>3. f[0] = a
  BY <1>1 DEF Runs
<1>4. ASSUME NEW n \in Nat PROVE f[n + 1] = step[<<f[n], n + 1>>]
  <2>1. run[n + 1] \in Runs(D, a, step, n + 1) /\ run[n] \in Runs(D, a, step, n)
    BY <1>1
  <2>2. run[n + 1][n] = run[n][n]
    BY <2>1, RunsAgree, n <= n, n <= n + 1
  <2>3. n + 1 \in 1..(n + 1) /\ (n + 1) - 1 = n
    OBVIOUS
  <2>4. run[n + 1][n + 1] = step[<<run[n + 1][n], n + 1>>]
    BY <2>1, <2>3 DEF Runs
  <2>5. f[n + 1] = run[n + 1][n + 1] /\ f[n] = run[n][n]
    OBVIOUS
  <2> QED BY <2>2, <2>4, <2>5
<1>5. f \in [Nat -> D]
  BY <1>2
<1> HIDE DEF f
<1>6. f \in Iterations(D, a, step)
  BY <1>3, <1>4, <1>5 DEF Iterations
<1> QED BY <1>6

\* What takes the steps one by one is a run.
LEMMA RunFrom ==
  ASSUME NEW D, NEW a \in D, NEW step \in Steps(D), NEW n \in Nat, NEW g,
         g = [i \in 0..n |-> g[i]], g[0] = a,
         \A i \in 1..n : g[i - 1] \in D => g[i] = step[<<g[i - 1], i>>]
  PROVE  g \in Runs(D, a, step, n)
<1> DEFINE S == {i \in Nat : i <= n => g[i] \in D}
<1>1. 0 \in S
  OBVIOUS
<1>2. ASSUME NEW i \in Nat, i \in S
      PROVE  i + 1 \in S
  <2>1. SUFFICES ASSUME i + 1 <= n PROVE g[i + 1] \in D
    OBVIOUS
  <2>2. i + 1 \in 1..n /\ (i + 1) - 1 = i /\ g[i] \in D
    BY <1>2, <2>1
  <2>3. g[i + 1] = step[<<g[i], i + 1>>]
    BY <2>2
  <2>4. <<g[i], i + 1>> \in D \X Nat
    BY <2>2
  <2> QED BY <2>3, <2>4 DEF Steps
<1> HIDE DEF S
<1>3. \A i \in Nat : i \in S
  BY <1>1, <1>2, SetInduction
<1>4. \A i \in 0..n : g[i] \in D
  BY <1>3 DEF S
<1>5. g \in [0..n -> D]
  BY <1>4
<1>6. \A i \in 1..n : g[i] = step[<<g[i - 1], i>>]
  BY <1>4
<1> QED BY <1>5, <1>6 DEF Runs

-----------------------------------------------------------------------------
(* The field and the curve: powers, and the group law of which arkworks'   *)
(* completeness and associativity are assumed and the rest is proved.      *)

\* The two primes, and the fields below them.
LEMMA PrimeTypes ==
  /\ P \in Nat \ {0} /\ P \in Nat /\ P > 2 /\ Fq = 0..(P - 1)
  /\ L \in Nat \ {0} /\ L \in Nat /\ L > 1 /\ L < P /\ Fr = 0..(L - 1)
  /\ 0 \in Fq /\ 1 \in Fq /\ COEFF_A \in Fq /\ COEFF_D \in Fq
  BY FieldAssumption, CurveAssumption DEF Fq, Fr

\* A power is the product it is defined as.
LEMMA PowerLaws ==
  ASSUME NEW b \in Nat
  PROVE  /\ power(b, 0) = 1
         /\ \A n \in Nat : power(b, n) \in Nat /\ power(b, n + 1) = b * power(b, n)
<1> DEFINE D == Nat
           Body(h, k) == IF k = 0 THEN 1 ELSE b * h[k - 1]
           upto(n) == CHOOSE h : h = [k \in 0..n |-> Body(h, k)]
           step == [dn \in D \X Nat |-> b * dn[1]]
<1>1. step \in Steps(D) /\ 1 \in D
  BY DEF Steps
<1>2. \A n \in Nat : power(b, n) = upto(n)[n]
  BY DEF power
<1> HIDE DEF step, D
<1>3. ASSUME NEW n \in Nat PROVE upto(n) \in Runs(D, 1, step, n)
  <2>1. PICK f : f \in Runs(D, 1, step, n)
    BY <1>1, Recursion
  <2>2. f \in [0..n -> D] /\ f[0] = 1 /\ \A k \in 1..n : f[k] = step[<<f[k - 1], k>>]
    BY <2>1 DEF Runs
  <2>3. \A k \in 0..n : f[k] = Body(f, k)
    <3> TAKE k \in 0..n
    <3>1. CASE k = 0
      BY <2>2, <3>1
    <3>2. CASE k # 0
      <4>1. k \in 1..n /\ k \in Nat /\ k - 1 \in 0..n
        BY <3>2
      <4>2. <<f[k - 1], k>> \in D \X Nat
        BY <2>2, <4>1
      <4> QED BY <2>2, <3>2, <4>1, <4>2 DEF step
    <3> QED BY <3>1, <3>2
  <2> HIDE DEF Body
  <2>4. f = [k \in 0..n |-> Body(f, k)]
    BY <2>2, <2>3
  <2>5. upto(n) = [k \in 0..n |-> Body(upto(n), k)]
    BY <2>4
  <2> HIDE DEF upto
  <2>6. \A k \in 0..n : upto(n)[k] = Body(upto(n), k)
    BY <2>5
  <2>7. upto(n)[0] = 1 /\ \A k \in 1..n : upto(n)[k] = b * upto(n)[k - 1]
    BY <2>6 DEF Body
  <2>8. ASSUME NEW k \in 1..n, upto(n)[k - 1] \in D
        PROVE  upto(n)[k] = step[<<upto(n)[k - 1], k>>]
    <3>1. <<upto(n)[k - 1], k>> \in D \X Nat
      BY <2>8
    <3> QED BY <2>7, <3>1 DEF step
  <2>9. upto(n) = [k \in 0..n |-> upto(n)[k]]
    BY <2>5
  <2> QED BY <1>1, <2>7, <2>8, <2>9, RunFrom
<1> HIDE DEF upto
<1>4. power(b, 0) = 1
  BY <1>2, <1>3 DEF Runs
<1>5. ASSUME NEW n \in Nat
      PROVE  power(b, n) \in Nat /\ power(b, n + 1) = b * power(b, n)
  <2>1. upto(n) \in Runs(D, 1, step, n) /\ upto(n + 1) \in Runs(D, 1, step, n + 1)
    BY <1>3
  <2>2. upto(n + 1)[n] = upto(n)[n]
    <3>1. n + 1 \in Nat /\ n <= n /\ n <= n + 1
      OBVIOUS
    <3>2. \A i \in Nat : i <= n + 1 /\ i <= n => upto(n + 1)[i] = upto(n)[i]
      BY <1>1, <2>1, <3>1, RunsAgree
    <3> QED BY <3>1, <3>2
  <2>3. upto(n)[n] \in D
    BY <2>1 DEF Runs
  <2>4. n + 1 \in 1..(n + 1) /\ (n + 1) - 1 = n /\ <<upto(n)[n], n + 1>> \in D \X Nat
    BY <2>3
  <2>5. upto(n + 1)[n + 1] = step[<<upto(n + 1)[n], n + 1>>]
    BY <2>1, <2>4 DEF Runs
  <2>6. step[<<upto(n)[n], n + 1>>] = b * upto(n)[n]
    BY <2>4 DEF step
  <2>7. upto(n)[n] \in Nat
    BY <2>3 DEF D
  <2> QED BY <1>2, <2>2, <2>5, <2>6, <2>7
<1> QED BY <1>4, <1>5

\* One is its own inverse.
LEMMA InverseOne == inverse[1] = 1
<1>1. \A y \in Fq : (1 * y) % P = 1 <=> y = 1
  <2> TAKE y \in Fq
  <2>1. (1 * y) % P = y
    BY PrimeTypes, ModSmall
  <2> QED BY <2>1
<1>2. 1 \in Fq \ {0}
  BY PrimeTypes
<1>3. inverse[1] = CHOOSE y \in Fq : (1 * y) % P = 1
  BY <1>2 DEF inverse
<1>4. \E y \in Fq : (1 * y) % P = 1
  BY <1>1, <1>2
<1> QED BY <1>1, <1>3, <1>4

\* The identity satisfies the curve equation.
LEMMA IdentityOnCurve == IDENTITY \in CurvePoints
<1>1. COEFF_A * 0 * 0 + 1 * 1 = 1 /\ 0 * 0 * 1 * 1 = 0
  BY PrimeTypes
<1>2. 0 % P = 0 /\ 1 % P = 1
  BY PrimeTypes, ModSmall
<1>3. 1 + COEFF_D * (0 % P) = 1
  BY <1>2, PrimeTypes
<1>4. is_on_curve(<<0, 1>>)
  BY <1>1, <1>2, <1>3 DEF is_on_curve
<1> QED BY <1>4, PrimeTypes DEF CurvePoints, IDENTITY

\* A point is a pair of field elements.
LEMMA PointTypes ==
  ASSUME NEW p \in CurvePoints
  PROVE  p = <<p[1], p[2]>> /\ p[1] \in Fq /\ p[2] \in Fq
         /\ p[1] \in Int /\ p[2] \in Int /\ is_on_curve(p)
  BY PrimeTypes DEF CurvePoints

\* The group law is complete.
LEMMA AddType ==
  ASSUME NEW p \in CurvePoints, NEW q \in CurvePoints
  PROVE  add(p, q) \in CurvePoints
  BY GroupAssumption

\* The group law is associative.
LEMMA AddAssociates ==
  ASSUME NEW p \in CurvePoints, NEW q \in CurvePoints, NEW r \in CurvePoints
  PROVE  add(add(p, q), r) = add(p, add(q, r))
  BY GroupAssumption

\* The table holds what the formula gives.
LEMMA AddIsAddPoints ==
  ASSUME NEW p \in CurvePoints, NEW q \in CurvePoints
  PROVE  add(p, q) = add_points(p, q)
<1>1. <<p, q>> \in CurvePoints \X CurvePoints
  OBVIOUS
<1> QED BY <1>1 DEF add, sum_of

\* The formula is symmetric in its points.
LEMMA AddCommutes ==
  ASSUME NEW p \in CurvePoints, NEW q \in CurvePoints
  PROVE  add(p, q) = add(q, p)
<1>1. p[1] \in Int /\ p[2] \in Int /\ q[1] \in Int /\ q[2] \in Int /\ COEFF_A \in Int
  BY PointTypes, PrimeTypes
<1>2. p[1] * q[1] * p[2] * q[2] = q[1] * p[1] * q[2] * p[2]
  BY <1>1
<1>3. p[1] * q[2] + p[2] * q[1] = q[1] * p[2] + q[2] * p[1]
  BY <1>1
<1>4. p[2] * q[2] - COEFF_A * p[1] * q[1] = q[2] * p[2] - COEFF_A * q[1] * p[1]
  BY <1>1
<1>5. add_points(p, q) = add_points(q, p)
  BY <1>2, <1>3, <1>4 DEF add_points
<1> QED BY <1>5, AddIsAddPoints

\* The identity is neutral, by the formula.
LEMMA AddIdentity ==
  ASSUME NEW p \in CurvePoints
  PROVE  add(p, IDENTITY) = p /\ add(IDENTITY, p) = p
<1> DEFINE x == p[1]
           y == p[2]
<1>1. x \in Fq /\ y \in Fq /\ x \in Int /\ y \in Int /\ COEFF_A \in Int /\ COEFF_D \in Int
  BY PointTypes, PrimeTypes
<1>2. p = <<x, y>>
  BY PointTypes
<1> HIDE DEF x, y
<1>3. x * 0 * y * 1 = 0 /\ x * 1 + y * 0 = x /\ y * 1 - COEFF_A * x * 0 = y
  BY <1>1
<1>4. (COEFF_D * (0 % P)) % P = 0
  <2>1. 0 % P = 0
    BY PrimeTypes, ModSmall
  <2> QED BY <2>1, <1>1
<1>5. (1 + 0) % P = 1 /\ (1 - 0) % P = 1
  BY PrimeTypes, ModSmall
<1>6. x % P = x /\ y % P = y /\ x * 1 = x /\ y * 1 = y
  BY <1>1, PrimeTypes, ModSmall
<1>7. add_points(<<x, y>>, <<0, 1>>) = <<x, y>>
  BY <1>3, <1>4, <1>5, <1>6, InverseOne DEF add_points
<1>8. add(p, IDENTITY) = p
  BY <1>2, <1>7, AddIsAddPoints, IdentityOnCurve DEF IDENTITY
<1> QED BY <1>8, AddCommutes, IdentityOnCurve

\* The recursive definition of multiples has a solution, hence its equations.
LEMMA MultiplesEquation ==
  /\ multiples \in [Nat -> [CurvePoints -> CurvePoints]]
  /\ \A p \in CurvePoints : multiples[0][p] = IDENTITY
  /\ \A n \in Nat, p \in CurvePoints : multiples[n + 1][p] = add(multiples[n][p], p)
<1> DEFINE D == [CurvePoints -> CurvePoints]
           a == [p \in CurvePoints |-> IDENTITY]
           step == [dn \in D \X Nat |-> [p \in CurvePoints |-> add(dn[1][p], p)]]
           Body(h, n) == IF n = 0 THEN [p \in CurvePoints |-> IDENTITY]
                         ELSE [p \in CurvePoints |-> add(h[n - 1][p], p)]
<1>1. a \in D
  BY IdentityOnCurve
<1>2. step \in Steps(D)
  <2>1. \A dn \in D \X Nat : [p \in CurvePoints |-> add(dn[1][p], p)] \in D
    <3> TAKE dn \in D \X Nat
    <3>1. \A p \in CurvePoints : dn[1][p] \in CurvePoints
      OBVIOUS
    <3>2. \A p \in CurvePoints : add(dn[1][p], p) \in CurvePoints
      BY <3>1, AddType
    <3> QED BY <3>2
  <2> QED BY <2>1 DEF Steps
<1> HIDE DEF step, D, a
<1>3. PICK f \in Iterations(D, a, step) : TRUE
  BY <1>1, <1>2, RecursionNat
<1>3a. f \in [Nat -> D] /\ f[0] = a /\ \A n \in Nat : f[n + 1] = step[<<f[n], n + 1>>]
  BY <1>3 DEF Iterations
<1>4. \A n \in Nat : f[n + 1] = [p \in CurvePoints |-> add(f[n][p], p)]
  <2> TAKE n \in Nat
  <2>1. <<f[n], n + 1>> \in D \X Nat
    BY <1>3a
  <2>2. f[n + 1] = step[<<f[n], n + 1>>]
    BY <1>3a
  <2> QED BY <2>1, <2>2 DEF step
<1>5. \A n \in Nat : f[n] = Body(f, n)
  <2> TAKE n \in Nat
  <2>1. CASE n = 0
    BY <1>3a, <2>1 DEF a
  <2>2. CASE n # 0
    <3>1. n - 1 \in Nat /\ (n - 1) + 1 = n
      BY <2>2
    <3> QED BY <1>4, <2>2, <3>1
  <2> QED BY <2>1, <2>2
<1> HIDE DEF Body
<1>6. f = [n \in Nat |-> Body(f, n)]
  BY <1>3a, <1>5
<1>7. multiples = CHOOSE h : h = [n \in Nat |-> Body(h, n)]
  BY DEF multiples, Body
<1>8. multiples = [n \in Nat |-> Body(multiples, n)]
  BY <1>6, <1>7
<1>9. \A n \in Nat : multiples[n] = Body(multiples, n)
  BY <1>8
<1>10. multiples[0] = a
  BY <1>9 DEF Body, a
<1>11. \A n \in Nat : multiples[n + 1] = [p \in CurvePoints |-> add(multiples[n][p], p)]
  <2> TAKE n \in Nat
  <2>1. n + 1 \in Nat /\ n + 1 # 0 /\ (n + 1) - 1 = n
    OBVIOUS
  <2> QED BY <1>9, <2>1 DEF Body
<1>12. \A n \in Nat : multiples[n] \in D
  <2> DEFINE S == {n \in Nat : multiples[n] \in D}
  <2>1. 0 \in S
    BY <1>1, <1>10
  <2>2. ASSUME NEW n \in Nat, n \in S PROVE n + 1 \in S
    <3>1. \A p \in CurvePoints : multiples[n][p] \in CurvePoints
      BY <2>2 DEF D
    <3>2. \A p \in CurvePoints : add(multiples[n][p], p) \in CurvePoints
      BY <3>1, AddType
    <3>3. [p \in CurvePoints |-> add(multiples[n][p], p)] \in D
      BY <3>2 DEF D
    <3> QED BY <1>11, <3>3
  <2> HIDE DEF S
  <2>3. \A n \in Nat : n \in S
    BY <2>1, <2>2, SetInduction
  <2> QED BY <2>3 DEF S
<1>13. multiples \in [Nat -> D]
  BY <1>8, <1>12
<1> QED BY <1>10, <1>11, <1>13 DEF D, a

-----------------------------------------------------------------------------
(* Multiples of a point, and the subgroup they stay in.                    *)

\* A multiple of a point is a point.
LEMMA MulType ==
  ASSUME NEW n \in Nat, NEW p \in CurvePoints
  PROVE  mul(n, p) \in CurvePoints
  BY MultiplesEquation DEF mul

\* No times a point.
LEMMA MulZero ==
  ASSUME NEW p \in CurvePoints
  PROVE  mul(0, p) = IDENTITY
  BY MultiplesEquation DEF mul

\* One time more.
LEMMA MulSucc ==
  ASSUME NEW n \in Nat, NEW p \in CurvePoints
  PROVE  mul(n + 1, p) = add(mul(n, p), p)
  BY MultiplesEquation DEF mul

\* Once a point.
LEMMA MulOne ==
  ASSUME NEW p \in CurvePoints
  PROVE  mul(1, p) = p
<1>1. mul(0 + 1, p) = add(mul(0, p), p)
  BY MulSucc
<1> QED BY <1>1, MulZero, AddIdentity

\* Multiples add.
LEMMA MulAdd ==
  ASSUME NEW p \in CurvePoints, NEW m \in Nat
  PROVE  \A n \in Nat : mul(m + n, p) = add(mul(m, p), mul(n, p))
<1> DEFINE S == {n \in Nat : mul(m + n, p) = add(mul(m, p), mul(n, p))}
<1>1. 0 \in S
  <2>1. m + 0 = m
    OBVIOUS
  <2> QED BY <2>1, MulType, MulZero, AddIdentity
<1>2. ASSUME NEW n \in Nat, n \in S
      PROVE  n + 1 \in S
  <2>1. m + (n + 1) = (m + n) + 1 /\ m + n \in Nat
    OBVIOUS
  <2>2. mul(m + (n + 1), p) = add(add(mul(m, p), mul(n, p)), p)
    BY <1>2, <2>1, MulSucc
  <2>3. mul(n + 1, p) = add(mul(n, p), p)
    BY MulSucc
  <2>4. add(add(mul(m, p), mul(n, p)), p) = add(mul(m, p), add(mul(n, p), p))
    BY MulType, AddAssociates
  <2> QED BY <2>2, <2>3, <2>4
<1> HIDE DEF S
<1>3. \A n \in Nat : n \in S
  BY <1>1, <1>2, SetInduction
<1> QED BY <1>3 DEF S

\* Multiples of multiples.
LEMMA MulMul ==
  ASSUME NEW p \in CurvePoints, NEW n \in Nat
  PROVE  \A m \in Nat : mul(m, mul(n, p)) = mul(m * n, p)
<1> DEFINE S == {m \in Nat : mul(m, mul(n, p)) = mul(m * n, p)}
<1>0. mul(n, p) \in CurvePoints
  BY MulType
<1>1. 0 \in S
  <2>1. 0 * n = 0
    OBVIOUS
  <2> QED BY <1>0, <2>1, MulZero
<1>2. ASSUME NEW m \in Nat, m \in S
      PROVE  m + 1 \in S
  <2>1. (m + 1) * n = m * n + n /\ m * n \in Nat
    OBVIOUS
  <2>2. mul(m + 1, mul(n, p)) = add(mul(m, mul(n, p)), mul(n, p))
    BY <1>0, MulSucc
  <2>3. mul(m * n + n, p) = add(mul(m * n, p), mul(n, p))
    BY <2>1, MulAdd
  <2> QED BY <1>2, <2>1, <2>2, <2>3
<1> HIDE DEF S
<1>3. \A m \in Nat : m \in S
  BY <1>1, <1>2, SetInduction
<1> QED BY <1>3 DEF S

\* Multiples of the identity.
LEMMA MulIdentity == \A n \in Nat : mul(n, IDENTITY) = IDENTITY
<1>1. ASSUME NEW n \in Nat PROVE mul(n, IDENTITY) = IDENTITY
  <2>1. mul(0, IDENTITY) = IDENTITY
    BY IdentityOnCurve, MulZero
  <2>2. mul(n, mul(0, IDENTITY)) = mul(n * 0, IDENTITY)
    BY IdentityOnCurve, MulMul
  <2> QED BY <2>1, <2>2
<1> QED BY <1>1

\* Four points in another order.
LEMMA AddInterchange ==
  ASSUME NEW a \in CurvePoints, NEW b \in CurvePoints,
         NEW c \in CurvePoints, NEW d \in CurvePoints
  PROVE  add(add(a, b), add(c, d)) = add(add(a, c), add(b, d))
<1>1. add(add(a, b), add(c, d)) = add(a, add(b, add(c, d)))
  BY AddType, AddAssociates
<1>2. add(b, add(c, d)) = add(c, add(b, d))
  BY AddType, AddAssociates, AddCommutes
<1>3. add(a, add(c, add(b, d))) = add(add(a, c), add(b, d))
  BY AddType, AddAssociates
<1> QED BY <1>1, <1>2, <1>3

\* A multiple of a sum.
LEMMA MulSum ==
  ASSUME NEW p \in CurvePoints, NEW q \in CurvePoints
  PROVE  \A n \in Nat : mul(n, add(p, q)) = add(mul(n, p), mul(n, q))
<1> DEFINE S == {n \in Nat : mul(n, add(p, q)) = add(mul(n, p), mul(n, q))}
<1>0. add(p, q) \in CurvePoints
  BY AddType
<1>1. 0 \in S
  BY <1>0, MulZero, AddIdentity, IdentityOnCurve
<1>2. ASSUME NEW n \in Nat, n \in S
      PROVE  n + 1 \in S
  <2>1. mul(n + 1, add(p, q)) = add(add(mul(n, p), mul(n, q)), add(p, q))
    BY <1>0, <1>2, MulSucc
  <2>2. @ = add(add(mul(n, p), p), add(mul(n, q), q))
    BY MulType, AddInterchange
  <2>3. @ = add(mul(n + 1, p), mul(n + 1, q))
    BY MulSucc
  <2> QED BY <2>1, <2>2, <2>3
<1> HIDE DEF S
<1>3. \A n \in Nat : n \in S
  BY <1>1, <1>2, SetInduction
<1> QED BY <1>3 DEF S

\* What membership of the subgroup says.
LEMMA SubgroupIs ==
  ASSUME NEW p
  PROVE  p \in Subgroup <=> p \in CurvePoints /\ mul(L, p) = IDENTITY
  BY DEF Subgroup, is_in_prime_subgroup

\* The subgroup is closed, and the generator is of it.
LEMMA SubgroupClosed ==
  /\ IDENTITY \in Subgroup /\ generator \in Subgroup /\ generator # IDENTITY
  /\ \A p, q \in Subgroup : add(p, q) \in Subgroup
  /\ \A n \in Nat, p \in Subgroup : mul(n, p) \in Subgroup
<1>1. IDENTITY \in Subgroup
  BY SubgroupIs, IdentityOnCurve, MulIdentity, PrimeTypes
<1>2. generator \in Subgroup /\ generator # IDENTITY
  BY CurveAssumption DEF generator
<1>3. \A p, q \in Subgroup : add(p, q) \in Subgroup
  <2> TAKE p, q \in Subgroup
  <2>1. p \in CurvePoints /\ q \in CurvePoints /\ mul(L, p) = IDENTITY /\ mul(L, q) = IDENTITY
    BY SubgroupIs
  <2>2. mul(L, add(p, q)) = add(IDENTITY, IDENTITY)
    BY <2>1, MulSum, PrimeTypes
  <2> QED BY <2>1, <2>2, AddType, AddIdentity, IdentityOnCurve, SubgroupIs
<1>4. \A n \in Nat, p \in Subgroup : mul(n, p) \in Subgroup
  <2> TAKE n \in Nat, p \in Subgroup
  <2>1. p \in CurvePoints /\ mul(L, p) = IDENTITY /\ mul(n, p) \in CurvePoints
    BY SubgroupIs, MulType
  <2>2. mul(L, mul(n, p)) = mul(L * n, p) /\ mul(n, mul(L, p)) = mul(n * L, p)
    BY <2>1, MulMul, PrimeTypes
  <2>3. L * n = n * L
    BY PrimeTypes
  <2> QED BY <2>1, <2>2, <2>3, MulIdentity, SubgroupIs
<1> QED BY <1>1, <1>2, <1>3, <1>4

\* In the subgroup a scalar counts modulo L.
LEMMA MulReduced ==
  ASSUME NEW n \in Nat, NEW p \in Subgroup
  PROVE  mul(n % L, p) = mul(n, p)
<1>1. PICK q \in Nat, r \in 0..(L - 1) : n = q * L + r
  <2>1. n \div L \in Nat /\ n % L \in 0..(L - 1) /\ n = (n \div L) * L + (n % L)
    BY PrimeTypes, DivNat
  <2> QED BY <2>1
<1>2. n % L = r
  <2>1. n = r + L * q /\ r \in Int /\ q \in Int
    BY <1>1, PrimeTypes
  <2> QED BY <2>1, <1>1, PrimeTypes, ModShift, ModSmall
<1>3. p \in CurvePoints /\ mul(L, p) = IDENTITY
  BY SubgroupIs
<1>4. mul(q * L, p) = IDENTITY
  <2>1. mul(q, mul(L, p)) = mul(q * L, p)
    BY <1>3, MulMul, PrimeTypes
  <2> QED BY <1>3, <2>1, MulIdentity
<1>5. mul(q * L + r, p) = add(mul(q * L, p), mul(r, p))
  <2>1. q * L \in Nat /\ r \in Nat
    BY PrimeTypes
  <2> QED BY <1>3, <2>1, MulAdd
<1>6. r \in Nat /\ mul(r, p) \in CurvePoints
  BY <1>3, MulType, PrimeTypes
<1> QED BY <1>1, <1>2, <1>4, <1>5, <1>6, AddIdentity

-----------------------------------------------------------------------------
(* The order of the generator. The numbers that take a point to the identity *)
(* are the multiples of the least of them; it divides the prime L, so it is L *)
(* and every scalar of Fr has a multiple of its own. Inverses in Fq likewise. *)

\* No scalar below L but zero takes the generator to the identity.
LEMMA GeneratorOrder ==
  \A n \in 1..(L - 1) : mul(n, generator) # IDENTITY
<1> DEFINE S == {n \in Nat \ {0} : mul(n, generator) = IDENTITY}
<1>1. generator \in CurvePoints /\ mul(L, generator) = IDENTITY /\ generator # IDENTITY
  BY SubgroupClosed, SubgroupIs
<1>2. L \in S
  BY <1>1, PrimeTypes
<1>3. PICK d \in S : \A n \in S : d <= n
  <2>1. S \subseteq Nat /\ S # {}
    BY <1>2
  <2> HIDE DEF S
  <2> QED BY <2>1, Least
<1>4. d \in Nat \ {0} /\ mul(d, generator) = IDENTITY /\ d <= L
  BY <1>2, <1>3
<1>5. PICK q \in Nat, r \in 0..(d - 1) : L = q * d + r
  <2>1. L \div d \in Nat /\ (L % d) \in 0..(d - 1) /\ L = (L \div d) * d + (L % d)
    BY <1>4, PrimeTypes, DivNat
  <2> QED BY <2>1
<1>6. mul(r, generator) = IDENTITY
  <2>1. mul(q * d, generator) = IDENTITY
    <3>1. mul(q, mul(d, generator)) = mul(q * d, generator)
      BY <1>1, <1>4, MulMul
    <3> QED BY <1>4, <3>1, MulIdentity
  <2>2. q * d \in Nat /\ r \in Nat
    BY <1>4
  <2>3. mul(L, generator) = add(mul(q * d, generator), mul(r, generator))
    BY <1>1, <1>5, <2>2, MulAdd
  <2>4. mul(r, generator) \in CurvePoints
    BY <1>1, <2>2, MulType
  <2> QED BY <1>1, <2>1, <2>3, <2>4, AddIdentity
<1>7. r = 0
  <2>1. SUFFICES ASSUME r # 0 PROVE FALSE
    OBVIOUS
  <2>2. r \in S /\ r < d
    BY <1>4, <1>6, <2>1
  <2> QED BY <1>3, <1>4, <2>2
<1>8. L % d = 0
  <2>1. L = d * q + 0 /\ 0 \in 0..(d - 1)
    BY <1>4, <1>5, <1>7
  <2> QED BY <1>4, <2>1, PrimeTypes, ModUnique
<1>9. d # 1
  BY <1>1, <1>4, MulOne
<1>10. d = L
  <2>1. d \in 2..(L - 1) => L % d # 0
    BY CurveAssumption
  <2> QED BY <1>4, <1>8, <1>9, <2>1, PrimeTypes
<1>11. ASSUME NEW n \in 1..(L - 1), mul(n, generator) = IDENTITY PROVE FALSE
  <2>1. n \in S /\ n < L
    BY <1>11, PrimeTypes
  <2> QED BY <1>3, <1>10, <2>1, PrimeTypes
<1> QED BY <1>11

\* Different scalars, different multiples of the generator.
LEMMA MulInjective ==
  ASSUME NEW i \in Fr, NEW j \in Fr, mul(i, generator) = mul(j, generator)
  PROVE  i = j
<1>1. ASSUME NEW m \in Fr, NEW n \in Fr, m < n, mul(m, generator) = mul(n, generator)
      PROVE  FALSE
  <2>1. m \in Nat /\ n \in Nat /\ L - m \in Nat /\ n - m \in 1..(L - 1) /\ n - m \in Nat
        /\ (L - m) + m = L /\ (L - m) + n = L + (n - m)
    BY <1>1, PrimeTypes
  <2>2. generator \in CurvePoints /\ mul(L, generator) = IDENTITY
    BY SubgroupClosed, SubgroupIs
  <2>3. mul((L - m) + m, generator) = mul((L - m) + n, generator)
    BY <1>1, <2>1, <2>2, MulAdd
  <2>4. mul(L + (n - m), generator) = add(IDENTITY, mul(n - m, generator))
    BY <2>1, <2>2, MulAdd, PrimeTypes
  <2>5. mul(n - m, generator) = IDENTITY
    BY <2>1, <2>2, <2>3, <2>4, MulType, AddIdentity
  <2> QED BY <2>1, <2>5, GeneratorOrder
<1> QED BY <1>1, PrimeTypes

\* Every element but zero has an inverse: its multiples have a least residue.
LEMMA InverseIs ==
  ASSUME NEW x \in Fq, x # 0
  PROVE  inverse[x] \in Fq /\ (x * inverse[x]) % P = 1
<1> DEFINE S == {n \in Nat \ {0} : \E y \in Int, z \in Int : n = x * y + P * z}
<1>0. P \in Nat \ {0} /\ P \in Int /\ x \in Int /\ x \in Nat \ {0} /\ x < P
  BY PrimeTypes
<1>1. x \in S
  <2>1. x = x * 1 + P * 0
    BY <1>0
  <2> QED BY <1>0, <2>1
<1>2. PICK d \in S : \A n \in S : d <= n
  <2>1. S \subseteq Nat /\ S # {}
    BY <1>1
  <2> HIDE DEF S
  <2> QED BY <2>1, Least
<1>3. d \in Nat \ {0} /\ d <= x
  BY <1>1, <1>2
<1>4. PICK y \in Int, z \in Int : d = x * y + P * z
  BY <1>2
<1>5. PICK q \in Nat, r \in 0..(d - 1) : P = q * d + r
  <2>1. P \div d \in Nat /\ (P % d) \in 0..(d - 1) /\ P = (P \div d) * d + (P % d)
    BY <1>0, <1>3, DivNat
  <2> QED BY <2>1
<1>6. r = 0
  <2>1. SUFFICES ASSUME r # 0 PROVE FALSE
    OBVIOUS
  <2>2. r = x * (-(q * y)) + P * (1 - q * z)
    <3>1. r = P - q * (x * y + P * z)
      BY <1>0, <1>3, <1>4, <1>5
    <3>2. q * (x * y + P * z) = x * (q * y) + P * (q * z)
      BY <1>0, <1>4, <1>5
    <3>3. q * y \in Int /\ q * z \in Int
      BY <1>4, <1>5
    <3> HIDE DEF S
    <3>4. ASSUME NEW a \in Int, NEW b \in Int, r = P - (x * a + P * b)
          PROVE  r = x * (-a) + P * (1 - b)
      BY <1>0, <3>4
    <3> QED BY <3>1, <3>2, <3>3, <3>4
  <2>3. -(q * y) \in Int /\ 1 - q * z \in Int /\ r \in Nat \ {0}
    BY <1>3, <1>4, <1>5, <2>1
  <2>4. r \in S
    BY <2>2, <2>3
  <2> QED BY <1>2, <1>3, <2>3, <2>4
<1>7. P % d = 0
  <2>1. P = d * q + 0 /\ 0 \in 0..(d - 1)
    BY <1>3, <1>5, <1>6
  <2> QED BY <1>0, <1>3, <2>1, ModUnique
<1>8. d = 1
  <2>1. d \in 2..(P - 1) => P % d # 0
    BY FieldAssumption
  <2> QED BY <1>0, <1>3, <1>7, <2>1
<1> DEFINE v == y % P
<1>9. v \in Fq /\ v \in Int
  <2>1. (y % P) \in 0..(P - 1)
    BY <1>0, <1>4, Division
  <2> QED BY <2>1, PrimeTypes
<1>10. (x * v) % P = 1
  <2>1. (v * x) % P = (y * x) % P
    BY <1>0, <1>4, ModMul
  <2>2. y * x = 1 + P * (-z) /\ -z \in Int
    BY <1>0, <1>4, <1>8
  <2>3. (1 + P * (-z)) % P = 1 % P
    BY <1>0, <2>2, ModShift
  <2>4. 1 % P = 1
    BY PrimeTypes, ModSmall
  <2>5. v * x = x * v
    BY <1>0, <1>9
  <2> QED BY <2>1, <2>2, <2>3, <2>4, <2>5
<1> HIDE DEF v
<1>11. inverse[x] = CHOOSE w \in Fq : (x * w) % P = 1
  <2>1. x \in Fq \ {0}
    OBVIOUS
  <2> QED BY <2>1 DEF inverse
<1> QED BY <1>9, <1>10, <1>11

-----------------------------------------------------------------------------
(* Calls, and the actions that make them.                                  *)

\* The name of the call tells which action made it.
LEMMA Origins ==
  ASSUME Next
  PROVE  /\ call'.fn = "mul_generator" => MulGenerator
         /\ call'.fn = "validate_point" => ValidatePoint
         /\ call'.fn = "keypair_from_seed" => KeypairFromSeed
         /\ call'.fn = "ecdh" => Ecdh
         /\ call'.fn = "pedersen_commit" => PedersenCommit
         /\ call'.fn = "schnorr_sign" => SchnorrSign
         /\ call'.fn = "schnorr_verify" => SchnorrVerify
         /\ call'.fn = "poseidon_hash_fixed" => PoseidonFixed
         /\ call'.fn = "poseidon_hash_sponge" => PoseidonSponge
         /\ call'.fn = "kdf_derive" => KdfDerive
         /\ call'.fn = "cipher_encrypt" => CipherEncrypt
         /\ call'.fn = "cipher_decrypt" => CipherDecrypt
         /\ call'.fn = "mac" => Mac
         /\ call'.fn = "derive" => DeriveGenerator
         /\ call'.fn = "payload_encode" => TextEncode
         /\ call'.fn = "text_utf8_v1_decode" => TextDecode
         /\ call'.fn = "payload_decode" => PayloadDecode
         /\ call'.fn = "verify_var" => VerifyCircuit
         /\ call'.fn = "commit_var" => CommitCircuit
<1>1. /\ MulGenerator => call'.fn = "mul_generator"
      /\ ValidatePoint => call'.fn = "validate_point"
      /\ KeypairFromSeed => call'.fn = "keypair_from_seed"
      /\ Ecdh => call'.fn = "ecdh"
      /\ PedersenCommit => call'.fn = "pedersen_commit"
      /\ SchnorrSign => call'.fn = "schnorr_sign"
      /\ SchnorrVerify => call'.fn = "schnorr_verify"
  BY DEF MulGenerator, ValidatePoint, KeypairFromSeed, Ecdh, PedersenCommit, SchnorrSign,
         SchnorrVerify, Called
<1>2. /\ PoseidonFixed => call'.fn = "poseidon_hash_fixed"
      /\ PoseidonSponge => call'.fn = "poseidon_hash_sponge"
      /\ KdfDerive => call'.fn = "kdf_derive"
      /\ CipherEncrypt => call'.fn = "cipher_encrypt"
      /\ CipherDecrypt => call'.fn = "cipher_decrypt"
      /\ Mac => call'.fn = "mac"
      /\ MacVerify => call'.fn = "mac_verify"
  BY DEF PoseidonFixed, PoseidonSponge, KdfDerive, CipherEncrypt, CipherDecrypt, Mac,
         MacVerify, Called
<1>4. PayloadDecode => call'.fn = "payload_decode"
  <2> DEFINE payload(id, stream) == [encoding_id |-> id, stream |-> stream]
  <2>1. SUFFICES ASSUME NEW id, NEW stream,
                        call' = [fn |-> "payload_decode", args |-> <<payload(id, stream)>>,
                                 reply |-> payload_decode(payload(id, stream))]
                 PROVE  call'.fn = "payload_decode"
    BY DEF PayloadDecode, Called
  <2> QED BY <2>1
<1>3. /\ DeriveGenerator => call'.fn = "derive"
      /\ TextEncode => call'.fn = "payload_encode"
      /\ TextDecode => call'.fn = "text_utf8_v1_decode"
      /\ VerifyCircuit => call'.fn = "verify_var"
      /\ CommitCircuit => call'.fn = "commit_var"
      /\ Returned => call'.fn = "none"
  BY DEF DeriveGenerator, TextEncode, TextDecode, VerifyCircuit,
         CommitCircuit, Returned, Called, NoCall
<1> QED
  BY <1>1, <1>2, <1>3, <1>4 DEF Next

-----------------------------------------------------------------------------
(* The tape of the sponge: the tag, the inputs, a one, and zeros. The last *)
(* element that is not zero tells where the inputs end.                    *)

\* A tape has room for the tag and the one.
LEMMA TapeLengthIs ==
  ASSUME NEW n \in Nat
  PROVE  TapeLength(n) \in Nat /\ TapeLength(n) >= n + 2
  BY DEF TapeLength

\* What a tape holds.
LEMMA TapeAt ==
  ASSUME NEW tag \in Int, NEW s \in Seq(Int)
  PROVE  /\ DOMAIN tape(tag, s) = 1..TapeLength(Len(s))
         /\ tape(tag, s)[1] = tag
         /\ \A i \in 1..Len(s) : tape(tag, s)[i + 1] = s[i]
         /\ tape(tag, s)[Len(s) + 2] = 1
         /\ \A i \in 1..TapeLength(Len(s)) : i > Len(s) + 2 => tape(tag, s)[i] = 0
<1> DEFINE n == Len(s)
           T == 1..TapeLength(n)
<1>a. n \in Nat
  OBVIOUS
<1>0. TapeLength(n) \in Nat /\ TapeLength(n) >= n + 2
  BY <1>a, TapeLengthIs
<1>1. 1 \in T /\ n + 2 \in T /\ \A i \in 1..n : i + 1 \in T
  BY <1>0
<1>2. tape(tag, s) = [i \in T |->
        CASE i = 1 -> tag
          [] i \in 2..(n + 1) -> s[i - 1]
          [] i = n + 2 -> 1
          [] i > n + 2 -> 0]
  BY DEF tape, n
<1> HIDE DEF T, n
<1>3. tape(tag, s)[1] = tag
  <2>1. 1 \notin 2..(n + 1) /\ 1 # n + 2 /\ ~(1 > n + 2)
    BY <1>a
  <2> QED BY <1>1, <1>2, <2>1
<1>4. \A i \in 1..n : tape(tag, s)[i + 1] = s[i]
  <2> TAKE i \in 1..n
  <2>1. i + 1 \in 2..(n + 1) /\ i + 1 # 1 /\ i + 1 # n + 2 /\ ~(i + 1 > n + 2) /\ (i + 1) - 1 = i
    BY <1>a
  <2> QED BY <1>1, <1>2, <2>1
<1>5. tape(tag, s)[n + 2] = 1
  <2>1. n + 2 # 1 /\ n + 2 \notin 2..(n + 1) /\ ~(n + 2 > n + 2)
    BY <1>a
  <2> QED BY <1>1, <1>2, <2>1
<1>6. \A i \in T : i > n + 2 => tape(tag, s)[i] = 0
  <2> TAKE i \in T
  <2>1. HAVE i > n + 2
  <2>2. i # 1 /\ i \notin 2..(n + 1) /\ i # n + 2
    BY <1>a, <1>0, <2>1 DEF T
  <2> QED BY <1>2, <2>1, <2>2
<1> QED BY <1>2, <1>3, <1>4, <1>5, <1>6 DEF T, n

\* Sequences of one length that agree everywhere.
LEMMA SeqEq ==
  ASSUME NEW s \in Seq(Int), NEW t \in Seq(Int), Len(s) = Len(t),
         \A i \in 1..Len(s) : s[i] = t[i]
  PROVE  s = t
  OBVIOUS

\* A tape names its tag and its inputs.
LEMMA TapeInjective ==
  ASSUME NEW a \in Int, NEW b \in Int, NEW s \in Seq(Int), NEW t \in Seq(Int), tape(a, s) = tape(b, t)
  PROVE  a = b /\ s = t
<1>1. ASSUME NEW x \in Int, NEW y \in Int, NEW u \in Seq(Int), NEW v \in Seq(Int),
             tape(x, u) = tape(y, v), Len(u) < Len(v)
      PROVE  FALSE
  <2> DEFINE m == Len(u)
             n == Len(v)
  <2>1. m \in Nat /\ n \in Nat /\ m < n
    BY <1>1
  <2> HIDE DEF m, n
  <2>2. DOMAIN tape(x, u) = 1..TapeLength(m) /\ DOMAIN tape(y, v) = 1..TapeLength(n)
    BY TapeAt DEF m, n
  <2>3. n + 2 \in 1..TapeLength(m)
    <3>1. n + 2 \in 1..TapeLength(n)
      BY <2>1, TapeLengthIs
    <3> QED BY <1>1, <2>2, <3>1
  <2>4. tape(x, u)[n + 2] = 0
    BY <2>1, <2>3, TapeAt DEF m
  <2>5. tape(y, v)[n + 2] = 1
    BY <2>1, TapeAt DEF n
  <2> QED BY <1>1, <2>4, <2>5
<1> DEFINE n == Len(s)
<1>2. n \in Nat /\ n = Len(s) /\ n = Len(t)
  <2>1. Len(s) \in Nat /\ Len(t) \in Nat /\ ~(Len(s) < Len(t)) /\ ~(Len(t) < Len(s))
    BY <1>1
  <2> QED BY <2>1
<1> HIDE DEF n
<1>2a. /\ tape(a, s)[1] = a /\ tape(b, t)[1] = b
       /\ \A i \in 1..n : tape(a, s)[i + 1] = s[i] /\ tape(b, t)[i + 1] = t[i]
  <2>1. tape(a, s)[1] = a /\ \A i \in 1..Len(s) : tape(a, s)[i + 1] = s[i]
    BY TapeAt
  <2>2. tape(b, t)[1] = b /\ \A i \in 1..Len(t) : tape(b, t)[i + 1] = t[i]
    BY TapeAt
  <2> QED BY <1>2, <2>1, <2>2
<1>3. a = b
  BY <1>2a
<1>4. \A i \in 1..n : s[i] = t[i]
  BY <1>2a
<1>5. s = t
  BY <1>2, <1>4, SeqEq
<1> QED BY <1>3, <1>5

\* The same for the tape of a call.
LEMMA TapesOf ==
  ASSUME NEW m \in Messages, NEW tag \in Elements, NEW other \in Fq,
         NEW n \in 0..(Len(m) + 1), NEW x \in {0, 1}
  PROVE  LET mine == [i \in DOMAIN m |-> m[i] % P]
             Other(y) == IF n <= Len(mine) THEN SubSeq(mine, 1, n) ELSE Append(mine, y)
         IN  tape(other, Other(x)) = tape(tag % P, mine) => other = tag % P /\ Other(x) = mine
<1> DEFINE mine == [i \in DOMAIN m |-> m[i] % P]
<1>1. mine \in Seq(Int)
  <2>1. m \in Seq(Int)
    BY BindingsAssumption
  <2>2. \A i \in 1..Len(m) : m[i] % P \in Int
    BY <2>1, PrimeTypes
  <2>3. mine = [i \in 1..Len(m) |-> m[i] % P]
    BY <2>1
  <2> QED BY <2>1, <2>2, <2>3
<1> HIDE DEF mine
<1>2. n <= Len(mine) => SubSeq(mine, 1, n) \in Seq(Int)
  BY <1>1
<1>3. Append(mine, x) \in Seq(Int)
  BY <1>1
<1> DEFINE o == IF n <= Len(mine) THEN SubSeq(mine, 1, n) ELSE Append(mine, x)
<1>4. o \in Seq(Int)
  BY <1>2, <1>3
<1> HIDE DEF o
<1>4a. other \in Int /\ (tag % P) \in Int
  BY BindingsAssumption, PrimeTypes
<1>5. tape(other, o) = tape(tag % P, mine) => other = tag % P /\ o = mine
  BY <1>1, <1>4, <1>4a, TapeInjective
<1> QED BY <1>5 DEF mine, o

\* Whatever the field, the tags and the inputs, what the sponge absorbs for one
\* tag and stream it absorbs for no other, or another call would have its hash.
THEOREM SpongeTapesDistinct == Spec => []TapesDistinct
<1>1. Init => TapesDistinct
  BY DEF Init, NoCall, TapesDistinct, Accepted, IsCall
<1>2. TapesDistinct /\ [Next]_call => TapesDistinct'
  <2> SUFFICES ASSUME TapesDistinct, [Next]_call PROVE TapesDistinct'
    OBVIOUS
  <2>1. CASE UNCHANGED call
    BY <2>1 DEF TapesDistinct, Accepted, IsCall
  <2>2. CASE Next
    <3>1. SUFFICES ASSUME call'.fn = "poseidon_hash_sponge" PROVE TapesDistinct'
      BY DEF TapesDistinct, Accepted, IsCall
    <3>2. PICK tag \in Elements, m \in Messages :
             call' = [fn |-> "poseidon_hash_sponge", args |-> <<tag, m>>,
                      reply |-> hash_sponge(tag, m)]
      BY <2>2, <3>1, Origins DEF PoseidonSponge, Called
    <3> QED BY <3>2, TapesOf DEF TapesDistinct
  <2> QED BY <2>1, <2>2
<1> QED BY <1>1, <1>2, PTL DEF Spec

-----------------------------------------------------------------------------
(* The Poseidon permutation: what a round makes of a state is a state, and *)
(* the S-box by squares of the gadget is the power of the native one.      *)

\* The widths the arity checks let through.
Widths == 2..13

\* The tables of the widths in use.
LEMMA PoseidonTypes ==
  /\ FullRounds \in Nat /\ PartialRounds \in Nat /\ Rounds \in Nat
  /\ \A w \in Widths :
        /\ \A k \in 0..(Rounds * w - 1) : ark(w, k) \in Fq
        /\ \A i, j \in 1..w : mds(w, i, j) \in Fq
  BY PoseidonAssumption DEF Widths, Rounds

\* The states of a width.
States(w) == [1..w -> Fq]

\* A state is a sequence of its width.
LEMMA StateIs ==
  ASSUME NEW w \in Nat, NEW s \in States(w)
  PROVE  s \in Seq(Fq) /\ Len(s) = w /\ s \o <<>> = s
<1>1. s \in Seq(Fq) /\ Len(s) = w
  BY DEF States
<1>2. s \o <<>> = s
  BY <1>1
<1> QED BY <1>1, <1>2

\* Round constants keep a state a state.
LEMMA ArkType ==
  ASSUME NEW w \in Widths, NEW s \in States(w), NEW r \in 0..(Rounds - 1)
  PROVE  apply_ark(s, r) \in States(w)
<1> DEFINE t == [i \in 1..w |-> (s[i] + ark(w, r * w + i - 1)) % P]
<1>0. w \in Nat
  BY DEF Widths
<1>1. Len(s) = w
  BY <1>0, StateIs
<1>2. ASSUME NEW i \in 1..w PROVE (s[i] + ark(w, r * w + i - 1)) % P \in Fq
  <2>1. r * w + i - 1 \in 0..(Rounds * w - 1)
    <3>1. r * w <= (Rounds - 1) * w
      BY <1>0, PoseidonTypes
    <3>2. (Rounds - 1) * w = Rounds * w - w
      BY <1>0, PoseidonTypes
    <3>3. r * w \in Nat /\ Rounds * w \in Nat
      BY <1>0, PoseidonTypes
    <3> QED BY <1>0, <3>1, <3>2, <3>3
  <2>2. ark(w, r * w + i - 1) \in Fq /\ s[i] \in Fq
    BY <2>1, PoseidonTypes DEF States
  <2> QED BY <2>2, PrimeTypes
<1>3. t \in States(w)
  BY <1>2 DEF States
<1>4. apply_ark(s, r) = t \o <<>>
  BY <1>1 DEF apply_ark
<1> QED BY <1>0, <1>3, <1>4, StateIs

\* So does the matrix.
LEMMA MdsType ==
  ASSUME NEW w \in Widths, NEW s \in States(w)
  PROVE  apply_mds(s) \in States(w)
<1>0. w \in Nat \ {0} /\ Len(s) = w
  BY StateIs DEF Widths
<1> DEFINE Body(i, h, j) == IF j = 0 THEN 0 ELSE (h[j - 1] + mds(w, i, j) * s[j]) % P
           row(i) == CHOOSE h : h = [j \in 0..w |-> Body(i, h, j)]
           t == [i \in 1..w |-> row(i)[w]]
<1>1. ASSUME NEW i \in 1..w PROVE row(i)[w] \in Fq
  <2> DEFINE step == [dn \in Fq \X Nat |->
                 IF dn[2] \in 1..w THEN (dn[1] + mds(w, i, dn[2]) * s[dn[2]]) % P ELSE 0]
  <2>1. step \in Steps(Fq)
    <3>1. ASSUME NEW dn \in Fq \X Nat, dn[2] \in 1..w
          PROVE  (dn[1] + mds(w, i, dn[2]) * s[dn[2]]) % P \in Fq
      <4>1. mds(w, i, dn[2]) \in Fq /\ s[dn[2]] \in Fq /\ dn[1] \in Fq
        BY <3>1, PoseidonTypes DEF States
      <4>2. mds(w, i, dn[2]) * s[dn[2]] \in Int /\ dn[1] \in Int
        BY <4>1, PrimeTypes
      <4>3. dn[1] + mds(w, i, dn[2]) * s[dn[2]] \in Int
        BY <4>2
      <4> QED BY <4>3, PrimeTypes, Division
    <3>2. 0 \in Fq
      BY PrimeTypes
    <3> QED BY <3>1, <3>2 DEF Steps
  <2> HIDE DEF step
  <2>2. 0 \in Fq
    BY PrimeTypes
  <2>3. PICK f : f \in Runs(Fq, 0, step, w)
    BY <1>0, <2>1, <2>2, Recursion
  <2>4. f \in [0..w -> Fq] /\ f[0] = 0 /\ \A j \in 1..w : f[j] = step[<<f[j - 1], j>>]
    BY <2>3 DEF Runs
  <2>5. \A j \in 0..w : f[j] = Body(i, f, j)
    <3> TAKE j \in 0..w
    <3>1. CASE j = 0
      BY <2>4, <3>1
    <3>2. CASE j # 0
      <4>1. j \in 1..w /\ j \in Nat /\ j - 1 \in 0..w
        BY <1>0, <3>2
      <4>2. <<f[j - 1], j>> \in Fq \X Nat
        BY <2>4, <4>1
      <4> QED BY <2>4, <3>2, <4>1, <4>2 DEF step
    <3> QED BY <3>1, <3>2
  <2> HIDE DEF Body
  <2>6. f = [j \in 0..w |-> Body(i, f, j)]
    BY <2>4, <2>5
  <2>7. row(i) = [j \in 0..w |-> Body(i, row(i), j)]
    BY <2>6
  <2> HIDE DEF row
  <2>8. \A j \in 0..w : row(i)[j] = Body(i, row(i), j)
    BY <2>7
  <2>9. row(i)[0] = 0 /\ \A j \in 1..w : row(i)[j] = (row(i)[j - 1] + mds(w, i, j) * s[j]) % P
    BY <1>0, <2>8 DEF Body
  <2>10. ASSUME NEW j \in 1..w, row(i)[j - 1] \in Fq
         PROVE  row(i)[j] = step[<<row(i)[j - 1], j>>]
    <3>1. <<row(i)[j - 1], j>> \in Fq \X Nat
      BY <1>0, <2>10
    <3> QED BY <2>9, <3>1 DEF step
  <2>11. row(i) = [j \in 0..w |-> row(i)[j]]
    BY <2>7
  <2>12. row(i) \in Runs(Fq, 0, step, w)
    BY <1>0, <2>1, <2>2, <2>9, <2>10, <2>11, RunFrom
  <2> QED BY <1>0, <2>12 DEF Runs
<1>2. t \in States(w)
  BY <1>1 DEF States
<1>3. apply_mds(s) = t \o <<>>
  BY <1>0 DEF apply_mds
<1> HIDE DEF t
<1> QED BY <1>0, <1>2, <1>3, StateIs

\* The fifth power, by multiplication and by squares.
LEMMA PowIs ==
  ASSUME NEW x \in Fq
  PROVE  pow(x) \in Fq /\ pow(x) = pow_var(x)
<1>1. x \in Nat /\ x \in Int /\ P \in Nat \ {0}
  BY PrimeTypes
<1>2. power(x, 5) = x * (x * (x * (x * (x * 1))))
  <2>1. power(x, 0 + 1) = x * 1
    BY <1>1, PowerLaws
  <2>2. power(x, 1 + 1) = x * power(x, 1) /\ power(x, 2 + 1) = x * power(x, 2)
        /\ power(x, 3 + 1) = x * power(x, 3) /\ power(x, 4 + 1) = x * power(x, 4)
    BY <1>1, PowerLaws
  <2>3. 0 + 1 = 1 /\ 1 + 1 = 2 /\ 2 + 1 = 3 /\ 3 + 1 = 4 /\ 4 + 1 = 5
    OBVIOUS
  <2> QED BY <2>1, <2>2, <2>3
<1> DEFINE y == x * x
           z == y * y
           u == y % P
           v == (u * u) % P
<1>3. y \in Int /\ z \in Int /\ x * (x * (x * (x * (x * 1)))) = z * x
  BY <1>1
<1> HIDE DEF y, z
<1>4. u \in Int
  BY <1>1, <1>3, Division
<1>5. v = z % P
  <2>1. (u * u) % P = (y * u) % P
    BY <1>1, <1>3, <1>4, ModMul
  <2>2. (u * y) % P = (y * y) % P
    BY <1>1, <1>3, ModMul
  <2>3. y * u = u * y
    BY <1>3, <1>4
  <2> QED BY <2>1, <2>2, <2>3 DEF z
<1>6. pow_var(x) = (v * x) % P
  BY DEF pow_var, y
<1> HIDE DEF u, v
<1>7. (v * x) % P = (z * x) % P
  BY <1>1, <1>3, <1>5, ModMul
<1>8. pow(x) = (z * x) % P
  BY <1>2, <1>3, PoseidonAssumption DEF pow
<1>9. z * x \in Int
  BY <1>1, <1>3
<1> QED BY <1>1, <1>6, <1>7, <1>8, <1>9, PrimeTypes, Division

\* Full and partial rounds alike.
LEMMA SboxType ==
  ASSUME NEW w \in Widths, NEW s \in States(w), NEW r
  PROVE  sbox(s, r) \in States(w) /\ sbox_var(s, r) = sbox(s, r)
<1>0. w \in Nat /\ Len(s) = w
  BY StateIs DEF Widths
<1> DEFINE t == [i \in 1..w |-> IF i = 1 \/ IsFullRound(r) THEN pow(s[i]) ELSE s[i]]
           v == [i \in 1..w |-> IF i = 1 \/ IsFullRound(r) THEN pow_var(s[i]) ELSE s[i]]
<1>1. \A i \in 1..w : s[i] \in Fq
  BY DEF States
<1>2. \A i \in 1..w : pow(s[i]) \in Fq /\ pow(s[i]) = pow_var(s[i])
  BY <1>1, PowIs
<1>3. t \in States(w)
  BY <1>1, <1>2 DEF States
<1>4. v = t
  BY <1>2
<1>5. sbox(s, r) = t \o <<>> /\ sbox_var(s, r) = v \o <<>>
  BY <1>0 DEF sbox, sbox_var
<1> QED BY <1>0, <1>3, <1>4, <1>5, StateIs

\* A round, and the gadget's round.
LEMMA RoundIs ==
  ASSUME NEW w \in Widths, NEW s \in States(w), NEW r \in 0..(Rounds - 1)
  PROVE  /\ apply_mds(sbox(apply_ark(s, r), r)) \in States(w)
         /\ apply_mds(sbox_var(apply_ark(s, r), r)) = apply_mds(sbox(apply_ark(s, r), r))
  BY ArkType, SboxType, MdsType

\* A permutation of a state is a state, and the gadget permutes alike.
LEMMA PermutationIs ==
  ASSUME NEW w \in Widths, NEW s \in States(w)
  PROVE  permutation(s) \in States(w) /\ permute_var(s) = permutation(s)
<1> DEFINE D == States(w)
           Body(h, r) == IF r = 0 THEN s
                         ELSE apply_mds(sbox(apply_ark(h[r - 1], r - 1), r - 1))
           after == CHOOSE h : h = [r \in 0..Rounds |-> Body(h, r)]
           BodyV(h, r) == IF r = 0 THEN s
                          ELSE apply_mds(sbox_var(apply_ark(h[r - 1], r - 1), r - 1))
           afterv == CHOOSE h : h = [r \in 0..Rounds |-> BodyV(h, r)]
           step == [dn \in D \X Nat |-> IF dn[2] \in 1..Rounds
                      THEN apply_mds(sbox(apply_ark(dn[1], dn[2] - 1), dn[2] - 1)) ELSE s]
<1>0. Rounds \in Nat
  BY PoseidonTypes
<1>1. permutation(s) = after[Rounds] /\ permute_var(s) = afterv[Rounds]
  BY DEF permutation, permute_var
<1>2. ASSUME NEW d \in D, NEW r \in 1..Rounds
      PROVE  /\ apply_mds(sbox(apply_ark(d, r - 1), r - 1)) \in D
             /\ apply_mds(sbox_var(apply_ark(d, r - 1), r - 1))
                  = apply_mds(sbox(apply_ark(d, r - 1), r - 1))
  <2>1. r - 1 \in 0..(Rounds - 1)
    BY <1>0
  <2> QED BY <2>1, RoundIs
<1> HIDE DEF D
<1>3. step \in Steps(D) /\ s \in D
  <2>1. s \in D
    BY DEF D
  <2> QED BY <1>2, <2>1 DEF Steps
<1>4. ASSUME NEW d \in D, NEW r \in 1..Rounds
      PROVE  /\ step[<<d, r>>] = apply_mds(sbox(apply_ark(d, r - 1), r - 1))
             /\ step[<<d, r>>] = apply_mds(sbox_var(apply_ark(d, r - 1), r - 1))
  <2>1. <<d, r>> \in D \X Nat
    BY <1>0
  <2> QED BY <1>2, <2>1 DEF step
<1> HIDE DEF step
<1>5. PICK f : f \in Runs(D, s, step, Rounds)
  BY <1>0, <1>3, Recursion
<1>6. f \in [0..Rounds -> D] /\ f[0] = s /\ \A r \in 1..Rounds : f[r] = step[<<f[r - 1], r>>]
  BY <1>5 DEF Runs
<1>7. \A r \in 0..Rounds : f[r] = Body(f, r) /\ f[r] = BodyV(f, r)
  <2> TAKE r \in 0..Rounds
  <2>1. CASE r = 0
    BY <1>6, <2>1
  <2>2. CASE r # 0
    <3>1. r \in 1..Rounds /\ f[r - 1] \in D
      BY <1>0, <1>6, <2>2
    <3> QED BY <1>4, <1>6, <2>2, <3>1
  <2> QED BY <2>1, <2>2
<1> HIDE DEF Body, BodyV
<1>8. f = [r \in 0..Rounds |-> Body(f, r)] /\ f = [r \in 0..Rounds |-> BodyV(f, r)]
  BY <1>6, <1>7
<1>9. after = [r \in 0..Rounds |-> Body(after, r)]
      /\ afterv = [r \in 0..Rounds |-> BodyV(afterv, r)]
  BY <1>8
<1> HIDE DEF after, afterv
<1>10. after = [r \in 0..Rounds |-> after[r]] /\ afterv = [r \in 0..Rounds |-> afterv[r]]
  BY <1>9
<1>11. /\ \A r \in 0..Rounds : after[r] = Body(after, r)
       /\ \A r \in 0..Rounds : afterv[r] = BodyV(afterv, r)
  BY <1>9
<1>12. after[0] = s /\ afterv[0] = s
  BY <1>0, <1>11 DEF Body, BodyV
<1>13. ASSUME NEW r \in 1..Rounds
       PROVE  /\ after[r - 1] \in D => after[r] = step[<<after[r - 1], r>>]
              /\ afterv[r - 1] \in D => afterv[r] = step[<<afterv[r - 1], r>>]
  <2>1. r \in 0..Rounds /\ r # 0
    BY <1>0
  <2> QED BY <1>4, <1>11, <2>1 DEF Body, BodyV
<1>14. after \in Runs(D, s, step, Rounds)
  BY <1>0, <1>3, <1>10, <1>12, <1>13, RunFrom
<1>15. afterv \in Runs(D, s, step, Rounds)
  BY <1>0, <1>3, <1>10, <1>12, <1>13, RunFrom
<1>16. after[Rounds] = afterv[Rounds]
  BY <1>0, <1>3, <1>14, <1>15, RunsAgree
<1>17. after[Rounds] \in D
  BY <1>0, <1>14 DEF Runs
<1> QED BY <1>1, <1>16, <1>17 DEF D

-----------------------------------------------------------------------------
(* Results, texts, and the hashes of fixed arity.                          *)

\* A remainder modulo P is a field element.
LEMMA ModInField ==
  ASSUME NEW x \in Int
  PROVE  (x % P) \in Fq
<1>1. (x % P) \in 0..(P - 1)
  BY PrimeTypes, Division
<1> QED BY <1>1, PrimeTypes

\* What a result holds.
LEMMA ResultParts ==
  /\ \A v : Ok(v).ok /\ Ok(v).ok = TRUE /\ Ok(v).value = v
  /\ \A e : ~Err(e).ok /\ Err(e).ok = FALSE /\ Err(e).error = e
  /\ \A v, e : Ok(v) # Err(e)
  BY DEF Ok, Err

\* The field elements texts name, and whether they are decimal.
FieldsOf(texts) == [i \in 1..Len(texts) |-> texts[i] % P]
AllDecimal(texts) == \A i \in 1..Len(texts) : texts[i] >= 0

\* The elements that decimal texts name.
LEMMA FieldsAre ==
  ASSUME NEW texts \in Seq(Int)
  PROVE  /\ FieldsOf(texts) \in Seq(Fq) /\ Len(FieldsOf(texts)) = Len(texts)
         /\ \A i \in 1..Len(texts) : FieldsOf(texts)[i] = texts[i] % P
         /\ [i \in DOMAIN texts |-> texts[i] % P] = FieldsOf(texts)
<1>1. \A i \in 1..Len(texts) : (texts[i] % P) \in Fq
  BY ModInField
<1> QED BY <1>1 DEF FieldsOf

\* Texts are decoded together or not at all.
LEMMA DecimalsAre ==
  ASSUME NEW texts \in Seq(Int)
  PROVE  /\ AllDecimal(texts) => decimals_to_fields(texts) = Ok(FieldsOf(texts))
         /\ ~AllDecimal(texts) => decimals_to_fields(texts) = Err("NotDecimal")
         /\ decimals_to_fields(texts).ok <=> AllDecimal(texts)
<1>1. DOMAIN texts = 1..Len(texts)
  OBVIOUS
<1>2. decimals_to_fields(texts) = IF AllDecimal(texts) THEN Ok(FieldsOf(texts))
                                  ELSE Err("NotDecimal")
  BY <1>1 DEF decimals_to_fields, IsDecimal, AllDecimal, FieldsOf
<1> QED BY <1>2, ResultParts

\* One text.
LEMMA FqDecimal ==
  ASSUME NEW text \in Int
  PROVE  LET d == fq_from_decimal(text)
         IN  /\ d = IF text >= 0 THEN Ok(text % P) ELSE Err("NotDecimal")
             /\ d.ok <=> text >= 0
             /\ d.ok => d.value = text % P /\ d.value \in Fq
             /\ ~d.ok => d = Err("NotDecimal")
<1>1. (text % P) \in Fq
  BY ModInField
<1> QED BY <1>1 DEF fq_from_decimal, IsDecimal, Ok, Err

\* A sequence with one element more in front.
LEMMA Prepend ==
  ASSUME NEW S, NEW x \in S, NEW s \in Seq(S)
  PROVE  /\ <<x>> \o s \in Seq(S) /\ Len(<<x>> \o s) = Len(s) + 1
         /\ (<<x>> \o s)[1] = x /\ Tail(<<x>> \o s) = s
<1>1. <<x>> \o s \in Seq(S)
  OBVIOUS
<1>2. Len(<<x>> \o s) = Len(s) + 1
  OBVIOUS
<1>3. (<<x>> \o s)[1] = x
  OBVIOUS
<1>4. Tail(<<x>> \o s) = s
  OBVIOUS
<1> QED BY <1>1, <1>2, <1>3, <1>4

\* And with two.
LEMMA PrependTwo ==
  ASSUME NEW S, NEW x \in S, NEW s \in Seq(S), NEW y \in S
  PROVE  <<y>> \o (<<x>> \o s) = <<y, x>> \o s
  OBVIOUS

\* A sequence is a state of its length.
LEMMA SeqState ==
  ASSUME NEW w \in Nat, NEW s \in Seq(Fq), Len(s) = w
  PROVE  s \in States(w)
  BY DEF States

\* The circom hash of up to twelve inputs, natively and in the gadget.
LEMMA CircomIs ==
  ASSUME NEW inputs \in Seq(Fq), 1 <= Len(inputs), Len(inputs) <= 12
  PROVE  /\ circom_hash(inputs) \in Fq
         /\ permute_var(<<0>> \o inputs)[1] = circom_hash(inputs)
<1> DEFINE s == <<0>> \o inputs
           w == Len(inputs) + 1
<1>1. w \in Widths /\ w \in Nat /\ 1 \in 1..w
  BY DEF Widths
<1>2. s \in Seq(Fq) /\ Len(s) = w
  BY PrimeTypes, Prepend
<1>3. circom_hash(inputs) = permutation(s)[1]
  BY DEF circom_hash
<1> HIDE DEF s, w
<1>4. s \in States(w)
  BY <1>1, <1>2, SeqState
<1>5. permutation(s) \in States(w) /\ permute_var(s) = permutation(s)
  BY <1>1, <1>4, PermutationIs
<1>6. permutation(s)[1] \in Fq
  BY <1>1, <1>5 DEF States
<1> QED BY <1>3, <1>5, <1>6 DEF s

\* Tag and inputs: up to eleven have a hash, the same in the gadget; more have none.
LEMMA FixedIs ==
  ASSUME NEW tag \in Fq, NEW inputs \in Seq(Fq)
  PROVE  /\ Len(inputs) <= 11 =>
              /\ poseidon_hash_fixed(tag, inputs).ok
              /\ poseidon_hash_fixed(tag, inputs).value \in Fq
              /\ poseidon_hash_fixed(tag, inputs) = Ok(poseidon_hash_fixed(tag, inputs).value)
         /\ Len(inputs) > 11 => poseidon_hash_fixed(tag, inputs) = Err("ArityOutOfRange")
         /\ Len(inputs) > 11 => poseidon_hash_fixed_var(tag, inputs) = Err("Unsatisfiable")
         /\ Len(inputs) <= 11 =>
              poseidon_hash_fixed_var(tag, inputs) = poseidon_hash_fixed(tag, inputs)
<1>0. Len(inputs) \in Nat
  OBVIOUS
<1>1. CASE Len(inputs) > 11
  <2>1. ~InRange(inputs)
    BY <1>1 DEF InRange
  <2> QED BY <1>0, <1>1, <2>1 DEF poseidon_hash_fixed, poseidon_hash_fixed_var
<1>2. CASE Len(inputs) <= 11
  <2> DEFINE s == <<tag>> \o inputs
  <2>1. s \in Seq(Fq) /\ 1 <= Len(s) /\ Len(s) <= 12 /\ <<0>> \o s = <<0, tag>> \o inputs
    BY <1>2, Prepend, PrependTwo, PrimeTypes
  <2>2. InRange(inputs)
    BY <1>2 DEF InRange
  <2>3. new_circom(1 + Len(inputs)) /\ Len(inputs) + 2 \in 2..MaxWidth /\ Alpha = 5
    <3>1. MaxWidth = 13 /\ Alpha = 5
      BY PoseidonAssumption
    <3>2. 1 + Len(inputs) + 1 \in 2..13 /\ Len(inputs) + 2 \in 2..13
      BY <1>0, <1>2
    <3> QED BY <3>1, <3>2 DEF new_circom
  <2>4. poseidon_hash_fixed(tag, inputs) = Ok(circom_hash(s))
    BY <2>2, <2>3 DEF poseidon_hash_fixed
  <2>5. poseidon_hash_fixed_var(tag, inputs) = Ok(permute_var(<<0, tag>> \o inputs)[1])
    BY <2>2, <2>3 DEF poseidon_hash_fixed_var
  <2> HIDE DEF s
  <2>6. circom_hash(s) \in Fq /\ permute_var(<<0>> \o s)[1] = circom_hash(s)
    BY <2>1, CircomIs
  <2>7. poseidon_hash_fixed_var(tag, inputs) = Ok(circom_hash(s))
    BY <2>1, <2>5, <2>6
  <2>8. poseidon_hash_fixed(tag, inputs).ok /\ poseidon_hash_fixed(tag, inputs).value = circom_hash(s)
    BY <2>4, ResultParts
  <2>9. ~(Len(inputs) > 11)
    BY <1>2, <1>0
  <2> QED BY <2>4, <2>6, <2>7, <2>8, <2>9
<1> QED BY <1>1, <1>2, <1>0

\* The state of the sponge.
LEMMA TripleState ==
  ASSUME NEW a \in Fq, NEW b \in Fq, NEW c \in Fq
  PROVE  <<a, b, c>> \in States(3)
  BY DEF States

-----------------------------------------------------------------------------
(* The sponge, block by block.                                             *)

\* A tape is field elements.
LEMMA TapeType ==
  ASSUME NEW tag \in Fq, NEW s \in Seq(Fq)
  PROVE  /\ Len(tape(tag, s)) = TapeLength(Len(s))
         /\ \A i \in 1..TapeLength(Len(s)) : tape(tag, s)[i] \in Int
<1> DEFINE n == Len(s)
           t == tape(tag, s)
<1>1. tag \in Int /\ s \in Seq(Int) /\ n \in Nat
  BY PrimeTypes
<1>2. TapeLength(n) \in Nat
  BY <1>1, TapeLengthIs
<1>3. t = [i \in 1..TapeLength(n) |-> t[i]]
  BY DEF tape
<1>4. /\ t[1] = tag
      /\ \A i \in 1..n : t[i + 1] = s[i]
      /\ t[n + 2] = 1
      /\ \A i \in 1..TapeLength(n) : i > n + 2 => t[i] = 0
  BY <1>1, TapeAt
<1>5. \A i \in 1..n : s[i] \in Int
  BY <1>1
<1> HIDE DEF t, n
<1>6. Len(t) = TapeLength(n)
  BY <1>2, <1>3
<1>7. ASSUME NEW i \in 1..TapeLength(n) PROVE t[i] \in Int
  <2>1. i \in Int /\ i >= 1
    BY <1>2
  <2>2. CASE i = 1
    BY <1>1, <1>4, <2>2
  <2>3. CASE i > 1 /\ i <= n + 1
    <3>1. i - 1 \in 1..n /\ (i - 1) + 1 = i
      BY <1>1, <2>1, <2>3
    <3> QED BY <1>4, <1>5, <3>1
  <2>4. CASE i = n + 2
    BY <1>4, <2>4
  <2>5. CASE i > n + 2
    BY <1>4, <2>5
  <2> QED BY <1>1, <2>1, <2>2, <2>3, <2>4, <2>5
<1> QED BY <1>6, <1>7 DEF t, n

\* Sponge and gadget absorb alike, from the first block to the last.
LEMMA SpongeIs ==
  ASSUME NEW tag \in Fq, NEW inputs \in Seq(Fq)
  PROVE  /\ poseidon_hash_sponge(tag, inputs) \in Fq
         /\ poseidon_hash_sponge_var(tag, inputs) = poseidon_hash_sponge(tag, inputs)
<1> DEFINE T == tape(tag, inputs)
           N == Len(T) \div Rate
           D == States(3)
           a == <<0, 0, 0>>
           Mix(d, k) == <<(d[1] + T[2 * k - 1]) % P, (d[2] + T[2 * k]) % P, d[3]>>
           Body(h, k) == IF k = 0 THEN a ELSE permutation(Mix(h[k - 1], k))
           state == CHOOSE h : h = [k \in 0..N |-> Body(h, k)]
           BodyV(h, k) == IF k = 0 THEN a ELSE permute_var(Mix(h[k - 1], k))
           statev == CHOOSE h : h = [k \in 0..N |-> BodyV(h, k)]
           step == [dn \in D \X Nat |-> IF dn[2] \in 1..N THEN permutation(Mix(dn[1], dn[2])) ELSE a]
<1>0. N \in Nat /\ \A k \in 1..N : T[2 * k - 1] \in Int /\ T[2 * k] \in Int
  <2> DEFINE m == TapeLength(Len(inputs))
  <2>1. m \in Nat /\ Len(T) = m /\ \A i \in 1..m : T[i] \in Int
    BY TapeType, TapeLengthIs
  <2> HIDE DEF m
  <2>2. N = m \div 2
    BY <2>1 DEF Rate
  <2>3. m \div 2 \in Nat /\ (m \div 2) * 2 <= m
    BY <2>1, DivNat
  <2> HIDE DEF N, T
  <2>4. N \in Nat /\ N * 2 <= m
    BY <2>2, <2>3
  <2>5. ASSUME NEW k \in 1..N PROVE 2 * k - 1 \in 1..m /\ 2 * k \in 1..m
    BY <2>1, <2>4
  <2> QED BY <2>1, <2>4, <2>5
<1>1. poseidon_hash_sponge(tag, inputs) = state[N][1]
      /\ poseidon_hash_sponge_var(tag, inputs) = statev[N][1]
  BY DEF poseidon_hash_sponge, poseidon_hash_sponge_var
<1>2. ASSUME NEW d \in D, NEW k \in 1..N
      PROVE  permutation(Mix(d, k)) \in D /\ permute_var(Mix(d, k)) = permutation(Mix(d, k))
  <2>1. d[1] \in Fq /\ d[2] \in Fq /\ d[3] \in Fq
    BY DEF States
  <2>2. T[2 * k - 1] \in Int /\ T[2 * k] \in Int
    BY <1>0
  <2> HIDE DEF T
  <2>3. d[1] + T[2 * k - 1] \in Int /\ d[2] + T[2 * k] \in Int
    <3>1. d[1] \in Int /\ d[2] \in Int
      BY <2>1, PrimeTypes
    <3>2. \A x, y \in Int : x + y \in Int
      OBVIOUS
    <3> QED BY <2>2, <3>1, <3>2
  <2>4. Mix(d, k) \in States(3)
    BY <2>1, <2>3, ModInField, TripleState
  <2>5. 3 \in Widths
    BY DEF Widths
  <2> QED BY <2>4, <2>5, PermutationIs
<1>a. a \in D
  BY TripleState, PrimeTypes
<1> HIDE DEF Mix, D, a, N, T
<1>3. step \in Steps(D)
  BY <1>2, <1>a DEF Steps
<1>4. ASSUME NEW d \in D, NEW k \in 1..N
      PROVE  /\ step[<<d, k>>] = permutation(Mix(d, k))
             /\ step[<<d, k>>] = permute_var(Mix(d, k))
  <2>1. <<d, k>> \in D \X Nat
    BY <1>0
  <2> QED BY <1>2, <2>1 DEF step
<1> HIDE DEF step
<1>5. PICK f : f \in Runs(D, a, step, N)
  BY <1>0, <1>3, <1>a, Recursion
<1>6. f \in [0..N -> D] /\ f[0] = a /\ \A k \in 1..N : f[k] = step[<<f[k - 1], k>>]
  BY <1>5 DEF Runs
<1>7. \A k \in 0..N : f[k] = Body(f, k) /\ f[k] = BodyV(f, k)
  <2> TAKE k \in 0..N
  <2>1. CASE k = 0
    BY <1>6, <2>1
  <2>2. CASE k # 0
    <3>1. k \in 1..N /\ f[k - 1] \in D
      BY <1>0, <1>6, <2>2
    <3> QED BY <1>4, <1>6, <2>2, <3>1
  <2> QED BY <2>1, <2>2
<1> HIDE DEF Body, BodyV
<1>8. f = [k \in 0..N |-> Body(f, k)] /\ f = [k \in 0..N |-> BodyV(f, k)]
  BY <1>6, <1>7
<1>9. state = [k \in 0..N |-> Body(state, k)] /\ statev = [k \in 0..N |-> BodyV(statev, k)]
  BY <1>8
<1> HIDE DEF state, statev
<1>10. state = [k \in 0..N |-> state[k]] /\ statev = [k \in 0..N |-> statev[k]]
  BY <1>9
<1>11. /\ \A k \in 0..N : state[k] = Body(state, k)
       /\ \A k \in 0..N : statev[k] = BodyV(statev, k)
  BY <1>9
<1>12. state[0] = a /\ statev[0] = a
  BY <1>0, <1>11 DEF Body, BodyV
<1>13. ASSUME NEW k \in 1..N
       PROVE  /\ state[k - 1] \in D => state[k] = step[<<state[k - 1], k>>]
              /\ statev[k - 1] \in D => statev[k] = step[<<statev[k - 1], k>>]
  <2>1. k \in 0..N /\ k # 0
    BY <1>0
  <2> QED BY <1>4, <1>11, <2>1 DEF Body, BodyV
<1>14. state \in Runs(D, a, step, N)
  BY <1>0, <1>a, <1>3, <1>10, <1>12, <1>13, RunFrom
<1>15. statev \in Runs(D, a, step, N)
  BY <1>0, <1>a, <1>3, <1>10, <1>12, <1>13, RunFrom
<1>16. state[N] = statev[N]
  BY <1>0, <1>a, <1>3, <1>14, <1>15, RunsAgree
<1>17. state[N] \in D
  BY <1>0, <1>14 DEF Runs
<1>18. state[N][1] \in Fq
  BY <1>17 DEF D, States
<1> QED BY <1>1, <1>16, <1>18

-----------------------------------------------------------------------------
(* Hashes of texts.                                                        *)

\* A tag and its inputs decoded together.
LEMMA FieldsOfBoth ==
  ASSUME NEW x \in Int, NEW s \in Seq(Int)
  PROVE  LET fields == decimals_to_fields(<<x>> \o s)
         IN  /\ fields.ok <=> x >= 0 /\ AllDecimal(s)
             /\ fields.ok => fields.value[1] = x % P /\ Tail(fields.value) = FieldsOf(s)
<1> DEFINE t == <<x>> \o s
           m == Len(s)
<1>1. t \in Seq(Int) /\ Len(t) = m + 1 /\ m \in Nat
  BY Prepend
<1>2. t[1] = x /\ \A i \in 1..m : t[i + 1] = s[i]
  OBVIOUS
<1> HIDE DEF t, m
<1>3. AllDecimal(t) <=> x >= 0 /\ AllDecimal(s)
  <2>1. ASSUME AllDecimal(t) PROVE x >= 0 /\ AllDecimal(s)
    <3>1. 1 \in 1..Len(t) /\ \A i \in 1..m : i + 1 \in 1..Len(t)
      BY <1>1
    <3>2. t[1] >= 0 /\ \A i \in 1..m : t[i + 1] >= 0
      BY <2>1, <3>1 DEF AllDecimal
    <3> QED BY <1>2, <3>2 DEF AllDecimal, m
  <2>2. ASSUME x >= 0, AllDecimal(s), NEW i \in 1..Len(t) PROVE t[i] >= 0
    <3>1. CASE i = 1
      BY <1>2, <2>2, <3>1
    <3>2. CASE i # 1
      <4>1. i - 1 \in 1..m /\ (i - 1) + 1 = i
        BY <1>1, <3>2
      <4>2. s[i - 1] >= 0
        BY <2>2, <4>1 DEF AllDecimal, m
      <4> QED BY <1>2, <4>1, <4>2
    <3> QED BY <3>1, <3>2
  <2>3. x >= 0 /\ AllDecimal(s) => AllDecimal(t)
    BY <2>2 DEF AllDecimal
  <2> QED BY <2>1, <2>3
<1>4. FieldsOf(t) = <<x % P>> \o FieldsOf(s)
  <2>1. FieldsOf(t) \in Seq(Fq) /\ Len(FieldsOf(t)) = m + 1
    BY <1>1, FieldsAre
  <2>2. FieldsOf(s) \in Seq(Fq) /\ Len(FieldsOf(s)) = m /\ (x % P) \in Fq
    BY FieldsAre, ModInField DEF m
  <2> DEFINE u == <<x % P>> \o FieldsOf(s)
  <2>3. u \in Seq(Fq) /\ Len(u) = m + 1 /\ u[1] = x % P
    BY <2>2, Prepend
  <2>4. \A i \in 1..m : u[i + 1] = FieldsOf(s)[i]
    BY <2>2
  <2> HIDE DEF u
  <2>5. ASSUME NEW i \in 1..(m + 1) PROVE FieldsOf(t)[i] = u[i]
    <3>1. FieldsOf(t)[i] = t[i] % P
      BY <1>1, FieldsAre
    <3>2. CASE i = 1
      BY <1>2, <2>3, <3>1, <3>2
    <3>3. CASE i # 1
      <4>1. i - 1 \in 1..m /\ (i - 1) + 1 = i
        BY <1>1, <3>3
      <4>2. FieldsOf(s)[i - 1] = s[i - 1] % P
        BY <4>1, FieldsAre DEF m
      <4> QED BY <1>2, <2>4, <3>1, <4>1, <4>2
    <3> QED BY <3>2, <3>3
  <2>6. \A i \in 1..Len(FieldsOf(t)) : FieldsOf(t)[i] = u[i]
    BY <2>1, <2>5
  <2>7. FieldsOf(t) = u
    BY <2>1, <2>3, <2>6
  <2> QED BY <2>7 DEF u
<1>5. FieldsOf(s) \in Seq(Fq) /\ (x % P) \in Fq
  BY FieldsAre, ModInField
<1>6. FieldsOf(t)[1] = x % P /\ Tail(FieldsOf(t)) = FieldsOf(s)
  BY <1>4, <1>5, Prepend
<1>7. decimals_to_fields(t).ok <=> x >= 0 /\ AllDecimal(s)
  BY <1>1, <1>3, DecimalsAre
<1>8. decimals_to_fields(t).ok => decimals_to_fields(t).value = FieldsOf(t)
  BY <1>1, DecimalsAre, ResultParts
<1> QED BY <1>6, <1>7, <1>8 DEF t

\* hash_fixed returns what the gadget computes, and no panic.
LEMMA FixedAgrees ==
  ASSUME NEW tag \in Elements, NEW in \in Messages
  PROVE  LET reply == hash_fixed(tag, in)
             fields == decimals_to_fields(<<tag>> \o in)
             gadget == poseidon_hash_fixed_var(fields.value[1], Tail(fields.value))
         IN  /\ reply # Err("panic")
             /\ fields.ok => (reply.ok = gadget.ok)
             /\ reply.ok => (reply = gadget)
<1> DEFINE fields == decimals_to_fields(<<tag>> \o in)
           reply == hash_fixed(tag, in)
           gadget == poseidon_hash_fixed_var(fields.value[1], Tail(fields.value))
           native == poseidon_hash_fixed(tag % P, FieldsOf(in))
<1>1. tag \in Int /\ in \in Seq(Int)
  BY BindingsAssumption
<1>2. (tag % P) \in Fq /\ FieldsOf(in) \in Seq(Fq) /\ Len(FieldsOf(in)) \in Nat
  BY <1>1, ModInField, FieldsAre
<1>3. /\ fields.ok <=> tag >= 0 /\ AllDecimal(in)
      /\ fields.ok => fields.value[1] = tag % P /\ Tail(fields.value) = FieldsOf(in)
  BY <1>1, FieldsOfBoth
<1>4. /\ ~(tag >= 0 /\ AllDecimal(in)) => reply = Err("NotDecimal")
      /\ tag >= 0 /\ AllDecimal(in) => reply = native
  BY <1>1, FqDecimal, DecimalsAre, ResultParts DEF hash_fixed
<1>5. fields.ok => gadget = poseidon_hash_fixed_var(tag % P, FieldsOf(in))
  BY <1>3
<1> HIDE DEF fields, reply, gadget
<1>6. /\ ~(native = Err("panic"))
      /\ native.ok = poseidon_hash_fixed_var(tag % P, FieldsOf(in)).ok
      /\ native.ok => native = poseidon_hash_fixed_var(tag % P, FieldsOf(in))
  <2>1. CASE Len(FieldsOf(in)) <= 11
    BY <1>2, <2>1, FixedIs, ResultParts
  <2>2. CASE Len(FieldsOf(in)) > 11
    <3>1. "ArityOutOfRange" # "panic"
      OBVIOUS
    <3> QED BY <1>2, <2>2, <3>1, FixedIs, ResultParts
  <2> QED BY <1>2, <2>1, <2>2
<1>7. Err("NotDecimal") # Err("panic")
  <2>1. "NotDecimal" # "panic"
    OBVIOUS
  <2> QED BY <2>1, ResultParts
<1> HIDE DEF native
<1>8. CASE fields.ok
  BY <1>3, <1>4, <1>5, <1>6, <1>8 DEF reply, gadget, fields
<1>9. CASE ~fields.ok
  BY <1>3, <1>4, <1>7, <1>9, ResultParts DEF reply, gadget, fields
<1> QED BY <1>8, <1>9

-----------------------------------------------------------------------------
(* No call panics.                                                         *)

\* hash_sponge returns what the gadget computes.
LEMMA SpongeAgrees ==
  ASSUME NEW tag \in Elements, NEW in \in Messages, hash_sponge(tag, in).ok
  PROVE  LET fields == decimals_to_fields(<<tag>> \o in)
         IN  hash_sponge(tag, in).value
               = poseidon_hash_sponge_var(fields.value[1], Tail(fields.value))
<1>1. tag \in Int /\ in \in Seq(Int)
  BY BindingsAssumption
<1>2. (tag % P) \in Fq /\ FieldsOf(in) \in Seq(Fq)
  BY <1>1, ModInField, FieldsAre
<1>3. tag >= 0 /\ AllDecimal(in)
      /\ hash_sponge(tag, in) = Ok(poseidon_hash_sponge(tag % P, FieldsOf(in)))
  BY <1>1, FqDecimal, DecimalsAre, ResultParts DEF hash_sponge
<1>4. hash_sponge(tag, in).value = poseidon_hash_sponge_var(tag % P, FieldsOf(in))
  BY <1>2, <1>3, SpongeIs, ResultParts
<1> DEFINE fields == decimals_to_fields(<<tag>> \o in)
<1>5. fields.value[1] = tag % P /\ Tail(fields.value) = FieldsOf(in)
  BY <1>1, <1>3, FieldsOfBoth
<1> HIDE DEF fields
<1>6. hash_sponge(tag, in).value
        = poseidon_hash_sponge_var(fields.value[1], Tail(fields.value))
  BY <1>4, <1>5
<1> QED BY <1>6 DEF fields

\* An error a caller gets is not a panic.
LEMMA ErrorsDiffer ==
  Err("panic") \notin {Err("seed length"), Err("NotDecimal"), Err("MessageTooLong"),
                       Err("ArityOutOfRange"), Err("NotOnCurve"), Err("NotInPrimeSubgroup")}
<1>1. "panic" \notin {"seed length", "NotDecimal", "MessageTooLong", "ArityOutOfRange",
                      "NotOnCurve", "NotInPrimeSubgroup"}
  OBVIOUS
<1> QED BY <1>1, ResultParts

\* The hash of a message, natively and in the gadget.
LEMMA MessageHashIs ==
  ASSUME NEW m \in Seq(Fq)
  PROVE  /\ Len(m) > 11 => message_hash(m) = Err("MessageTooLong") /\ ~message_hash_var(m).ok
         /\ Len(m) <= 11 =>
              /\ message_hash(m).ok /\ message_hash(m).value \in Fq
              /\ message_hash(m) = Ok(message_hash(m).value)
              /\ message_hash_var(m) = message_hash(m)
<1>1. domain_tag("schnorr-message") \in Fq /\ Len(m) \in Nat
  BY TagsInField
<1>2. CASE Len(m) > 11
  <2>1. message_hash_var(m) = Err("Unsatisfiable")
    BY <1>1, <1>2, FixedIs DEF message_hash_var
  <2> QED BY <1>1, <1>2, <2>1, ResultParts DEF message_hash, MAX_MESSAGE_LEN
<1>3. CASE Len(m) <= 11
  <2>1. message_hash(m) = poseidon_hash_fixed(domain_tag("schnorr-message"), m)
        /\ message_hash_var(m) = poseidon_hash_fixed_var(domain_tag("schnorr-message"), m)
    BY <1>1, <1>3, FixedIs DEF message_hash, message_hash_var, MAX_MESSAGE_LEN
  <2> QED BY <1>1, <1>3, <2>1, FixedIs
<1> QED BY <1>1, <1>2, <1>3

\* schnorr_sign checks the length before it hashes.
LEMMA SignNoPanic ==
  ASSUME NEW seed \in Seeds, NEW m \in Messages
  PROVE  schnorr_sign(seed, m) # Err("panic")
<1> DEFINE pair == keypair_from_seed(seed)
           signed == sign(pair.sk, pair.pk, FieldsOf(m))
<1>1. m \in Seq(Int) /\ FieldsOf(m) \in Seq(Fq) /\ Len(FieldsOf(m)) \in Nat
  <2>1. m \in Seq(Int)
    BY BindingsAssumption
  <2> QED BY <2>1, FieldsAre
<1>2. signed # Err("panic")
  <2>1. CASE message_hash(FieldsOf(m)).ok
    BY <2>1, ResultParts DEF sign
  <2>2. CASE ~message_hash(FieldsOf(m)).ok
    <3>1. signed = message_hash(FieldsOf(m))
      BY <2>2 DEF sign
    <3>2. message_hash(FieldsOf(m)) = Err("MessageTooLong")
      BY <1>1, <2>2, MessageHashIs
    <3> QED BY <3>1, <3>2, ErrorsDiffer
  <2> QED BY <2>1, <2>2
<1>3. schnorr_sign(seed, m) \in {Err("seed length"), Err("NotDecimal"), signed}
  <2>1. CASE AllDecimal(m)
    BY <1>1, <2>1, DecimalsAre, ResultParts DEF schnorr_sign
  <2>2. CASE ~AllDecimal(m)
    BY <1>1, <2>2, DecimalsAre, ResultParts DEF schnorr_sign
  <2> QED BY <2>1, <2>2
<1> QED BY <1>2, <1>3, ErrorsDiffer

\* A point is decoded or refused.
LEMMA PointNoPanic ==
  ASSUME NEW x, NEW y
  PROVE  point_from_strings(x, y).ok \/ point_from_strings(x, y) # Err("panic")
<1>1. point_from_strings(x, y)
        \in {Err("NotDecimal"), Err("NotOnCurve"), Err("NotInPrimeSubgroup")}
      \/ point_from_strings(x, y) = Ok(<<x % P, y % P>>)
  BY DEF point_from_strings
<1> QED BY <1>1, ErrorsDiffer, ResultParts

\* schnorr_verify checks it too.
LEMMA VerifyNoPanic ==
  ASSUME NEW pk, NEW r, NEW s \in Int, NEW m \in Seq(Int)
  PROVE  schnorr_verify(pk, m, r, s) # Err("panic")
<1> DEFINE pk_point == point_from_strings(pk[1], pk[2])
           r_point == point_from_strings(r[1], r[2])
           scalar == scalar_from_decimal(s)
           fields == decimals_to_fields(m)
           answer == verify(pk_point.value, fields.value,
                            [r |-> r_point.value, s |-> scalar.value])
<1>1. /\ pk_point.ok \/ pk_point # Err("panic")
      /\ r_point.ok \/ r_point # Err("panic")
  BY PointNoPanic
<1>2. scalar.ok \/ scalar # Err("panic")
  <2>1. scalar = Ok(s % L) \/ scalar = Err("NotDecimal")
    BY DEF scalar_from_decimal
  <2> HIDE DEF scalar
  <2> QED BY <2>1, ErrorsDiffer, ResultParts
<1>3. fields = Ok(FieldsOf(m)) \/ (~fields.ok /\ fields # Err("panic"))
  BY DecimalsAre, ErrorsDiffer, ResultParts
<1>4. CASE fields = Ok(FieldsOf(m))
  <2> DEFINE f == FieldsOf(m)
             h == message_hash(f)
  <2>1. f \in Seq(Fq) /\ Len(f) \in Nat /\ fields.value = f
    BY <1>4, FieldsAre, ResultParts
  <2> HIDE DEF f, fields
  <2>2. h.ok \/ h = Err("MessageTooLong")
    BY <2>1, MessageHashIs
  <2>3. answer # Err("panic")
    <3>1. CASE h.ok
      BY <2>1, <3>1, ResultParts DEF verify
    <3>2. CASE ~h.ok
      <4>1. answer = h
        BY <2>1, <3>2 DEF verify
      <4> QED BY <2>2, <3>2, <4>1, ErrorsDiffer
    <3> QED BY <3>1, <3>2
  <2>4. schnorr_verify(pk, m, r, s) \in {pk_point, r_point, scalar, fields, answer}
    BY DEF schnorr_verify, fields
  <2>5. schnorr_verify(pk, m, r, s)
          = IF ~pk_point.ok THEN pk_point ELSE IF ~r_point.ok THEN r_point
            ELSE IF ~scalar.ok THEN scalar ELSE IF ~fields.ok THEN fields ELSE answer
    BY DEF schnorr_verify, fields
  <2>6. fields.ok
    BY <1>4, ResultParts
  <2> HIDE DEF pk_point, r_point, scalar, answer
  <2> QED BY <1>1, <1>2, <2>3, <2>5, <2>6
<1>5. CASE ~fields.ok /\ fields # Err("panic")
  <2>1. schnorr_verify(pk, m, r, s)
          = IF ~pk_point.ok THEN pk_point ELSE IF ~r_point.ok THEN r_point
            ELSE IF ~scalar.ok THEN scalar ELSE IF ~fields.ok THEN fields ELSE answer
    BY DEF schnorr_verify
  <2> HIDE DEF pk_point, r_point, scalar, fields, answer
  <2> QED BY <1>1, <1>2, <1>5, <2>1
<1> QED BY <1>3, <1>4, <1>5

\* kdf_derive leaves the arity to the hash.
LEMMA KdfNoPanic ==
  ASSUME NEW p \in PeerTexts, NEW context \in Messages
  PROVE  binding_kdf(p[1], p[2], context) # Err("panic")
<1> DEFINE point == point_from_strings(p[1], p[2])
           fields == decimals_to_fields(context)
           hash == poseidon_hash_fixed(domain_tag("kdf"), point.value \o fields.value)
<1>1. context \in Seq(Int)
  BY BindingsAssumption
<1>2. point.ok \/ point # Err("panic")
  BY PointNoPanic
<1>3. fields = Ok(FieldsOf(context)) \/ (~fields.ok /\ fields # Err("panic"))
  BY <1>1, DecimalsAre, ErrorsDiffer, ResultParts
<1>4. binding_kdf(p[1], p[2], context)
        = IF ~point.ok THEN point ELSE IF ~fields.ok THEN fields ELSE hash
  BY DEF binding_kdf, point, fields
<1>5. ASSUME point.ok, fields.ok PROVE hash # Err("panic")
  <2> DEFINE x == p[1] % P
             y == p[2] % P
             f == FieldsOf(context)
             in == <<x, y>> \o f
  <2>1. point = Ok(<<x, y>>) /\ x \in Fq /\ y \in Fq
    <3>1. point = Ok(<<x, y>>)
      BY <1>5, ResultParts DEF point_from_strings
    <3>2. p[1] \in Int /\ p[2] \in Int
      BY BindingsAssumption
    <3> QED BY <3>1, <3>2, ModInField
  <2>2. fields = Ok(f) /\ f \in Seq(Fq)
    BY <1>1, <1>3, <1>5, FieldsAre
  <2> HIDE DEF x, y, f, point, fields
  <2>3. point.value = <<x, y>> /\ fields.value = f
    BY <2>1, <2>2, ResultParts
  <2>4. in \in Seq(Fq) /\ Len(in) \in Nat
    BY <2>1, <2>2
  <2>5. hash = poseidon_hash_fixed(domain_tag("kdf"), in)
    BY <2>3
  <2> HIDE DEF in, hash
  <2>6. hash.ok \/ hash = Err("ArityOutOfRange")
    BY <2>4, <2>5, TagsInField, FixedIs
  <2> QED BY <2>6, ErrorsDiffer, ResultParts
<1>6. fields.ok \/ fields # Err("panic")
  BY <1>3, ResultParts
<1> HIDE DEF point, fields, hash
<1> QED BY <1>2, <1>4, <1>5, <1>6

\* For all inputs of any length no hashing call reaches the panic of a missing
\* table, and gadget and native hash agree.
THEOREM HashesNeverPanic == Spec => []HashesDefined
<1>1. Init => HashesDefined
  BY DEF Init, NoCall, HashesDefined, Accepted, IsCall
<1>2. HashesDefined /\ [Next]_call => HashesDefined'
  <2> SUFFICES ASSUME HashesDefined, [Next]_call PROVE HashesDefined'
    OBVIOUS
  <2>1. CASE UNCHANGED call
    BY <2>1 DEF HashesDefined, Accepted, IsCall
  <2>2. CASE Next
    <3>1. CASE call'.fn = "poseidon_hash_fixed"
      <4>1. PICK tag \in Elements, m \in Messages :
               call' = [fn |-> "poseidon_hash_fixed", args |-> <<tag, m>>,
                        reply |-> hash_fixed(tag, m)]
        BY <2>2, <3>1, Origins DEF PoseidonFixed, Called
      <4>2. /\ ~(call'.fn \in {"poseidon_hash_sponge"})
            /\ ~(call'.fn \in {"schnorr_sign", "schnorr_verify", "kdf_derive"})
        BY <3>1
      <4>3. call'.args[1] = tag /\ call'.args[2] = m /\ call'.reply = hash_fixed(tag, m)
        BY <4>1
      <4> QED BY <4>2, <4>3, FixedAgrees DEF HashesDefined, Accepted, IsCall
    <3>2. CASE call'.fn = "poseidon_hash_sponge"
      <4>1. PICK tag \in Elements, m \in Messages :
               call' = [fn |-> "poseidon_hash_sponge", args |-> <<tag, m>>,
                        reply |-> hash_sponge(tag, m)]
        BY <2>2, <3>2, Origins DEF PoseidonSponge, Called
      <4>2. /\ ~(call'.fn \in {"poseidon_hash_fixed"})
            /\ ~(call'.fn \in {"schnorr_sign", "schnorr_verify", "kdf_derive"})
        BY <3>2
      <4>3. call'.args[1] = tag /\ call'.args[2] = m /\ call'.reply = hash_sponge(tag, m)
        BY <4>1
      <4> QED BY <4>2, <4>3, SpongeAgrees DEF HashesDefined, Accepted, IsCall
    <3>3. CASE call'.fn = "schnorr_sign"
      <4>1. PICK seed \in Seeds, m \in Messages :
               call' = [fn |-> "schnorr_sign", args |-> <<seed, m>>,
                        reply |-> schnorr_sign(seed, m)]
        BY <2>2, <3>3, Origins DEF SchnorrSign, Called
      <4>2. ~(call'.fn \in {"poseidon_hash_fixed"}) /\ ~(call'.fn \in {"poseidon_hash_sponge"})
        BY <3>3
      <4>3. call'.reply # Err("panic")
        BY <4>1, SignNoPanic
      <4> QED BY <4>2, <4>3 DEF HashesDefined, Accepted, IsCall
    <3>4. CASE call'.fn = "kdf_derive"
      <4>1. PICK p \in PeerTexts, context \in Messages :
               call' = [fn |-> "kdf_derive", args |-> <<p, context>>,
                        reply |-> binding_kdf(p[1], p[2], context)]
        BY <2>2, <3>4, Origins DEF KdfDerive, Called
      <4>2. ~(call'.fn \in {"poseidon_hash_fixed"}) /\ ~(call'.fn \in {"poseidon_hash_sponge"})
        BY <3>4
      <4>3. call'.reply # Err("panic")
        BY <4>1, KdfNoPanic
      <4> QED BY <4>2, <4>3 DEF HashesDefined, Accepted, IsCall
    <3>5. CASE call'.fn = "schnorr_verify"
      <4>1. PICK pk, r \in PeerTexts, m \in CircuitMessages \cup {<<-1>>}, s \in ScalarTexts :
               call'.reply = schnorr_verify(pk, m, r, s)
        BY <2>2, <3>5, Origins DEF SchnorrVerify, Called
      <4>2. ~(call'.fn \in {"poseidon_hash_fixed"}) /\ ~(call'.fn \in {"poseidon_hash_sponge"})
        BY <3>5
      <4>3. m \in Seq(Int) /\ s \in Int
        <5>1. CircuitMessages \subseteq Seq(Fq) /\ Fq \subseteq Int /\ <<-1>> \in Seq(Int)
          BY BindingsAssumption, PrimeTypes
        <5>2. ASSUME NEW t \in Seq(Fq) PROVE t \in Seq(Int)
          <6>1. t = [i \in 1..Len(t) |-> t[i]] /\ Len(t) \in Nat
            OBVIOUS
          <6>2. \A i \in 1..Len(t) : t[i] \in Int
            BY <5>1, ElementOfSeq
          <6> QED BY <6>1, <6>2
        <5> QED BY <5>1, <5>2, BindingsAssumption
      <4>4. call'.reply # Err("panic")
        BY <4>1, <4>3, VerifyNoPanic
      <4> QED BY <4>2, <4>4 DEF HashesDefined, Accepted, IsCall
    <3> QED BY <3>1, <3>2, <3>3, <3>4, <3>5 DEF HashesDefined, Accepted, IsCall
  <2> QED BY <2>1, <2>2
<1> QED BY <1>1, <1>2, PTL DEF Spec

-----------------------------------------------------------------------------
(* Congruence modulo P, and the curve equation solved for the square of x. *)

\* Congruence modulo P.
Cong(a, b) == a % P = b % P

\* A number and its remainder are congruent.
LEMMA CongMod ==
  ASSUME NEW a \in Int
  PROVE  Cong(a % P, a) /\ (a % P) \in Int
<1>1. (a % P) \in 0..(P - 1)
  BY PrimeTypes, Division
<1>2. (a % P) % P = a % P
  BY <1>1, PrimeTypes, ModSmall
<1> QED BY <1>1, <1>2, PrimeTypes DEF Cong

\* Congruent numbers add.
LEMMA CongSum ==
  ASSUME NEW a \in Int, NEW b \in Int, NEW c \in Int, NEW d \in Int, Cong(a, b), Cong(c, d)
  PROVE  Cong(a + c, b + d)
<1>1. ((a % P) + c) % P = (a + c) % P /\ ((b % P) + c) % P = (b + c) % P
  BY PrimeTypes, ModAdd
<1>2. ((c % P) + b) % P = (c + b) % P /\ ((d % P) + b) % P = (d + b) % P
  BY PrimeTypes, ModAdd
<1>3. b + c = c + b /\ b + d = d + b
  OBVIOUS
<1> QED BY <1>1, <1>2, <1>3 DEF Cong

\* Congruent numbers multiply.
LEMMA CongProduct ==
  ASSUME NEW a \in Int, NEW b \in Int, NEW c \in Int, NEW d \in Int, Cong(a, b), Cong(c, d)
  PROVE  Cong(a * c, b * d)
<1>1. ((a % P) * c) % P = (a * c) % P /\ ((b % P) * c) % P = (b * c) % P
  BY PrimeTypes, ModMul
<1>2. ((c % P) * b) % P = (c * b) % P /\ ((d % P) * b) % P = (d * b) % P
  BY PrimeTypes, ModMul
<1>3. b * c = c * b /\ b * d = d * b
  OBVIOUS
<1> QED BY <1>1, <1>2, <1>3 DEF Cong

\* Congruence is reflexive.
LEMMA CongRefl == \A a \in Int : Cong(a, a)
  BY DEF Cong

\* Congruence is symmetric and transitive.
LEMMA CongTrans ==
  ASSUME NEW a \in Int, NEW b \in Int, NEW c \in Int, Cong(a, b), Cong(b, c)
  PROVE  Cong(a, c) /\ Cong(b, a)
  BY DEF Cong

\* Congruent numbers subtract.
LEMMA CongDifference ==
  ASSUME NEW a \in Int, NEW b \in Int, NEW c \in Int, NEW d \in Int, Cong(a, b), Cong(c, d)
  PROVE  Cong(a - c, b - d)
<1>0. -1 \in Int /\ Cong(-1, -1) /\ (-1) * c \in Int /\ (-1) * d \in Int
  BY CongRefl
<1>1. Cong((-1) * c, (-1) * d)
  BY <1>0, CongProduct
<1>2. Cong(a + (-1) * c, b + (-1) * d)
  BY <1>0, <1>1, CongSum
<1>3. a - c = a + (-1) * c /\ b - d = b + (-1) * d
  OBVIOUS
<1> QED BY <1>2, <1>3

\* Congruent field elements are equal.
LEMMA CongEqual ==
  ASSUME NEW a \in Fq, NEW b \in Fq, Cong(a, b)
  PROVE  a = b
<1>1. a % P = a /\ b % P = b
  BY PrimeTypes, ModSmall
<1> QED BY <1>1 DEF Cong

\* The curve equation as a congruence.
LEMMA CurveCong ==
  ASSUME NEW x \in Int, NEW y \in Int
  PROVE  is_on_curve(<<x, y>>)
           <=> Cong(COEFF_A * (x * x) + y * y, 1 + COEFF_D * ((x * x) * (y * y)))
<1> DEFINE X == x * x
           Y == y * y
           Z == X * Y
<1>1. X \in Int /\ Y \in Int /\ Z \in Int /\ COEFF_A \in Int /\ COEFF_D \in Int
  BY PrimeTypes
<1>2. COEFF_A * x * x = COEFF_A * X /\ x * x * y * y = Z
  BY <1>1
<1>3. is_on_curve(<<x, y>>) <=> (COEFF_A * x * x + y * y) % P
                                  = (1 + COEFF_D * ((x * x * y * y) % P)) % P
  BY DEF is_on_curve
<1> HIDE DEF Z
<1>4. is_on_curve(<<x, y>>) <=> Cong(COEFF_A * X + Y, 1 + COEFF_D * (Z % P))
  BY <1>2, <1>3 DEF Cong
<1> HIDE DEF X, Y
<1>5. Cong(COEFF_D * (Z % P), COEFF_D * Z)
  BY <1>1, CongMod, CongRefl, CongProduct
<1>6. COEFF_D * (Z % P) \in Int /\ COEFF_D * Z \in Int
  BY <1>1, CongMod
<1>7. Cong(1 + COEFF_D * (Z % P), 1 + COEFF_D * Z)
  <2>1. 1 \in Int /\ Cong(1, 1)
    BY CongRefl
  <2> QED BY <1>5, <1>6, <2>1, CongSum
<1>8. is_on_curve(<<x, y>>) <=> Cong(COEFF_A * X + Y, 1 + COEFF_D * Z)
  <2>1. COEFF_A * X + Y \in Int /\ 1 + COEFF_D * (Z % P) \in Int /\ 1 + COEFF_D * Z \in Int
    BY <1>1, <1>6
  <2> QED BY <1>4, <1>7, <2>1 DEF Cong
<1> QED BY <1>8 DEF X, Y, Z

\* The curve equation and the equation of its denominator say the same.
LEMMA CurveSolved ==
  ASSUME NEW a \in Int, NEW d \in Int, NEW X \in Int, NEW Y \in Int
  PROVE  Cong(a * X + Y, 1 + d * (X * Y)) <=> Cong((a - d * Y) * X, 1 - Y)
<1> DEFINE e == d * (X * Y)
<1>1. e \in Int /\ a * X \in Int
  OBVIOUS
<1>2. (a - d * Y) * X = (a * X + Y) - (e + Y)
  <2>1. d * Y \in Int /\ (a - d * Y) * X = a * X - (d * Y) * X
    OBVIOUS
  <2>2. (d * Y) * X = d * (X * Y)
    OBVIOUS
  <2> HIDE DEF e
  <2>3. a * X - e = (a * X + Y) - (e + Y)
    BY <1>1
  <2> QED BY <2>1, <2>2, <2>3 DEF e
<1> HIDE DEF e
<1>3. 1 - Y = (1 + e) - (e + Y) /\ e + Y \in Int /\ (a * X + Y) \in Int /\ 1 + e \in Int
  BY <1>1
<1>4. Cong(a * X + Y, 1 + e) => Cong((a * X + Y) - (e + Y), (1 + e) - (e + Y))
  BY <1>3, CongRefl, CongDifference
<1>5. (a - d * Y) * X \in Int /\ 1 - Y \in Int
  OBVIOUS
<1>6. Cong((a - d * Y) * X, 1 - Y)
        => Cong((a - d * Y) * X + (e + Y), (1 - Y) + (e + Y))
  BY <1>3, <1>5, CongRefl, CongSum
<1>7. (a - d * Y) * X + (e + Y) = a * X + Y /\ (1 - Y) + (e + Y) = 1 + e
  BY <1>1, <1>2, <1>3
<1> QED BY <1>2, <1>3, <1>4, <1>6, <1>7 DEF e

-----------------------------------------------------------------------------
(* Points of one y: the square roots point_from_y tries are all there are. *)

\* Through the inverse of the denominator, which is not zero on the curve.
LEMMA RootIs ==
  ASSUME NEW x \in Fq, NEW y \in Fq, NEW y2 \in Int, NEW den \in Int,
         y2 = (y * y) % P, den = (COEFF_A - COEFF_D * y2) % P
  PROVE  is_on_curve(<<x, y>>)
           <=> den # 0 /\ (x * x) % P = ((1 - y2) * inverse[den]) % P
<1> DEFINE X == x * x
           Y == y * y
           A == COEFF_A
           D == COEFF_D
           E == A - D * Y
<1>1. X \in Int /\ Y \in Int /\ A \in Int /\ D \in Int /\ x \in Int /\ y \in Int
  BY PrimeTypes
<1>2. y2 \in Int /\ Cong(y2, Y)
  BY <1>1, CongMod
<1>3. is_on_curve(<<x, y>>) <=> Cong(E * X, 1 - Y)
  BY <1>1, CurveCong, CurveSolved
<1>4. A - D * y2 \in Int /\ Cong(den, A - D * y2) /\ den \in Fq /\ den \in Int
  <2>1. A - D * y2 \in Int
    BY <1>1, <1>2
  <2>2. den \in Fq /\ Cong(den, A - D * y2) /\ den \in Int
    BY <2>1, CongMod, ModInField
  <2> QED BY <2>1, <2>2
<1>5. A - D * Y \in Int /\ D * y2 \in Int /\ D * Y \in Int /\ 1 - Y \in Int /\ 1 - y2 \in Int
  BY <1>1, <1>2
<1> HIDE DEF A, D, X, Y
<1>6. Cong(den, E)
  <2>1. Cong(D * y2, D * Y)
    BY <1>1, <1>2, CongRefl, CongProduct
  <2>2. Cong(A - D * y2, A - D * Y)
    BY <1>1, <1>5, <2>1, CongRefl, CongDifference
  <2> QED BY <1>4, <1>5, <2>2, CongTrans
<1>7. Cong(1 - y2, 1 - Y)
  <2>1. 1 \in Int /\ Cong(1, 1)
    BY CongRefl
  <2> QED BY <1>1, <1>2, <2>1, CongDifference
<1> HIDE DEF E
<1>8. E \in Int
  BY <1>5 DEF E
<1>9. is_on_curve(<<x, y>>) <=> Cong(den * X, 1 - y2)
  <2>0. Cong(X, X) /\ den * X \in Int /\ E * X \in Int
    BY <1>1, <1>4, <1>8, CongRefl
  <2>1. Cong(den * X, E * X) /\ den * X \in Int /\ E * X \in Int
    BY <1>1, <1>4, <1>6, <1>8, <2>0, CongProduct
  <2> QED BY <1>3, <1>5, <1>7, <2>1 DEF Cong
<1>10. ASSUME is_on_curve(<<x, y>>) PROVE den # 0
  <2> SUFFICES ASSUME den = 0 PROVE FALSE
    OBVIOUS
  <2>1. Cong(0, E)
    BY <1>6
  <2>2. Cong(0, 1 - Y)
    <3>0. 0 \in Int /\ Cong(X, X) /\ 0 * X = 0
      BY <1>1, CongRefl
    <3>1. Cong(0 * X, E * X) /\ 0 * X = 0
      BY <1>1, <1>8, <2>1, <3>0, CongProduct
    <3>2. Cong(E * X, 1 - Y)
      BY <1>3, <1>10
    <3> QED BY <3>1, <3>2 DEF Cong
  <2>3. Cong(Y, 1)
    <3>1. Cong(0 + Y, (1 - Y) + Y)
      BY <1>1, <1>5, <2>2, CongRefl, CongSum
    <3>2. 0 + Y = Y /\ (1 - Y) + Y = 1
      BY <1>1
    <3> QED BY <3>1, <3>2
  <2>4. Cong(A, D)
    <3>1. Cong(D * Y, D * 1)
      BY <1>1, <2>3, CongRefl, CongProduct
    <3>2. Cong(0 + D * Y, E + D * Y)
      BY <1>1, <1>5, <1>8, <2>1, CongRefl, CongSum
    <3>3. 0 + D * Y = D * Y /\ E + D * Y = A /\ D * 1 = D
      BY <1>1, <1>5 DEF E
    <3> QED BY <3>1, <3>2, <3>3 DEF Cong
  <2>5. A = D
    BY <2>4, PrimeTypes, CongEqual DEF A, D
  <2>6. COEFF_A = COEFF_D
    BY <2>5 DEF A, D
  <2> QED BY <2>6, CurveAssumption
<1>11. ASSUME den # 0
       PROVE  Cong(den * X, 1 - y2) <=> Cong(X, (1 - y2) * inverse[den])
  <2> DEFINE i == inverse[den]
  <2>1. i \in Int /\ Cong(den * i, 1)
    <3>1. i \in Fq /\ (den * i) % P = 1
      BY <1>4, <1>11, InverseIs
    <3>2. 1 % P = 1
      BY PrimeTypes, ModSmall
    <3> QED BY <3>1, <3>2, PrimeTypes DEF Cong
  <2> HIDE DEF i
  <2> DEFINE n == 1 - y2
  <2>2. n \in Int
    BY <1>5
  <2> HIDE DEF n
  <2>3. den * X \in Int /\ n * i \in Int /\ den * i \in Int /\ (den * X) * i \in Int
        /\ den * (n * i) \in Int
    BY <1>1, <1>4, <2>1, <2>2
  <2>4. ASSUME Cong(den * X, n) PROVE Cong(X, n * i)
    <3>1. Cong((den * X) * i, n * i)
      BY <2>1, <2>2, <2>3, <2>4, CongRefl, CongProduct
    <3>2. Cong((den * i) * X, 1 * X)
      BY <1>1, <2>1, <2>3, CongRefl, CongProduct
    <3>3. (den * X) * i = (den * i) * X /\ 1 * X = X
      BY <1>1, <1>4, <2>1
    <3> QED BY <3>1, <3>2, <3>3 DEF Cong
  <2>5. ASSUME Cong(X, n * i) PROVE Cong(den * X, n)
    <3>1. Cong(den * X, den * (n * i))
      BY <1>1, <1>4, <2>3, <2>5, CongRefl, CongProduct
    <3>2. Cong((den * i) * n, 1 * n)
      BY <2>1, <2>2, <2>3, CongRefl, CongProduct
    <3>3. den * (n * i) = (den * i) * n /\ 1 * n = n
      BY <1>4, <2>1, <2>2
    <3> QED BY <3>1, <3>2, <3>3 DEF Cong
  <2> QED BY <2>4, <2>5 DEF n, i
<1> QED BY <1>9, <1>10, <1>11 DEF Cong, X

\* The points of a y and a sign.
LEMMA PointsFromY ==
  ASSUME NEW y \in Fq, NEW odd
  PROVE  point_from_y(y, odd)
           = {p \in CurvePoints : p[2] = y /\ (p[1] = 0 \/ IsOdd(p[1]) = odd)}
<1> DEFINE y2 == (y * y) % P
           den == (COEFF_A - COEFF_D * y2) % P
           Root(x) == (x * x) % P = ((1 - y2) * inverse[den]) % P
           Fits(x) == x = 0 \/ IsOdd(x) = odd
           Q == {p \in CurvePoints : p[2] = y /\ (p[1] = 0 \/ IsOdd(p[1]) = odd)}
<1>1. point_from_y(y, odd) = IF den = 0 THEN {} ELSE {<<x, y>> : x \in {r \in Fq : Root(r) /\ Fits(r)}}
  BY DEF point_from_y
<1>2. ASSUME NEW x \in Fq
      PROVE  <<x, y>> \in CurvePoints <=> den # 0 /\ Root(x)
  <2>1. y2 \in Int
    BY PrimeTypes, CongMod
  <2>2. den \in Int
    <3> HIDE DEF y2
    <3>1. COEFF_A - COEFF_D * y2 \in Int
      BY <2>1, PrimeTypes
    <3> QED BY <3>1, CongMod
  <2>3. is_on_curve(<<x, y>>) <=> den # 0 /\ Root(x)
    BY <2>1, <2>2, RootIs
  <2> QED BY <2>3 DEF CurvePoints
<1> HIDE DEF den, y2, Root
<1>3. ASSUME NEW p \in point_from_y(y, odd) PROVE p \in Q
  <2>1. den # 0
    BY <1>1, <1>3
  <2>2. PICK x \in Fq : p = <<x, y>> /\ Root(x) /\ Fits(x)
    BY <1>1, <1>3, <2>1
  <2> QED BY <1>2, <2>1, <2>2
<1>4. ASSUME NEW p \in Q PROVE p \in point_from_y(y, odd)
  <2>1. p \in CurvePoints /\ p = <<p[1], y>> /\ p[1] \in Fq /\ Fits(p[1])
    BY PointTypes
  <2>2. den # 0 /\ Root(p[1])
    BY <1>2, <2>1
  <2> QED BY <1>1, <2>1, <2>2
<1> QED BY <1>3, <1>4

-----------------------------------------------------------------------------
(* Hashing to the curve: clearing the cofactor leads into the subgroup.    *)

\* Eight times a point has an order that divides L.
LEMMA CofactorCleared ==
  ASSUME NEW p \in CurvePoints
  PROVE  mul(8, p) \in Subgroup
<1>1. 8 \in Nat /\ L \in Nat /\ L * 8 = 8 * L
  BY PrimeTypes
<1>2. mul(8, p) \in CurvePoints /\ mul(L, mul(8, p)) = mul(L * 8, p)
  BY <1>1, MulType, MulMul
<1>3. mul(8 * L, p) = IDENTITY
  BY GroupAssumption
<1> QED BY <1>1, <1>2, <1>3, SubgroupIs

\* The points a digest names, by their y and the sign of their x.
Named(digest) ==
    {p \in CurvePoints : p[2] = digest % P
        /\ (p[1] = 0 \/ IsOdd(p[1]) = (digest >= power(2, DigestBits - 1)))}

\* The generator a digest gives, if it gives one.
LEMMA CandidateIs ==
  ASSUME NEW digest \in Int
  PROVE  candidate(digest) = {mul(8, p) : p \in Named(digest)} \ {IDENTITY}
         /\ candidate(digest) \subseteq Subgroup \ {IDENTITY}
<1> DEFINE odd == digest >= power(2, DigestBits - 1)
           Q == point_from_y(digest % P, odd)
<1>1. (digest % P) \in Fq
  BY ModInField
<1>2. Q = Named(digest)
  <2>1. Q = {p \in CurvePoints : p[2] = digest % P /\ (p[1] = 0 \/ IsOdd(p[1]) = odd)}
    BY <1>1, PointsFromY
  <2> QED BY <2>1 DEF Named
<1>3. candidate(digest) = {q \in {mul(8, p) : p \in Q} : q # IDENTITY /\ is_in_prime_subgroup(q)}
  BY DEF candidate
<1> HIDE DEF Q, odd
<1>4. \A p \in Named(digest) : mul(8, p) \in Subgroup /\ is_in_prime_subgroup(mul(8, p))
  <2> TAKE p \in Named(digest)
  <2>1. p \in CurvePoints
    BY DEF Named
  <2> QED BY <2>1, CofactorCleared DEF Subgroup
<1>5. candidate(digest) = {mul(8, p) : p \in Named(digest)} \ {IDENTITY}
  BY <1>2, <1>3, <1>4
<1> QED BY <1>4, <1>5

\* The least fruitful counter is fruitful.
LEMMA MinIs ==
  ASSUME NEW S, S \subseteq Nat, S # {}
  PROVE  Min(S) \in S
<1>1. \E x \in S : \A y \in S : x <= y
  BY Least
<1> QED BY <1>1 DEF Min

\* Trying the counters one after the other.
LEMMA DeriveIs ==
  ASSUME NEW n \in Nat, NEW digests \in [1..n -> Int]
  PROVE  LET reply == try_and_increment(digests)
         IN  /\ reply.ok => reply.value \in Subgroup \ {IDENTITY}
             /\ ~reply.ok => \A c \in 1..n : \A p \in Named(digests[c]) : mul(8, p) = IDENTITY
<1> DEFINE hits == {c \in 1..n : candidate(digests[c]) # {}}
           reply == try_and_increment(digests)
<1>1. reply = IF hits = {} THEN Err("panic")
              ELSE Ok(CHOOSE q \in candidate(digests[Min(hits)]) : TRUE)
  <2>1. Len(digests) = n
    OBVIOUS
  <2> QED BY <2>1 DEF try_and_increment
<1>2. \A c \in 1..n : digests[c] \in Int
  OBVIOUS
<1> HIDE DEF reply
<1>3. CASE hits = {}
  <2>1. ~reply.ok
    BY <1>1, <1>3, ResultParts
  <2>2. ASSUME NEW c \in 1..n, NEW p \in Named(digests[c]) PROVE mul(8, p) = IDENTITY
    <3>1. candidate(digests[c]) = {}
      BY <1>3
    <3> QED BY <1>2, <3>1, CandidateIs
  <2> QED BY <2>1, <2>2 DEF reply
<1>4. CASE hits # {}
  <2> DEFINE C == candidate(digests[Min(hits)])
  <2>1. Min(hits) \in hits
    <3>1. hits \subseteq Nat
      OBVIOUS
    <3> HIDE DEF hits
    <3> QED BY <1>4, <3>1, MinIs
  <2>2. C # {} /\ C \subseteq Subgroup \ {IDENTITY}
    BY <1>2, <2>1, CandidateIs
  <2>3. reply = Ok(CHOOSE q \in C : TRUE)
    BY <1>1, <1>4
  <2> HIDE DEF C
  <2>4. (CHOOSE q \in C : TRUE) \in C
    BY <2>2
  <2>5. reply.ok /\ reply.value = (CHOOSE q \in C : TRUE)
    BY <2>3, ResultParts
  <2> QED BY <2>2, <2>4, <2>5 DEF reply
<1> QED BY <1>3, <1>4

\* Digests are numbers.
LEMMA DigestsAreNumbers == Digests \subseteq Int
  BY DEF Digests

\* The generators of the commitment are derived, hence in the subgroup.
LEMMA GeneratorsInSubgroup ==
  /\ h_generator \in Subgroup
  /\ \A i \in 0..(MaxStream - 1) : g_generator[i] \in Subgroup
<1>0. MaxCounter \in Nat
  BY GeneratorsAssumption
<1>1. digests_of(<<"H">>) \in [1..MaxCounter -> Int]
  <2>1. \A c \in 1..MaxCounter : digests_of(<<"H">>)[c] \in Int
    BY GeneratorsAssumption, DigestsAreNumbers
  <2> QED BY <2>1 DEF digests_of
<1>2. h_generator \in Subgroup
  BY <1>0, <1>1, GeneratorsAssumption, DeriveIs DEF h_generator, derive_h
<1>3. ASSUME NEW i \in 0..(MaxStream - 1) PROVE g_generator[i] \in Subgroup
  <2>1. \A c \in 1..MaxCounter : digests_of(<<"G", i>>)[c] \in Int
    BY GeneratorsAssumption, DigestsAreNumbers
  <2>2. digests_of(<<"G", i>>) \in [1..MaxCounter -> Int]
    BY <2>1 DEF digests_of
  <2>3. derive_g_at(i).ok
    BY GeneratorsAssumption
  <2>4. derive_g_at(i).value \in Subgroup
    BY <1>0, <2>2, <2>3, DeriveIs DEF derive_g_at
  <2> QED BY <2>4 DEF g_generator
<1> QED BY <1>2, <1>3

\* The same in the words of the property.
LEMMA DeriveSound ==
  ASSUME NEW digests \in [1..MaxCounter -> Digests]
  PROVE  IF try_and_increment(digests).ok
         THEN try_and_increment(digests).value \in Subgroup \ {IDENTITY}
         ELSE \A c \in 1..MaxCounter : \A p \in CurvePoints :
                 p[2] = digests[c] % P
                 /\ (p[1] = 0 \/ IsOdd(p[1]) = (digests[c] >= power(2, DigestBits - 1)))
                     => mul(8, p) = IDENTITY
<1>1. MaxCounter \in Nat /\ digests \in [1..MaxCounter -> Int]
  BY GeneratorsAssumption, DigestsAreNumbers
<1> QED BY <1>1, DeriveIs DEF Named

\* Whatever BLAKE2b returns, a generator derived from it is a point of the
\* subgroup other than the identity, and a counter is skipped only for want of one.
THEOREM DerivedGenerators == Spec => []GeneratorsSound
<1>1. Init => GeneratorsSound
  BY DEF Init, NoCall, GeneratorsSound, IsCall
<1>2. GeneratorsSound /\ [Next]_call => GeneratorsSound'
  <2> SUFFICES ASSUME GeneratorsSound, [Next]_call PROVE GeneratorsSound'
    OBVIOUS
  <2>1. CASE UNCHANGED call
    BY <2>1 DEF GeneratorsSound, IsCall
  <2>2. CASE Next
    <3>1. CASE call'.fn = "derive"
      <4>1. PICK digests \in [1..MaxCounter -> Digests] :
               call' = [fn |-> "derive", args |-> <<digests>>,
                        reply |-> try_and_increment(digests)]
        BY <2>2, <3>1, Origins DEF DeriveGenerator, Called
      <4>2. call'.args[1] = digests /\ call'.reply = try_and_increment(digests)
        BY <4>1
      <4> QED BY <4>2, DeriveSound DEF GeneratorsSound
    <3> QED BY <3>1 DEF GeneratorsSound, IsCall
  <2> QED BY <2>1, <2>2
<1> QED BY <1>1, <1>2, PTL DEF Spec

-----------------------------------------------------------------------------
(* Points and scalars as texts, and what the calls make of them.           *)

\* point_from_strings accepts the texts of subgroup points and no others.
LEMMA PointTextsAre ==
  ASSUME NEW x \in Int, NEW y \in Int
  PROVE  LET p == <<x % P, y % P>>
             point == point_from_strings(x, y)
         IN  /\ point.ok = (x >= 0 /\ y >= 0 /\ p \in Subgroup)
             /\ point.ok => point = Ok(p)
<1> DEFINE p == <<x % P, y % P>>
           point == point_from_strings(x, y)
<1>1. p \in Fq \X Fq
  BY ModInField
<1>2. p \in Subgroup <=> is_on_curve(p) /\ is_in_prime_subgroup(p)
  BY <1>1 DEF Subgroup, CurvePoints
<1>3. point = IF ~(x >= 0) \/ ~(y >= 0) THEN Err("NotDecimal")
              ELSE IF ~is_on_curve(p) THEN Err("NotOnCurve")
              ELSE IF ~is_in_prime_subgroup(p) THEN Err("NotInPrimeSubgroup") ELSE Ok(p)
  BY DEF point_from_strings, IsDecimal
<1> HIDE DEF p, point
<1>4. CASE x >= 0 /\ y >= 0 /\ p \in Subgroup
  <2>1. point = Ok(p)
    BY <1>2, <1>3, <1>4
  <2> QED BY <1>4, <2>1, ResultParts DEF p, point
<1>5. CASE ~(x >= 0 /\ y >= 0 /\ p \in Subgroup)
  <2>1. point \in {Err("NotDecimal"), Err("NotOnCurve"), Err("NotInPrimeSubgroup")}
    BY <1>2, <1>3, <1>5
  <2>2. point.ok = FALSE
    BY <2>1, ResultParts
  <2> QED BY <1>5, <2>2 DEF p, point
<1> QED BY <1>4, <1>5

\* A remainder modulo L is a scalar.
LEMMA ModInFr ==
  ASSUME NEW x \in Int
  PROVE  (x % L) \in Fr /\ (x % L) \in Nat /\ (x % L) \in Int
<1>1. (x % L) \in 0..(L - 1)
  BY PrimeTypes, Division
<1> QED BY <1>1, PrimeTypes

\* The scalar a text names.
LEMMA ScalarTextIs ==
  ASSUME NEW text \in Int
  PROVE  /\ text >= 0 => scalar_from_decimal(text) = Ok(text % L)
         /\ text < 0 => scalar_from_decimal(text) = Err("NotDecimal")
         /\ scalar_from_decimal(text).ok <=> text >= 0
         /\ (text % L) \in Fr /\ (text % L) \in Nat
<1>1. (text % L) \in 0..(L - 1)
  BY PrimeTypes, Division
<1>2. (text % L) \in Fr /\ (text % L) \in Nat
  BY <1>1, PrimeTypes
<1> QED BY <1>2, ResultParts DEF scalar_from_decimal, IsDecimal

\* fq_to_fr.
LEMMA ReducedIs ==
  ASSUME NEW x \in Fq
  PROVE  fq_to_fr(x) \in Fr /\ fq_to_fr(x) \in Nat /\ fq_to_fr(x) = x % L
<1>0. x \in Int /\ L \in Nat \ {0}
  BY PrimeTypes
<1>1. (x % L) \in 0..(L - 1)
  BY <1>0, Division
<1> QED BY <1>1, PrimeTypes DEF fq_to_fr

\* The keys of a seed.
LEMMA KeypairIs ==
  ASSUME NEW seed \in Seq(Int), Len(seed) = 2
  PROVE  LET pair == keypair_from_seed(seed)
         IN  pair.sk \in Fr /\ pair.sk \in Nat
             /\ pair.pk = mul(pair.sk, generator) /\ pair.pk \in Subgroup
<1> DEFINE in == <<domain_tag("keypair"), seed[1] % P, seed[2] % P>>
           sk == fq_to_fr(poseidon3(in))
<1>1. seed[1] \in Int /\ seed[2] \in Int
  <2>1. 1 \in 1..Len(seed) /\ 2 \in 1..Len(seed)
    OBVIOUS
  <2> QED BY <2>1, ElementOfSeq
<1>2. domain_tag("keypair") \in Fq /\ (seed[1] % P) \in Fq /\ (seed[2] % P) \in Fq
  BY <1>1, TagsInField, ModInField
<1>3. in \in Seq(Fq) /\ 1 <= Len(in) /\ Len(in) <= 12
  BY <1>2
<1>4. keypair_from_seed(seed) = [sk |-> sk, pk |-> mul(sk, generator)]
  BY DEF keypair_from_seed
<1> HIDE DEF in
<1>5. poseidon3(in) \in Fq
  BY <1>3, CircomIs DEF poseidon3
<1>6. sk \in Fr /\ sk \in Nat
  BY <1>5, ReducedIs
<1> HIDE DEF sk
<1>7. mul(sk, generator) \in Subgroup
  BY <1>6, SubgroupClosed
<1> QED BY <1>4, <1>6, <1>7

\* Seeds are numbers.
LEMMA SeedsAre ==
  ASSUME NEW seed \in Seeds
  PROVE  seed \in Seq(Int)
  BY BindingsAssumption

\* When ecdh answers, and what.
LEMMA EcdhIs ==
  ASSUME NEW seed \in Seeds, NEW x \in Int, NEW y \in Int
  PROVE  LET p == <<x % P, y % P>>
             reply == ecdh(seed, x, y)
             sk == keypair_from_seed(seed).sk
         IN  /\ reply.ok <=> Len(seed) = 2 /\ x >= 0 /\ y >= 0 /\ p \in Subgroup
             /\ reply.ok => reply = Ok(mul(sk, p)) /\ reply.value \in Subgroup
<1> DEFINE p == <<x % P, y % P>>
           point == point_from_strings(x, y)
           reply == ecdh(seed, x, y)
           sk == keypair_from_seed(seed).sk
<1>1. reply = IF Len(seed) # 2 THEN Err("seed length") ELSE IF ~point.ok THEN point
              ELSE Ok(mul(sk, point.value))
  BY DEF ecdh, shared_secret, point_to_strings
<1>2. /\ point.ok = (x >= 0 /\ y >= 0 /\ p \in Subgroup)
      /\ point.ok => point = Ok(p)
  BY PointTextsAre
<1>3. Len(seed) = 2 => sk \in Nat
  BY SeedsAre, KeypairIs
<1> HIDE DEF p, point, reply, sk
<1>4. CASE Len(seed) = 2 /\ point.ok
  <2>1. reply = Ok(mul(sk, p)) /\ p \in Subgroup /\ x >= 0 /\ y >= 0
    BY <1>1, <1>2, <1>4, ResultParts
  <2>2. mul(sk, p) \in Subgroup
    BY <1>3, <1>4, <2>1, SubgroupClosed
  <2>3. reply.ok /\ reply.value \in Subgroup
    BY <2>1, <2>2, ResultParts
  <2> QED BY <1>4, <2>1, <2>3 DEF p, reply, sk
<1>5. CASE ~(Len(seed) = 2 /\ point.ok)
  <2>1. ~reply.ok
    BY <1>1, <1>5, ResultParts
  <2> QED BY <1>2, <1>5, <2>1 DEF p, reply, sk
<1> QED BY <1>4, <1>5

\* When schnorr_sign answers, and what.
LEMMA SignIs ==
  ASSUME NEW seed \in Seeds, NEW m \in Messages, schnorr_sign(seed, m).ok
  PROVE  LET pair == keypair_from_seed(seed)
             sig == schnorr_sign(seed, m).value
             h == message_hash(FieldsOf(m))
             c == fq_to_fr(challenge_inner(sig.r, pair.pk, h.value))
         IN  /\ Len(seed) = 2 /\ AllDecimal(m) /\ h.ok /\ h.value \in Fq
             /\ c \in Nat
             /\ sig.r \in Subgroup
             /\ \E k \in Nat : /\ sig.r = mul(k, generator)
                               /\ sig.s = (k + c * pair.sk) % L
<1> DEFINE pair == keypair_from_seed(seed)
           f == FieldsOf(m)
           h == message_hash(f)
           nonce == poseidon_hash_fixed(domain_tag("schnorr-nonce"), <<pair.sk, h.value>>).value
           k == fq_to_fr(nonce)
           r == mul(k, generator)
           c == fq_to_fr(challenge_inner(r, pair.pk, h.value))
<1>1. m \in Seq(Int) /\ f \in Seq(Fq) /\ seed \in Seq(Int)
  <2>1. m \in Seq(Int) /\ seed \in Seq(Int)
    BY BindingsAssumption
  <2> QED BY <2>1, FieldsAre
<1>2. Len(seed) = 2
  BY ResultParts DEF schnorr_sign
<1>3. AllDecimal(m) /\ schnorr_sign(seed, m) = sign(pair.sk, pair.pk, f)
  BY <1>1, <1>2, DecimalsAre, ResultParts DEF schnorr_sign
<1>4. h.ok /\ schnorr_sign(seed, m) = Ok([r |-> r, s |-> (k + c * pair.sk) % L])
  BY <1>3, ResultParts DEF sign
<1>5. h.value \in Fq
  <2>1. Len(f) \in Nat
    BY <1>1
  <2>2. ~(Len(f) > 11)
    BY <1>1, <1>4, MessageHashIs, ResultParts
  <2> HIDE DEF f
  <2> QED BY <1>1, <2>1, <2>2, MessageHashIs
<1>6. pair.sk \in Fr /\ pair.pk \in Subgroup /\ pair.sk \in Nat
  BY <1>1, <1>2, KeypairIs
<1> HIDE DEF h, pair
<1>7. nonce \in Fq
  <2> DEFINE in == <<pair.sk, h.value>>
  <2>1. pair.sk \in Fq
    BY <1>6, PrimeTypes
  <2>2. in \in Seq(Fq) /\ Len(in) <= 11
    BY <1>5, <2>1
  <2>3. domain_tag("schnorr-nonce") \in Fq
    BY TagsInField
  <2> HIDE DEF in
  <2>4. poseidon_hash_fixed(domain_tag("schnorr-nonce"), in).value \in Fq
    BY <2>2, <2>3, FixedIs
  <2> QED BY <2>4 DEF in
<1> HIDE DEF nonce
<1>8. k \in Nat
  BY <1>7, ReducedIs
<1> HIDE DEF k
<1>9. r \in Subgroup
  BY <1>8, SubgroupClosed
<1> HIDE DEF r
<1>10. challenge_inner(r, pair.pk, h.value) \in Fq
  <2> DEFINE in == <<r[1], r[2], pair.pk[1], pair.pk[2], h.value>>
  <2>1. r[1] \in Fq /\ r[2] \in Fq /\ pair.pk[1] \in Fq /\ pair.pk[2] \in Fq
    BY <1>6, <1>9, SubgroupIs, PointTypes
  <2>2. in \in Seq(Fq) /\ Len(in) <= 11
    BY <1>5, <2>1
  <2>3. domain_tag("schnorr-challenge") \in Fq
    BY TagsInField
  <2>4. challenge_inner(r, pair.pk, h.value)
          = poseidon_hash_fixed(domain_tag("schnorr-challenge"), in).value
    BY DEF challenge_inner
  <2> HIDE DEF in
  <2> QED BY <2>2, <2>3, <2>4, FixedIs
<1>11. c \in Nat
  BY <1>10, ReducedIs
<1> DEFINE sig == schnorr_sign(seed, m).value
<1>12. sig.r = r /\ sig.s = (k + c * pair.sk) % L
  BY <1>4, ResultParts
<1> QED BY <1>2, <1>3, <1>4, <1>5, <1>8, <1>9, <1>11, <1>12 DEF h, pair, r

-----------------------------------------------------------------------------
(* Commitments, term by term.                                              *)

\* u is the partial sums of a commitment.
Commits(stream, b, u) ==
    /\ u \in [0..Len(stream) -> Subgroup] /\ u[0] = mul(b, h_generator)
    /\ \A n \in 1..Len(stream) : u[n] = add(u[n - 1], mul(stream[n], g_generator[n - 1]))

\* One term of a commitment: reducing its scalar changes nothing.
LEMMA CommitTerms ==
  ASSUME NEW stream \in Seq(Fq), Len(stream) <= MaxStream, NEW n \in 1..Len(stream)
  PROVE  /\ stream[n] \in Fq /\ stream[n] \in Nat /\ g_generator[n - 1] \in Subgroup
         /\ mul(stream[n], g_generator[n - 1]) \in Subgroup
         /\ mul(fq_to_fr(stream[n]), g_generator[n - 1]) = mul(stream[n], g_generator[n - 1])
<1>1. stream[n] \in Fq /\ stream[n] \in Nat
  BY PrimeTypes
<1>2. n - 1 \in 0..(MaxStream - 1)
  BY GeneratorsAssumption
<1>3. g_generator[n - 1] \in Subgroup
  BY <1>2, GeneratorsInSubgroup
<1>4. mul(stream[n], g_generator[n - 1]) \in Subgroup
  BY <1>1, <1>3, SubgroupClosed
<1>5. mul(fq_to_fr(stream[n]), g_generator[n - 1]) = mul(stream[n], g_generator[n - 1])
  BY <1>1, <1>3, ReducedIs, MulReduced
<1> QED BY <1>1, <1>3, <1>4, <1>5

\* A commitment is the last of the partial sums.
LEMMA CommitIs ==
  ASSUME NEW stream \in Seq(Fq), Len(stream) <= MaxStream, NEW b \in Nat
  PROVE  \E u : Commits(stream, b, u) /\ commit(stream, b) = u[Len(stream)]
<1> DEFINE N == Len(stream)
           D == Subgroup
           a == mul(b, h_generator)
           Body(h, n) == IF n = 0 THEN mul(b, h_generator)
                         ELSE add(h[n - 1], mul(fq_to_fr(stream[n]), g_generator[n - 1]))
           upto == CHOOSE h : h = [n \in 0..N |-> Body(h, n)]
           Next1(d, n) == add(d, mul(stream[n], g_generator[n - 1]))
           step == [dn \in D \X Nat |-> IF dn[2] \in 1..N THEN Next1(dn[1], dn[2]) ELSE a]
<1>0. N \in Nat
  OBVIOUS
<1>1. commit(stream, b) = upto[N]
  BY DEF commit
<1>2. a \in D
  BY GeneratorsInSubgroup, SubgroupClosed
<1>3. ASSUME NEW d \in D, NEW n \in 1..N
      PROVE  /\ Next1(d, n) \in D
             /\ Next1(d, n) = add(d, mul(fq_to_fr(stream[n]), g_generator[n - 1]))
  BY CommitTerms, SubgroupClosed
<1> HIDE DEF Next1, D
<1>4. step \in Steps(D)
  BY <1>2, <1>3 DEF Steps
<1>5. ASSUME NEW d \in D, NEW n \in 1..N PROVE step[<<d, n>>] = Next1(d, n)
  <2>1. <<d, n>> \in D \X Nat
    BY <1>0
  <2> QED BY <2>1 DEF step
<1> HIDE DEF step
<1>6. PICK f : f \in Runs(D, a, step, N)
  BY <1>0, <1>2, <1>4, Recursion
<1>7. f \in [0..N -> D] /\ f[0] = a /\ \A n \in 1..N : f[n] = step[<<f[n - 1], n>>]
  BY <1>6 DEF Runs
<1>8. \A n \in 0..N : f[n] = Body(f, n)
  <2> TAKE n \in 0..N
  <2>1. CASE n = 0
    BY <1>7, <2>1
  <2>2. CASE n # 0
    <3>1. n \in 1..N /\ f[n - 1] \in D
      BY <1>0, <1>7, <2>2
    <3> QED BY <1>3, <1>5, <1>7, <2>2, <3>1
  <2> QED BY <2>1, <2>2
<1> HIDE DEF Body
<1>9. f = [n \in 0..N |-> Body(f, n)]
  BY <1>7, <1>8
<1>10. upto = [n \in 0..N |-> Body(upto, n)]
  BY <1>9
<1> HIDE DEF upto
<1>11. upto = [n \in 0..N |-> upto[n]] /\ \A n \in 0..N : upto[n] = Body(upto, n)
  BY <1>10
<1>12. upto[0] = a
  BY <1>0, <1>11 DEF Body
<1>13. ASSUME NEW n \in 1..N, upto[n - 1] \in D
       PROVE  upto[n] = step[<<upto[n - 1], n>>]
  <2>1. n \in 0..N /\ n # 0
    BY <1>0
  <2> QED BY <1>3, <1>5, <1>11, <1>13, <2>1 DEF Body
<1>14. upto \in Runs(D, a, step, N)
  BY <1>0, <1>2, <1>4, <1>11, <1>12, <1>13, RunFrom
<1>15. upto \in [0..N -> D] /\ \A n \in 1..N : upto[n - 1] \in D /\ upto[n] = Next1(upto[n - 1], n)
  <2>1. upto \in [0..N -> D] /\ \A n \in 1..N : upto[n] = step[<<upto[n - 1], n>>]
    BY <1>14 DEF Runs
  <2>2. \A n \in 1..N : upto[n - 1] \in D
    <3> TAKE n \in 1..N
    <3>1. n - 1 \in 0..N
      BY <1>0
    <3> QED BY <2>1, <3>1
  <2> QED BY <1>5, <2>1, <2>2
<1>16. Commits(stream, b, upto)
  BY <1>12, <1>15 DEF Commits, Next1, D, a
<1> QED BY <1>1, <1>16

\* A commitment is in the subgroup.
LEMMA CommitInSubgroup ==
  ASSUME NEW stream \in Seq(Fq), Len(stream) <= MaxStream, NEW b \in Nat
  PROVE  commit(stream, b) \in Subgroup
<1>1. PICK u : Commits(stream, b, u) /\ commit(stream, b) = u[Len(stream)]
  BY CommitIs
<1> QED BY <1>1 DEF Commits

\* pedersen_commit commits to the elements its texts name.
LEMMA CommitTextsAre ==
  ASSUME NEW stream \in Streams, NEW b \in ScalarTexts
  PROVE  LET reply == pedersen_commit(stream, b)
         IN  /\ b \in Int /\ stream \in Seq(Int) /\ FieldsOf(stream) \in Seq(Fq)
             /\ Len(FieldsOf(stream)) <= MaxStream
             /\ reply.ok => reply = Ok(commit(FieldsOf(stream), b % L))
             /\ reply.ok => reply.value = commit(FieldsOf(stream), b % L)
<1>1. b \in Int /\ stream \in Seq(Int) /\ Len(stream) <= MaxStream
  BY BindingsAssumption
<1>2. FieldsOf(stream) \in Seq(Fq) /\ Len(FieldsOf(stream)) <= MaxStream
  BY <1>1, FieldsAre
<1> DEFINE reply == pedersen_commit(stream, b)
           fields == decimals_to_fields(stream)
           r == scalar_from_decimal(b)
<1>3. reply = IF ~fields.ok THEN fields ELSE IF ~r.ok THEN r
              ELSE Ok(commit(fields.value, r.value))
  BY DEF pedersen_commit, point_to_strings
<1>4. fields.ok => fields.value = FieldsOf(stream)
  BY <1>1, DecimalsAre, ResultParts
<1>5. r.ok => r.value = b % L
  BY <1>1, ScalarTextIs, ResultParts
<1> HIDE DEF fields, r, reply
<1>6. reply.ok => reply = Ok(commit(FieldsOf(stream), b % L))
  BY <1>3, <1>4, <1>5
<1>7. reply.ok => reply.value = commit(FieldsOf(stream), b % L)
  BY <1>6, ResultParts
<1> QED BY <1>1, <1>2, <1>6, <1>7 DEF reply

\* Every point a binding returns is in the subgroup of order L, for all texts.
THEOREM PointsInSubgroup == Spec => []OnlySubgroupPoints
<1>1. Init => OnlySubgroupPoints
  BY DEF Init, NoCall, OnlySubgroupPoints, Accepted, IsCall
<1>2. OnlySubgroupPoints /\ [Next]_call => OnlySubgroupPoints'
  <2> SUFFICES ASSUME OnlySubgroupPoints, [Next]_call PROVE OnlySubgroupPoints'
    OBVIOUS
  <2>1. CASE UNCHANGED call
    BY <2>1 DEF OnlySubgroupPoints, Accepted, IsCall
  <2>2. CASE Next
    <3>1. CASE call'.fn = "mul_generator"
      <4>1. PICK t \in ScalarTexts :
               call' = [fn |-> "mul_generator", args |-> <<t>>, reply |-> mul_generator(t)]
        BY <2>2, <3>1, Origins DEF MulGenerator, Called
      <4>2. t \in Int
        BY BindingsAssumption
      <4>3. mul_generator(t).ok => mul_generator(t).value \in Subgroup
        <5>1. mul(t % L, generator) \in Subgroup
          BY <4>2, ScalarTextIs, SubgroupClosed
        <5>2. scalar_from_decimal(t) = Ok(t % L) \/ ~scalar_from_decimal(t).ok
          BY <4>2, ScalarTextIs
        <5> QED BY <5>1, <5>2, ResultParts DEF mul_generator, point_to_strings
      <4> QED BY <4>1, <4>3 DEF OnlySubgroupPoints, Accepted, IsCall
    <3>2. CASE call'.fn = "keypair_from_seed"
      <4>1. PICK seed \in Seeds :
               call' = [fn |-> "keypair_from_seed", args |-> <<seed>>,
                        reply |-> binding_keypair(seed)]
        BY <2>2, <3>2, Origins DEF KeypairFromSeed, Called
      <4>2. binding_keypair(seed).ok => binding_keypair(seed).value \in Subgroup
        BY SeedsAre, KeypairIs, ResultParts DEF binding_keypair, point_to_strings
      <4> QED BY <4>1, <4>2 DEF OnlySubgroupPoints, Accepted, IsCall
    <3>3. CASE call'.fn = "ecdh"
      <4>1. PICK seed \in Seeds, p \in PeerTexts :
               call' = [fn |-> "ecdh", args |-> <<seed, p>>, reply |-> ecdh(seed, p[1], p[2])]
        BY <2>2, <3>3, Origins DEF Ecdh, Called
      <4>2. p[1] \in Int /\ p[2] \in Int
        BY BindingsAssumption
      <4>3. ecdh(seed, p[1], p[2]).ok => ecdh(seed, p[1], p[2]).value \in Subgroup
        BY <4>2, EcdhIs
      <4> QED BY <4>1, <4>3 DEF OnlySubgroupPoints, Accepted, IsCall
    <3>4. CASE call'.fn = "pedersen_commit"
      <4>1. PICK stream \in Streams, b \in ScalarTexts :
               call' = [fn |-> "pedersen_commit", args |-> <<stream, b>>,
                        reply |-> pedersen_commit(stream, b)]
        BY <2>2, <3>4, Origins DEF PedersenCommit, Called
      <4>2. pedersen_commit(stream, b).ok => pedersen_commit(stream, b).value \in Subgroup
        BY CommitTextsAre, ScalarTextIs, CommitInSubgroup
      <4> QED BY <4>1, <4>2 DEF OnlySubgroupPoints, Accepted, IsCall
    <3>5. CASE call'.fn = "schnorr_sign"
      <4>1. PICK seed \in Seeds, m \in Messages :
               call' = [fn |-> "schnorr_sign", args |-> <<seed, m>>,
                        reply |-> schnorr_sign(seed, m)]
        BY <2>2, <3>5, Origins DEF SchnorrSign, Called
      <4>2. schnorr_sign(seed, m).ok => schnorr_sign(seed, m).value.r \in Subgroup
        BY SignIs
      <4> QED BY <4>1, <4>2 DEF OnlySubgroupPoints, Accepted, IsCall
    <3>6. CASE call'.fn = "validate_point"
      <4>1. PICK x \in CoordTexts, y \in CoordTexts :
               call' = [fn |-> "validate_point", args |-> <<x, y>>,
                        reply |-> validate_point(x, y)]
        BY <2>2, <3>6, Origins DEF ValidatePoint, Called
      <4>2. x \in Int /\ y \in Int
        BY BindingsAssumption
      <4>3. validate_point(x, y).ok = point_from_strings(x, y).ok
        BY ResultParts DEF validate_point
      <4>4. validate_point(x, y).ok = (x >= 0 /\ y >= 0 /\ <<x % P, y % P>> \in Subgroup)
        BY <4>2, <4>3, PointTextsAre
      <4>5. call'.args[1] = x /\ call'.args[2] = y /\ call'.reply = validate_point(x, y)
        BY <4>1
      <4>6. (\A i \in 1..2 : IsDecimal(call'.args[i])) <=> x >= 0 /\ y >= 0
        BY <4>5 DEF IsDecimal
      <4>7. call'.fn \notin {"mul_generator", "keypair_from_seed", "ecdh", "pedersen_commit"}
            /\ call'.fn \notin {"schnorr_sign"}
        BY <3>6
      <4> QED BY <4>4, <4>5, <4>6, <4>7 DEF OnlySubgroupPoints, Accepted, IsCall
    <3> QED BY <3>1, <3>2, <3>3, <3>4, <3>5, <3>6 DEF OnlySubgroupPoints, Accepted, IsCall
  <2> QED BY <2>1, <2>2
<1> QED BY <1>1, <1>2, PTL DEF Spec

-----------------------------------------------------------------------------
(* Key agreement and signatures.                                           *)

\* The texts of a subgroup point are decoded to it.
LEMMA PointRoundTrip ==
  ASSUME NEW p \in Subgroup
  PROVE  /\ p[1] \in Nat /\ p[2] \in Nat /\ <<p[1] % P, p[2] % P>> = p
         /\ point_from_strings(p[1], p[2]) = Ok(p)
<1>1. p = <<p[1], p[2]>> /\ p[1] \in Fq /\ p[2] \in Fq
  BY SubgroupIs, PointTypes
<1>2. p[1] % P = p[1] /\ p[2] % P = p[2] /\ p[1] \in Nat /\ p[2] \in Nat
  BY <1>1, PrimeTypes, ModSmall
<1>3. p[1] >= 0 /\ p[2] >= 0 /\ p[1] \in Int /\ p[2] \in Int
  BY <1>2
<1>4. <<p[1] % P, p[2] % P>> = p
  BY <1>1, <1>2
<1>5. point_from_strings(p[1], p[2]) = Ok(p)
  BY <1>3, <1>4, PointTextsAre
<1> QED BY <1>2, <1>4, <1>5

\* a(bG) and b(aG) are one point.
LEMMA SharedPoint ==
  ASSUME NEW mine \in Seeds, NEW p \in PeerTexts, ecdh(mine, p[1], p[2]).ok,
         NEW theirs \in Seeds, Len(theirs) = 2,
         keypair_from_seed(theirs).pk = <<p[1] % P, p[2] % P>>
  PROVE  LET pk == keypair_from_seed(mine).pk
         IN  ecdh(theirs, pk[1], pk[2]) = ecdh(mine, p[1], p[2])
<1> DEFINE peer == <<p[1] % P, p[2] % P>>
           pk == keypair_from_seed(mine).pk
           a == keypair_from_seed(mine).sk
           b == keypair_from_seed(theirs).sk
<1>1. p[1] \in Int /\ p[2] \in Int
  BY BindingsAssumption
<1>2. Len(mine) = 2 /\ ecdh(mine, p[1], p[2]) = Ok(mul(a, peer))
  BY <1>1, EcdhIs
<1>3. a \in Nat /\ pk = mul(a, generator) /\ pk \in Subgroup
  BY <1>2, SeedsAre, KeypairIs
<1>4. b \in Nat /\ peer = mul(b, generator)
  BY SeedsAre, KeypairIs
<1> HIDE DEF peer, pk, a, b
<1>5. generator \in CurvePoints
  BY SubgroupClosed, SubgroupIs
<1>6. mul(a, peer) = mul(a * b, generator) /\ mul(b, pk) = mul(b * a, generator)
  BY <1>3, <1>4, <1>5, MulMul
<1>7. a * b = b * a
  BY <1>3, <1>4
<1>8. ecdh(theirs, pk[1], pk[2]) = Ok(mul(b, pk))
  <2>1. pk[1] \in Int /\ pk[2] \in Int /\ pk[1] >= 0 /\ pk[2] >= 0
        /\ <<pk[1] % P, pk[2] % P>> = pk
    BY <1>3, PointRoundTrip
  <2>2. ecdh(theirs, pk[1], pk[2]).ok
    BY <1>3, <2>1, EcdhIs
  <2>3. ecdh(theirs, pk[1], pk[2]) = Ok(mul(b, <<pk[1] % P, pk[2] % P>>))
    BY <2>1, <2>2, EcdhIs DEF b
  <2> QED BY <2>1, <2>3
<1>9. ecdh(theirs, pk[1], pk[2]) = ecdh(mine, p[1], p[2])
  BY <1>2, <1>6, <1>7, <1>8
<1> QED BY <1>9 DEF pk

\* Two parties derive the same shared point, for all seeds.
THEOREM SharedPointsAgree == Spec => []EcdhAgrees
<1>1. Init => EcdhAgrees
  BY DEF Init, NoCall, EcdhAgrees, Accepted, IsCall
<1>2. EcdhAgrees /\ [Next]_call => EcdhAgrees'
  <2> SUFFICES ASSUME EcdhAgrees, [Next]_call PROVE EcdhAgrees'
    OBVIOUS
  <2>1. CASE UNCHANGED call
    BY <2>1 DEF EcdhAgrees, Accepted, IsCall
  <2>2. CASE Next
    <3>1. CASE call'.fn = "ecdh"
      <4>1. PICK seed \in Seeds, p \in PeerTexts :
               call' = [fn |-> "ecdh", args |-> <<seed, p>>, reply |-> ecdh(seed, p[1], p[2])]
        BY <2>2, <3>1, Origins DEF Ecdh, Called
      <4>2. call'.args[1] = seed /\ call'.args[2] = p /\ call'.reply = ecdh(seed, p[1], p[2])
        BY <4>1
      <4> QED BY <4>2, SharedPoint DEF EcdhAgrees, Accepted, IsCall
    <3> QED BY <3>1 DEF EcdhAgrees, Accepted, IsCall
  <2> QED BY <2>1, <2>2
<1> QED BY <1>1, <1>2, PTL DEF Spec

\* Replies that hold the truth of equivalent equations.
LEMMA OkEqual ==
  ASSUME NEW A, NEW B, NEW C, NEW D, A = B <=> C = D
  PROVE  Ok(A = B) = Ok(C = D)
<1>1. CASE A = B
  <2>1. (A = B) = TRUE /\ (C = D) = TRUE
    BY <1>1
  <2> QED BY <2>1
<1>2. CASE A # B
  <2>1. (A = B) = FALSE /\ (C = D) = FALSE
    BY <1>2
  <2> QED BY <2>1
<1> QED BY <1>1, <1>2

\* schnorr_verify of the texts of a key, a signature and a message.
LEMMA VerifyIs ==
  ASSUME NEW pk \in Subgroup, NEW r \in Subgroup, NEW m \in Messages, AllDecimal(m),
         NEW s \in Nat
  PROVE  schnorr_verify(pk, m, r, s) = verify(pk, FieldsOf(m), [r |-> r, s |-> s % L])
<1>1. point_from_strings(pk[1], pk[2]) = Ok(pk) /\ point_from_strings(r[1], r[2]) = Ok(r)
  BY PointRoundTrip
<1>2. scalar_from_decimal(s) = Ok(s % L)
  BY ScalarTextIs
<1>3. decimals_to_fields(m) = Ok(FieldsOf(m))
  BY BindingsAssumption, DecimalsAre
<1> QED BY <1>1, <1>2, <1>3, ResultParts DEF schnorr_verify

\* s G = R + c pk for the signed s alone, as multiples of G are injective.
LEMMA SignatureVerifies ==
  ASSUME NEW seed \in Seeds, NEW m \in Messages, schnorr_sign(seed, m).ok, NEW s \in Nat
  PROVE  LET pk == keypair_from_seed(seed).pk
             sig == schnorr_sign(seed, m).value
         IN  schnorr_verify(pk, m, sig.r, s) = Ok(s % L = sig.s)
<1> DEFINE pair == keypair_from_seed(seed)
           pk == pair.pk
           sk == pair.sk
           sig == schnorr_sign(seed, m).value
           R == sig.r
           S == sig.s
           h == message_hash(FieldsOf(m))
           c == fq_to_fr(challenge_inner(R, pk, h.value))
           t == s % L
<1>1. Len(seed) = 2 /\ AllDecimal(m) /\ h.ok /\ c \in Nat /\ R \in Subgroup
  BY SignIs
<1>2. PICK k \in Nat : R = mul(k, generator) /\ S = (k + c * sk) % L
  BY SignIs
<1>3. sk \in Nat /\ pk = mul(sk, generator) /\ pk \in Subgroup
  BY <1>1, SeedsAre, KeypairIs
<1>4. schnorr_verify(pk, m, R, s) = verify(pk, FieldsOf(m), [r |-> R, s |-> t])
  BY <1>1, <1>3, VerifyIs
<1> HIDE DEF pk, sk, R, S, t
<1>5. verify(pk, FieldsOf(m), [r |-> R, s |-> t])
        = Ok(mul(t, generator) = add(R, mul(c, pk)))
  BY <1>1 DEF verify
<1> HIDE DEF c
<1>6. add(R, mul(c, pk)) = mul(S, generator)
  <2>1. generator \in CurvePoints /\ generator \in Subgroup
    BY SubgroupClosed, SubgroupIs
  <2>2. mul(c, pk) = mul(c * sk, generator) /\ c * sk \in Nat /\ k + c * sk \in Nat
    <3>1. mul(c, pk) = mul(c * sk, generator)
      BY <1>1, <1>3, <2>1, MulMul
    <3>2. c * sk \in Nat
      BY <1>1, <1>3
    <3>3. k + c * sk \in Nat
      BY <3>2
    <3> QED BY <3>1, <3>2, <3>3
  <2>3. add(R, mul(c, pk)) = mul(k + c * sk, generator)
    BY <1>2, <2>1, <2>2, MulAdd
  <2>4. mul(S, generator) = mul(k + c * sk, generator)
    BY <1>2, <2>1, <2>2, MulReduced
  <2> QED BY <2>3, <2>4
<1>7. t \in Fr /\ S \in Fr
  <2>1. k + c * sk \in Int
    BY <1>1, <1>3
  <2>2. (s % L) \in Fr /\ ((k + c * sk) % L) \in Fr
    BY <2>1, ScalarTextIs
  <2> QED BY <1>2, <2>2 DEF t
<1>8. mul(t, generator) = mul(S, generator) <=> t = S
  BY <1>7, MulInjective
<1>9. Ok(mul(t, generator) = add(R, mul(c, pk))) = Ok(t = S)
  <2>1. mul(t, generator) = add(R, mul(c, pk)) <=> t = S
    BY <1>6, <1>8
  <2> QED BY <2>1, OkEqual
<1> QED BY <1>4, <1>5, <1>9 DEF pk, R, S, t

\* A signature verifies, and of all responses the signed one alone does.
THEOREM SignaturesAlone == Spec => []SignaturesVerify
<1>1. Init => SignaturesVerify
  BY DEF Init, NoCall, SignaturesVerify, Accepted, IsCall
<1>2. SignaturesVerify /\ [Next]_call => SignaturesVerify'
  <2> SUFFICES ASSUME SignaturesVerify, [Next]_call PROVE SignaturesVerify'
    OBVIOUS
  <2>1. CASE UNCHANGED call
    BY <2>1 DEF SignaturesVerify, Accepted, IsCall
  <2>2. CASE Next
    <3>1. CASE call'.fn = "schnorr_sign"
      <4>1. PICK seed \in Seeds, m \in Messages :
               call' = [fn |-> "schnorr_sign", args |-> <<seed, m>>,
                        reply |-> schnorr_sign(seed, m)]
        BY <2>2, <3>1, Origins DEF SchnorrSign, Called
      <4>2. call'.args[1] = seed /\ call'.args[2] = m /\ call'.reply = schnorr_sign(seed, m)
        BY <4>1
      <4>3. \A s \in 0..(2 * L) : s \in Nat
        BY PrimeTypes
      <4> QED BY <4>2, <4>3, SignatureVerifies DEF SignaturesVerify, Accepted, IsCall
    <3> QED BY <3>1 DEF SignaturesVerify, Accepted, IsCall
  <2> QED BY <2>1, <2>2
<1> QED BY <1>1, <1>2, PTL DEF Spec

-----------------------------------------------------------------------------
(* Commitments add up.                                                     *)

\* z is the sum of two streams, without wrapping.
SumOf(s, t, z) ==
    /\ {s, t, z} \subseteq Seq(Fq) /\ Len(s) <= MaxStream
    /\ Len(t) = Len(s) /\ Len(z) = Len(s) /\ \A i \in 1..Len(s) : z[i] = s[i] + t[i]

\* Partial sums of two commitments add to those of their sum.
LEMMA CommitSum ==
  ASSUME NEW s, NEW t, NEW z, SumOf(s, t, z),
         NEW a \in Nat, NEW b \in Nat, NEW c \in Nat,
         mul(c, h_generator) = mul(a + b, h_generator)
  PROVE  add(commit(s, a), commit(t, b)) = commit(z, c)
<1> DEFINE N == Len(s)
<1>0. /\ s \in Seq(Fq) /\ t \in Seq(Fq) /\ z \in Seq(Fq) /\ Len(s) <= MaxStream
      /\ Len(t) = N /\ Len(z) = N /\ \A i \in 1..N : z[i] = s[i] + t[i]
  BY DEF SumOf
<1>1. PICK u : Commits(s, a, u) /\ commit(s, a) = u[N]
  <2>1. s \in Seq(Fq) /\ Len(s) <= MaxStream /\ Len(s) = N
    BY <1>0
  <2> HIDE DEF N
  <2> QED BY <2>1, CommitIs
<1>2. PICK v : Commits(t, b, v) /\ commit(t, b) = v[N]
  <2>1. t \in Seq(Fq) /\ Len(t) <= MaxStream /\ Len(t) = N
    BY <1>0
  <2> HIDE DEF N
  <2> QED BY <2>1, CommitIs
<1>3. PICK w : Commits(z, c, w) /\ commit(z, c) = w[N]
  <2>1. z \in Seq(Fq) /\ Len(z) <= MaxStream /\ Len(z) = N
    BY <1>0
  <2> HIDE DEF N
  <2> QED BY <2>1, CommitIs
<1>4. /\ u \in [0..N -> Subgroup] /\ u[0] = mul(a, h_generator)
      /\ \A n \in 1..N : u[n] = add(u[n - 1], mul(s[n], g_generator[n - 1]))
  BY <1>0, <1>1 DEF Commits
<1>5. /\ v \in [0..N -> Subgroup] /\ v[0] = mul(b, h_generator)
      /\ \A n \in 1..N : v[n] = add(v[n - 1], mul(t[n], g_generator[n - 1]))
  BY <1>0, <1>2 DEF Commits
<1>6. /\ w \in [0..N -> Subgroup] /\ w[0] = mul(c, h_generator)
      /\ \A n \in 1..N : w[n] = add(w[n - 1], mul(z[n], g_generator[n - 1]))
  BY <1>0, <1>3 DEF Commits
<1> DEFINE S == {n \in Nat : n <= N => w[n] = add(u[n], v[n])}
<1>7. 0 \in S
  <2>1. h_generator \in CurvePoints
    BY GeneratorsInSubgroup, SubgroupIs
  <2> QED BY <1>4, <1>5, <1>6, <2>1, MulAdd
<1>8. ASSUME NEW n \in Nat, n \in S
      PROVE  n + 1 \in S
  <2>1. SUFFICES ASSUME n + 1 <= N PROVE w[n + 1] = add(u[n + 1], v[n + 1])
    OBVIOUS
  <2>2. n + 1 \in 1..N /\ (n + 1) - 1 = n /\ n \in 0..N /\ w[n] = add(u[n], v[n])
    BY <1>8, <2>1
  <2> DEFINE g == g_generator[n]
  <2>3. g \in Subgroup /\ s[n + 1] \in Nat /\ t[n + 1] \in Nat
    BY <1>0, <2>2, CommitTerms
  <2>4. g \in CurvePoints /\ u[n] \in CurvePoints /\ v[n] \in CurvePoints
    BY <1>4, <1>5, <2>2, <2>3, SubgroupIs
  <2>5. /\ u[n + 1] = add(u[n], mul(s[n + 1], g))
        /\ v[n + 1] = add(v[n], mul(t[n + 1], g))
        /\ w[n + 1] = add(w[n], mul(z[n + 1], g))
    BY <1>4, <1>5, <1>6, <2>2
  <2>6. mul(z[n + 1], g) = add(mul(s[n + 1], g), mul(t[n + 1], g))
    <3>1. z[n + 1] = s[n + 1] + t[n + 1]
      BY <1>0, <2>2
    <3> HIDE DEF g
    <3>2. \A m, k \in Nat : mul(m + k, g) = add(mul(m, g), mul(k, g))
      BY <2>4, MulAdd
    <3> QED BY <2>3, <3>1, <3>2
  <2> HIDE DEF g
  <2>7. mul(s[n + 1], g) \in CurvePoints /\ mul(t[n + 1], g) \in CurvePoints
    BY <2>3, <2>4, MulType
  <2>8. add(add(u[n], v[n]), add(mul(s[n + 1], g), mul(t[n + 1], g)))
          = add(add(u[n], mul(s[n + 1], g)), add(v[n], mul(t[n + 1], g)))
    BY <2>4, <2>7, AddInterchange
  <2> QED BY <2>2, <2>5, <2>6, <2>8
<1> HIDE DEF S
<1>9. \A n \in Nat : n \in S
  BY <1>7, <1>8, SetInduction
<1>10. N \in Nat /\ N <= N
  BY <1>0
<1>11. w[N] = add(u[N], v[N])
  BY <1>9, <1>10 DEF S
<1> QED BY <1>1, <1>2, <1>3, <1>11

\* The same for a call's texts and another's elements.
LEMMA CommitsAdd ==
  ASSUME NEW stream \in Streams, NEW b \in ScalarTexts, pedersen_commit(stream, b).ok,
         NEW theirs \in CircuitStreams, NEW r \in Fr
  PROVE  LET mine == [i \in DOMAIN stream |-> stream[i] % P]
         IN  Len(theirs) = Len(mine) /\ (\A i \in DOMAIN mine : mine[i] + theirs[i] < P)
               => add(pedersen_commit(stream, b).value, commit(theirs, r))
                    = commit([i \in DOMAIN mine |-> mine[i] + theirs[i]], (b + r) % L)
<1> DEFINE mine == [i \in DOMAIN stream |-> stream[i] % P]
           sum == [i \in DOMAIN mine |-> mine[i] + theirs[i]]
           c == (b + r) % L
           N == Len(mine)
<1>1. b \in Int /\ stream \in Seq(Int) /\ theirs \in Seq(Fq) /\ r \in Nat /\ r \in Int
  BY BindingsAssumption, PrimeTypes
<1>2. mine = FieldsOf(stream)
  BY <1>1, FieldsAre
<1>3. mine \in Seq(Fq) /\ Len(mine) <= MaxStream
      /\ pedersen_commit(stream, b).value = commit(mine, b % L)
  BY <1>2, CommitTextsAre
<1> HIDE DEF mine
<1>4. SUFFICES ASSUME Len(theirs) = N, \A i \in DOMAIN mine : mine[i] + theirs[i] < P
               PROVE  add(commit(mine, b % L), commit(theirs, r)) = commit(sum, c)
  BY <1>3 DEF mine
<1>5. DOMAIN mine = 1..N /\ N \in Nat
  BY <1>3
<1>6. \A i \in 1..N : mine[i] + theirs[i] \in Fq
  <2> TAKE i \in 1..N
  <2>1. mine[i] \in Fq /\ theirs[i] \in Fq /\ mine[i] + theirs[i] < P
    BY <1>1, <1>3, <1>4, <1>5
  <2> QED BY <2>1, PrimeTypes
<1>7. sum \in Seq(Fq) /\ Len(sum) = N /\ \A i \in 1..N : sum[i] = mine[i] + theirs[i]
  BY <1>5, <1>6
<1> DEFINE x == b % L
<1>8. x \in Nat /\ x \in Int /\ c \in Nat
  <2>1. b + r \in Int
    BY <1>1
  <2> QED BY <1>1, <2>1, ModInFr
<1> HIDE DEF sum, c
<1>9. mul(c, h_generator) = mul(x + r, h_generator)
  <2>1. (x + r) % L = c
    BY <1>1, PrimeTypes, ModAdd DEF c
  <2>2. x + r \in Nat
    BY <1>1, <1>8
  <2> QED BY <2>1, <2>2, GeneratorsInSubgroup, MulReduced
<1> HIDE DEF x
<1>10. SumOf(mine, theirs, sum)
  BY <1>1, <1>3, <1>4, <1>7 DEF SumOf
<1>10b. x \in Nat /\ r \in Nat /\ c \in Nat
  BY <1>1, <1>8
<1>11. add(commit(mine, x), commit(theirs, r)) = commit(sum, c)
  BY <1>9, <1>10, <1>10b, CommitSum
<1> QED BY <1>11 DEF x

\* Commitments are homomorphic as long as no element wraps.
THEOREM CommitmentsAdd == Spec => []CommitHomomorphic
<1>1. Init => CommitHomomorphic
  BY DEF Init, NoCall, CommitHomomorphic, Accepted, IsCall
<1>2. CommitHomomorphic /\ [Next]_call => CommitHomomorphic'
  <2> SUFFICES ASSUME CommitHomomorphic, [Next]_call PROVE CommitHomomorphic'
    OBVIOUS
  <2>1. CASE UNCHANGED call
    BY <2>1 DEF CommitHomomorphic, Accepted, IsCall
  <2>2. CASE Next
    <3>1. CASE call'.fn = "pedersen_commit"
      <4>1. PICK stream \in Streams, b \in ScalarTexts :
               call' = [fn |-> "pedersen_commit", args |-> <<stream, b>>,
                        reply |-> pedersen_commit(stream, b)]
        BY <2>2, <3>1, Origins DEF PedersenCommit, Called
      <4>2. call'.args[1] = stream /\ call'.args[2] = b /\ call'.reply = pedersen_commit(stream, b)
        BY <4>1
      <4> QED BY <4>2, CommitsAdd DEF CommitHomomorphic, Accepted, IsCall
    <3> QED BY <3>1 DEF CommitHomomorphic, Accepted, IsCall
  <2> QED BY <2>1, <2>2
<1> QED BY <1>1, <1>2, PTL DEF Spec

-----------------------------------------------------------------------------
(* Scalar multiplication over bits. After the bits below k the accumulator is *)
(* the multiple by what those bits spell, and the running power is 2^k times *)
(* the point.                                                              *)

\* Powers of two are positive.
LEMMA PowerPositive ==
  \A n \in Nat : power(2, n) \in Nat \ {0} /\ power(2, n + 1) = 2 * power(2, n)
<1> DEFINE S == {n \in Nat : power(2, n) \in Nat \ {0}}
<1>1. 0 \in S
  BY PowerLaws
<1>2. ASSUME NEW n \in Nat, n \in S PROVE n + 1 \in S
  <2>1. power(2, n) \in Nat \ {0} /\ power(2, n + 1) = 2 * power(2, n)
    BY <1>2, PowerLaws
  <2> QED BY <2>1
<1> HIDE DEF S
<1>3. \A n \in Nat : n \in S
  BY <1>1, <1>2, SetInduction
<1> QED BY <1>3, PowerLaws DEF S

\* Dividing by a product is dividing twice.
LEMMA DivTwice ==
  ASSUME NEW n \in Nat, NEW a \in Nat \ {0}, NEW B \in Nat \ {0}
  PROVE  /\ n \div a = B * (n \div (B * a)) + ((n \div a) % B)
         /\ n \div a \in Nat /\ n \div (B * a) \in Nat
         /\ ((n \div a) % B) \in 0..(B - 1)
<1>1. PICK q \in Nat, r \in 0..(a - 1) : n = q * a + r /\ q = n \div a
  <2>1. n \div a \in Nat /\ (n % a) \in 0..(a - 1) /\ n = (n \div a) * a + (n % a)
    BY DivNat
  <2> QED BY <2>1
<1>2. PICK h \in Nat, b \in 0..(B - 1) : q = h * B + b /\ b = q % B
  <2>1. q \div B \in Nat /\ (q % B) \in 0..(B - 1) /\ q = (q \div B) * B + (q % B)
    BY DivNat
  <2> QED BY <2>1
<1> DEFINE m == B * a
           rest == b * a + r
<1>3. m \in Nat \ {0} /\ rest \in Nat
  BY <1>1, <1>2
<1>4. n = m * h + rest
  <2>1. q * a = (h * B) * a + b * a
    BY <1>2
  <2>2. (h * B) * a = m * h
    BY <1>2
  <2>3. q * a \in Nat /\ m * h \in Nat /\ b * a \in Nat
    BY <1>1, <1>2, <1>3
  <2> HIDE DEF m
  <2> QED BY <1>1, <2>1, <2>2, <2>3
<1>5. rest <= m - 1
  <2>1. (B - 1 - b) \in Nat /\ B = b + (B - 1 - b) + 1
    BY <1>2
  <2>2. PICK c \in Nat : B = b + c + 1
    BY <2>1
  <2>3. \A x, y, z \in Nat :
          (x + y + 1) * z = x * z + y * z + z /\ x * z \in Nat /\ y * z \in Nat
    OBVIOUS
  <2>4. m = b * a + c * a + a /\ c * a \in Nat /\ b * a \in Nat
    <3>1. b \in Nat /\ a \in Nat
      BY <1>2
    <3> QED BY <2>2, <2>3, <3>1
  <2> HIDE DEF m
  <2> QED BY <1>1, <1>3, <2>4
<1> HIDE DEF m, rest
<1>6. n \div m = h
  <2>1. n \in Int /\ m \in Nat \ {0} /\ h \in Int /\ rest \in 0..(m - 1) /\ n = m * h + rest
    BY <1>2, <1>3, <1>4, <1>5
  <2> QED BY <2>1, ModUnique
<1>7. q = B * h + b
  BY <1>2
<1> QED BY <1>1, <1>2, <1>6, <1>7 DEF m

\* The bits of a number.
LEMMA BitsAre ==
  ASSUME NEW n \in Nat, NEW w \in Nat
  PROVE  /\ Len(LEBits(n, w)) = w
         /\ \A k \in 1..w : LEBits(n, w)[k] = (n \div power(2, k - 1)) % 2
  BY DEF LEBits

\* What the first bits add up to is the scalar less what the other bits stand for.
LEMMA BitsMultiply ==
  ASSUME NEW n \in Nat, NEW w \in Nat, NEW p \in CurvePoints, n < power(2, w)
  PROVE  scalar_mul_le(LEBits(n, w), p) = mul(n, p)
<1> DEFINE bits == LEBits(n, w)
           D == [acc : CurvePoints, power : CurvePoints]
           a == [acc |-> IDENTITY, power |-> p]
           After(d, k) == [acc |-> IF bits[k] = 1 THEN add(d.acc, d.power) ELSE d.acc,
                           power |-> add(d.power, d.power)]
           Body(h, k) == IF k = 0 THEN a ELSE After(h[k - 1], k)
           walk == CHOOSE h : h = [k \in 0..w |-> Body(h, k)]
           step == [dn \in D \X Nat |-> After(dn[1], dn[2])]
<1>1. scalar_mul_le(LEBits(n, w), p) = walk[w].acc
  <2>1. Len(bits) = w
    BY BitsAre
  <2> HIDE DEF bits
  <2>2. scalar_mul_le(bits, p) = walk[w].acc
    BY <2>1 DEF scalar_mul_le
  <2> QED BY <2>2 DEF bits
<1> HIDE DEF bits
<1>2. a \in D
  BY IdentityOnCurve
<1>3. ASSUME NEW d \in D, NEW k PROVE After(d, k) \in D
  <2>1. d.acc \in CurvePoints /\ d.power \in CurvePoints
    OBVIOUS
  <2>2. add(d.acc, d.power) \in CurvePoints /\ add(d.power, d.power) \in CurvePoints
    BY <2>1, AddType
  <2> QED BY <2>1, <2>2
<1> HIDE DEF After, a, D
<1>4. step \in Steps(D)
  BY <1>3 DEF Steps
<1>5. ASSUME NEW d \in D, NEW k \in Nat PROVE step[<<d, k>>] = After(d, k)
  <2>1. <<d, k>> \in D \X Nat
    OBVIOUS
  <2> QED BY <2>1
<1> HIDE DEF step
<1>6. PICK f : f \in Runs(D, a, step, w)
  BY <1>2, <1>4, Recursion
<1>7. f \in [0..w -> D] /\ f[0] = a /\ \A k \in 1..w : f[k] = step[<<f[k - 1], k>>]
  BY <1>6 DEF Runs
<1>8. \A k \in 0..w : f[k] = Body(f, k)
  <2> TAKE k \in 0..w
  <2>1. CASE k = 0
    BY <1>7, <2>1
  <2>2. CASE k # 0
    <3>1. k \in 1..w /\ k \in Nat /\ f[k - 1] \in D
      BY <1>7, <2>2
    <3> QED BY <1>5, <1>7, <2>2, <3>1
  <2> QED BY <2>1, <2>2
<1> HIDE DEF Body
<1>9. f = [k \in 0..w |-> Body(f, k)]
  BY <1>7, <1>8
<1>10. walk = [k \in 0..w |-> Body(walk, k)]
  BY <1>9
<1> HIDE DEF walk
<1>11. walk = [k \in 0..w |-> walk[k]] /\ \A k \in 0..w : walk[k] = Body(walk, k)
  BY <1>10
<1>12. walk[0] = a
  <2>1. 0 \in 0..w
    OBVIOUS
  <2>2. walk[0] = Body(walk, 0)
    BY <1>11, <2>1
  <2> QED BY <2>2 DEF Body
<1>13. \A k \in 1..w : walk[k] = After(walk[k - 1], k)
  BY <1>11 DEF Body
<1> DEFINE high(k) == n \div power(2, k)
           S == {k \in Nat : k <= w =>
                   /\ walk[k] \in D
                   /\ walk[k].power = mul(power(2, k), p)
                   /\ \E low \in Nat : /\ n = low + power(2, k) * high(k)
                                       /\ walk[k].acc = mul(low, p)}
<1>14. 0 \in S
  <2>1. power(2, 0) = 1 /\ n = 1 * n + 0
    BY PowerLaws
  <2>2. n \div 1 = n
    BY <2>1, ModUnique
  <2>3. n = 0 + power(2, 0) * high(0)
    BY <2>1, <2>2
  <2>4. walk[0].acc = mul(0, p) /\ walk[0].power = mul(power(2, 0), p)
    BY <1>12, <2>1, MulZero, MulOne DEF a
  <2> QED BY <1>2, <1>12, <2>3, <2>4
<1>15. ASSUME NEW k \in Nat, k \in S PROVE k + 1 \in S
  <2>1. SUFFICES ASSUME k + 1 <= w
        PROVE  /\ walk[k + 1] \in D
               /\ walk[k + 1].power = mul(power(2, k + 1), p)
               /\ \E low \in Nat : /\ n = low + power(2, k + 1) * high(k + 1)
                                   /\ walk[k + 1].acc = mul(low, p)
    OBVIOUS
  <2>2. walk[k] \in D /\ walk[k].power = mul(power(2, k), p)
    BY <1>15, <2>1
  <2>3. PICK low \in Nat : n = low + power(2, k) * high(k) /\ walk[k].acc = mul(low, p)
    BY <1>15, <2>1
  <2>4. k + 1 \in 1..w /\ (k + 1) - 1 = k
    BY <2>1
  <2>5. walk[k + 1] = After(walk[k], k + 1)
    BY <1>13, <2>4
  <2>6. bits[k + 1] = high(k) % 2
    BY <2>4, BitsAre DEF bits
  <2> DEFINE m == power(2, k)
             b == high(k) % 2
  <2>7. m \in Nat \ {0} /\ power(2, k + 1) = 2 * m
    BY PowerPositive
  <2>8. high(k) = 2 * high(k + 1) + b /\ high(k + 1) \in Nat /\ b \in {0, 1}
    <3>1. /\ n \div m = 2 * (n \div (2 * m)) + ((n \div m) % 2)
          /\ n \div (2 * m) \in Nat /\ ((n \div m) % 2) \in 0..(2 - 1)
      <4>1. m \in Nat \ {0} /\ 2 \in Nat \ {0}
        BY <2>7
      <4> HIDE DEF m
      <4> QED BY <4>1, DivTwice
    <3>2. power(2, k + 1) = 2 * m
      BY <2>7
    <3> QED BY <3>1, <3>2
  <2>9. n = (low + m * b) + power(2, k + 1) * high(k + 1) /\ m * b \in Nat /\ low + m * b \in Nat
    <3> HIDE DEF m, b, high
    <3>1. m * (2 * high(k + 1) + b) = (2 * m) * high(k + 1) + m * b
      BY <2>7, <2>8
    <3>2. m * b \in Nat /\ (2 * m) * high(k + 1) \in Nat
      BY <2>7, <2>8
    <3>3. n = low + ((2 * m) * high(k + 1) + m * b)
      BY <2>3, <2>8, <3>1 DEF m
    <3> QED BY <2>7, <3>2, <3>3
  <2>10. walk[k + 1].power = mul(power(2, k + 1), p)
    <3>1. walk[k + 1].power = add(mul(m, p), mul(m, p))
      BY <2>2, <2>5 DEF After
    <3>2. m + m = 2 * m /\ m \in Nat
      BY <2>7
    <3> HIDE DEF m
    <3> QED BY <2>7, <3>1, <3>2, MulAdd
  <2>11. walk[k + 1].acc = mul(low + m * b, p)
    <3>1. CASE b = 1
      <4>1. walk[k + 1].acc = add(mul(low, p), mul(m, p))
        BY <2>2, <2>3, <2>5, <2>6, <3>1 DEF After
      <4>2. m * b = m /\ m \in Nat
        BY <2>7, <3>1
      <4> HIDE DEF m
      <4> QED BY <4>1, <4>2, MulAdd
    <3>2. CASE b = 0
      <4>1. walk[k + 1].acc = mul(low, p)
        BY <2>3, <2>5, <2>6, <3>2 DEF After
      <4>2. low + m * b = low
        BY <2>7, <3>2
      <4> QED BY <4>1, <4>2
    <3> QED BY <2>8, <3>1, <3>2
  <2>12. walk[k + 1] \in D
    BY <1>3, <2>2, <2>5
  <2> QED BY <2>9, <2>10, <2>11, <2>12
<1> HIDE DEF S
<1>16. \A k \in Nat : k \in S
  BY <1>14, <1>15, SetInduction
<1>17. PICK low \in Nat : n = low + power(2, w) * high(w) /\ walk[w].acc = mul(low, p)
  BY <1>16 DEF S
<1>18. high(w) = 0
  <2>1. power(2, w) \in Nat \ {0} /\ n \in 0..(power(2, w) - 1)
    BY PowerPositive
  <2>2. n = power(2, w) * 0 + n
    BY <2>1
  <2> QED BY <2>1, <2>2, ModUnique
<1>19. low = n
  <2>1. power(2, w) * 0 = 0
    BY PowerPositive
  <2> HIDE DEF high
  <2> QED BY <1>17, <1>18, <2>1
<1> QED BY <1>1, <1>17, <1>19

\* All the bits of a field element multiply by it.
LEMMA FieldBitsMultiply ==
  ASSUME NEW x \in Fq, NEW p \in CurvePoints
  PROVE  scalar_mul_le(LEBits(x, FqBits), p) = mul(x, p)
<1>1. x \in Nat /\ FqBits \in Nat /\ x < power(2, FqBits)
  <2>1. FqBits \in Nat /\ power(2, FqBits) > P
    BY CurveAssumption
  <2>2. power(2, FqBits) \in Nat
    BY <2>1, PowerLaws
  <2> QED BY <2>1, <2>2, PrimeTypes
<1> QED BY <1>1, BitsMultiply

\* The prover's bits multiply by what they spell.
LEMMA WitnessMultiplies ==
  ASSUME NEW x \in WitnessScalars, NEW p \in CurvePoints
  PROVE  scalar_mul_var(x, p) = mul(x, p) /\ x \in Nat
<1>1. FrBits \in Nat /\ power(2, FrBits) \in Nat
  BY CurveAssumption, PowerLaws
<1>2. x \in Nat /\ x < power(2, FrBits)
  BY <1>1 DEF WitnessScalars
<1> QED BY <1>1, <1>2, BitsMultiply DEF scalar_mul_var

\* A commitment in a circuit has unreduced partial sums.
LEMMA CommitVarIs ==
  ASSUME NEW stream \in Seq(Fq), Len(stream) <= MaxStream, NEW b \in WitnessScalars
  PROVE  \E u : Commits(stream, b, u) /\ commit_var(stream, b) = u[Len(stream)]
<1> DEFINE N == Len(stream)
           D == Subgroup
           a == mul(b, h_generator)
           Body(h, n) == IF n = 0 THEN scalar_mul_var(b, h_generator)
                         ELSE add(h[n - 1], scalar_mul_le(LEBits(stream[n], FqBits), g_generator[n - 1]))
           upto == CHOOSE h : h = [n \in 0..N |-> Body(h, n)]
           Next1(d, n) == add(d, mul(stream[n], g_generator[n - 1]))
           step == [dn \in D \X Nat |-> IF dn[2] \in 1..N THEN Next1(dn[1], dn[2]) ELSE a]
<1>0. N \in Nat
  OBVIOUS
<1>1. commit_var(stream, b) = upto[N]
  BY DEF commit_var
<1>2. a \in D /\ scalar_mul_var(b, h_generator) = a
  BY GeneratorsInSubgroup, SubgroupClosed, SubgroupIs, WitnessMultiplies
<1>3. ASSUME NEW d \in D, NEW n \in 1..N
      PROVE  /\ Next1(d, n) \in D
             /\ Next1(d, n) = add(d, scalar_mul_le(LEBits(stream[n], FqBits), g_generator[n - 1]))
  <2>1. /\ stream[n] \in Fq /\ g_generator[n - 1] \in Subgroup
        /\ mul(stream[n], g_generator[n - 1]) \in Subgroup
    BY CommitTerms
  <2>2. scalar_mul_le(LEBits(stream[n], FqBits), g_generator[n - 1])
          = mul(stream[n], g_generator[n - 1])
    BY <2>1, SubgroupIs, FieldBitsMultiply
  <2> QED BY <2>1, <2>2, SubgroupClosed
<1> HIDE DEF Next1, D
<1>4. step \in Steps(D)
  BY <1>2, <1>3 DEF Steps
<1>5. ASSUME NEW d \in D, NEW n \in 1..N PROVE step[<<d, n>>] = Next1(d, n)
  <2>1. <<d, n>> \in D \X Nat
    BY <1>0
  <2> QED BY <2>1 DEF step
<1> HIDE DEF step
<1>6. PICK f : f \in Runs(D, a, step, N)
  BY <1>0, <1>2, <1>4, Recursion
<1>7. f \in [0..N -> D] /\ f[0] = a /\ \A n \in 1..N : f[n] = step[<<f[n - 1], n>>]
  BY <1>6 DEF Runs
<1>8. \A n \in 0..N : f[n] = Body(f, n)
  <2> TAKE n \in 0..N
  <2>1. CASE n = 0
    BY <1>2, <1>7, <2>1
  <2>2. CASE n # 0
    <3>1. n \in 1..N /\ f[n - 1] \in D
      BY <1>0, <1>7, <2>2
    <3> QED BY <1>3, <1>5, <1>7, <2>2, <3>1
  <2> QED BY <2>1, <2>2
<1> HIDE DEF Body
<1>9. f = [n \in 0..N |-> Body(f, n)]
  BY <1>7, <1>8
<1>10. upto = [n \in 0..N |-> Body(upto, n)]
  BY <1>9
<1> HIDE DEF upto
<1>11. upto = [n \in 0..N |-> upto[n]] /\ \A n \in 0..N : upto[n] = Body(upto, n)
  BY <1>10
<1>12. upto[0] = a
  BY <1>0, <1>2, <1>11 DEF Body
<1>13. ASSUME NEW n \in 1..N, upto[n - 1] \in D
       PROVE  upto[n] = step[<<upto[n - 1], n>>]
  <2>1. n \in 0..N /\ n # 0
    BY <1>0
  <2> QED BY <1>3, <1>5, <1>11, <1>13, <2>1 DEF Body
<1>14. upto \in Runs(D, a, step, N)
  BY <1>0, <1>2, <1>4, <1>11, <1>12, <1>13, RunFrom
<1>15. upto \in [0..N -> D] /\ \A n \in 1..N : upto[n - 1] \in D /\ upto[n] = Next1(upto[n - 1], n)
  <2>1. upto \in [0..N -> D] /\ \A n \in 1..N : upto[n] = step[<<upto[n - 1], n>>]
    BY <1>14 DEF Runs
  <2>2. \A n \in 1..N : upto[n - 1] \in D
    <3> TAKE n \in 1..N
    <3>1. n - 1 \in 0..N
      BY <1>0
    <3> QED BY <2>1, <3>1
  <2> QED BY <1>5, <2>1, <2>2
<1>16. Commits(stream, b, upto)
  BY <1>12, <1>15 DEF Commits, Next1, D, a
<1> QED BY <1>1, <1>16

-----------------------------------------------------------------------------
(* The circuits.                                                           *)

\* Partial sums from one start are the same.
LEMMA CommitmentsOfOneBlinding ==
  ASSUME NEW stream, Len(stream) \in Nat, NEW a \in Nat, NEW b \in Nat,
         mul(a, h_generator) = mul(b, h_generator),
         NEW u, NEW v, Commits(stream, a, u), Commits(stream, b, v)
  PROVE  u[Len(stream)] = v[Len(stream)]
<1> DEFINE N == Len(stream)
           S == {n \in Nat : n <= N => u[n] = v[n]}
<1>1. 0 \in S
  BY DEF Commits
<1>2. ASSUME NEW n \in Nat, n \in S PROVE n + 1 \in S
  <2>1. CASE n + 1 <= N
    <3>1. n + 1 \in 1..N /\ (n + 1) - 1 = n
      BY <2>1
    <3>2. u[n] = v[n]
      BY <1>2, <2>1
    <3>3. u[n + 1] = add(u[n], mul(stream[n + 1], g_generator[n]))
      BY <3>1 DEF Commits
    <3>4. v[n + 1] = add(v[n], mul(stream[n + 1], g_generator[n]))
      BY <3>1 DEF Commits
    <3> QED BY <3>2, <3>3, <3>4
  <2>2. CASE ~(n + 1 <= N)
    BY <2>2
  <2> QED BY <2>1, <2>2
<1> HIDE DEF S
<1>3. \A n \in Nat : n \in S
  BY <1>1, <1>2, SetInduction
<1> QED BY <1>3 DEF S

\* commit_var and commit.
LEMMA CircuitCommits ==
  ASSUME NEW stream \in CircuitStreams, NEW w \in WitnessScalars
  PROVE  commit_circuit(stream, w).value = commit(stream, w % L)
<1>1. stream \in Seq(Fq) /\ Len(stream) <= MaxStream /\ Len(stream) \in Nat
  BY BindingsAssumption
<1>2. w \in Nat /\ w \in Int /\ h_generator \in Subgroup /\ h_generator \in CurvePoints
  BY WitnessMultiplies, GeneratorsInSubgroup, SubgroupClosed, SubgroupIs
<1>3. (w % L) \in Nat /\ mul(w % L, h_generator) = mul(w, h_generator)
  BY <1>2, ModInFr, MulReduced
<1> DEFINE r == w % L
<1> HIDE DEF r
<1>4. PICK u : Commits(stream, r, u) /\ commit(stream, r) = u[Len(stream)]
  BY <1>1, <1>3, CommitIs DEF r
<1>5. PICK v : Commits(stream, w, v) /\ commit_var(stream, w) = v[Len(stream)]
  BY <1>1, CommitVarIs
<1>6. u[Len(stream)] = v[Len(stream)]
  BY <1>1, <1>2, <1>3, <1>4, <1>5, CommitmentsOfOneBlinding DEF r
<1> QED BY <1>4, <1>5, <1>6, ResultParts DEF commit_circuit, r

\* verify_var and verify.
LEMMA CircuitVerifies ==
  ASSUME NEW pk \in Subgroup, NEW r \in Subgroup, NEW m \in CircuitMessages,
         NEW w \in WitnessScalars
  PROVE  LET native == verify(pk, m, [r |-> r, s |-> w % L])
             reply == verify_circuit(pk, m, r, w)
         IN  /\ reply.ok <=> native.ok
             /\ native.ok => reply.value = native.value
<1> DEFINE h == message_hash(m)
           sig == [r |-> r, s |-> w % L]
           native == verify(pk, m, sig)
           reply == verify_circuit(pk, m, r, w)
           c_fq == challenge_inner(r, pk, h.value)
           c == fq_to_fr(c_fq)
           c_var == poseidon_hash_fixed_var(domain_tag("schnorr-challenge"),
                        <<r[1], r[2], pk[1], pk[2], message_hash_var(m).value>>).value
<1>1. m \in Seq(Fq) /\ Len(m) \in Nat
  BY BindingsAssumption
<1>2. CASE Len(m) > 11
  <2>1. h = Err("MessageTooLong") /\ ~message_hash_var(m).ok
    BY <1>1, <1>2, MessageHashIs
  <2>2. native = h /\ reply = message_hash_var(m)
    BY <2>1, ResultParts DEF verify, verify_circuit, verify_var
  <2> QED BY <2>1, <2>2, ResultParts
<1>3. CASE Len(m) <= 11
  <2>1. h.ok /\ h.value \in Fq /\ message_hash_var(m) = h
    BY <1>1, <1>3, MessageHashIs
  <2>2. r[1] \in Fq /\ r[2] \in Fq /\ pk[1] \in Fq /\ pk[2] \in Fq
    BY SubgroupIs, PointTypes
  <2>3. c_var = c_fq /\ c_fq \in Fq
    <3> DEFINE in == <<r[1], r[2], pk[1], pk[2], h.value>>
               tag == domain_tag("schnorr-challenge")
    <3>1. in \in Seq(Fq) /\ Len(in) = 5
      BY <2>1, <2>2
    <3>2. tag \in Fq
      BY TagsInField
    <3>3. c_fq = poseidon_hash_fixed(tag, in).value
      BY DEF challenge_inner
    <3>4. c_var = poseidon_hash_fixed_var(tag, in).value
      BY <2>1
    <3> HIDE DEF in, tag, c_fq, c_var
    <3>5. Len(in) <= 11
      BY <3>1
    <3> QED BY <3>1, <3>2, <3>3, <3>4, <3>5, FixedIs
  <2> HIDE DEF c_var, c_fq
  <2>4. c \in Nat /\ c = c_fq % L /\ c_fq \in Nat
    <3>1. c_fq \in Nat
      BY <2>3, PrimeTypes
    <3>2. c \in Nat /\ c = c_fq % L
      BY <2>3, ReducedIs
    <3> QED BY <3>1, <3>2
  <2>5. generator \in Subgroup /\ generator \in CurvePoints /\ pk \in CurvePoints
    BY SubgroupClosed, SubgroupIs
  <2>6. scalar_mul_var(w, generator) = mul(w % L, generator)
    BY <2>5, WitnessMultiplies, MulReduced
  <2>7. scalar_mul_le(LEBits(c_var, FqBits), pk) = mul(c, pk)
    BY <2>3, <2>4, <2>5, FieldBitsMultiply, MulReduced
  <2>8. native = Ok(mul(w % L, generator) = add(r, mul(c, pk)))
    BY <2>1 DEF verify, c_fq
  <2>9. reply = Ok(scalar_mul_var(w, generator)
                     = add(r, scalar_mul_le(LEBits(c_var, FqBits), pk)))
    BY <2>1 DEF verify_circuit, verify_var, c_var
  <2>10. reply = native
    <3>1. scalar_mul_var(w, generator) = add(r, scalar_mul_le(LEBits(c_var, FqBits), pk))
            <=> mul(w % L, generator) = add(r, mul(c, pk))
      BY <2>6, <2>7
    <3> HIDE DEF c
    <3>2. Ok(scalar_mul_var(w, generator) = add(r, scalar_mul_le(LEBits(c_var, FqBits), pk)))
            = Ok(mul(w % L, generator) = add(r, mul(c, pk)))
      BY <3>1, OkEqual
    <3> QED BY <2>8, <2>9, <3>2 DEF c
  <2> QED BY <2>10
<1> QED BY <1>1, <1>2, <1>3

\* The circuits verify and commit as the native functions do, whatever bits the
\* prover assigns and though they reduce nothing.
THEOREM CircuitsMatch == Spec => []CircuitsAgree
<1>1. Init => CircuitsAgree
  BY DEF Init, NoCall, CircuitsAgree, IsCall
<1>2. CircuitsAgree /\ [Next]_call => CircuitsAgree'
  <2> SUFFICES ASSUME CircuitsAgree, [Next]_call PROVE CircuitsAgree'
    OBVIOUS
  <2>1. CASE UNCHANGED call
    BY <2>1 DEF CircuitsAgree, IsCall
  <2>2. CASE Next
    <3>1. CASE call'.fn = "verify_var"
      <4>1. PICK pk \in Subgroup, r \in Subgroup, m \in CircuitMessages, w \in WitnessScalars :
               call' = [fn |-> "verify_var", args |-> <<pk, m, r, w>>,
                        reply |-> verify_circuit(pk, m, r, w)]
        BY <2>2, <3>1, Origins DEF VerifyCircuit, Called
      <4>2. /\ call'.args[1] = pk /\ call'.args[2] = m /\ call'.args[3] = r
            /\ call'.args[4] = w /\ call'.reply = verify_circuit(pk, m, r, w)
        BY <4>1
      <4> QED BY <3>1, <4>2, CircuitVerifies DEF CircuitsAgree, IsCall
    <3>2. CASE call'.fn = "commit_var"
      <4>1. PICK stream \in CircuitStreams, w \in WitnessScalars :
               call' = [fn |-> "commit_var", args |-> <<stream, w>>,
                        reply |-> commit_circuit(stream, w)]
        BY <2>2, <3>2, Origins DEF CommitCircuit, Called
      <4>2. /\ call'.args[1] = stream /\ call'.args[2] = w
            /\ call'.reply = commit_circuit(stream, w)
        BY <4>1
      <4> QED BY <3>2, <4>2, CircuitCommits DEF CircuitsAgree, IsCall
    <3> QED BY <3>1, <3>2 DEF CircuitsAgree, IsCall
  <2> QED BY <2>1, <2>2
<1> QED BY <1>1, <1>2, PTL DEF Spec

-----------------------------------------------------------------------------
(* Cipher, MAC and key derivation.                                         *)

\* What is added modulo P can be taken away again.
LEMMA ShiftBack ==
  ASSUME NEW x \in Fq, NEW k \in Fq
  PROVE  /\ (((x + k) % P) - k) % P = x /\ (((x - k) % P) + k) % P = x
         /\ (x + k) % P \in Fq /\ (x - k) % P \in Fq
<1>1. x \in Int /\ k \in Int /\ P \in Nat \ {0} /\ x \in 0..(P - 1) /\ -k \in Int
      /\ x + k \in Int /\ x - k \in Int
  BY PrimeTypes
<1>2. (((x + k) % P) + (-k)) % P = ((x + k) + (-k)) % P
  BY <1>1, ModAdd
<1>3. (((x - k) % P) + k) % P = ((x - k) + k) % P
  BY <1>1, ModAdd
<1>4. (x + k) + (-k) = x /\ (x - k) + k = x /\ x % P = x
  BY <1>1, ModSmall
<1>5. (x + k) % P \in Fq /\ (x - k) % P \in Fq
  BY <1>1, ModInField
<1>6. ((x + k) % P) + (-k) = ((x + k) % P) - k
  BY <1>1, <1>5, PrimeTypes
<1> QED BY <1>2, <1>3, <1>4, <1>5, <1>6

\* An element of the key stream, natively and in the gadget.
LEMMA KeystreamIs ==
  ASSUME NEW key \in Fq, NEW i \in Nat
  PROVE  Sym!keystream_at(key, i) \in Fq /\ Sym!keystream_at_var(key, i) = Sym!keystream_at(key, i)
<1> DEFINE in == <<key, i % P>>
           tag == domain_tag("stream-cipher")
<1>1. (i % P) \in Fq
  BY ModInField
<1>2. in \in Seq(Fq) /\ Len(in) <= 11
  BY <1>1
<1>3. tag \in Fq
  BY TagsInField
<1>4. Sym!keystream_at(key, i) = poseidon_hash_fixed(tag, in).value
  BY DEF Sym!keystream_at
<1>5. Sym!keystream_at_var(key, i) = poseidon_hash_fixed_var(tag, in).value
  BY DEF Sym!keystream_at_var
<1> HIDE DEF in, tag
<1> QED BY <1>2, <1>3, <1>4, <1>5, FixedIs

\* The cipher and its gadget, element by element.
LEMMA CipherIs ==
  ASSUME NEW key \in Fq, NEW s \in Seq(Fq)
  PROVE  /\ Sym!encrypt(key, s) \in Seq(Fq) /\ Sym!decrypt(key, s) \in Seq(Fq)
         /\ Sym!encrypt_var(key, s) = Sym!encrypt(key, s)
         /\ Sym!decrypt_var(key, s) = Sym!decrypt(key, s)
         /\ Sym!decrypt(key, Sym!encrypt(key, s)) = s
         /\ Sym!encrypt(key, Sym!decrypt(key, s)) = s
<1> DEFINE N == Len(s)
           k(i) == Sym!keystream_at(key, i - 1)
           e == [i \in 1..N |-> (s[i] + k(i)) % P]
           d == [i \in 1..N |-> (s[i] - k(i)) % P]
<1>0. N \in Nat
  OBVIOUS
<1>1. \A i \in 1..N : s[i] \in Fq /\ k(i) \in Fq /\ Sym!keystream_at_var(key, i - 1) = k(i)
  <2> TAKE i \in 1..N
  <2>1. i - 1 \in Nat
    BY <1>0
  <2> QED BY <2>1, KeystreamIs
<1>2. Sym!encrypt(key, s) = e /\ Sym!decrypt(key, s) = d
  BY DEF Sym!encrypt, Sym!decrypt
<1>3. Sym!encrypt_var(key, s) = e /\ Sym!decrypt_var(key, s) = d
  BY <1>1 DEF Sym!encrypt_var, Sym!decrypt_var
<1> HIDE DEF k
<1>4. e \in Seq(Fq) /\ d \in Seq(Fq) /\ Len(e) = N /\ Len(d) = N
  <2>1. \A i \in 1..N : (s[i] + k(i)) % P \in Fq /\ (s[i] - k(i)) % P \in Fq
    BY <1>1, ShiftBack
  <2> QED BY <1>0, <2>1
<1>5. \A i \in 1..N : (e[i] - k(i)) % P = s[i] /\ (d[i] + k(i)) % P = s[i]
  BY <1>1, ShiftBack
<1>6. s = [i \in 1..N |-> s[i]]
  OBVIOUS
<1> HIDE DEF e, d
<1>7. Sym!decrypt(key, e) = [i \in 1..N |-> (e[i] - k(i)) % P]
  BY <1>4 DEF Sym!decrypt, k
<1>8. Sym!encrypt(key, d) = [i \in 1..N |-> (d[i] + k(i)) % P]
  BY <1>4 DEF Sym!encrypt, k
<1> QED BY <1>2, <1>3, <1>4, <1>5, <1>6, <1>7, <1>8

\* The MAC and its gadget.
LEMMA MacIs ==
  ASSUME NEW key \in Fq, NEW m \in Seq(Fq)
  PROVE  Sym!mac(key, m) \in Fq /\ Sym!mac_var(key, m) = Sym!mac(key, m)
<1>1. <<key>> \o m \in Seq(Fq) /\ domain_tag("mac") \in Fq
  BY Prepend, TagsInField
<1>2. Sym!mac(key, m) = poseidon_hash_sponge(domain_tag("mac"), <<key>> \o m)
  BY DEF Sym!mac
<1>3. Sym!mac_var(key, m) = poseidon_hash_sponge_var(domain_tag("mac"), <<key>> \o m)
  BY DEF Sym!mac_var
<1> QED BY <1>1, <1>2, <1>3, SpongeIs

\* Key derivation and its gadget, for a context the hash accepts.
LEMMA KdfIs ==
  ASSUME NEW p \in CurvePoints, NEW context \in Seq(Fq),
         poseidon_hash_fixed(domain_tag("kdf"), p \o context).ok
  PROVE  poseidon_hash_fixed(domain_tag("kdf"), p \o context)
           = Ok(Sym!kdf_derive_var(p, context))
<1> DEFINE in == p \o context
           tag == domain_tag("kdf")
<1>2. in \in Seq(Fq) /\ Len(in) = 2 + Len(context)
  <2>1. p \in Seq(Fq) /\ Len(p) = 2
    <3>1. p = <<p[1], p[2]>> /\ p[1] \in Fq /\ p[2] \in Fq
      BY PointTypes
    <3>2. <<p[1], p[2]>> \in Seq(Fq) /\ Len(<<p[1], p[2]>>) = 2
      BY <3>1
    <3> QED BY <3>1, <3>2
  <2>2. \A q \in Seq(Fq) : q \o context \in Seq(Fq) /\ Len(q \o context) = Len(q) + Len(context)
    OBVIOUS
  <2> QED BY <2>1, <2>2
<1>4. tag \in Fq
  BY TagsInField
<1>6. Sym!kdf_derive_var(p, context) = poseidon_hash_fixed_var(tag, in).value
  BY DEF Sym!kdf_derive_var
<1> HIDE DEF in, tag
<1>7. Len(in) <= 11
  <2>1. Len(in) \in Nat /\ (Len(in) > 11 => ~poseidon_hash_fixed(tag, in).ok)
    BY <1>2, <1>4, FixedIs, ResultParts
  <2> QED BY <2>1 DEF in, tag
<1>8. poseidon_hash_fixed(tag, in) = Ok(Sym!kdf_derive_var(p, context))
  BY <1>2, <1>4, <1>6, <1>7, FixedIs
<1> QED BY <1>8 DEF in, tag

\* A key and a stream as texts, and what the functions that take them do.
LEMMA KeyAndStream ==
  ASSUME NEW key \in Int, NEW s \in Seq(Int)
  PROVE  LET k == fq_from_decimal(key)
             fields == decimals_to_fields(s)
         IN  k.ok /\ fields.ok =>
               /\ k = Ok(key % P) /\ (key % P) \in Fq
               /\ fields = Ok(FieldsOf(s)) /\ FieldsOf(s) \in Seq(Fq)
BY FqDecimal, DecimalsAre, FieldsAre, ModInField

\* Field elements as texts are decoded to themselves.
LEMMA FieldTexts ==
  ASSUME NEW s \in Seq(Fq)
  PROVE  decimals_to_fields(s) = Ok(s)
<1>1. Len(s) \in Nat /\ \A i \in 1..Len(s) : s[i] \in Int /\ s[i] >= 0 /\ s[i] % P = s[i]
  <2>1. \A x \in Fq : x \in Int /\ x >= 0 /\ x % P = x
    BY PrimeTypes, ModSmall
  <2> QED BY <2>1
<1>2. s \in Seq(Int) /\ AllDecimal(s)
  BY <1>1 DEF AllDecimal
<1>3. FieldsOf(s) = s
  BY <1>1 DEF FieldsOf
<1> QED BY <1>2, <1>3, DecimalsAre

\* What was encrypted decrypts, in texts and in the gadget.
LEMMA Encrypted ==
  ASSUME NEW key \in Elements, NEW m \in Streams, cipher_encrypt(key, m).ok
  PROVE  LET reply == cipher_encrypt(key, m)
         IN  /\ Sym!decrypt_var(key % P, reply.value) = decimals_to_fields(m).value
             /\ cipher_decrypt(key, reply.value) = decimals_to_fields(m)
<1> DEFINE k == key % P
           f == FieldsOf(m)
           c == Sym!encrypt(k, f)
<1>1. key \in Int /\ m \in Seq(Int)
  BY BindingsAssumption
<1>2. fq_from_decimal(key).ok /\ decimals_to_fields(m).ok
  BY ResultParts DEF cipher_encrypt
<1>3. /\ fq_from_decimal(key) = Ok(k) /\ k \in Fq
      /\ decimals_to_fields(m) = Ok(f) /\ f \in Seq(Fq)
  BY <1>1, <1>2, KeyAndStream
<1> HIDE DEF k, f
<1>4. cipher_encrypt(key, m) = Ok(c)
  BY <1>3, ResultParts DEF cipher_encrypt
<1>5. c \in Seq(Fq) /\ Sym!decrypt_var(k, c) = Sym!decrypt(k, c) /\ Sym!decrypt(k, c) = f
  <2>1. c \in Seq(Fq) /\ Sym!decrypt(k, c) = f
    BY <1>3, CipherIs
  <2> HIDE DEF c
  <2> QED BY <1>3, <2>1, CipherIs
<1> HIDE DEF c
<1>6. decimals_to_fields(c) = Ok(c)
  BY <1>5, FieldTexts
<1>7. cipher_decrypt(key, c) = Ok(f)
  BY <1>3, <1>5, <1>6, ResultParts DEF cipher_decrypt
<1> QED BY <1>3, <1>4, <1>5, <1>7, ResultParts DEF k

\* What was decrypted encrypts again, in the gadget.
LEMMA Decrypted ==
  ASSUME NEW key \in Elements, NEW m \in Streams, cipher_decrypt(key, m).ok
  PROVE  Sym!encrypt_var(key % P, cipher_decrypt(key, m).value) = decimals_to_fields(m).value
<1> DEFINE k == key % P
           f == FieldsOf(m)
           d == Sym!decrypt(k, f)
<1>1. key \in Int /\ m \in Seq(Int)
  BY BindingsAssumption
<1>2. fq_from_decimal(key).ok /\ decimals_to_fields(m).ok
  BY ResultParts DEF cipher_decrypt
<1>3. /\ fq_from_decimal(key) = Ok(k) /\ k \in Fq
      /\ decimals_to_fields(m) = Ok(f) /\ f \in Seq(Fq)
  BY <1>1, <1>2, KeyAndStream
<1> HIDE DEF k, f
<1>4. cipher_decrypt(key, m) = Ok(d)
  BY <1>3, ResultParts DEF cipher_decrypt
<1>5. d \in Seq(Fq) /\ Sym!encrypt(k, d) = f
  BY <1>3, CipherIs
<1> HIDE DEF d
<1>6. Sym!encrypt_var(k, d) = f
  BY <1>3, <1>5, CipherIs
<1> QED BY <1>3, <1>4, <1>6, ResultParts DEF k

\* A tag verifies, and the gadget makes the same.
LEMMA Tagged ==
  ASSUME NEW key \in Elements, NEW m \in Messages, binding_mac(key, m).ok
  PROVE  LET reply == binding_mac(key, m)
             fields == decimals_to_fields(m).value
         IN  /\ reply.value = Sym!mac_var(key % P, fields)
             /\ binding_mac_verify(key, m, reply.value) = Ok(TRUE)
<1> DEFINE k == key % P
           f == FieldsOf(m)
           t == Sym!mac(k, f)
<1>1. key \in Int /\ m \in Seq(Int)
  BY BindingsAssumption
<1>2. fq_from_decimal(key).ok /\ decimals_to_fields(m).ok
  BY ResultParts DEF binding_mac
<1>3. /\ fq_from_decimal(key) = Ok(k) /\ k \in Fq
      /\ decimals_to_fields(m) = Ok(f) /\ f \in Seq(Fq)
  BY <1>1, <1>2, KeyAndStream
<1> HIDE DEF k, f
<1>4. binding_mac(key, m) = Ok(t)
  BY <1>3, ResultParts DEF binding_mac
<1>5. t \in Fq /\ Sym!mac_var(k, f) = t
  BY <1>3, MacIs
<1>6. fq_from_decimal(t) = Ok(t)
  <2> HIDE DEF t
  <2>1. t \in Int /\ t >= 0 /\ t % P = t
    BY <1>5, PrimeTypes, ModSmall
  <2> QED BY <2>1, FqDecimal
<1>7. binding_mac_verify(key, m, t) = Ok(Sym!mac_verify(k, f, t))
  BY <1>3, <1>6, ResultParts DEF binding_mac_verify
<1>8. Sym!mac_verify(k, f, t) = TRUE
  BY DEF Sym!mac_verify
<1> QED BY <1>3, <1>4, <1>5, <1>7, <1>8, ResultParts DEF k

\* kdf_derive and its gadget.
LEMMA Derived ==
  ASSUME NEW p \in PeerTexts, NEW context \in Messages, binding_kdf(p[1], p[2], context).ok
  PROVE  binding_kdf(p[1], p[2], context).value
           = Sym!kdf_derive_var(<<p[1] % P, p[2] % P>>, decimals_to_fields(context).value)
<1> DEFINE q == <<p[1] % P, p[2] % P>>
           f == FieldsOf(context)
           point == point_from_strings(p[1], p[2])
<1>1. p[1] \in Int /\ p[2] \in Int /\ context \in Seq(Int)
  BY BindingsAssumption
<1>2. point.ok /\ decimals_to_fields(context).ok
  BY ResultParts DEF binding_kdf
<1>3. point = Ok(q) /\ q \in CurvePoints
  <2> HIDE DEF point
  <2> QED BY <1>1, <1>2, PointTextsAre, SubgroupIs DEF point
<1>4. decimals_to_fields(context) = Ok(f) /\ f \in Seq(Fq)
  BY <1>1, <1>2, DecimalsAre, FieldsAre
<1> HIDE DEF q, f
<1>5. binding_kdf(p[1], p[2], context) = poseidon_hash_fixed(domain_tag("kdf"), q \o f)
  BY <1>3, <1>4, ResultParts DEF binding_kdf
<1>6. poseidon_hash_fixed(domain_tag("kdf"), q \o f) = Ok(Sym!kdf_derive_var(q, f))
  BY <1>3, <1>4, <1>5, KdfIs
<1> QED BY <1>4, <1>5, <1>6, ResultParts DEF q

\* Decryption inverts encryption, tags verify, and the gadgets compute the same,
\* for all keys and streams.
THEOREM KeysAgree == Spec => []SymmetricAgree
<1>1. Init => SymmetricAgree
  BY DEF Init, NoCall, SymmetricAgree, Accepted, IsCall
<1>2. SymmetricAgree /\ [Next]_call => SymmetricAgree'
  <2> SUFFICES ASSUME SymmetricAgree, [Next]_call PROVE SymmetricAgree'
    OBVIOUS
  <2>1. CASE UNCHANGED call
    BY <2>1 DEF SymmetricAgree, Accepted, IsCall
  <2>2. CASE Next
    <3>1. CASE call'.fn = "cipher_encrypt"
      <4>1. PICK key \in Elements, m \in Streams :
               call' = [fn |-> "cipher_encrypt", args |-> <<key, m>>,
                        reply |-> cipher_encrypt(key, m)]
        BY <2>2, <3>1, Origins DEF CipherEncrypt, Called
      <4>2. call'.args[1] = key /\ call'.args[2] = m /\ call'.reply = cipher_encrypt(key, m)
        BY <4>1
      <4> QED BY <3>1, <4>2, Encrypted DEF SymmetricAgree, Accepted, IsCall
    <3>2. CASE call'.fn = "cipher_decrypt"
      <4>1. PICK key \in Elements, m \in Streams :
               call' = [fn |-> "cipher_decrypt", args |-> <<key, m>>,
                        reply |-> cipher_decrypt(key, m)]
        BY <2>2, <3>2, Origins DEF CipherDecrypt, Called
      <4>2. call'.args[1] = key /\ call'.args[2] = m /\ call'.reply = cipher_decrypt(key, m)
        BY <4>1
      <4> QED BY <3>2, <4>2, Decrypted DEF SymmetricAgree, Accepted, IsCall
    <3>3. CASE call'.fn = "mac"
      <4>1. PICK key \in Elements, m \in Messages :
               call' = [fn |-> "mac", args |-> <<key, m>>, reply |-> binding_mac(key, m)]
        BY <2>2, <3>3, Origins DEF Mac, Called
      <4>2. call'.args[1] = key /\ call'.args[2] = m /\ call'.reply = binding_mac(key, m)
        BY <4>1
      <4> QED BY <3>3, <4>2, Tagged DEF SymmetricAgree, Accepted, IsCall
    <3>4. CASE call'.fn = "kdf_derive"
      <4>1. PICK p \in PeerTexts, context \in Messages :
               call' = [fn |-> "kdf_derive", args |-> <<p, context>>,
                        reply |-> binding_kdf(p[1], p[2], context)]
        BY <2>2, <3>4, Origins DEF KdfDerive, Called
      <4>2. /\ call'.args[1] = p /\ call'.args[2] = context
            /\ call'.reply = binding_kdf(p[1], p[2], context)
        BY <4>1
      <4> QED BY <3>4, <4>2, Derived DEF SymmetricAgree, Accepted, IsCall
    <3> QED BY <3>1, <3>2, <3>3, <3>4 DEF SymmetricAgree, Accepted, IsCall
  <2> QED BY <2>1, <2>2
<1> QED BY <1>1, <1>2, PTL DEF Spec

-----------------------------------------------------------------------------
(* Numbers of bytes: reading bytes, most significant first, and taking digits *)
(* undo each other.                                                        *)

\* Powers of the byte base are positive.
LEMMA BasePowers ==
  ASSUME NEW n \in Nat
  PROVE  /\ power(ByteBase, n) \in Nat \ {0}
         /\ power(ByteBase, n + 1) = ByteBase * power(ByteBase, n)
<1> DEFINE S == {k \in Nat : power(ByteBase, k) \in Nat \ {0}}
<1>1. ByteBase \in Nat \ {0} /\ ByteBase \in Nat
  BY TextAssumption
<1>2. 0 \in S
  BY <1>1, PowerLaws
<1>3. ASSUME NEW k \in Nat, k \in S PROVE k + 1 \in S
  <2>1. power(ByteBase, k) \in Nat \ {0} /\ power(ByteBase, k + 1) = ByteBase * power(ByteBase, k)
    BY <1>1, <1>3, PowerLaws
  <2> QED BY <1>1, <2>1
<1> HIDE DEF S
<1>4. \A k \in Nat : k \in S
  BY <1>2, <1>3, SetInduction
<1> QED BY <1>1, <1>4, PowerLaws DEF S

\* What from_be_bytes has read of some bytes, one by one.
Reads(bytes, u) ==
    /\ u \in [0..Len(bytes) -> Nat] /\ u[0] = 0
    /\ \A k \in 1..Len(bytes) : u[k] = ByteBase * u[k - 1] + bytes[k]

\* A byte is below the base.
LEMMA BytesAre ==
  ASSUME NEW bytes \in Seq(Bytes), NEW k \in 1..Len(bytes)
  PROVE  bytes[k] \in Nat /\ bytes[k] <= ByteBase - 1 /\ ByteBase \in Nat \ {0}
<1>1. bytes[k] \in Bytes
  OBVIOUS
<1> QED BY <1>1, TextAssumption DEF Bytes

\* from_be_bytes_mod_order reduces what it has read in the end.
LEMMA FromBytesIs ==
  ASSUME NEW bytes \in Seq(Bytes)
  PROVE  \E u : Reads(bytes, u) /\ from_be_bytes_mod_order(bytes) = u[Len(bytes)] % P
<1> DEFINE N == Len(bytes)
           D == Nat
           Body(h, n) == IF n = 0 THEN 0 ELSE ByteBase * h[n - 1] + bytes[n]
           upto == CHOOSE h : h = [n \in 0..N |-> Body(h, n)]
           After(d, n) == ByteBase * d + bytes[n]
           step == [dn \in D \X Nat |-> IF dn[2] \in 1..N THEN After(dn[1], dn[2]) ELSE 0]
<1>0. N \in Nat /\ 0 \in D
  OBVIOUS
<1>1. from_be_bytes_mod_order(bytes) = upto[N] % P
  BY DEF from_be_bytes_mod_order
<1>2. ASSUME NEW d \in D, NEW n \in 1..N PROVE After(d, n) \in D
  <2>1. bytes[n] \in Nat /\ ByteBase \in Nat
    BY BytesAre
  <2>2. ByteBase * d \in Nat
    BY <2>1
  <2> QED BY <2>1, <2>2
<1> HIDE DEF After, D
<1>3. step \in Steps(D)
  BY <1>0, <1>2 DEF Steps
<1>4. ASSUME NEW d \in D, NEW n \in 1..N PROVE step[<<d, n>>] = After(d, n)
  <2>1. <<d, n>> \in D \X Nat
    BY <1>0
  <2> QED BY <2>1 DEF step
<1> HIDE DEF step
<1>5. PICK f : f \in Runs(D, 0, step, N)
  BY <1>0, <1>3, Recursion
<1>6. f \in [0..N -> D] /\ f[0] = 0 /\ \A n \in 1..N : f[n] = step[<<f[n - 1], n>>]
  BY <1>5 DEF Runs
<1>7. \A n \in 0..N : f[n] = Body(f, n)
  <2> TAKE n \in 0..N
  <2>1. CASE n = 0
    BY <1>6, <2>1
  <2>2. CASE n # 0
    <3>1. n \in 1..N /\ f[n - 1] \in D
      BY <1>0, <1>6, <2>2
    <3> QED BY <1>4, <1>6, <2>2, <3>1 DEF After
  <2> QED BY <2>1, <2>2
<1> HIDE DEF Body
<1>8. f = [n \in 0..N |-> Body(f, n)]
  BY <1>6, <1>7
<1>9. upto = [n \in 0..N |-> Body(upto, n)]
  BY <1>8
<1> HIDE DEF upto
<1>10. upto = [n \in 0..N |-> upto[n]] /\ \A n \in 0..N : upto[n] = Body(upto, n)
  BY <1>9
<1>11. upto[0] = 0
  <2>1. 0 \in 0..N
    BY <1>0
  <2> QED BY <1>10, <2>1 DEF Body
<1>12. ASSUME NEW n \in 1..N, upto[n - 1] \in D
       PROVE  upto[n] = step[<<upto[n - 1], n>>]
  <2>1. n \in 0..N /\ n # 0
    BY <1>0
  <2> QED BY <1>4, <1>10, <1>12, <2>1 DEF Body, After
<1>13. upto \in Runs(D, 0, step, N)
  BY <1>0, <1>3, <1>10, <1>11, <1>12, RunFrom
<1>14. upto \in [0..N -> D] /\ \A n \in 1..N : upto[n] = After(upto[n - 1], n)
  <2>1. upto \in [0..N -> D] /\ \A n \in 1..N : upto[n] = step[<<upto[n - 1], n>>]
    BY <1>13 DEF Runs
  <2>2. \A n \in 1..N : upto[n - 1] \in D
    <3> TAKE n \in 1..N
    <3>1. n - 1 \in 0..N
      BY <1>0
    <3> QED BY <2>1, <3>1
  <2> QED BY <1>4, <2>1, <2>2
<1>15. Reads(bytes, upto)
  BY <1>11, <1>14 DEF Reads, After, D
<1> QED BY <1>1, <1>15

\* The bytes read so far are the high digits of the number they all make.
LEMMA ReadsHigh ==
  ASSUME NEW bytes \in Seq(Bytes), NEW u, Reads(bytes, u)
  PROVE  \A k \in 0..Len(bytes) : /\ u[Len(bytes)] \div power(ByteBase, k) = u[Len(bytes) - k]
                                  /\ u[Len(bytes) - k] \in Nat
<1> DEFINE N == Len(bytes)
           pw(k) == power(ByteBase, k)
           S == {k \in Nat : k <= N =>
                   \E r \in Nat : r < pw(k) /\ u[N] = u[N - k] * pw(k) + r}
<1>0. N \in Nat /\ (\A k \in 0..N : u[N - k] \in Nat)
  <2>1. N \in Nat
    OBVIOUS
  <2>2. \A k \in 0..N : N - k \in 0..N
    BY <2>1
  <2> QED BY <2>1, <2>2 DEF Reads
<1>1. 0 \in S
  <2>1. pw(0) = 1
    BY TextAssumption, PowerLaws
  <2>2. N - 0 = N /\ u[N] \in Nat
    BY <1>0 DEF Reads
  <2>3. 0 < pw(0) /\ u[N] = u[N - 0] * pw(0) + 0
    <3> HIDE DEF N, pw
    <3> QED BY <2>1, <2>2
  <2> QED BY <2>3
<1>2. ASSUME NEW k \in Nat, k \in S PROVE k + 1 \in S
  <2>1. CASE k + 1 <= N
    <3>1. PICK r \in Nat : r < pw(k) /\ u[N] = u[N - k] * pw(k) + r
      BY <1>2, <2>1
    <3> DEFINE n == N - k
               a == pw(k)
               b == bytes[n]
               q == u[n - 1]
    <3>2. n \in 1..N /\ n - 1 = N - (k + 1) /\ n - 1 \in 0..N
      BY <1>0, <2>1
    <3>3. u[n] = ByteBase * q + b /\ q \in Nat
      BY <3>2 DEF Reads
    <3>4. b \in Nat /\ b <= ByteBase - 1 /\ ByteBase \in Nat \ {0}
      BY <3>2, BytesAre
    <3>5. a \in Nat \ {0} /\ pw(k + 1) = ByteBase * a
      BY BasePowers
    <3>6. r < a /\ u[N] = u[n] * a + r
      BY <3>1
    <3>7. q = u[N - (k + 1)]
      BY <3>2
    <3> HIDE DEF n, a, b, q, N
    <3>8. \A x, y, z, B \in Nat : /\ (B * x + y) * z = x * (B * z) + y * z
                                  /\ x * (B * z) \in Nat /\ y * z \in Nat
      OBVIOUS
    <3>9. u[n] * a = q * (ByteBase * a) + b * a /\ q * (ByteBase * a) \in Nat /\ b * a \in Nat
      <4>1. q \in Nat /\ b \in Nat /\ a \in Nat /\ ByteBase \in Nat
        BY <3>3, <3>4, <3>5
      <4> QED BY <3>3, <3>8, <4>1
    <3>10. b * a + r < ByteBase * a
      <4>1. PICK c \in Nat : ByteBase = b + c + 1
        <5>1. ByteBase - 1 - b \in Nat /\ ByteBase = b + (ByteBase - 1 - b) + 1
          BY <3>4
        <5> QED BY <5>1
      <4>2. \A x, y, z \in Nat :
              (x + y + 1) * z = x * z + y * z + z /\ x * z \in Nat /\ y * z \in Nat
        OBVIOUS
      <4>3. ByteBase * a = b * a + c * a + a /\ c * a \in Nat /\ b * a \in Nat /\ a \in Nat
        BY <3>4, <3>5, <4>1, <4>2
      <4> QED BY <3>6, <4>3
    <3>11. u[N] = q * pw(k + 1) + (b * a + r) /\ b * a + r \in Nat /\ b * a + r < pw(k + 1)
      BY <3>5, <3>6, <3>9, <3>10
    <3> QED BY <3>7, <3>11
  <2>2. CASE ~(k + 1 <= N)
    BY <2>2
  <2> QED BY <2>1, <2>2
<1> HIDE DEF S
<1>3. \A k \in Nat : k \in S
  BY <1>1, <1>2, SetInduction
<1>4. ASSUME NEW k \in 0..N PROVE u[N] \div pw(k) = u[N - k]
  <2>1. PICK r \in Nat : r < pw(k) /\ u[N] = u[N - k] * pw(k) + r
    BY <1>0, <1>3 DEF S
  <2> DEFINE m == pw(k)
             q == u[N - k]
  <2>2. m \in Nat \ {0} /\ q \in Int /\ r \in 0..(m - 1) /\ u[N] \in Int
    <3>1. m \in Nat \ {0}
      BY <1>0, BasePowers
    <3>2. q \in Nat /\ u[N] \in Nat
      BY <1>0 DEF Reads
    <3> QED BY <2>1, <3>1, <3>2
  <2>3. u[N] = m * q + r
    <3>1. q * m = m * q
      BY <2>2
    <3> QED BY <2>1, <3>1
  <2> HIDE DEF m, q
  <2>4. u[N] \div m = q
    BY <2>2, <2>3, ModUnique
  <2> QED BY <2>4 DEF m, q
<1> QED BY <1>0, <1>4

\* The constants of the encoding.
LEMMA TextConstants ==
  /\ ByteBase \in Nat \ {0} /\ ChunkBytes \in Nat \ {0} /\ Chunks \in Nat \ {0}
  /\ LimbBase \in Nat \ {0} /\ UsizeBase \in Nat \ {0}
  /\ power(ByteBase, ChunkBytes) < P /\ P <= power(ByteBase, ChunkBytes + 1)
  /\ MAX_BYTES \in Nat /\ MAX_BYTES < P /\ MAX_BYTES < UsizeBase /\ UsizeBase <= LimbBase
  /\ MAX_BYTES = Chunks * ChunkBytes
  BY TextAssumption DEF MAX_BYTES

\* The bytes of an element.
LEMMA DigitsAre ==
  ASSUME NEW x \in Nat, NEW j \in 0..ChunkBytes
  PROVE  /\ field_to_be(x)[j + 1] = (x \div power(ByteBase, ChunkBytes - j)) % ByteBase
         /\ field_to_be(x)[j + 1] \in Bytes
<1>1. j + 1 \in 1..(ChunkBytes + 1) /\ ChunkBytes + 1 - (j + 1) = ChunkBytes - j
      /\ ChunkBytes - j \in Nat
  BY TextConstants
<1>2. field_to_be(x)[j + 1] = (x \div power(ByteBase, ChunkBytes - j)) % ByteBase
  BY <1>1 DEF field_to_be
<1> DEFINE m == power(ByteBase, ChunkBytes - j)
<1>3. m \in Nat \ {0}
  BY <1>1, BasePowers
<1> HIDE DEF m
<1> DEFINE q == x \div m
<1>4. q \in Nat
  BY <1>3, DivNat
<1> HIDE DEF q
<1>5. (q % ByteBase) \in 0..(ByteBase - 1)
  BY <1>4, TextConstants, DivNat
<1> QED BY <1>2, <1>5 DEF Bytes, q, m

\* A chunk survives: what its bytes make has those bytes for digits.
LEMMA ChunkIs ==
  ASSUME NEW bytes \in Seq(Bytes), Len(bytes) = ChunkBytes
  PROVE  LET x == from_be_bytes_mod_order(bytes)
         IN  /\ x \in Fq /\ field_to_be(x)[1] = 0
             /\ \A j \in 1..ChunkBytes : field_to_be(x)[j + 1] = bytes[j]
<1> DEFINE N == ChunkBytes
           x == from_be_bytes_mod_order(bytes)
           pw(k) == power(ByteBase, k)
<1>0. N \in Nat /\ 0 \in 0..N /\ N \in 0..N
  BY TextConstants
<1>1. PICK u : Reads(bytes, u) /\ x = u[N] % P
  BY FromBytesIs
<1>2. \A k \in 0..N : u[N] \div pw(k) = u[N - k] /\ u[N - k] \in Nat
  BY <1>1, ReadsHigh
<1>3. u[N] \in Nat /\ u[N] \div pw(N) = 0
  <2>1. u[N - 0] \in Nat /\ N - 0 = N /\ N - N = 0
    BY <1>0, <1>2
  <2>2. u[N] \div pw(N) = u[N - N]
    BY <1>0, <1>2
  <2>3. u[0] = 0
    BY <1>1 DEF Reads
  <2> QED BY <2>1, <2>2, <2>3
<1>4. x = u[N]
  <2> DEFINE m == pw(N)
             v == u[N]
  <2>1. m \in Nat \ {0} /\ v \in Nat /\ v \div m = 0 /\ m < P
    BY <1>0, <1>3, BasePowers, TextConstants
  <2> HIDE DEF m, v
  <2>2. v < m
    <3>1. (v % m) \in 0..(m - 1) /\ v = (v \div m) * m + (v % m)
      BY <2>1, DivNat
    <3>2. (v \div m) * m = 0
      BY <2>1
    <3> QED BY <2>1, <3>1, <3>2
  <2>3. v % P = v
    <3>1. v \in 0..(P - 1) /\ P \in Nat \ {0}
      BY <2>1, <2>2, PrimeTypes
    <3> QED BY <3>1, ModSmall
  <2> QED BY <1>1, <2>3 DEF v
<1>5. x \in Fq
  BY <1>1, <1>3, ModInField
<1> HIDE DEF x
<1>6. field_to_be(x)[1] = 0
  <2>1. field_to_be(x)[0 + 1] = (x \div pw(N - 0)) % ByteBase
    BY <1>0, <1>3, <1>4, DigitsAre
  <2>2. 0 % ByteBase = 0
    <3>1. 0 \in 0..(ByteBase - 1)
      BY TextConstants
    <3> QED BY <3>1, TextConstants, ModSmall
  <2> QED BY <1>0, <1>3, <1>4, <2>1, <2>2
<1>7. ASSUME NEW j \in 1..N PROVE field_to_be(x)[j + 1] = bytes[j]
  <2>1. j \in 0..N /\ N - j \in 0..N /\ N - (N - j) = j /\ j - 1 \in 0..N
    BY <1>0
  <2>2. field_to_be(x)[j + 1] = u[j] % ByteBase
    BY <1>2, <1>3, <1>4, <2>1, DigitsAre
  <2> DEFINE q == u[j - 1]
             b == bytes[j]
             B == ByteBase
  <2>3. u[j] = B * q + b /\ q \in Nat
    BY <1>1, <2>1 DEF Reads
  <2>4. b \in Nat /\ b <= B - 1 /\ B \in Nat \ {0}
    BY BytesAre
  <2> HIDE DEF q, b, B
  <2>5. u[j] \in Int /\ q \in Int /\ b \in 0..(B - 1) /\ B \in Nat \ {0} /\ u[j] = B * q + b
    BY <2>3, <2>4
  <2>6. u[j] % B = b
    BY <2>5, ModUnique
  <2> QED BY <2>2, <2>6 DEF b, B
<1> QED BY <1>5, <1>6, <1>7 DEF x

\* And an element whose top digit is zero is what its other digits make.
LEMMA ChunkBack ==
  ASSUME NEW x \in Fq, field_to_be(x)[1] = 0,
         NEW bytes \in Seq(Bytes), Len(bytes) = ChunkBytes,
         \A j \in 1..ChunkBytes : bytes[j] = field_to_be(x)[j + 1]
  PROVE  from_be_bytes_mod_order(bytes) = x
<1> DEFINE N == ChunkBytes
           B == ByteBase
           pw(k) == power(ByteBase, k)
           w(j) == x \div pw(N - j)
<1>0. N \in Nat /\ 0 \in 0..N /\ N \in 0..N /\ x \in Nat /\ x < P /\ B \in Nat \ {0}
  BY TextConstants, PrimeTypes
<1>1. PICK u : Reads(bytes, u) /\ from_be_bytes_mod_order(bytes) = u[N] % P
  BY FromBytesIs
<1>2. \A j \in 0..N : field_to_be(x)[j + 1] = w(j) % B
  BY <1>0, DigitsAre
<1>3. w(0) = 0
  <2> DEFINE m == pw(N)
             q == x \div m
             r == x % m
  <2>1. m \in Nat \ {0} /\ x < B * m
    <3>1. m \in Nat \ {0} /\ pw(N + 1) = B * m
      BY <1>0, BasePowers
    <3>2. P <= pw(N + 1) /\ P \in Nat
      BY TextConstants, PrimeTypes
    <3>3. B * m \in Nat
      BY <1>0, <3>1
    <3> HIDE DEF m, B, pw
    <3> QED BY <1>0, <3>1, <3>2, <3>3
  <2> HIDE DEF m
  <2>2. q \in Nat /\ r \in 0..(m - 1) /\ x = q * m + r
    BY <1>0, <2>1, DivNat
  <2>3. q % B = 0
    <3>1. w(0) % B = 0
      <4>1. field_to_be(x)[0 + 1] = w(0) % B
        BY <1>0, <1>2
      <4>2. 0 + 1 = 1
        OBVIOUS
      <4> HIDE DEF w, B
      <4> QED BY <4>1, <4>2
    <3>2. N - 0 = N
      BY <1>0
    <3> QED BY <3>1, <3>2 DEF m
  <2> HIDE DEF q, r, B
  <2>4. q < B
    <3>1. SUFFICES ASSUME q >= B PROVE FALSE
      BY <1>0, <2>2
    <3>2. PICK c \in Nat : q = B + c
      <4>1. q - B \in Nat /\ q = B + (q - B)
        BY <1>0, <2>2, <3>1
      <4> QED BY <4>1
    <3>3. \A a, b, z \in Nat : (a + b) * z = a * z + b * z /\ a * z \in Nat /\ b * z \in Nat
      OBVIOUS
    <3>4. q * m = B * m + c * m /\ c * m \in Nat /\ B * m \in Nat
      BY <1>0, <2>1, <3>2, <3>3
    <3> QED BY <2>1, <2>2, <3>4, <1>0
  <2>5. q % B = q
    <3>1. q \in 0..(B - 1)
      BY <1>0, <2>2, <2>4
    <3> QED BY <1>0, <3>1, ModSmall
  <2>6. x \div m = 0
    BY <2>3, <2>5 DEF q
  <2>7. N - 0 = N
    BY <1>0
  <2> QED BY <2>6, <2>7 DEF m
<1>4. ASSUME NEW j \in 1..N PROVE w(j) = B * w(j - 1) + bytes[j]
  <2> DEFINE a == pw(N - j)
  <2>1. N - j \in Nat /\ N - (j - 1) = (N - j) + 1 /\ j \in 0..N
    BY <1>0
  <2>2. a \in Nat \ {0} /\ pw(N - (j - 1)) = B * a
    BY <2>1, BasePowers
  <2>3. bytes[j] = (x \div a) % B
    BY <1>2, <2>1
  <2> HIDE DEF a, B
  <2>4. x \div a = B * (x \div (B * a)) + ((x \div a) % B)
    BY <1>0, <2>2, DivTwice
  <2>5. x \div a = B * (x \div (B * a)) + bytes[j]
    BY <2>3, <2>4
  <2> QED BY <2>2, <2>5 DEF a
<1> DEFINE S == {j \in Nat : j <= N => u[j] = w(j)}
<1> HIDE DEF w
<1>5. 0 \in S
  BY <1>1, <1>3 DEF Reads
<1>6. ASSUME NEW j \in Nat, j \in S PROVE j + 1 \in S
  <2>1. CASE j + 1 <= N
    <3>1. j + 1 \in 1..N /\ (j + 1) - 1 = j /\ u[j] = w(j)
      BY <1>6, <2>1
    <3>2. u[j + 1] = B * u[j] + bytes[j + 1]
      BY <1>1, <3>1 DEF Reads
    <3>3. w(j + 1) = B * w(j) + bytes[j + 1]
      BY <1>4, <3>1
    <3> QED BY <3>1, <3>2, <3>3
  <2>2. CASE ~(j + 1 <= N)
    BY <2>2
  <2> QED BY <2>1, <2>2
<1> HIDE DEF S
<1>7. \A j \in Nat : j \in S
  BY <1>5, <1>6, SetInduction
<1>8. u[N] = w(N)
  BY <1>0, <1>7 DEF S
<1>9. w(N) = x
  <2>1. pw(N - N) = 1
    <3>1. N - N = 0
      BY <1>0
    <3>2. pw(0) = 1
      BY <1>0, PowerLaws
    <3> QED BY <3>1, <3>2
  <2>2. x \div 1 = x
    <3>1. x \in Int /\ 1 \in Nat \ {0} /\ 0 \in 0..(1 - 1) /\ x = 1 * x + 0
      BY <1>0
    <3> QED BY <3>1, ModUnique
  <2> QED BY <2>1, <2>2 DEF w
<1>10. x % P = x
  BY ModSmall, PrimeTypes
<1> QED BY <1>1, <1>8, <1>9, <1>10

-----------------------------------------------------------------------------
(* Texts: the place of a byte among the chunks, padding, and the round trips. *)

\* The positions of a text, by chunk and place in the chunk.
At(c, j) == (c - 1) * ChunkBytes + j

\* Where a place in a chunk is in the text.
LEMMA PositionIs ==
  ASSUME NEW c \in 1..Chunks, NEW j \in 1..ChunkBytes
  PROVE  /\ At(c, j) \in 1..MAX_BYTES
         /\ (At(c, j) - 1) \div ChunkBytes = c - 1 /\ (At(c, j) - 1) % ChunkBytes = j - 1
<1> DEFINE m == ChunkBytes
           q == c - 1
           k == Chunks - c
<1>1. m \in Nat \ {0} /\ q \in Nat /\ k \in Nat /\ Chunks = q + k + 1 /\ j \in 1..m
  BY TextConstants
<1>2. \A x, y, z \in Nat :
        (x + y + 1) * z = x * z + y * z + z /\ x * z \in Nat /\ y * z \in Nat /\ z * x = x * z
  OBVIOUS
<1>3. /\ MAX_BYTES = q * m + k * m + m
      /\ q * m \in Nat /\ k * m \in Nat /\ m * q = q * m
  BY <1>1, <1>2, TextConstants
<1>4. At(c, j) = q * m + j
  BY DEF At
<1> HIDE DEF m, q, k
<1>5. At(c, j) \in 1..MAX_BYTES
  BY <1>1, <1>3, <1>4
<1> DEFINE x == At(c, j) - 1
           r == j - 1
<1>6. x \in Int /\ r \in 0..(m - 1) /\ x = m * q + r /\ q \in Int
  BY <1>1, <1>3, <1>4
<1> HIDE DEF x, r
<1>7. x \div m = q /\ x % m = r
  BY <1>1, <1>6, ModUnique
<1> QED BY <1>5, <1>7 DEF m, q, x, r

\* Every byte of a text has a place in a chunk.
LEMMA PositionOf ==
  ASSUME NEW i \in 1..MAX_BYTES
  PROVE  \E c \in 1..Chunks, j \in 1..ChunkBytes : i = At(c, j)
<1> DEFINE m == ChunkBytes
           q == (i - 1) \div m
           r == (i - 1) % m
<1>1. m \in Nat \ {0} /\ i - 1 \in Nat /\ Chunks \in Nat \ {0} /\ MAX_BYTES = Chunks * m
  BY TextConstants
<1>2. q \in Nat /\ r \in 0..(m - 1) /\ i - 1 = q * m + r
  BY <1>1, DivNat
<1> HIDE DEF m, q, r
<1>3. q < Chunks
  <2>1. SUFFICES ASSUME q >= Chunks PROVE FALSE
    BY <1>1, <1>2
  <2>2. PICK k \in Nat : q = Chunks + k
    <3>1. q - Chunks \in Nat /\ q = Chunks + (q - Chunks)
      BY <1>1, <1>2, <2>1
    <3> QED BY <3>1
  <2>3. \A x, y, z \in Nat : (x + y) * z = x * z + y * z /\ x * z \in Nat /\ y * z \in Nat
    OBVIOUS
  <2>4. q * m = MAX_BYTES + k * m /\ k * m \in Nat /\ MAX_BYTES \in Nat
    BY <1>1, <2>2, <2>3, TextConstants
  <2> QED BY <1>1, <1>2, <2>4
<1>4. q + 1 \in 1..Chunks /\ r + 1 \in 1..m /\ (q + 1) - 1 = q
  BY <1>1, <1>2, <1>3
<1>5. i = q * m + (r + 1)
  <2>1. q * m \in Nat
    BY <1>1, <1>2
  <2> QED BY <1>1, <1>2, <2>1
<1>6. i = At(q + 1, r + 1)
  BY <1>4, <1>5 DEF At, m
<1> QED BY <1>4, <1>6 DEF m

\* A chunk of a padded text, and an encoded text of padding and length.
ChunkOf(pad, c) == [j \in 1..ChunkBytes |-> pad[At(c, j)]]
Paddings == [1..MAX_BYTES -> Bytes]
PaddedTo(input) == [i \in 1..MAX_BYTES |-> IF i <= Len(input) THEN input[i] ELSE 0]
Encoded(pad, n) ==
    <<n>> \o [c \in 1..Chunks |-> from_be_bytes_mod_order(ChunkOf(pad, c))]

\* The chunks of a padded text.
LEMMA ChunksAre ==
  ASSUME NEW pad \in Paddings, NEW c \in 1..Chunks
  PROVE  /\ SubSeq(pad, (c - 1) * ChunkBytes + 1, c * ChunkBytes) = ChunkOf(pad, c)
         /\ ChunkOf(pad, c) \in Seq(Bytes) /\ Len(ChunkOf(pad, c)) = ChunkBytes
         /\ \A j \in 1..ChunkBytes : ChunkOf(pad, c)[j] = pad[At(c, j)]
<1> DEFINE m == ChunkBytes
           a == (c - 1) * m + 1
           b == c * m
<1>1. m \in Nat /\ a \in Nat /\ b \in Nat /\ a >= 1 /\ b - a + 1 = m
  <2>1. m \in Nat /\ (c - 1) * m \in Nat /\ c * m = (c - 1) * m + m
    <3>1. m \in Nat /\ c - 1 \in Nat /\ c = (c - 1) + 1
      BY TextConstants
    <3>2. \A x, z \in Nat : (x + 1) * z = x * z + z /\ x * z \in Nat
      OBVIOUS
    <3> HIDE DEF m
    <3> QED BY <3>1, <3>2
  <2> HIDE DEF m
  <2> QED BY <2>1
<1>2. \A j \in 1..m : At(c, j) \in 1..MAX_BYTES /\ At(c, j) = a + j - 1
  <2> TAKE j \in 1..m
  <2>1. At(c, j) \in 1..MAX_BYTES
    BY PositionIs
  <2>2. At(c, j) = (c - 1) * m + j
    BY DEF At
  <2>3. (c - 1) * m \in Nat /\ a = (c - 1) * m + 1
    BY <1>1
  <2> QED BY <1>1, <2>1, <2>2, <2>3
<1>3. SubSeq(pad, a, b) = [j \in 1..m |-> pad[a + j - 1]]
  <2>1. SubSeq(pad, a, b) = [j \in 1..(b - a + 1) |-> pad[a + j - 1]]
    BY <1>1
  <2> QED BY <1>1, <2>1
<1>4. SubSeq(pad, a, b) = ChunkOf(pad, c)
  BY <1>2, <1>3 DEF ChunkOf
<1>5. \A j \in 1..m : pad[At(c, j)] \in Bytes
  BY <1>2 DEF Paddings
<1>6. ChunkOf(pad, c) \in Seq(Bytes) /\ Len(ChunkOf(pad, c)) = m
  BY <1>1, <1>5 DEF ChunkOf
<1>7. \A j \in 1..m : ChunkOf(pad, c)[j] = pad[At(c, j)]
  BY DEF ChunkOf
<1> QED BY <1>4, <1>6, <1>7

\* A padded text is bytes.
LEMMA PaddedType ==
  ASSUME NEW input \in Seq(Bytes)
  PROVE  PaddedTo(input) \in Paddings
<1>1. 0 \in Bytes
  BY TextConstants DEF Bytes
<1>2. \A i \in 1..MAX_BYTES : (IF i <= Len(input) THEN input[i] ELSE 0) \in Bytes
  BY <1>1
<1> QED BY <1>2 DEF PaddedTo, Paddings

\* What encode_text accepts, and what it makes of it.
LEMMA EncodeIs ==
  ASSUME NEW input \in Seq(Bytes)
  PROVE  /\ encode_text(input).ok <=> Len(input) <= MAX_BYTES /\ from_utf8(input)
         /\ encode_text(input).ok =>
               encode_text(input) = Ok(Encoded(PaddedTo(input), Len(input)))
<1> DEFINE pad == PaddedTo(input)
           chunks == [c \in 1..Chunks |->
                         from_be_bytes_mod_order(
                             SubSeq(pad, (c - 1) * ChunkBytes + 1, c * ChunkBytes))]
<1>1. encode_text(input)
        = IF Len(input) > MAX_BYTES \/ ~from_utf8(input) THEN Err("InvalidInput")
          ELSE Ok(<<Len(input) % P>> \o chunks)
  BY DEF encode_text, PaddedTo
<1>2. chunks = [c \in 1..Chunks |-> from_be_bytes_mod_order(ChunkOf(pad, c))]
  BY PaddedType, ChunksAre
<1> HIDE DEF pad, chunks
<1>3. Len(input) <= MAX_BYTES => Len(input) % P = Len(input)
  <2>1. Len(input) <= MAX_BYTES => Len(input) \in 0..(P - 1)
    BY TextConstants, PrimeTypes
  <2> QED BY <2>1, PrimeTypes, ModSmall
<1>4. Len(input) \in Nat /\ MAX_BYTES \in Nat
  BY TextConstants
<1> QED BY <1>1, <1>2, <1>3, <1>4, ResultParts DEF Encoded, pad

\* An encoded text, element by element.
LEMMA EncodedIs ==
  ASSUME NEW pad \in Paddings, NEW n \in 0..MAX_BYTES
  PROVE  LET s == Encoded(pad, n)
         IN  /\ s \in Seq(Fq) /\ Len(s) = FIELD_COUNT /\ s[1] = n
             /\ \A c \in 1..Chunks : s[c + 1] = from_be_bytes_mod_order(ChunkOf(pad, c))
             /\ Tail(s) = [c \in 1..Chunks |-> from_be_bytes_mod_order(ChunkOf(pad, c))]
<1> DEFINE t == [c \in 1..Chunks |-> from_be_bytes_mod_order(ChunkOf(pad, c))]
<1>1. \A c \in 1..Chunks : from_be_bytes_mod_order(ChunkOf(pad, c)) \in Fq
  BY ChunksAre, ChunkIs
<1>2. t \in Seq(Fq) /\ Len(t) = Chunks
  BY <1>1, TextConstants
<1>3. n \in Fq
  BY TextConstants, PrimeTypes
<1>4. \A c \in 1..Chunks : t[c] = from_be_bytes_mod_order(ChunkOf(pad, c))
  OBVIOUS
<1> HIDE DEF t
<1>5. <<n>> \o t \in Seq(Fq) /\ Len(<<n>> \o t) = Len(t) + 1 /\ (<<n>> \o t)[1] = n
      /\ Tail(<<n>> \o t) = t
  BY <1>2, <1>3, Prepend
<1>6. \A c \in 1..Chunks : (<<n>> \o t)[c + 1] = t[c]
  BY <1>2, TextConstants
<1>7. Encoded(pad, n) = <<n>> \o t
  BY DEF Encoded, t
<1>8. FIELD_COUNT = Chunks + 1
  BY TextConstants DEF FIELD_COUNT
<1> QED BY <1>2, <1>4, <1>5, <1>6, <1>7, <1>8 DEF t

\* The length of a text survives as a limb and as a usize.
LEMMA UsizeIs ==
  ASSUME NEW n \in 0..MAX_BYTES
  PROVE  n \div LimbBase = 0 /\ field_to_usize(n) = n
<1> DEFINE B == LimbBase
           U == UsizeBase
<1>1. /\ n \in Nat /\ n \in Int /\ B \in Nat \ {0} /\ U \in Nat \ {0}
      /\ n \in 0..(B - 1) /\ n \in 0..(U - 1)
  BY TextConstants
<1> HIDE DEF B, U
<1>2. n = B * 0 + n
  BY <1>1
<1>3. n % B = n /\ n \div B = 0
  <2>1. 0 \in Int
    OBVIOUS
  <2> QED BY <1>1, <1>2, <2>1, ModUnique
<1>4. n % U = n
  BY <1>1, ModSmall
<1> QED BY <1>3, <1>4 DEF field_to_usize, B, U

\* A length is a number.
LEMMA UsizeType ==
  ASSUME NEW x \in Fq
  PROVE  field_to_usize(x) \in Nat
<1>1. x \in Nat /\ LimbBase \in Nat \ {0} /\ UsizeBase \in Nat \ {0}
  BY PrimeTypes, TextConstants
<1> DEFINE y == x % LimbBase
<1>2. y \in Nat
  BY <1>1, DivNat
<1> HIDE DEF y
<1>3. y % UsizeBase \in 0..(UsizeBase - 1)
  BY <1>1, <1>2, DivNat
<1> QED BY <1>1, <1>3 DEF field_to_usize, y

\* The padded bytes of a stream are the low digits of its elements.
LEMMA PaddedBytesAre ==
  ASSUME NEW s \in Seq(Fq), Len(s) = FIELD_COUNT
  PROVE  /\ padded_bytes(s) \in Paddings
         /\ \A c \in 1..Chunks, j \in 1..ChunkBytes :
               /\ s[c + 1] \in Fq
               /\ padded_bytes(s)[At(c, j)] = field_to_be(s[c + 1])[j + 1]
<1>0. ChunkBytes \in Nat /\ Chunks \in Nat /\ FIELD_COUNT = Chunks + 1
  BY TextConstants DEF FIELD_COUNT
<1>1. ASSUME NEW c \in 1..Chunks, NEW j \in 1..ChunkBytes
      PROVE  /\ s[c + 1] \in Fq /\ field_to_be(s[c + 1])[j + 1] \in Bytes
             /\ padded_bytes(s)[At(c, j)] = field_to_be(s[c + 1])[j + 1]
  <2>1. c + 1 \in 1..Len(s) /\ j \in 0..ChunkBytes
    BY <1>0
  <2>2. s[c + 1] \in Fq
    BY <2>1
  <2>3. s[c + 1] \in Nat
    BY <2>2, PrimeTypes
  <2>4. field_to_be(s[c + 1])[j + 1] \in Bytes
    BY <2>1, <2>3, DigitsAre
  <2> DEFINE i == At(c, j)
  <2>5. i \in 1..MAX_BYTES /\ (i - 1) \div ChunkBytes = c - 1 /\ (i - 1) % ChunkBytes = j - 1
    BY PositionIs
  <2> HIDE DEF i
  <2>6. padded_bytes(s)[i]
          = field_to_be(s[2 + ((i - 1) \div ChunkBytes)])[2 + ((i - 1) % ChunkBytes)]
    BY <2>5 DEF padded_bytes
  <2>7. 2 + (c - 1) = c + 1 /\ 2 + (j - 1) = j + 1
    BY <1>0
  <2>8. padded_bytes(s)[i] = field_to_be(s[c + 1])[j + 1]
    BY <2>5, <2>6, <2>7
  <2> QED BY <2>2, <2>4, <2>8 DEF i
<1>2. \A i \in 1..MAX_BYTES : padded_bytes(s)[i] \in Bytes
  BY <1>1, PositionOf
<1>3. padded_bytes(s) = [i \in 1..MAX_BYTES |-> padded_bytes(s)[i]]
  BY DEF padded_bytes
<1>4. padded_bytes(s) \in Paddings
  BY <1>2, <1>3 DEF Paddings
<1> QED BY <1>1, <1>4

\* What encode makes decodes to the text.
LEMMA TextRoundTrip ==
  ASSUME NEW input \in Seq(Bytes), Len(input) <= MAX_BYTES, from_utf8(input)
  PROVE  decode_text(Encoded(PaddedTo(input), Len(input))) = Ok(input)
<1> DEFINE pad == PaddedTo(input)
           n == Len(input)
           s == Encoded(pad, n)
<1>1. pad \in Paddings /\ n \in 0..MAX_BYTES /\ n \in Nat
  BY PaddedType, TextConstants
<1>2. \A i \in 1..MAX_BYTES : pad[i] = IF i <= n THEN input[i] ELSE 0
  BY DEF PaddedTo
<1> HIDE DEF pad
<1>3. /\ s \in Seq(Fq) /\ Len(s) = FIELD_COUNT /\ s[1] = n
      /\ \A c \in 1..Chunks : s[c + 1] = from_be_bytes_mod_order(ChunkOf(pad, c))
  BY <1>1, EncodedIs
<1> HIDE DEF s
<1>4. s[1] \div LimbBase = 0 /\ field_to_usize(s[1]) = n
  BY <1>1, <1>3, UsizeIs
<1>5. \A c \in 1..Chunks :
         /\ field_to_be(s[c + 1])[1] = 0
         /\ \A j \in 1..ChunkBytes : field_to_be(s[c + 1])[j + 1] = pad[At(c, j)]
  <2> TAKE c \in 1..Chunks
  <2> DEFINE bytes == ChunkOf(pad, c)
  <2>1. bytes \in Seq(Bytes) /\ Len(bytes) = ChunkBytes
        /\ \A j \in 1..ChunkBytes : bytes[j] = pad[At(c, j)]
    BY <1>1, ChunksAre
  <2>2. s[c + 1] = from_be_bytes_mod_order(bytes)
    BY <1>3
  <2> HIDE DEF bytes
  <2> QED BY <2>1, <2>2, ChunkIs
<1>6. validate_structural(s)
  <2>1. \A i \in 2..FIELD_COUNT : i - 1 \in 1..Chunks /\ (i - 1) + 1 = i
    BY TextConstants DEF FIELD_COUNT
  <2>2. \A i \in 2..FIELD_COUNT : field_to_be(s[i])[1] = 0
    BY <1>5, <2>1
  <2> QED BY <1>1, <1>3, <1>4, <2>2 DEF validate_structural
<1>7. padded_bytes(s) = pad
  <2>1. padded_bytes(s) \in Paddings
    BY <1>3, PaddedBytesAre
  <2>2. \A i \in 1..MAX_BYTES : padded_bytes(s)[i] = pad[i]
    <3> TAKE i \in 1..MAX_BYTES
    <3>1. PICK c \in 1..Chunks, j \in 1..ChunkBytes : i = At(c, j)
      BY PositionOf
    <3> QED BY <1>3, <1>5, <3>1, PaddedBytesAre
  <2> DEFINE b == padded_bytes(s)
  <2> HIDE DEF b
  <2>3. b \in [1..MAX_BYTES -> Bytes] /\ pad \in [1..MAX_BYTES -> Bytes]
        /\ \A i \in 1..MAX_BYTES : b[i] = pad[i]
    BY <1>1, <2>1, <2>2 DEF Paddings, b
  <2>4. b = [i \in 1..MAX_BYTES |-> b[i]] /\ pad = [i \in 1..MAX_BYTES |-> pad[i]]
    BY <2>3
  <2>5. b = pad
    BY <2>3, <2>4
  <2> QED BY <2>5 DEF b
<1>8. SubSeq(pad, 1, n) = input
  <2>1. \A i \in 1..n : i \in 1..MAX_BYTES /\ i <= n
    <3>1. MAX_BYTES \in Nat /\ n <= MAX_BYTES /\ n \in Nat
      BY <1>1, TextConstants
    <3> HIDE DEF n
    <3> QED BY <3>1
  <2>2. \A i \in 1..n : pad[i] = input[i]
    BY <1>2, <2>1
  <2>3. SubSeq(pad, 1, n) = [i \in 1..n |-> pad[i]]
    BY <1>1
  <2>4. input = [i \in 1..n |-> input[i]]
    OBVIOUS
  <2> QED BY <2>2, <2>3, <2>4
<1>9. \A i \in (n + 1)..MAX_BYTES : pad[i] = 0
  <2>1. \A i \in (n + 1)..MAX_BYTES : i \in 1..MAX_BYTES /\ ~(i <= n)
    BY <1>1, TextConstants
  <2> QED BY <1>2, <2>1
<1>10. decode_text(s) = Ok(input)
  BY <1>4, <1>6, <1>7, <1>8, <1>9 DEF decode_text
<1> QED BY <1>10 DEF s, pad

\* What decodes is what encode makes of the text, once the prefix is a usize.
LEMMA StreamRoundTrip ==
  ASSUME NEW s \in Seq(Fq), decode_text(s).ok
  PROVE  LET made == encode_text(decode_text(s).value)
         IN  /\ s[1] < UsizeBase => made = Ok(s)
             /\ made = Ok([s EXCEPT ![1] = field_to_usize(s[1])])
             /\ s[1] < LimbBase
<1> DEFINE n == field_to_usize(s[1])
           pad == padded_bytes(s)
           bytes == SubSeq(pad, 1, n)
<1>1. decode_text(s)
        = IF ~validate_structural(s) THEN Err("StructuralInvalid")
          ELSE IF \E i \in (n + 1)..MAX_BYTES : pad[i] # 0 THEN Err("StructuralInvalid")
          ELSE IF ~from_utf8(bytes) THEN Err("SemanticInvalid") ELSE Ok(bytes)
  BY DEF decode_text
<1>2. /\ validate_structural(s) /\ from_utf8(bytes) /\ decode_text(s) = Ok(bytes)
      /\ \A i \in (n + 1)..MAX_BYTES : pad[i] = 0
  <2> HIDE DEF n, pad, bytes
  <2> QED BY <1>1, ResultParts
<1>3. /\ Len(s) = FIELD_COUNT /\ n <= MAX_BYTES
      /\ \A i \in 2..FIELD_COUNT : field_to_be(s[i])[1] = 0
  BY <1>2 DEF validate_structural
<1>4. FIELD_COUNT = Chunks + 1 /\ Chunks \in Nat \ {0} /\ MAX_BYTES \in Nat
  BY TextConstants DEF FIELD_COUNT
<1>5. n \in Nat /\ n \in 0..MAX_BYTES
  <2>1. s[1] \in Fq
    BY <1>3, <1>4
  <2>2. n \in Nat
    BY <2>1, UsizeType
  <2> HIDE DEF n
  <2> QED BY <1>3, <1>4, <2>2
<1>6. pad \in Paddings
  BY <1>3, PaddedBytesAre
<1> HIDE DEF n, pad
<1>7. bytes \in Seq(Bytes) /\ Len(bytes) = n /\ bytes = [i \in 1..n |-> pad[i]]
  <2>1. bytes = [i \in 1..n |-> pad[i]]
    BY <1>5
  <2>2. \A i \in 1..n : pad[i] \in Bytes
    BY <1>4, <1>5, <1>6 DEF Paddings
  <2> QED BY <1>5, <2>1, <2>2
<1> HIDE DEF bytes
<1>8. PaddedTo(bytes) = pad
  <2>1. \A i \in 1..MAX_BYTES : (IF i <= Len(bytes) THEN bytes[i] ELSE 0) = pad[i]
    <3> TAKE i \in 1..MAX_BYTES
    <3>1. CASE i <= n
      <4>1. i \in 1..n
        BY <1>5, <3>1
      <4> QED BY <1>7, <3>1, <4>1
    <3>2. CASE ~(i <= n)
      <4>1. i \in (n + 1)..MAX_BYTES
        BY <1>4, <1>5, <3>2
      <4> QED BY <1>2, <1>7, <3>2, <4>1
    <3> QED BY <3>1, <3>2
  <2> QED BY <1>6, <2>1 DEF PaddedTo, Paddings
<1>9. encode_text(bytes) = Ok(Encoded(pad, n)) /\ encode_text(bytes).ok
  <2>1. Len(bytes) <= MAX_BYTES
    BY <1>3, <1>7
  <2>2. encode_text(bytes).ok
    BY <1>2, <1>7, <2>1, EncodeIs
  <2> QED BY <1>7, <1>8, <2>2, EncodeIs
<1>10. \A c \in 1..Chunks : from_be_bytes_mod_order(ChunkOf(pad, c)) = s[c + 1]
  <2> TAKE c \in 1..Chunks
  <2> DEFINE chunk == ChunkOf(pad, c)
             x == s[c + 1]
  <2>1. chunk \in Seq(Bytes) /\ Len(chunk) = ChunkBytes
        /\ \A j \in 1..ChunkBytes : chunk[j] = pad[At(c, j)]
    BY <1>6, ChunksAre
  <2>2. x \in Fq
    BY <1>3, <1>4
  <2>3. \A j \in 1..ChunkBytes : pad[At(c, j)] = field_to_be(x)[j + 1]
    BY <1>3, PaddedBytesAre DEF pad
  <2>4. field_to_be(x)[1] = 0
    <3>1. c + 1 \in 2..FIELD_COUNT
      BY <1>4
    <3> QED BY <1>3, <3>1
  <2> HIDE DEF chunk, x
  <2>5. from_be_bytes_mod_order(chunk) = x
    BY <2>1, <2>2, <2>3, <2>4, ChunkBack
  <2> QED BY <2>5 DEF chunk, x
<1>11. Encoded(pad, n) = [s EXCEPT ![1] = n]
  <2> DEFINE e == Encoded(pad, n)
             t == [s EXCEPT ![1] = n]
  <2>1. /\ e \in Seq(Fq) /\ Len(e) = FIELD_COUNT /\ e[1] = n
        /\ \A c \in 1..Chunks : e[c + 1] = from_be_bytes_mod_order(ChunkOf(pad, c))
    BY <1>5, <1>6, EncodedIs
  <2>2. t = [i \in 1..FIELD_COUNT |-> IF i = 1 THEN n ELSE s[i]]
    <3>1. DOMAIN s = 1..FIELD_COUNT
      BY <1>3
    <3> QED BY <3>1
  <2> HIDE DEF e, t
  <2>3. \A i \in 1..FIELD_COUNT : e[i] = IF i = 1 THEN n ELSE s[i]
    <3> TAKE i \in 1..FIELD_COUNT
    <3>1. CASE i = 1
      BY <2>1, <3>1
    <3>2. CASE i # 1
      <4>1. i - 1 \in 1..Chunks /\ (i - 1) + 1 = i
        BY <1>4, <3>2
      <4> QED BY <1>10, <2>1, <3>2, <4>1
    <3> QED BY <3>1, <3>2
  <2>4. e = [i \in 1..FIELD_COUNT |-> e[i]]
    BY <2>1
  <2>5. e = t
    BY <2>2, <2>3, <2>4
  <2> QED BY <2>5 DEF e, t
<1>12. s[1] \in Nat /\ s[1] < LimbBase
  <2>1. s[1] \in Nat /\ LimbBase \in Nat \ {0}
    BY <1>3, <1>4, PrimeTypes, TextConstants
  <2>2. s[1] \div LimbBase = 0
    BY <1>2 DEF validate_structural
  <2> DEFINE B == LimbBase
             x == s[1]
  <2> HIDE DEF B, x
  <2>3. x = (x \div B) * B + (x % B) /\ (x % B) \in 0..(B - 1)
    BY <2>1, DivNat DEF B, x
  <2>4. x \div B = 0 /\ B \in Nat /\ x \in Nat
    BY <2>1, <2>2 DEF B, x
  <2>5. 0 * B = 0
    BY <2>4
  <2>6. x = x % B
    <3> DEFINE y == x % B
    <3>1. x = 0 * B + y /\ y \in 0..(B - 1)
      BY <2>3, <2>4
    <3> HIDE DEF y
    <3>2. x = y
      BY <2>4, <2>5, <3>1
    <3> QED BY <3>2 DEF y
  <2>7. x < B
    <3> DEFINE y == x % B
    <3>1. x = y /\ y \in 0..(B - 1)
      BY <2>3, <2>6
    <3> HIDE DEF y
    <3> QED BY <2>4, <3>1
  <2> QED BY <2>4, <2>7 DEF B, x
<1>13. s[1] < UsizeBase => n = s[1]
  <2>1. s[1] \in 0..(LimbBase - 1) /\ s[1] % LimbBase = s[1]
    BY <1>12, ModSmall, TextConstants
  <2>2. ASSUME s[1] < UsizeBase PROVE s[1] % UsizeBase = s[1]
    <3>1. s[1] \in 0..(UsizeBase - 1) /\ UsizeBase \in Nat \ {0}
      BY <1>12, <2>2, TextConstants
    <3> QED BY <3>1, ModSmall
  <2> QED BY <2>1, <2>2 DEF n, field_to_usize
<1>14. [s EXCEPT ![1] = s[1]] = s
  BY <1>3
<1> QED BY <1>2, <1>9, <1>11, <1>12, <1>13, <1>14, ResultParts DEF n

\* The same for payloads.
LEMMA PayloadEncoded ==
  ASSUME NEW input \in Texts, payload_encode(input).ok
  PROVE  LET made == payload_encode(input).value
         IN  /\ payload_decode(made) = Ok(input)
             /\ text_utf8_v1_decode(made.stream) = Ok(input)
<1> DEFINE s == Encoded(PaddedTo(input), Len(input))
           made == [encoding_id |-> text_utf8_v1_id, stream |-> s]
<1>1. input \in Seq(Bytes)
  BY BindingsAssumption
<1>2. encode_text(input).ok
  BY ResultParts DEF payload_encode
<1>3. Len(input) <= MAX_BYTES /\ from_utf8(input) /\ encode_text(input) = Ok(s)
  BY <1>1, <1>2, EncodeIs
<1>4. s \in Seq(Fq) /\ decode_text(s) = Ok(input)
  <2>1. PaddedTo(input) \in Paddings /\ Len(input) \in 0..MAX_BYTES
    BY <1>1, <1>3, PaddedType, TextConstants
  <2> QED BY <1>1, <1>3, <2>1, EncodedIs, TextRoundTrip
<1> HIDE DEF s
<1>5. payload_encode(input) = Ok(made)
  BY <1>3, ResultParts DEF payload_encode
<1>6. payload_decode(made) = Ok(input)
  BY <1>4 DEF payload_decode
<1>7. text_utf8_v1_decode(s) = Ok(input)
  BY <1>4, FieldTexts, ResultParts DEF text_utf8_v1_decode
<1>8. made.stream = s
  OBVIOUS
<1> HIDE DEF made
<1> QED BY <1>5, <1>6, <1>7, <1>8, ResultParts

\* And for the texts of a stream.
LEMMA TextDecoded ==
  ASSUME NEW texts \in TextStreams, text_utf8_v1_decode(texts).ok
  PROVE  LET stream == decimals_to_fields(texts).value
             made == encode_text(text_utf8_v1_decode(texts).value)
         IN  /\ stream[1] < UsizeBase => made = Ok(stream)
             /\ made = Ok([i \in DOMAIN stream |->
                            IF i = 1 THEN field_to_usize(stream[1]) ELSE stream[i]])
             /\ stream[1] < LimbBase
<1> DEFINE s == FieldsOf(texts)
<1>1. texts \in Seq(Int)
  BY BindingsAssumption
<1>2. decimals_to_fields(texts).ok
  BY DEF text_utf8_v1_decode
<1>3. decimals_to_fields(texts) = Ok(s) /\ s \in Seq(Fq)
  BY <1>1, <1>2, DecimalsAre, FieldsAre
<1> HIDE DEF s
<1>4. text_utf8_v1_decode(texts) = decode_text(s)
  BY <1>3, ResultParts DEF text_utf8_v1_decode
<1>5. decimals_to_fields(texts).value = s /\ decode_text(s).ok
  BY <1>3, <1>4, ResultParts
<1>6. [s EXCEPT ![1] = field_to_usize(s[1])]
        = [i \in DOMAIN s |-> IF i = 1 THEN field_to_usize(s[1]) ELSE s[i]]
  OBVIOUS
<1> QED BY <1>3, <1>4, <1>5, <1>6, StreamRoundTrip

\* A payload decodes under its encoding, as its stream does.
LEMMA PayloadDecoded ==
  ASSUME NEW id, NEW stream \in Seq(Fq),
         payload_decode([encoding_id |-> id, stream |-> stream]).ok
  PROVE  /\ id = text_utf8_v1_id
         /\ payload_decode([encoding_id |-> id, stream |-> stream])
              = text_utf8_v1_decode(stream)
<1>1. payload_decode([encoding_id |-> id, stream |-> stream])
        = IF id # text_utf8_v1_id THEN Err("WrongEncoding") ELSE decode_text(stream)
  BY DEF payload_decode
<1>2. text_utf8_v1_decode(stream) = decode_text(stream)
  BY FieldTexts, ResultParts DEF text_utf8_v1_decode
<1> QED BY <1>1, <1>2, ResultParts

\* decode inverts encode on all texts, and a stream that decodes is the one encode
\* makes of the text, if its prefix is a usize, and else once the prefix is cut to one.
THEOREM TextsDecode == Spec => []TextDecodesItself
<1>1. Init => TextDecodesItself
  BY DEF Init, NoCall, TextDecodesItself, Accepted, IsCall
<1>2. TextDecodesItself /\ [Next]_call => TextDecodesItself'
  <2> SUFFICES ASSUME TextDecodesItself, [Next]_call PROVE TextDecodesItself'
    OBVIOUS
  <2>1. CASE UNCHANGED call
    BY <2>1 DEF TextDecodesItself, Accepted, IsCall
  <2>2. CASE Next
    <3>1. CASE call'.fn = "payload_encode"
      <4>1. PICK b \in Texts :
               call' = [fn |-> "payload_encode", args |-> <<b>>, reply |-> payload_encode(b)]
        BY <2>2, <3>1, Origins DEF TextEncode, Called
      <4>2. call'.args[1] = b /\ call'.reply = payload_encode(b)
        BY <4>1
      <4> QED BY <3>1, <4>2, PayloadEncoded DEF TextDecodesItself, Accepted, IsCall
    <3>2. CASE call'.fn = "text_utf8_v1_decode"
      <4>1. PICK texts \in TextStreams :
               call' = [fn |-> "text_utf8_v1_decode", args |-> <<texts>>,
                        reply |-> text_utf8_v1_decode(texts)]
        BY <2>2, <3>2, Origins DEF TextDecode, Called
      <4>2. call'.args[1] = texts /\ call'.reply = text_utf8_v1_decode(texts)
        BY <4>1
      <4> QED BY <3>2, <4>2, TextDecoded DEF TextDecodesItself, Accepted, IsCall
    <3>3. CASE call'.fn = "payload_decode"
      <4>1. PICK id \in {0, text_utf8_v1_id},
                 stream \in {t \in TextStreams : \A i \in DOMAIN t : t[i] \in Fq} :
               call' = [fn |-> "payload_decode",
                        args |-> <<[encoding_id |-> id, stream |-> stream]>>,
                        reply |-> payload_decode([encoding_id |-> id, stream |-> stream])]
        BY <2>2, <3>3, Origins DEF PayloadDecode, Called
      <4>2. stream \in Seq(Fq)
        <5>1. stream \in Seq(Int) /\ \A i \in 1..Len(stream) : stream[i] \in Fq
          BY BindingsAssumption
        <5> QED BY <5>1
      <4> DEFINE payload == [encoding_id |-> id, stream |-> stream]
      <4>3. /\ call'.args[1] = payload /\ call'.reply = payload_decode(payload)
            /\ payload.encoding_id = id /\ payload.stream = stream
        BY <4>1
      <4> HIDE DEF payload
      <4>4. call'.reply.ok => id = text_utf8_v1_id /\ call'.reply = text_utf8_v1_decode(stream)
        BY <4>2, <4>3, PayloadDecoded DEF payload
      <4> QED BY <3>3, <4>3, <4>4 DEF TextDecodesItself, Accepted, IsCall
    <3> QED BY <3>1, <3>2, <3>3 DEF TextDecodesItself, Accepted, IsCall
  <2> QED BY <2>1, <2>2
<1> QED BY <1>1, <1>2, PTL DEF Spec

\* Where a usize has the 64 bits of a limb the encoding is a bijection: no second
\* stream decodes to a text.
THEOREM StreamsUnique ==
  ASSUME UsizeBase = LimbBase
  PROVE  Spec => []DecodeIsBijection
<1>1. Init => DecodeIsBijection
  BY DEF Init, NoCall, DecodeIsBijection, Accepted, IsCall
<1>2. DecodeIsBijection /\ [Next]_call => DecodeIsBijection'
  <2> SUFFICES ASSUME DecodeIsBijection, [Next]_call PROVE DecodeIsBijection'
    OBVIOUS
  <2>1. CASE UNCHANGED call
    BY <2>1 DEF DecodeIsBijection, Accepted, IsCall
  <2>2. CASE Next
    <3>1. CASE call'.fn = "text_utf8_v1_decode"
      <4>1. PICK texts \in TextStreams :
               call' = [fn |-> "text_utf8_v1_decode", args |-> <<texts>>,
                        reply |-> text_utf8_v1_decode(texts)]
        BY <2>2, <3>1, Origins DEF TextDecode, Called
      <4>2. call'.args[1] = texts /\ call'.reply = text_utf8_v1_decode(texts)
        BY <4>1
      <4> QED BY <3>1, <4>2, TextDecoded DEF DecodeIsBijection, Accepted, IsCall
    <3> QED BY <3>1 DEF DecodeIsBijection, Accepted, IsCall
  <2> QED BY <2>1, <2>2
<1> QED BY <1>1, <1>2, PTL DEF Spec

=============================================================================
