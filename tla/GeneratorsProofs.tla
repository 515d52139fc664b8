-------------------------- MODULE GeneratorsProofs --------------------------
(***************************************************************************)
(* The generator table is right for any number of threads and any limit.   *)
(***************************************************************************)
EXTENDS Generators, TLAPS

Generator == [generator : Nat]

\* Threads that carry the generator of their index, or have returned it.
Carries(t) == pc[t] \in {"derived", "waiting", "filling", "returned"}

\* The inductive invariant: the table is right, and what a thread derived
\* before it asked for the lock is still the generator of its index when it
\* gets it, because both depend on the index alone.
GeneratorsInv ==
  /\ table \in Seq(Generator)
  /\ pc \in [Threads -> Phases]
  /\ i \in [Threads -> Nat]
  /\ g \in [Threads -> Generator]
  /\ TableRight
  /\ \A t \in Threads : Carries(t) => g[t] = derive_g_at(i[t])

\* What a round of the loop appends is right, whoever runs it.
LEMMA PushRight ==
  ASSUME GeneratorsInv, NEW t \in Threads, Push(t)
  PROVE  table' \in Seq(Generator) /\ TableRight'
<1> DEFINE n == Len(table)
           e == IF n = i[t] THEN g[t] ELSE derive_g_at(n)
<1>1. n \in Nat /\ e = derive_g_at(n) /\ e \in Generator
  BY DEF GeneratorsInv, Push, Carries, derive_g_at, Generator
<1>2. table' = Append(table, e)
  BY DEF Push
<1>3. table' \in Seq(Generator) /\ Len(table') = n + 1
  BY <1>1, <1>2 DEF GeneratorsInv
<1>4. \A k \in 1..n : table'[k] = table[k]
  BY <1>1, <1>2 DEF GeneratorsInv
<1>5. table'[n + 1] = e
  BY <1>1, <1>2 DEF GeneratorsInv
<1> HIDE DEF e
<1>6. \A k \in 1..(n + 1) : table'[k] = derive_g_at(k - 1)
  <2>1. ASSUME NEW k \in 1..n PROVE table'[k] = derive_g_at(k - 1)
    <3>1. k \in DOMAIN table
      BY DEF GeneratorsInv
    <3>2. QED
      BY <1>4, <3>1 DEF GeneratorsInv, TableRight
  <2>2. table'[n + 1] = derive_g_at((n + 1) - 1)
    BY <1>1, <1>5
  <2>3. QED
    BY <1>1, <2>1, <2>2
<1>7. DOMAIN table' = 1..(n + 1)
  BY <1>3
<1>8. QED
  BY <1>3, <1>6, <1>7 DEF TableRight

\* The invariant holds before the first call.
LEMMA InitGeneratorsInv == Init => GeneratorsInv
  BY DEF Init, GeneratorsInv, TableRight, Carries, derive_g_at, Generator, Phases

\* Every step of every thread preserves the invariant.
LEMMA GeneratorsInvStep == GeneratorsInv /\ [Next]_vars => GeneratorsInv'
<1> SUFFICES ASSUME GeneratorsInv, [Next]_vars PROVE GeneratorsInv'
  OBVIOUS
<1> USE DEF GeneratorsInv
<1>1. ASSUME NEW t \in Threads, NEW n \in Indices, Call(t, n) PROVE GeneratorsInv'
  BY <1>1, GeneratorsAssumption DEF Call, Phases, Indices, TableRight, Carries
<1>2. ASSUME NEW t \in Threads, Read(t) PROVE GeneratorsInv'
  BY <1>2 DEF Read, Phases, TableRight, Carries
<1>3. ASSUME NEW t \in Threads, Hit(t) PROVE GeneratorsInv'
  <2>1. i[t] + 1 \in DOMAIN table /\ i[t] \in Nat
    BY <1>3 DEF Hit
  <2>2. table[i[t] + 1] = derive_g_at(i[t]) /\ table[i[t] + 1] \in Generator
    BY <2>1 DEF TableRight
  <2>3. QED
    BY <1>3, <2>2 DEF Hit, Phases, TableRight, Carries
<1>4. ASSUME NEW t \in Threads, Miss(t) PROVE GeneratorsInv'
  BY <1>4 DEF Miss, Phases, TableRight, Carries
<1>5. ASSUME NEW t \in Threads, Derive(t) PROVE GeneratorsInv'
  <2>1. derive_g_at(i[t]) \in Generator
    BY DEF derive_g_at, Generator
  <2>2. QED
    BY <1>5, <2>1 DEF Derive, Phases, TableRight, Carries
<1>6. ASSUME NEW t \in Threads, AskToWrite(t) PROVE GeneratorsInv'
  BY <1>6 DEF AskToWrite, Phases, TableRight, Carries
<1>7. ASSUME NEW t \in Threads, Write(t) PROVE GeneratorsInv'
  BY <1>7 DEF Write, Phases, TableRight, Carries
<1>8. ASSUME NEW t \in Threads, Push(t) PROVE GeneratorsInv'
  BY <1>8, PushRight DEF Push, Carries
<1>9. ASSUME NEW t \in Threads, Return(t) PROVE GeneratorsInv'
  <2>1. i[t] + 1 \in DOMAIN table /\ i[t] \in Nat
    BY <1>9 DEF Return
  <2>2. table[i[t] + 1] = derive_g_at(i[t]) /\ table[i[t] + 1] \in Generator
    BY <2>1 DEF TableRight
  <2>3. QED
    BY <1>9, <2>2 DEF Return, Phases, TableRight, Carries
<1>10. CASE UNCHANGED vars
  BY <1>10 DEF vars, TableRight, Carries
<1>11. QED
  BY <1>1, <1>2, <1>3, <1>4, <1>5, <1>6, <1>7, <1>8, <1>9, <1>10 DEF Next, Progress

\* The invariant holds throughout.
LEMMA GeneratorsInvariant == Spec => []GeneratorsInv
  BY InitGeneratorsInv, GeneratorsInvStep, PTL DEF Spec

\* Index i of the table holds G_i, whatever the threads do.
THEOREM TableCorrect == Spec => []TableRight
<1>1. GeneratorsInv => TableRight
  BY DEF GeneratorsInv
<1>2. QED
  BY <1>1, GeneratorsInvariant, PTL

\* A call returns the generator it was asked for.
THEOREM ResultsCorrect == Spec => []ResultsRight
<1>1. GeneratorsInv => ResultsRight
  BY DEF GeneratorsInv, ResultsRight, Carries
<1>2. QED
  BY <1>1, GeneratorsInvariant, PTL

\* No step moves or drops a generator of the table.
THEOREM TableKept == Spec => TableOnlyGrows
<1>1. GeneratorsInv /\ [Next]_vars =>
        [/\ Len(table) <= Len(table')
         /\ \A k \in DOMAIN table : table'[k] = table[k]]_table
  <2> SUFFICES ASSUME GeneratorsInv, [Next]_vars, table' # table
               PROVE  /\ Len(table) <= Len(table')
                      /\ \A k \in DOMAIN table : table'[k] = table[k]
    OBVIOUS
  <2>1. PICK t \in Threads : Push(t)
    BY DEF Next, Progress, vars, Call, Read, Hit, Miss, Derive, AskToWrite, Write, Return
  <2>2. PICK e : table' = Append(table, e)
    BY <2>1 DEF Push
  <2>3. QED
    BY <2>2 DEF GeneratorsInv
<1>2. QED
  BY <1>1, GeneratorsInvariant, PTL DEF Spec, TableOnlyGrows

=============================================================================
