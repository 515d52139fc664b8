----------------------------- MODULE Generators -----------------------------
(***************************************************************************)
(* g_generator of crates/crypto/src/babyjub/pedersen.rs: the process-wide  *)
(* table of Pedersen value generators behind a reader-writer lock, filled  *)
(* on demand by whichever thread first needs an index.  The table is read  *)
(* under one guard and filled under another, and it may have grown between *)
(* the two.  The generator derived at an index is opaque.                  *)
(***************************************************************************)
EXTENDS Integers, Sequences

CONSTANTS
  Threads,   \* threads that compute commitments
  Limit      \* derive_g_at refuses indices from here on

ASSUME GeneratorsAssumption == Limit \in Nat

VARIABLES
  table,     \* G_TABLE: the generators of the indices 0, 1, ..., in order
  readers,   \* threads that hold the read guard
  writer,    \* the thread that holds the write guard, as a set
  pc,        \* thread -> where its call of g_generator is
  i,         \* thread -> the index it was called with
  g          \* thread -> the generator it holds; the result once it returned

vars == <<table, readers, writer, pc, i, g>>

Indices == 0..Limit

Phases == {"none", "called", "reading", "missed", "derived", "waiting",
           "filling", "returned", "panicked"}

derive_g_at(n) == [generator |-> n]

\* Before the first call i and g hold nothing of interest.
Init ==
  /\ table = <<>>
  /\ readers = {}
  /\ writer = {}
  /\ pc = [t \in Threads |-> "none"]
  /\ i = [t \in Threads |-> 0]
  /\ g = [t \in Threads |-> derive_g_at(0)]

Call(t, n) ==
  /\ pc[t] \in {"none", "returned"}
  /\ pc' = [pc EXCEPT ![t] = "called"]
  /\ i' = [i EXCEPT ![t] = n]
  /\ UNCHANGED <<table, readers, writer, g>>

\* std's futex lock lets no new reader in while a writer waits.
Read(t) ==
  /\ pc[t] = "called"
  /\ writer = {}
  /\ \A u \in Threads : pc[u] # "waiting"
  /\ readers' = readers \cup {t}
  /\ pc' = [pc EXCEPT ![t] = "reading"]
  /\ UNCHANGED <<table, writer, i, g>>

Hit(t) ==
  /\ pc[t] = "reading"
  /\ i[t] < Len(table)
  /\ readers' = readers \ {t}
  /\ pc' = [pc EXCEPT ![t] = "returned"]
  /\ g' = [g EXCEPT ![t] = table[i[t] + 1]]
  /\ UNCHANGED <<table, writer, i>>

\* Faulty variant: the read guard outlives the lookup.
MissHoldingGuard(t) ==
  /\ pc[t] = "reading"
  /\ i[t] >= Len(table)
  /\ pc' = [pc EXCEPT ![t] = "missed"]
  /\ UNCHANGED <<table, readers, writer, i, g>>

Miss(t) ==
  /\ pc[t] = "reading"
  /\ i[t] >= Len(table)
  /\ readers' = readers \ {t}
  /\ pc' = [pc EXCEPT ![t] = "missed"]
  /\ UNCHANGED <<table, writer, i, g>>

\* The thread's own generator is derived with no guard held, so an index out
\* of range panics before there is a lock to poison.
Derive(t) ==
  /\ pc[t] = "missed"
  /\ IF i[t] < Limit
       THEN /\ pc' = [pc EXCEPT ![t] = "derived"]
            /\ g' = [g EXCEPT ![t] = derive_g_at(i[t])]
       ELSE pc' = [pc EXCEPT ![t] = "panicked"] /\ UNCHANGED g
  /\ UNCHANGED <<table, readers, writer, i>>

AskToWrite(t) ==
  /\ pc[t] = "derived"
  /\ pc' = [pc EXCEPT ![t] = "waiting"]
  /\ UNCHANGED <<table, readers, writer, i, g>>

Write(t) ==
  /\ pc[t] = "waiting"
  /\ writer = {} /\ readers = {}
  /\ writer' = {t}
  /\ pc' = [pc EXCEPT ![t] = "filling"]
  /\ UNCHANGED <<table, readers, i, g>>

\* Faulty variants: the thread's own generator pushed at whatever index comes
\* next, and a resize to the length the thread needs, which also shortens.
PushOwn(t) ==
  /\ pc[t] = "filling"
  /\ Len(table) <= i[t]
  /\ table' = Append(table, g[t])
  /\ UNCHANGED <<readers, writer, pc, i, g>>

PushResize(t) ==
  /\ pc[t] = "filling"
  /\ Len(table) # i[t] + 1
  /\ table' = [k \in 1..(i[t] + 1) |-> derive_g_at(k - 1)]
  /\ UNCHANGED <<readers, writer, pc, i, g>>

\* One round of the loop that fills the table up to the index.
Push(t) ==
  /\ pc[t] = "filling"
  /\ Len(table) <= i[t]
  /\ table' = Append(table, IF Len(table) = i[t] THEN g[t] ELSE derive_g_at(Len(table)))
  /\ UNCHANGED <<readers, writer, pc, i, g>>

\* Faulty variant: the last generator taken for the one asked for.
ReturnLast(t) ==
  /\ pc[t] = "filling"
  /\ Len(table) > i[t]
  /\ writer' = {}
  /\ pc' = [pc EXCEPT ![t] = "returned"]
  /\ g' = [g EXCEPT ![t] = table[Len(table)]]
  /\ UNCHANGED <<table, readers, i>>

Return(t) ==
  /\ pc[t] = "filling"
  /\ Len(table) > i[t]
  /\ writer' = {}
  /\ pc' = [pc EXCEPT ![t] = "returned"]
  /\ g' = [g EXCEPT ![t] = table[i[t] + 1]]
  /\ UNCHANGED <<table, readers, i>>

Progress(t) ==
  \/ Read(t) \/ Hit(t) \/ Miss(t) \/ Derive(t)
  \/ AskToWrite(t) \/ Write(t) \/ Push(t) \/ Return(t)

Next == \E t \in Threads : Progress(t) \/ \E n \in Indices : Call(t, n)

\* Each thread is scheduled.  The lock promises a waiting thread nothing, but
\* an index is missed only finitely often, so writers run out.
Fairness == \A t \in Threads : WF_vars(Progress(t))

Spec == Init /\ [][Next]_vars /\ Fairness

-----------------------------------------------------------------------------
\* Whatever threads extended the table, in whatever interleaving, index i
\* holds G_i: two commitments to one stream are the same point.
TableRight == \A k \in DOMAIN table : table[k] = derive_g_at(k - 1)

\* Every call returns the generator of the index it was asked for.
ResultsRight ==
  \A t \in Threads : pc[t] = "returned" => g[t] = derive_g_at(i[t])

\* A generator that was once in the table stays where it is.
TableOnlyGrows ==
  [][/\ Len(table) <= Len(table')
     /\ \A k \in DOMAIN table : table'[k] = table[k]]_table

\* Every call ends: with a generator, or with the panic of an index out of
\* range.  No thread waits for a guard it holds itself.
CallsEnd ==
  \A t \in Threads :
    pc[t] = "called" ~> pc[t] \in {"returned", "panicked"}

=============================================================================
