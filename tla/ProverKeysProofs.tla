-------------------------- MODULE ProverKeysProofs --------------------------
(***************************************************************************)
(* Theorems about the key directory of the prover server, for any number   *)
(* of servers, circuits and faults.                                        *)
(***************************************************************************)
EXTENDS ProverKeys, TLAPS

USE ProverKeysAssumption

Files == CircuitIds \X Kinds

Contents == {Absent, Torn, DeployedSetup}

Phases == {"down", "failed", "checking", "reading pk", "reading vk", "setup",
           "opening pk", "writing pk", "opening vk", "writing vk", "serving"}

\* A file, and a key in memory, is missing, torn or of the deployed setup:
\* there is no other setup it could come from.
TypeOK ==
  /\ disk \in [Files -> Contents]
  /\ pc \in [Servers -> Phases]
  /\ at \in [Servers -> CircuitIds]
  /\ held \in [Servers -> [Files -> Contents]]
  /\ setups \in [CircuitIds -> Nat]
  /\ faults \in Nat

\* The keys of the circuits a server is done with are whole.
DoneWhole(s) ==
  pc[s] \notin {"down", "failed"} =>
    \A c \in CircuitIds, k \in Kinds : c < at[s] => held[s][<<c, k>>] = DeployedSetup

\* A pair that is being written is whole in memory.
WritingWhole(s) ==
  pc[s] \in {"opening pk", "writing pk", "opening vk", "writing vk"} =>
    \A k \in Kinds : held[s][<<at[s], k>>] = DeployedSetup

\* A server that serves has been through all circuits.
ServingWhole(s) ==
  pc[s] = "serving" => \A f \in Files : held[s][f] = DeployedSetup

IInv == TypeOK /\ \A s \in Servers : DoneWhole(s) /\ WritingWhole(s) /\ ServingWhole(s)

-----------------------------------------------------------------------------
\* The empty directory, with no server up.
LEMMA InitInv == Init => IInv
  BY DEF Init, IInv, TypeOK, Files, Contents, Phases, CircuitIds, DoneWhole,
         WritingWhole, ServingWhole

\* What one server does leaves the clauses of the others alone.
LEMMA OtherServers ==
  ASSUME IInv, NEW s \in Servers, NEW t \in Servers, t # s,
         pc'[t] = pc[t], at'[t] = at[t], held'[t] = held[t]
  PROVE  DoneWhole(t)' /\ WritingWhole(t)' /\ ServingWhole(t)'
<1>1. DoneWhole(t) /\ WritingWhole(t) /\ ServingWhole(t)
  BY DEF IInv
<1>2. DoneWhole(t)'
  BY <1>1 DEF DoneWhole
<1>3. WritingWhole(t)'
  BY <1>1 DEF WritingWhole
<1>4. ServingWhole(t)'
  BY <1>1 DEF ServingWhole
<1>5. QED
  BY <1>2, <1>3, <1>4

\* NextCircuit, once the pair of the current circuit is whole.
LEMMA NextCircuitWhole ==
  ASSUME IInv, NEW s \in Servers, NextCircuit(s), pc[s] \notin {"down", "failed"},
         held' \in [Servers -> [Files -> Contents]],
         \A c \in CircuitIds, k \in Kinds :
           c # at[s] => held'[s][<<c, k>>] = held[s][<<c, k>>],
         \A k \in Kinds : held'[s][<<at[s], k>>] = DeployedSetup
  PROVE  /\ pc' \in [Servers -> Phases] /\ at' \in [Servers -> CircuitIds]
         /\ DoneWhole(s)' /\ WritingWhole(s)' /\ ServingWhole(s)'
         /\ \A t \in Servers : t # s => pc'[t] = pc[t] /\ at'[t] = at[t]
<1>0. pc \in [Servers -> Phases] /\ at \in [Servers -> CircuitIds]
  BY DEF IInv, TypeOK
<1>1. at[s] \in 1..Circuits /\ Circuits \in Nat
  BY <1>0 DEF CircuitIds
<1>2. \A c \in CircuitIds, k \in Kinds : c <= at[s] => held'[s][<<c, k>>] = DeployedSetup
  BY <1>1 DEF IInv, DoneWhole, CircuitIds
<1>3. CASE at[s] < Circuits
  <2>1. pc'[s] = "checking" /\ at'[s] = at[s] + 1
    BY <1>3 DEF NextCircuit, Goto, IInv, TypeOK
  <2>2. DoneWhole(s)'
    BY <1>1, <1>2, <2>1 DEF DoneWhole, CircuitIds
  <2>3. pc' = [pc EXCEPT ![s] = "checking"] /\ at' = [at EXCEPT ![s] = at[s] + 1]
    BY <1>3 DEF NextCircuit, Goto
  <2>4. pc' \in [Servers -> Phases] /\ at' \in [Servers -> CircuitIds]
    <3>1. "checking" \in Phases /\ at[s] + 1 \in CircuitIds
      BY <1>1, <1>3 DEF CircuitIds, Phases
    <3>2. QED
      BY <1>0, <2>3, <3>1
  <2>5. WritingWhole(s)' /\ ServingWhole(s)'
    BY <2>1 DEF WritingWhole, ServingWhole
  <2>6. QED
    BY <1>0, <2>2, <2>3, <2>4, <2>5
<1>4. CASE ~(at[s] < Circuits)
  <2>1. pc'[s] = "serving" /\ at' = at
    BY <1>4 DEF NextCircuit, Goto, IInv, TypeOK
  <2>2. \A f \in Files : held'[s][f] = DeployedSetup
    <3>1. \A c \in CircuitIds : c <= at[s]
      BY <1>1, <1>4 DEF CircuitIds
    <3>2. QED
      BY <1>2, <3>1 DEF Files
  <2>3. pc' = [pc EXCEPT ![s] = "serving"] /\ at' = at
    BY <1>4 DEF NextCircuit, Goto
  <2>4. pc' \in [Servers -> Phases]
    BY <1>0, <2>3 DEF Phases
  <2>5. DoneWhole(s)' /\ WritingWhole(s)' /\ ServingWhole(s)'
    BY <2>1, <2>2 DEF DoneWhole, WritingWhole, ServingWhole, Files
  <2>6. QED
    BY <1>0, <2>3, <2>4, <2>5
<1>5. QED
  BY <1>3, <1>4

-----------------------------------------------------------------------------
\* Starting, crashing and failing only move the server, and forget its keys.
LEMMA StartStep ==
  ASSUME IInv, NEW s \in Servers, Start(s)
  PROVE  IInv'
<1>1. TypeOK'
  <2>1. [f \in CircuitIds \X Kinds |-> Absent] \in [Files -> Contents]
    BY DEF Files, Contents
  <2>2. at' \in [Servers -> CircuitIds]
    BY DEF IInv, TypeOK, Start, CircuitIds
  <2>3. pc' \in [Servers -> Phases]
    BY DEF IInv, TypeOK, Start, Goto, Phases
  <2>4. held' \in [Servers -> [Files -> Contents]]
    BY <2>1 DEF IInv, TypeOK, Start
  <2>5. QED
    BY <2>2, <2>3, <2>4 DEF IInv, TypeOK, Start
<1>2. pc'[s] = "checking" /\ at'[s] = 1
  BY DEF IInv, TypeOK, Start, Goto
<1>3. DoneWhole(s)' /\ WritingWhole(s)' /\ ServingWhole(s)'
  BY <1>2 DEF DoneWhole, WritingWhole, ServingWhole, CircuitIds
<1>4. \A t \in Servers : t # s => pc'[t] = pc[t] /\ at'[t] = at[t] /\ held'[t] = held[t]
  BY DEF IInv, TypeOK, Start, Goto
<1>5. QED
  BY <1>1, <1>3, <1>4, OtherServers DEF IInv

\* A server that stops, or goes from one phase to another without a change of
\* its circuit and its keys, and without ending in the middle of a write.
LEMMA PhaseStep ==
  ASSUME IInv, NEW s \in Servers, NEW phase \in Phases, Goto(s, phase),
         phase \in {"down", "failed"} \/ pc[s] \notin {"down", "failed"},
         phase \in {"opening pk", "writing pk", "opening vk", "writing vk"} =>
           pc[s] \in {"opening pk", "writing pk", "opening vk", "writing vk"},
         phase # "serving",
         disk' \in [Files -> Contents], UNCHANGED <<at, held, setups>>, faults' \in Nat
  PROVE  IInv'
<1>1. TypeOK'
  BY DEF IInv, TypeOK, Goto
<1>2. pc'[s] = phase
  BY DEF IInv, TypeOK, Goto
<1>3. DoneWhole(s)' /\ WritingWhole(s)' /\ ServingWhole(s)'
  BY <1>2 DEF IInv, DoneWhole, WritingWhole, ServingWhole
<1>4. \A t \in Servers : t # s => pc'[t] = pc[t] /\ at'[t] = at[t] /\ held'[t] = held[t]
  BY DEF IInv, TypeOK, Goto
<1>5. QED
  BY <1>1, <1>3, <1>4, OtherServers DEF IInv

\* What fs::write stores keeps the files what a file can be.
LEMMA StoreType ==
  ASSUME IInv, NEW s \in Servers, NEW k \in Kinds, NEW content \in Contents,
         Store(s, k, content)
  PROVE  disk' \in [Files -> Contents]
  BY DEF IInv, TypeOK, Store, Files

\* Reading the proving key: what is read may be torn, and is looked at later.
LEMMA ReadPkStep ==
  ASSUME IInv, NEW s \in Servers, ReadPk(s)
  PROVE  IInv'
<1>1. disk[<<at[s], "pk">>] \in Contents /\ <<at[s], "pk">> \in Files
  BY DEF IInv, TypeOK, Files, Kinds
<1>2. held' \in [Servers -> [Files -> Contents]]
  BY <1>1 DEF IInv, TypeOK, ReadPk, Hold
<1>3. \A c \in CircuitIds, k \in Kinds : c # at[s] => held'[s][<<c, k>>] = held[s][<<c, k>>]
  BY <1>1 DEF IInv, TypeOK, ReadPk, Hold, Files
<1>4. pc' \in [Servers -> Phases] /\ pc'[s] = "reading vk"
  BY DEF IInv, TypeOK, ReadPk, Goto, Phases
<1>5. DoneWhole(s)' /\ WritingWhole(s)' /\ ServingWhole(s)'
  <2>1. at' = at /\ pc[s] \notin {"down", "failed"}
    BY DEF ReadPk
  <2>2. \A c \in CircuitIds : c < at[s] => c # at[s]
    BY DEF IInv, TypeOK, CircuitIds
  <2>3. QED
    BY <1>3, <1>4, <2>1, <2>2 DEF IInv, DoneWhole, WritingWhole, ServingWhole
<1>6. \A t \in Servers : t # s => pc'[t] = pc[t] /\ at'[t] = at[t] /\ held'[t] = held[t]
  BY DEF IInv, TypeOK, ReadPk, Hold, Goto
<1>7. QED
  BY <1>2, <1>4, <1>5, <1>6, OtherServers DEF IInv, TypeOK, ReadPk

\* Reading the verifying key: a server goes on only with a whole pair, and a
\* whole key is of the deployed setup.
LEMMA ReadVkStep ==
  ASSUME IInv, NEW s \in Servers, ReadVk(s)
  PROVE  IInv'
<1> DEFINE file == <<at[s], "vk">>
<1>1. disk[file] \in Contents /\ file \in Files
  BY DEF IInv, TypeOK, Files, Kinds
<1>2. held' \in [Servers -> [Files -> Contents]]
  BY <1>1 DEF IInv, TypeOK, ReadVk, Hold
<1>3. \A c \in CircuitIds, k \in Kinds :
        <<c, k>> # file => held'[s][<<c, k>>] = held[s][<<c, k>>]
  BY <1>1 DEF IInv, TypeOK, ReadVk, Hold, Files
<1>4. held'[s][file] = disk[file]
  BY <1>1 DEF IInv, TypeOK, ReadVk, Hold
<1>5. \A t \in Servers : t # s => held'[t] = held[t]
  BY DEF IInv, TypeOK, ReadVk, Hold
<1>6. pc[s] = "reading vk" /\ UNCHANGED <<disk, setups, faults>>
  BY DEF ReadVk
<1>7. CASE {held[s][<<at[s], "pk">>], disk[file]} \cap {Absent, Torn} = {}
  <2>1. NextCircuit(s)
    BY <1>7 DEF ReadVk
  <2>2. \A k \in Kinds : held'[s][<<at[s], k>>] = DeployedSetup
    <3>1. held[s][<<at[s], "pk">>] \in Contents
      BY DEF IInv, TypeOK, Files, Kinds
    <3>2. held[s][<<at[s], "pk">>] = DeployedSetup /\ disk[file] = DeployedSetup
      BY <1>1, <1>7, <3>1 DEF Contents
    <3>3. held'[s][<<at[s], "pk">>] = held[s][<<at[s], "pk">>]
      BY <1>3 DEF IInv, TypeOK, Kinds
    <3>4. QED
      BY <1>4, <3>2, <3>3 DEF Kinds
  <2>3. \A c \in CircuitIds, k \in Kinds :
          c # at[s] => held'[s][<<c, k>>] = held[s][<<c, k>>]
    BY <1>3
  <2>4. /\ pc' \in [Servers -> Phases] /\ at' \in [Servers -> CircuitIds]
        /\ DoneWhole(s)' /\ WritingWhole(s)' /\ ServingWhole(s)'
        /\ \A t \in Servers : t # s => pc'[t] = pc[t] /\ at'[t] = at[t]
    BY <1>2, <1>6, <2>1, <2>2, <2>3, NextCircuitWhole
  <2>5. QED
    BY <1>2, <1>5, <1>6, <2>4, OtherServers DEF IInv, TypeOK
<1>8. CASE ~({held[s][<<at[s], "pk">>], disk[file]} \cap {Absent, Torn} = {})
  <2>1. Goto(s, "failed") /\ at' = at
    BY <1>8 DEF ReadVk
  <2>2. pc' \in [Servers -> Phases] /\ pc'[s] = "failed"
    BY <2>1 DEF IInv, TypeOK, Goto, Phases
  <2>3. DoneWhole(s)' /\ WritingWhole(s)' /\ ServingWhole(s)'
    BY <2>2 DEF DoneWhole, WritingWhole, ServingWhole
  <2>4. \A t \in Servers : t # s => pc'[t] = pc[t] /\ at'[t] = at[t]
    BY <2>1 DEF IInv, TypeOK, Goto
  <2>5. QED
    BY <1>2, <1>5, <1>6, <2>1, <2>2, <2>3, <2>4, OtherServers DEF IInv, TypeOK
<1>9. QED
  BY <1>7, <1>8

\* The trusted setup of the current circuit puts a whole pair in memory.
LEMMA SetupStep ==
  ASSUME IInv, NEW s \in Servers, Setup(s)
  PROVE  IInv'
<1>1. /\ pc[s] = "setup" /\ UNCHANGED <<disk, at, faults>>
      /\ held' = [held EXCEPT ![s][<<at[s], "pk">>] = DeployedSetup,
                              ![s][<<at[s], "vk">>] = DeployedSetup]
  BY DEF Setup, setup_rng
<1>2. /\ <<at[s], "pk">> \in Files /\ <<at[s], "vk">> \in Files
      /\ DeployedSetup \in Contents /\ held[s] \in [Files -> Contents]
  BY DEF IInv, TypeOK, Files, Kinds, Contents
<1>3. held'[s] = [held[s] EXCEPT ![<<at[s], "pk">>] = DeployedSetup,
                                 ![<<at[s], "vk">>] = DeployedSetup]
  BY <1>1 DEF IInv, TypeOK
<1>4. \A t \in Servers : t # s => held'[t] = held[t]
  BY <1>1 DEF IInv, TypeOK
<1>5. held' \in [Servers -> [Files -> Contents]]
  <2>1. held'[s] \in [Files -> Contents]
    BY <1>2, <1>3
  <2>2. QED
    BY <1>1, <1>4, <2>1 DEF IInv, TypeOK
<1>6. pc' \in [Servers -> Phases] /\ pc'[s] = "opening pk"
  BY DEF IInv, TypeOK, Setup, Goto, Phases
<1>7. setups' \in [CircuitIds -> Nat]
  <2>1. setups \in [CircuitIds -> Nat] /\ setups[at[s]] + 1 \in Nat
    BY DEF IInv, TypeOK
  <2>2. setups' = [setups EXCEPT ![at[s]] = setups[at[s]] + 1]
    BY DEF Setup
  <2>3. QED
    BY <2>1, <2>2
<1>8. WritingWhole(s)'
  BY <1>1, <1>2, <1>3 DEF WritingWhole, Kinds
<1>9. DoneWhole(s)'
  <2> SUFFICES ASSUME NEW c \in CircuitIds, NEW k \in Kinds, c < at[s]
               PROVE  held'[s][<<c, k>>] = DeployedSetup
    BY <1>1 DEF DoneWhole
  <2>1. held[s][<<c, k>>] = DeployedSetup
    BY <1>1 DEF IInv, DoneWhole
  <2>2. c # at[s] /\ <<c, k>> \in Files
    BY DEF IInv, TypeOK, CircuitIds, Files
  <2>3. QED
    BY <1>2, <1>3, <2>1, <2>2
<1>10. ServingWhole(s)'
  BY <1>6 DEF ServingWhole
<1>11. \A t \in Servers : t # s => pc'[t] = pc[t] /\ at'[t] = at[t]
  BY <1>1 DEF IInv, TypeOK, Setup, Goto
<1>12. QED
  BY <1>1, <1>4, <1>5, <1>6, <1>7, <1>8, <1>9, <1>10, <1>11, OtherServers DEF IInv, TypeOK

\* The last write of a pair, and on to the next circuit.
LEMMA WriteVkStep ==
  ASSUME IInv, NEW s \in Servers, WriteVk(s)
  PROVE  IInv'
<1>1. pc[s] = "writing vk" /\ NextCircuit(s) /\ UNCHANGED <<held, setups, faults>>
  BY DEF WriteVk
<1>2. \A k \in Kinds : held[s][<<at[s], k>>] = DeployedSetup
  BY <1>1 DEF IInv, WritingWhole
<1>3. disk' \in [Files -> Contents]
  BY <1>2, StoreType DEF WriteVk, Kinds, Contents
<1>4. /\ pc' \in [Servers -> Phases] /\ at' \in [Servers -> CircuitIds]
      /\ DoneWhole(s)' /\ WritingWhole(s)' /\ ServingWhole(s)'
      /\ \A t \in Servers : t # s => pc'[t] = pc[t] /\ at'[t] = at[t]
  <2>1. held' \in [Servers -> [Files -> Contents]]
    BY <1>1 DEF IInv, TypeOK
  <2>2. QED
    BY <1>1, <1>2, <2>1, NextCircuitWhole
<1>5. QED
  BY <1>1, <1>3, <1>4, OtherServers DEF IInv, TypeOK

\* The steps in between: a look at the directory, and the other writes.
LEMMA WritesStep ==
  ASSUME IInv, NEW s \in Servers, Check(s) \/ OpenPk(s) \/ WritePk(s) \/ OpenVk(s)
  PROVE  IInv'
<1>1. CASE Check(s)
  <2>1. PICK phase \in {"reading pk", "setup"} : Goto(s, phase)
    BY <1>1 DEF Check
  <2>2. QED
    BY <1>1, <2>1, PhaseStep DEF Check, Phases, IInv, TypeOK
<1>2. CASE OpenPk(s)
  BY <1>2, PhaseStep, StoreType DEF OpenPk, Phases, Contents, Kinds, IInv, TypeOK
<1>3. CASE WritePk(s)
  <2>1. held[s][<<at[s], "pk">>] = DeployedSetup
    BY <1>3 DEF WritePk, IInv, WritingWhole, Kinds
  <2>2. QED
    BY <1>3, <2>1, PhaseStep, StoreType DEF WritePk, Phases, Contents, Kinds, IInv, TypeOK
<1>4. CASE OpenVk(s)
  BY <1>4, PhaseStep, StoreType DEF OpenVk, Phases, Contents, Kinds, IInv, TypeOK
<1>5. QED
  BY <1>1, <1>2, <1>3, <1>4

\* Faults: a write that reports an error, a crash, a file removed by hand.
LEMMA FaultStep ==
  ASSUME IInv,
         \/ \E s \in Servers : WriteFails(s) \/ Crash(s)
         \/ \E f \in CircuitIds \X Kinds : Remove(f)
  PROVE  IInv'
<1>1. ASSUME NEW s \in Servers, WriteFails(s) \/ Crash(s) PROVE IInv'
  <2>1. \E phase \in {"down", "failed"} : Goto(s, phase)
    BY <1>1 DEF WriteFails, Crash
  <2> PICK phase \in {"down", "failed"} : Goto(s, phase)
    BY <2>1
  <2>2. phase \in Phases /\ phase \notin {"serving", "opening pk", "writing pk",
                                        "opening vk", "writing vk"}
    BY DEF Phases
  <2>3. disk' \in [Files -> Contents] /\ UNCHANGED <<at, held, setups>> /\ faults' \in Nat
    <3>1. UNCHANGED <<disk, at, held, setups>> /\ faults' = faults + 1
      BY <1>1 DEF WriteFails, Crash
    <3>2. QED
      BY <3>1 DEF IInv, TypeOK
  <2>4. QED
    BY <2>2, <2>3, PhaseStep
<1>2. ASSUME NEW f \in CircuitIds \X Kinds, Remove(f) PROVE IInv'
  <2>1. TypeOK'
    BY <1>2 DEF Remove, IInv, TypeOK, Files, Contents
  <2>2. QED
    BY <1>2, <2>1 DEF Remove, IInv, DoneWhole, WritingWhole, ServingWhole
<1>3. QED
  BY <1>1, <1>2

\* The invariant holds at the start and every step keeps it.
LEMMA Invariant == Spec => []IInv
<1>1. IInv /\ [Next]_vars => IInv'
  <2> SUFFICES ASSUME IInv, [Next]_vars PROVE IInv'
    OBVIOUS
  <2>1. ASSUME NEW s \in Servers, Start(s) \/ Boot(s) PROVE IInv'
    BY <2>1, StartStep, ReadPkStep, ReadVkStep, SetupStep, WriteVkStep, WritesStep DEF Boot
  <2>2. CASE UNCHANGED vars
    BY <2>2 DEF vars, IInv, TypeOK, DoneWhole, WritingWhole, ServingWhole
  <2>3. QED
    BY <2>1, <2>2, FaultStep DEF Next
<1>2. QED
  BY InitInv, <1>1, PTL DEF Spec

\* Every key a serving server holds comes from the setup the package's
\* verifying keys were generated by, for any number of servers that boot,
\* crash and write at once, and any number of faults.
THEOREM KeysDeployed == Spec => []ServedKeysDeployed
<1>1. IInv => ServedKeysDeployed
  BY DEF IInv, ServingWhole, ServedKeysDeployed, Files
<1>2. QED
  BY Invariant, <1>1, PTL

=============================================================================
