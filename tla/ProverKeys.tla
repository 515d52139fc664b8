----------------------------- MODULE ProverKeys -----------------------------
(***************************************************************************)
(* crates/prover-server/src/keys.rs: at boot a server loads the key pair   *)
(* of each circuit from the keys directory, or runs the trusted setup and  *)
(* writes the pair.  Several servers may share the directory, a server may *)
(* die at any moment, and fs::write is not atomic: it first truncates.     *)
(* The contents of a key file are the setup it came from; a file that does *)
(* not hold all its bytes does not deserialize.                            *)
(***************************************************************************)
EXTENDS Integers

CONSTANTS
  Servers,     \* processes that use the keys directory
  Circuits,    \* circuits are numbered in the order build boots them
  MaxFaults    \* bound: crashes, failed writes and files removed by hand

ASSUME ProverKeysAssumption == Circuits \in Nat \ {0} /\ MaxFaults \in Nat

VARIABLES
  disk,     \* [circuit, kind] -> what the file holds
  pc,       \* server -> where build is
  at,       \* server -> the circuit build is at
  held,     \* server -> circuit -> the pair in memory, or being read or written
  setups,   \* circuit -> setups run so far
  faults    \* faults so far

vars == <<disk, pc, at, held, setups, faults>>

CircuitIds == 1..Circuits
Kinds == {"pk", "vk"}

\* What a file can hold: nothing, some of its bytes, or the key of a setup.
\* Setup 0 is the one the verifying keys in proofs.move were generated by.
Absent == -1
Torn == -2
DeployedSetup == 0

\* Faulty variant: a generator seeded by the operating system.
setup_rng_entropy(c) == 1 + setups[c]

\* StdRng::seed_from_u64 with a seed fixed per circuit.
setup_rng(c) == DeployedSetup

Init ==
  /\ disk = [f \in CircuitIds \X Kinds |-> Absent]
  /\ pc = [s \in Servers |-> "down"]
  /\ at = [s \in Servers |-> 1]
  /\ held = [s \in Servers |-> [f \in CircuitIds \X Kinds |-> Absent]]
  /\ setups = [c \in CircuitIds |-> 0]
  /\ faults = 0

Goto(s, phase) == pc' = [pc EXCEPT ![s] = phase]

Hold(s, kind, content) == held' = [held EXCEPT ![s][<<at[s], kind>>] = content]

Store(s, kind, content) == disk' = [disk EXCEPT ![<<at[s], kind>>] = content]

\* The pair of a circuit is in memory: on to the next circuit, or to serving.
NextCircuit(s) ==
  IF at[s] < Circuits
    THEN Goto(s, "checking") /\ at' = [at EXCEPT ![s] = @ + 1]
    ELSE Goto(s, "serving") /\ UNCHANGED at

\* Someone starts the process, for the first time or after it stopped.
Start(s) ==
  /\ pc[s] \in {"down", "failed"}
  /\ Goto(s, "checking")
  /\ at' = [at EXCEPT ![s] = 1]
  /\ held' = [held EXCEPT ![s] = [f \in CircuitIds \X Kinds |-> Absent]]
  /\ UNCHANGED <<disk, setups, faults>>

\* Faulty variant: the proving key taken as a sign of both.
CheckPkOnly(s) ==
  /\ pc[s] = "checking"
  /\ Goto(s, IF disk[<<at[s], "pk">>] # Absent THEN "reading pk" ELSE "setup")
  /\ UNCHANGED <<disk, at, held, setups, faults>>

Check(s) ==
  /\ pc[s] = "checking"
  /\ Goto(s, IF \A k \in Kinds : disk[<<at[s], k>>] # Absent
               THEN "reading pk" ELSE "setup")
  /\ UNCHANGED <<disk, at, held, setups, faults>>

ReadPk(s) ==
  /\ pc[s] = "reading pk"
  /\ Hold(s, "pk", disk[<<at[s], "pk">>])
  /\ Goto(s, "reading vk")
  /\ UNCHANGED <<disk, at, setups, faults>>

\* Both files are read, then both are deserialized.
ReadVk(s) ==
  /\ pc[s] = "reading vk"
  /\ Hold(s, "vk", disk[<<at[s], "vk">>])
  /\ IF {held[s][<<at[s], "pk">>], disk[<<at[s], "vk">>]} \cap {Absent, Torn} = {}
       THEN NextCircuit(s)
       ELSE Goto(s, "failed") /\ UNCHANGED at
  /\ UNCHANGED <<disk, setups, faults>>

Setup(s) ==
  /\ pc[s] = "setup"
  /\ setups' = [setups EXCEPT ![at[s]] = @ + 1]
  /\ held' = [held EXCEPT ![s][<<at[s], "pk">>] = setup_rng(at[s]),
                          ![s][<<at[s], "vk">>] = setup_rng(at[s])]
  /\ Goto(s, "opening pk")
  /\ UNCHANGED <<disk, at, faults>>

\* fs::write creates or truncates the file, then writes the bytes.
OpenPk(s) ==
  /\ pc[s] = "opening pk"
  /\ Store(s, "pk", Torn)
  /\ Goto(s, "writing pk")
  /\ UNCHANGED <<at, held, setups, faults>>

WritePk(s) ==
  /\ pc[s] = "writing pk"
  /\ Store(s, "pk", held[s][<<at[s], "pk">>])
  /\ Goto(s, "opening vk")
  /\ UNCHANGED <<at, held, setups, faults>>

OpenVk(s) ==
  /\ pc[s] = "opening vk"
  /\ Store(s, "vk", Torn)
  /\ Goto(s, "writing vk")
  /\ UNCHANGED <<at, held, setups, faults>>

WriteVk(s) ==
  /\ pc[s] = "writing vk"
  /\ Store(s, "vk", held[s][<<at[s], "vk">>])
  /\ NextCircuit(s)
  /\ UNCHANGED <<held, setups, faults>>

\* A write reports an error, and build with it.  The file stays as it is.
WriteFails(s) ==
  /\ faults < MaxFaults
  /\ pc[s] \in {"writing pk", "writing vk"}
  /\ faults' = faults + 1
  /\ Goto(s, "failed")
  /\ UNCHANGED <<disk, at, held, setups>>

Crash(s) ==
  /\ faults < MaxFaults
  /\ pc[s] \notin {"down", "failed"}
  /\ faults' = faults + 1
  /\ Goto(s, "down")
  /\ UNCHANGED <<disk, at, held, setups>>

\* The operator removes a file while no server is up.
Remove(f) ==
  /\ faults < MaxFaults
  /\ \A s \in Servers : pc[s] = "down"
  /\ disk[f] # Absent
  /\ faults' = faults + 1
  /\ disk' = [disk EXCEPT ![f] = Absent]
  /\ UNCHANGED <<pc, at, held, setups>>

Boot(s) ==
  \/ Check(s) \/ ReadPk(s) \/ ReadVk(s) \/ Setup(s)
  \/ OpenPk(s) \/ WritePk(s) \/ OpenVk(s) \/ WriteVk(s)

Next ==
  \/ \E s \in Servers : Start(s) \/ Boot(s) \/ WriteFails(s) \/ Crash(s)
  \/ \E f \in CircuitIds \X Kinds : Remove(f)

\* A server that is down is started again, and a started one runs.
Fairness == \A s \in Servers : WF_vars(Start(s)) /\ WF_vars(Boot(s))

Spec == Init /\ [][Next]_vars /\ Fairness

-----------------------------------------------------------------------------
\* Proofs made with any server's proving key are accepted under its own and
\* every other server's verifying key and by the chain: all come from the
\* deployed setup, whatever was crashed, torn, removed by hand or written by
\* two servers at once.
ServedKeysDeployed ==
  \A s \in Servers : pc[s] = "serving" =>
    \A f \in CircuitIds \X Kinds : held[s][f] = DeployedSetup

\* A fault that leaves whole files, or none, behind never keeps the servers
\* from serving: when no file is torn for good, every server serves in the end.
WholeFilesServe ==
  (\A f \in CircuitIds \X Kinds : []<>(disk[f] # Torn))
    => \A s \in Servers : <>[](pc[s] = "serving")

\* What keys.rs says of restarts: setup "happens at most once per circuit per
\* deployment -- every subsequent boot reads from disk".  Every server that is
\* restarted serves in the end.
EveryBootServes == \A s \in Servers : <>[](pc[s] = "serving")

=============================================================================
