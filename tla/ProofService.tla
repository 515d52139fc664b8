---------------------------- MODULE ProofService ----------------------------
(* Proving and verifying over HTTP (prover-server) and in the browser       *)
(* (prover-wasm). Groth16 is ideal: a key pair belongs to a circuit and to  *)
(* one run of the setup, and a proof verifies if it was made of satisfying  *)
(* values under the key of that pair, for the very same public inputs.      *)
EXTENDS EnvelopeCircuit

CONSTANT served_setup  \* the setup the server's keys come from

Circuits == {"pedersen_opens_to", "envelope_open_at_0"}

key_pair(circuit, setup) == [circuit |-> circuit, setup |-> setup]

\* Bytes of keys and proofs: Torn for bytes that do not deserialize, junk for
\* a proof that is well formed and proves nothing.
Torn == [circuit |-> "none", setup |-> 0]
junk == [key |-> Torn, public |-> <<>>]
torn_proof == [key |-> Torn, public |-> <<"torn">>]

deserialize_key(bytes) == IF bytes = Torn THEN Err("Deserialize") ELSE Ok(bytes)
deserialize_proof(bytes) == IF bytes = torn_proof THEN Err("Deserialize") ELSE Ok(bytes)

\* arkworks asserts that the circuit is satisfied, in debug builds only.
prove(circuit, instance, pk, debug) ==
    IF satisfied(circuit, instance) THEN Ok([key |-> pk, public |-> instance.public])
    ELSE IF debug THEN Err("panic")
    ELSE Ok(junk)

verify(vk, public_inputs, proof) == Ok(proof = [key |-> vk, public |-> public_inputs])

-----------------------------------------------------------------------------
(* prover-server: a reply is Ok or the status of an error. *)

Status(kind) ==
    CASE kind = "UnknownCircuit" -> Err(404)
      [] kind \in {"BadInputs", "BadProofBytes"} -> Err(400)
      [] kind = "Prover" -> Err(500)
      [] kind = "rejected JSON" -> Err(422)
      [] kind = "panic" -> Err(0)  \* the connection closes

registry == [circuit \in Circuits |-> key_pair(circuit, served_setup)]

prove_route(circuit, inputs, debug) ==
    LET instance == try_from(circuit, inputs)
    IN  IF ~has_shape(circuit, inputs) THEN Status("rejected JSON")
        ELSE IF circuit \notin DOMAIN registry THEN Status("UnknownCircuit")
        ELSE IF ~instance.ok THEN Status("BadInputs")
        ELSE LET proof == prove(circuit, instance.value, registry[circuit], debug)
             IN  IF proof.ok THEN proof ELSE Status("panic")

vk_route(circuit) ==
    IF circuit \notin DOMAIN registry THEN Status("UnknownCircuit") ELSE Ok(registry[circuit])

verify_route(circuit, public, proof_bytes) ==
    LET public_inputs == public_inputs_from(circuit, public)
        proof == deserialize_proof(proof_bytes)
    IN  IF circuit \notin DOMAIN registry THEN Status("UnknownCircuit")
        ELSE IF ~public_inputs.ok THEN Status("BadInputs")
        ELSE IF ~proof.ok THEN Status("BadProofBytes")
        ELSE verify(registry[circuit], public_inputs.value, proof.value)

\* The SDK's client of the route above; any status but success is thrown.
proveCommitmentOpening(commitment, opening, claimed, debug) ==
    LET body == [commitment |-> commitment, encoding_id |-> opening.encoding_id,
                 claimed_first_value |-> claimed,
                 stream |-> opening.stream, blinding |-> opening.blinding]
    IN  IF Len(opening.stream) # STREAM_LEN THEN Err("stream length")
        ELSE prove_route("pedersen_opens_to", body, debug)

-----------------------------------------------------------------------------
(* prover-wasm: the caller brings the keys of the circuit. *)

prove_wasm(circuit, inputs, pk_bytes, debug) ==
    LET instance == try_from(circuit, inputs)
        pk == deserialize_key(pk_bytes)
    IN  IF ~has_shape(circuit, inputs) THEN Err("inputs json")
        ELSE IF ~instance.ok THEN instance
        ELSE IF ~pk.ok THEN pk
        ELSE prove(circuit, instance.value, pk.value, debug)

verify_wasm(circuit, public, proof_bytes, vk_bytes) ==
    LET public_inputs == public_inputs_from(circuit, public)
        proof == deserialize_proof(proof_bytes)
        vk == deserialize_key(vk_bytes)
    IN  IF ~public_inputs.ok THEN public_inputs
        ELSE IF ~proof.ok THEN proof
        ELSE IF ~vk.ok THEN vk
        ELSE verify(vk.value, public_inputs.value, proof.value)

-----------------------------------------------------------------------------
(* proofs.move, deployed with the verifying keys export-vks prints. Sui's   *)
(* native functions decode the inputs and the proof.                        *)

exported_vk(circuit) == key_pair(circuit, served_setup)

\* The numbers of the call, packed in the order of the circuit.
pack_public_inputs(circuit, p) ==
    CASE circuit = "envelope_open_at_0" -> <<p.signal, p.claimed_value>>
      [] circuit = "pedersen_opens_to" ->
             coords(p.commitment) \o <<p.encoding_id, p.claimed_first_value>>

verify_on_chain(circuit, p, proof_bytes) ==
    LET inputs == pack_public_inputs(circuit, p)
        proof == deserialize_proof(proof_bytes)
    IN  IF ~AllElements(inputs) \/ ~proof.ok THEN Err("native abort")
        ELSE IF ~verify(exported_vk(circuit), inputs, proof.value).value
        THEN Err("E_INVALID_PROOF")
        ELSE Ok(TRUE)
=============================================================================
