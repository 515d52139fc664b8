# Whisper Protocol: TLA+ specifications and proofs

Whisper Protocol is a confidential-messaging and commitment protocol on Sui.
Accounts register Baby Jubjub encryption keys in a Move package; senders seal
envelopes to a recipient's current key and post them; authors commit to secrets
and later open them in full, or in part with a Groth16 proof. Around the package
are Rust crates (primitives, encodings, protocol, circuits, prover, prover
server), a TypeScript SDK and a React app.

This directory models the parts with state and interleavings, and the primitives
and circuits they stand on; checks them with TLC on small instances; and proves
their safety properties with TLAPS for every value of the constants. It says what
the *code* does; where a comment or a spec page says otherwise, the disagreement is
a run that TLC must find violated, or is listed below.

## 1. Inventory

| Component | Source | State it keeps | Operations | Correct when |
|---|---|---|---|---|
| registry | `contracts/sources/registry.move` | account → entry; one `EncryptionKey` object per registration | `register_encryption_key`, `current_key`, `has_entry` | the entry is the newest key object; versions are 1, 2, 3, … without gap; events suffice to rebuild it |
| facade | `contracts/sources/whisper.move` | none of its own | `init`, `protocol_version` | exactly one registry |
| envelopes | `contracts/sources/envelopes.move` | frozen `Envelope` objects | `post_envelope` | the key an envelope names was the recipient's newest when posted; one event per envelope |
| commitments | `contracts/sources/commitments.move` | owned `SecretCommitment` objects | `commit_secret`, `open_secret`, `open_with_proof`, Sui transfer | opened at most once; what is revealed agrees; events suffice |
| proof verifier | `contracts/sources/proofs.move` | two verifying keys | `verify_pedersen_opens_to`, `verify_envelope_open_at_0` | a proof counts only for the inputs it was made for |
| Pedersen | `crates/crypto/src/babyjub/pedersen.rs`, `crates/protocol/src/commitment.rs` | process-wide generator table behind a lock | `g_generator`, `commit`, `verify_opening` | index i always gives G_i, under any threads; calls end |
| circuits | `crates/circuits/src/pedersen_opens_to.rs`, `envelope_open_at_0.rs` | none | constraints, setup instance, parsing of inputs, order of the public inputs | what is proven is what the native functions say |
| prover-server keys | `crates/prover-server/src/keys.rs`, `main.rs` | key files per circuit; pairs in memory | `build` at boot | served pairs are the deployed ones; a restart serves again |
| prover-server routes, prover | `routes.rs`, `errors.rs`, `crates/prover`, `prover-wasm` | none | prove, verify, vk; setup and export | a proof is made for true statements only; what is accepted, wherever it is verified, is true of envelopes, and of a commitment up to the group order (see `two_words`) |
| envelope suite | `crates/protocol/src/envelope.rs`, `packages/sdk/src/suite.ts` | none | `seal`, `open` | open inverts seal; an altered envelope fails; no mask is used twice; Rust, TypeScript and the circuit agree |
| primitives | `crates/crypto/src/babyjub`, `poseidon.rs`, `crates/gadgets`, `crates/crypto-wasm` | none | points, keys, ECDH, KDF, cipher, MAC, Schnorr, Pedersen, Poseidon, and a gadget of each | only points of the subgroup pass; inverse operations invert; gadget and native function agree |
| encodings | `crates/crypto/src/encoding`, `crates/encodings/text-utf8-v1` | none | `encode`, `decode`, `validate_structural` | decode accepts what encode makes; a second stream for a text exists only where a `usize` is shorter than 64 bits (see section 3) |
| SDK client | `packages/sdk/src/client.ts`, `registry.ts`, `tx.ts`, `protocol.ts` | memoised protocol check | `fetchRegistry`, `prepareSend`, `assertWriteCompatible`, builders | seals and anchors to one entry; one check under way at a time |
| SDK feed and readers | `feed.ts`, `envelope.ts`, `commitments.ts`, `proofs.ts` | none | event queries, opening check, proof request | nothing the limit has room for is missing; a proof request is refused before it is wrong |
| wallet keys | `packages/sdk/src/wallet-keys.ts`, `apps/protocol/src/whisper/useWhisperKeys.ts` | IndexedDB cache; React state | load, derive, save | the keys in use are the connected account's |
| app | `App.tsx`, `IdentityBar.tsx`, `Compose.tsx` | registry shown, busy flags, receipt | poll, register, send | once a version of an entry was shown, no older one is; no wrong receipt; every rotation is shown in the end |
| commit panel, dev session | `Commit.tsx`, `ComposeTabs.tsx`, `useDevSession.ts` | the opening of one commitment; dev signer and account shown | commit, reveal, prove, change tab, switch signer | what the panel says is so on chain; an opening is not lost or replaced; the account shown is the signer's |
| feed panel | `Feed.tsx` | plaintext or error of each envelope shown | decrypt | a text is shown under its own envelope only, and a refusal is deserved |
| demos, scripts | `apps/curve`, `apps/zk`, `scripts` | none | | not modelled |

**How they interact.** The app calls the SDK, the SDK reads objects and events
from a full node and builds transactions, the wallet (or the dev signer) signs
and submits them, and Sui executes each atomically. The package's modules share
the ledger: clock, object ids, event log. `envelopes` reads the registry;
`commitments` calls the verifier. The app asks the prover server for proofs; the
server's keys must belong to the verifying keys compiled into `proofs.move`.

**What is hard.** An entry read before an `await` and used after it; answers of
submitted transactions lost, late or followed by a retry; React effects that
outlive the account they were started for; two servers, or a crash, on one keys
directory; a table read under one guard and extended under another; objects and
events updated separately that must remain one story; a field larger than the
group it is reduced into; one computation written down four times, in Rust, in
TypeScript, in a circuit and in Move; texts that name a value in more than one
way; list items that keep their state while the list moves. `PROJECT.json` lists each hazard at its line with the
properties that cover it, or the reason none does yet.

## 2. Modules

```
Chain ── Registry ── Envelopes ──┬── Whisper ── MCWhisper, WhisperProofs
  └──── Commitments ── Pedersen ─┘      └─ implements KeyLog
                      Envelopes ────── Dapp ── MCDapp, DappProofs
                    Commitments ────── Panel ── MCPanel, PanelProofs
Generators ── MCGenerators, GeneratorsProofs
ProverKeys ── MCProverKeys, ProverKeysProofs
WalletKeys ── MCWalletKeys
     └─────── Feed ── MCFeed, FeedProofs

Results ── Field ── Curve, Poseidon ── Keys ── HashToCurve, Schnorr ──┐
             └───── TextUtf8 ─────────────────────────────────────────┴─ CurveBindings ── MCCurveBindings,
                                                     Symmetric ────────┘           CurveBindingsProofs
Symmetric, Results ── EnvelopeSuite ── EnvelopeCircuit ── ProofService ── Mailbox ── MCMailbox, MailboxProofs
```

The first group is the system's state. The second is its computations, in two
layers: below, real arithmetic over a field and a curve; above, protocols over
primitives that are free terms. `Symmetric` belongs to both, as an instance: its
hashes and sums are parameters.

* **Chain** – what Sui gives every module: the clock, fresh object ids in order,
  and the event log. A transaction that aborts leaves no trace, so an aborting
  `assert!` is a guard. `AdvanceClock` lets several transactions share a time.
* **Registry** – `entries` is `KeyRegistry.entries`, `keys` the `EncryptionKey`
  objects. `register_encryption_key` is the whole entry function: version (with
  the u64 abort), object, entry (`put_entry`: added or overwritten), event. A
  public key is opaque, as on chain.
* **Envelopes** – `post_envelope` with the four assertions of `build_envelope` in
  their order, the frozen object, and `posted`, its event. Of the sealed content
  the model keeps the recipient key and whether the ciphertext is empty.
* **Pedersen** – a commitment as the tuple of its scalars over independent
  generators (discrete logs unknown, i.e. ideal binding of *scalars*). What the
  code does before that is kept: each base-field element is reduced modulo the
  group order, and a generator past the end has scalar zero.
  `pedersen_opens_to` is the relation of the circuit.
* **Commitments** – the three entry functions, the verifier they call, and Sui's
  `public_transfer`, which the `store` ability permits. The point a caller
  commits to is arbitrary; `open_secret` verifies nothing. Groth16 is ideal: a
  proof exists for one vector of public inputs that satisfies the relation.
  Anyone may call the public verifier directly (`call_verifier`).
* **Whisper** – composition of all of it: any account sends any transaction with
  any arguments. Holds the type invariant, `HistoryKept` and the refinement
  mapping to KeyLog.
* **KeyLog** – the abstract promise: an append-only log of keys per account, and
  deliveries stamped for ever with the end of the recipient's log. No entries,
  ids, times or events.
* **Dapp** – browser sessions over Envelopes. Code between two awaits is one
  action, what an await brings is another: the poll loop (`PollFetched`,
  `PollShow`, `PollFails`, `PollAgain`), send (`SendClick`, `PrepareSend`,
  `SendSubmit`, `SendAnswered`, `SendFails`) and registerKey. A fetch that succeeds
  may lack entries: those whose objects came back without their fields (`blank`), and
  those beyond the last page that is read (`Listings`, `MaxListed`). A session has
  the poll loops of `Loops`: one, and two in a development build, where StrictMode
  runs the effect, its cleanup and the effect again. A submitted transaction
  executes later or never, whether the session still waits or not; keys are also
  registered from elsewhere. `fetchRegistryEntries` reads pages and chunks; it is
  one read here because sends and properties use one entry at a time.
* **Panel** – the commit panel in a dev-signer session over Commitments. `calls`
  lists what was started in the panel with the captured signer and commitment
  (`subject`), the await it is at and its transaction; `pending` is the
  `PendingCommit` of the mounted panel, whose opening exists nowhere else (`None` is
  TypeScript's null: the module assumes only that it is no such record).
  `LeaveTab` unmounts it: calls go on, their answers find no panel. `Switch`,
  `Derived` and `DerivationFails` are the effect of `useDevSession`, whose
  executor changes at once and whose account follows the derivation. Owners open
  and hand on commitments from other programs too.
* **Generators** – `g_generator` step by step: read guard, hit or miss, derive
  with no guard held, wait for the write guard, fill, return. The index limit of
  `derive_g_at` is a panic. The bound 2^32 is the constant `Limit`.
* **ProverKeys** – `build` over a shared keys directory, circuit by circuit,
  file by file. `fs::write` is truncate and fill; servers crash, writes fail, an
  operator removes files. A key is named by the setup it came from.
* **WalletKeys** – the hook's effect, its cancelled flag, `derive` with its two
  awaits, the IndexedDB cache that outlives the page.
* **Feed** – WalletKeys with the event feed over it. `fetch` is one `fetchFeed`
  under way: its four queries answer at different times (`QueryAnswers`), each
  with the newest `Limit` events of its kind, and `Show` merges, sorts and sets
  the list. `items` is the state of the envelope items React keeps under their
  key; `DecryptClick` captures account and keys, `Decrypted` and `DecryptFails`
  end the await. An event is its place in the log, which also stands for its
  transaction and time: one event of a kind per transaction, as the package's
  entry functions emit them.

Primitives:

* **Results**, **Field** – Rust's `Result`; `Fq`, and decimal texts as integers: a
  negative one is any text that is no number, one at or above the prime is read
  modulo the prime, as arkworks does. `power` is a product, so that proofs can
  unfold it.
* **Curve** – the dialect of `config.rs` (`CurveAssumption`: prime order, cofactor
  8, a generator, the coefficients a square and no square), `point_from_strings`
  with its three checks, and scalar multiplication over the bits a prover chose. The
  addition formulas are arkworks', external; that they make a group of order 8 L is
  `GroupAssumption`.
* **Poseidon** – the permutation, the fixed hash with its arity check and the panic
  behind it, the sponge with its padding, and the gadgets. Tables of
  light-poseidon are external: `PoseidonAssumption` says which widths there are, 2
  to 13, and that their constants are field elements.
* **Keys**, **HashToCurve**, **Schnorr**, **Symmetric** – key pairs and ECDH; the
  generators by try-and-increment and the commitment; signatures; KDF, cipher and
  MAC. Each with its gadget. `TagsInField` is about the seven domain tags,
  `GeneratorsAssumption` (of HashToCurve) says that the generators in use are found.
* **TextUtf8** – `encode`, `decode`, `validate_structural` and payloads, with bytes,
  chunks, limbs and `usize` of any size; `decode` reads the length from the lowest
  limb, cut to a `usize`, as the code does. `TextAssumption`: a chunk is shorter than
  an element, which is no longer than a chunk and a byte, and the longest text's
  length is an element and a `usize`.
* **CurveBindings** – the exported functions of `crypto-wasm`, and of the circuits'
  gadgets, each an action that leaves its reply in `call`: the texts are parsed in
  the order of the code and the first error wins. `BindingsAssumption` gives the
  arguments their types, and streams no more elements than there are generators.

Protocols:

* **EnvelopeSuite** – `seal` and `open` of the crate, and of the SDK, which works
  on texts: it compares recipients as texts and refuses a sender that is no point.
* **EnvelopeCircuit** – the relation of both circuits, the assignment `new` makes,
  the instance of the setup, `try_from` and `public_inputs_from`. Each
  multiplication allocates the bits of its scalar anew, so the relation has two
  scalars where the text of `envelope_open_at_0.rs:226-237` calls one use of the
  secret "load-bearing"; `new` assigns the same number to both, and
  `ProofMeansOpens` is stated for what the prover's own code assigns.
* **ProofService** – `prove`, `verify` and keys over an ideal Groth16; the routes
  of the server with their status codes, the browser's prover, the SDK's client,
  `export-vks` and the Move verifier.
* **Mailbox** – accounts that publish and rotate keys, send, open what they get
  (altered on its way or not, with the newest key in the app or any own key
  natively), prove, and verify at the server, in the browser or on chain. A prover
  sends any combination of fields of two inputs (`Combined`, at most `MaxAltered` of
  them from the other), may compute the signal anew of what came out, and may prove
  about an envelope that is never posted (`Drafts`); a verifier may be sent any
  combination of public inputs with the proof. Its assumption (`MailboxAssumption`) is that keys are points, that the two sides of
  ECDH agree, and that no other pair of keys, nor a point taken from elsewhere, has
  the same shared point.

Each module also holds, next to the definition they vary, the *faulty variants*
its properties are tried against; no specification uses them.

## 3. What TLC checks

| Run | Instance | Shows |
|---|---|---|
| `mail` | 2 accounts, 2 keys, 4 objects, 4 events, 3 times, versions up to 3 | registry, key objects, envelopes and events stay one story (`TypeOK`, `EntryIsNewestKey`, `RotationHistoryLinear`, `EventsRebuildRegistry`, `EnvelopeAnchored`, `InboxComplete`), and the package implements KeyLog |
| `secrets` | 2 accounts, 2 commitments, field of 3, group of 2, 5 events | the events rebuild the commitments, with transfers and partial openings in between; no commitment is opened twice and history is not rewritten (`HistoryKept`); partial openings and a verified full opening agree on the first word modulo the group order |
| `sessions` | 1 session, 1 transaction, 2 accounts whose keys are rotated from elsewhere, pages for 1 entry | what the app posts is sealed to the recipient's newest key at execution; receipts are right although answers are lost; though fetches fail or silently lack entries, no version shown of an entry is older than one shown before, also after the entry vanished and came back (`ShownNeverGoesBack`), and every rotation is shown in the end (`RotationsShown`) |
| `panel` | 2 signers, 1 change of signer, 3 actions, 2 commitments, 4 events | what the panel says of its commitment is so, a result shown is not taken back, an opening held is not replaced; late derivations are not shown |
| `generators` | 3 threads, 2 indices and one out of range | the table is right, results are right, every call ends |
| `keys` | 2 servers, 2 circuits, 2 faults | only deployed keys are served; nothing but a torn file keeps a server from serving |
| `wallet` | 2 accounts, 4 switches or reloads, 2 kinds of events, 2 events, a limit of 1 | late cache reads do no harm; a device that has keys does not ask for a signature; the feed lacks no event it has room for (`FeedComplete`); what an item says of its envelope is true (`DecryptTrue`) |
| `primitives` | field of 29, curve of 40 points with a subgroup of 5, Poseidon of 3 rounds, texts of up to 5 bytes of which 4 fit | points, keys, signatures, commitments, hashes, cipher, MAC and texts, natively and in circuits: ten invariants over single calls with every text around the limits |
| `mailbox` | 2 accounts, one of which rotates, 2 envelopes, streams of 2 words, elements reduced modulo 3 in commitments | an envelope opens to what was sealed or not at all, whatever was altered (`OpensToSealed`); no two words share a mask (`KeystreamNotReused`); proofs are made of true statements only (`ProofMeansOpens`); a claim that is accepted is true of every posted envelope with its signal, and of a commitment as scalars (`VerifiedMeansTrue`): claims congruent to the committed ones are accepted in this run |

Three runs are expected to be **violated**: they state what a document says and
the code does not do.

| Run | The document | The code |
|---|---|---|
| `two_words` | `specs/protocol-commitment.md:119-120`: cannot open to a different stream | elements are reduced modulo l < p before committing; two claims that differ by l are both proven |
| `torn_key` | `keys.rs:71-73`: "every subsequent boot reads from disk" | a file cut off by a crash exists, does not load, and is never rewritten |
| `wrong_wallet` | `useWhisperKeys.ts:1-2`: "the connected wallet's" keys | `derive` sets its result without asking whether the account changed meanwhile |

Further divergences were met and have no run; the modules follow the code.

* `commitments.move:27-28` says only the author can open, but a commitment has
  `store` and the owner it was handed to opens it; the event still names the author.
* `registry.move:3-4` says envelopes "assert that the sender targeted the
  recipient's current key". `build_envelope` compares id and version; the key the
  caller stores next to them may be another. The app's own sends are right
  (`sessions`).
* `commitments.ts:56` (SDK) says to keep the opening "until `open_secret` time". The
  commit panel holds the only copy, and the other tab unmounts it
  (`ComposeTabs.tsx:40`).
* `text-utf8-v1` casts the length prefix to a `usize` before it compares it with
  `MAX_BYTES` (`lib.rs:161`, and again at `:199`). Where a `usize` has 32 bits, as on
  the wasm32 that `crypto-wasm` is built for, a prefix of 2^32 + n decodes as n, so a
  text has further streams. `lib.rs:93-94` says the prefix was confirmed to be
  `<= MAX_BYTES`, `specs/encodings/text-utf8-v1.md:98` that it "is in [0, 248]", and
  `lib.rs:121-124` and `:56-58` of the spec that the map is a bijection. The instance
  of `primitives` has a `usize` shorter than a limb and reaches such prefixes;
  `TextDecodesItself` says exactly which streams decode. The documented claim is
  `DecodeIsBijection`, which is proved for a `usize` as wide as a limb.
* `fetchRegistryEntries` skips an entry whose object came back without fields
  (`registry.ts:139`) and stops after 200 pages (`registry.ts:113-121`), in both
  cases without an error. The app then shows fewer entries than before, and the
  compose form says of the account "they must register a key first"
  (`Compose.tsx:142`), though it has.
* `App.tsx:75` resets the ref that its own cleanup set. Under StrictMode
  (`main.tsx:26`) a development build therefore has two poll loops for good, and
  the registry it shows can go back to an older one until the next poll.
* A proof may be about an envelope that was never posted: `envelope_open_at_0` takes
  any envelope, and no verifier looks one up. `VerifiedMeansTrue` speaks of the
  posted ones only.
* The test comments of `pedersen.rs` call the commitment element-wise homomorphic.
  It is, unless a sum of two elements wraps around the prime; `CommitHomomorphic`
  has that as its premise.
* `suite.ts` and `envelope.rs` want envelope ids unique per (sender, recipient).
  The shared point is the same in both directions, so they must differ over the
  unordered pair; in the model, as in the app, every id is drawn afresh. For the
  same reason a tag does not say which of the two sealed (`SameSeal`).
* The arity of the fixed Poseidon hash is given as up to 12, 13 or 15 inputs in
  comments; the code admits eleven beside the tag, and `kdf` a context of nine.
* A response of a signature is read modulo the group order, so its text is not
  unique; `SignaturesVerify` says exactly which responses verify.

**Bounds.** Every counter has one: `MaxTime`, `MaxObjects`, `MaxEvents`,
`MaxU64`, `MaxTxs`, `MaxClicks`, `MaxStream`, `MaxFaults`, `MaxSwitches`,
`MaxLog`, `Limit`, `MaxMail`, `MaxVersion`, `MaxAltered`, `MaxCounter`. `MaxListed` is
no bound of the model but the code's: the entries its pages can list. Four
objects hold an account's three versions and an envelope between any two of them,
or two accounts' rotations interleaved; `MaxU64` = 3 is reached, so the abort is
too. Five events hold a commitment and two partial openings, each of which emits
two; `secrets` leaves the clock at its start to afford them with two commitments.
A field of three or four over a group of two has two words for a scalar, which is
what `RevealsAgree` is about. The one transaction
of a session is a send or a registration; its attempt may fail before it is submitted
and be made again, and its answer may be lost. Retries after it are covered by the
proofs only, which are about any number of transactions. Pages for one entry make the
list of two accounts incomplete by themselves, and the loops of a development build
occur in the proofs and in the faulty variant. Three actions of the panel are a commitment, its proof and its
reveal, a reveal and its retry, or a second commitment after the first; one change
of signer falls at any point between them. In `panel` field and group have one
element: there commitments differ in their blinding only, and a wrong opening is
one with the other blinding. `secrets`, `panel` and `wallet` are checked up to a permutation
of the accounts; all their properties are safety. Two faults tear one file and remove another. In
`wallet` four switches allow an account change under a read, under a derivation and
under a decryption, and back; two events are an envelope and a newer one of either
kind, and with a limit of one the newer envelope pushes the older one off the list.
`wrong_wallet` has the hook alone. The two
halves of the package share the ledger and no object, so `mail` and `secrets`
check them apart; the proofs are about `Whisper!Spec`, both halves interleaved.

`primitives` takes one call at a time, as JavaScript does, so its depth is in the
arguments. The curve has what the real one has: cofactor 8, points
outside the subgroup, of small order and of large, a group order below the prime (and not a divisor of it), bits
for scalars beyond the group order. The digests of the two first generators are
chosen so that one counter fails on no point and one on a point of small order;
`DeriveGenerator` tries all pairs of digests. Messages reach 12 elements, one past
every arity limit. Texts have bytes of two bits, limbs of four, a `usize` of three:
prefixes beyond each, full and part-full chunks, and characters of two bytes cut in
the middle all occur. In `mailbox` primitives are terms, so equal means derived
alike; points are exponents modulo 101, above the products of the accounts' secrets.
Two envelopes are enough to take a field from another envelope, in one
direction or both, across a rotation or not; proofs are tried about the newest and
about what its sender could have sealed instead, with up to two fields from elsewhere
and the signal computed anew. A commitment reduces its elements modulo 3, and the odd
inputs open the commitment of a payload to other numbers of the same scalars, encoding
id, word and all: these proofs are made and accepted.

**Deadlock** is checked in `sessions`, where the poll loop never stops, and in
`primitives` and `mailbox`, where a reply can always be dropped. It
is off where the system or the bounds do stop: a full event log (MCWhisper), the panel's actions used up (MCPanel),
threads that all panicked on an index out of range (Generators), the last switch
used up (WalletKeys, Feed), and in ProverKeys, where all servers may be serving with the
faults used up.

**Fairness.** Dapp: the timer fires (`WF PollAgain`), both fetches of a poll settle,
which `App.tsx:93` relies on (`WF` of `PollShow` or `PollFails`), and a node asked for
ever answers sometimes, then with every object it listed and the feed
(`SF PollFetched` without blanks, and `SF PollShow` of such an answer; a failure can
pre-empt both, and an incomplete answer the first). The entry must also be within the
pages: `RotationsShown` gives up on a table that has outgrown them. Nothing is
assumed of users, wallets or execution. Generators: each
thread is scheduled. std's futex lock admits no new reader while a writer waits,
which is a guard of `Read`; among waiting writers no order is assumed.
ProverKeys: a server that is down is started again and a started one runs.
WalletKeys, Feed, Panel and Whisper have safety only, and so have CurveBindings and
Mailbox, whose calls end at once.

**Assumed of the environment.** A full node's answers follow one ledger: an
answer may be old when it arrives, but two successive answers to a session do not
go backwards, as they might behind a load balancer. Sui executes a transaction
atomically and at most once.

## 4. What TLAPS proves

From the modules' named `ASSUME`s on constants only (bounds are naturals, `0 <
ScalarL <= BaseP`, `None` is no account, …), for any accounts, keys, streams,
sessions, servers, threads; `MailboxProofs` adds the premises named below. Each
proof module has an inductive invariant, or a few that build on each other, one
lemma per action or group of actions, and theorems that combine them with the
temporal step.

* `WhisperProofs` – the package, both halves interleaved.
  * `TypeCorrect`: `Spec => []TypeOK`, one step per action.
  * `EntryNewest` and `RotationLinear`: `EntryIsNewestKey` is inductive given
    `TypeOK` (its last conjuncts bound every key of the account by the entry, which
    is what makes the next version fresh). `RotationHistoryLinear` is not inductive
    by itself: that the new version leaves no gap and takes the largest id and time
    needs the entry to be the newest key, so its step lemma assumes both.
  * `Anchored`: `EnvelopeAnchored` speaks of keys registered after the envelope;
    that those are newer in version, id and time follows from the two invariants
    above, which its step lemma assumes.
  * `RevealsConsistent`: `RevealsAgree` compares two events and is not inductive.
    The invariant that is, `RevealsFitPoint`, compares each event with the
    commitment object: a partial opening's claim, reduced to a scalar, is the first
    scalar of the stored point, and a full opening carries the stored point, so two
    events about one commitment agree.
  * `RegistryRebuilt` and `InboxFound`: the replay of the log takes, per account, the
    last registration. A step adds at most one event of a kind (`Adds`, `Silent`), and
    the key object, envelope or entry it is about in the same step; that the last
    registration is the *newest* key needs `EntryIsNewestKey` before the step, and that
    an envelope's event is its only one needs ids that were never used.
  * `CommitmentsRebuilt`: the same for commitments, which also change. That an opening
    is logged no earlier than the commitment it names is not visible in the objects;
    `CommittedInPast` (no commitment is logged with a time to come) makes it inductive.
  * `HistoryPreserved`: `HistoryKept` holds of every step from a state of `TypeOK`.
  * `Implements`: `Spec => ImplementsKeyLog`. A registration maps to `Rotate`, a post
    to `Deliver`, everything else to a stutter; the invariants above give that the
    `CHOOSE` of the mapping has one candidate.
* `GeneratorsProofs`: `TableCorrect`, `ResultsCorrect`, `TableKept`, from an
  invariant that says the table is right at every index and that a thread between
  its derivation and its return carries the generator of its own index. It does
  not say who holds which guard: the `while` loop pushes what the *current* length
  asks for, so the table stays right however threads interleave.
* `ProverKeysProofs!KeysDeployed`: any number of servers on one directory. What makes
  it inductive is that files and memory hold nothing but absent, torn or deployed
  contents, and that a server has whole keys for every circuit before the one it is
  at (`DoneWhole`) and for the one it is writing (`WritingWhole`). Whether two
  servers write one file at once does not matter: no conjunct relates two servers.
* `FeedProofs`
  * `OwnKeys`, `SignedOnce`: the invariant adds what is under way to what is shown. A
    cache read not cancelled is for the connected account, a derivation that no
    change of account has crossed is too, and "no" means the cache has no key.
  * `NothingMissed`: an answer of a query is complete up to the start of its fetch:
    for each event it lacks, exactly `Limit` newer ones of the kind are in it. To know
    that a full page counts exactly `Limit`, `RankBijective` shows the rank of an
    element (how many are larger) to be one to one onto 0, 1, …, n-1.
  * `DecryptsTruly`: a call of decrypt is about the item that started it, was made by
    its recipient, and with her keys unless a derivation was crossed, which is
    `OwnKeys` at the moment of the click; an answer inherits that from its call.
* `DappProofs` – any number of sessions.
  * `AlwaysSealedToNewest`: between the lookup and the execution the recipient may
    rotate, so the copy of the entry in a session or transaction is *not* the newest.
    The invariant says what stays true of it: key id and public key belong together
    (`CopiesPaired`). `post_envelope` compares the id with the entry's, so a
    transaction that passes is sealed to the entry's key. What remains is that later
    rotations have larger ids (`EntryIsYoungest`).
  * `ReceiptsHonest`: `EffectsTrue` ties each envelope to the one transaction that
    posted it, and each transaction that succeeded to one envelope.
  * `ShownKeepsUp`: what is shown or fetched is no newer than the ledger
    (`ShownFollows`), and what a single loop has fetched is no older than what it
    shows, where both have the entry (`FetchedInOrder`). That alone would not survive
    an entry that vanishes and comes back. So from the moment a version is shown the
    proof keeps a `Floor`: the ledger has that version or a later one, and so has what
    is shown or fetched, as far as it has the entry at all. Each `[](P => []Q)` of
    the property then follows by one more induction, per session, account and version.
* `PanelProofs`
  * `PanelHonest`: each call in flight carries a subject that was true when it
    started, and the ledger only grows in ways that keep it true (`HoldsKept`); a
    transaction that succeeded has left the event its answer will be shown for.
  * `PendingKept`: needs `OneCall`. The mounted panel waits for one call at a time,
    and a reveal or a proof it waits for is about the opening it holds; otherwise an
    answer could replace that opening.
  * `AccountFollowsSigner`: a derivation not cancelled is the active signer's.
* `MailboxProofs` – accounts, keys, rotations, payloads and altered inputs of any
  number, over ideal primitives. What is ideal is an explicit premise of each
  theorem, stated once as `Laws`, `CircuitLaws` and `TextLaws`: hashes collide
  nowhere; a difference undoes a sum on either side; numbers and tags are distinct
  elements; a point is known by its coordinates; an envelope that nobody sealed
  carries no MAC; gadgets compute the native hashes; multiples of the generator
  commute; texts that parse are elements and scalars; and a commitment binds the
  scalars (`fq_to_fr`) of what it is made to, at every position both streams have. Of
  the elements themselves nothing is assumed: encoding ids and words may be congruent
  modulo the group order, as in `two_words`. A finite field satisfies such laws
  only up to collisions; free terms satisfy them exactly: integers for elements,
  scalars and points, products of primes for shared points, an injective code of
  sequences for the hashes. The instance of `mailbox` is of this kind.
  * `OpenInvertsSeal`: what one key pair seals for another, the other opens to the
    same payload. It needs only that a difference undoes a sum and that the two
    scalar products of ECDH agree, which `primitives` checks in real arithmetic
    (`EcdhAgrees`).
  * The invariant beneath the others is `MailSealed`: each letter is what `seal`
    makes of its payload, between keys that were registered, under the id of its
    place. Its step needs `KeysKnown` (versions stay within their bound).
  * `MasksNotReused`: an element of the keystream determines its key and its
    position, a key determines the shared point and the envelope id, and every
    letter has its own id; which two keys share the point does not matter.
  * `OpensWhatWasSealed`: a tag that `open` recomputes to the one it finds binds
    shared point, ids and ciphertext; the shared point is that of one pair of keys,
    in either order, so the letter is one of `SameSeal`. Conversely each such letter
    is opened, by `OpenInvertsSeal`. The second conjunct needs that SDK and both
    copies of `seal` agree (`SealsAlike`).
  * `ProofsMeanOpens`: about the reply alone (`ProvedRight`). For inputs that parse,
    the assignment `new` makes satisfies the constraints exactly if the native
    functions accept the claim, and both setup instances satisfy theirs.
  * `VerifiedTellTruth`: the invariant `ProofsTrue` follows a proof from its prover
    to its verifier. A proof handed out is of the public part of inputs that tell
    the truth; a proof accepted is under a whole key of its circuit and for the very
    inputs it was made for. Nothing is assumed of where a prover took its inputs
    from. For an envelope, the signal is a hash of everything in it, so inputs that
    have a posted envelope's signal are that envelope (`SignalInjective`); their tag
    verifies, so the prover's scalar makes the shared point of sender and recipient, and
    the first word comes out as it was sealed (`EnvelopeTells`). For a commitment, the
    claim is the first element of what opens it, and two openings of one commitment
    have the same scalars (`PedersenTells`).

* `CurveBindingsProofs` – every prime, curve, choice of tables, tags and digests
  that meets the assumptions, and texts, messages and streams of any length. Each
  invariant is about the last reply and says nothing of the call before it, so it is
  proved of every call (`Origins`: the name of a call tells the action that made
  it); what is hard is what the functions compute.
  * *Induction.* `SetInduction` and `Least` are the library's first-order facts that
    the naturals are well-founded, with a set of numbers where an induction theorem
    has a predicate. A recursive function is a `CHOOSE`; the lemmas on runs show that
    for every starting value and step there is one function up to each bound, and
    two of them agree, which unfolds `power`, `multiples`, the sponge, the bits and the
    digits.
  * *The group.* Assumed: sums of points are points, add up associatively, and
    8 L times a point is the identity. Proved: the sum is commutative, the identity
    neutral, multiples of sums are sums of multiples, Subgroup is closed, and
    scalars of its points count modulo L.
  * `PointsInSubgroup`: a parsed text has passed the check, a derived generator is a
    multiple of 8, and a commitment is a sum of multiples (`Commits`, the partial sums).
  * `SharedPointsAgree`: both sides are the generator times the product of the secrets.
  * `SignaturesAlone`: the equation of `verify` turns on the response modulo L. That no
    second response passes needs the period of the generator, the least positive
    number that takes it to the identity: it divides L, which is prime, so it is L.
  * `CommitmentsAdd`: by the partial sums, an element at a time. A sum of two elements
    that does not wrap is the same number modulo L.
  * `CircuitsMatch`: the invariant of double-and-add is that the accumulator is the
    number of the bits read so far times the point. Bits of numbers beyond L, which
    the circuits do not reduce, are harmless for points of the subgroup only.
  * `DerivedGenerators`: a counter may be skipped only if no point has its y-coordinate
    and sign, or the point has an order that divides 8. For that the curve
    equation is solved for the square of x, whose factor has an inverse because the
    least positive sum of multiples of it and of the prime divides the prime; and a
    square has no roots but a root and its negative.
  * `HashesNeverPanic`: three multiplications are the fifth power; the rounds agree one
    by one, then the sponge block by block. A width of 2 to 13 is what arity checks let
    through.
  * `SpongeTapesDistinct`: the last element of a tape that is not zero is the one that
    ends the inputs, so the tape gives back their number and each of them.
  * `KeysAgree`: an addition modulo P is undone by the subtraction, element by
    element; for the gadgets, by `HashesNeverPanic`'s lemmas.
  * `TextsDecode`: digits written in a base are read back, and digits that are read as
    the same number are the same. A byte has one chunk and one place in it; the
    padding and the length tell where the text ends. A stream that decodes to the same
    text differs at most in its first element, the length, above what a `usize` keeps.
  * `StreamsUnique`: under the further assumption that a `usize` is as wide as a limb, as
    on 64 bits, it does not differ at all (`DecodeIsBijection`).

**Only model-checked:** the properties under fairness, `RotationsShown`, `CallsEnd`
and `WholeFilesServe`, which TLAPS cannot do. Every other property of a passing run is
stated by a theorem. `TableKept` and `OpenInvertsSeal` are proved without a run of
their own.

## 5. Not modelled, and why

* Freezing, sharing and wrapping of objects by Sui; who owns an `EncryptionKey`
  (no entry function takes one).
* How arkworks computes in field and group, BLAKE2b, the values of Poseidon's tables,
  and Groth16: they belong to arkworks, light-poseidon and Sui. `primitives` has
  small instances of them, and the proofs assume of them what section 2 names. That
  the curve of `config.rs` meets the assumptions (its order, the associative law) is
  known of it and not proved here.
  Circuits are relations between values; their constraint systems are not
  modelled. Points a circuit is given are taken from the subgroup, because the
  gadgets leave that check to the decoder before them, which the model has.
* The write-compatibility check of the SDK (`client.ts:82-101`), which `App.tsx:64`
  alone calls, once; `verifyOpening`, whose callers take encoding id and point from
  one event; readers of single objects.
* Two tabs of one browser on one IndexedDB; the hook's `clear()`, which no
  component calls.
* The commit panel in a wallet session, where the wallet signs with the account
  connected at signing time. After a reveal whose answer is lost, the panel stays
  at "committed" and every retry aborts; the model shows it and no property
  forbids it. While the dev signer changes, a commitment is posted by the new
  signer under the account still shown; likewise.
* A decrypted text stays on the screen when the account is switched, and one being
  decrypted appears after it. `DecryptTrue` says whose it is, not who is connected:
  no document promises more. Two events of one kind in one transaction share a list
  key; only other programs make such transactions.
* Rendering, themes, demo apps, deployment scripts.

## 6. Plan

Built in this order: Chain, Registry, Envelopes, KeyLog (the anchor of an envelope
is the package's main promise), Pedersen and Commitments, the composition and its
proofs, the app's sessions and the commit panel, the three components with
concurrency or crashes of their own, each with its proofs; then the primitives with their bindings, the
envelope suite with circuits and proof service, the feed, the proofs about
`mailbox`, and last the proofs about the primitives. What is left unmodelled has
its reason in section 5.

## Running

`tlc -config mail.cfg MCWhisper` (likewise for the other runs, each with the
module named in `PROJECT.json`), and `tlapm M.tla` for each M of `WhisperProofs`,
`GeneratorsProofs`, `ProverKeysProofs`, `FeedProofs`, `DappProofs`, `PanelProofs`,
`MailboxProofs`, `CurveBindingsProofs` (about five minutes).
