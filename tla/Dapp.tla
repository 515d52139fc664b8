-------------------------------- MODULE Dapp --------------------------------
(***************************************************************************)
(* Browser sessions of the demo app against the package: the poll loop of  *)
(* App.tsx, registerKey of IdentityBar.tsx, and send of Compose.tsx, which *)
(* goes through prepareSend of the SDK's client.  Everything between two   *)
(* awaits is one action; what happens at an await is another.  A           *)
(* transaction that was submitted executes later, or never, whether or not *)
(* the session still waits for its answer.                                 *)
(*                                                                         *)
(* The sealed body of an envelope is the number of the transaction that    *)
(* carries it: freshEnvelopeId makes every attempt a different envelope.   *)
(***************************************************************************)
EXTENDS Envelopes, FiniteSets

CONSTANTS
  Clients,    \* accounts with a session of the app open
  DevClients, \* those whose session runs a development build
  MaxListed,  \* entries that the pages fetchRegistryEntries reads can list
  LocalKey,   \* client -> the public key derived in its browser
  MaxTxs      \* bound: transactions the sessions submit

ASSUME DappAssumption ==
  /\ DevClients \subseteq Clients /\ Clients \subseteq Accounts
  /\ MaxListed \in Nat
  /\ LocalKey \in [Clients -> PubKeys]
  /\ MaxTxs \in Nat /\ 1..MaxTxs \subseteq Bodies

VARIABLES
  registry,      \* client -> App's registry state, as last shown
  poll,          \* client -> loop -> what the poll loop is doing
  sending,       \* client -> what Compose's send is doing
  registering,   \* client -> what IdentityBar's registerKey is doing
  txs,           \* transactions submitted, in order, with their effects
  receipts       \* transactions Compose has shown a receipt for

sessionVars == <<registry, poll, sending, registering, receipts>>
ledgerVars == <<chainVars, registryVars, envelopes>>
vars == <<ledgerVars, sessionVars, txs>>

\* Faulty variant: the effect is run again in every build.
LoopsOfRerun(c) == {1, 2}

\* The poll loops of a session.  In a development build StrictMode runs the
\* effect of App, its cleanup and the effect again: that resets the ref which
\* would end the first loop.
Loops(c) == IF c \in DevClients THEN {1, 2} ELSE {1}

Init ==
  /\ ChainInit /\ RegistryInit /\ EnvelopesInit
  /\ registry = [c \in Clients |-> [a \in {} |-> 0]]
  /\ poll = [c \in Clients |-> [l \in Loops(c) |-> [phase |-> "fetching"]]]
  /\ sending = [c \in Clients |-> [phase |-> "idle"]]
  /\ registering = [c \in Clients |-> [phase |-> "idle"]]
  /\ txs = <<>>
  /\ receipts = {}

-----------------------------------------------------------------------------
\* The poll loop: fetch, show, wait, fetch again.  A loop has one fetch under
\* way at a time, and an error only postpones the next one.

\* What the pages list of a table: all of it, or as much as there are pages.
Listings ==
  LET size == Cardinality(DOMAIN entries)
  IN {listed \in SUBSET DOMAIN entries :
        Cardinality(listed) = IF size <= MaxListed THEN size ELSE MaxListed}

\* whisper.fetchRegistry answers.  An entry whose object comes back without
\* its fields (`blank`) is left out, and no error says so.
PollFetched(c, l, blank) ==
  /\ poll[c][l].phase = "fetching"
  /\ \E listed \in Listings :
       poll' = [poll EXCEPT ![c][l] =
                  [phase |-> "fetched", blank |-> blank,
                   entries |-> [a \in listed \ blank |-> entries[a]]]]
  /\ UNCHANGED <<ledgerVars, registry, sending, registering, txs, receipts>>

\* fetchFeed has answered too: Promise.all resolves and the state is set.
PollShow(c, l) ==
  /\ poll[c][l].phase = "fetched"
  /\ registry' = [registry EXCEPT ![c] = poll[c][l].entries]
  /\ poll' = [poll EXCEPT ![c][l] = [phase |-> "sleeping"]]
  /\ UNCHANGED <<ledgerVars, sending, registering, txs, receipts>>

\* Faulty variant: the next tick is scheduled only after a success.
PollFailsForGood(c, l) ==
  /\ poll[c][l].phase \in {"fetching", "fetched"}
  /\ poll' = [poll EXCEPT ![c][l] = [phase |-> "stopped"]]
  /\ UNCHANGED <<ledgerVars, registry, sending, registering, txs, receipts>>

\* Either call rejects.
PollFails(c, l) ==
  /\ poll[c][l].phase \in {"fetching", "fetched"}
  /\ poll' = [poll EXCEPT ![c][l] = [phase |-> "sleeping"]]
  /\ UNCHANGED <<ledgerVars, registry, sending, registering, txs, receipts>>

PollAgain(c, l) ==
  /\ poll[c][l].phase = "sleeping"
  /\ poll' = [poll EXCEPT ![c][l] = [phase |-> "fetching"]]
  /\ UNCHANGED <<ledgerVars, registry, sending, registering, txs, receipts>>

-----------------------------------------------------------------------------
\* The transaction executor hands a transaction to the network.
Submit(tx) == Len(txs) < MaxTxs /\ txs' = Append(txs, tx)

post_tx(c, to, entry) ==
  [by |-> c, call |-> "post_envelope", to |-> to,
   key_id |-> entry.current_key_id, version |-> entry.key_version,
   pk |-> entry.pubkey, status |-> "pending"]

register_tx(c) ==
  [by |-> c, call |-> "register_encryption_key", pk |-> LocalKey[c],
   status |-> "pending"]

\* send: the button is enabled by the entry the session shows, which is then
\* looked up afresh.
SendClick(c, to) ==
  /\ sending[c].phase = "idle"
  /\ to \in DOMAIN registry[c]
  /\ sending' = [sending EXCEPT ![c] = [phase |-> "looking up", to |-> to]]
  /\ UNCHANGED <<ledgerVars, registry, poll, registering, txs, receipts>>

\* Faulty variant: sealed to the key of the entry shown, anchored to the one
\* looked up.
PrepareSendShownKey(c) ==
  /\ sending[c].phase = "looking up"
  /\ has_entry(sending[c].to)
  /\ sending' = [sending EXCEPT ![c] =
       [phase |-> "prepared", to |-> sending[c].to,
        entry |-> [entries[sending[c].to] EXCEPT
                     !.pubkey = registry[c][sending[c].to].pubkey]]]
  /\ UNCHANGED <<ledgerVars, registry, poll, registering, txs, receipts>>

\* prepareSend: one entry read, sealed to and anchored to.
PrepareSend(c) ==
  /\ sending[c].phase = "looking up"
  /\ has_entry(sending[c].to)
  /\ sending' = [sending EXCEPT ![c] =
       [phase |-> "prepared", to |-> sending[c].to,
        entry |-> entries[sending[c].to]]]
  /\ UNCHANGED <<ledgerVars, registry, poll, registering, txs, receipts>>

SendSubmit(c) ==
  /\ sending[c].phase = "prepared"
  /\ Submit(post_tx(c, sending[c].to, sending[c].entry))
  /\ sending' = [sending EXCEPT ![c] = [phase |-> "submitted", tx |-> Len(txs) + 1]]
  /\ UNCHANGED <<ledgerVars, registry, poll, registering, receipts>>

\* Faulty variant: a receipt whatever the effects say.
SendAnsweredUnchecked(c) ==
  /\ sending[c].phase = "submitted"
  /\ txs[sending[c].tx].status # "pending"
  /\ receipts' = receipts \cup {sending[c].tx}
  /\ sending' = [sending EXCEPT ![c] = [phase |-> "idle"]]
  /\ UNCHANGED <<ledgerVars, registry, poll, registering, txs>>

\* waitForTransaction answers: a receipt only if the effects say success.
SendAnswered(c) ==
  /\ sending[c].phase = "submitted"
  /\ txs[sending[c].tx].status # "pending"
  /\ receipts' = IF txs[sending[c].tx].status = "success"
                   THEN receipts \cup {sending[c].tx} ELSE receipts
  /\ sending' = [sending EXCEPT ![c] = [phase |-> "idle"]]
  /\ UNCHANGED <<ledgerVars, registry, poll, registering, txs>>

\* Any await of send rejects: the lookup, the signature, or the answer of a
\* transaction that may be executed all the same.
SendFails(c) ==
  /\ sending[c].phase # "idle"
  /\ sending' = [sending EXCEPT ![c] = [phase |-> "idle"]]
  /\ UNCHANGED <<ledgerVars, registry, poll, registering, txs, receipts>>

\* registerKey: offered when the session shows no entry of the client's, or
\* one with another key.
RegisterClick(c) ==
  /\ registering[c].phase = "idle"
  /\ c \in DOMAIN registry[c] => registry[c][c].pubkey # LocalKey[c]
  /\ registering' = [registering EXCEPT ![c] = [phase |-> "signing"]]
  /\ UNCHANGED <<ledgerVars, registry, poll, sending, txs, receipts>>

RegisterSubmit(c) ==
  /\ registering[c].phase = "signing"
  /\ Submit(register_tx(c))
  /\ registering' = [registering EXCEPT ![c] = [phase |-> "submitted", tx |-> Len(txs) + 1]]
  /\ UNCHANGED <<ledgerVars, registry, poll, sending, receipts>>

\* The answer has arrived, or an await has rejected.
RegisterEnds(c) ==
  /\ registering[c].phase # "idle"
  /\ registering' = [registering EXCEPT ![c] = [phase |-> "idle"]]
  /\ UNCHANGED <<ledgerVars, registry, poll, sending, txs, receipts>>

-----------------------------------------------------------------------------
\* A submitted transaction takes effect, or aborts.
Executes(d) ==
  LET tx == txs[d]
  IN \/ /\ tx.call = "register_encryption_key"
        /\ register_encryption_key(tx.by, tx.pk)
        /\ txs' = [txs EXCEPT ![d].status = "success"]
        /\ UNCHANGED envelopes
     \/ /\ tx.call = "post_envelope"
        /\ post_envelope(tx.by, tx.to, tx.key_id, tx.version,
                         [recipient_pk |-> tx.pk, body |-> d])
        /\ txs' = [txs EXCEPT ![d].status = "success"]
     \/ /\ tx.call = "post_envelope"
        /\ ~build_envelope_asserts(tx.to, tx.key_id, tx.version,
                                   [recipient_pk |-> tx.pk, body |-> d])
        /\ txs' = [txs EXCEPT ![d].status = "failure"]
        /\ UNCHANGED ledgerVars

Execute ==
  /\ \E d \in DOMAIN txs : txs[d].status = "pending" /\ Executes(d)
  /\ UNCHANGED sessionVars

\* Registrations from elsewhere: other devices, other programs.
RegisterElsewhere ==
  /\ \E a \in Accounts, pk \in PubKeys : register_encryption_key(a, pk)
  /\ UNCHANGED <<envelopes, sessionVars, txs>>

Poll(c, l) ==
  \/ \E blank \in SUBSET DOMAIN entries : PollFetched(c, l, blank)
  \/ PollShow(c, l) \/ PollFails(c, l) \/ PollAgain(c, l)

Session(c) ==
  \/ \E l \in Loops(c) : Poll(c, l)
  \/ \E to \in Accounts : SendClick(c, to)
  \/ PrepareSend(c) \/ SendSubmit(c) \/ SendAnswered(c) \/ SendFails(c)
  \/ RegisterClick(c) \/ RegisterSubmit(c) \/ RegisterEnds(c)

Next == Execute \/ RegisterElsewhere \/ \E c \in Clients : Session(c)

\* The timer fires, the fetches of a poll settle, and a node that is asked for
\* ever does answer at times, and then with all objects it listed and the feed.
\* Nothing is assumed of the user, the wallet or the execution of submitted
\* transactions.
Fairness ==
  \A c \in Clients : \A l \in Loops(c) :
    /\ WF_vars(PollAgain(c, l))
    /\ WF_vars(PollShow(c, l) \/ PollFails(c, l))
    /\ SF_vars(PollFetched(c, l, {}))
    /\ SF_vars(PollShow(c, l) /\ poll[c][l].blank = {})

Spec == Init /\ [][Next]_vars /\ Fairness

-----------------------------------------------------------------------------
\* What the app sends can be opened by whoever holds the key that was the
\* recipient's newest at the moment of execution: the envelope is sealed to
\* the key it is anchored to, and no registration came between that key and
\* the envelope, though the entry was read long before and the recipient may
\* have rotated, to the same key or another, while the transaction was on its
\* way.
SealedToNewestKey ==
  \A x \in DOMAIN envelopes :
    LET e == envelopes[x]
    IN /\ e.sealed.recipient_pk = keys[e.recipient_key_id].pubkey
       /\ ~\E id \in KeysOf(e.recipient) : e.recipient_key_id < id /\ id < x

\* A receipt is never wrong: its transaction posted exactly one envelope, from
\* this account to the recipient asked for.
ReceiptsPosted ==
  \A d \in receipts :
    \E x \in DOMAIN envelopes :
      /\ envelopes[x].sealed.body = d
      /\ envelopes[x].sender = txs[d].by
      /\ envelopes[x].recipient = txs[d].to
      /\ \A y \in DOMAIN envelopes : envelopes[y].sealed.body = d => y = x

\* The session shows version v of the account's entry, or a later one.
Shows(c, a, v) == a \in DOMAIN registry[c] /\ registry[c][a].key_version >= v

\* Once a version of an entry was shown, no older one is ever shown again.  The
\* entry may vanish, when a fetch that succeeds lacks it, and come back: then as
\* new as it was or newer.  With the two loops of a development build it would
\* not be so, as the answer fetched first may be the last to be shown.  No entry is
\* of a version before the first.
ShownNeverGoesBack ==
  \A c \in Clients \ DevClients, a \in Accounts, v \in KeyVersions \ {1} :
    [](Shows(c, a, v) => [](a \in DOMAIN registry[c] => Shows(c, a, v)))

\* Every rotation is shown in the end, whatever fetches failed or were
\* incomplete before, and with any number of loops, unless the table has
\* outgrown the pages.
RotationsShown ==
  \A c \in Clients, a \in Accounts, v \in KeyVersions :
    (has_entry(a) /\ entries[a].key_version >= v)
      ~> (Shows(c, a, v) \/ Cardinality(DOMAIN entries) > MaxListed)

=============================================================================
