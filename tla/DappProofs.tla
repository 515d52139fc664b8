----------------------------- MODULE DappProofs -----------------------------
(***************************************************************************)
(* Theorems about browser sessions, for every number of clients, accounts, *)
(* keys and submitted transactions.                                        *)
(***************************************************************************)
EXTENDS Dapp, TLAPS

USE ChainAssumption, RegistryAssumption, DappAssumption

-----------------------------------------------------------------------------
(* The inductive invariant, in parts: the types a proof uses, the ledger's *)
(* newest keys, what captured copies of entries still say, and what the    *)
(* effects of a transaction say of the envelopes.                          *)

Statuses == {"pending", "success", "failure"}

PostTx == [by : Clients, call : {"post_envelope"}, to : Accounts,
           key_id : ObjectIds, version : KeyVersions, pk : PubKeys, status : Statuses]

RegisterTx == [by : Clients, call : {"register_encryption_key"}, pk : PubKeys,
               status : Statuses]

Tx == PostTx \cup RegisterTx

LedgerTypes ==
  /\ now \in 0..MaxTime /\ nextId \in Nat \ {0}
  /\ \A a \in DOMAIN entries : entries[a] \in KeyEntry
  /\ \A id \in DOMAIN keys : id \in Nat /\ id < nextId
  /\ \A x \in DOMAIN envelopes : x \in Nat /\ x < nextId

SessionTypes ==
  /\ DOMAIN registry = Clients /\ DOMAIN poll = Clients /\ DOMAIN sending = Clients
  /\ \A c \in Clients :
       /\ DOMAIN poll[c] = Loops(c)
       /\ sending[c].phase \in {"looking up", "prepared"} => sending[c].to \in Accounts
       /\ sending[c].phase = "prepared" => sending[c].entry \in KeyEntry
       /\ sending[c].phase = "submitted" =>
            sending[c].tx \in DOMAIN txs /\ txs[sending[c].tx].call = "post_envelope"

Types == LedgerTypes /\ txs \in Seq(Tx) /\ SessionTypes

\* An entry names the youngest key object of its account, with its key.
EntryIsYoungest ==
  \A a \in DOMAIN entries :
    /\ entries[a].current_key_id \in KeysOf(a)
    /\ keys[entries[a].current_key_id].pubkey = entries[a].pubkey
    /\ \A id \in KeysOf(a) : id <= entries[a].current_key_id

\* A key id and a public key that were read from one entry belong together.
Paired(key_id, pk) == key_id \in DOMAIN keys /\ keys[key_id].pubkey = pk

CopiesPaired ==
  /\ \A c \in Clients : sending[c].phase = "prepared" =>
       Paired(sending[c].entry.current_key_id, sending[c].entry.pubkey)
  /\ \A d \in DOMAIN txs : txs[d].call = "post_envelope" => Paired(txs[d].key_id, txs[d].pk)

\* An envelope names a key object, the one it is sealed to.
EnvelopesPaired ==
  \A x \in DOMAIN envelopes :
    Paired(envelopes[x].recipient_key_id, envelopes[x].sealed.recipient_pk)

\* An envelope is the doing of a transaction that succeeded, and a post that
\* succeeded made exactly one.
EffectsTrue ==
  /\ \A x \in DOMAIN envelopes :
       /\ envelopes[x].sealed.body \in DOMAIN txs
       /\ txs[envelopes[x].sealed.body].status = "success"
  /\ \A d \in DOMAIN txs : txs[d].call = "post_envelope" /\ txs[d].status = "success" =>
       \E x \in DOMAIN envelopes :
         /\ envelopes[x].sealed.body = d
         /\ envelopes[x].sender = txs[d].by
         /\ envelopes[x].recipient = txs[d].to
         /\ \A y \in DOMAIN envelopes : envelopes[y].sealed.body = d => y = x
  /\ \A d \in receipts :
       d \in DOMAIN txs /\ txs[d].call = "post_envelope" /\ txs[d].status = "success"

\* The entries of g are those of f or later ones.
Follows(g, f) ==
  \A a \in DOMAIN f :
    /\ a \in DOMAIN g
    /\ f[a].key_version \in Nat /\ g[a].key_version \in Nat
    /\ f[a].key_version <= g[a].key_version

\* What a session shows or has fetched is no later than the ledger's, and what
\* a single loop has fetched is no older than what it shows.
ShownFollows ==
  /\ Follows(entries, entries)
  /\ \A c \in Clients :
       /\ Follows(entries, registry[c])
       /\ \A l \in Loops(c) : poll[c][l].phase = "fetched" => Follows(entries, poll[c][l].entries)

FetchedInOrder ==
  \A c \in Clients \ DevClients : poll[c][1].phase = "fetched" =>
    \A a \in DOMAIN poll[c][1].entries \cap DOMAIN registry[c] :
      registry[c][a].key_version <= poll[c][1].entries[a].key_version

DappInv ==
  Types /\ EntryIsYoungest /\ CopiesPaired /\ EnvelopesPaired /\ EffectsTrue /\ ShownFollows
  /\ FetchedInOrder

-----------------------------------------------------------------------------
(* What a step does, pointwise.                                            *)

\* Transaction d got its effects, and no other one did.
Marked(d, status) ==
  /\ d \in DOMAIN txs /\ txs[d].status = "pending"
  /\ txs' \in Seq(Tx) /\ DOMAIN txs' = DOMAIN txs
  /\ \A e \in DOMAIN txs : e # d => txs'[e] = txs[e]
  /\ txs'[d].status = status
  /\ txs'[d].call = txs[d].call /\ txs'[d].by = txs[d].by /\ txs'[d].pk = txs[d].pk
  /\ txs[d].call = "post_envelope" =>
       txs'[d].to = txs[d].to /\ txs'[d].key_id = txs[d].key_id

Registered(account, pk) ==
  /\ nextId' = nextId + 1 /\ now' = now /\ envelopes' = envelopes
  /\ DOMAIN keys' = DOMAIN keys \cup {nextId}
  /\ \A id \in DOMAIN keys : keys'[id] = keys[id]
  /\ keys'[nextId].account = account /\ keys'[nextId].pubkey = pk
  /\ DOMAIN entries' = DOMAIN entries \cup {account}
  /\ \A a \in DOMAIN entries : a # account => entries'[a] = entries[a]
  /\ entries'[account] \in KeyEntry
  /\ entries'[account].pubkey = pk
  /\ entries'[account].current_key_id = nextId
  /\ entries'[account].key_version = next_version(account)

Delivered(d) ==
  /\ has_entry(txs[d].to) /\ entries[txs[d].to].current_key_id = txs[d].key_id
  /\ nextId' = nextId + 1 /\ now' = now /\ entries' = entries /\ keys' = keys
  /\ DOMAIN envelopes' = DOMAIN envelopes \cup {nextId}
  /\ \A x \in DOMAIN envelopes : envelopes'[x] = envelopes[x]
  /\ envelopes'[nextId].sender = txs[d].by
  /\ envelopes'[nextId].recipient = txs[d].to
  /\ envelopes'[nextId].recipient_key_id = txs[d].key_id
  /\ envelopes'[nextId].sealed.recipient_pk = txs[d].pk
  /\ envelopes'[nextId].sealed.body = d

\* The steps of the ledger.
Registers ==
  \E account, pk :
    /\ Registered(account, pk) /\ UNCHANGED sessionVars
    /\ \/ UNCHANGED txs
       \/ \E d : Marked(d, "success") /\ txs[d].call = "register_encryption_key"

Posts(d) ==
  /\ Delivered(d) /\ Marked(d, "success") /\ txs[d].call = "post_envelope"
  /\ UNCHANGED sessionVars

Fails(d) == Marked(d, "failure") /\ UNCHANGED <<ledgerVars, sessionVars>>

\* Effects change nothing of a transaction but its status.
LEMMA TxStatus ==
  ASSUME NEW t \in Tx, NEW s \in Statuses
  PROVE  LET u == [t EXCEPT !.status = s]
         IN /\ u \in Tx /\ u.status = s
            /\ u.call = t.call /\ u.by = t.by /\ u.pk = t.pk
            /\ t.call = "post_envelope" => u.to = t.to /\ u.key_id = t.key_id
<1>1. CASE t \in PostTx
  BY <1>1 DEF PostTx, Tx
<1>2. CASE t \in RegisterTx
  BY <1>2 DEF RegisterTx, Tx
<1>3. QED
  BY <1>1, <1>2 DEF Tx

\* Marking a transaction leaves the others alone.
LEMMA MarkTx ==
  ASSUME txs \in Seq(Tx), NEW d \in DOMAIN txs, txs[d].status = "pending",
         NEW s \in Statuses, txs' = [txs EXCEPT ![d].status = s]
  PROVE  Marked(d, s)
<1>1. txs[d] \in Tx
  OBVIOUS
<1>2. txs' = [txs EXCEPT ![d] = [txs[d] EXCEPT !.status = s]]
  OBVIOUS
<1> DEFINE u == [txs[d] EXCEPT !.status = s]
<1>3. /\ u \in Tx /\ u.status = s
      /\ u.call = txs[d].call /\ u.by = txs[d].by /\ u.pk = txs[d].pk
      /\ txs[d].call = "post_envelope" => u.to = txs[d].to /\ u.key_id = txs[d].key_id
  BY <1>1, TxStatus
<1> HIDE DEF u
<1>4. /\ txs' \in Seq(Tx) /\ DOMAIN txs' = DOMAIN txs
      /\ \A e \in DOMAIN txs : e # d => txs'[e] = txs[e]
      /\ txs'[d] = u
  BY <1>2, <1>3 DEF u
<1>5. QED
  BY <1>3, <1>4 DEF Marked

\* A registration, by a session's transaction or from elsewhere.
LEMMA RegisteredEffect ==
  ASSUME LedgerTypes, NEW account, NEW pk \in PubKeys,
         register_encryption_key(account, pk), UNCHANGED envelopes
  PROVE  Registered(account, pk)
<1>1. nextId \in Nat /\ nextId \in ObjectIds /\ nextId' = nextId + 1
  BY DEF register_encryption_key, NewObject, LedgerTypes, ObjectIds
<1>2. next_version(account) \in KeyVersions
  BY DEF register_encryption_key, next_version, has_entry, LedgerTypes, KeyEntry, KeyVersions
<1> DEFINE entry == [pubkey |-> pk, current_key_id |-> nextId,
                     key_version |-> next_version(account), rotated_at_ms |-> now]
<1>3. entry \in KeyEntry
  BY <1>1, <1>2 DEF KeyEntry, LedgerTypes
<1>4. /\ DOMAIN entries' = DOMAIN entries \cup {account}
      /\ \A a \in DOMAIN entries : a # account => entries'[a] = entries[a]
      /\ entries'[account] = entry
  BY DEF register_encryption_key, put_entry
<1>5. nextId \notin DOMAIN keys
  BY <1>1 DEF LedgerTypes
<1>6. /\ DOMAIN keys' = DOMAIN keys \cup {nextId}
      /\ \A id \in DOMAIN keys : keys'[id] = keys[id]
      /\ keys'[nextId].account = account /\ keys'[nextId].pubkey = pk
      /\ now' = now
  BY <1>5 DEF register_encryption_key
<1>7. QED
  BY <1>1, <1>3, <1>4, <1>6 DEF Registered

\* A post of transaction d.
LEMMA DeliveredEffect ==
  ASSUME LedgerTypes, NEW d,
         post_envelope(txs[d].by, txs[d].to, txs[d].key_id, txs[d].version,
                       [recipient_pk |-> txs[d].pk, body |-> d])
  PROVE  Delivered(d)
<1>1. nextId \notin DOMAIN envelopes
  BY DEF LedgerTypes
<1>2. QED
  BY <1>1 DEF post_envelope, build_envelope_asserts, NewObject, Delivered

\* Every step is one of the ledger, of a session, or none.
LEMMA StepCases ==
  ASSUME Types, [Next]_vars
  PROVE  \/ Registers
         \/ \E d : Posts(d)
         \/ \E d : Fails(d)
         \/ \E c \in Clients : Session(c)
         \/ UNCHANGED vars
<1>1. CASE Execute
  <2>1. PICK d \in DOMAIN txs : txs[d].status = "pending" /\ Executes(d)
    BY <1>1 DEF Execute
  <2>2. UNCHANGED sessionVars
    BY <1>1 DEF Execute
  <2>3. txs \in Seq(Tx) /\ txs[d] \in Tx /\ LedgerTypes
    BY DEF Types
  <2>4. CASE /\ txs[d].call = "register_encryption_key"
             /\ register_encryption_key(txs[d].by, txs[d].pk)
             /\ txs' = [txs EXCEPT ![d].status = "success"]
             /\ UNCHANGED envelopes
    <3>1. txs[d].pk \in PubKeys
      BY <2>3 DEF Tx, PostTx, RegisterTx
    <3>2. Registered(txs[d].by, txs[d].pk)
      BY <2>3, <2>4, <3>1, RegisteredEffect
    <3>3. Marked(d, "success")
      BY <2>1, <2>3, <2>4, MarkTx DEF Statuses
    <3>4. QED
      BY <2>2, <2>4, <3>2, <3>3 DEF Registers
  <2>5. CASE /\ txs[d].call = "post_envelope"
             /\ post_envelope(txs[d].by, txs[d].to, txs[d].key_id, txs[d].version,
                              [recipient_pk |-> txs[d].pk, body |-> d])
             /\ txs' = [txs EXCEPT ![d].status = "success"]
    <3>1. Marked(d, "success")
      BY <2>1, <2>3, <2>5, MarkTx DEF Statuses
    <3>2. QED
      BY <2>2, <2>3, <2>5, <3>1, DeliveredEffect DEF Posts
  <2>6. CASE txs' = [txs EXCEPT ![d].status = "failure"] /\ UNCHANGED ledgerVars
    <3>1. Marked(d, "failure")
      BY <2>1, <2>3, <2>6, MarkTx DEF Statuses
    <3>2. QED
      BY <2>2, <2>6, <3>1 DEF Fails
  <2>7. QED
    BY <2>1, <2>4, <2>5, <2>6 DEF Executes
<1>2. CASE RegisterElsewhere
  <2>1. PICK a \in Accounts, pk \in PubKeys : register_encryption_key(a, pk)
    BY <1>2 DEF RegisterElsewhere
  <2>2. UNCHANGED <<envelopes, sessionVars, txs>>
    BY <1>2 DEF RegisterElsewhere
  <2>3. QED
    BY <2>1, <2>2, RegisteredEffect DEF Registers, Types
<1>3. QED
  BY <1>1, <1>2 DEF Next

\* A session hands on a post made from the entry it captured, or a
\* registration of its own key.
LEMMA SubmittedTx ==
  ASSUME Types, NEW c \in Clients, NEW tx \in Tx, Submit(tx)
  PROVE  /\ txs' \in Seq(Tx) /\ Len(txs) + 1 \in Nat
         /\ DOMAIN txs' = DOMAIN txs \cup {Len(txs) + 1}
         /\ Len(txs) + 1 \notin DOMAIN txs
         /\ \A d \in DOMAIN txs : txs'[d] = txs[d]
         /\ txs'[Len(txs) + 1] = tx
<1>1. txs \in Seq(Tx) /\ txs' = Append(txs, tx)
  BY DEF Types, Submit
<1>2. QED
  BY <1>1

\* A post prepared from an entry is a transaction.
LEMMA PostTxType ==
  ASSUME NEW c \in Clients, NEW to \in Accounts, NEW entry \in KeyEntry
  PROVE  post_tx(c, to, entry) \in Tx
  BY DEF post_tx, Tx, PostTx, KeyEntry, Statuses

\* A registration of the session's key is a transaction.
LEMMA RegisterTxType ==
  ASSUME NEW c \in Clients PROVE register_tx(c) \in Tx
  BY DEF register_tx, Tx, RegisterTx, Statuses

\* What a session's step does to the send it is busy with: it clicks, reads an
\* entry, submits the post made of it, or ends.
SendStep(c, s) ==
  \/ /\ s.phase = "looking up" /\ s.to \in Accounts /\ txs' = txs
  \/ /\ s.phase = "prepared" /\ s.to \in Accounts /\ txs' = txs
     /\ s.to \in DOMAIN entries /\ s.entry = entries[s.to]
  \/ /\ s.phase = "submitted" /\ s.tx = Len(txs) + 1
     /\ sending[c].phase = "prepared"
     /\ Submit(post_tx(c, sending[c].to, sending[c].entry))
  \/ s.phase = "idle" /\ txs' = txs

\* The steps of a session, by what they are about.
LEMMA SessionCases ==
  ASSUME Types, NEW c \in Clients, Session(c)
  PROVE  /\ UNCHANGED ledgerVars
         /\ \/ UNCHANGED <<sending, txs, receipts>>
            \/ /\ \E s : sending' = [sending EXCEPT ![c] = s] /\ SendStep(c, s)
               /\ \/ UNCHANGED receipts
                  \/ /\ sending[c].phase = "submitted"
                     /\ txs[sending[c].tx].status = "success"
                     /\ receipts' = receipts \cup {sending[c].tx}
               /\ UNCHANGED <<registry, poll>>
            \/ Submit(register_tx(c)) /\ UNCHANGED <<sending, receipts, registry, poll>>
<1>0. UNCHANGED ledgerVars
  BY DEF Session, Poll, PollFetched, PollShow, PollFails, PollAgain, SendClick, PrepareSend,
         SendSubmit, SendAnswered, SendFails, RegisterClick, RegisterSubmit, RegisterEnds
<1>1. ASSUME NEW to \in Accounts, SendClick(c, to)
      PROVE  /\ \E s : sending' = [sending EXCEPT ![c] = s] /\ SendStep(c, s)
             /\ UNCHANGED receipts /\ UNCHANGED <<registry, poll>>
  <2> DEFINE s == [phase |-> "looking up", to |-> to]
  <2>1. SendStep(c, s)
    BY <1>1 DEF SendClick, SendStep
  <2>2. QED
    BY <1>1, <2>1 DEF SendClick
<1>2. CASE PrepareSend(c)
  <2> DEFINE s == [phase |-> "prepared", to |-> sending[c].to,
                   entry |-> entries[sending[c].to]]
  <2>1. sending[c].to \in Accounts
    BY <1>2 DEF PrepareSend, Types, SessionTypes
  <2>2. SendStep(c, s)
    BY <1>2, <2>1 DEF PrepareSend, SendStep, has_entry
  <2>3. sending' = [sending EXCEPT ![c] = s] /\ UNCHANGED <<registry, poll, receipts>>
    BY <1>2 DEF PrepareSend
  <2>4. QED
    BY <1>0, <2>2, <2>3
<1>3. CASE SendSubmit(c)
  <2> DEFINE s == [phase |-> "submitted", tx |-> Len(txs) + 1]
  <2>1. SendStep(c, s)
    BY <1>3 DEF SendSubmit, SendStep
  <2>2. sending' = [sending EXCEPT ![c] = s] /\ UNCHANGED <<registry, poll, receipts>>
    BY <1>3 DEF SendSubmit
  <2>3. QED
    BY <1>0, <2>1, <2>2
<1>4. CASE SendAnswered(c) \/ SendFails(c)
  <2> DEFINE s == [phase |-> "idle"]
  <2>1. SendStep(c, s)
    BY <1>4 DEF SendAnswered, SendFails, SendStep
  <2>2. sending' = [sending EXCEPT ![c] = s] /\ UNCHANGED <<registry, poll>>
    BY <1>4 DEF SendAnswered, SendFails
  <2>3. \/ UNCHANGED receipts
        \/ /\ sending[c].phase = "submitted"
           /\ txs[sending[c].tx].status = "success"
           /\ receipts' = receipts \cup {sending[c].tx}
    BY <1>4 DEF SendAnswered, SendFails
  <2>4. QED
    BY <1>0, <2>1, <2>2, <2>3
<1>6. CASE RegisterSubmit(c)
  BY <1>0, <1>6 DEF RegisterSubmit
<1>7. CASE (\E l \in Loops(c) : Poll(c, l)) \/ RegisterClick(c) \/ RegisterEnds(c)
  BY <1>0, <1>7 DEF Poll, PollFetched, PollShow, PollFails, PollAgain, RegisterClick, RegisterEnds
<1>8. QED
  BY <1>0, <1>1, <1>2, <1>3, <1>4, <1>6, <1>7 DEF Session

\* The ledger's part of the types.
LEMMA LedgerTypesStep == Types /\ [Next]_vars => LedgerTypes'
<1> SUFFICES ASSUME Types, [Next]_vars PROVE LedgerTypes'
  OBVIOUS
<1>0. LedgerTypes
  BY DEF Types
<1>1. CASE Registers
  BY <1>0, <1>1 DEF Registers, Registered, LedgerTypes
<1>2. ASSUME NEW d, Posts(d) PROVE LedgerTypes'
  BY <1>0, <1>2 DEF Posts, Delivered, LedgerTypes
<1>3. CASE UNCHANGED ledgerVars
  BY <1>0, <1>3 DEF ledgerVars, chainVars, registryVars, LedgerTypes
<1>4. QED
  BY <1>1, <1>2, <1>3, StepCases, SessionCases DEF Fails, vars

\* Transactions are only added, and get their effects.
LEMMA TxsKept ==
  ASSUME Types, [Next]_vars
  PROVE  /\ txs' \in Seq(Tx)
         /\ \A d \in DOMAIN txs :
              /\ d \in DOMAIN txs' /\ txs'[d].call = txs[d].call
              /\ txs[d].call = "post_envelope" =>
                   txs'[d].key_id = txs[d].key_id /\ txs'[d].pk = txs[d].pk
                   /\ txs'[d].by = txs[d].by /\ txs'[d].to = txs[d].to
              /\ txs[d].status # "pending" => txs'[d].status = txs[d].status
<1>0. txs \in Seq(Tx)
  BY DEF Types
<1>1. ASSUME NEW d, NEW s, Marked(d, s)
      PROVE  /\ txs' \in Seq(Tx)
             /\ \A e \in DOMAIN txs :
                  /\ e \in DOMAIN txs' /\ txs'[e].call = txs[e].call
                  /\ txs[e].call = "post_envelope" =>
                       txs'[e].key_id = txs[e].key_id /\ txs'[e].pk = txs[e].pk
                       /\ txs'[e].by = txs[e].by /\ txs'[e].to = txs[e].to
                  /\ txs[e].status # "pending" => txs'[e].status = txs[e].status
  BY <1>1 DEF Marked
<1>2. CASE UNCHANGED txs
  BY <1>0, <1>2
<1>3. ASSUME NEW tx \in Tx, Submit(tx)
      PROVE  txs' \in Seq(Tx) /\ \A d \in DOMAIN txs : d \in DOMAIN txs' /\ txs'[d] = txs[d]
  BY <1>0, <1>3 DEF Submit
<1>4. ASSUME NEW c \in Clients, Session(c)
      PROVE  UNCHANGED txs \/ \E tx \in Tx : Submit(tx)
  <2>1. CASE \E s : SendStep(c, s)
    <3>1. CASE sending[c].phase = "prepared"
               /\ Submit(post_tx(c, sending[c].to, sending[c].entry))
      <4>1. sending[c].to \in Accounts /\ sending[c].entry \in KeyEntry
        BY <3>1, <1>4 DEF Types, SessionTypes
      <4>2. post_tx(c, sending[c].to, sending[c].entry) \in Tx
        BY <4>1, <1>4, PostTxType
      <4>3. QED
        BY <3>1, <4>2
    <3>2. QED
      BY <2>1, <3>1 DEF SendStep
  <2>2. CASE Submit(register_tx(c))
    BY <1>4, <2>2, RegisterTxType
  <2>3. QED
    BY <1>4, <2>1, <2>2, SessionCases
<1>5. CASE \E c \in Clients : Session(c)
  BY <1>2, <1>3, <1>4, <1>5
<1>6. QED
  BY <1>1, <1>2, <1>5, StepCases DEF Registers, Posts, Fails, vars

\* The sessions' part of the types.
LEMMA SessionTypesStep == Types /\ [Next]_vars => SessionTypes'
<1> SUFFICES ASSUME Types, [Next]_vars PROVE SessionTypes'
  OBVIOUS
<1>0. SessionTypes
  BY DEF Types
<1>1. CASE UNCHANGED <<registry, poll, sending>>
  BY <1>0, <1>1, TxsKept DEF SessionTypes
<1>2. ASSUME NEW c \in Clients, Session(c) PROVE SessionTypes'
  <2>1. /\ DOMAIN registry' = Clients /\ DOMAIN poll' = Clients
        /\ \A b \in Clients : DOMAIN poll'[b] = Loops(b)
    BY <1>0, <1>2 DEF SessionTypes, Session, Poll, PollFetched, PollShow, PollFails, PollAgain,
       SendClick, PrepareSend, SendSubmit, SendAnswered, SendFails, RegisterClick,
       RegisterSubmit, RegisterEnds
  <2>2. CASE UNCHANGED sending
    BY <1>0, <2>1, <2>2, TxsKept DEF SessionTypes
  <2>3. ASSUME NEW s, sending' = [sending EXCEPT ![c] = s], SendStep(c, s)
        PROVE  SessionTypes'
    <3>1. DOMAIN sending' = Clients /\ sending'[c] = s
            /\ \A b \in Clients : b # c => sending'[b] = sending[b]
      BY <1>0, <1>2, <2>3 DEF SessionTypes
    <3>2. s.phase \in {"looking up", "prepared"} => s.to \in Accounts
      BY <2>3 DEF SendStep
    <3>3. s.phase = "prepared" => s.entry \in KeyEntry
      BY <2>3 DEF SendStep, Types, LedgerTypes
    <3>4. s.phase = "submitted" => s.tx \in DOMAIN txs' /\ txs'[s.tx].call = "post_envelope"
      <4> SUFFICES ASSUME s.phase = "submitted"
                   PROVE  s.tx \in DOMAIN txs' /\ txs'[s.tx].call = "post_envelope"
        OBVIOUS
      <4> DEFINE tx == post_tx(c, sending[c].to, sending[c].entry)
      <4>1. s.tx = Len(txs) + 1 /\ sending[c].phase = "prepared" /\ Submit(tx)
        BY <2>3 DEF SendStep
      <4>2. tx \in Tx
        BY <4>1, <1>2, <1>0, PostTxType DEF SessionTypes
      <4>3. tx.call = "post_envelope"
        BY DEF post_tx
      <4> HIDE DEF tx
      <4>4. QED
        BY <1>2, <4>1, <4>2, <4>3, SubmittedTx
    <3>5. ASSUME NEW b \in Clients
          PROVE  /\ sending'[b].phase \in {"looking up", "prepared"}
                      => sending'[b].to \in Accounts
                 /\ sending'[b].phase = "prepared" => sending'[b].entry \in KeyEntry
                 /\ sending'[b].phase = "submitted" =>
                      /\ sending'[b].tx \in DOMAIN txs'
                      /\ txs'[sending'[b].tx].call = "post_envelope"
      <4>1. CASE b = c
        BY <3>1, <3>2, <3>3, <3>4, <4>1
      <4>2. CASE b # c
        <5>1. sending'[b] = sending[b]
          BY <3>1, <4>2
        <5>2. /\ sending[b].phase \in {"looking up", "prepared"} => sending[b].to \in Accounts
              /\ sending[b].phase = "prepared" => sending[b].entry \in KeyEntry
              /\ sending[b].phase = "submitted" =>
                   /\ sending[b].tx \in DOMAIN txs
                   /\ txs[sending[b].tx].call = "post_envelope"
          BY <1>0 DEF SessionTypes
        <5>3. \A d \in DOMAIN txs : d \in DOMAIN txs' /\ txs'[d].call = txs[d].call
          BY TxsKept
        <5>4. QED
          BY <5>1, <5>2, <5>3
      <4>3. QED
        BY <4>1, <4>2
    <3>6. QED
      BY <2>1, <3>1, <3>5 DEF SessionTypes
  <2>4. QED
    BY <1>2, <2>2, <2>3, SessionCases
<1>3. QED
  BY <1>1, <1>2, StepCases DEF Registers, Posts, Fails, vars, sessionVars

\* The types are kept.
LEMMA TypesStep == Types /\ [Next]_vars => Types'
  BY LedgerTypesStep, TxsKept, SessionTypesStep DEF Types

-----------------------------------------------------------------------------
(* Captured entries.  Key objects do not change, so what was read together *)
(* from one entry still belongs together when it is used.                  *)

\* A key object that exists stays as it is.
LEMMA PairedKept ==
  ASSUME Types, [Next]_vars, NEW CONSTANT id, NEW CONSTANT pk, Paired(id, pk)
  PROVE  id \in DOMAIN keys' /\ keys'[id].pubkey = pk
<1>1. CASE Registers
  BY <1>1 DEF Registers, Registered, Paired
<1>2. CASE UNCHANGED keys
  BY <1>2 DEF Paired
<1>3. QED
  BY <1>1, <1>2, StepCases, SessionCases
  DEF Posts, Delivered, Fails, vars, ledgerVars, registryVars

\* Entries stay the youngest: a new key is younger than all.
LEMMA EntryIsYoungestStep == Types /\ EntryIsYoungest /\ [Next]_vars => EntryIsYoungest'
<1> SUFFICES ASSUME Types, EntryIsYoungest, [Next]_vars PROVE EntryIsYoungest'
  OBVIOUS
<1>0. /\ nextId \in Nat
      /\ \A id \in DOMAIN keys : id \in Nat /\ id < nextId
  BY DEF Types, LedgerTypes
<1>1. CASE Registers
  <2>1. PICK account, pk : Registered(account, pk)
    BY <1>1 DEF Registers
  <2>2. QED
    BY <1>0, <2>1 DEF Registered, EntryIsYoungest, KeysOf
<1>2. CASE UNCHANGED registryVars
  BY <1>2 DEF registryVars, EntryIsYoungest, KeysOf
<1>3. QED
  BY <1>1, <1>2, StepCases, SessionCases
  DEF Posts, Delivered, Fails, vars, ledgerVars, registryVars

\* What is captured or submitted stays paired, and so does what is read anew.
LEMMA CopiesPairedStep ==
  Types /\ EntryIsYoungest /\ CopiesPaired /\ [Next]_vars => CopiesPaired'
<1> SUFFICES ASSUME Types, EntryIsYoungest, CopiesPaired, [Next]_vars
             PROVE  CopiesPaired'
  OBVIOUS
<1>0. txs \in Seq(Tx) /\ DOMAIN sending = Clients
  BY DEF Types, SessionTypes
<1>1. \A c \in Clients : sending[c].phase = "prepared" =>
        /\ sending[c].entry.current_key_id \in DOMAIN keys'
        /\ keys'[sending[c].entry.current_key_id].pubkey = sending[c].entry.pubkey
  BY PairedKept DEF CopiesPaired
<1>2. \A d \in DOMAIN txs : txs[d].call = "post_envelope" =>
        /\ txs[d].key_id \in DOMAIN keys'
        /\ keys'[txs[d].key_id].pubkey = txs[d].pk
  BY PairedKept DEF CopiesPaired
<1>3. ASSUME DOMAIN txs' = DOMAIN txs
      PROVE  \A d \in DOMAIN txs' : txs'[d].call = "post_envelope" =>
               Paired(txs[d].key_id, txs[d].pk)'
  BY <1>2, <1>3, TxsKept DEF Paired
<1>4. ASSUME NEW c \in Clients, NEW tx \in Tx, Submit(tx),
             tx.call = "post_envelope" =>
               tx.key_id \in DOMAIN keys' /\ keys'[tx.key_id].pubkey = tx.pk
      PROVE  \A d \in DOMAIN txs' : txs'[d].call = "post_envelope" =>
               Paired(txs[d].key_id, txs[d].pk)'
  BY <1>2, <1>4, SubmittedTx DEF Paired
<1>5. CASE UNCHANGED sending /\ DOMAIN txs' = DOMAIN txs
  BY <1>1, <1>3, <1>5 DEF CopiesPaired, Paired
<1>6. ASSUME NEW c \in Clients, Submit(register_tx(c)), UNCHANGED sending
      PROVE  CopiesPaired'
  <2>1. register_tx(c) \in Tx /\ register_tx(c).call # "post_envelope"
    BY RegisterTxType DEF register_tx
  <2>2. \A d \in DOMAIN txs' : txs'[d].call = "post_envelope" =>
          Paired(txs[d].key_id, txs[d].pk)'
    BY <1>4, <1>6, <2>1
  <2>3. QED
    BY <1>1, <1>6, <2>2 DEF CopiesPaired, Paired
<1>7. ASSUME NEW c \in Clients, NEW s, sending' = [sending EXCEPT ![c] = s],
             SendStep(c, s), UNCHANGED ledgerVars
      PROVE  CopiesPaired'
  <2>1. keys' = keys /\ entries' = entries
    BY <1>7 DEF ledgerVars, registryVars
  <2>2. sending'[c] = s /\ \A b \in Clients : b # c => sending'[b] = sending[b]
    BY <1>0, <1>7
  <2>3. s.phase = "prepared" =>
          /\ s.entry.current_key_id \in DOMAIN keys'
          /\ keys'[s.entry.current_key_id].pubkey = s.entry.pubkey
    BY <1>7, <2>1 DEF SendStep, EntryIsYoungest, KeysOf
  <2>4. \A b \in Clients : sending'[b].phase = "prepared" =>
          /\ sending'[b].entry.current_key_id \in DOMAIN keys'
          /\ keys'[sending'[b].entry.current_key_id].pubkey = sending'[b].entry.pubkey
    BY <1>1, <2>2, <2>3
  <2>5. \A d \in DOMAIN txs' : txs'[d].call = "post_envelope" =>
          Paired(txs[d].key_id, txs[d].pk)'
    <3>1. CASE txs' = txs
      BY <1>3, <3>1
    <3>2. CASE sending[c].phase = "prepared"
               /\ Submit(post_tx(c, sending[c].to, sending[c].entry))
      <4> DEFINE tx == post_tx(c, sending[c].to, sending[c].entry)
      <4>1. sending[c].to \in Accounts /\ sending[c].entry \in KeyEntry
        BY <3>2 DEF Types, SessionTypes
      <4>2. tx \in Tx
        BY <4>1, PostTxType
      <4>3. tx.key_id = sending[c].entry.current_key_id /\ tx.pk = sending[c].entry.pubkey
        BY DEF post_tx
      <4> HIDE DEF tx
      <4>4. tx.key_id \in DOMAIN keys' /\ keys'[tx.key_id].pubkey = tx.pk
        BY <1>1, <3>2, <4>3
      <4>5. QED
        BY <1>4, <3>2, <4>2, <4>4 DEF tx
    <3>3. QED
      BY <1>7, <3>1, <3>2 DEF SendStep
  <2>6. QED
    BY <2>4, <2>5 DEF CopiesPaired, Paired
<1>8. ASSUME NEW c \in Clients, Session(c)
      PROVE  CopiesPaired'
  BY <1>5, <1>6, <1>7, <1>8, SessionCases
<1>9. ASSUME \/ Registers \/ (\E d : Posts(d)) \/ (\E d : Fails(d)) \/ UNCHANGED vars
      PROVE  UNCHANGED sending /\ DOMAIN txs' = DOMAIN txs
  BY <1>9 DEF Registers, Posts, Fails, Marked, sessionVars, vars
<1>10. QED
  BY <1>5, <1>8, <1>9, StepCases

\* An envelope is sealed to the key it names, because its transaction was.
LEMMA EnvelopesPairedStep ==
  Types /\ CopiesPaired /\ EnvelopesPaired /\ [Next]_vars => EnvelopesPaired'
<1> SUFFICES ASSUME Types, CopiesPaired, EnvelopesPaired, [Next]_vars
             PROVE  EnvelopesPaired'
  OBVIOUS
<1>1. \A x \in DOMAIN envelopes :
        /\ envelopes[x].recipient_key_id \in DOMAIN keys'
        /\ keys'[envelopes[x].recipient_key_id].pubkey = envelopes[x].sealed.recipient_pk
  BY PairedKept DEF EnvelopesPaired
<1>2. ASSUME NEW d, Posts(d) PROVE EnvelopesPaired'
  <2>1. /\ d \in DOMAIN txs /\ Delivered(d) /\ txs[d].call = "post_envelope"
        /\ keys' = keys
    BY <1>2 DEF Posts, Delivered, Marked
  <2>2. txs[d].key_id \in DOMAIN keys' /\ keys'[txs[d].key_id].pubkey = txs[d].pk
    BY <2>1 DEF CopiesPaired, Paired
  <2>3. QED
    BY <1>1, <2>1, <2>2 DEF Delivered, EnvelopesPaired, Paired
<1>3. CASE UNCHANGED envelopes
  BY <1>1, <1>3 DEF EnvelopesPaired, Paired
<1>4. QED
  BY <1>2, <1>3, StepCases, SessionCases
  DEF Registers, Registered, Fails, vars, ledgerVars

\* No registration comes between the key of an envelope and the envelope: the
\* key was the youngest of its account, and later ones are younger than both.
LEMMA SealedStep ==
  /\ Types /\ EntryIsYoungest /\ EnvelopesPaired /\ EnvelopesPaired'
  /\ SealedToNewestKey /\ [Next]_vars
  => SealedToNewestKey'
<1> SUFFICES ASSUME Types, EntryIsYoungest, EnvelopesPaired, EnvelopesPaired',
                    SealedToNewestKey, [Next]_vars
             PROVE  SealedToNewestKey'
  OBVIOUS
<1>0. /\ nextId \in Nat
      /\ \A id \in DOMAIN keys : id \in Nat /\ id < nextId
      /\ \A x \in DOMAIN envelopes : x \in Nat /\ x < nextId
  BY DEF Types, LedgerTypes
<1>1. \A x \in DOMAIN envelopes' :
        envelopes'[x].sealed.recipient_pk = keys'[envelopes'[x].recipient_key_id].pubkey
  BY DEF EnvelopesPaired, Paired
<1>2. \A x \in DOMAIN envelopes :
        ~\E id \in KeysOf(envelopes[x].recipient) :
           envelopes[x].recipient_key_id < id /\ id < x
  BY DEF SealedToNewestKey
<1>3. \A x \in DOMAIN envelopes' :
        ~\E id \in KeysOf(envelopes[x].recipient)' :
           envelopes'[x].recipient_key_id < id /\ id < x
  <2>1. CASE Registers
    <3>1. PICK account, pk : Registered(account, pk)
      BY <2>1 DEF Registers
    <3>2. QED
      BY <1>0, <1>2, <3>1 DEF Registered, KeysOf
  <2>2. ASSUME NEW d, Posts(d)
        PROVE  \A x \in DOMAIN envelopes' :
                 ~\E id \in KeysOf(envelopes[x].recipient)' :
                    envelopes'[x].recipient_key_id < id /\ id < x
    <3>1. Delivered(d)
      BY <2>2 DEF Posts
    <3>2. \A id \in KeysOf(txs[d].to) : id <= txs[d].key_id
      BY <3>1 DEF Delivered, EntryIsYoungest, has_entry
    <3>3. txs[d].key_id \in Nat
      BY <1>0, <3>1 DEF Delivered, EntryIsYoungest, has_entry, KeysOf
    <3>4. \A id \in KeysOf(txs[d].to) : ~(txs[d].key_id < id)
      BY <1>0, <3>2, <3>3 DEF KeysOf
    <3>5. QED
      BY <1>2, <3>1, <3>4 DEF Delivered, KeysOf
  <2>3. CASE UNCHANGED <<keys, envelopes>>
    BY <1>2, <2>3 DEF KeysOf
  <2>4. QED
    BY <2>1, <2>2, <2>3, StepCases, SessionCases
    DEF Fails, vars, ledgerVars, registryVars
<1>4. QED
  BY <1>1, <1>3 DEF SealedToNewestKey

-----------------------------------------------------------------------------
(* Effects.                                                                *)

\* A post succeeds by making its envelope, and in no other way.
LEMMA SuccessIsPosting ==
  ASSUME Types, [Next]_vars, NEW d \in DOMAIN txs',
         txs'[d].call = "post_envelope", txs'[d].status = "success"
  PROVE  (d \in DOMAIN txs /\ txs[d].call = "post_envelope" /\ txs[d].status = "success")
           \/ Posts(d)
<1>1. ASSUME NEW tx \in Tx, NEW c \in Clients, Submit(tx), tx.status = "pending"
      PROVE  d \in DOMAIN txs /\ txs'[d] = txs[d]
  BY <1>1, SubmittedTx
<1>2. ASSUME NEW c \in Clients, Session(c) PROVE d \in DOMAIN txs /\ txs'[d] = txs[d]
  <2>1. CASE UNCHANGED txs
    BY <2>1
  <2>2. CASE Submit(register_tx(c))
    <3>1. register_tx(c) \in Tx /\ register_tx(c).status = "pending"
      BY RegisterTxType DEF register_tx
    <3>2. QED
      BY <1>1, <1>2, <2>2, <3>1
  <2>3. CASE sending[c].phase = "prepared"
             /\ Submit(post_tx(c, sending[c].to, sending[c].entry))
    <3> DEFINE tx == post_tx(c, sending[c].to, sending[c].entry)
    <3>1. sending[c].to \in Accounts /\ sending[c].entry \in KeyEntry
      BY <1>2, <2>3 DEF Types, SessionTypes
    <3>2. tx \in Tx /\ tx.status = "pending"
      BY <1>2, <3>1, PostTxType DEF post_tx
    <3> HIDE DEF tx
    <3>3. QED
      BY <1>1, <1>2, <2>3, <3>2 DEF tx
  <2>4. QED
    BY <1>2, <2>1, <2>2, <2>3, SessionCases DEF SendStep
<1>3. ASSUME NEW e, NEW s, Marked(e, s), s = "failure" \/ txs[e].call # "post_envelope"
      PROVE  d \in DOMAIN txs /\ txs[d].call = "post_envelope" /\ txs[d].status = "success"
  BY <1>3 DEF Marked
<1>4. ASSUME NEW e, Posts(e), e # d
      PROVE  d \in DOMAIN txs /\ txs[d].call = "post_envelope" /\ txs[d].status = "success"
  BY <1>4 DEF Posts, Marked
<1>5. CASE UNCHANGED txs
  BY <1>5
<1>6. QED
  BY <1>2, <1>3, <1>4, <1>5, StepCases DEF Registers, Fails, vars

\* Effects stay true: an envelope keeps its transaction, and a transaction that
\* has its effects has them once.
LEMMA EffectsTrueStep == Types /\ EffectsTrue /\ [Next]_vars => EffectsTrue'
<1> SUFFICES ASSUME Types, EffectsTrue, [Next]_vars PROVE EffectsTrue'
  OBVIOUS
<1> DEFINE Posted(d, x) == /\ envelopes[x].sealed.body = d
                           /\ envelopes[x].sender = txs[d].by
                           /\ envelopes[x].recipient = txs[d].to
                           /\ \A y \in DOMAIN envelopes : envelopes[y].sealed.body = d => y = x
<1>1. ASSUME NEW d \in DOMAIN txs, txs[d].status = "success"
      PROVE  d \in DOMAIN txs' /\ txs'[d].status = "success"
  BY <1>1, TxsKept
<1>2. nextId \notin DOMAIN envelopes
  BY DEF Types, LedgerTypes
<1>3. \/ UNCHANGED envelopes
      \/ \E d : Posts(d)
  BY StepCases, SessionCases DEF Registers, Registered, Fails, vars, ledgerVars
<1>4. ASSUME NEW x \in DOMAIN envelopes'
      PROVE  /\ envelopes'[x].sealed.body \in DOMAIN txs'
             /\ txs'[envelopes'[x].sealed.body].status = "success"
  <2>1. ASSUME x \in DOMAIN envelopes, envelopes'[x] = envelopes[x]
        PROVE  /\ envelopes'[x].sealed.body \in DOMAIN txs'
               /\ txs'[envelopes'[x].sealed.body].status = "success"
    BY <1>1, <2>1 DEF EffectsTrue
  <2>2. ASSUME NEW d, Posts(d)
        PROVE  /\ envelopes'[x].sealed.body \in DOMAIN txs'
               /\ txs'[envelopes'[x].sealed.body].status = "success"
    BY <2>1, <2>2 DEF Posts, Delivered, Marked
  <2>3. QED
    BY <1>3, <2>1, <2>2
<1>5. ASSUME NEW d \in DOMAIN txs', txs'[d].call = "post_envelope",
             txs'[d].status = "success"
      PROVE  \E x \in DOMAIN envelopes' : Posted(d, x)'
  <2>1. CASE Posts(d)
    <3>1. Delivered(d) /\ txs'[d].by = txs[d].by /\ txs'[d].to = txs[d].to
            /\ txs[d].status = "pending"
      BY <2>1 DEF Posts, Marked
    <3>2. \A y \in DOMAIN envelopes : envelopes[y].sealed.body # d
      BY <3>1 DEF EffectsTrue
    <3>3. QED
      BY <1>2, <3>1, <3>2 DEF Delivered
  <2>2. CASE d \in DOMAIN txs /\ txs[d].call = "post_envelope" /\ txs[d].status = "success"
    <3>1. PICK x \in DOMAIN envelopes : Posted(d, x)
      BY <2>2 DEF EffectsTrue
    <3>2. txs'[d].by = txs[d].by /\ txs'[d].to = txs[d].to
      BY <2>2, TxsKept
    <3>3. CASE UNCHANGED envelopes
      BY <3>1, <3>2, <3>3
    <3>4. ASSUME NEW e, Posts(e) PROVE \E z \in DOMAIN envelopes' : Posted(d, z)'
      <4>1. Delivered(e) /\ e # d
        BY <2>2, <3>4 DEF Posts, Marked
      <4>2. QED
        BY <1>2, <3>1, <3>2, <4>1 DEF Delivered
    <3>5. QED
      BY <1>3, <3>3, <3>4
  <2>3. QED
    BY <1>5, <2>1, <2>2, SuccessIsPosting
<1>6. ASSUME NEW d \in receipts'
      PROVE  d \in DOMAIN txs' /\ txs'[d].call = "post_envelope" /\ txs'[d].status = "success"
  <2>1. d \in DOMAIN txs /\ txs[d].call = "post_envelope" /\ txs[d].status = "success"
    <3>1. CASE d \in receipts
      BY <3>1 DEF EffectsTrue
    <3>2. CASE d \notin receipts
      <4>1. PICK c \in Clients : Session(c)
        BY <3>2, StepCases DEF Registers, Posts, Fails, vars, sessionVars
      <4>2. /\ sending[c].phase = "submitted" /\ d = sending[c].tx
            /\ txs[sending[c].tx].status = "success"
        BY <3>2, <4>1, SessionCases
      <4>3. QED
        BY <4>2 DEF Types, SessionTypes
    <3>3. QED
      BY <3>1, <3>2
  <2>2. QED
    BY <2>1, TxsKept
<1>7. QED
  BY <1>4, <1>5, <1>6 DEF EffectsTrue

-----------------------------------------------------------------------------
(* What a session shows.  A fetch copies the ledger's entries, a show the  *)
(* fetched ones, and the ledger's only advance.                            *)

\* Later than later is later.
LEMMA FollowsTransitive ==
  ASSUME NEW f, NEW g, NEW h, Follows(h, g), Follows(g, f)
  PROVE  Follows(h, f)
  BY DEF Follows

\* The entries of the ledger advance.
LEMMA EntriesAdvance ==
  ASSUME Types, Follows(entries, entries), [Next]_vars
  PROVE  Follows(entries', entries) /\ Follows(entries', entries')
<1>1. CASE Registers
  <2>1. PICK account, pk : Registered(account, pk)
    BY <1>1 DEF Registers
  <2>2. next_version(account) \in Nat
          /\ (account \in DOMAIN entries => entries[account].key_version <= next_version(account))
    BY DEF next_version, has_entry, Follows
  <2>3. QED
    BY <2>1, <2>2 DEF Registered, Follows
<1>2. CASE entries' = entries
  BY <1>2 DEF Follows
<1>3. QED
  BY <1>1, <1>2, StepCases, SessionCases
  DEF Posts, Delivered, Fails, vars, ledgerVars, registryVars

\* What a step does to the list a session shows and to its loops: one of them
\* fetches, shows or goes on.
PollStep(c) ==
  \/ registry'[c] = registry[c] /\ poll'[c] = poll[c]
  \/ \E l \in Loops(c) :
       /\ \A k \in Loops(c) \ {l} : poll'[c][k] = poll[c][k]
       /\ \/ /\ registry'[c] = registry[c]
             /\ \/ poll'[c][l].phase # "fetched"
                \/ \E read \in SUBSET DOMAIN entries :
                     poll'[c][l].entries = [a \in read |-> entries[a]]
          \/ /\ poll[c][l].phase = "fetched" /\ poll'[c][l].phase # "fetched"
             /\ registry'[c] = poll[c][l].entries

\* The loops of a session are its own, and show only what they fetched.
LEMMA PollCases ==
  ASSUME Types, [Next]_vars
  PROVE  \A c \in Clients : PollStep(c)
<1>0. /\ DOMAIN registry = Clients /\ DOMAIN poll = Clients
      /\ \A c \in Clients : DOMAIN poll[c] = Loops(c)
  BY DEF Types, SessionTypes
<1>1. CASE UNCHANGED <<registry, poll>>
  BY <1>1 DEF PollStep
<1>2. ASSUME NEW b \in Clients, NEW l \in Loops(b), Poll(b, l)
      PROVE  \A c \in Clients : PollStep(c)
  <2>0. ASSUME NEW r, poll' = [poll EXCEPT ![b][l] = r]
        PROVE  /\ poll'[b][l] = r /\ \A k \in Loops(b) \ {l} : poll'[b][k] = poll[b][k]
               /\ \A c \in Clients \ {b} : poll'[c] = poll[c]
    BY <1>0, <2>0
  <2> DEFINE asleep == [phase |-> "sleeping"]
             begun == [phase |-> "fetching"]
  <2>a. asleep.phase = "sleeping" /\ begun.phase = "fetching"
    OBVIOUS
  <2> HIDE DEF asleep, begun
  <2>1. ASSUME NEW blank, PollFetched(b, l, blank) PROVE \A c \in Clients : PollStep(c)
    <3>1. PICK listed \in Listings :
            poll' = [poll EXCEPT ![b][l] =
                       [phase |-> "fetched", blank |-> blank,
                        entries |-> [a \in listed \ blank |-> entries[a]]]]
      BY <2>1 DEF PollFetched
    <3> DEFINE answer == [phase |-> "fetched", blank |-> blank,
                          entries |-> [a \in listed \ blank |-> entries[a]]]
    <3>2. registry' = registry /\ listed \ blank \in SUBSET DOMAIN entries
      BY <2>1 DEF PollFetched, Listings
    <3>3. answer.entries = [a \in listed \ blank |-> entries[a]]
      OBVIOUS
    <3>4. poll' = [poll EXCEPT ![b][l] = answer]
      BY <3>1
    <3> HIDE DEF answer
    <3>5. /\ poll'[b][l] = answer /\ \A k \in Loops(b) \ {l} : poll'[b][k] = poll[b][k]
          /\ \A c \in Clients \ {b} : poll'[c] = poll[c]
      BY <2>0, <3>4
    <3>6. PollStep(b)
      BY <3>2, <3>3, <3>5 DEF PollStep
    <3>7. ASSUME NEW c \in Clients \ {b} PROVE PollStep(c)
      <4>1. registry'[c] = registry[c] /\ poll'[c] = poll[c]
        BY <3>2, <3>5
      <4>2. QED
        BY <4>1 DEF PollStep
    <3>8. QED
      BY <3>6, <3>7
  <2>2. CASE PollShow(b, l)
    <3>1. /\ poll' = [poll EXCEPT ![b][l] = asleep]
          /\ poll[b][l].phase = "fetched"
          /\ registry' = [registry EXCEPT ![b] = poll[b][l].entries]
      BY <2>2 DEF PollShow, asleep
    <3>2. /\ registry'[b] = poll[b][l].entries
          /\ \A c \in Clients \ {b} : registry'[c] = registry[c]
      BY <1>0, <3>1
    <3>3. /\ poll'[b][l].phase # "fetched"
          /\ \A k \in Loops(b) \ {l} : poll'[b][k] = poll[b][k]
          /\ \A c \in Clients \ {b} : poll'[c] = poll[c]
      BY <2>0, <2>a, <3>1
    <3>4. QED
      BY <3>1, <3>2, <3>3 DEF PollStep
  <2>3. CASE PollFails(b, l) \/ PollAgain(b, l)
    <3>1. registry' = registry
      BY <2>3 DEF PollFails, PollAgain
    <3>2. \/ poll' = [poll EXCEPT ![b][l] = asleep]
          \/ poll' = [poll EXCEPT ![b][l] = begun]
      BY <2>3 DEF PollFails, PollAgain, asleep, begun
    <3>3. /\ poll'[b][l].phase # "fetched"
          /\ \A k \in Loops(b) \ {l} : poll'[b][k] = poll[b][k]
          /\ \A c \in Clients \ {b} : poll'[c] = poll[c]
      BY <2>0, <2>a, <3>2
    <3>4. QED
      BY <3>1, <3>3 DEF PollStep
  <2>4. QED
    BY <1>2, <2>1, <2>2, <2>3 DEF Poll
<1>3. ASSUME NEW c \in Clients, Session(c)
      PROVE  UNCHANGED <<registry, poll>> \/ \E l \in Loops(c) : Poll(c, l)
  BY <1>3 DEF Session, SendClick, PrepareSend, SendSubmit, SendAnswered, SendFails,
              RegisterClick, RegisterSubmit, RegisterEnds
<1>4. QED
  BY <1>1, <1>2, <1>3, StepCases DEF Registers, Posts, Fails, vars, sessionVars

\* Shown, fetched and recorded entries stay in this order.
LEMMA ShownFollowsStep == Types /\ ShownFollows /\ [Next]_vars => ShownFollows'
<1> SUFFICES ASSUME Types, ShownFollows, [Next]_vars PROVE ShownFollows'
  OBVIOUS
<1>1. Follows(entries', entries) /\ Follows(entries', entries')
  BY EntriesAdvance DEF ShownFollows
<1>2. ASSUME NEW f, Follows(entries, f) PROVE Follows(entries', f)
  BY <1>1, <1>2, FollowsTransitive
<1>3. ASSUME NEW c \in Clients
      PROVE  /\ Follows(entries', registry'[c])
             /\ \A l \in Loops(c) :
                  poll'[c][l].phase = "fetched" => Follows(entries', poll'[c][l].entries)
  <2>1. /\ Follows(entries, registry[c])
        /\ \A l \in Loops(c) :
             poll[c][l].phase = "fetched" => Follows(entries, poll[c][l].entries)
    BY DEF ShownFollows
  <2>2. PollStep(c)
    BY PollCases
  <2>3. Follows(entries', registry'[c])
    BY <1>2, <2>1, <2>2 DEF PollStep
  <2>4. ASSUME NEW l \in Loops(c), poll'[c][l].phase = "fetched"
        PROVE  Follows(entries', poll'[c][l].entries)
    <3>1. CASE poll'[c][l] = poll[c][l]
      BY <1>2, <2>1, <2>4, <3>1
    <3>2. ASSUME NEW read \in SUBSET DOMAIN entries,
                 poll'[c][l].entries = [a \in read |-> entries[a]]
          PROVE  Follows(entries', poll'[c][l].entries)
      BY <1>1, <3>2 DEF Follows
    <3>3. QED
      BY <2>2, <2>4, <3>1, <3>2 DEF PollStep
  <2>5. QED
    BY <2>3, <2>4
<1>4. QED
  BY <1>1, <1>3 DEF ShownFollows

\* Where one loop runs, its fetch is not overtaken.
LEMMA FetchedInOrderStep ==
  Types /\ ShownFollows /\ FetchedInOrder /\ [Next]_vars => FetchedInOrder'
<1> SUFFICES ASSUME Types, ShownFollows, FetchedInOrder, [Next]_vars,
                    NEW c \in Clients \ DevClients, poll'[c][1].phase = "fetched",
                    NEW a \in DOMAIN poll'[c][1].entries \cap DOMAIN registry'[c]
             PROVE  registry'[c][a].key_version <= poll'[c][1].entries[a].key_version
  BY DEF FetchedInOrder
<1>1. PollStep(c) /\ Loops(c) = {1}
  BY PollCases DEF Loops
<1>2. registry'[c] = registry[c]
  BY <1>1 DEF PollStep
<1>3. CASE poll'[c] = poll[c]
  BY <1>2, <1>3 DEF FetchedInOrder
<1>4. ASSUME NEW read \in SUBSET DOMAIN entries,
             poll'[c][1].entries = [b \in read |-> entries[b]]
      PROVE  registry'[c][a].key_version <= poll'[c][1].entries[a].key_version
  BY <1>2, <1>4 DEF ShownFollows, Follows
<1>5. QED
  BY <1>1, <1>2, <1>3, <1>4 DEF PollStep

\* No session of one loop has an entry of the account older than v under way.
Floor(c, a, v) ==
  /\ a \in DOMAIN entries /\ entries[a].key_version >= v
  /\ a \in DOMAIN registry[c] => registry[c][a].key_version >= v
  /\ poll[c][1].phase = "fetched" /\ a \in DOMAIN poll[c][1].entries =>
       poll[c][1].entries[a].key_version >= v

\* What is shown is a floor.
LEMMA ShownIsFloor ==
  ASSUME ShownFollows, FetchedInOrder,
         NEW c \in Clients \ DevClients, NEW a, NEW v \in Nat, Shows(c, a, v)
  PROVE  Floor(c, a, v)
<1>1. Follows(entries, registry[c]) /\ Loops(c) = {1}
  BY DEF ShownFollows, Loops
<1>2. poll[c][1].phase = "fetched" => Follows(entries, poll[c][1].entries)
  BY <1>1 DEF ShownFollows
<1>3. QED
  BY <1>1, <1>2 DEF Floor, Shows, Follows, FetchedInOrder

\* A floor stays one.
LEMMA FloorStep ==
  ASSUME Types, ShownFollows, [Next]_vars,
         NEW c \in Clients \ DevClients, NEW a, NEW v \in Nat, Floor(c, a, v)
  PROVE  Floor(c, a, v)'
<1>1. Follows(entries', entries) /\ PollStep(c) /\ Loops(c) = {1}
  BY EntriesAdvance, PollCases DEF ShownFollows, Loops
<1>2. a \in DOMAIN entries' /\ entries'[a].key_version >= v
  BY <1>1 DEF Floor, Follows
<1>3. a \in DOMAIN registry'[c] => registry'[c][a].key_version >= v
  BY <1>1 DEF Floor, PollStep
<1>4. poll'[c][1].phase = "fetched" /\ a \in DOMAIN poll'[c][1].entries =>
        poll'[c][1].entries[a].key_version >= v
  <2>1. ASSUME NEW read \in SUBSET DOMAIN entries,
               poll'[c][1].entries = [b \in read |-> entries[b]]
        PROVE  a \in DOMAIN poll'[c][1].entries => poll'[c][1].entries[a].key_version >= v
    BY <2>1 DEF Floor
  <2>2. QED
    BY <1>1, <2>1 DEF Floor, PollStep
<1>5. QED
  BY <1>2, <1>3, <1>4 DEF Floor

-----------------------------------------------------------------------------
(* The theorems.                                                           *)

\* The invariant holds at the start.
LEMMA DappInvInit == Init => DappInv /\ SealedToNewestKey
<1> SUFFICES ASSUME Init PROVE DappInv /\ SealedToNewestKey
  OBVIOUS
<1>1. LedgerTypes
  BY DEF Init, ChainInit, RegistryInit, EnvelopesInit, LedgerTypes
<1>2. txs \in Seq(Tx) /\ SessionTypes
  <2>1. txs \in Seq(Tx)
    BY DEF Init
  <2>2. \A c \in Clients : sending[c].phase = "idle"
    BY DEF Init
  <2>3. /\ DOMAIN registry = Clients /\ DOMAIN poll = Clients /\ DOMAIN sending = Clients
        /\ \A c \in Clients : DOMAIN poll[c] = Loops(c)
    BY DEF Init
  <2>4. QED
    BY <2>1, <2>2, <2>3 DEF SessionTypes
<1>3. EntryIsYoungest /\ EnvelopesPaired /\ SealedToNewestKey
  BY DEF Init, RegistryInit, EnvelopesInit, EntryIsYoungest, EnvelopesPaired, SealedToNewestKey
<1>4. CopiesPaired
  BY DEF Init, CopiesPaired
<1>5. EffectsTrue
  BY DEF Init, EnvelopesInit, EffectsTrue
<1>6. ShownFollows /\ FetchedInOrder
  <2>1. \A c \in Clients : registry[c] = [a \in {} |-> 0]
    BY DEF Init
  <2>2. \A c \in Clients : \A l \in Loops(c) : poll[c][l].phase = "fetching"
    BY DEF Init
  <2>3. \A c \in Clients : 1 \in Loops(c)
    BY DEF Loops
  <2>4. DOMAIN entries = {}
    BY DEF Init, RegistryInit
  <2>5. QED
    BY <2>1, <2>2, <2>3, <2>4 DEF ShownFollows, FetchedInOrder, Follows
<1>7. QED
  BY <1>1, <1>2, <1>3, <1>4, <1>5, <1>6 DEF DappInv, Types

\* The invariant is inductive.
LEMMA DappInvStep == DappInv /\ [Next]_vars => DappInv'
  BY TypesStep, EntryIsYoungestStep, CopiesPairedStep, EnvelopesPairedStep,
     EffectsTrueStep, ShownFollowsStep, FetchedInOrderStep DEF DappInv

\* The invariant of the sessions.
LEMMA DappInvariant == Spec => []DappInv
  BY DappInvInit, DappInvStep, PTL DEF Spec

\* What the app sends is sealed to the key that is the recipient's newest when
\* the transaction executes, however long it was on its way.
THEOREM AlwaysSealedToNewest == Spec => []SealedToNewestKey
<1>1. DappInv /\ DappInv' /\ SealedToNewestKey /\ [Next]_vars => SealedToNewestKey'
  BY SealedStep DEF DappInv
<1>2. QED
  BY <1>1, DappInvInit, DappInvariant, PTL DEF Spec

\* A receipt stands for exactly one envelope, to the recipient asked for.
THEOREM ReceiptsHonest == Spec => []ReceiptsPosted
<1>1. DappInv => ReceiptsPosted
  BY DEF DappInv, EffectsTrue, ReceiptsPosted
<1>2. QED
  BY <1>1, DappInvariant, PTL

\* What the session of a production build has shown of an entry, it never
\* shows an older version of, though fetches may lack the entry.
THEOREM ShownKeepsUp == Spec => ShownNeverGoesBack
<1>1. ASSUME NEW c \in Clients \ DevClients, NEW a \in Accounts, NEW v \in KeyVersions \ {1}
      PROVE  Spec => [](Shows(c, a, v) => [](a \in DOMAIN registry[c] => Shows(c, a, v)))
  <2>0. v \in Nat
    BY DEF KeyVersions
  <2>1. DappInv /\ Shows(c, a, v) => Floor(c, a, v)
    BY <2>0, ShownIsFloor DEF DappInv
  <2>2. DappInv /\ Floor(c, a, v) /\ [Next]_vars => Floor(c, a, v)'
    BY <2>0, FloorStep DEF DappInv
  <2>3. Floor(c, a, v) => (a \in DOMAIN registry[c] => Shows(c, a, v))
    BY DEF Floor, Shows
  <2>4. QED
    BY <2>1, <2>2, <2>3, DappInvariant, PTL DEF Spec
<1>2. QED
  BY <1>1 DEF ShownNeverGoesBack

=============================================================================
