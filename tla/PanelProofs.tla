---------------------------- MODULE PanelProofs ----------------------------
(***************************************************************************)
(* Theorems about the commit panel, for every set of accounts, texts and   *)
(* blindings, every field and every number of clicks.                      *)
(***************************************************************************)
EXTENDS Panel, TLAPS

USE ChainAssumption, PedersenAssumption, CommitmentsAssumption, PanelAssumption

-----------------------------------------------------------------------------
(* The inductive invariant, in parts.                                      *)

LedgerEvent == SecretCommitted \cup SecretOpened \cup SecretPartialOpened \cup ProofVerified

LedgerTypes ==
  /\ now \in 0..MaxTime /\ nextId \in 1..(MaxObjects + 1)
  /\ events \in Seq(LedgerEvent)
  /\ DOMAIN commitments \subseteq 1..(nextId - 1)
  /\ commitments \in [DOMAIN commitments -> SecretCommitment]

Call == [kind : {"commit", "open", "prove"}, phase : {"proving", "signing", "waiting", "done"},
         tx : {"none", "pending", "success", "failure"}, by : Signers, live : BOOLEAN,
         subject : PendingCommit]

PanelTypes ==
  /\ activeSigner \in Signers
  /\ mounted \in BOOLEAN /\ busy \in BOOLEAN
  /\ pending \in PendingCommit \cup {None}
  /\ calls \in Seq(Call)

\* A commitment object has the point of s, under the encoding of texts.
Recorded(cs, s) ==
  /\ s.id \in DOMAIN cs
  /\ cs[s.id].point = s.point /\ cs[s.id].encoding_id = TextUtf8

\* The opening of s has been published.
OpenLogged(ev, s) ==
  \E k \in DOMAIN ev :
    /\ ev[k].type = "SecretOpened" /\ ev[k].commitment_id = s.id
    /\ ev[k].stream = s.stream /\ ev[k].blinding = s.blinding

\* A partial open of s with this first element has been verified.
ProofLogged(ev, s, value) ==
  \E k \in DOMAIN ev :
    /\ ev[k].type = "SecretPartialOpened" /\ ev[k].commitment_id = s.id
    /\ ev[k].claimed_first_value = value

\* What s holds opens its point.
Opens(s) ==
  /\ s.point = pedersen_commit(TextUtf8, s.stream, s.blinding)
  /\ s.proven \in {None, s.stream[1]}

\* All that s says is so on the ledger.
Holds(cs, ev, s) ==
  /\ Recorded(cs, s) /\ Opens(s)
  /\ s.opened => OpenLogged(ev, s)
  /\ s.proven # None => ProofLogged(ev, s, s.proven)

\* A call is about what the panel held, and a transaction that succeeded has
\* left what the panel will say.
CallHolds(cs, ev, c) ==
  /\ Opens(c.subject)
  /\ c.kind = "commit" =>
       /\ ~c.subject.opened /\ c.subject.proven = None
       /\ c.tx = "success" => Recorded(cs, c.subject)
  /\ c.kind # "commit" => Holds(cs, ev, c.subject)
  /\ c.kind = "open" /\ c.tx = "success" => OpenLogged(ev, c.subject)
  /\ c.kind = "prove" /\ c.tx = "success" => ProofLogged(ev, c.subject, c.subject.stream[1])

PanelHolds ==
  /\ pending # None => Holds(commitments, events, pending)
  /\ \A n \in DOMAIN calls : CallHolds(commitments, events, calls[n])

\* A call the mounted panel still waits for.
Live(c) == c.live /\ c.phase # "done"

\* The panel waits for one call at a time, which is about what it holds, or
\* made when nothing was left to reveal.
OneCall ==
  /\ \A n \in DOMAIN calls : Live(calls[n]) => busy
  /\ \A n, m \in DOMAIN calls : Live(calls[n]) /\ Live(calls[m]) => n = m
  /\ \A n \in DOMAIN calls : Live(calls[n]) =>
       /\ calls[n].kind # "commit" => pending = calls[n].subject
       /\ calls[n].kind = "commit" =>
            /\ pending # None => pending.opened
            /\ pending # None /\ calls[n].tx = "success" => calls[n].subject.id # pending.id

\* A derivation that counts is the active signer's, and the account shown is
\* his when none is left.
DerivationsCurrent ==
  /\ derivations \subseteq [of : Signers, cancelled : BOOLEAN]
  /\ \A d \in derivations : ~d.cancelled => d.of = activeSigner
  /\ AccountIsSigners

-----------------------------------------------------------------------------
(* The ledger: what an entry function adds, and that nothing is taken away.*)

\* A commitment computed by pedersen_commit is a point.
LEMMA CommitIsPoint ==
  ASSUME NEW e \in Words, NEW s \in Streams, NEW b \in Blindings
  PROVE  pedersen_commit(e, s, b) \in Points
<1>1. ASSUME NEW i \in 0..MaxStream
      PROVE  augmented_stream(e, s)[i] % ScalarL \in 0..(ScalarL - 1)
  <2>1. PICK n \in 0..MaxStream : s \in [1..n -> Words]
    BY DEF Streams, StreamsOfLength
  <2>2. augmented_stream(e, s)[i] \in Nat
    BY <2>1 DEF augmented_stream, Words
  <2>3. QED
    BY <2>2
<1>2. QED
  BY <1>1 DEF pedersen_commit, Points, fq_to_fr

\* What is logged stays logged, and a commitment keeps its point and encoding.
LedgerKept ==
  /\ \A i \in DOMAIN events : i \in DOMAIN events' /\ events'[i] = events[i]
  /\ \A id \in DOMAIN commitments :
       /\ id \in DOMAIN commitments'
       /\ commitments'[id].point = commitments[id].point
       /\ commitments'[id].encoding_id = commitments[id].encoding_id

\* Appending one event.
LEMMA EventAppended ==
  ASSUME events \in Seq(LedgerEvent), NEW e \in LedgerEvent, events' = Append(events, e)
  PROVE  /\ events' \in Seq(LedgerEvent)
         /\ \A i \in DOMAIN events : i \in DOMAIN events' /\ events'[i] = events[i]
         /\ \E k \in DOMAIN events' : events'[k] = e
<1>1. /\ events' \in Seq(LedgerEvent)
      /\ \A i \in DOMAIN events : i \in DOMAIN events' /\ events'[i] = events[i]
  OBVIOUS
<1>2. Len(events) + 1 \in DOMAIN events' /\ events'[Len(events) + 1] = e
  OBVIOUS
<1>3. QED
  BY <1>1, <1>2

\* The objects there are have ids of objects and their type.
LEMMA ObjectTyped ==
  ASSUME LedgerTypes, NEW id \in DOMAIN commitments
  PROVE  id \in ObjectIds /\ commitments[id] \in SecretCommitment
<1>1. /\ nextId \in 1..(MaxObjects + 1) /\ id \in 1..(nextId - 1)
      /\ commitments[id] \in SecretCommitment
  BY DEF LedgerTypes
<1>2. id \in 1..MaxObjects
  BY <1>1
<1>3. QED
  BY <1>1, <1>2 DEF ObjectIds

\* commit_secret adds a commitment with the point it is given.
LEMMA CommitLedger ==
  ASSUME LedgerTypes, NEW a \in Accounts, NEW point \in Points,
         commit_secret(a, TextUtf8, point)
  PROVE  /\ LedgerTypes' /\ LedgerKept
         /\ nextId \in 0..MaxObjects /\ nextId \notin DOMAIN commitments
         /\ nextId \in DOMAIN commitments'
         /\ commitments'[nextId].point = point
         /\ commitments'[nextId].encoding_id = TextUtf8
<1>1. /\ nextId \in ObjectIds /\ nextId \in Nat /\ nextId' = nextId + 1
      /\ nextId' \in 1..(MaxObjects + 1)
      /\ 1..(nextId' - 1) = 1..(nextId - 1) \cup {nextId}
      /\ nextId \notin 1..(nextId - 1)
  <2>1. nextId \in 1..(MaxObjects + 1) /\ nextId <= MaxObjects /\ nextId' = nextId + 1
    BY DEF LedgerTypes, commit_secret, NewObject
  <2>2. nextId \in Nat /\ 1 <= nextId /\ nextId' \in 1..(MaxObjects + 1)
    BY <2>1
  <2>3. \A x : x \in 1..nextId <=> x \in 1..(nextId - 1) \/ x = nextId
    BY <2>2
  <2>4. nextId' - 1 = nextId
    BY <2>1, <2>2
  <2>5. QED
    BY <2>1, <2>2, <2>3, <2>4 DEF ObjectIds
<1> DEFINE c == [author |-> a, owner |-> a, encoding_id |-> TextUtf8, point |-> point,
                 created_at_ms |-> now, opened |-> FALSE, opened_at_ms |-> 0]
           e == [type |-> "SecretCommitted", commitment_id |-> nextId, author |-> a,
                 encoding_id |-> TextUtf8, point |-> point, created_at_ms |-> now]
<1>2. c \in SecretCommitment /\ c.point = point /\ c.encoding_id = TextUtf8
  BY DEF SecretCommitment, LedgerTypes
<1>3. e \in LedgerEvent
  BY <1>1 DEF LedgerEvent, SecretCommitted, LedgerTypes
<1>4. /\ events' = Append(events, e) /\ now' = now
      /\ commitments' = [id \in DOMAIN commitments \cup {nextId} |->
                           IF id = nextId THEN c ELSE commitments[id]]
  BY DEF commit_secret, Emit
<1> HIDE DEF c, e
<1>5. nextId \notin DOMAIN commitments /\ DOMAIN commitments' \subseteq 1..(nextId' - 1)
  BY <1>1, <1>4 DEF LedgerTypes
<1>6. commitments' \in [DOMAIN commitments' -> SecretCommitment]
  BY <1>2, <1>4 DEF LedgerTypes
<1>7. /\ events' \in Seq(LedgerEvent)
      /\ \A i \in DOMAIN events : i \in DOMAIN events' /\ events'[i] = events[i]
  BY <1>3, <1>4, EventAppended DEF LedgerTypes
<1>8. LedgerTypes'
  BY <1>1, <1>4, <1>5, <1>6, <1>7 DEF LedgerTypes
<1>9. LedgerKept
  BY <1>4, <1>5, <1>7 DEF LedgerKept
<1>10. QED
  BY <1>1, <1>2, <1>4, <1>5, <1>8, <1>9 DEF ObjectIds

\* open_secret logs the stream and the blinding it is given.
LEMMA OpenLedger ==
  ASSUME LedgerTypes, NEW a, NEW id, NEW stream \in Streams, NEW blinding \in Blindings,
         open_secret(a, id, stream, blinding)
  PROVE  /\ LedgerTypes' /\ LedgerKept
         /\ \E k \in DOMAIN events' :
              /\ events'[k].type = "SecretOpened" /\ events'[k].commitment_id = id
              /\ events'[k].stream = stream /\ events'[k].blinding = blinding
<1>1. id \in DOMAIN commitments /\ commitments[id] \in SecretCommitment /\ id \in ObjectIds
  <2>1. id \in DOMAIN commitments
    BY DEF open_secret, Owns
  <2>2. QED
    BY <2>1, ObjectTyped
<1> DEFINE e == [type |-> "SecretOpened", commitment_id |-> id,
                 author |-> commitments[id].author,
                 encoding_id |-> commitments[id].encoding_id,
                 point |-> commitments[id].point,
                 stream |-> stream, blinding |-> blinding, opened_at_ms |-> now]
<1>2. e \in LedgerEvent
  BY <1>1 DEF LedgerEvent, SecretOpened, SecretCommitment, LedgerTypes
<1>3. /\ events' = Append(events, e) /\ now' = now /\ nextId' = nextId
      /\ commitments' = [commitments EXCEPT ![id].opened = TRUE, ![id].opened_at_ms = now]
  BY DEF open_secret, Emit
<1>4. /\ e.type = "SecretOpened" /\ e.commitment_id = id
      /\ e.stream = stream /\ e.blinding = blinding
  OBVIOUS
<1> HIDE DEF e
<1>5. /\ events' \in Seq(LedgerEvent)
      /\ \A i \in DOMAIN events : i \in DOMAIN events' /\ events'[i] = events[i]
      /\ \E k \in DOMAIN events' : events'[k] = e
  BY <1>2, <1>3, EventAppended DEF LedgerTypes
<1>6. /\ DOMAIN commitments' = DOMAIN commitments
      /\ commitments' \in [DOMAIN commitments' -> SecretCommitment]
      /\ \A x \in DOMAIN commitments :
           /\ commitments'[x].point = commitments[x].point
           /\ commitments'[x].encoding_id = commitments[x].encoding_id
  BY <1>1, <1>3 DEF LedgerTypes, SecretCommitment
<1>7. LedgerTypes'
  BY <1>3, <1>5, <1>6 DEF LedgerTypes
<1>8. LedgerKept
  BY <1>5, <1>6 DEF LedgerKept
<1>9. QED
  BY <1>4, <1>5, <1>7, <1>8

\* open_with_proof logs the claim.
LEMMA ProveLedger ==
  ASSUME LedgerTypes, NEW a, NEW id, NEW claimed \in Words, NEW proof,
         open_with_proof(a, id, claimed, proof)
  PROVE  /\ LedgerTypes' /\ LedgerKept
         /\ \E k \in DOMAIN events' :
              /\ events'[k].type = "SecretPartialOpened" /\ events'[k].commitment_id = id
              /\ events'[k].claimed_first_value = claimed
<1> DEFINE c == commitments[id]
           d == [type |-> "ProofVerified", inputs |-> public_inputs(c, claimed)]
           e == [type |-> "SecretPartialOpened", commitment_id |-> id,
                 author |-> c.author, encoding_id |-> c.encoding_id,
                 point |-> c.point, claimed_first_value |-> claimed,
                 opened_at_ms |-> now]
<1>1. id \in DOMAIN commitments /\ c \in SecretCommitment /\ id \in ObjectIds
  <2>1. id \in DOMAIN commitments
    BY DEF open_with_proof, Owns
  <2>2. QED
    BY <2>1, ObjectTyped
<1>2. d \in LedgerEvent
  BY <1>1 DEF LedgerEvent, ProofVerified, public_inputs, PublicInputs, SecretCommitment
<1>3. e \in LedgerEvent
  BY <1>1 DEF LedgerEvent, SecretPartialOpened, SecretCommitment, LedgerTypes
<1>4. /\ events' = Append(Append(events, d), e)
      /\ UNCHANGED <<now, nextId, commitments>>
  BY DEF open_with_proof
<1>5. /\ e.type = "SecretPartialOpened" /\ e.commitment_id = id
      /\ e.claimed_first_value = claimed
  OBVIOUS
<1>6. events \in Seq(LedgerEvent)
  BY DEF LedgerTypes
<1> HIDE DEF c, d, e
<1>7. /\ events' \in Seq(LedgerEvent)
      /\ \A i \in DOMAIN events : i \in DOMAIN events' /\ events'[i] = events[i]
  BY <1>2, <1>3, <1>4, <1>6
<1>8. Len(events) + 2 \in DOMAIN events' /\ events'[Len(events) + 2] = e
  BY <1>2, <1>3, <1>4, <1>6
<1>9. LedgerTypes'
  BY <1>4, <1>7 DEF LedgerTypes
<1>10. LedgerKept
  BY <1>4, <1>7 DEF LedgerKept
<1>11. QED
  BY <1>5, <1>8, <1>9, <1>10

\* public_transfer changes an owner.
LEMMA TransferLedger ==
  ASSUME LedgerTypes, NEW id, NEW to \in Accounts, public_transfer(id, to)
  PROVE  LedgerTypes' /\ LedgerKept
<1>1. /\ id \in DOMAIN commitments /\ UNCHANGED chainVars
      /\ commitments' = [commitments EXCEPT ![id].owner = to]
  BY DEF public_transfer
<1>2. /\ DOMAIN commitments' = DOMAIN commitments
      /\ commitments' \in [DOMAIN commitments' -> SecretCommitment]
      /\ \A x \in DOMAIN commitments :
           /\ commitments'[x].point = commitments[x].point
           /\ commitments'[x].encoding_id = commitments[x].encoding_id
  <2>1. commitments[id] \in SecretCommitment
    BY <1>1, ObjectTyped
  <2>2. [commitments[id] EXCEPT !.owner = to] \in SecretCommitment
    BY <2>1 DEF SecretCommitment
  <2>3. /\ [commitments[id] EXCEPT !.owner = to].point = commitments[id].point
        /\ [commitments[id] EXCEPT !.owner = to].encoding_id = commitments[id].encoding_id
    BY <2>1 DEF SecretCommitment
  <2>4. commitments \in [DOMAIN commitments -> SecretCommitment]
    BY DEF LedgerTypes
  <2>5. QED
    BY <1>1, <2>2, <2>3, <2>4
<1>3. QED
  BY <1>1, <1>2 DEF LedgerTypes, LedgerKept, chainVars

-----------------------------------------------------------------------------
(* The calls, one at a time.                                               *)

\* Call n has become d, and no other one has changed.
CallMoved(n, d) ==
  /\ n \in DOMAIN calls /\ d \in Call
  /\ calls' \in Seq(Call) /\ DOMAIN calls' = DOMAIN calls
  /\ calls'[n] = d
  /\ \A m \in DOMAIN calls : m # n => calls'[m] = calls[m]

\* The parts of a call no answer changes.
SameCall(c, d) == d.kind = c.kind /\ d.live = c.live /\ d.subject = c.subject

\* Texts are streams with a first word.
LEMMA TextStream ==
  ASSUME NEW s \in Texts PROVE s \in Streams /\ s[1] \in Words
<1>1. s \in [1..StreamLen -> Words]
  BY DEF StreamsOfLength
<1>2. s \in Streams
  BY <1>1 DEF Streams, StreamsOfLength
<1>3. 1 \in 1..StreamLen
  OBVIOUS
<1>4. QED
  BY <1>1, <1>2, <1>3

\* Replacing one call.
LEMMA MoveCall ==
  ASSUME calls \in Seq(Call), NEW n \in DOMAIN calls, NEW d \in Call,
         calls' = [calls EXCEPT ![n] = d]
  PROVE  CallMoved(n, d)
  BY DEF CallMoved

\* An answer or a rejection of call n: it is what it was, further on.
Advanced(n, d) ==
  /\ CallMoved(n, d) /\ SameCall(calls[n], d)
  /\ d.tx = "success" => calls[n].tx = "success"
  /\ UNCHANGED <<ledgerVars, sessionVars, mounted>>
  /\ \/ /\ calls[n].phase # "done" /\ UNCHANGED <<busy, pending>>
     \/ /\ d.phase = "done" /\ calls[n].phase # "done"
        /\ busy' = IF calls[n].live THEN FALSE ELSE busy
        /\ \/ UNCHANGED pending
           \/ calls[n].live /\ calls[n].tx = "success" /\ pending' = Result(n)

\* What a call's answer does.
LEMMA ProceedsEffect ==
  ASSUME calls \in Seq(Call), NEW n \in DOMAIN calls, Proceeds(n)
  PROVE  \E d \in Call : Advanced(n, d)
<1>0. calls[n] \in Call
  OBVIOUS
<1>1. CASE Proved(n)
  <2> DEFINE d == [calls[n] EXCEPT !.phase = "signing"]
  <2>1. d \in Call /\ SameCall(calls[n], d) /\ d.tx = calls[n].tx
    BY <1>0 DEF Call, SameCall
  <2>2. calls' = [calls EXCEPT ![n] = d]
    BY <1>1 DEF Proved
  <2>3. CallMoved(n, d)
    BY <2>1, <2>2, MoveCall
  <2>4. calls[n].phase # "done" /\ UNCHANGED <<ledgerVars, sessionVars, panelVars>>
    BY <1>1 DEF Proved
  <2> HIDE DEF d
  <2>5. QED
    BY <2>1, <2>3, <2>4 DEF Advanced, panelVars
<1>2. CASE Submit(n)
  <2> DEFINE d == [calls[n] EXCEPT !.phase = "waiting", !.tx = "pending"]
  <2>1. d \in Call /\ SameCall(calls[n], d) /\ d.tx = "pending"
    BY <1>0 DEF Call, SameCall
  <2>2. calls' = [calls EXCEPT ![n] = d]
    BY <1>2 DEF Submit
  <2>3. CallMoved(n, d)
    BY <2>1, <2>2, MoveCall
  <2>4. calls[n].phase # "done" /\ UNCHANGED <<ledgerVars, sessionVars, panelVars>>
    BY <1>2 DEF Submit
  <2> HIDE DEF d
  <2>5. QED
    BY <2>1, <2>3, <2>4 DEF Advanced, panelVars
<1>3. CASE Answered(n) \/ CallFails(n)
  <2> DEFINE d == [calls[n] EXCEPT !.phase = "done"]
  <2>1. d \in Call /\ SameCall(calls[n], d) /\ d.tx = calls[n].tx /\ d.phase = "done"
    BY <1>0 DEF Call, SameCall
  <2>2. calls' = [calls EXCEPT ![n] = d]
    BY <1>3 DEF Answered, CallFails
  <2>3. CallMoved(n, d)
    BY <2>1, <2>2, MoveCall
  <2>4. /\ calls[n].phase # "done" /\ UNCHANGED <<ledgerVars, sessionVars, mounted>>
        /\ busy' = IF calls[n].live THEN FALSE ELSE busy
        /\ \/ UNCHANGED pending
           \/ calls[n].live /\ calls[n].tx = "success" /\ pending' = Result(n)
    BY <1>3 DEF Answered, CallFails
  <2> HIDE DEF d
  <2>5. QED
    BY <2>1, <2>3, <2>4 DEF Advanced
<1>4. QED
  BY <1>1, <1>2, <1>3 DEF Proceeds

\* A click adds one call, which no transaction stands for yet.
Started(d, kind, subject) ==
  /\ d \in Call /\ d.kind = kind /\ d.subject = subject /\ d.live /\ d.tx = "none"
  /\ calls' \in Seq(Call) /\ Len(calls) + 1 \in Nat
  /\ DOMAIN calls' = DOMAIN calls \cup {Len(calls) + 1}
  /\ Len(calls) + 1 \notin DOMAIN calls
  /\ calls'[Len(calls) + 1] = d
  /\ \A m \in DOMAIN calls : calls'[m] = calls[m]
  /\ busy' = TRUE /\ UNCHANGED <<ledgerVars, sessionVars, mounted, pending>>

\* What a click does to the calls.
LEMMA StartEffect ==
  ASSUME calls \in Seq(Call), activeSigner \in Signers, NEW kind \in {"commit", "open", "prove"},
         NEW phase \in {"proving", "signing"}, NEW subject \in PendingCommit,
         Start(kind, phase, subject)
  PROVE  \E d : Started(d, kind, subject)
<1> DEFINE d == [kind |-> kind, phase |-> phase, tx |-> "none",
                 by |-> activeSigner, live |-> TRUE, subject |-> subject]
<1>1. d \in Call /\ d.kind = kind /\ d.subject = subject /\ d.live /\ d.tx = "none"
  BY DEF Call
<1>2. /\ calls' = Append(calls, d) /\ busy' = TRUE
      /\ UNCHANGED <<ledgerVars, sessionVars, mounted, pending>>
  BY DEF Start
<1> HIDE DEF d
<1>3. /\ calls' \in Seq(Call) /\ Len(calls) + 1 \in Nat
      /\ DOMAIN calls' = DOMAIN calls \cup {Len(calls) + 1}
      /\ Len(calls) + 1 \notin DOMAIN calls
      /\ calls'[Len(calls) + 1] = d
      /\ \A m \in DOMAIN calls : calls'[m] = calls[m]
  BY <1>1, <1>2
<1>4. QED
  BY <1>1, <1>2, <1>3 DEF Started

\* Which clicks there are, and what they start.
LEMMA ClickEffect ==
  ASSUME PanelTypes, CommitClick \/ OpenClick \/ ProveClick
  PROVE  /\ ~busy /\ mounted
         /\ \E d, kind, subject :
              /\ Started(d, kind, subject) /\ subject \in PendingCommit
              /\ \/ /\ kind = "commit" /\ (pending # None => pending.opened)
                    /\ subject.point = pedersen_commit(TextUtf8, subject.stream,
                                                       subject.blinding)
                    /\ ~subject.opened /\ subject.proven = None
                 \/ kind \in {"open", "prove"} /\ subject = pending /\ pending # None
<1>0. calls \in Seq(Call) /\ activeSigner \in Signers
  BY DEF PanelTypes
<1>1. CASE CommitClick
  <2>1. PICK stream \in Texts, blinding \in FreshBlindings :
          Start("commit", "signing",
             [id |-> 0, stream |-> stream, blinding |-> blinding,
              point |-> pedersen_commit(TextUtf8, stream, blinding),
              opened |-> FALSE, proven |-> None])
    BY <1>1 DEF CommitClick
  <2> DEFINE s == [id |-> 0, stream |-> stream, blinding |-> blinding,
                   point |-> pedersen_commit(TextUtf8, stream, blinding),
                   opened |-> FALSE, proven |-> None]
  <2>2. blinding \in Blindings /\ stream \in Streams /\ TextUtf8 \in Words
    BY <2>1, TextStream DEF FreshBlindings
  <2>3. pedersen_commit(TextUtf8, stream, blinding) \in Points
    BY <2>2, CommitIsPoint
  <2>4. s \in PendingCommit
    BY <2>2, <2>3 DEF PendingCommit
  <2>5. /\ s.point = pedersen_commit(TextUtf8, s.stream, s.blinding)
        /\ ~s.opened /\ s.proven = None
    OBVIOUS
  <2> HIDE DEF s
  <2>6. \E d : Started(d, "commit", s)
    BY <1>0, <2>1, <2>4, StartEffect DEF s
  <2>7. ~busy /\ mounted /\ (pending # None => pending.opened)
    BY <1>1 DEF CommitClick, Unrevealed
  <2>8. QED
    BY <2>4, <2>5, <2>6, <2>7
<1>2. CASE OpenClick \/ ProveClick
  <2>1. PICK kind \in {"open", "prove"}, phase \in {"proving", "signing"} :
          Start(kind, phase, pending)
    BY <1>2 DEF OpenClick, ProveClick
  <2>2. mounted /\ ~busy /\ pending # None
    BY <1>2 DEF OpenClick, ProveClick, Offered, Unrevealed
  <2>3. pending \in PendingCommit
    BY <2>2 DEF PanelTypes
  <2>4. \E d : Started(d, kind, pending)
    BY <1>0, <2>1, <2>3, StartEffect
  <2>5. QED
    BY <2>1, <2>2, <2>3, <2>4
<1>3. QED
  BY <1>1, <1>2

-----------------------------------------------------------------------------
(* The steps.                                                              *)

\* The transaction of call n has succeeded or failed, with what it logged.
Executed(n, d) ==
  /\ CallMoved(n, d)
  /\ d.kind = calls[n].kind /\ d.live = calls[n].live /\ d.phase = calls[n].phase
  /\ LedgerTypes' /\ LedgerKept
  /\ \/ d.tx = "failure" /\ d.subject = calls[n].subject
     \/ d.kind = "open" /\ d.subject = calls[n].subject /\ OpenLogged(events', d.subject)
     \/ /\ d.kind = "prove" /\ d.subject = calls[n].subject
        /\ ProofLogged(events', d.subject, d.subject.stream[1])
     \/ /\ d.kind = "commit" /\ Recorded(commitments', d.subject)
        /\ d.subject.id \notin DOMAIN commitments
        /\ d.subject.point = calls[n].subject.point
        /\ d.subject.stream = calls[n].subject.stream
        /\ d.subject.blinding = calls[n].subject.blinding
        /\ d.subject.opened = calls[n].subject.opened
        /\ d.subject.proven = calls[n].subject.proven

\* What the execution of a call's transaction does.
LEMMA ExecuteEffect ==
  ASSUME LedgerTypes, calls \in Seq(Call), Execute
  PROVE  UNCHANGED <<sessionVars, panelVars>> /\ \E n, d : Executed(n, d)
<1>0. PICK n \in DOMAIN calls : Succeeds(n) \/ Aborts(n)
  BY DEF Execute
<1> DEFINE c == calls[n]
           s == c.subject
           t(v) == [c EXCEPT !.tx = v]
<1>1. UNCHANGED <<sessionVars, panelVars>> /\ c \in Call /\ s \in PendingCommit
  <2>1. c \in Call
    OBVIOUS
  <2>2. QED
    BY <2>1 DEF Execute, Call
<1>2. s.stream \in Streams /\ s.stream[1] \in Words /\ s.blinding \in Blindings
        /\ s.point \in Points
  BY <1>1, TextStream DEF PendingCommit
<1>3. ASSUME NEW v \in {"success", "failure"}, calls' = [calls EXCEPT ![n].tx = v]
      PROVE  /\ CallMoved(n, t(v)) /\ t(v).tx = v
             /\ t(v).kind = c.kind /\ t(v).live = c.live /\ t(v).phase = c.phase
             /\ t(v).subject = s
  <2>1. /\ t(v) \in Call /\ t(v).tx = v
        /\ t(v).kind = c.kind /\ t(v).live = c.live /\ t(v).phase = c.phase
        /\ t(v).subject = s
    BY <1>1 DEF Call
  <2>2. calls' = [calls EXCEPT ![n] = t(v)]
    BY <1>3
  <2>3. QED
    BY <2>1, <2>2, MoveCall
<1>4. CASE /\ c.kind = "commit"
           /\ commit_secret(c.by, TextUtf8, s.point)
           /\ calls' = [calls EXCEPT ![n].tx = "success", ![n].subject.id = nextId]
  <2> DEFINE u == [s EXCEPT !.id = nextId]
             d == [c EXCEPT !.tx = "success", !.subject = u]
  <2>1. /\ LedgerTypes' /\ LedgerKept
        /\ nextId \in 0..MaxObjects /\ nextId \notin DOMAIN commitments
        /\ nextId \in DOMAIN commitments'
        /\ commitments'[nextId].point = s.point
        /\ commitments'[nextId].encoding_id = TextUtf8
    <3>1. c.by \in Accounts
      BY <1>1 DEF Call
    <3>2. QED
      BY <1>2, <1>4, <3>1, CommitLedger
  <2>2. /\ u \in PendingCommit /\ u.id = nextId /\ u.point = s.point
        /\ u.stream = s.stream /\ u.blinding = s.blinding
        /\ u.opened = s.opened /\ u.proven = s.proven
    BY <1>1, <2>1 DEF PendingCommit
  <2>3. calls' = [calls EXCEPT ![n] = d]
    BY <1>1, <1>4 DEF Call
  <2> HIDE DEF u
  <2>4. /\ d \in Call /\ d.kind = c.kind /\ d.live = c.live /\ d.phase = c.phase
        /\ d.subject = u
    BY <1>1, <2>2 DEF Call
  <2> HIDE DEF d
  <2>5. CallMoved(n, d)
    BY <2>3, <2>4, MoveCall
  <2>6. Recorded(commitments', d.subject)
    BY <2>1, <2>2, <2>4 DEF Recorded
  <2>7. Executed(n, d)
    BY <1>4, <2>1, <2>2, <2>4, <2>5, <2>6 DEF Executed
  <2>8. QED
    BY <1>1, <2>7
<1>5. CASE /\ c.kind = "open"
           /\ open_secret(c.by, s.id, s.stream, s.blinding)
           /\ calls' = [calls EXCEPT ![n].tx = "success"]
  <2> HIDE DEF c, s
  <2>1. /\ LedgerTypes' /\ LedgerKept
        /\ \E k \in DOMAIN events' :
             /\ events'[k].type = "SecretOpened" /\ events'[k].commitment_id = s.id
             /\ events'[k].stream = s.stream /\ events'[k].blinding = s.blinding
    BY <1>2, <1>5, OpenLedger
  <2>2. OpenLogged(events', s)
    BY <2>1 DEF OpenLogged
  <2> USE DEF c, s
  <2>3. Executed(n, t("success"))
    BY <1>3, <1>5, <2>1, <2>2 DEF Executed
  <2>4. QED
    BY <1>1, <2>3
<1>6. CASE /\ c.kind = "prove"
           /\ open_with_proof(c.by, s.id, s.stream[1],
                [point |-> s.point, encoding_id |-> TextUtf8, claimed |-> s.stream[1]])
           /\ calls' = [calls EXCEPT ![n].tx = "success"]
  <2> HIDE DEF c, s
  <2>1. /\ LedgerTypes' /\ LedgerKept
        /\ \E k \in DOMAIN events' :
             /\ events'[k].type = "SecretPartialOpened" /\ events'[k].commitment_id = s.id
             /\ events'[k].claimed_first_value = s.stream[1]
    BY <1>2, <1>6, ProveLedger
  <2>2. ProofLogged(events', s, s.stream[1])
    BY <2>1 DEF ProofLogged
  <2> USE DEF c, s
  <2>3. Executed(n, t("success"))
    BY <1>3, <1>6, <2>1, <2>2 DEF Executed
  <2>4. QED
    BY <1>1, <2>3
<1>7. CASE Aborts(n)
  <2>1. calls' = [calls EXCEPT ![n].tx = "failure"] /\ UNCHANGED ledgerVars
    BY <1>7 DEF Aborts
  <2>2. LedgerTypes' /\ LedgerKept
    BY <2>1 DEF LedgerTypes, LedgerKept, ledgerVars, chainVars
  <2>3. Executed(n, t("failure"))
    BY <1>3, <2>1, <2>2 DEF Executed
  <2>4. QED
    BY <1>1, <2>3
<1>8. QED
  BY <1>0, <1>4, <1>5, <1>6, <1>7 DEF Succeeds

\* Leaving the tab: no call is live any more, and all else of a call stays.
Left ==
  /\ calls' \in Seq(Call) /\ DOMAIN calls' = DOMAIN calls
  /\ \A n \in DOMAIN calls :
       /\ ~calls'[n].live /\ calls'[n].kind = calls[n].kind
       /\ calls'[n].subject = calls[n].subject /\ calls'[n].tx = calls[n].tx

\* What leaving the tab does to the calls.
LEMMA LeaveEffect ==
  ASSUME calls \in Seq(Call), LeaveTab
  PROVE  Left
<1>1. calls' = [n \in DOMAIN calls |-> [calls[n] EXCEPT !.live = FALSE]]
  BY DEF LeaveTab
<1>2. ASSUME NEW n \in DOMAIN calls
      PROVE  /\ calls'[n] \in Call /\ ~calls'[n].live /\ calls'[n].kind = calls[n].kind
             /\ calls'[n].subject = calls[n].subject /\ calls'[n].tx = calls[n].tx
  <2>1. calls[n] \in Call /\ calls'[n] = [calls[n] EXCEPT !.live = FALSE]
    BY <1>1
  <2>2. QED
    BY <2>1 DEF Call
<1>3. DOMAIN calls' = DOMAIN calls /\ DOMAIN calls = 1..Len(calls) /\ Len(calls) \in Nat
  BY <1>1
<1>4. calls' \in Seq(Call)
  BY <1>1, <1>2, <1>3
<1>5. QED
  BY <1>2, <1>3, <1>4 DEF Left

\* Every step, by what it does to the calls and the ledger.
LEMMA StepCases ==
  ASSUME LedgerTypes, PanelTypes, [Next]_vars
  PROVE  \/ CommitClick \/ OpenClick \/ ProveClick
         \/ \E n, d : Advanced(n, d)
         \/ \E n, d : Executed(n, d) /\ UNCHANGED <<sessionVars, panelVars>>
         \/ LeaveTab
         \/ /\ UNCHANGED <<calls, busy, pending>> /\ LedgerTypes' /\ LedgerKept
            /\ activeSigner' \in Signers /\ mounted' \in BOOLEAN
<1>0. calls \in Seq(Call) /\ activeSigner \in Signers /\ mounted \in BOOLEAN
  BY DEF PanelTypes
<1>1. UNCHANGED ledgerVars => LedgerTypes' /\ LedgerKept
  BY DEF LedgerTypes, LedgerKept, ledgerVars, chainVars
<1>2. ASSUME NEW n \in DOMAIN calls, Proceeds(n) PROVE \E d : Advanced(n, d)
  BY <1>0, <1>2, ProceedsEffect
<1>3. CASE Execute
  BY <1>0, <1>3, ExecuteEffect
<1>4. CASE OpenElsewhere
  BY <1>0, <1>4, OpenLedger DEF OpenElsewhere, sessionVars, panelVars
<1>5. CASE TransferElsewhere
  BY <1>0, <1>5, TransferLedger DEF TransferElsewhere, sessionVars, panelVars
<1>6. CASE \E s \in Signers : Switch(s)
  BY <1>0, <1>1, <1>6 DEF Switch, panelVars
<1>7. CASE EnterTab \/ (\E d \in derivations : Derived(d) \/ DerivationFails(d))
             \/ UNCHANGED vars
  BY <1>0, <1>1, <1>7 DEF EnterTab, Derived, DerivationFails, vars, panelVars, sessionVars
<1>8. QED
  BY <1>2, <1>3, <1>4, <1>5, <1>6, <1>7 DEF Next

\* What the panel holds after the answer of a call that succeeded.
LEMMA ResultIs ==
  ASSUME calls \in Seq(Call), NEW n \in DOMAIN calls
  PROVE  LET r == Result(n)  s == calls[n].subject  kind == calls[n].kind
         IN /\ r \in PendingCommit /\ r.id = s.id /\ r.point = s.point
            /\ r.stream = s.stream /\ r.blinding = s.blinding
            /\ kind # "open" => r.opened = s.opened
            /\ kind = "open" => r.opened
            /\ kind # "prove" => r.proven = s.proven
            /\ kind = "prove" => r.proven = s.stream[1]
<1>0. calls[n] \in Call
  OBVIOUS
<1>1. calls[n].subject \in PendingCommit /\ calls[n].kind \in {"commit", "open", "prove"}
  BY <1>0 DEF Call
<1>2. calls[n].subject.stream[1] \in Words
  BY <1>1, TextStream DEF PendingCommit
<1>3. CASE calls[n].kind = "commit"
  BY <1>1, <1>3 DEF Result
<1>4. CASE calls[n].kind = "open"
  <2> DEFINE s == calls[n].subject
  <2>1. Result(n) = [s EXCEPT !.opened = TRUE]
    BY <1>4 DEF Result
  <2>2. QED
    BY <1>1, <1>4, <2>1 DEF PendingCommit
<1>5. CASE calls[n].kind = "prove"
  <2> DEFINE s == calls[n].subject
  <2>1. Result(n) = [s EXCEPT !.proven = s.stream[1]]
    BY <1>5 DEF Result
  <2>2. QED
    BY <1>1, <1>2, <1>5, <2>1 DEF PendingCommit
<1>6. QED
  BY <1>1, <1>3, <1>4, <1>5

\* The types are kept.
LEMMA TypesStep ==
  LedgerTypes /\ PanelTypes /\ [Next]_vars => LedgerTypes' /\ PanelTypes'
<1> SUFFICES ASSUME LedgerTypes, PanelTypes, [Next]_vars
             PROVE  LedgerTypes' /\ PanelTypes'
  OBVIOUS
<1>0. /\ activeSigner \in Signers /\ mounted \in BOOLEAN /\ busy \in BOOLEAN
      /\ pending \in PendingCommit \cup {None} /\ calls \in Seq(Call)
  BY DEF PanelTypes
<1>1. UNCHANGED ledgerVars => LedgerTypes'
  BY DEF LedgerTypes, ledgerVars, chainVars
<1>2. CASE CommitClick \/ OpenClick \/ ProveClick
  <2>1. PICK d, kind, subject : Started(d, kind, subject)
    BY <1>2, ClickEffect
  <2>2. QED
    BY <1>0, <1>1, <2>1 DEF Started, sessionVars, PanelTypes
<1>3. ASSUME NEW n, NEW d, Advanced(n, d) PROVE LedgerTypes' /\ PanelTypes'
  <2>1. /\ n \in DOMAIN calls /\ calls' \in Seq(Call)
        /\ UNCHANGED <<ledgerVars, sessionVars, mounted>>
        /\ busy' \in {busy, FALSE} /\ (pending' = pending \/ pending' = Result(n))
    BY <1>3 DEF Advanced, CallMoved
  <2>2. Result(n) \in PendingCommit
    BY <1>0, <2>1, ResultIs
  <2>3. QED
    BY <1>0, <1>1, <2>1, <2>2 DEF sessionVars, PanelTypes
<1>4. ASSUME NEW n, NEW d, Executed(n, d), UNCHANGED <<sessionVars, panelVars>>
      PROVE  LedgerTypes' /\ PanelTypes'
  BY <1>0, <1>4 DEF Executed, CallMoved, sessionVars, panelVars, PanelTypes
<1>5. CASE LeaveTab
  BY <1>0, <1>1, <1>5, LeaveEffect DEF Left, LeaveTab, sessionVars, PanelTypes
<1>6. CASE /\ UNCHANGED <<calls, busy, pending>> /\ LedgerTypes'
           /\ activeSigner' \in Signers /\ mounted' \in BOOLEAN
  BY <1>0, <1>6 DEF PanelTypes
<1>7. QED
  BY <1>2, <1>3, <1>4, <1>5, <1>6, StepCases

-----------------------------------------------------------------------------
(* What is said stays true.                                                *)

\* The ledger forgets nothing that was true of a commitment.
LEMMA LedgerRemembers ==
  ASSUME LedgerKept, NEW s
  PROVE  /\ Recorded(commitments, s) => Recorded(commitments', s)
         /\ OpenLogged(events, s) => OpenLogged(events', s)
         /\ \A v : ProofLogged(events, s, v) => ProofLogged(events', s, v)
<1>1. Recorded(commitments, s) => Recorded(commitments', s)
  BY DEF LedgerKept, Recorded
<1>2. OpenLogged(events, s) => OpenLogged(events', s)
  BY DEF LedgerKept, OpenLogged
<1>3. ASSUME NEW v, ProofLogged(events, s, v) PROVE ProofLogged(events', s, v)
  BY <1>3 DEF LedgerKept, ProofLogged
<1>4. QED
  BY <1>1, <1>2, <1>3

\* So what holds goes on holding.
LEMMA HoldsKept ==
  ASSUME LedgerKept, NEW s, Holds(commitments, events, s)
  PROVE  Holds(commitments', events', s)
  BY LedgerRemembers DEF Holds

\* And so does what a call is about, as long as no success is added to it.
LEMMA CallHoldsKept ==
  ASSUME LedgerKept, NEW c, NEW d, CallHolds(commitments, events, c),
         d.kind = c.kind, d.subject = c.subject, d.tx = "success" => c.tx = "success"
  PROVE  CallHolds(commitments', events', d)
  BY LedgerRemembers, HoldsKept DEF CallHolds

\* What the panel and its calls say is so on the ledger, after every step.
LEMMA PanelHoldsStep ==
  LedgerTypes /\ PanelTypes /\ PanelHolds /\ [Next]_vars => PanelHolds'
<1> SUFFICES ASSUME LedgerTypes, PanelTypes, PanelHolds, [Next]_vars PROVE PanelHolds'
  OBVIOUS
<1>0. calls \in Seq(Call) /\ pending \in PendingCommit \cup {None}
  BY DEF PanelTypes
<1>1. /\ pending # None => Holds(commitments, events, pending)
      /\ \A n \in DOMAIN calls : CallHolds(commitments, events, calls[n])
  BY DEF PanelHolds
<1>2. UNCHANGED ledgerVars => LedgerKept
  BY DEF LedgerKept, ledgerVars, chainVars
<1>3. LedgerKept => (pending # None => Holds(commitments', events', pending))
  BY <1>1, HoldsKept
<1>4. SUFFICES /\ pending' # None => Holds(commitments', events', pending')
               /\ \A n \in DOMAIN calls' : CallHolds(commitments', events', calls'[n])
  BY <1>4 DEF PanelHolds
<1>5. CASE CommitClick \/ OpenClick \/ ProveClick
  <2>1. PICK d, kind, subject :
          /\ Started(d, kind, subject) /\ subject \in PendingCommit
          /\ \/ /\ kind = "commit" /\ (pending # None => pending.opened)
                /\ subject.point = pedersen_commit(TextUtf8, subject.stream, subject.blinding)
                /\ ~subject.opened /\ subject.proven = None
             \/ kind \in {"open", "prove"} /\ subject = pending /\ pending # None
    BY <1>5, ClickEffect
  <2>2. LedgerKept /\ pending' = pending
    BY <1>2, <2>1 DEF Started
  <2>3. d.kind = kind /\ d.subject = subject /\ d.tx = "none"
    BY <2>1 DEF Started
  <2>4. CallHolds(commitments', events', d)
    <3>1. CASE kind = "commit"
      BY <2>1, <2>3, <3>1 DEF CallHolds, Opens
    <3>2. CASE kind \in {"open", "prove"} /\ subject = pending /\ pending # None
      BY <1>3, <2>2, <2>3, <3>2 DEF CallHolds, Holds
    <3>3. QED
      BY <2>1, <3>1, <3>2
  <2>5. ASSUME NEW m \in DOMAIN calls' PROVE CallHolds(commitments', events', calls'[m])
    <3>1. CASE m \in DOMAIN calls
      <4>1. calls'[m] = calls[m]
        BY <2>1, <3>1 DEF Started
      <4>2. QED
        BY <1>1, <2>2, <3>1, <4>1, CallHoldsKept
    <3>2. CASE m = Len(calls) + 1
      BY <2>1, <2>4, <3>2 DEF Started
    <3>3. QED
      BY <2>1, <3>1, <3>2 DEF Started
  <2>6. QED
    BY <1>3, <2>2, <2>5
<1>6. ASSUME NEW n, NEW d, CallMoved(n, d), LedgerKept, CallHolds(commitments', events', d)
      PROVE  \A m \in DOMAIN calls' : CallHolds(commitments', events', calls'[m])
  <2>1. ASSUME NEW m \in DOMAIN calls, m # n
        PROVE  CallHolds(commitments', events', calls'[m])
    <3>1. calls'[m] = calls[m]
      BY <1>6, <2>1 DEF CallMoved
    <3>2. QED
      BY <1>1, <1>6, <2>1, <3>1, CallHoldsKept
  <2>2. QED
    BY <1>6, <2>1 DEF CallMoved
<1>7. ASSUME NEW n, NEW d, Advanced(n, d)
      PROVE  /\ pending' # None => Holds(commitments', events', pending')
             /\ \A m \in DOMAIN calls' : CallHolds(commitments', events', calls'[m])
  <2>1. /\ CallMoved(n, d) /\ SameCall(calls[n], d) /\ LedgerKept /\ n \in DOMAIN calls
        /\ d.tx = "success" => calls[n].tx = "success"
        /\ pending' = pending \/ (calls[n].tx = "success" /\ pending' = Result(n))
    BY <1>2, <1>7 DEF Advanced, CallMoved
  <2>2. CallHolds(commitments', events', d)
    BY <1>1, <2>1, CallHoldsKept DEF SameCall
  <2>3. ASSUME calls[n].tx = "success" PROVE Holds(commitments', events', Result(n))
    <3> DEFINE r == Result(n)
               s == calls[n].subject
               kind == calls[n].kind
    <3>1. CallHolds(commitments', events', calls[n])
      BY <1>1, <2>1, CallHoldsKept
    <3>2. /\ r.id = s.id /\ r.point = s.point
          /\ r.stream = s.stream /\ r.blinding = s.blinding
          /\ kind # "open" => r.opened = s.opened
          /\ kind = "open" => r.opened
          /\ kind # "prove" => r.proven = s.proven
          /\ kind = "prove" => r.proven = s.stream[1]
      BY <1>0, <2>1, ResultIs
    <3>3. kind \in {"commit", "open", "prove"}
      <4>1. calls[n] \in Call
        BY <1>0, <2>1
      <4>2. QED
        BY <4>1 DEF Call
    <3>4. /\ Opens(s)
          /\ Recorded(commitments', s)
          /\ kind = "commit" => ~s.opened /\ s.proven = None
          /\ s.opened => OpenLogged(events', s)
          /\ s.proven # None => ProofLogged(events', s, s.proven)
          /\ kind = "open" => OpenLogged(events', s)
          /\ kind = "prove" => ProofLogged(events', s, s.stream[1])
      BY <2>3, <3>1, <3>3 DEF CallHolds, Holds
    <3> HIDE DEF r, s, kind
    <3>5. Opens(r) /\ Recorded(commitments', r)
      BY <3>2, <3>3, <3>4 DEF Opens, Recorded
    <3>6. r.opened => OpenLogged(events', r)
      BY <3>2, <3>3, <3>4 DEF OpenLogged
    <3>7. r.proven # None => ProofLogged(events', r, r.proven)
      BY <3>2, <3>3, <3>4 DEF ProofLogged
    <3>8. QED
      BY <3>5, <3>6, <3>7 DEF Holds, r
  <2>4. QED
    BY <1>3, <1>6, <2>1, <2>2, <2>3
<1>8. ASSUME NEW n, NEW d, Executed(n, d), UNCHANGED <<sessionVars, panelVars>>
      PROVE  /\ pending' # None => Holds(commitments', events', pending')
             /\ \A m \in DOMAIN calls' : CallHolds(commitments', events', calls'[m])
  <2>1. /\ CallMoved(n, d) /\ LedgerKept /\ n \in DOMAIN calls /\ d \in Call
        /\ d.kind = calls[n].kind /\ pending' = pending
    BY <1>8 DEF Executed, CallMoved, panelVars
  <2>2. CallHolds(commitments', events', d)
    <3>1. CASE d.tx = "failure" /\ d.subject = calls[n].subject
      BY <1>1, <2>1, <3>1, CallHoldsKept
    <3>2. CASE d.kind # "commit" /\ d.subject = calls[n].subject
               /\ (d.kind = "open" => OpenLogged(events', d.subject))
               /\ (d.kind = "prove" => ProofLogged(events', d.subject, d.subject.stream[1]))
      <4>1. Holds(commitments', events', d.subject)
        BY <1>1, <2>1, <3>2, HoldsKept DEF CallHolds
      <4>2. QED
        BY <3>2, <4>1 DEF CallHolds, Holds
    <3>3. CASE /\ d.kind = "commit" /\ Recorded(commitments', d.subject)
               /\ d.subject.point = calls[n].subject.point
               /\ d.subject.stream = calls[n].subject.stream
               /\ d.subject.blinding = calls[n].subject.blinding
               /\ d.subject.opened = calls[n].subject.opened
               /\ d.subject.proven = calls[n].subject.proven
      <4>1. CallHolds(commitments, events, calls[n])
        BY <1>1, <2>1
      <4>2. QED
        BY <2>1, <3>3, <4>1 DEF CallHolds, Opens
    <3>4. QED
      BY <1>8, <3>1, <3>2, <3>3 DEF Executed
  <2>3. QED
    BY <1>3, <1>6, <2>1, <2>2
<1>9. CASE LeaveTab
  <2>1. /\ LedgerKept /\ pending' = None /\ DOMAIN calls' = DOMAIN calls
        /\ \A n \in DOMAIN calls :
             /\ calls'[n].kind = calls[n].kind
             /\ calls'[n].subject = calls[n].subject /\ calls'[n].tx = calls[n].tx
    BY <1>0, <1>2, <1>9, LeaveEffect DEF LeaveTab, Left
  <2>2. ASSUME NEW n \in DOMAIN calls PROVE CallHolds(commitments', events', calls'[n])
    BY <1>1, <2>1, CallHoldsKept
  <2>3. QED
    BY <2>1, <2>2
<1>10. CASE UNCHANGED <<calls, pending>> /\ LedgerKept
  <2>1. ASSUME NEW n \in DOMAIN calls PROVE CallHolds(commitments', events', calls[n])
    BY <1>1, <1>10, CallHoldsKept
  <2>2. QED
    BY <1>3, <1>10, <2>1
<1>11. QED
  BY <1>5, <1>7, <1>8, <1>9, <1>10, StepCases

-----------------------------------------------------------------------------
(* One call at a time.                                                     *)

\* The panel waits for one call, about what it holds, after every step.
LEMMA OneCallStep ==
  LedgerTypes /\ PanelTypes /\ PanelHolds /\ OneCall /\ [Next]_vars => OneCall'
<1> SUFFICES ASSUME LedgerTypes, PanelTypes, PanelHolds, OneCall, [Next]_vars
             PROVE  OneCall'
  OBVIOUS
<1> DEFINE About(c, p) ==
             /\ c.kind # "commit" => p = c.subject
             /\ c.kind = "commit" =>
                  /\ p # None => p.opened
                  /\ p # None /\ c.tx = "success" => c.subject.id # p.id
<1>0. calls \in Seq(Call)
  BY DEF PanelTypes
<1>1. /\ \A n \in DOMAIN calls : Live(calls[n]) => busy
      /\ \A n, m \in DOMAIN calls : Live(calls[n]) /\ Live(calls[m]) => n = m
      /\ \A n \in DOMAIN calls : Live(calls[n]) => About(calls[n], pending)
  BY DEF OneCall
<1>2. SUFFICES /\ \A n \in DOMAIN calls' : Live(calls'[n]) => busy'
               /\ \A n, m \in DOMAIN calls' : Live(calls'[n]) /\ Live(calls'[m]) => n = m
               /\ \A n \in DOMAIN calls' : Live(calls'[n]) => About(calls'[n], pending')
  BY <1>2 DEF OneCall, Live
<1>3. CASE CommitClick \/ OpenClick \/ ProveClick
  <2>1. PICK d, kind, subject :
          /\ ~busy /\ Started(d, kind, subject)
          /\ \/ kind = "commit" /\ (pending # None => pending.opened)
             \/ kind \in {"open", "prove"} /\ subject = pending
    BY <1>3, ClickEffect
  <2> DEFINE k == Len(calls) + 1
  <2>2. /\ d.kind = kind /\ d.subject = subject /\ d.tx = "none"
        /\ DOMAIN calls' = DOMAIN calls \cup {k} /\ calls'[k] = d
        /\ \A m \in DOMAIN calls : calls'[m] = calls[m]
        /\ busy' = TRUE /\ pending' = pending
    BY <2>1 DEF Started
  <2> HIDE DEF k, About
  <2>3. \A m \in DOMAIN calls : ~Live(calls'[m])
    BY <1>1, <2>1, <2>2
  <2>4. About(d, pending')
    BY <2>1, <2>2 DEF About
  <2>5. QED
    BY <2>2, <2>3, <2>4
<1>4. ASSUME NEW n, NEW d, CallMoved(n, d), d.live = calls[n].live,
             d.phase = calls[n].phase, UNCHANGED busy,
             Live(d) => About(d, pending'), UNCHANGED pending
      PROVE  /\ \A i \in DOMAIN calls' : Live(calls'[i]) => busy'
             /\ \A i, m \in DOMAIN calls' : Live(calls'[i]) /\ Live(calls'[m]) => i = m
             /\ \A i \in DOMAIN calls' : Live(calls'[i]) => About(calls'[i], pending')
  <2>1. /\ n \in DOMAIN calls /\ DOMAIN calls' = DOMAIN calls /\ calls'[n] = d
        /\ \A m \in DOMAIN calls : m # n => calls'[m] = calls[m]
    BY <1>4 DEF CallMoved
  <2>2. Live(d) <=> Live(calls[n])
    BY <1>4 DEF Live
  <2> HIDE DEF About
  <2>3. QED
    BY <1>1, <1>4, <2>1, <2>2
<1>5. ASSUME NEW n, NEW d, Advanced(n, d)
      PROVE  /\ \A i \in DOMAIN calls' : Live(calls'[i]) => busy'
             /\ \A i, m \in DOMAIN calls' : Live(calls'[i]) /\ Live(calls'[m]) => i = m
             /\ \A i \in DOMAIN calls' : Live(calls'[i]) => About(calls'[i], pending')
  <2>1. /\ n \in DOMAIN calls /\ DOMAIN calls' = DOMAIN calls /\ calls'[n] = d
        /\ \A m \in DOMAIN calls : m # n => calls'[m] = calls[m]
        /\ d.kind = calls[n].kind /\ d.live = calls[n].live
        /\ d.subject = calls[n].subject
        /\ d.tx = "success" => calls[n].tx = "success"
    BY <1>5 DEF Advanced, CallMoved, SameCall
  <2>2. CASE calls[n].phase # "done" /\ UNCHANGED <<busy, pending>>
    <3>1. Live(d) => Live(calls[n])
      BY <2>1, <2>2 DEF Live
    <3>2. Live(d) => About(d, pending')
      BY <1>1, <2>1, <2>2, <3>1
    <3> HIDE DEF About
    <3>3. QED
      BY <1>1, <2>1, <2>2, <3>1, <3>2
  <2>3. CASE /\ d.phase = "done" /\ calls[n].phase # "done"
             /\ busy' = IF calls[n].live THEN FALSE ELSE busy
             /\ \/ UNCHANGED pending
                \/ calls[n].live /\ calls[n].tx = "success" /\ pending' = Result(n)
    <3>1. ~Live(d)
      BY <2>3 DEF Live
    <3>2. CASE calls[n].live
      <4>1. Live(calls[n])
        BY <2>3, <3>2 DEF Live
      <4>2. \A m \in DOMAIN calls : m # n => ~Live(calls[m])
        BY <1>1, <2>1, <4>1
      <4> HIDE DEF About
      <4>3. QED
        BY <2>1, <3>1, <4>2
    <3>3. CASE ~calls[n].live
      <4>1. busy' = busy /\ pending' = pending
        BY <2>3, <3>3
      <4> HIDE DEF About
      <4>2. QED
        BY <1>1, <2>1, <3>1, <4>1
    <3>4. QED
      BY <3>2, <3>3
  <2>4. QED
    BY <1>5, <2>2, <2>3 DEF Advanced
<1>6. ASSUME NEW n, NEW d, Executed(n, d), UNCHANGED <<sessionVars, panelVars>>
      PROVE  Live(d) => About(d, pending')
  <2> SUFFICES ASSUME Live(d) PROVE About(d, pending')
    OBVIOUS
  <2>1. /\ n \in DOMAIN calls /\ d.kind = calls[n].kind /\ pending' = pending
        /\ d.live = calls[n].live /\ d.phase = calls[n].phase
    BY <1>6 DEF Executed, CallMoved, panelVars
  <2>2. About(calls[n], pending)
    BY <1>1, <2>1 DEF Live
  <2>3. CASE d.tx = "failure" /\ d.subject = calls[n].subject
    BY <2>1, <2>2, <2>3
  <2>4. CASE d.kind \in {"open", "prove"} /\ d.subject = calls[n].subject
    BY <2>1, <2>2, <2>4
  <2>5. CASE d.kind = "commit" /\ d.subject.id \notin DOMAIN commitments
    <3>1. pending # None => pending.id \in DOMAIN commitments
      BY DEF PanelHolds, Holds, Recorded
    <3>2. QED
      BY <2>1, <2>2, <2>5, <3>1
  <2>6. QED
    BY <1>6, <2>3, <2>4, <2>5 DEF Executed
<1>7. CASE LeaveTab
  BY <1>0, <1>7, LeaveEffect DEF Left, Live
<1>8. CASE UNCHANGED <<calls, busy, pending>>
  BY <1>1, <1>8
<1>9. ASSUME NEW n, NEW d, Executed(n, d), UNCHANGED <<sessionVars, panelVars>>
      PROVE  /\ CallMoved(n, d) /\ d.live = calls[n].live /\ d.phase = calls[n].phase
             /\ UNCHANGED busy /\ UNCHANGED pending
  BY <1>9 DEF Executed, panelVars
<1> HIDE DEF About
<1>10. QED
  BY <1>3, <1>4, <1>5, <1>6, <1>7, <1>8, <1>9, StepCases

\* What the panel holds is replaced by its own call's result only.
LEMMA PendingStep ==
  LedgerTypes /\ PanelTypes /\ PanelHolds /\ OneCall /\ [Next]_vars
    => [PendingAdvances]_pending
<1> SUFFICES ASSUME LedgerTypes, PanelTypes, PanelHolds, OneCall, [Next]_vars,
                    pending' # pending, pending # None, mounted'
             PROVE  /\ pending' # None
                    /\ ~pending.opened => pending'.id = pending.id
                    /\ pending'.id = pending.id =>
                         /\ pending.opened => pending'.opened
                         /\ pending.proven # None => pending'.proven = pending.proven
  BY DEF PendingAdvances
<1>1. PICK n, d : Advanced(n, d)
  <2>1. CASE CommitClick \/ OpenClick \/ ProveClick
    BY <2>1, ClickEffect DEF Started
  <2>2. ~LeaveTab
    BY DEF LeaveTab
  <2>3. QED
    BY <2>1, <2>2, StepCases DEF panelVars
<1> DEFINE r == Result(n)
           s == calls[n].subject
           kind == calls[n].kind
<1>2. n \in DOMAIN calls /\ Live(calls[n]) /\ calls[n].tx = "success" /\ pending' = r
  BY <1>1 DEF Advanced, CallMoved, Live
<1>3. calls \in Seq(Call) /\ calls[n] \in Call
  BY <1>2 DEF PanelTypes
<1>4. kind \in {"commit", "open", "prove"}
  BY <1>3 DEF Call
<1>5. /\ r \in PendingCommit /\ r.id = s.id
      /\ kind # "open" => r.opened = s.opened
      /\ kind = "open" => r.opened
      /\ kind # "prove" => r.proven = s.proven
      /\ kind = "prove" => r.proven = s.stream[1]
  BY <1>2, <1>3, ResultIs
<1>6. /\ kind # "commit" => pending = s
      /\ kind = "commit" => pending.opened /\ s.id # pending.id
  BY <1>2 DEF OneCall
<1>7. pending.proven \in {None, pending.stream[1]}
  BY DEF PanelHolds, Holds, Opens
<1>8. r # None
  BY <1>5
<1> HIDE DEF r, s, kind
<1>9. CASE kind = "commit"
  BY <1>2, <1>5, <1>6, <1>8, <1>9
<1>10. CASE kind = "open"
  BY <1>2, <1>5, <1>6, <1>8, <1>10
<1>11. CASE kind = "prove"
  BY <1>2, <1>5, <1>6, <1>7, <1>8, <1>11
<1>12. QED
  BY <1>4, <1>9, <1>10, <1>11

-----------------------------------------------------------------------------
(* The account shown.                                                      *)

\* Which derivations count changes with the signer, and only an answer that
\* counts changes the account.
LEMMA DerivationsCurrentStep ==
  PanelTypes /\ DerivationsCurrent /\ [Next]_vars => DerivationsCurrent'
<1> SUFFICES ASSUME PanelTypes, DerivationsCurrent, [Next]_vars PROVE DerivationsCurrent'
  OBVIOUS
<1> DEFINE Derivation == [of : Signers, cancelled : BOOLEAN]
<1>0. /\ derivations \subseteq Derivation
      /\ \A d \in derivations : ~d.cancelled => d.of = activeSigner
      /\ (\A d \in derivations : d.cancelled) => account \in {activeSigner, None}
  BY DEF DerivationsCurrent, AccountIsSigners
<1>1. ASSUME NEW s \in Signers, Switch(s) PROVE DerivationsCurrent'
  <2> DEFINE new == [of |-> s, cancelled |-> FALSE]
             old == {[d EXCEPT !.cancelled = TRUE] : d \in derivations}
  <2>1. derivations' = old \cup {new} /\ activeSigner' = s
    BY <1>1 DEF Switch
  <2>2. \A d \in old : d \in Derivation /\ d.cancelled
    BY <1>0
  <2>3. new \in Derivation /\ ~new.cancelled /\ new.of = s
    OBVIOUS
  <2> HIDE DEF new, old
  <2>4. QED
    BY <2>1, <2>2, <2>3 DEF DerivationsCurrent, AccountIsSigners
<1>2. ASSUME NEW d \in derivations, Derived(d) \/ DerivationFails(d)
      PROVE  DerivationsCurrent'
  <2>1. /\ derivations' = derivations \ {d} /\ activeSigner' = activeSigner
        /\ d.cancelled => account' = account
        /\ ~d.cancelled => account' \in {d.of, None}
    BY <1>2 DEF Derived, DerivationFails
  <2>2. derivations' \subseteq Derivation
    BY <1>0, <2>1
  <2>3. \A e \in derivations' : ~e.cancelled => e.of = activeSigner
    BY <1>0, <2>1
  <2>4. (\A e \in derivations' : e.cancelled) => account' \in {activeSigner, None}
    <3>1. CASE d.cancelled
      BY <1>0, <2>1, <3>1
    <3>2. CASE ~d.cancelled
      BY <1>0, <2>1, <3>2
    <3>3. QED
      BY <3>1, <3>2
  <2>5. QED
    BY <2>1, <2>2, <2>3, <2>4 DEF DerivationsCurrent, AccountIsSigners
<1>3. CASE UNCHANGED sessionVars
  BY <1>0, <1>3 DEF sessionVars, DerivationsCurrent, AccountIsSigners
<1>4. ASSUME CommitClick \/ OpenClick \/ ProveClick PROVE UNCHANGED sessionVars
  BY <1>4, ClickEffect DEF Started
<1>5. ASSUME NEW n \in DOMAIN calls, Proceeds(n) PROVE UNCHANGED sessionVars
  BY <1>5 DEF Proceeds, Proved, Submit, Answered, CallFails
<1>6. ASSUME LeaveTab \/ EnterTab \/ Execute \/ OpenElsewhere \/ TransferElsewhere
      PROVE  UNCHANGED sessionVars
  BY <1>6 DEF LeaveTab, EnterTab, Execute, OpenElsewhere, TransferElsewhere
<1>7. UNCHANGED vars => UNCHANGED sessionVars
  BY DEF vars
<1>8. QED
  BY <1>1, <1>2, <1>3, <1>4, <1>5, <1>6, <1>7 DEF Next

-----------------------------------------------------------------------------
(* The theorems.                                                           *)

PanelInv == LedgerTypes /\ PanelTypes /\ PanelHolds /\ OneCall /\ DerivationsCurrent

\* Nothing is held and nothing is under way but the first derivation.
LEMMA PanelInvInit == Init => PanelInv
<1> SUFFICES ASSUME Init PROVE PanelInv
  OBVIOUS
<1>1. /\ now = 0 /\ nextId = 1 /\ events = <<>> /\ commitments = [id \in {} |-> 0]
      /\ activeSigner \in Signers /\ account = None
      /\ derivations = {[of |-> activeSigner, cancelled |-> FALSE]}
      /\ mounted = FALSE /\ busy = FALSE /\ pending = None /\ calls = <<>>
  BY DEF Init, ChainInit, CommitmentsInit
<1>2. LedgerTypes
  <2>1. DOMAIN commitments = {} /\ commitments \in [DOMAIN commitments -> SecretCommitment]
    BY <1>1
  <2>2. QED
    BY <1>1, <2>1 DEF LedgerTypes
<1>3. PanelTypes
  <2>1. calls \in Seq(Call)
    BY <1>1
  <2>2. pending \in PendingCommit \cup {None} /\ mounted \in BOOLEAN /\ busy \in BOOLEAN
    BY <1>1
  <2>3. QED
    BY <1>1, <2>1, <2>2 DEF PanelTypes
<1>4. DOMAIN calls = {}
  BY <1>1
<1>5. PanelHolds /\ OneCall
  BY <1>1, <1>4 DEF PanelHolds, OneCall
<1>6. DerivationsCurrent
  BY <1>1 DEF DerivationsCurrent, AccountIsSigners
<1>7. QED
  BY <1>2, <1>3, <1>5, <1>6 DEF PanelInv

\* Every step keeps all parts of the invariant.
LEMMA PanelInvStep == PanelInv /\ [Next]_vars => PanelInv'
  BY TypesStep, PanelHoldsStep, OneCallStep, DerivationsCurrentStep DEF PanelInv

\* The invariant holds for ever.
LEMMA PanelInvariant == Spec => []PanelInv
  BY PanelInvInit, PanelInvStep, PTL DEF Spec

\* What the commit panel says of its commitment is so on the ledger, and what
\* it holds opens it (Commit.tsx), whatever answers are lost and whatever the
\* owners do elsewhere.
THEOREM PanelHonest == Spec => []PanelTrue
<1>1. PanelInv => PanelTrue
  <2> SUFFICES ASSUME PanelInv, pending # None
               PROVE  /\ pending.id \in DOMAIN commitments
                      /\ commitments[pending.id].point = pending.point
                      /\ verify_opening(pending.point, commitments[pending.id].encoding_id,
                                        pending.stream, pending.blinding)
                      /\ pending.opened =>
                           \E k \in EventsOf("SecretOpened") :
                             /\ events[k].commitment_id = pending.id
                             /\ events[k].stream = pending.stream
                             /\ events[k].blinding = pending.blinding
                      /\ pending.proven # None =>
                           \E k \in EventsOf("SecretPartialOpened") :
                             /\ events[k].commitment_id = pending.id
                             /\ events[k].claimed_first_value = pending.proven
    BY DEF PanelTrue
  <2>1. /\ Recorded(commitments, pending) /\ Opens(pending)
        /\ pending.opened => OpenLogged(events, pending)
        /\ pending.proven # None => ProofLogged(events, pending, pending.proven)
    BY DEF PanelInv, PanelHolds, Holds
  <2>2. QED
    BY <2>1 DEF Recorded, Opens, OpenLogged, ProofLogged, verify_opening, EventsOf
<1>2. QED
  BY <1>1, PanelInvariant, PTL

\* A late derivation for an earlier dev signer is not shown (useDevSession.ts).
THEOREM AccountFollowsSigner == Spec => []AccountIsSigners
<1>1. PanelInv => AccountIsSigners
  BY DEF PanelInv, DerivationsCurrent
<1>2. QED
  BY <1>1, PanelInvariant, PTL

\* While the panel stays mounted, an opening held is not lost or replaced before
\* it is revealed, and nothing shown as revealed or proved is taken back.
THEOREM PendingKept == Spec => PendingOnlyAdvances
<1>1. PanelInv /\ [Next]_vars => [PendingAdvances]_pending
  BY PendingStep DEF PanelInv
<1>2. QED
  BY <1>1, PanelInvariant, PTL DEF Spec, PendingOnlyAdvances

=============================================================================
