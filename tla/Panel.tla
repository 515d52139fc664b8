-------------------------------- MODULE Panel --------------------------------
(***************************************************************************)
(* The commit panel of the demo app (Commit.tsx) in a session of the dev   *)
(* signer (useDevSession.ts): secrets are committed, proved about and      *)
(* revealed by transactions whose answers come late or never, while the    *)
(* user changes the signer or looks at the other tab (ComposeTabs.tsx),    *)
(* which unmounts the panel.  Everything between two awaits is one action. *)
(* The opening of a commitment lives in the panel's state and nowhere      *)
(* else.  Progress texts (proofPhase, err) are left out, and the clock     *)
(* stands still: the panel shows no time.                                  *)
(***************************************************************************)
EXTENDS Commitments

CONSTANTS
  Signers,      \* the accounts of the configured dev signers
  TextUtf8,     \* text_utf8_v1_id
  Texts,        \* streams text_utf8_v1_encode makes of what the user types
  None,         \* no account, no opening
  MaxClicks,    \* bound: actions the user starts in the panel
  MaxSwitches   \* bound: changes of the signer

\* PendingCommit: a commitment and what opens it, as the panel keeps them.
PendingCommit == [id       : 0..MaxObjects,
                  stream   : Texts,
                  blinding : Blindings,
                  point    : Points,
                  opened   : BOOLEAN,
                  proven   : Words \cup {None}]

ASSUME PanelAssumption ==
  /\ Signers \subseteq Accounts
  /\ TextUtf8 \in EncodingIds
  /\ Texts \subseteq StreamsOfLength(StreamLen)
  /\ None \notin Accounts /\ None \notin PendingCommit
  /\ MaxClicks \in Nat /\ MaxSwitches \in Nat

VARIABLES
  activeSigner,   \* the signer that executes transactions
  account,        \* the account the app shows
  derivations,    \* key derivations not finished, and whether cancelled
  switches,       \* changes of the signer so far
  mounted,        \* the commitment tab is the one shown
  busy,           \* an action of the mounted panel is under way
  pending,        \* the commitment the mounted panel holds the opening of
  calls           \* what was started in the panel, in order, with its transaction

sessionVars == <<activeSigner, account, derivations, switches>>
panelVars == <<mounted, busy, pending>>
ledgerVars == <<chainVars, commitments>>
vars == <<ledgerVars, sessionVars, panelVars, calls>>

Init ==
  /\ ChainInit /\ CommitmentsInit
  /\ activeSigner \in Signers
  /\ account = None
  /\ derivations = {[of |-> activeSigner, cancelled |-> FALSE]}
  /\ switches = 0
  /\ mounted = FALSE
  /\ busy = FALSE
  /\ pending = None
  /\ calls = <<>>

-----------------------------------------------------------------------------
\* The dev session.  Transactions are signed by the new signer at once; the
\* account shown follows when its keys are derived.
Switch(s) ==
  /\ s # activeSigner
  /\ switches < MaxSwitches
  /\ switches' = switches + 1
  /\ activeSigner' = s
  /\ derivations' = {[d EXCEPT !.cancelled = TRUE] : d \in derivations}
                      \cup {[of |-> s, cancelled |-> FALSE]}
  /\ UNCHANGED <<ledgerVars, account, panelVars, calls>>

\* Faulty variant: no look at the cancelled flag.
DerivedAnyway(d) ==
  /\ derivations' = derivations \ {d}
  /\ account' = d.of
  /\ UNCHANGED <<ledgerVars, activeSigner, switches, panelVars, calls>>

Derived(d) ==
  /\ derivations' = derivations \ {d}
  /\ account' = IF d.cancelled THEN account ELSE d.of
  /\ UNCHANGED <<ledgerVars, activeSigner, switches, panelVars, calls>>

DerivationFails(d) ==
  /\ derivations' = derivations \ {d}
  /\ account' = IF d.cancelled THEN account ELSE None
  /\ UNCHANGED <<ledgerVars, activeSigner, switches, panelVars, calls>>

-----------------------------------------------------------------------------
\* The other tab: the panel is unmounted with its state.  What it started goes
\* on, but its answers find no panel.
LeaveTab ==
  /\ mounted
  /\ mounted' = FALSE
  /\ busy' = FALSE
  /\ pending' = None
  /\ calls' = [n \in DOMAIN calls |-> [calls[n] EXCEPT !.live = FALSE]]
  /\ UNCHANGED <<ledgerVars, sessionVars>>

EnterTab ==
  /\ ~mounted
  /\ mounted' = TRUE
  /\ UNCHANGED <<ledgerVars, sessionVars, busy, pending, calls>>

\* A button starts one of the panel's async functions, which captures the
\* executor and the commitment of the moment.
Start(kind, phase, subject) ==
  /\ Len(calls) < MaxClicks
  /\ calls' = Append(calls, [kind |-> kind, phase |-> phase, tx |-> "none",
                             by |-> activeSigner, live |-> TRUE, subject |-> subject])
  /\ busy' = TRUE
  /\ UNCHANGED <<ledgerVars, sessionVars, mounted, pending>>

\* freshBlinding: no two commitments share one.
FreshBlindings == Blindings \ {calls[n].subject.blinding : n \in DOMAIN calls}

\* The opening held is still to be revealed.
Unrevealed == pending # None /\ ~pending.opened

\* Faulty variant: a new commitment while an opening is still held.
CommitClickAnytime ==
  /\ mounted /\ account # None /\ ~busy
  /\ \E stream \in Texts, blinding \in FreshBlindings :
       Start("commit", "signing",
             [id |-> 0, stream |-> stream, blinding |-> blinding,
              point |-> pedersen_commit(TextUtf8, stream, blinding),
              opened |-> FALSE, proven |-> None])

\* postCommit, with the point and the opening made at the click.
CommitClick ==
  /\ mounted /\ account # None /\ ~busy
  /\ ~Unrevealed
  /\ \E stream \in Texts, blinding \in FreshBlindings :
       Start("commit", "signing",
             [id |-> 0, stream |-> stream, blinding |-> blinding,
              point |-> pedersen_commit(TextUtf8, stream, blinding),
              opened |-> FALSE, proven |-> None])

\* The buttons of a held opening.
Offered == mounted /\ account # None /\ Unrevealed

\* Faulty variant: the button stays enabled during another action.
OpenClickBusy == Offered /\ Start("open", "signing", pending)

OpenClick == Offered /\ ~busy /\ Start("open", "signing", pending)

ProveClick == Offered /\ ~busy /\ Start("prove", "proving", pending)

\* The prover-server answers with the proof bytes.
Proved(n) ==
  /\ calls[n].phase = "proving"
  /\ calls' = [calls EXCEPT ![n].phase = "signing"]
  /\ UNCHANGED <<ledgerVars, sessionVars, panelVars>>

Submit(n) ==
  /\ calls[n].phase = "signing"
  /\ calls' = [calls EXCEPT ![n].phase = "waiting", ![n].tx = "pending"]
  /\ UNCHANGED <<ledgerVars, sessionVars, panelVars>>

\* What the panel holds once the transaction of call n has succeeded.
Result(n) ==
  LET subject == calls[n].subject
  IN CASE calls[n].kind = "commit" -> subject
       [] calls[n].kind = "open"   -> [subject EXCEPT !.opened = TRUE]
       [] calls[n].kind = "prove"  -> [subject EXCEPT !.proven = subject.stream[1]]

\* Faulty variant: the effects' status not looked at.
AnsweredUnchecked(n) ==
  /\ calls[n].phase = "waiting" /\ calls[n].tx # "pending"
  /\ calls' = [calls EXCEPT ![n].phase = "done"]
  /\ IF calls[n].live
       THEN busy' = FALSE /\ pending' = Result(n)
       ELSE UNCHANGED <<busy, pending>>
  /\ UNCHANGED <<ledgerVars, sessionVars, mounted>>

\* waitForTransaction answers with the effects.
Answered(n) ==
  /\ calls[n].phase = "waiting" /\ calls[n].tx # "pending"
  /\ calls' = [calls EXCEPT ![n].phase = "done"]
  /\ busy' = IF calls[n].live THEN FALSE ELSE busy
  /\ IF calls[n].live /\ calls[n].tx = "success"
       THEN pending' = Result(n)
       ELSE UNCHANGED pending
  /\ UNCHANGED <<ledgerVars, sessionVars, mounted>>

\* An await rejects: the prover, the submission, or the wait for an answer.
CallFails(n) ==
  /\ calls[n].phase # "done"
  /\ calls' = [calls EXCEPT ![n].phase = "done"]
  /\ busy' = IF calls[n].live THEN FALSE ELSE busy
  /\ UNCHANGED <<ledgerVars, sessionVars, mounted, pending>>

-----------------------------------------------------------------------------
\* A submitted transaction takes effect, or aborts: its signer does not own
\* the commitment, or the commitment is opened already.
Succeeds(n) ==
  LET c == calls[n]
      s == calls[n].subject
  IN \/ /\ c.kind = "commit"
        /\ commit_secret(c.by, TextUtf8, s.point)
        /\ calls' = [calls EXCEPT ![n].tx = "success", ![n].subject.id = nextId]
     \/ /\ c.kind = "open"
        /\ open_secret(c.by, s.id, s.stream, s.blinding)
        /\ calls' = [calls EXCEPT ![n].tx = "success"]
     \/ /\ c.kind = "prove"
        /\ open_with_proof(c.by, s.id, s.stream[1],
             [point |-> s.point, encoding_id |-> TextUtf8, claimed |-> s.stream[1]])
        /\ calls' = [calls EXCEPT ![n].tx = "success"]

Aborts(n) ==
  LET c == calls[n]
      s == calls[n].subject
  IN /\ c.kind # "commit"
     /\ \/ ~Owns(c.by, s.id)
        \/ c.kind = "open" /\ ~open_secret_asserts(s.id, s.stream)
     /\ calls' = [calls EXCEPT ![n].tx = "failure"]
     /\ UNCHANGED ledgerVars

Execute ==
  /\ \E n \in DOMAIN calls : calls[n].tx = "pending" /\ (Succeeds(n) \/ Aborts(n))
  /\ UNCHANGED <<sessionVars, panelVars>>

\* An owner opens or hands on a commitment from another program, with any
\* stream and blinding.
OpenElsewhere ==
  /\ \E id \in DOMAIN commitments, stream \in Streams, blinding \in Blindings :
       open_secret(commitments[id].owner, id, stream, blinding)
  /\ UNCHANGED <<sessionVars, panelVars, calls>>

TransferElsewhere ==
  /\ \E id \in DOMAIN commitments, to \in Accounts : public_transfer(id, to)
  /\ UNCHANGED <<sessionVars, panelVars, calls>>

\* An await of a call answers or rejects.
Proceeds(n) == Proved(n) \/ Submit(n) \/ Answered(n) \/ CallFails(n)

Next ==
  \/ \E s \in Signers : Switch(s)
  \/ \E d \in derivations : Derived(d) \/ DerivationFails(d)
  \/ LeaveTab \/ EnterTab
  \/ CommitClick \/ OpenClick \/ ProveClick
  \/ \E n \in DOMAIN calls : Proceeds(n)
  \/ Execute \/ OpenElsewhere \/ TransferElsewhere

Spec == Init /\ [][Next]_vars

-----------------------------------------------------------------------------
\* What the panel says of its commitment is so on the ledger, and what it
\* holds opens it: the object has the point the kept stream and blinding
\* commit to, "opened (revealed on chain)" is said only of a commitment with
\* an opening by this stream and blinding, and "verified" only of one with a
\* partial open of this first element.  Lost answers, changes of the signer
\* and what the owner does elsewhere do not make it wrong.
PanelTrue ==
  pending # None =>
    /\ pending.id \in DOMAIN commitments
    /\ commitments[pending.id].point = pending.point
    /\ verify_opening(pending.point, commitments[pending.id].encoding_id,
                      pending.stream, pending.blinding)
    /\ pending.opened =>
         \E k \in EventsOf("SecretOpened") :
           /\ events[k].commitment_id = pending.id
           /\ events[k].stream = pending.stream
           /\ events[k].blinding = pending.blinding
    /\ pending.proven # None =>
         \E k \in EventsOf("SecretPartialOpened") :
           /\ events[k].commitment_id = pending.id
           /\ events[k].claimed_first_value = pending.proven

\* While the panel stays mounted, an opening not revealed yet is not replaced,
\* and what was shown as revealed or proved is not taken back.
PendingAdvances ==
  (pending # None /\ mounted') =>
    /\ pending' # None
    /\ ~pending.opened => pending'.id = pending.id
    /\ pending'.id = pending.id =>
         /\ pending.opened => pending'.opened
         /\ pending.proven # None => pending'.proven = pending.proven

PendingOnlyAdvances == [][PendingAdvances]_pending

\* Once no derivation is under way that counts, the account shown is the
\* signer's, or none: a late derivation for an earlier signer is not shown.
AccountIsSigners ==
  (\A d \in derivations : d.cancelled) => account \in {activeSigner, None}

==============================================================================
