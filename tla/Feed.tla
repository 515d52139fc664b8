--------------------------------- MODULE Feed ---------------------------------
(***************************************************************************)
(* The event feed of the demo app, over the keys of the wallet hook:       *)
(* fetchFeed of packages/sdk/src/feed.ts in the poll loop of App.tsx, and  *)
(* the list of components/Feed.tsx, where the connected account decrypts   *)
(* its envelopes.  Everything between two awaits is one action.            *)
(*                                                                         *)
(* An event is named by its place in the ledger's log, which is also its   *)
(* transaction and its time: transactions of this repository emit one      *)
(* event of a kind.                                                        *)
(***************************************************************************)
EXTENDS WalletKeys, FiniteSets, SequencesExt

CONSTANTS
  Kinds,       \* kinds of events the feed asks for, "envelope" among them
  Limit,       \* events a query returns at most; 50 in the code
  MaxLog       \* bound: events on the ledger

ASSUME FeedAssumption ==
  /\ "envelope" \in Kinds
  /\ Limit \in Nat \ {0} /\ MaxLog \in Nat

VARIABLES
  log,     \* the ledger's events
  fetch,   \* fetchFeed: phase, length of the log when it began, answers so far
  shown,   \* the feed on screen, whose order is >, and when its fetch began
  items    \* state of the list's envelope items: call of decrypt, its answer

feedVars == <<log, fetch, shown, items>>

NoAnswer == [kind |-> "none"]
NewItem == [call |-> None, answer |-> NoAnswer]
NewFetch == [phase |-> "querying", began |-> Len(log), got |-> [k \in {} |-> {}]]

\* An empty list, and the first fetch under way.
PageInit ==
  /\ fetch = NewFetch
  /\ shown = [events |-> {}, began |-> 0]
  /\ items = [e \in {} |-> NewItem]

FeedInit == Init /\ log = <<>> /\ PageInit

-----------------------------------------------------------------------------
\* Transactions of anybody.  The recipient's account and the key an envelope
\* is sealed to, named by the account whose wallet signed for it, are the
\* poster's choice.
LedgerEvents ==
  [kind : {"envelope"}, to : Accounts, sealed : Accounts]
    \cup [kind : Kinds \ {"envelope"}]

Happens ==
  /\ Len(log) < MaxLog
  /\ \E e \in LedgerEvents : log' = Append(log, e)
  /\ UNCHANGED <<fetch, shown, items>>

EventsOfKind(k) == {e \in DOMAIN log : log[e].kind = k}

\* Faulty variant: the node's ascending order.
NewestAscending(k) ==
  {e \in EventsOfKind(k) : Cardinality({f \in EventsOfKind(k) : f < e}) < Limit}

\* queryEvents of one kind, descending, limited.
Newest(k) ==
  {e \in EventsOfKind(k) : Cardinality({f \in EventsOfKind(k) : f > e}) < Limit}

\* The queries of Promise.all answer in any order, at different times.
QueryAnswers(k) ==
  /\ fetch.phase = "querying"
  /\ k \in Kinds \ DOMAIN fetch.got
  /\ fetch' = [fetch EXCEPT !.got = [j \in DOMAIN fetch.got \cup {k} |->
                                      IF j = k THEN Newest(k) ELSE fetch.got[j]]]
  /\ UNCHANGED <<log, shown, items>>

\* Faulty variant: the list keyed by position, so that an item's state stays
\* where it was while the events move down.
ShowByPosition ==
  /\ fetch.phase = "querying" /\ DOMAIN fetch.got = Kinds
  /\ LET events == UNION {fetch.got[k] : k \in Kinds}
         before == SetToSortSeq(shown.events, >)
     IN /\ shown' = [events |-> events, began |-> fetch.began]
        /\ items' = [e \in fetch.got["envelope"] |->
                       LET at == Cardinality({f \in events : f >= e})
                       IN IF at \in DOMAIN before /\ before[at] \in DOMAIN items
                            THEN items[before[at]] ELSE NewItem]
  /\ fetch' = [fetch EXCEPT !.phase = "sleeping"]
  /\ UNCHANGED log

\* Gas is asked for, merged and sorted, which is what the set's order stands
\* for, and App sets its feed.  The list is keyed by transaction and kind: an item that stays keeps its state, one that
\* goes loses it, and a call of decrypt under way in it.
Show ==
  /\ fetch.phase = "querying" /\ DOMAIN fetch.got = Kinds
  /\ shown' = [events |-> UNION {fetch.got[k] : k \in Kinds}, began |-> fetch.began]
  /\ items' = [e \in fetch.got["envelope"] |->
                 IF e \in DOMAIN items THEN items[e] ELSE NewItem]
  /\ fetch' = [fetch EXCEPT !.phase = "sleeping"]
  /\ UNCHANGED log

\* Any of the calls rejects; the list stays.
FetchFails ==
  /\ fetch.phase = "querying"
  /\ fetch' = [fetch EXCEPT !.phase = "sleeping"]
  /\ UNCHANGED <<log, shown, items>>

FetchAgain ==
  /\ fetch.phase = "sleeping"
  /\ fetch' = NewFetch
  /\ UNCHANGED <<log, shown, items>>

-----------------------------------------------------------------------------
\* The decrypt button of an item is there for the recipient that has keys.
CanDecrypt(e) ==
  /\ account # None /\ log[e].to = account
  /\ keys # None
  /\ items[e].call = None /\ items[e].answer.kind # "text"

\* decrypt: account and keys are those of the click.
DecryptClick(e) ==
  /\ CanDecrypt(e)
  /\ items' = [items EXCEPT ![e] =
       [call |-> [of |-> e, by |-> account, keys |-> keys, crossed |-> crossed],
        answer |-> NoAnswer]]
  /\ UNCHANGED <<log, fetch, shown>>

\* The item's state is set when its call ends.
DecryptEnds(e, kind) ==
  /\ items[e].call # None
  /\ LET call == items[e].call
     IN items' = [items EXCEPT ![e] =
          [call |-> None, answer |-> [kind |-> kind, of |-> call.of, by |-> call.by,
                                      crossed |-> call.crossed]]]
  /\ UNCHANGED <<log, fetch, shown>>

\* fetchEnvelope answers, and the keys of the click open the envelope or are
\* refused as not the recipient's.
Decrypted(e) ==
  /\ items[e].call # None
  /\ DecryptEnds(e, IF log[items[e].call.of].sealed = items[e].call.keys
                      THEN "text" ELSE "refused")

\* fetchEnvelope rejects, or finds no object.
DecryptFails(e) == DecryptEnds(e, "failed")

-----------------------------------------------------------------------------
\* The hook's steps other than a new page leave the feed alone.
Hook ==
  \/ \E a \in Accounts \cup {None} : Switch(a)
  \/ \E l \in loads : Loaded(l) \/ LoadFails(l)
  \/ DeriveClick \/ Signed \/ Saved \/ DeriveFails

ReloadPage ==
  /\ Reload
  /\ fetch' = NewFetch
  /\ shown' = [events |-> {}, began |-> 0]
  /\ items' = [e \in {} |-> NewItem]
  /\ UNCHANGED log

FeedStep ==
  \/ Happens
  \/ \E k \in Kinds : QueryAnswers(k)
  \/ Show \/ FetchFails \/ FetchAgain
  \/ \E e \in DOMAIN items : DecryptClick(e) \/ Decrypted(e) \/ DecryptFails(e)

FeedNext ==
  \/ Hook /\ UNCHANGED feedVars
  \/ ReloadPage
  \/ FeedStep /\ UNCHANGED vars

FeedSpec == FeedInit /\ [][FeedNext]_<<vars, feedVars>>

-----------------------------------------------------------------------------
\* What an item says of its envelope is true, however polls, account changes
\* and late answers interleave: a text is this envelope's, asked for while its
\* recipient was connected; and a recipient is refused its own mail only when
\* the envelope was not sealed to its key, or the account had been changed
\* under a derivation.
DecryptTrue ==
  \A e \in DOMAIN items :
    LET answer == items[e].answer
    IN /\ answer.kind \in {"text", "refused"} => answer.of = e /\ answer.by = log[e].to
       /\ answer.kind = "refused" => log[e].sealed # log[e].to \/ answer.crossed

\* The four queries are no snapshot, yet nothing is missed: an event of before
\* the fetch is on screen, or Limit newer ones of its kind are.  An opening is
\* therefore shown without its commitment only if that one is too old, or the
\* fetch overtook it.
FeedComplete ==
  \A e \in 1..shown.began :
    LET ofKind == {f \in shown.events : log[f].kind = log[e].kind}
    IN e \in ofKind \/ Cardinality({f \in ofKind : f > e}) = Limit

=============================================================================
