----------------------------- MODULE FeedProofs -----------------------------
(***************************************************************************)
(* Theorems about the wallet's keys and the feed that decrypts with them,  *)
(* for any accounts, kinds of events, limits and bounds.                   *)
(***************************************************************************)
EXTENDS Feed, FiniteSetTheorems, TLAPS

USE WalletKeysAssumption, FeedAssumption

-----------------------------------------------------------------------------
(* The newest of a kind.  In a finite set of numbers each element has a    *)
(* rank, the count of larger ones; ranks are 0, 1, ... without a gap.      *)

Above(S, e) == {f \in S : f > e}

Rank(S) == [e \in S |-> Cardinality(Above(S, e))]

\* A larger element has a lower rank.
LEMMA RankDecreases ==
  ASSUME NEW S \in SUBSET Nat, IsFiniteSet(S), NEW e \in S, NEW f \in S, e < f
  PROVE  Rank(S)[f] < Rank(S)[e]
<1>1. IsFiniteSet(Above(S, e)) /\ IsFiniteSet(Above(S, f))
  BY FS_Subset DEF Above
<1>2. Above(S, f) \in SUBSET Above(S, e) /\ f \in Above(S, e) /\ f \notin Above(S, f)
  <2>1. \A x \in S : x > f => x > e
    <3>1. \A x \in S : x \in Nat
      OBVIOUS
    <3>2. QED
      BY <3>1
  <2>2. f > e /\ ~(f > f)
    <3>1. e \in Nat /\ f \in Nat
      OBVIOUS
    <3>2. QED
      BY <3>1
  <2>3. QED
    BY <2>1, <2>2 DEF Above
<1>3. /\ Cardinality(Above(S, f)) <= Cardinality(Above(S, e))
      /\ Cardinality(Above(S, e)) # Cardinality(Above(S, f))
  <2>1. Above(S, e) # Above(S, f)
    BY <1>2
  <2>2. /\ Cardinality(Above(S, f)) <= Cardinality(Above(S, e))
        /\ Cardinality(Above(S, e)) = Cardinality(Above(S, f)) => Above(S, e) = Above(S, f)
    BY <1>1, <1>2, FS_Subset
  <2>3. QED
    BY <2>1, <2>2
<1>4. Cardinality(Above(S, f)) \in Nat /\ Cardinality(Above(S, e)) \in Nat
  BY <1>1, FS_CardinalityType
<1>5. QED
  BY <1>3, <1>4 DEF Rank

\* Ranks number the set from 0, each number once.
LEMMA RankBijective ==
  ASSUME NEW S \in SUBSET Nat, IsFiniteSet(S)
  PROVE  /\ Rank(S) \in Injection(S, 0..(Cardinality(S) - 1))
         /\ Rank(S) \in Surjection(S, 0..(Cardinality(S) - 1))
<1> DEFINE n == Cardinality(S)
<1>1. n \in Nat
  BY FS_CardinalityType
<1>2. \A e \in S : Rank(S)[e] \in 0..(n - 1)
  <2> SUFFICES ASSUME NEW e \in S PROVE Rank(S)[e] \in 0..(n - 1)
    OBVIOUS
  <2>1. IsFiniteSet(S \ {e}) /\ Cardinality(S \ {e}) = n - 1
    BY FS_RemoveElement
  <2>2. Above(S, e) \in SUBSET (S \ {e})
    BY DEF Above
  <2>3. IsFiniteSet(Above(S, e)) /\ Cardinality(Above(S, e)) <= n - 1
    BY <2>1, <2>2, FS_Subset
  <2>4. Cardinality(Above(S, e)) \in Nat
    BY <2>3, FS_CardinalityType
  <2>5. QED
    BY <1>1, <2>3, <2>4 DEF Rank
<1>3. \A e, f \in S : Rank(S)[e] = Rank(S)[f] => e = f
  <2> SUFFICES ASSUME NEW e \in S, NEW f \in S, e # f PROVE Rank(S)[e] # Rank(S)[f]
    OBVIOUS
  <2>1. e < f \/ f < e
    OBVIOUS
  <2>2. Rank(S)[e] \in Nat /\ Rank(S)[f] \in Nat
    BY <1>1, <1>2
  <2>3. QED
    BY <2>1, <2>2, RankDecreases
<1>4. Rank(S) \in Injection(S, 0..(n - 1))
  BY <1>2, <1>3 DEF Injection, IsInjective, Rank
<1>5. IsFiniteSet(0..(n - 1)) /\ Cardinality(0..(n - 1)) = n
  <2>1. 0 \in Int /\ n - 1 \in Int /\ (0 > n - 1 => n = 0)
    BY <1>1
  <2>2. IsFiniteSet(0..(n - 1)) /\ Cardinality(0..(n - 1)) = IF 0 > n - 1 THEN 0 ELSE (n - 1) - 0 + 1
    BY <2>1, FS_Interval
  <2>3. QED
    BY <1>1, <2>1, <2>2
<1>6. QED
  BY <1>4, <1>5, FS_Injection

\* The elements of rank below m are m in number, when there is one of rank m
\* or more.
LEMMA NewestCount ==
  ASSUME NEW S \in SUBSET Nat, IsFiniteSet(S), NEW m \in Nat,
         NEW e \in S, ~(Rank(S)[e] < m)
  PROVE  LET N == {x \in S : Rank(S)[x] < m}
         IN  Cardinality(Above(N, e)) = m
<1> DEFINE n == Cardinality(S)
           N == {x \in S : Rank(S)[x] < m}
<1>1. n \in Nat
  BY FS_CardinalityType
<1>2. \A x \in S : Rank(S)[x] \in 0..(n - 1)
  BY RankBijective DEF Injection
<1>3. m \in 0..(n - 1)
  <2>1. Rank(S)[e] \in 0..(n - 1)
    BY <1>2
  <2>2. QED
    BY <1>1, <2>1
<1>4. Above(N, e) = N
  <2> SUFFICES ASSUME NEW x \in N PROVE x > e
    BY DEF Above
  <2>1. Rank(S)[x] < m /\ x \in S
    OBVIOUS
  <2>2. Rank(S)[x] \in Nat /\ Rank(S)[e] \in Nat
    BY <1>1, <1>2, <2>1
  <2>3. x # e
    BY <2>1
  <2>4. ~(x < e)
    BY <2>1, <2>2, RankDecreases
  <2>5. QED
    BY <2>3, <2>4
<1>5. IsFiniteSet(N) /\ Cardinality(N) = m
  <2> DEFINE r == [x \in N |-> Rank(S)[x]]
  <2>1. \A x \in N : r[x] \in 0..(m - 1)
    BY <1>1, <1>2, <1>3
  <2>2. \A x, y \in N : r[x] = r[y] => x = y
    BY RankBijective DEF Injection, IsInjective, Rank
  <2>3. \A t \in 0..(m - 1) : \E x \in N : r[x] = t
    <3> SUFFICES ASSUME NEW t \in 0..(m - 1) PROVE \E x \in N : r[x] = t
      OBVIOUS
    <3>1. t \in 0..(n - 1) /\ t < m
      BY <1>1, <1>3
    <3>2. PICK x \in S : Rank(S)[x] = t
      BY <3>1, RankBijective DEF Surjection
    <3>3. QED
      BY <3>1, <3>2
  <2>4. r \in Injection(N, 0..(m - 1)) /\ r \in Surjection(N, 0..(m - 1))
    BY <2>1, <2>2, <2>3 DEF Injection, Surjection, IsInjective
  <2>5. IsFiniteSet(0..(m - 1)) /\ Cardinality(0..(m - 1)) = m
    BY FS_Interval
  <2> HIDE DEF r, N
  <2>6. QED
    BY <2>4, <2>5, FS_Injection
<1>6. QED
  BY <1>4, <1>5

-----------------------------------------------------------------------------
(* The hook.  Besides what it shows, the invariant speaks of what is under *)
(* way: a read of the cache that counts is for the connected account, and  *)
(* so is a derivation no change of account has crossed.                    *)

HookInv ==
  /\ account \in Accounts \cup {None}
  /\ crossed \in BOOLEAN
  /\ loads \subseteq [of : Accounts, cancelled : BOOLEAN]
  /\ derive # None => derive \in [of : Accounts, phase : {"signing", "saving"}]
  /\ \A l \in loads : ~l.cancelled => l.of = account
  /\ ~crossed /\ derive # None => derive.of = account
  /\ OwnKeysUnlessCrossed
  /\ hasCached = "no" /\ keys = None => account \notin cache

\* A change of account cancels the reads under way and starts one that counts.
LEMMA SwitchStep ==
  ASSUME HookInv, NEW a \in Accounts \cup {None}, Switch(a)
  PROVE  HookInv'
<1>1. ASSUME NEW l \in loads'
      PROVE  l \in [of : Accounts, cancelled : BOOLEAN] /\ (~l.cancelled => l.of = a)
  <2>1. CASE \E k \in loads : l = [k EXCEPT !.cancelled = TRUE]
    BY <2>1 DEF HookInv
  <2>2. CASE a # None /\ l = [of |-> a, cancelled |-> FALSE]
    BY <2>2
  <2>3. QED
    BY <2>1, <2>2 DEF Switch
<1>2. loads' \subseteq [of : Accounts, cancelled : BOOLEAN]
  BY <1>1
<1>3. /\ account' = a /\ keys' = None /\ hasCached' = "unknown"
      /\ crossed' = (crossed \/ derive # None) /\ derive' = derive
  BY DEF Switch
<1>4. QED
  BY <1>1, <1>2, <1>3 DEF HookInv, OwnKeysUnlessCrossed

\* A late answer of the cache is for the connected account, or is not looked at.
LEMMA LoadStep ==
  ASSUME HookInv, NEW l \in loads, Loaded(l) \/ LoadFails(l)
  PROVE  HookInv'
  BY DEF HookInv, Loaded, LoadFails, OwnKeysUnlessCrossed

\* A derivation starts, is signed, ends.
LEMMA DeriveStep ==
  ASSUME HookInv, DeriveClick \/ Signed \/ Saved \/ DeriveFails
  PROVE  HookInv'
<1>1. CASE DeriveClick
  BY <1>1 DEF HookInv, DeriveClick, CanDerive, OwnKeysUnlessCrossed
<1>2. CASE Signed
  BY <1>2 DEF HookInv, Signed, OwnKeysUnlessCrossed
<1>3. CASE Saved
  BY <1>3 DEF HookInv, Saved, OwnKeysUnlessCrossed
<1>4. CASE DeriveFails
  BY <1>4 DEF HookInv, DeriveFails, OwnKeysUnlessCrossed
<1>5. QED
  BY <1>1, <1>2, <1>3, <1>4

\* Every step of the hook keeps its invariant.
LEMMA HookStep == HookInv /\ [Next]_vars => HookInv'
<1> SUFFICES ASSUME HookInv, [Next]_vars PROVE HookInv'
  OBVIOUS
<1>1. CASE \E a \in Accounts \cup {None} : Switch(a)
  BY <1>1, SwitchStep
<1>2. CASE Reload
  BY <1>2 DEF Reload, HookInv, OwnKeysUnlessCrossed
<1>3. CASE \E l \in loads : Loaded(l) \/ LoadFails(l)
  BY <1>3, LoadStep
<1>4. CASE DeriveClick \/ Signed \/ Saved \/ DeriveFails
  BY <1>4, DeriveStep
<1>5. CASE UNCHANGED vars
  BY <1>5 DEF vars, pageVars, HookInv, OwnKeysUnlessCrossed
<1>6. QED
  BY <1>1, <1>2, <1>3, <1>4, <1>5 DEF Next

\* The invariant of the hook, alone.
LEMMA HookInvariant == Spec => []HookInv
<1>1. Init => HookInv
  BY DEF Init, HookInv, OwnKeysUnlessCrossed
<1>2. QED
  BY <1>1, HookStep, PTL DEF Spec

\* With the feed around it the hook takes the steps it takes alone.
LEMMA FeedRunsHook == FeedSpec => Spec
<1>1. FeedInit => Init
  BY DEF FeedInit
<1>2. [FeedNext]_<<vars, feedVars>> => [Next]_vars
  <2> SUFFICES ASSUME [FeedNext]_<<vars, feedVars>> PROVE [Next]_vars
    OBVIOUS
  <2>1. Hook => Next
    BY DEF Hook, Next
  <2>2. ReloadPage => Next
    BY DEF ReloadPage, Next
  <2>3. QED
    BY <2>1, <2>2 DEF FeedNext
<1>3. QED
  BY <1>1, <1>2, PTL DEF FeedSpec, Spec

\* The keys in use are the connected account's, unless the account was changed
\* under a derivation: for any accounts, any number of changes and any order of
\* late answers.
THEOREM OwnKeys == FeedSpec => []OwnKeysUnlessCrossed
<1>1. HookInv => OwnKeysUnlessCrossed
  BY DEF HookInv
<1>2. QED
  BY HookInvariant, FeedRunsHook, <1>1, PTL

\* Nobody is asked to sign for keys the device has.
THEOREM SignedOnce == FeedSpec => []SignOnce
<1>1. HookInv => SignOnce
  BY DEF HookInv, SignOnce, CanDerive
<1>2. QED
  BY HookInvariant, FeedRunsHook, <1>1, PTL

-----------------------------------------------------------------------------
(* The feed.  An answer of a query is complete as of the moment its fetch  *)
(* began, and stays so: the ledger only grows.                             *)

\* S holds every event of kind k among the first n, or Limit newer ones.
Complete(k, S, n) ==
  \A e \in 1..n : log[e].kind = k => e \in S \/ Cardinality(Above(S, e)) = Limit

AnswerInv(k, S, n) == S \subseteq EventsOfKind(k) /\ Complete(k, S, n)

FetchInv ==
  /\ fetch = [phase |-> fetch.phase, began |-> fetch.began, got |-> fetch.got]
  /\ fetch.began \in 0..Len(log)
  /\ DOMAIN fetch.got \subseteq Kinds
  /\ \A k \in DOMAIN fetch.got : AnswerInv(k, fetch.got[k], fetch.began)

OfKind(k) == {f \in shown.events : log[f].kind = k}

ShownInv ==
  /\ shown.began \in 0..Len(log)
  /\ shown.events \subseteq DOMAIN log
  /\ \A k \in Kinds : Complete(k, OfKind(k), shown.began)

\* A call of decrypt is about its own item, was made by the recipient, and with
\* the recipient's keys unless the account was changed under a derivation.
CallInv(e, call) ==
  call # None =>
    /\ call.of = e
    /\ call.by = log[e].to
    /\ call.crossed \/ call.keys = log[e].to

AnsweredInv(e, answer) ==
  answer.kind \in {"text", "refused"} =>
    /\ answer.of = e
    /\ answer.by = log[e].to
    /\ answer.kind = "refused" => log[e].sealed # log[e].to \/ answer.crossed

ItemsInv ==
  /\ DOMAIN items \subseteq DOMAIN log
  /\ items = [e \in DOMAIN items |-> [call |-> items[e].call, answer |-> items[e].answer]]
  /\ \A e \in DOMAIN items : CallInv(e, items[e].call) /\ AnsweredInv(e, items[e].answer)

LogInv == log \in Seq(LedgerEvents)

FeedInv == LogInv /\ FetchInv /\ ShownInv /\ ItemsInv

-----------------------------------------------------------------------------
\* What an answer of a query holds when it comes.
LEMMA NewestComplete ==
  ASSUME LogInv, NEW k, NEW n \in 0..Len(log)
  PROVE  AnswerInv(k, Newest(k), n)
<1> DEFINE S == EventsOfKind(k)
<1>1. S \in SUBSET Nat /\ IsFiniteSet(S) /\ S \subseteq 1..Len(log)
  <2>1. Len(log) \in Nat /\ DOMAIN log = 1..Len(log)
    BY DEF LogInv
  <2>2. S \in SUBSET (1..Len(log)) /\ IsFiniteSet(1..Len(log))
    BY <2>1, FS_Interval DEF EventsOfKind
  <2>3. QED
    BY <2>2, FS_Subset
<1>2. Newest(k) = {e \in S : Rank(S)[e] < Limit}
  BY DEF Newest, Rank, Above
<1>3. ASSUME NEW e \in 1..n, log[e].kind = k, e \notin Newest(k)
      PROVE  Cardinality(Above(Newest(k), e)) = Limit
  <2>1. e \in S
    BY <1>3 DEF EventsOfKind, LogInv
  <2>2. ~(Rank(S)[e] < Limit)
    BY <1>2, <1>3, <2>1
  <2> HIDE DEF S
  <2>3. QED
    BY <1>1, <1>2, <2>1, <2>2, NewestCount
<1>4. QED
  BY <1>2, <1>3 DEF AnswerInv, Complete

\* The ledger grows: what was true of its events stays true.
LEMMA LogGrows ==
  ASSUME LogInv, Happens
  PROVE  /\ LogInv'
         /\ Len(log') \in Nat /\ Len(log) \in Nat /\ Len(log) <= Len(log')
         /\ DOMAIN log \subseteq DOMAIN log' /\ DOMAIN log = 1..Len(log)
         /\ \A e \in DOMAIN log : log'[e] = log[e]
<1>1. PICK e \in LedgerEvents : log' = Append(log, e)
  BY DEF Happens
<1>2. QED
  BY <1>1 DEF LogInv

\* A new event makes no answer and nothing on screen wrong.
LEMMA HappensStep ==
  ASSUME FeedInv, Happens
  PROVE  FeedInv'
<1>1. /\ LogInv'
      /\ Len(log') \in Nat /\ Len(log) \in Nat /\ Len(log) <= Len(log')
      /\ DOMAIN log \subseteq DOMAIN log' /\ DOMAIN log = 1..Len(log)
      /\ \A e \in DOMAIN log : log'[e] = log[e]
  BY LogGrows DEF FeedInv
<1>2. UNCHANGED <<fetch, shown, items>>
  BY DEF Happens
<1>3. ASSUME NEW k, NEW S, NEW n \in 0..Len(log), Complete(k, S, n)
      PROVE  Complete(k, S, n)'
  BY <1>1, <1>3 DEF Complete
<1>4. FetchInv'
  <2>1. fetch.began \in 0..Len(log)
    BY DEF FeedInv, FetchInv
  <2>2. ASSUME NEW k \in DOMAIN fetch.got PROVE AnswerInv(k, fetch.got[k], fetch.began)'
    <3>1. AnswerInv(k, fetch.got[k], fetch.began)
      BY DEF FeedInv, FetchInv
    <3>2. (fetch.got[k] \subseteq EventsOfKind(k))'
      BY <1>1, <1>2, <3>1 DEF AnswerInv, EventsOfKind
    <3>3. QED
      BY <1>2, <1>3, <2>1, <3>1, <3>2 DEF AnswerInv
  <2>3. fetch.began \in 0..Len(log')
    BY <1>1, <2>1
  <2>4. QED
    BY <1>2, <2>2, <2>3 DEF FeedInv, FetchInv
<1>5. ShownInv'
  <2>1. \A k \in Kinds : OfKind(k)' = OfKind(k)
    BY <1>1, <1>2 DEF FeedInv, ShownInv, OfKind
  <2>2. shown.began \in 0..Len(log) /\ \A k \in Kinds : Complete(k, OfKind(k), shown.began)
    BY DEF FeedInv, ShownInv
  <2>3. \A k \in Kinds : Complete(k, OfKind(k), shown.began)'
    BY <1>2, <1>3, <2>1, <2>2
  <2>4. QED
    BY <1>1, <1>2, <2>2, <2>3 DEF FeedInv, ShownInv
<1>6. ItemsInv'
  BY <1>1, <1>2 DEF FeedInv, ItemsInv, CallInv, AnsweredInv
<1>7. QED
  BY <1>1, <1>4, <1>5, <1>6 DEF FeedInv

\* The state of a page is about the ledger it was made from.
LEMMA FeedFrame ==
  ASSUME FeedInv, UNCHANGED log
  PROVE  /\ LogInv'
         /\ UNCHANGED fetch => FetchInv'
         /\ UNCHANGED shown => ShownInv'
         /\ UNCHANGED items => ItemsInv'
  BY DEF FeedInv, LogInv, FetchInv, AnswerInv, EventsOfKind, Complete, ShownInv, OfKind,
         ItemsInv, CallInv, AnsweredInv

\* A fetch that just begins has no answers, an empty list lacks nothing.
LEMMA PageFresh ==
  ASSUME LogInv
  PROVE  /\ fetch = NewFetch => FetchInv
         /\ shown = [events |-> {}, began |-> 0] => ShownInv
         /\ items = [e \in {} |-> NewItem] => ItemsInv
<1>1. Len(log) \in Nat
  BY DEF LogInv
<1>2. ASSUME fetch = NewFetch PROVE FetchInv
  <2>1. fetch.began \in 0..Len(log) /\ DOMAIN fetch.got = {}
    BY <1>1, <1>2 DEF NewFetch
  <2>2. fetch = [phase |-> fetch.phase, began |-> fetch.began, got |-> fetch.got]
    BY <1>2 DEF NewFetch
  <2>3. QED
    BY <2>1, <2>2 DEF FetchInv
<1>3. shown = [events |-> {}, began |-> 0] => ShownInv
  BY <1>1 DEF ShownInv, Complete
<1>4. items = [e \in {} |-> NewItem] => ItemsInv
  BY DEF ItemsInv
<1>5. QED
  BY <1>2, <1>3, <1>4

\* A query answers with the newest events of its kind.
LEMMA QueryStep ==
  ASSUME FeedInv, NEW k \in Kinds, QueryAnswers(k)
  PROVE  FeedInv'
<1>1. fetch.began \in 0..Len(log) /\ LogInv
  BY DEF FeedInv, FetchInv
<1>2. AnswerInv(k, Newest(k), fetch.began)
  BY <1>1, NewestComplete
<1>3. /\ fetch'.phase = fetch.phase /\ fetch'.began = fetch.began
      /\ fetch'.got = [j \in DOMAIN fetch.got \cup {k} |->
                        IF j = k THEN Newest(k) ELSE fetch.got[j]]
      /\ fetch' = [phase |-> fetch'.phase, began |-> fetch'.began, got |-> fetch'.got]
  BY DEF QueryAnswers, FeedInv, FetchInv
<1>4. ASSUME NEW j \in DOMAIN fetch'.got
      PROVE  AnswerInv(j, fetch'.got[j], fetch'.began)
  BY <1>2, <1>3 DEF FeedInv, FetchInv
<1>5. UNCHANGED <<log, shown, items>>
  BY DEF QueryAnswers
<1>6. FetchInv'
  <2>1. fetch'.began \in 0..Len(log) /\ DOMAIN fetch'.got \subseteq Kinds
    BY <1>3 DEF FeedInv, FetchInv
  <2>2. ASSUME NEW j \in DOMAIN fetch'.got
        PROVE  AnswerInv(j, fetch.got[j], fetch.began)'
    BY <1>4, <1>5 DEF AnswerInv, EventsOfKind, Complete
  <2>3. QED
    BY <1>3, <1>5, <2>1, <2>2 DEF FetchInv
<1>7. QED
  BY <1>5, <1>6, FeedFrame DEF FeedInv

\* Together the answers are complete for every kind, and an item that stays
\* keeps its state.
LEMMA ShowStep ==
  ASSUME FeedInv, Show
  PROVE  FeedInv'
<1> DEFINE events == UNION {fetch.got[k] : k \in Kinds}
<1>1. /\ DOMAIN fetch.got = Kinds /\ UNCHANGED log
      /\ shown' = [events |-> events, began |-> fetch.began]
      /\ items' = [e \in fetch.got["envelope"] |->
                     IF e \in DOMAIN items THEN items[e] ELSE NewItem]
      /\ fetch' = [fetch EXCEPT !.phase = "sleeping"]
  BY DEF Show
<1>2. \A k \in Kinds : /\ fetch.got[k] \subseteq EventsOfKind(k)
                       /\ fetch.got[k] \subseteq DOMAIN log
                       /\ Complete(k, fetch.got[k], fetch.began)
  BY <1>1 DEF FeedInv, FetchInv, AnswerInv, EventsOfKind
<1>3. FetchInv'
  BY <1>1 DEF FeedInv, FetchInv, AnswerInv, EventsOfKind, Complete
<1>4. ShownInv'
  <2>1. \A k \in Kinds : OfKind(k)' = fetch.got[k]
    <3> SUFFICES ASSUME NEW k \in Kinds
                 PROVE  {f \in events : log[f].kind = k} = fetch.got[k]
      BY <1>1 DEF OfKind
    <3>1. \A j \in Kinds : \A f \in fetch.got[j] : log[f].kind = j
      BY <1>2 DEF EventsOfKind
    <3>2. QED
      BY <3>1
  <2>2. shown'.began \in 0..Len(log) /\ shown'.events \subseteq DOMAIN log
    BY <1>1, <1>2 DEF FeedInv, FetchInv
  <2>3. \A k \in Kinds : Complete(k, OfKind(k), shown.began)'
    <3>1. shown'.began = fetch.began
      BY <1>1
    <3>2. QED
      BY <1>1, <1>2, <2>1, <3>1 DEF Complete
  <2>4. QED
    BY <1>1, <2>2, <2>3 DEF ShownInv
<1>5. ItemsInv'
  <2>1. DOMAIN items' \subseteq DOMAIN log
    BY <1>1, <1>2
  <2>2. ASSUME NEW e \in DOMAIN items'
        PROVE  /\ items'[e] = [call |-> items'[e].call, answer |-> items'[e].answer]
               /\ CallInv(e, items'[e].call) /\ AnsweredInv(e, items'[e].answer)
    <3>1. CASE e \in DOMAIN items
      <4>1. items'[e] = items[e]
        BY <1>1, <2>2, <3>1
      <4>2. QED
        BY <1>1, <3>1, <4>1 DEF FeedInv, ItemsInv, CallInv, AnsweredInv
    <3>2. CASE e \notin DOMAIN items
      <4>1. items'[e] = NewItem
        BY <1>1, <2>2, <3>2
      <4>2. QED
        BY <4>1 DEF NewItem, NoAnswer, CallInv, AnsweredInv
    <3>3. QED
      BY <3>1, <3>2
  <2>3. items' = [e \in DOMAIN items' |->
                    [call |-> items'[e].call, answer |-> items'[e].answer]]
    BY <1>1, <2>2
  <2>4. \A e \in DOMAIN items' :
          CallInv(e, items[e].call)' /\ AnsweredInv(e, items[e].answer)'
    BY <1>1, <2>2 DEF CallInv, AnsweredInv
  <2>5. DOMAIN items' \subseteq DOMAIN log'
    BY <1>1, <2>1
  <2>6. QED
    BY <2>3, <2>4, <2>5, Zenon DEF ItemsInv
<1>6. QED
  BY <1>1, <1>3, <1>4, <1>5, FeedFrame DEF FeedInv

\* A fetch that fails or begins again, and a page loaded anew.
LEMMA FetchStep ==
  ASSUME FeedInv, FetchFails \/ FetchAgain \/ ReloadPage
  PROVE  FeedInv'
<1>1. LogInv' /\ UNCHANGED log
  BY DEF FetchFails, FetchAgain, ReloadPage, FeedInv, LogInv
<1>2. CASE FetchFails
  <2>1. FetchInv'
    BY <1>1, <1>2 DEF FetchFails, FeedInv, FetchInv, AnswerInv, EventsOfKind, Complete
  <2>2. QED
    BY <1>1, <1>2, <2>1, FeedFrame DEF FetchFails, FeedInv
<1>3. CASE FetchAgain \/ ReloadPage
  <2>1. (fetch = NewFetch)'
    BY <1>1, <1>3 DEF FetchAgain, ReloadPage, NewFetch
  <2>2. (/\ fetch = NewFetch => FetchInv
         /\ shown = [events |-> {}, began |-> 0] => ShownInv
         /\ items = [e \in {} |-> NewItem] => ItemsInv)'
    BY <1>1, PageFresh, PTL
  <2>3. CASE FetchAgain
    BY <1>1, <2>1, <2>2, <2>3, FeedFrame DEF FetchAgain, FeedInv
  <2>4. CASE ReloadPage
    BY <1>1, <2>1, <2>2, <2>4 DEF ReloadPage, FeedInv
  <2>5. QED
    BY <1>3, <2>3, <2>4
<1>4. QED
  BY <1>2, <1>3

\* The state of one item is replaced by a true one.
LEMMA ItemStep ==
  ASSUME FeedInv, UNCHANGED <<log, fetch, shown>>, NEW e \in DOMAIN items,
         NEW call, NEW answer, CallInv(e, call), AnsweredInv(e, answer),
         items' = [items EXCEPT ![e] = [call |-> call, answer |-> answer]]
  PROVE  FeedInv'
<1>1. ItemsInv'
  <2>1. items'[e].call = call /\ items'[e].answer = answer
    OBVIOUS
  <2>2. ASSUME NEW d \in DOMAIN items
        PROVE  /\ items'[d] = [call |-> items'[d].call, answer |-> items'[d].answer]
               /\ CallInv(d, items'[d].call) /\ AnsweredInv(d, items'[d].answer)
    <3>1. CASE d = e
      BY <2>1, <3>1
    <3>2. CASE d # e
      <4>1. items'[d] = items[d]
        BY <3>2
      <4>2. QED
        BY <4>1 DEF FeedInv, ItemsInv
    <3>3. QED
      BY <3>1, <3>2
  <2>3. DOMAIN items' = DOMAIN items
    OBVIOUS
  <2>4. items' = [d \in DOMAIN items' |->
                    [call |-> items'[d].call, answer |-> items'[d].answer]]
    BY <2>2, <2>3
  <2>5. QED
    BY <2>2, <2>3, <2>4 DEF FeedInv, ItemsInv, CallInv, AnsweredInv
<1>2. QED
  BY <1>1, FeedFrame DEF FeedInv

\* A call of decrypt starts with the account and the keys of the click, and ends
\* on the item it was started from.
LEMMA DecryptStep ==
  ASSUME FeedInv, HookInv, NEW e \in DOMAIN items,
         DecryptClick(e) \/ Decrypted(e) \/ DecryptFails(e)
  PROVE  FeedInv'
<1>1. UNCHANGED <<log, fetch, shown>>
  BY DEF DecryptClick, Decrypted, DecryptFails, DecryptEnds
<1>2. CASE DecryptClick(e)
  <2> DEFINE call == [of |-> e, by |-> account, keys |-> keys, crossed |-> crossed]
  <2>1. log[e].to = account /\ keys # None
          /\ items' = [items EXCEPT ![e] = [call |-> call, answer |-> NoAnswer]]
    BY <1>2 DEF DecryptClick, CanDecrypt
  <2>2. crossed \/ keys = account
    BY <2>1 DEF HookInv, OwnKeysUnlessCrossed
  <2>3. CallInv(e, call)
    BY <2>1, <2>2 DEF CallInv
  <2>4. AnsweredInv(e, NoAnswer)
    BY DEF AnsweredInv, NoAnswer
  <2> HIDE DEF call
  <2>5. QED
    BY <1>1, <2>1, <2>3, <2>4, ItemStep
<1>3. ASSUME NEW kind, DecryptEnds(e, kind),
             kind = "refused" =>
               log[items[e].call.of].sealed # items[e].call.keys
      PROVE  FeedInv'
  <2> DEFINE call == items[e].call
             answer == [kind |-> kind, of |-> call.of, by |-> call.by, crossed |-> call.crossed]
  <2>1. call # None /\ items' = [items EXCEPT ![e] = [call |-> None, answer |-> answer]]
    BY <1>3 DEF DecryptEnds
  <2>2. CallInv(e, call)
    BY DEF FeedInv, ItemsInv
  <2>3. AnsweredInv(e, answer)
    BY <1>3, <2>1, <2>2 DEF CallInv, AnsweredInv
  <2>4. CallInv(e, None)
    BY DEF CallInv
  <2> HIDE DEF answer
  <2>5. QED
    BY <1>1, <2>1, <2>3, <2>4, ItemStep
<1>4. CASE Decrypted(e)
  <2>1. CASE log[items[e].call.of].sealed = items[e].call.keys
    BY <1>3, <1>4, <2>1 DEF Decrypted
  <2>2. CASE log[items[e].call.of].sealed # items[e].call.keys
    BY <1>3, <1>4, <2>2 DEF Decrypted
  <2>3. QED
    BY <2>1, <2>2
<1>5. CASE DecryptFails(e)
  BY <1>3, <1>5 DEF DecryptFails
<1>6. QED
  BY <1>2, <1>4, <1>5

\* The invariant of hook and feed together.
LEMMA FeedInvariant == FeedSpec => [](HookInv /\ FeedInv)
<1>1. FeedInit => FeedInv
  <2> SUFFICES ASSUME FeedInit PROVE FeedInv
    OBVIOUS
  <2>1. LogInv
    BY DEF FeedInit, LogInv
  <2>2. QED
    BY <2>1, PageFresh DEF FeedInit, PageInit, FeedInv
<1>2. FeedInv /\ HookInv /\ [FeedNext]_<<vars, feedVars>> => FeedInv'
  <2> SUFFICES ASSUME FeedInv, HookInv, [FeedNext]_<<vars, feedVars>> PROVE FeedInv'
    OBVIOUS
  <2>1. CASE UNCHANGED feedVars
    BY <2>1, FeedFrame DEF feedVars, FeedInv
  <2>2. CASE ReloadPage
    BY <2>2, FetchStep
  <2>3. CASE FeedStep
    BY <2>3, HappensStep, QueryStep, ShowStep, FetchStep, DecryptStep DEF FeedStep
  <2>4. QED
    BY <2>1, <2>2, <2>3 DEF FeedNext
<1>3. QED
  BY <1>1, <1>2, HookInvariant, FeedRunsHook, PTL DEF FeedSpec

\* What an item says of its envelope is true: for any accounts and log, and any
\* interleaving of polls, changes of account and late answers.
THEOREM DecryptsTruly == FeedSpec => []DecryptTrue
<1>1. FeedInv => DecryptTrue
  BY DEF FeedInv, ItemsInv, AnsweredInv, DecryptTrue
<1>2. QED
  BY FeedInvariant, <1>1, PTL

\* Nothing the limit has room for is missing from the list, whatever happened
\* between the queries of a fetch: for any kinds, limit and log.
THEOREM NothingMissed == FeedSpec => []FeedComplete
<1>1. FeedInv => FeedComplete
  <2> SUFFICES ASSUME FeedInv, NEW e \in 1..shown.began
               PROVE  LET ofKind == {f \in shown.events : log[f].kind = log[e].kind}
                      IN e \in ofKind \/ Cardinality({f \in ofKind : f > e}) = Limit
    BY DEF FeedComplete
  <2>1. log[e].kind \in Kinds
    <3>1. log[e] \in LedgerEvents
      BY DEF FeedInv, ShownInv, LogInv
    <3>2. QED
      BY <3>1 DEF LedgerEvents
  <2>2. e \in OfKind(log[e].kind) \/ Cardinality(Above(OfKind(log[e].kind), e)) = Limit
    BY <2>1 DEF FeedInv, ShownInv, Complete
  <2>3. QED
    BY <2>2 DEF OfKind, Above
<1>2. QED
  BY FeedInvariant, <1>1, PTL

=============================================================================
