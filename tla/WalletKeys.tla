----------------------------- MODULE WalletKeys -----------------------------
(***************************************************************************)
(* apps/protocol/src/whisper/useWhisperKeys.ts: the hook that holds the    *)
(* connected wallet account's encryption keys.  Keys come from the cache   *)
(* in IndexedDB, read when the account changes, or from a signature the    *)
(* user is asked for; both take time, and the account can change meanwhile.*)
(* Derivation is deterministic, so keys are named by the account whose     *)
(* wallet signed for them.                                                 *)
(***************************************************************************)
EXTENDS Naturals

CONSTANTS
  Accounts,      \* accounts of the wallet
  None,          \* no account, no keys
  MaxSwitches    \* bound: account changes and page loads

ASSUME WalletKeysAssumption == None \notin Accounts /\ MaxSwitches \in Nat

VARIABLES
  account,     \* useCurrentAccount
  keys,        \* the keys the hook returns
  hasCached,   \* "unknown" stands for null
  deriving,    \* a derivation is under way, as far as the page knows
  loads,       \* cache reads not answered yet, and whether cancelled
  derive,      \* the call of derive under way, or None
  cache,       \* IndexedDB: accounts with a record; it outlives the page
  crossed,     \* the account changed under a derivation; kept for properties
  switches     \* account changes and page loads so far

pageVars == <<account, keys, hasCached, deriving, loads, derive>>
vars == <<pageVars, cache, crossed, switches>>

Init ==
  /\ account = None
  /\ keys = None
  /\ hasCached = "unknown"
  /\ deriving = FALSE
  /\ loads = {}
  /\ derive = None
  /\ cache = {}
  /\ crossed = FALSE
  /\ switches = 0

\* The wallet connects, disconnects or changes account: the effect's cleanup
\* cancels the read under way, and the effect starts over.  A derivation under
\* way and its deriving flag are left as they are.
Switch(a) ==
  /\ a # account
  /\ switches < MaxSwitches
  /\ switches' = switches + 1
  /\ account' = a
  /\ keys' = None
  /\ hasCached' = "unknown"
  /\ loads' = {[l EXCEPT !.cancelled = TRUE] : l \in loads}
                \cup (IF a = None THEN {} ELSE {[of |-> a, cancelled |-> FALSE]})
  /\ crossed' = (crossed \/ derive # None)
  /\ UNCHANGED <<deriving, derive, cache>>

\* The page is loaded anew.  A save that was under way is lost.
Reload ==
  /\ switches < MaxSwitches
  /\ switches' = switches + 1
  /\ account' = None
  /\ keys' = None
  /\ hasCached' = "unknown"
  /\ deriving' = FALSE
  /\ loads' = {}
  /\ derive' = None
  /\ crossed' = FALSE
  /\ UNCHANGED cache

\* Faulty variant: no look at the cancelled flag.
LoadedAnyway(l) ==
  /\ loads' = loads \ {l}
  /\ IF l.of \in cache
       THEN keys' = l.of /\ hasCached' = "yes"
       ELSE hasCached' = "no" /\ UNCHANGED keys
  /\ UNCHANGED <<account, deriving, derive, cache, crossed, switches>>

\* loadCached answers.
Loaded(l) ==
  /\ loads' = loads \ {l}
  /\ IF l.cancelled THEN UNCHANGED <<keys, hasCached>>
     ELSE IF l.of \in cache
       THEN keys' = l.of /\ hasCached' = "yes"
       ELSE hasCached' = "no" /\ UNCHANGED keys
  /\ UNCHANGED <<account, deriving, derive, cache, crossed, switches>>

\* loadCached rejects: an error is shown, and hasCached stays unknown.
LoadFails(l) ==
  /\ loads' = loads \ {l}
  /\ UNCHANGED <<account, keys, hasCached, deriving, derive, cache, crossed, switches>>

\* The identity bar offers to derive.
CanDerive == account # None /\ keys = None /\ ~deriving /\ hasCached = "no"

DeriveClick ==
  /\ CanDerive
  /\ deriving' = TRUE
  /\ derive' = [of |-> account, phase |-> "signing"]
  /\ UNCHANGED <<account, keys, hasCached, loads, cache, crossed, switches>>

Signed ==
  /\ derive # None /\ derive.phase = "signing"
  /\ derive' = [derive EXCEPT !.phase = "saving"]
  /\ UNCHANGED <<account, keys, hasCached, deriving, loads, cache, crossed, switches>>

\* Faulty variant: after a change of account the result is only cached.
SavedQuietly ==
  /\ derive # None /\ derive.phase = "saving"
  /\ cache' = cache \cup {derive.of}
  /\ IF crossed THEN UNCHANGED <<keys, hasCached>>
                ELSE keys' = derive.of /\ hasCached' = "yes"
  /\ deriving' = FALSE
  /\ derive' = None
  /\ UNCHANGED <<account, loads, crossed, switches>>

\* saveCached answers, and the keys are shown, whatever account is connected.
Saved ==
  /\ derive # None /\ derive.phase = "saving"
  /\ cache' = cache \cup {derive.of}
  /\ keys' = derive.of
  /\ hasCached' = "yes"
  /\ deriving' = FALSE
  /\ derive' = None
  /\ UNCHANGED <<account, loads, crossed, switches>>

\* The wallet refuses, or the save rejects.
DeriveFails ==
  /\ derive # None
  /\ deriving' = FALSE
  /\ derive' = None
  /\ UNCHANGED <<account, keys, hasCached, loads, cache, crossed, switches>>

Next ==
  \/ \E a \in Accounts \cup {None} : Switch(a)
  \/ Reload
  \/ \E l \in loads : Loaded(l) \/ LoadFails(l)
  \/ DeriveClick \/ Signed \/ Saved \/ DeriveFails

Spec == Init /\ [][Next]_vars

-----------------------------------------------------------------------------
\* Reads of the cache that come back late do no harm: unless an account was
\* changed under a derivation, the keys in use are the connected account's.
OwnKeysUnlessCrossed == ~crossed => keys \in {None, account}

\* "Sign once per device": the user is not asked to sign for keys the device
\* has, however reads, saves and changes of account interleave.
SignOnce == CanDerive => account \notin cache

\* What the hook's comments say of its result: "the connected wallet's Baby
\* Jubjub keypair".
KeysOfConnectedWallet == keys \in {None, account}

=============================================================================
