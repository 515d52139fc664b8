------------------------------ MODULE Registry ------------------------------
(***************************************************************************)
(* contracts/sources/registry.move: one shared KeyRegistry that maps an    *)
(* account to its current encryption key, and one EncryptionKey object per *)
(* registration, never changed afterwards.  No entry function takes an     *)
(* EncryptionKey, so who holds the object has no effect and is left out.   *)
(* A public key is the opaque pair (pubkey_x, pubkey_y): the chain never   *)
(* looks inside it.                                                        *)
(***************************************************************************)
EXTENDS Chain

CONSTANTS
  PubKeys,   \* public keys an account may register
  MaxU64     \* the largest u64: key_version + 1 aborts beyond it

ASSUME RegistryAssumption == MaxU64 \in Nat \ {0}

VARIABLES
  entries,   \* KeyRegistry.entries: account -> KeyEntry, partial
  keys       \* EncryptionKey objects: id -> EncryptionKey, partial

registryVars == <<entries, keys>>

KeyVersions == 1..MaxU64

KeyEntry == [pubkey         : PubKeys,
             current_key_id : ObjectIds,
             key_version    : KeyVersions,
             rotated_at_ms  : 0..MaxTime]

EncryptionKey == [account       : Accounts,
                  pubkey        : PubKeys,
                  key_version   : KeyVersions,
                  rotated_at_ms : 0..MaxTime]

EncryptionKeyRegistered == [type          : {"EncryptionKeyRegistered"},
                            key_id        : ObjectIds,
                            account       : Accounts,
                            pubkey        : PubKeys,
                            key_version   : KeyVersions,
                            rotated_at_ms : 0..MaxTime]

RegistryInit ==
  /\ entries = [a \in {} |-> 0]
  /\ keys = [id \in {} |-> 0]

has_entry(who) == who \in DOMAIN entries

\* Faulty variants of next_version: a rotation that forgets to count, and
\* numbering from zero.
next_version_not_counted(account) ==
  IF has_entry(account) THEN entries[account].key_version ELSE 1

next_version_from_zero(account) ==
  IF has_entry(account) THEN entries[account].key_version + 1 ELSE 0

next_version(account) ==
  IF has_entry(account) THEN entries[account].key_version + 1 ELSE 1

\* Faulty variants of put_entry: an update that leaves current_key_id alone,
\* and one that only ever adds.
put_entry_keeps_id(account, entry) ==
  entries' = [a \in DOMAIN entries \cup {account} |->
                IF a # account THEN entries[a]
                ELSE IF has_entry(a)
                  THEN [entry EXCEPT !.current_key_id = entries[a].current_key_id]
                  ELSE entry]

put_entry_once(account, entry) ==
  entries' = [a \in DOMAIN entries \cup {account} |->
                IF has_entry(a) THEN entries[a] ELSE entry]

\* The first registration adds the entry, every later one overwrites it in
\* place.
put_entry(account, entry) ==
  entries' = [a \in DOMAIN entries \cup {account} |->
                IF a = account THEN entry ELSE entries[a]]

\* Sent by `account', whose address is the key of the entry.
register_encryption_key(account, pubkey) ==
  LET version == next_version(account)
      entry   == [pubkey         |-> pubkey,
                  current_key_id |-> nextId,
                  key_version    |-> version,
                  rotated_at_ms  |-> now]
      key     == [account       |-> account,
                  pubkey        |-> pubkey,
                  key_version   |-> version,
                  rotated_at_ms |-> now]
  IN /\ version <= MaxU64
     /\ NewObject
     /\ keys' = [id \in DOMAIN keys \cup {nextId} |->
                   IF id = nextId THEN key ELSE keys[id]]
     /\ put_entry(account, entry)
     /\ Emit([type          |-> "EncryptionKeyRegistered",
              key_id        |-> nextId,
              account       |-> account,
              pubkey        |-> pubkey,
              key_version   |-> version,
              rotated_at_ms |-> now])
     /\ UNCHANGED now

-----------------------------------------------------------------------------
\* The keys an account has registered.
KeysOf(account) == {id \in DOMAIN keys : keys[id].account = account}

\* An entry is the newest key object of its account, field for field, and
\* an account has an entry as soon as it has a key: what a sender looks up
\* is the last registration, whatever was registered by whom in between
\* (register_encryption_key_impl updates the entry and mints the object
\* separately).
EntryIsNewestKey ==
  /\ \A a \in DOMAIN entries :
       LET entry == entries[a]
       IN /\ entry.current_key_id \in KeysOf(a)
          /\ LET key == keys[entry.current_key_id]
             IN /\ key.pubkey = entry.pubkey
                /\ key.key_version = entry.key_version
                /\ key.rotated_at_ms = entry.rotated_at_ms
          /\ \A id \in KeysOf(a) : keys[id].key_version <= entry.key_version
  /\ \A id \in DOMAIN keys : has_entry(keys[id].account)

\* Rotation is monotonic and auditable: the versions of an account's keys
\* have no gap and no repetition, and a later version was minted later, under
\* a later id and not before its predecessor.
RotationHistoryLinear ==
  /\ \A id \in DOMAIN keys : keys[id].rotated_at_ms <= now
  /\ \A id1, id2 \in DOMAIN keys :
       keys[id1].account = keys[id2].account =>
         (keys[id1].key_version < keys[id2].key_version <=> id1 < id2)
  /\ \A id1, id2 \in DOMAIN keys :
       keys[id1].account = keys[id2].account /\ id1 < id2 =>
         keys[id1].rotated_at_ms <= keys[id2].rotated_at_ms
  /\ \A a \in DOMAIN entries : \A v \in 1..entries[a].key_version :
       \E id \in KeysOf(a) : keys[id].key_version = v

\* A reader who has only the events can rebuild the registry: the events and
\* the key objects are the same list, and the last event of an account holds
\* its entry.
EventsRebuildRegistry ==
  LET log == EventsOf("EncryptionKeyRegistered")
  IN /\ \A i \in log :
          /\ events[i].key_id \in DOMAIN keys
          /\ keys[events[i].key_id] = [account       |-> events[i].account,
                                       pubkey        |-> events[i].pubkey,
                                       key_version   |-> events[i].key_version,
                                       rotated_at_ms |-> events[i].rotated_at_ms]
     /\ \A id \in DOMAIN keys : \E i \in log : events[i].key_id = id
     /\ \A i, j \in log : i < j => events[i].key_id < events[j].key_id
     /\ \A i \in log :
          (\A j \in log : events[j].account = events[i].account => j <= i)
            => entries[events[i].account].current_key_id = events[i].key_id

=============================================================================
