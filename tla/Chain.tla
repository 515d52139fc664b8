------------------------------- MODULE Chain -------------------------------
(***************************************************************************)
(* The part of the Sui ledger every Move module of the package shares: the *)
(* clock object 0x6, the supply of fresh object ids behind object::new and *)
(* the log event::emit appends to.  A transaction that aborts leaves no    *)
(* trace, so only successful entry calls are actions, and the aborting     *)
(* assertions are their guards.                                            *)
(***************************************************************************)
EXTENDS Integers, Sequences

CONSTANTS
  Accounts,    \* addresses that can send a transaction
  MaxTime,     \* bound: the clock is not run past it
  MaxObjects,  \* bound: number of objects ever created
  MaxEvents    \* bound: length of the event log

ASSUME ChainAssumption == MaxTime \in Nat /\ MaxObjects \in Nat /\ MaxEvents \in Nat

VARIABLES
  now,      \* clock::timestamp_ms
  nextId,   \* the id the next object::new returns
  events    \* every event emitted, in the order of the ledger

chainVars == <<now, nextId, events>>

\* Object ids are handed out in order; `nextId' is the first one not used yet.
ObjectIds == 1..MaxObjects

ChainInit ==
  /\ now = 0
  /\ nextId = 1
  /\ events = <<>>

\* object::new: the id of the object being created, and the supply without it.
NewObject ==
  /\ nextId <= MaxObjects
  /\ nextId' = nextId + 1

\* event::emit of one event.
Emit(e) == Len(events) < MaxEvents /\ events' = Append(events, e)

\* The consensus clock moves on between transactions.  Several transactions
\* can carry the same timestamp.
AdvanceClock ==
  /\ now < MaxTime
  /\ now' = now + 1
  /\ UNCHANGED <<nextId, events>>

\* The positions of the events of type t, as queryEvents by type returns them.
EventsOf(t) == {i \in DOMAIN events : events[i].type = t}

=============================================================================
