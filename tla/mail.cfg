SPECIFICATION Spec
CONSTANTS
  Accounts = {alice, bob}
  PubKeys = {p, q}
  Bodies = {m}
  Empty = Empty
  MaxU64 = 3
  EncodingIds = {1}
  BaseP = 2
  ScalarL = 1
  StreamLen = 1
  MaxStream = 1
  Blindings = {}
  MaxTime = 2
  MaxObjects = 4
  MaxEvents = 4
INVARIANTS
  TypeOK
  EntryIsNewestKey
  RotationHistoryLinear
  EventsRebuildRegistry
  EnvelopeAnchored
  InboxComplete
PROPERTIES
  ImplementsKeyLog
CHECK_DEADLOCK FALSE
