SPECIFICATION Spec
SYMMETRY Symmetry
CONSTANTS
  Accounts = {alice, bob}
  PubKeys = {}
  Bodies = {}
  Empty = Empty
  MaxU64 = 1
  EncodingIds = {1}
  BaseP = 3
  ScalarL = 2
  StreamLen = 1
  MaxStream = 1
  Blindings = {0}
  MaxTime = 0
  MaxObjects = 2
  MaxEvents = 5
INVARIANTS
  EventsRebuildCommitments
  RevealsAgree
PROPERTIES
  HistoryKept
CHECK_DEADLOCK FALSE
