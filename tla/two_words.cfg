SPECIFICATION Spec
CONSTANTS
  Accounts = {alice}
  PubKeys = {}
  Bodies = {}
  Empty = Empty
  MaxU64 = 1
  EncodingIds = {1}
  BaseP = 4
  ScalarL = 2
  StreamLen = 1
  MaxStream = 1
  Blindings = {0}
  MaxTime = 0
  MaxObjects = 1
  MaxEvents = 5
INVARIANT PartialOpensBindWord
CHECK_DEADLOCK FALSE
