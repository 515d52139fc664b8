SPECIFICATION FeedSpec
CONSTANTS
  Accounts = {alice, bob}
  None = None
  MaxSwitches = 4
  Kinds <- TwoKinds
  Limit = 1
  MaxLog = 2
INVARIANTS
  OwnKeysUnlessCrossed
  SignOnce
  DecryptTrue
  FeedComplete
CHECK_DEADLOCK FALSE
SYMMETRY Symmetry
