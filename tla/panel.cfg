SPECIFICATION Spec
SYMMETRY Symmetry
CONSTANTS
  Accounts = {alice, bob}
  Signers = {alice, bob}
  EncodingIds = {0}
  TextUtf8 = 0
  Texts <- MCTexts
  None = None
  BaseP = 1
  ScalarL = 1
  StreamLen = 1
  MaxStream = 1
  Blindings = {0, 1}
  MaxTime = 0
  MaxObjects = 2
  MaxEvents = 4
  MaxClicks = 3
  MaxSwitches = 1
INVARIANTS
  PanelTrue
  AccountIsSigners
PROPERTIES
  PendingOnlyAdvances
CHECK_DEADLOCK FALSE
