SPECIFICATION Spec
CONSTANTS
  Accounts = {alice, bob}
  None = None
  MaxSwitches = 2
INVARIANT KeysOfConnectedWallet
CHECK_DEADLOCK FALSE
