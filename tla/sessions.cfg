SPECIFICATION Spec
CONSTANTS
  alice = alice
  bob = bob
  p = p
  q = q
  Accounts = {alice, bob}
  PubKeys = {p, q}
  Clients = {alice}
  DevClients = {}
  MaxListed = 1
  LocalKey <- MCLocalKey
  MaxTxs = 1
  Bodies <- Transactions
  Empty = Empty
  MaxU64 = 2
  MaxTime = 0
  MaxObjects = 3
  MaxEvents = 3
INVARIANTS
  SealedToNewestKey
  ReceiptsPosted
PROPERTIES
  ShownNeverGoesBack
  RotationsShown
