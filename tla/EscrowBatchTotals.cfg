\* Does TotalLocked follow the escrows that a batch creates?
CONSTANTS
  Ids = {1, 2}
  Addresses = {"ann", "bob", "dan", "dee", "adm", "box", "escrow"}
  EscrowAddr = "escrow"
  None = None
  Tokens = {"usd", "eur"}
  AmountOffers = {0, 19}
  MaxI128 = 1000000000
  MaxU32 = 2
  EscrowExpiry = 0
  Senders = {"ann"}
  Recipients = {"bob"}
  Drivers = {"dan", "dee"}
  Founders = {"adm"}
  Nominees = {}
  Treasuries = {"box"}
  SettlementAddrs = {}
  FleetAddrs = {}
  DisputeAddrs = {}
  FleetIds = {None}
  FeeOffers = {1000}
  SlippageOffers = {}
  ShareOffers = {2500}
  TierTables = {}
  Surpluses = {}
  InitialBalance = 19
  MaxBatchLen = 2
  MaxTime = 0
SPECIFICATION Spec
INVARIANTS TotalLockedExact
