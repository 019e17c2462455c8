\* Does the pause halt every payout?
CONSTANTS
  Ids = {1}
  Addresses = {"ann", "bob", "dan", "adm", "box", "escrow", "dsp"}
  EscrowAddr = "escrow"
  None = None
  Tokens = {"usd"}
  AmountOffers = {0, 12, 19}
  MaxI128 = 1000000000
  MaxU32 = 2
  EscrowExpiry = 0
  Senders = {"ann"}
  Recipients = {"bob"}
  Drivers = {"dan"}
  Founders = {"adm"}
  Nominees = {}
  Treasuries = {"box"}
  SettlementAddrs = {}
  FleetAddrs = {}
  DisputeAddrs = {"dsp"}
  FleetIds = {None}
  FeeOffers = {1000, 1001}
  SlippageOffers = {}
  ShareOffers = {2500, 10001}
  TierTables <- NoTiers
  Surpluses = {20}
  InitialBalance = 58
  MaxBatchLen = 0
  MaxTime = 1
SPECIFICATION Spec
PROPERTIES PauseHaltsPayouts
