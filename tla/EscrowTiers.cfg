\* Does a release charge the fee of the sender's volume tier?
CONSTANTS
  Ids = {1, 2}
  Addresses = {"ann", "bob", "dan", "adm", "box", "escrow", "dsp"}
  EscrowAddr = "escrow"
  None = None
  Tokens = {"usd"}
  AmountOffers = {19}
  MaxI128 = 1000000000
  MaxU32 = 2
  EscrowExpiry = 0
  Senders = {"ann"}
  Recipients = {"bob"}
  Drivers = {"dan"}
  Founders = {"adm"}
  Nominees = {}
  Treasuries = {"box"}
  SettlementAddrs = {}
  FleetAddrs = {}
  DisputeAddrs = {}
  FleetIds = {None}
  FeeOffers = {1000}
  SlippageOffers = {}
  ShareOffers = {2500, 10001}
  TierTables <- OneTier
  Surpluses = {}
  InitialBalance = 38
  MaxBatchLen = 0
  MaxTime = 1
SPECIFICATION Spec
PROPERTIES TierFeeCharged
