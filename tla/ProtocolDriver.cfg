\* As ProtocolSmall: whether a driver may open a case.
CONSTANTS
  Ids = {1}
  Addresses = {"ann", "bob", "dan", "adm", "escrow", "delivery", "dispute", "identity", "other"}
  EscrowAddr = "escrow"
  DeliveryAddr = "delivery"
  DisputeAddr = "dispute"
  IdentityAddr = "identity"
  None = None
  Tokens = {"usd"}
  AmountOffers = {3}
  MaxI128 = 1000000000
  EscrowExpiry = 0
  Senders = {"ann"}
  Recipients = {"bob"}
  Drivers = {"dan"}
  Founders = {"adm"}
  Nominees = {}
  Treasuries = {}
  SettlementAddrs = {}
  FleetAddrs = {}
  DisputeAddrs = {"dispute"}
  FleetIds = {None}
  FeeOffers = {0}
  SlippageOffers = {}
  ShareOffers = {5000}
  TierTables = {}
  Surpluses = {}
  InitialBalance = 3
  MaxBatchLen = 0
  MaxTime = 1
  WalkIns = {"bob"}
  Reviewed = {"delivery", "other"}
  Configs <- Flat
  Cargos <- Goods
  Penalties = {60}
  MaxU32 = 200
  MaxDeliveryBatch = 1
  Arbiters = {"adm"}
  MinDisputeTimeLimit = 0
  LimitOffers = {0}
  MaxU64 = 10
  MaxEvidence = 1
SPECIFICATION InstanceSpec
INVARIANTS DriverMayDispute
