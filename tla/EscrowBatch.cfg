\* Batches next to single creation: two deliveries, two tokens of which one
\* is the protocol token, two drivers, and sweeps of either token.  The sender
\* can pay for both deliveries, so that a batch and a single escrow share a
\* token.  And one delivery under a changing administration: handover of the
\* admin role, fee and tier changes, the fleet and settlement contracts.
CONSTANTS
  Ids = {1, 2}
  Addresses = {"ann", "bob", "dan", "dee", "adm", "eve", "box", "escrow", "flt", "stl"}
  EscrowAddr = "escrow"
  None = None
  Tokens = {"usd", "eur"}
  AmountOffers = {0, 19}
  MaxI128 = 1000000000
  MaxU32 = 1
  EscrowExpiry = 0
  Senders = {"ann"}
  Recipients = {"bob"}
  Drivers = {"dan", "dee"}
  Founders = {"adm"}
  Nominees = {"adm", "eve", "bob"}
  Treasuries = {"box"}
  SettlementAddrs = {"stl"}
  FleetAddrs = {"flt"}
  DisputeAddrs = {}
  FleetIds = {None, 1}
  FeeOffers = {0, 1000}
  SlippageOffers = {500, 10001}
  ShareOffers = {2500}
  TierTables <- OneTier
  Surpluses = {}
  InitialBalance = 38
  MaxBatchLen = 2
  MaxTime = 0
SPECIFICATION InstanceSpec
INVARIANTS IndexExact TotalLockedDrift LiveBacked
PROPERTIES CustodyKept AdminHandover
