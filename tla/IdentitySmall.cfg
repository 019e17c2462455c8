\* A driver, two contracts in changing offices, the default points and a
\* configuration whose sums overflow.
CONSTANTS
  Addresses = {"adm", "ann", "dan", "dlv", "new"}
  None = None
  Admins = {"adm"}
  Contracts = {"dlv", "new"}
  Users = {"ann"}
  Drivers = {"dan"}
  Configs <- Generous
  Penalties = {10, 60}
  MaxU32 = 120
  MaxDeliveries = 2
  MaxTime = 1
SPECIFICATION Spec
INVARIANTS TypeOK
PROPERTIES ReputationEarned
