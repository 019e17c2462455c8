\* Three drivers and a roster for two, one fleet whose owner shares the signing, two treasuries and
\* a delay of two ticks.
CONSTANTS
  Addresses = {"adm", "own", "sig", "dan", "dee", "dot", "t1", "t2"}
  None = None
  Admins = {"adm"}
  Owners = {"own", "sig"}
  Drivers = {"dan", "dee", "dot"}
  Treasuries = {"t1", "t2"}
  SignerLists <- OwnerAndSigner
  Thresholds = {1, 2, 3}
  IdentityAddrs = {"adm"}
  Timelock = 2
  MaxRosterSize = 2
  MaxFleets = 1
  MaxTime = 3
SPECIFICATION Spec
INVARIANTS TypeOK MembershipConsistent
PROPERTIES RoutedByConsent TreasuryAnnounced CharterKept
