-------------------------------- MODULE Fleet --------------------------------
(***************************************************************************)
(* The fleet management contract                                           *)
(* (src/contracts/fleet_management_contract/lib.rs): fleets of drivers     *)
(* with a treasury that the escrow contract pays in place of an active     *)
(* driver.  A new treasury waits for a timelock, so that drivers can leave *)
(* before their payouts are redirected.                                    *)
(***************************************************************************)
EXTENDS Integers, Sequences, FiniteSets

CONSTANTS
  Addresses, None,
  Admins,          \* addresses that init may install
  Owners, Drivers, \* who registers fleets, who is invited
  Treasuries,      \* treasury arguments
  SignerLists,     \* signer lists that owners configure, as sequences
  Thresholds,      \* signature thresholds that owners configure
  IdentityAddrs,   \* identity contracts an admin may configure
  Timelock,        \* TREASURY_CHANGE_TIMELOCK_SECONDS
  MaxRosterSize,   \* MAX_ROSTER_SIZE
  MaxFleets,       \* bound: fleets registered
  MaxTime          \* bound: the ledger clock

ASSUME FleetAddresses ==
  /\ None \notin Addresses
  /\ Admins \cup Owners \cup Drivers \cup Treasuries \cup IdentityAddrs
       \subseteq Addresses
  /\ \A list \in SignerLists : list \in Seq(Addresses)

ASSUME FleetNumbers ==
  /\ Thresholds \subseteq Nat
  /\ Timelock \in Nat /\ MaxRosterSize \in Nat
  /\ MaxFleets \in Nat /\ MaxTime \in Nat

FleetIds == 1..MaxFleets

VARIABLES
  admin,             \* DataKey::Admin
  identityContract,  \* DataKey::IdentityContract
  counter,           \* DataKey::FleetCounter
  fleet,             \* DataKey::Fleet(id): a profile, or None
  member,            \* DataKey::DriverFleet(id, driver): a status, or None
  roster,            \* DataKey::FleetRoster(id), as the set of its entries
  pending,           \* DataKey::PendingTreasury(id): a change, or None
  announced,         \* history: the last proposal of each fleet
  now                \* ledger timestamp

vars == <<admin, identityContract, counter, fleet, member, roster, pending,
          announced, now>>

Memberships == {"Pending", "Active", "Removed"}

FleetProfile ==
  [owner : Addresses, treasury : Addresses, total_active_drivers : Nat,
   signers : SUBSET Addresses, signature_threshold : Nat, active : BOOLEAN]

PendingTreasuryChange == [treasury : Addresses, activates_at : Nat]

Announcement == [treasury : Addresses, at : Nat]

ASSUME FleetRecords ==
  /\ None \notin FleetProfile /\ None \notin PendingTreasuryChange
  /\ None \notin Announcement /\ None \notin Memberships

Init ==
  /\ admin = None /\ identityContract = None
  /\ counter = 0
  /\ fleet = [f \in FleetIds |-> None]
  /\ member = [f \in FleetIds |-> [d \in Addresses |-> None]]
  /\ roster = [f \in FleetIds |-> {}]
  /\ pending = [f \in FleetIds |-> None]
  /\ announced = [f \in FleetIds |-> None]
  /\ now = 0

-----------------------------------------------------------------------------
(* Administration.                                                         *)

InitContract(a) ==
  /\ admin = None
  /\ admin' = a /\ counter' = 0
  /\ UNCHANGED <<identityContract, fleet, member, roster, pending, announced, now>>

SetIdentityContract(a) ==
  /\ admin # None
  /\ identityContract' = a
  /\ UNCHANGED <<admin, counter, fleet, member, roster, pending, announced, now>>

-----------------------------------------------------------------------------
(* Fleets.                                                                 *)

(* With an identity contract configured, the owner without a driver        *)
(* profile gets one there; nothing of it shows in this contract.           *)
RegisterFleet(owner, treasury) ==
  /\ admin # None
  /\ counter < MaxFleets
  /\ counter' = counter + 1
  /\ fleet' = [fleet EXCEPT ![counter + 1] =
                 [owner |-> owner, treasury |-> treasury,
                  total_active_drivers |-> 0, signers |-> {owner},
                  signature_threshold |-> 1, active |-> TRUE]]
  /\ UNCHANGED <<admin, identityContract, member, roster, pending, announced, now>>

Exists(f) == fleet[f] # None

Signs(caller, f) == caller \in fleet[f].signers

DeactivateFleet(caller, f) ==
  /\ Exists(f)
  /\ caller \in {fleet[f].owner, admin}
  /\ fleet' = [fleet EXCEPT ![f].active = FALSE]
  /\ UNCHANGED <<admin, identityContract, counter, member, roster, pending,
                 announced, now>>

ConfigureSigners(owner, f, list, threshold) ==
  /\ Exists(f)
  /\ owner = fleet[f].owner
  /\ threshold \in 1..Len(list)
  /\ fleet' = [fleet EXCEPT
                 ![f].signers = {list[i] : i \in DOMAIN list},
                 ![f].signature_threshold = threshold]
  /\ UNCHANGED <<admin, identityContract, counter, member, roster, pending,
                 announced, now>>

-----------------------------------------------------------------------------
(* The treasury: propose, wait, confirm.                                   *)

BugActivation == now                       \* mutant: no delay
Activation == now + Timelock

(* update_fleet_treasury: any one signer, whatever the threshold; a second *)
(* proposal replaces the first and starts the delay again.                 *)
ProposeTreasury(caller, f, treasury) ==
  /\ Exists(f)
  /\ Signs(caller, f)
  /\ pending' = [pending EXCEPT ![f] =
                   [treasury |-> treasury, activates_at |-> Activation]]
  /\ announced' = [announced EXCEPT ![f] = [treasury |-> treasury, at |-> now]]
  /\ UNCHANGED <<admin, identityContract, counter, fleet, member, roster, now>>

ConfirmTreasury(f) ==
  /\ pending[f] # None
  /\ now >= pending[f].activates_at
  /\ Exists(f)
  /\ fleet' = [fleet EXCEPT ![f].treasury = pending[f].treasury]
  /\ pending' = [pending EXCEPT ![f] = None]
  /\ UNCHANGED <<admin, identityContract, counter, member, roster, announced, now>>

-----------------------------------------------------------------------------
(* Membership.                                                             *)

BugHiring(f) == TRUE      \* mutant: a deactivated fleet invites as before
Hiring(f) == fleet[f].active

AddDriver(caller, f, d) ==
  /\ Exists(f)
  /\ Hiring(f)
  /\ Signs(caller, f)
  /\ member[f][d] \notin {"Pending", "Active"}
  /\ member' = [member EXCEPT ![f][d] = "Pending"]
  /\ UNCHANGED <<admin, identityContract, counter, fleet, roster, pending,
                 announced, now>>

CancelInvite(caller, f, d) ==
  /\ Exists(f)
  /\ Signs(caller, f)
  /\ member[f][d] = "Pending"
  /\ member' = [member EXCEPT ![f][d] = None]
  /\ UNCHANGED <<admin, identityContract, counter, fleet, roster, pending,
                 announced, now>>

(* Mutant: an invitation of the past will do.                              *)
BugInvited(f, d) == member[f][d] \in {"Pending", "Removed"}
Invited(f, d) == member[f][d] = "Pending"

AcceptInvite(f, d) ==
  /\ Exists(f)
  /\ Invited(f, d)
  /\ Cardinality(roster[f]) < MaxRosterSize
  /\ member' = [member EXCEPT ![f][d] = "Active"]
  /\ fleet' = [fleet EXCEPT ![f].total_active_drivers = @ + 1]
  /\ roster' = [roster EXCEPT ![f] = @ \cup {d}]
  /\ UNCHANGED <<admin, identityContract, counter, pending, announced, now>>

(* Mutant: whoever is removed is counted off, invited or active.           *)
BugHeadcount(f, d) == fleet[f].total_active_drivers - 1

(* The active drivers of f once d is removed.                              *)
Headcount(f, d) ==
  IF member[f][d] = "Active" /\ fleet[f].total_active_drivers > 0
  THEN fleet[f].total_active_drivers - 1
  ELSE fleet[f].total_active_drivers

(* A signer or the driver ends the membership, or the invitation.          *)
RemoveDriver(caller, f, d) ==
  /\ Exists(f)
  /\ Signs(caller, f) \/ caller = d
  /\ member[f][d] # None
  /\ fleet' = [fleet EXCEPT ![f].total_active_drivers = Headcount(f, d)]
  /\ member' = [member EXCEPT ![f][d] = "Removed"]
  /\ roster' = [roster EXCEPT ![f] = @ \ {d}]
  /\ UNCHANGED <<admin, identityContract, counter, pending, announced, now>>

Tick ==
  /\ now < MaxTime
  /\ now' = now + 1
  /\ UNCHANGED <<admin, identityContract, counter, fleet, member, roster,
                 pending, announced>>

-----------------------------------------------------------------------------
Callers == Admins \cup Owners \cup Drivers

Administer ==
  \/ \E a \in Admins : InitContract(a)
  \/ \E a \in IdentityAddrs : SetIdentityContract(a)
  \/ \E o \in Owners, t \in Treasuries : RegisterFleet(o, t)

Manage(f) ==
  \/ \E o \in Owners, list \in SignerLists, n \in Thresholds :
       ConfigureSigners(o, f, list, n)
  \/ \E c \in Callers : DeactivateFleet(c, f)
  \/ \E c \in Callers, t \in Treasuries : ProposeTreasury(c, f, t)
  \/ ConfirmTreasury(f)

Enrol(f, d) ==
  \/ \E c \in Callers : \/ AddDriver(c, f, d)
                        \/ CancelInvite(c, f, d)
                        \/ RemoveDriver(c, f, d)
  \/ AcceptInvite(f, d)

Next ==
  \/ Administer
  \/ \E f \in FleetIds : Manage(f)
  \/ \E f \in FleetIds, d \in Drivers : Enrol(f, d)
  \/ Tick

Spec == Init /\ [][Next]_vars

-----------------------------------------------------------------------------
(* Where the money of a driver goes.                                       *)

(* get_payout_address: the treasury answers for an active member of a      *)
(* running fleet.                                                          *)
Routed(f, d) == fleet[f] # None /\ member[f][d] = "Active" /\ fleet[f].active

GetPayoutAddress(d, f) == IF Routed(f, d) THEN fleet[f].treasury ELSE d

(* Types.                                                                  *)
TypeOK ==
  /\ admin \in Addresses \cup {None}
  /\ identityContract \in Addresses \cup {None}
  /\ counter \in 0..MaxFleets
  /\ fleet \in [FleetIds -> FleetProfile \cup {None}]
  /\ member \in [FleetIds -> [Addresses -> Memberships \cup {None}]]
  /\ roster \in [FleetIds -> SUBSET Addresses]
  /\ pending \in [FleetIds -> PendingTreasuryChange \cup {None}]
  /\ announced \in [FleetIds -> Announcement \cup {None}]
  /\ now \in Nat

(* Three records of one fact, kept by separate writes: the drivers whose   *)
(* status is Active are those on the roster, and total_active_drivers      *)
(* counts them, through invitations, refusals, removals and returns.       *)
MembershipConsistent ==
  \A f \in FleetIds :
    /\ roster[f] = {d \in Addresses : member[f][d] = "Active"}
    /\ fleet[f] # None => fleet[f].total_active_drivers = Cardinality(roster[f])
    /\ fleet[f] = None => roster[f] = {}

(* Payouts of a driver start to go to a treasury only by the acceptance of *)
(* that driver: neither an owner nor a signer nor the admin can bring a    *)
(* removed driver or a deactivated fleet back.                             *)
RoutedByConsent ==
  [][\A f \in FleetIds, d \in Addresses :
       ~Routed(f, d) /\ Routed(f, d)' => member[f][d] = "Pending"]_vars

(* Drivers have notice: a treasury replaces another only as it was last    *)
(* announced, and no sooner than the timelock after that announcement,     *)
(* whatever was proposed before.                                           *)
TreasuryAnnounced ==
  [][\A f \in FleetIds :
       fleet[f] # None /\ fleet'[f].treasury # fleet[f].treasury =>
         /\ announced[f].treasury = fleet'[f].treasury
         /\ now >= announced[f].at + Timelock]_vars

(* Where each fleet stands with its drivers, as Charter describes it.      *)
TreasuryOf == [f \in FleetIds |-> IF fleet[f] = None THEN None ELSE fleet[f].treasury]
OpenOf == [f \in FleetIds |-> fleet[f] # None /\ fleet[f].active]
AskedOf == [f \in FleetIds |-> {d \in Addresses : member[f][d] = "Pending"}]
SizeOf ==
  [f \in FleetIds |-> IF fleet[f] = None THEN 0 ELSE fleet[f].total_active_drivers]

Terms == INSTANCE Charter WITH
  Fleets <- FleetIds, Notice <- Timelock,
  treasury <- TreasuryOf, open <- OpenOf, asked <- AskedOf,
  enrolled <- roster, size <- SizeOf, plan <- pending

(* The fleet contract implements Charter: status, roster, count, pending   *)
(* change and profile, five records written by different functions, move   *)
(* as one standing of each driver and one plan of each fleet.              *)
CharterKept == Terms!Spec

=============================================================================
