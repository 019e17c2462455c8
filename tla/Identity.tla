------------------------------ MODULE Identity ------------------------------
(***************************************************************************)
(* The identity and reputation contract                                    *)
(* (src/contracts/identity_reputation_contract/lib.rs): profiles of users  *)
(* and drivers, and a bounded score that allowed contracts raise when a    *)
(* delivery completes and lower when a dispute goes against the driver.    *)
(* The callers are the delivery and the dispute contract, or any address   *)
(* that the admin puts on the allowlist.                                   *)
(***************************************************************************)
EXTENDS Integers

CONSTANTS
  Addresses, None,
  Admins,         \* addresses that init may install
  Contracts,      \* addresses that act as delivery or dispute contract
  Users, Drivers, \* who registers
  Configs,        \* reputation configurations that an admin may set
  Penalties,      \* points that a dispute may cost
  MaxU32,         \* largest value of the integer type u32
  MaxDeliveries,  \* bound: completions of one driver
  MaxTime         \* bound: the ledger clock

MAX_REPUTATION == 100
INITIAL_REPUTATION == 50

ReputationConfig ==
  [base_points : 0..MaxU32, heavy_cargo_points : 0..MaxU32,
   fragile_points : 0..MaxU32]

DefaultConfig ==
  [base_points |-> 5, heavy_cargo_points |-> 3, fragile_points |-> 2]

DriverProfile ==
  [deliveries_completed : Nat, reputation_score : 0..MAX_REPUTATION,
   registered_at : Nat, kyc_verified : BOOLEAN]

ASSUME IdentityAddresses ==
  /\ None \notin Addresses
  /\ Admins \cup Contracts \cup Users \cup Drivers \subseteq Addresses

ASSUME IdentityNumbers ==
  /\ MaxU32 \in Nat /\ MaxU32 >= MAX_REPUTATION
  /\ Penalties \subseteq 0..MaxU32
  /\ MaxDeliveries \in 0..MaxU32 /\ MaxTime \in Nat

ASSUME IdentityRecords ==
  /\ Configs \subseteq ReputationConfig
  /\ None \notin ReputationConfig /\ None \notin DriverProfile
  /\ None \notin Nat

VARIABLES
  admin,             \* DataKey::Admin
  authorized,        \* DataKey::AuthorizedContract(a): the allowlist
  deliveryContract,  \* DataKey::DeliveryContract, or None
  disputeContract,   \* DataKey::DisputeContract, or None
  config,            \* DataKey::ReputationConfig, or None
  joined,            \* DataKey::UserProfile(a): the join date, or None
  driver,            \* DataKey::DriverProfile(a): a profile, or None
  now                \* ledger timestamp

accessVars == <<authorized, deliveryContract, disputeContract>>
profileVars == <<joined, driver>>
vars == <<admin, accessVars, config, profileVars, now>>

Init ==
  /\ admin = None
  /\ authorized = {}
  /\ deliveryContract = None /\ disputeContract = None
  /\ config = None
  /\ joined = [a \in Addresses |-> None]
  /\ driver = [a \in Addresses |-> None]
  /\ now = 0

-----------------------------------------------------------------------------
(* Administration.                                                         *)

(* init puts the two contracts on the allowlist; it stores neither address *)
(* under the keys of the getters.                                          *)
InitContract(a, delivery, dispute) ==
  /\ admin = None
  /\ admin' = a
  /\ authorized' = authorized \cup {delivery, dispute}
  /\ UNCHANGED <<deliveryContract, disputeContract, config, profileVars, now>>

SetAuthorizedContract(c, allowed) ==
  /\ admin # None
  /\ authorized' = IF allowed THEN authorized \cup {c} ELSE authorized \ {c}
  /\ UNCHANGED <<admin, deliveryContract, disputeContract, config,
                 profileVars, now>>

SetReputationConfig(c) ==
  /\ admin # None
  /\ config' = c
  /\ UNCHANGED <<admin, accessVars, profileVars, now>>

(* The two setters leave the allowlist as it is: the contract replaced     *)
(* stays allowed, and the new one is not.                                  *)
SetDeliveryContract(c) ==
  /\ admin # None
  /\ deliveryContract' = c
  /\ UNCHANGED <<admin, authorized, disputeContract, config, profileVars, now>>

SetDisputeContract(c) ==
  /\ admin # None
  /\ disputeContract' = c
  /\ UNCHANGED <<admin, authorized, deliveryContract, config, profileVars, now>>

UpdateDriverKycStatus(d, verified) ==
  /\ admin # None
  /\ driver[d] # None
  /\ driver' = [driver EXCEPT ![d].kyc_verified = verified]
  /\ UNCHANGED <<admin, accessVars, config, joined, now>>

-----------------------------------------------------------------------------
(* Registration.                                                           *)

RegisterUser(a) ==
  /\ joined[a] = None
  /\ joined' = [joined EXCEPT ![a] = now]
  /\ UNCHANGED <<admin, accessVars, config, driver, now>>

BugUnregistered(d) == TRUE      \* mutant: a second registration starts afresh
Unregistered(d) == driver[d] = None

RegisterDriver(d) ==
  /\ Unregistered(d)
  /\ driver' = [driver EXCEPT ![d] =
                  [deliveries_completed |-> 0,
                   reputation_score |-> INITIAL_REPUTATION,
                   registered_at |-> now, kyc_verified |-> FALSE]]
  /\ UNCHANGED <<admin, accessVars, config, joined, now>>

-----------------------------------------------------------------------------
(* Reputation.  Sums of u32 that overflow abort the transaction (the       *)
(* release profile checks overflows).                                      *)

GetReputationConfig == IF config = None THEN DefaultConfig ELSE config

Points(heavy, fragile) ==
  LET c == GetReputationConfig
  IN  c.base_points + (IF heavy THEN c.heavy_cargo_points ELSE 0)
                    + (IF fragile THEN c.fragile_points ELSE 0)

BugRaised(score, points) == score + points       \* mutant: no cap
Raised(score, points) ==
  IF score + points <= MAX_REPUTATION THEN score + points ELSE MAX_REPUTATION

BugLowered(score, points) == score - points     \* mutant: no floor
Lowered(score, points) == IF points <= score THEN score - points ELSE 0

IncreaseReputation(caller, d, heavy, fragile) ==
  /\ caller \in authorized
  /\ driver[d] # None
  /\ driver[d].reputation_score + Points(heavy, fragile) <= MaxU32
  /\ driver[d].deliveries_completed < MaxDeliveries
  /\ driver' = [driver EXCEPT
       ![d].reputation_score = Raised(@, Points(heavy, fragile)),
       ![d].deliveries_completed = @ + 1]
  /\ UNCHANGED <<admin, accessVars, config, joined, now>>

DecreaseReputation(caller, d, points) ==
  /\ caller \in authorized
  /\ driver[d] # None
  /\ driver' = [driver EXCEPT ![d].reputation_score = Lowered(@, points)]
  /\ UNCHANGED <<admin, accessVars, config, joined, now>>

Tick ==
  /\ now < MaxTime
  /\ now' = now + 1
  /\ UNCHANGED <<admin, accessVars, config, profileVars>>

-----------------------------------------------------------------------------
Administer ==
  \/ \E a \in Admins, c, e \in Contracts : InitContract(a, c, e)
  \/ \E c \in Contracts :
       \/ \E allowed \in BOOLEAN : SetAuthorizedContract(c, allowed)
       \/ SetDeliveryContract(c)
       \/ SetDisputeContract(c)
  \/ \E c \in Configs : SetReputationConfig(c)

Judge(d) ==
  \/ \E verified \in BOOLEAN : UpdateDriverKycStatus(d, verified)
  \/ RegisterDriver(d)
  \/ \E c \in Contracts, heavy, fragile \in BOOLEAN :
       IncreaseReputation(c, d, heavy, fragile)
  \/ \E c \in Contracts, points \in Penalties : DecreaseReputation(c, d, points)

Next ==
  \/ Administer
  \/ \E a \in Users : RegisterUser(a)
  \/ \E d \in Drivers : Judge(d)
  \/ Tick

Spec == Init /\ [][Next]_vars

-----------------------------------------------------------------------------
(* Types; the score stays between 0 and MAX_REPUTATION.                    *)
TypeOK ==
  /\ admin \in Addresses \cup {None}
  /\ authorized \subseteq Addresses
  /\ deliveryContract \in Addresses \cup {None}
  /\ disputeContract \in Addresses \cup {None}
  /\ config \in ReputationConfig \cup {None}
  /\ joined \in [Addresses -> Nat \cup {None}]
  /\ driver \in [Addresses -> DriverProfile \cup {None}]
  /\ now \in Nat

(* A reputation is earned: a profile is never dropped or replaced, so that *)
(* registering again wipes nothing out; the score rises only with a        *)
(* counted delivery, a counted delivery never lowers it, and the count     *)
(* goes up one at a time and never down.                                   *)
Earned(p, q) ==
  /\ q # None
  /\ q.registered_at = p.registered_at
  /\ \/ /\ q.deliveries_completed = p.deliveries_completed
        /\ q.reputation_score <= p.reputation_score
     \/ /\ q.deliveries_completed = p.deliveries_completed + 1
        /\ q.reputation_score >= p.reputation_score

ReputationEarned ==
  [][\A d \in Addresses : driver[d] # None => Earned(driver[d], driver'[d])]_vars

=============================================================================
