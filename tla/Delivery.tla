------------------------------ MODULE Delivery ------------------------------
(***************************************************************************)
(* The delivery contract (src/contracts/delivery_contract/lib.rs): one     *)
(* record per delivery, from its creation to its confirmation,             *)
(* cancellation or dispute.  A function that calls the escrow or the       *)
(* identity contract is one transaction with them: the action here is the  *)
(* conjunction of its own step and the step of the contract it calls, so   *)
(* that a refusal there is a refusal here.                                 *)
(***************************************************************************)
EXTENDS Escrow

CONSTANTS
  DeliveryAddr, DisputeAddr, \* the delivery and the dispute contract
  IdentityAddr,              \* the identity and reputation contract
  Cargos,                    \* the metadata that senders pass
  WalkIns,                   \* who registers as a user without a delivery
  Reviewed,                  \* contracts that the identity admin may name
  Configs, Penalties,        \* as in module Identity
  MaxDeliveryBatch           \* bound: items passed to create_deliveries_batch

DELIVERY_BATCH_SIZE == 100

DeliveryStatuses ==
  {"Pending", "Active", "InTransit", "Delivered", "Disputed", "Cancelled"}

(* Of the metadata: whether validate_delivery_metadata accepts it, and the *)
(* two facts about the cargo that earn reputation.                         *)
Cargo == [valid : BOOLEAN, heavy : BOOLEAN, fragile : BOOLEAN]

DeliveryRecord ==
  [sender : Senders, recipient : Recipients, driver : Drivers \cup {None},
   status : DeliveryStatuses, metadata : Cargo, delivered_at : Nat \cup {None}]

ASSUME DeliveryAssumption ==
  /\ Ids \subseteq Nat
  /\ {DeliveryAddr, DisputeAddr, IdentityAddr} \subseteq Addresses
  /\ WalkIns \cup Reviewed \subseteq Addresses
  /\ Cargos \subseteq Cargo
  /\ None \notin DeliveryRecord
  /\ MaxDeliveryBatch \in Nat

VARIABLES
  deliveryAdmin,    \* StorageKey::Admin of this contract, None before init
  deliveryIdentity, \* DataKey::IdentityReputationContract, or None
  counter,          \* DataKey::DeliveryCounter
  delivery,         \* StorageKey::Delivery(id): a record, or None
  deliveriesBySender, deliveriesByRecipient, \* how often an index lists id
  early,            \* history: identifiers given out before init
  elsewhere,        \* history: credits of a driver by other contracts
  idAdmin, allowlist, joined, profile,       \* the identity contract
  idConfig, idDelivery, idDispute

deliveryConfig == <<deliveryAdmin, deliveryIdentity>>
deliveryIndex  == <<deliveriesBySender, deliveriesByRecipient>>
history        == <<early, elsewhere>>
identityKeys   == <<idAdmin, allowlist, idConfig, idDelivery, idDispute>>
identityVars   == <<identityKeys, joined, profile>>
deliveryVars   == <<deliveryConfig, counter, delivery, deliveryIndex, history>>

(* The identity contract, which all of them share a clock with.            *)
Ident == INSTANCE Identity WITH
  admin <- idAdmin, authorized <- allowlist, driver <- profile,
  config <- idConfig, deliveryContract <- idDelivery,
  disputeContract <- idDispute,
  Admins <- Founders, Contracts <- Reviewed, Users <- WalkIns,
  MaxDeliveries <- MaxU32

ASSUME ProfileAssumption ==
  /\ MaxU32 >= Ident!MAX_REPUTATION
  /\ Penalties \subseteq 0..MaxU32 /\ Configs \subseteq Ident!ReputationConfig
  /\ None \notin Ident!DriverProfile /\ None \notin Ident!ReputationConfig

DeliveryInit ==
  /\ deliveryAdmin = None /\ deliveryIdentity = None
  /\ counter = 0
  /\ delivery = [id \in Ids |-> None]
  /\ deliveriesBySender = [a \in Addresses |-> [id \in Ids |-> 0]]
  /\ deliveriesByRecipient = [a \in Addresses |-> [id \in Ids |-> 0]]
  /\ early = {} /\ elsewhere = [a \in Addresses |-> 0]
  /\ Ident!Init

-----------------------------------------------------------------------------
ValidTransition(from, to) ==
  <<from, to>> \in
    {<<"Pending", "Active">>, <<"Pending", "Cancelled">>,
     <<"Active", "InTransit">>, <<"Active", "Disputed">>,
     <<"Active", "Cancelled">>,
     <<"InTransit", "Delivered">>, <<"InTransit", "Disputed">>,
     <<"Delivered", "Disputed">>, <<"Disputed", "Delivered">>}

BugMayBecome(id, to) == delivery[id] # None     \* mutant: the table not asked
MayBecome(id, to) ==
  /\ delivery[id] # None
  /\ ValidTransition(delivery[id].status, to)

SetStatus(id, to) == delivery' = [delivery EXCEPT ![id].status = to]

(* init asks for no authorization and starts the counter again, also when  *)
(* deliveries were created before it.                                      *)
BugUninitialized == TRUE      \* mutant: init as often as one likes
Uninitialized == deliveryAdmin = None

InitDelivery(a) ==
  /\ Uninitialized
  /\ deliveryAdmin' = a
  /\ counter' = 0
  /\ UNCHANGED <<vars, identityVars, deliveryIdentity, delivery,
                 deliveryIndex, history>>

SetDeliveryIdentity ==
  /\ deliveryAdmin # None
  /\ deliveryIdentity' = IdentityAddr
  /\ UNCHANGED <<vars, identityVars, deliveryAdmin, counter, delivery,
                 deliveryIndex, history>>

-----------------------------------------------------------------------------
(* Creation.                                                               *)

NewDelivery(s, r, cargo) ==
  [sender |-> s, recipient |-> r, driver |-> None, status |-> "Pending",
   metadata |-> cargo, delivered_at |-> None]

(* Two nested calls of register_user; the second meets the profile of the  *)
(* first when both parties are the same.                                   *)
RegisterParties(s, r) ==
  IF deliveryIdentity = None THEN UNCHANGED joined
  ELSE /\ s # r
       /\ joined[s] = None /\ joined[r] = None
       /\ joined' = [joined EXCEPT ![s] = now, ![r] = now]

(* Stores one delivery per item of the batch under the next numbers.       *)
StoreDeliveries(s, r, batch) ==
  LET new == counter + 1 .. counter + Len(batch)
  IN  /\ new \subseteq Ids
      /\ counter' = counter + Len(batch)
      /\ delivery' = [id \in Ids |-> IF id \in new
                                     THEN NewDelivery(s, r, batch[id - counter])
                                     ELSE delivery[id]]
      /\ deliveriesBySender' = IndexBatch(deliveriesBySender, s, new)
      /\ deliveriesByRecipient' = IndexBatch(deliveriesByRecipient, r, new)
      /\ early' = IF deliveryAdmin = None THEN early \cup new ELSE early
      /\ UNCHANGED elsewhere

CreateDelivery(s, r, cargo) ==
  /\ cargo.valid
  /\ RegisterParties(s, r)
  /\ StoreDeliveries(s, r, <<cargo>>)
  /\ UNCHANGED <<vars, deliveryConfig, identityKeys, profile>>

(* No item of a batch is validated.                                        *)
CreateDeliveriesBatch(s, r, batch) ==
  /\ Len(batch) <= DELIVERY_BATCH_SIZE
  /\ RegisterParties(s, r)
  /\ StoreDeliveries(s, r, batch)
  /\ UNCHANGED <<vars, deliveryConfig, identityKeys, profile>>

UpdateDeliveryMetadata(s, id, cargo) ==
  /\ delivery[id] # None
  /\ delivery[id].sender = s
  /\ delivery[id].status = "Pending"
  /\ cargo.valid
  /\ delivery' = [delivery EXCEPT ![id].metadata = cargo]
  /\ UNCHANGED <<vars, identityVars, deliveryConfig, counter, deliveryIndex,
                 history>>

-----------------------------------------------------------------------------
(* The course of a delivery.                                               *)

AssignDriver(caller, id, d) ==
  /\ caller \in {d, deliveryAdmin}
  /\ MayBecome(id, "Active")
  /\ d \notin {delivery[id].sender, delivery[id].recipient}
  /\ delivery' = [delivery EXCEPT ![id] =
                    [@ EXCEPT !.driver = d, !.status = "Active"]]
  /\ UNCHANGED <<vars, identityVars, deliveryConfig, counter, deliveryIndex,
                 history>>

MarkInTransit(d, id) ==
  /\ MayBecome(id, "InTransit")
  /\ delivery[id].driver = d
  /\ SetStatus(id, "InTransit")
  /\ UNCHANGED <<vars, identityVars, deliveryConfig, counter, deliveryIndex,
                 history>>

(* Nested: refund_escrow.                                                  *)
BugCancelDelivery(s, id) ==   \* mutant: a refusal of the escrow ignored
  /\ MayBecome(id, "Cancelled")
  /\ delivery[id].sender = s
  /\ deliveryAdmin # None
  /\ RefundEscrow(s, id) \/ UNCHANGED vars
  /\ SetStatus(id, "Cancelled")
  /\ UNCHANGED <<identityVars, deliveryConfig, counter, deliveryIndex, history>>

CancelDelivery(s, id) ==
  /\ MayBecome(id, "Cancelled")
  /\ delivery[id].sender = s
  /\ deliveryAdmin # None
  /\ RefundEscrow(s, id)
  /\ SetStatus(id, "Cancelled")
  /\ UNCHANGED <<identityVars, deliveryConfig, counter, deliveryIndex, history>>

(* Nested: mark_holdback_escrow, then increase_reputation.                 *)
CreditDriver(id) ==
  LET cargo == delivery[id].metadata
  IN  IF delivery[id].driver = None \/ deliveryIdentity = None
      THEN UNCHANGED identityVars
      ELSE Ident!IncreaseReputation(DeliveryAddr, delivery[id].driver,
                                    cargo.heavy, cargo.fragile)

ConfirmDelivery(r, id) ==
  /\ MayBecome(id, "Delivered")
  /\ delivery[id].recipient = r
  /\ delivery[id].driver \notin {r, delivery[id].sender}
  /\ deliveryAdmin # None
  /\ MarkHoldbackEscrow(r, id)
  /\ delivery' = [delivery EXCEPT ![id] =
                    [@ EXCEPT !.status = "Delivered", !.delivered_at = now]]
  /\ CreditDriver(id)
  /\ UNCHANGED <<deliveryConfig, counter, deliveryIndex, history>>

(* Nested: raise_dispute of the escrow, which would accept its driver too. *)
MayDispute(id) == {delivery[id].sender, delivery[id].recipient}

RaiseDeliveryDispute(caller, id) ==
  /\ MayBecome(id, "Disputed")
  /\ caller \in MayDispute(id)
  /\ deliveryAdmin # None
  /\ RaiseDispute(caller, id)
  /\ SetStatus(id, "Disputed")
  /\ UNCHANGED <<identityVars, deliveryConfig, counter, deliveryIndex, history>>

-----------------------------------------------------------------------------
(* The transactions of this contract and of the identity contract.         *)

CargoBatches == UNION {[1..n -> Cargos] : n \in 0..MaxDeliveryBatch}

Book ==
  \E s \in Senders, r \in Recipients :
    \/ \E cargo \in Cargos : CreateDelivery(s, r, cargo)
    \/ \E batch \in CargoBatches : CreateDeliveriesBatch(s, r, batch)

Carry(id) ==
  \/ \E s \in Senders :
       \/ \E cargo \in Cargos : UpdateDeliveryMetadata(s, id, cargo)
       \/ CancelDelivery(s, id)
       \/ RaiseDeliveryDispute(s, id)
  \/ \E d \in Drivers :
       \/ \E caller \in {d} \cup Founders : AssignDriver(caller, id, d)
       \/ MarkInTransit(d, id)
  \/ \E r \in Recipients :
       \/ ConfirmDelivery(r, id)
       \/ RaiseDeliveryDispute(r, id)

DeliveryNext ==
  \/ \E a \in Founders : InitDelivery(a)
  \/ SetDeliveryIdentity
  \/ Book
  \/ \E id \in Ids : Carry(id)

(* Any other contract on the allowlist raises and lowers scores directly.  *)
(* The delivery and the dispute contract do so only within the functions   *)
(* above and those of module Dispute.                                      *)
OtherContracts == Reviewed \ {DeliveryAddr, DisputeAddr}

Rate(c, d) ==
  \/ \E heavy, fragile \in BOOLEAN :
       /\ Ident!IncreaseReputation(c, d, heavy, fragile)
       /\ elsewhere' = [elsewhere EXCEPT ![d] = @ + 1]
  \/ \E points \in Penalties :
       /\ Ident!DecreaseReputation(c, d, points)
       /\ UNCHANGED elsewhere

Oversee ==
  \/ \E a \in Founders : Ident!InitContract(a, DeliveryAddr, DisputeAddr)
  \/ \E c \in Reviewed :
       \/ \E allowed \in BOOLEAN : Ident!SetAuthorizedContract(c, allowed)
       \/ Ident!SetDeliveryContract(c)
       \/ Ident!SetDisputeContract(c)
  \/ \E c \in Configs : Ident!SetReputationConfig(c)

Enlist ==
  \/ \E a \in WalkIns : Ident!RegisterUser(a)
  \/ \E d \in Drivers :
       \/ Ident!RegisterDriver(d)
       \/ \E verified \in BOOLEAN : Ident!UpdateDriverKycStatus(d, verified)

IdentityNext ==
  /\ \/ (Oversee \/ Enlist) /\ UNCHANGED elsewhere
     \/ \E c \in OtherContracts, d \in Drivers : Rate(c, d)
  /\ UNCHANGED <<vars, deliveryConfig, counter, delivery, deliveryIndex, early>>

-----------------------------------------------------------------------------
(* Types of this contract's storage and of the identity contract's.        *)
DeliveryTypeOK ==
  /\ deliveryAdmin \in Addresses \cup {None}
  /\ deliveryIdentity \in {None, IdentityAddr}
  /\ counter \in Nat
  /\ delivery \in [Ids -> DeliveryRecord \cup {None}]
  /\ deliveriesBySender \in [Addresses -> [Ids -> Nat]]
  /\ deliveriesByRecipient \in [Addresses -> [Ids -> Nat]]
  /\ early \subseteq Ids
  /\ elsewhere \in [Addresses -> Nat]
  /\ Ident!TypeOK

=============================================================================
