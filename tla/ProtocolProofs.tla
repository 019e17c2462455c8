--------------------------- MODULE ProtocolProofs ---------------------------
(***************************************************************************)
(* Theorems about module Protocol, for every value of its constants: the   *)
(* composition uses the escrow only as module Escrow lets it be used, and  *)
(* the records that the contracts keep of one delivery agree.              *)
(***************************************************************************)
EXTENDS Protocol, EscrowProofs, FiniteSetTheorems

-----------------------------------------------------------------------------
(* The composition uses the escrow as module Escrow says.                  *)

(* Whoever calls the escrow through another contract is one of its callers.*)
LEMMA PartiesCall ==
  ASSUME DeliveryTypeOK, NEW id \in Ids
  PROVE  /\ delivery[id] # None => MayDispute(id) \subseteq Senders \cup Recipients
         /\ DeliveryParties(id) \subseteq Senders \cup Recipients \cup Drivers
<1>1. delivery[id] # None => delivery[id] \in DeliveryRecord
  BY DEF DeliveryTypeOK
<1>2. delivery[id] # None =>
        /\ delivery[id].sender \in Senders /\ delivery[id].recipient \in Recipients
        /\ delivery[id].driver \in Drivers \cup {None}
  BY <1>1 DEF DeliveryRecord
<1>3. QED
  BY <1>2, AddressAssumption DEF MayDispute, DeliveryParties
(* A direct call is a step of the escrow.                                  *)
LEMMA DirectProgress ==
  ASSUME NEW id \in Ids, EscrowDirect(id)
  PROVE  Progress(id)
BY DEF EscrowDirect, Progress

(* So is what the delivery contract calls.                                 *)
LEMMA DeliveryUses ==
  ASSUME DeliveryTypeOK, DeliveryNext
  PROVE  UNCHANGED vars \/ \E id \in Ids : Progress(id)
<1>1. ASSUME NEW id \in Ids, NEW s \in Senders, CancelDelivery(s, id)
      PROVE  Progress(id)
  BY <1>1 DEF CancelDelivery, Progress, Callers
<1>2. ASSUME NEW id \in Ids, NEW r \in Recipients, ConfirmDelivery(r, id)
      PROVE  Progress(id)
  BY <1>2 DEF ConfirmDelivery, Progress, Callers
<1>3. ASSUME NEW id \in Ids, NEW caller \in Senders \cup Recipients,
             RaiseDeliveryDispute(caller, id)
      PROVE  Progress(id)
  BY <1>3 DEF RaiseDeliveryDispute, Progress, Callers
<1>4. ASSUME NEW id \in Ids, Carry(id)
      PROVE  UNCHANGED vars \/ Progress(id)
  BY <1>1, <1>2, <1>3, <1>4
     DEF Carry, UpdateDeliveryMetadata, AssignDriver, MarkInTransit
<1>5. QED
  BY <1>4 DEF DeliveryNext, Book, InitDelivery, SetDeliveryIdentity,
              CreateDelivery, CreateDeliveriesBatch

(* And what the dispute contract calls.                                    *)
LEMMA DisputeUses ==
  ASSUME DeliveryTypeOK, DisputeNext
  PROVE  UNCHANGED vars \/ \E id \in Ids : Progress(id)
<1>1. ASSUME NEW id \in Ids, NEW caller \in DeliveryParties(id),
             OpenCase(caller, id)
      PROVE  Progress(id)
  <2>1. caller \in Callers
    BY PartiesCall DEF Callers
  <2>2. QED
    BY <1>1, <2>1 DEF OpenCase, RaiseDeliveryDispute, Progress
<1>2. ASSUME NEW id \in Ids, NEW caller, NEW bps \in ShareOffers,
             \/ ResolveDisputeRefundSender(caller, id)
             \/ ResolveDisputeSplitFunds(caller, id, bps)
             \/ ResolveDisputePayDriver(caller, id)
      PROVE  Progress(id)
  BY <1>2 DEF ResolveDisputeRefundSender, ResolveDisputeSplitFunds,
              ResolveDisputePayDriver, Progress
<1>3. ASSUME NEW id \in Ids, NEW caller, ForceResolveDispute(caller, id)
      PROVE  UNCHANGED vars \/ Progress(id)
  BY <1>3, WiringAssumption DEF ForceResolveDispute, ForceSplit, Progress
<1>4. ASSUME NEW id \in Ids, Hear(id)
      PROVE  UNCHANGED vars \/ Progress(id)
  BY <1>1, <1>2, <1>3, <1>4, WiringAssumption DEF Hear, AddEvidenceHash
<1>5. QED
  BY <1>4 DEF DisputeNext, Appoint, InitDispute, AddAdmin, RemoveAdmin,
              SetDisputeIdentity, SetDisputeReputationPenalty,
              UpdateDisputeTimeLimit, SetDisputeResolutionLimit

(* Every step of the composition is a step of the escrow or leaves it      *)
(* alone.                                                                  *)
LEMMA EscrowStep ==
  ASSUME DeliveryTypeOK, [ProtocolNext]_protocolVars
  PROVE  [Next]_vars
<1>1. CASE UNCHANGED protocolVars
  BY <1>1 DEF protocolVars
<1>2. CASE EscrowNext
  BY <1>2, DirectProgress DEF EscrowNext, Next
<1>3. CASE DeliveryNext
  BY <1>3, DeliveryUses DEF Next
<1>4. CASE IdentityNext
  BY <1>4 DEF IdentityNext
<1>5. CASE DisputeNext
  BY <1>5, DisputeUses DEF Next
<1>6. QED
  BY <1>1, <1>2, <1>3, <1>4, <1>5 DEF ProtocolNext

-----------------------------------------------------------------------------
(* Types of the identity contract's storage.                               *)

(* The points of a delivery are a natural number.                          *)
LEMMA CargoPoints ==
  ASSUME Ident!TypeOK, NEW heavy \in BOOLEAN, NEW fragile \in BOOLEAN
  PROVE  Ident!Points(heavy, fragile) \in Nat
<1>1. /\ Ident!GetReputationConfig.base_points \in Nat
      /\ Ident!GetReputationConfig.heavy_cargo_points \in Nat
      /\ Ident!GetReputationConfig.fragile_points \in Nat
  <2>1. CASE idConfig = None
    BY <2>1 DEF Ident!GetReputationConfig, Ident!DefaultConfig
  <2>2. CASE idConfig # None
    BY <2>2, ProfileAssumption
       DEF Ident!GetReputationConfig, Ident!ReputationConfig, Ident!TypeOK
  <2>3. QED
    BY <2>1, <2>2
<1>2. QED
  BY <1>1 DEF Ident!Points

(* A lowered score does not go below zero.                                 *)
LEMMA LoweredBounds ==
  ASSUME NEW n \in 0..100, NEW k \in Nat
  PROVE  Ident!Lowered(n, k) \in 0..100
BY DEF Ident!Lowered

(* A step that leaves the identity contract alone keeps its types.         *)
LEMMA IdentKept ==
  ASSUME Ident!TypeOK, UNCHANGED identityVars, now' \in Nat
  PROVE  Ident!TypeOK'
BY DEF Ident!TypeOK, identityVars, identityKeys

(* So does one that writes nothing but well typed profiles and join dates. *)
LEMMA IdentWritten ==
  ASSUME Ident!TypeOK, UNCHANGED identityKeys, now' \in Nat,
         joined' \in [Addresses -> Nat \cup {None}],
         profile' \in [Addresses -> Ident!DriverProfile \cup {None}]
  PROVE  Ident!TypeOK'
BY DEF Ident!TypeOK, identityKeys

(* The nested increase_reputation keeps the types and counts one delivery  *)
(* of that driver.                                                         *)
LEMMA IncreaseType ==
  ASSUME Ident!TypeOK, NEW caller, NEW d \in Addresses, NEW heavy \in BOOLEAN,
         NEW fragile \in BOOLEAN,
         Ident!IncreaseReputation(caller, d, heavy, fragile)
  PROVE  /\ Ident!TypeOK'
         /\ profile[d] # None /\ profile'[d] # None
         /\ profile[d].deliveries_completed \in Nat
         /\ profile'[d].deliveries_completed = profile[d].deliveries_completed + 1
         /\ \A e \in Addresses \ {d} : profile'[e] = profile[e]
<1> DEFINE points == Ident!Points(heavy, fragile)
           score == Ident!Raised(profile[d].reputation_score, points)
           count == profile[d].deliveries_completed + 1
<1>1. profile[d] # None /\ profile[d] \in Ident!DriverProfile
  BY DEF Ident!IncreaseReputation, Ident!TypeOK
<1>2. /\ profile[d].reputation_score \in 0..100
      /\ profile[d].deliveries_completed \in Nat
      /\ points \in Nat
  BY <1>1, CargoPoints DEF Ident!DriverProfile, Ident!MAX_REPUTATION
<1>3. score \in 0..100 /\ count \in Nat
  BY <1>2 DEF Ident!Raised, Ident!MAX_REPUTATION
<1>4. profile' = [profile EXCEPT ![d].reputation_score = score,
                                ![d].deliveries_completed = count]
  BY DEF Ident!IncreaseReputation
<1> HIDE DEF score, points
<1>5. /\ profile'[d] \in Ident!DriverProfile
      /\ profile'[d].deliveries_completed = count
      /\ profile' = [profile EXCEPT ![d] = profile'[d]]
  BY <1>1, <1>3, <1>4
     DEF Ident!DriverProfile, Ident!TypeOK, Ident!MAX_REPUTATION
<1>6. /\ UNCHANGED <<identityKeys, joined, now>>
      /\ joined' \in [Addresses -> Nat \cup {None}] /\ now' \in Nat
  BY DEF Ident!IncreaseReputation, Ident!accessVars, identityKeys, Ident!TypeOK
<1>7. profile' \in [Addresses -> Ident!DriverProfile \cup {None}]
  BY <1>5 DEF Ident!TypeOK
<1>8. Ident!TypeOK'
  BY <1>6, <1>7, IdentWritten
<1>9. QED
  BY <1>1, <1>2, <1>5, <1>8, ProfileAssumption DEF Ident!TypeOK

(* The nested decrease_reputation keeps the types and every count.         *)
LEMMA DecreaseType ==
  ASSUME Ident!TypeOK, NEW caller, NEW d \in Addresses, NEW points \in Nat,
         Ident!DecreaseReputation(caller, d, points)
  PROVE  /\ Ident!TypeOK'
         /\ \A e \in Addresses :
              /\ profile'[e] # None <=> profile[e] # None
              /\ profile[e] # None => profile'[e].deliveries_completed =
                                        profile[e].deliveries_completed
         /\ \A e \in Addresses \ {d} : profile'[e] = profile[e]
<1> DEFINE score == Ident!Lowered(profile[d].reputation_score, points)
<1>1. profile[d] # None /\ profile[d] \in Ident!DriverProfile
  BY DEF Ident!DecreaseReputation, Ident!TypeOK
<1>2. profile[d].reputation_score \in 0..100
  BY <1>1 DEF Ident!DriverProfile, Ident!MAX_REPUTATION
<1>3. score \in 0..100
  BY <1>2, LoweredBounds
<1>4. profile' = [profile EXCEPT ![d].reputation_score = score]
  BY DEF Ident!DecreaseReputation
<1> HIDE DEF score
<1>5. /\ profile'[d] \in Ident!DriverProfile
      /\ profile'[d].deliveries_completed = profile[d].deliveries_completed
      /\ profile' = [profile EXCEPT ![d] = profile'[d]]
  BY <1>1, <1>3, <1>4
     DEF Ident!DriverProfile, Ident!TypeOK, Ident!MAX_REPUTATION
<1>6. /\ UNCHANGED <<identityKeys, joined, now>>
      /\ joined' \in [Addresses -> Nat \cup {None}] /\ now' \in Nat
  BY DEF Ident!DecreaseReputation, Ident!accessVars, identityKeys, Ident!TypeOK
<1>7. profile' \in [Addresses -> Ident!DriverProfile \cup {None}]
  BY <1>5 DEF Ident!TypeOK
<1>8. Ident!TypeOK'
  BY <1>6, <1>7, IdentWritten
<1>9. QED
  BY <1>1, <1>5, <1>8, ProfileAssumption DEF Ident!TypeOK

-----------------------------------------------------------------------------
(* Types of the delivery contract's storage.                               *)

(* What storing the deliveries of a batch does: it adds Pending records of *)
(* these parties under numbers past the counter, and lists each of them    *)
(* once.                                                                   *)
Booked(s, r, new) ==
  /\ new \subseteq Ids
  /\ counter' \in Nat /\ counter' >= counter
  /\ \A id \in new :
       /\ id > counter /\ id <= counter'
       /\ delivery'[id] \in DeliveryRecord
       /\ delivery'[id].sender = s /\ delivery'[id].recipient = r
       /\ delivery'[id].status = "Pending" /\ delivery'[id].driver = None
       /\ delivery'[id].delivered_at = None
  /\ \A id \in Ids \ new : delivery'[id] = delivery[id]
  /\ deliveriesBySender' = IndexBatch(deliveriesBySender, s, new)
  /\ deliveriesByRecipient' = IndexBatch(deliveriesByRecipient, r, new)
  /\ early' = IF deliveryAdmin = None THEN early \cup new ELSE early
  /\ elsewhere' = elsewhere

(* Storing the deliveries of a batch books them.                           *)
LEMMA StoreBooks ==
  ASSUME DeliveryTypeOK, NEW s \in Senders, NEW r \in Recipients,
         NEW batch \in Seq(Cargo), StoreDeliveries(s, r, batch)
  PROVE  /\ \E new : Booked(s, r, new)
         /\ delivery' \in [Ids -> DeliveryRecord \cup {None}]
<1> DEFINE new == counter + 1 .. counter + Len(batch)
<1>1. counter \in Nat /\ Len(batch) \in Nat /\ new \subseteq Ids
  BY DEF DeliveryTypeOK, StoreDeliveries
<1>2. delivery' = [id \in Ids |-> IF id \in new
                                  THEN NewDelivery(s, r, batch[id - counter])
                                  ELSE delivery[id]]
  BY DEF StoreDeliveries
<1>3. ASSUME NEW id \in new
      PROVE  NewDelivery(s, r, batch[id - counter]) \in DeliveryRecord
  <2>1. id - counter \in 1..Len(batch)
    BY <1>1, <1>3
  <2>2. batch[id - counter] \in Cargo
    BY <2>1
  <2>3. QED
    BY <2>2 DEF NewDelivery, DeliveryRecord, DeliveryStatuses
<1>4. ASSUME NEW id \in new
      PROVE  /\ id > counter /\ id <= counter + Len(batch)
             /\ delivery'[id] \in DeliveryRecord
             /\ delivery'[id].sender = s /\ delivery'[id].recipient = r
             /\ delivery'[id].status = "Pending" /\ delivery'[id].driver = None
             /\ delivery'[id].delivered_at = None
  <2>1. delivery'[id] = NewDelivery(s, r, batch[id - counter])
    BY <1>1, <1>2, <1>4
  <2>2. delivery'[id] \in DeliveryRecord
    BY <1>3, <1>4, <2>1
  <2>3. id > counter /\ id <= counter + Len(batch)
    BY <1>1, <1>4
  <2>4. QED
    BY <2>1, <2>2, <2>3 DEF NewDelivery
<1>5. counter' = counter + Len(batch)
  BY DEF StoreDeliveries
<1>6. \A id \in Ids \ new : delivery'[id] = delivery[id]
  BY <1>2
<1>7. Booked(s, r, new)
  <2>1. /\ deliveriesBySender' = IndexBatch(deliveriesBySender, s, new)
        /\ deliveriesByRecipient' = IndexBatch(deliveriesByRecipient, r, new)
        /\ early' = IF deliveryAdmin = None THEN early \cup new ELSE early
        /\ elsewhere' = elsewhere
    BY DEF StoreDeliveries
  <2>2. counter' \in Nat /\ counter' >= counter
    BY <1>1, <1>5
  <2> HIDE DEF new
  <2>3. QED
    BY <1>1, <1>4, <1>5, <1>6, <2>1, <2>2 DEF Booked
<1>8. delivery' \in [Ids -> DeliveryRecord \cup {None}]
  BY <1>2, <1>3 DEF DeliveryTypeOK
<1>9. QED
  BY <1>7, <1>8

(* Both ways of creating deliveries are bookings.                          *)
LEMMA BookStep ==
  ASSUME DeliveryTypeOK, Book
  PROVE  /\ \E s \in Senders, r \in Recipients : \E new :
              Booked(s, r, new) /\ RegisterParties(s, r)
         /\ delivery' \in [Ids -> DeliveryRecord \cup {None}]
         /\ UNCHANGED <<vars, deliveryConfig, identityKeys, profile>>
<1>1. ASSUME NEW s \in Senders, NEW r \in Recipients, NEW cargo \in Cargos,
             CreateDelivery(s, r, cargo)
      PROVE  /\ \E new : Booked(s, r, new) /\ RegisterParties(s, r)
             /\ delivery' \in [Ids -> DeliveryRecord \cup {None}]
             /\ UNCHANGED <<vars, deliveryConfig, identityKeys, profile>>
  <2>1. <<cargo>> \in Seq(Cargo)
    BY DeliveryAssumption
  <2>2. StoreDeliveries(s, r, <<cargo>>)
    BY <1>1 DEF CreateDelivery
  <2>3. QED
    BY <1>1, <2>1, <2>2, StoreBooks DEF CreateDelivery
<1>2. ASSUME NEW s \in Senders, NEW r \in Recipients, NEW batch \in CargoBatches,
             CreateDeliveriesBatch(s, r, batch)
      PROVE  /\ \E new : Booked(s, r, new) /\ RegisterParties(s, r)
             /\ delivery' \in [Ids -> DeliveryRecord \cup {None}]
             /\ UNCHANGED <<vars, deliveryConfig, identityKeys, profile>>
  <2>1. PICK n \in 0..MaxDeliveryBatch : batch \in [1..n -> Cargos]
    BY DEF CargoBatches
  <2>2. batch \in [1..n -> Cargo] /\ n \in Nat
    BY <2>1, DeliveryAssumption
  <2>3. batch \in Seq(Cargo)
    BY <2>2
  <2>4. QED
    BY <1>2, <2>3, StoreBooks DEF CreateDeliveriesBatch
<1>3. QED
  BY <1>1, <1>2 DEF Book

(* Creation keeps the types.                                               *)
LEMMA TypeBook == DeliveryTypeOK /\ now \in Nat /\ Book => DeliveryTypeOK'
<1> SUFFICES ASSUME DeliveryTypeOK, now \in Nat, Book PROVE DeliveryTypeOK'
  OBVIOUS
<1>0. PICK s \in Senders, r \in Recipients :
        \E new : Booked(s, r, new) /\ RegisterParties(s, r)
  BY BookStep
<1>1. PICK new : Booked(s, r, new) /\ RegisterParties(s, r)
  BY <1>0
<1>2. s \in Addresses /\ r \in Addresses
  BY AddressAssumption
<1>3. joined' \in [Addresses -> Nat \cup {None}]
  BY <1>1, <1>2 DEF RegisterParties, DeliveryTypeOK, Ident!TypeOK
<1>4. Ident!TypeOK'
  <2>1. /\ UNCHANGED <<identityKeys, profile>> /\ now' \in Nat
        /\ profile' \in [Addresses -> Ident!DriverProfile \cup {None}]
    BY BookStep DEF vars, DeliveryTypeOK, Ident!TypeOK
  <2>2. QED
    BY <1>3, <2>1, IdentWritten DEF DeliveryTypeOK
<1>5. \A index \in [Addresses -> [Ids -> Nat]], a \in Addresses :
        IndexBatch(index, a, new) \in [Addresses -> [Ids -> Nat]]
  BY DEF IndexBatch, Occurs
<1>6. /\ deliveriesBySender' \in [Addresses -> [Ids -> Nat]]
      /\ deliveriesByRecipient' \in [Addresses -> [Ids -> Nat]]
  BY <1>1, <1>2, <1>5 DEF Booked, DeliveryTypeOK
<1>7. counter' \in Nat /\ early' \subseteq Ids /\ elsewhere' = elsewhere
  BY <1>1 DEF Booked, DeliveryTypeOK
<1>8. QED
  BY <1>4, <1>6, <1>7, BookStep DEF DeliveryTypeOK, deliveryConfig

-----------------------------------------------------------------------------
(* The course of a delivery: what a step does to an existing record.       *)

Driven(id) ==
  /\ delivery[id].status \in {"Pending", "Active"}
  /\ delivery'[id].status \in {"Pending", "Active", "InTransit"}
  /\ delivery'[id].status = "Pending" \/ delivery'[id].driver # None
  /\ \/ /\ delivery'[id].driver = delivery[id].driver
        /\ delivery'[id].status = "Pending" => delivery[id].status = "Pending"
     \/ delivery[id].status = "Pending" /\ delivery'[id].status = "Active"
  /\ delivery'[id].delivered_at = delivery[id].delivered_at
  /\ UNCHANGED <<vars, identityVars>>

CalledOff(id) ==
  /\ delivery[id].status \in {"Pending", "Active"}
  /\ delivery'[id].status = "Cancelled"
  /\ delivery'[id].driver = delivery[id].driver
  /\ delivery'[id].delivered_at = delivery[id].delivered_at
  /\ \E s \in Senders : RefundEscrow(s, id)
  /\ UNCHANGED identityVars

Confirmed(id) ==
  /\ delivery[id].status \in {"InTransit", "Disputed"}
  /\ delivery'[id].status = "Delivered"
  /\ delivery'[id].driver = delivery[id].driver
  /\ delivery'[id].delivered_at # None
  /\ \E r \in Recipients : MarkHoldbackEscrow(r, id)
  /\ CreditDriver(id)

Contested(id, caller) ==
  /\ delivery[id].status \in {"Active", "InTransit", "Delivered"}
  /\ delivery'[id].status = "Disputed"
  /\ delivery'[id].driver = delivery[id].driver
  /\ delivery'[id].delivered_at = delivery[id].delivered_at
  /\ caller \in {delivery[id].sender, delivery[id].recipient}
  /\ RaiseDispute(caller, id)
  /\ UNCHANGED identityVars

Rewritten(id) ==
  /\ delivery[id] \in DeliveryRecord /\ delivery'[id] \in DeliveryRecord
  /\ delivery' = [delivery EXCEPT ![id] = delivery'[id]]
  /\ delivery'[id].sender = delivery[id].sender
  /\ delivery'[id].recipient = delivery[id].recipient
  /\ UNCHANGED <<deliveryConfig, counter, deliveryIndex, early, elsewhere>>

(* A well typed record of the same parties, put in the place of another.   *)
LEMMA RewrittenBy ==
  ASSUME DeliveryTypeOK, NEW id \in Ids, delivery[id] # None,
         NEW q \in DeliveryRecord, q.sender = delivery[id].sender,
         q.recipient = delivery[id].recipient,
         delivery' = [delivery EXCEPT ![id] = q],
         UNCHANGED <<deliveryConfig, counter, deliveryIndex, early, elsewhere>>
  PROVE  Rewritten(id) /\ delivery'[id] = q
BY DEF DeliveryTypeOK, Rewritten

(* The four steps of a delivery on its way.                                *)
LEMMA DrivenStep ==
  ASSUME DeliveryTypeOK, NEW id \in Ids,
         \/ \E s \in Senders, cargo \in Cargos : UpdateDeliveryMetadata(s, id, cargo)
         \/ \E caller : \E d \in Drivers : AssignDriver(caller, id, d)
         \/ \E d \in Drivers : MarkInTransit(d, id)
  PROVE  Rewritten(id) /\ Driven(id)
<1> DEFINE r == delivery[id]
<1>1. Drivers \subseteq Addresses /\ None \notin Addresses
  BY AddressAssumption
<1>2. ASSUME NEW s \in Senders, NEW cargo \in Cargos,
             UpdateDeliveryMetadata(s, id, cargo)
      PROVE  Rewritten(id) /\ Driven(id)
  <2> DEFINE q == [r EXCEPT !.metadata = cargo]
  <2>1. r # None /\ r.status = "Pending" /\ delivery' = [delivery EXCEPT ![id] = q]
        /\ UNCHANGED <<vars, identityVars, deliveryConfig, counter,
                       deliveryIndex, early, elsewhere>>
    BY <1>2 DEF UpdateDeliveryMetadata, history
  <2>2. r \in DeliveryRecord /\ cargo \in Cargo
    BY <2>1, DeliveryAssumption DEF DeliveryTypeOK
  <2>3. /\ q \in DeliveryRecord /\ q.sender = r.sender /\ q.recipient = r.recipient
        /\ q.status = "Pending" /\ q.driver = r.driver
        /\ q.delivered_at = r.delivered_at
    BY <2>1, <2>2 DEF DeliveryRecord
  <2> HIDE DEF q
  <2>4. QED
    BY <2>1, <2>3, RewrittenBy DEF Driven
<1>3. ASSUME NEW caller, NEW d \in Drivers, AssignDriver(caller, id, d)
      PROVE  Rewritten(id) /\ Driven(id)
  <2> DEFINE q == [r EXCEPT !.driver = d, !.status = "Active"]
  <2>1. r # None /\ r.status = "Pending" /\ delivery' = [delivery EXCEPT ![id] = q]
        /\ UNCHANGED <<vars, identityVars, deliveryConfig, counter,
                       deliveryIndex, early, elsewhere>>
    BY <1>3 DEF AssignDriver, MayBecome, ValidTransition, history
  <2>2. r \in DeliveryRecord
    BY <2>1 DEF DeliveryTypeOK
  <2>3. /\ q \in DeliveryRecord /\ q.sender = r.sender /\ q.recipient = r.recipient
        /\ q.status = "Active" /\ q.driver = d /\ q.delivered_at = r.delivered_at
    BY <2>1, <2>2 DEF DeliveryRecord, DeliveryStatuses
  <2> HIDE DEF q
  <2>4. QED
    BY <1>1, <2>1, <2>3, RewrittenBy DEF Driven
<1>4. ASSUME NEW d \in Drivers, MarkInTransit(d, id)
      PROVE  Rewritten(id) /\ Driven(id)
  <2> DEFINE q == [r EXCEPT !.status = "InTransit"]
  <2>1. r # None /\ r.status = "Active" /\ delivery' = [delivery EXCEPT ![id] = q]
        /\ r.driver = d
        /\ UNCHANGED <<vars, identityVars, deliveryConfig, counter,
                       deliveryIndex, early, elsewhere>>
    BY <1>4 DEF MarkInTransit, MayBecome, ValidTransition, SetStatus, history
  <2>2. r \in DeliveryRecord
    BY <2>1 DEF DeliveryTypeOK
  <2>3. /\ q \in DeliveryRecord /\ q.sender = r.sender /\ q.recipient = r.recipient
        /\ q.status = "InTransit" /\ q.driver = d
        /\ q.delivered_at = r.delivered_at
    BY <2>1, <2>2 DEF DeliveryRecord, DeliveryStatuses
  <2> HIDE DEF q
  <2>4. QED
    BY <1>1, <2>1, <2>3, RewrittenBy DEF Driven
<1>5. QED
  BY <1>2, <1>3, <1>4

(* The cancellation.                                                       *)
LEMMA CancelStep ==
  ASSUME DeliveryTypeOK, NEW id \in Ids, NEW s \in Senders, CancelDelivery(s, id)
  PROVE  Rewritten(id) /\ CalledOff(id)
<1> DEFINE r == delivery[id]
           q == [r EXCEPT !.status = "Cancelled"]
<1>1. /\ r # None /\ r.status \in {"Pending", "Active"}
      /\ delivery' = [delivery EXCEPT ![id] = q]
      /\ RefundEscrow(s, id)
      /\ UNCHANGED <<identityVars, deliveryConfig, counter, deliveryIndex,
                     early, elsewhere>>
  BY DEF CancelDelivery, MayBecome, ValidTransition, SetStatus, history
<1>2. r \in DeliveryRecord
  BY <1>1 DEF DeliveryTypeOK
<1>3. /\ q \in DeliveryRecord /\ q.sender = r.sender /\ q.recipient = r.recipient
      /\ q.status = "Cancelled" /\ q.driver = r.driver
      /\ q.delivered_at = r.delivered_at
  BY <1>1, <1>2 DEF DeliveryRecord, DeliveryStatuses
<1> HIDE DEF q
<1>4. QED
  BY <1>1, <1>3, RewrittenBy DEF CalledOff

(* The confirmation.                                                       *)
LEMMA ConfirmStep ==
  ASSUME DeliveryTypeOK, now \in Nat, NEW id \in Ids, NEW r \in Recipients,
         ConfirmDelivery(r, id)
  PROVE  Rewritten(id) /\ Confirmed(id)
<1> DEFINE d == delivery[id]
           q == [d EXCEPT !.status = "Delivered", !.delivered_at = now]
<1>1. /\ d # None /\ d.status \in {"InTransit", "Disputed"}
      /\ delivery' = [delivery EXCEPT ![id] = q]
      /\ MarkHoldbackEscrow(r, id) /\ CreditDriver(id)
      /\ UNCHANGED <<deliveryConfig, counter, deliveryIndex, early, elsewhere>>
  BY DEF ConfirmDelivery, MayBecome, ValidTransition, history
<1>2. d \in DeliveryRecord
  BY <1>1 DEF DeliveryTypeOK
<1>3. /\ q \in DeliveryRecord /\ q.sender = d.sender /\ q.recipient = d.recipient
      /\ q.status = "Delivered" /\ q.driver = d.driver /\ q.delivered_at = now
  BY <1>1, <1>2 DEF DeliveryRecord, DeliveryStatuses
<1> HIDE DEF q
<1>4. now # None
  BY NoneAssumption
<1>5. QED
  BY <1>1, <1>3, <1>4, RewrittenBy DEF Confirmed

(* The dispute, called directly or by the dispute contract.                *)
LEMMA ContestStep ==
  ASSUME DeliveryTypeOK, NEW id \in Ids, NEW caller,
         RaiseDeliveryDispute(caller, id)
  PROVE  Rewritten(id) /\ Contested(id, caller)
<1> DEFINE r == delivery[id]
           q == [r EXCEPT !.status = "Disputed"]
<1>1. /\ r # None /\ r.status \in {"Active", "InTransit", "Delivered"}
      /\ delivery' = [delivery EXCEPT ![id] = q]
      /\ caller \in {r.sender, r.recipient}
      /\ RaiseDispute(caller, id)
      /\ UNCHANGED <<identityVars, deliveryConfig, counter, deliveryIndex,
                     early, elsewhere>>
  BY DEF RaiseDeliveryDispute, MayBecome, ValidTransition, SetStatus, MayDispute,
         history
<1>2. r \in DeliveryRecord
  BY <1>1 DEF DeliveryTypeOK
<1>3. /\ q \in DeliveryRecord /\ q.sender = r.sender /\ q.recipient = r.recipient
      /\ q.status = "Disputed" /\ q.driver = r.driver
      /\ q.delivered_at = r.delivered_at
  BY <1>1, <1>2 DEF DeliveryRecord, DeliveryStatuses
<1> HIDE DEF q
<1>4. QED
  BY <1>1, <1>3, RewrittenBy DEF Contested

(* Every function on an existing delivery is one of these.                 *)
LEMMA CarryStep ==
  ASSUME DeliveryTypeOK, now \in Nat, NEW id \in Ids, Carry(id)
  PROVE  /\ Rewritten(id)
         /\ \/ Driven(id) \/ CalledOff(id) \/ Confirmed(id)
            \/ \E caller : Contested(id, caller)
<1> DEFINE Result ==
      /\ Rewritten(id)
      /\ \/ Driven(id) \/ CalledOff(id) \/ Confirmed(id)
         \/ \E caller : Contested(id, caller)
<1>1. ASSUME NEW s \in Senders, CancelDelivery(s, id) PROVE Result
  BY <1>1, CancelStep
<1>2. ASSUME NEW r \in Recipients, ConfirmDelivery(r, id) PROVE Result
  BY <1>2, ConfirmStep
<1>3. ASSUME NEW caller, RaiseDeliveryDispute(caller, id) PROVE Result
  BY <1>3, ContestStep
<1>4. ASSUME NEW s \in Senders, NEW cargo \in Cargos,
             UpdateDeliveryMetadata(s, id, cargo)
      PROVE  Result
  BY <1>4, DrivenStep
<1>5. ASSUME NEW caller, NEW d \in Drivers, AssignDriver(caller, id, d)
      PROVE  Result
  BY <1>5, DrivenStep
<1>6. ASSUME NEW d \in Drivers, MarkInTransit(d, id) PROVE Result
  BY <1>6, DrivenStep
<1> HIDE DEF Result
<1>7. Result
  BY <1>1, <1>2, <1>3, <1>4, <1>5, <1>6 DEF Carry
<1>8. QED
  BY <1>7 DEF Result

(* A rewritten record keeps the types, if the identity contract does.      *)
LEMMA TypeRewritten ==
  ASSUME DeliveryTypeOK, NEW id \in Ids, Rewritten(id), Ident!TypeOK'
  PROVE  DeliveryTypeOK'
BY DEF DeliveryTypeOK, Rewritten, deliveryConfig, deliveryIndex

(* The credit of a confirmed delivery keeps the identity contract's types. *)
LEMMA CreditType ==
  ASSUME DeliveryTypeOK, now' \in Nat, NEW id \in Ids, delivery[id] # None,
         CreditDriver(id)
  PROVE  Ident!TypeOK'
<1>1. delivery[id] \in DeliveryRecord /\ Ident!TypeOK
  BY DEF DeliveryTypeOK
<1>2. /\ delivery[id].driver # None => delivery[id].driver \in Addresses
      /\ delivery[id].metadata.heavy \in BOOLEAN
      /\ delivery[id].metadata.fragile \in BOOLEAN
  BY <1>1, AddressAssumption DEF DeliveryRecord, Cargo
<1>3. QED
  BY <1>1, <1>2, IdentKept, IncreaseType DEF CreditDriver

(* Every function of the delivery contract keeps the types.                *)
LEMMA TypeDelivery ==
  ASSUME TypeOK, TypeOK', DeliveryTypeOK, DeliveryNext
  PROVE  DeliveryTypeOK'
<1>1. now \in Nat /\ now' \in Nat /\ Ident!TypeOK
  BY DEF TypeOK, DeliveryTypeOK
<1>2. ASSUME NEW a \in Founders, InitDelivery(a)
      PROVE  DeliveryTypeOK'
  <2>1. Ident!TypeOK' /\ a \in Addresses
    BY <1>1, <1>2, IdentKept, AddressAssumption DEF InitDelivery
  <2>2. QED
    BY <1>2, <2>1 DEF InitDelivery, DeliveryTypeOK, deliveryIndex, history
<1>3. CASE SetDeliveryIdentity
  <2>1. Ident!TypeOK'
    BY <1>1, <1>3, IdentKept DEF SetDeliveryIdentity
  <2>2. QED
    BY <1>3, <2>1 DEF SetDeliveryIdentity, DeliveryTypeOK, deliveryIndex, history
<1>4. ASSUME NEW id \in Ids, Carry(id)
      PROVE  DeliveryTypeOK'
  <2>1. Rewritten(id) /\ delivery[id] # None
    BY <1>1, <1>4, CarryStep, DeliveryAssumption DEF Rewritten
  <2>2. UNCHANGED identityVars => Ident!TypeOK'
    BY <1>1, IdentKept
  <2>3. CreditDriver(id) => Ident!TypeOK'
    BY <1>1, <2>1, CreditType
  <2>4. UNCHANGED identityVars \/ CreditDriver(id)
    BY <1>1, <1>4, CarryStep DEF Driven, CalledOff, Confirmed, Contested
  <2>5. QED
    BY <2>1, <2>2, <2>3, <2>4, TypeRewritten
<1>5. QED
  BY <1>1, <1>2, <1>3, <1>4, TypeBook DEF DeliveryNext

(* A contract on the allowlist that rates a driver: the count of that       *)
(* driver goes up only with the credits recorded for other contracts.      *)
CountedElsewhere(e) ==
  /\ profile'[e] # None <=> profile[e] # None
  /\ profile[e] # None =>
       \/ /\ profile'[e].deliveries_completed = profile[e].deliveries_completed
          /\ elsewhere'[e] = elsewhere[e]
       \/ /\ profile[e].deliveries_completed \in Nat
          /\ profile'[e].deliveries_completed =
               profile[e].deliveries_completed + 1
          /\ elsewhere'[e] = elsewhere[e] + 1

(* Every such rating keeps the types.                                      *)
LEMMA RateStep ==
  ASSUME DeliveryTypeOK, NEW c, NEW d \in Drivers, Rate(c, d)
  PROVE  /\ Ident!TypeOK' /\ elsewhere' \in [Addresses -> Nat] /\ c \in allowlist
         /\ \A e \in Addresses : CountedElsewhere(e)
<1>1. Ident!TypeOK /\ elsewhere \in [Addresses -> Nat] /\ d \in Addresses
  BY AddressAssumption DEF DeliveryTypeOK
<1> DEFINE Result ==
      /\ Ident!TypeOK' /\ elsewhere' \in [Addresses -> Nat] /\ c \in allowlist
      /\ \A e \in Addresses : CountedElsewhere(e)
<1>2. ASSUME NEW heavy \in BOOLEAN, NEW fragile \in BOOLEAN,
             Ident!IncreaseReputation(c, d, heavy, fragile),
             elsewhere' = [elsewhere EXCEPT ![d] = @ + 1]
      PROVE  Result
  <2>2. /\ Ident!TypeOK' /\ profile[d] # None /\ profile'[d] # None
        /\ profile[d].deliveries_completed \in Nat
        /\ profile'[d].deliveries_completed = profile[d].deliveries_completed + 1
        /\ \A e \in Addresses \ {d} : profile'[e] = profile[e]
    BY <1>1, <1>2, IncreaseType
  <2>3. /\ elsewhere' \in [Addresses -> Nat] /\ elsewhere'[d] = elsewhere[d] + 1
        /\ \A e \in Addresses \ {d} : elsewhere'[e] = elsewhere[e]
    BY <1>1, <1>2
  <2>4. c \in allowlist
    BY <1>2 DEF Ident!IncreaseReputation
  <2>5. QED
    BY <2>2, <2>3, <2>4 DEF CountedElsewhere
<1>3. ASSUME NEW points \in Penalties,
             Ident!DecreaseReputation(c, d, points), UNCHANGED elsewhere
      PROVE  Result
  <2>1. points \in Nat
    BY ProfileAssumption
  <2>2. c \in allowlist
    BY <1>3 DEF Ident!DecreaseReputation
  <2>3. QED
    BY <1>1, <1>3, <2>1, <2>2, DecreaseType DEF CountedElsewhere
<1> HIDE DEF Result
<1>4. Result
  BY <1>2, <1>3 DEF Rate
<1>5. QED
  BY <1>4 DEF Result

(* What the admin of the identity contract sets keeps the types.           *)
LEMMA OverseeType ==
  ASSUME Ident!TypeOK, Oversee
  PROVE  Ident!TypeOK' /\ UNCHANGED profile
<1>1. CASE \E a \in Founders : Ident!InitContract(a, DeliveryAddr, DisputeAddr)
  BY <1>1, AddressAssumption, DeliveryAssumption
     DEF Ident!InitContract, Ident!TypeOK, Ident!profileVars
<1>2. CASE \E c \in Reviewed, allowed \in BOOLEAN :
             Ident!SetAuthorizedContract(c, allowed)
  BY <1>2, DeliveryAssumption
     DEF Ident!SetAuthorizedContract, Ident!TypeOK, Ident!profileVars
<1>3. CASE \E c \in Reviewed :
             Ident!SetDeliveryContract(c) \/ Ident!SetDisputeContract(c)
  BY <1>3, DeliveryAssumption
     DEF Ident!SetDeliveryContract, Ident!SetDisputeContract, Ident!TypeOK,
         Ident!profileVars
<1>4. CASE \E c \in Configs : Ident!SetReputationConfig(c)
  BY <1>4, ProfileAssumption
     DEF Ident!SetReputationConfig, Ident!TypeOK, Ident!profileVars,
         Ident!accessVars
<1>5. QED
  BY <1>1, <1>2, <1>3, <1>4 DEF Oversee

(* Registering, and the approval of a driver, leave the standing of every  *)
(* driver as it is.                                                        *)
LEMMA EnlistStep ==
  ASSUME Ident!TypeOK, Enlist
  PROVE  /\ Ident!TypeOK'
         /\ \A e \in Addresses :
              /\ profile[e] # None =>
                   profile'[e] # None /\ SameStanding(profile[e], profile'[e])
              /\ profile[e] = None /\ profile'[e] # None =>
                   profile'[e].deliveries_completed = 0
<1> USE DEF SameStanding
<1>1. ASSUME NEW a \in WalkIns, Ident!RegisterUser(a)
      PROVE  Ident!TypeOK' /\ UNCHANGED profile
  BY <1>1, DeliveryAssumption
     DEF Ident!RegisterUser, Ident!TypeOK, Ident!accessVars
<1>2. ASSUME NEW d \in Drivers, NEW p \in Ident!DriverProfile,
             profile' = [profile EXCEPT ![d] = p],
             UNCHANGED <<idAdmin, Ident!accessVars, idConfig, joined, now>>,
             \/ profile[d] = None /\ p.deliveries_completed = 0
             \/ profile[d] # None /\ SameStanding(profile[d], p)
      PROVE  /\ Ident!TypeOK'
             /\ \A e \in Addresses :
                  /\ profile[e] # None =>
                       profile'[e] # None /\ SameStanding(profile[e], profile'[e])
                  /\ profile[e] = None /\ profile'[e] # None =>
                       profile'[e].deliveries_completed = 0
  <2>1. d \in Addresses /\ p # None
    BY AddressAssumption, ProfileAssumption
  <2>2. profile'[d] = p /\ \A e \in Addresses \ {d} : profile'[e] = profile[e]
    BY <1>2, <2>1 DEF Ident!TypeOK
  <2>3. Ident!TypeOK'
    BY <1>2, <2>1 DEF Ident!TypeOK, Ident!accessVars
  <2>4. QED
    BY <1>2, <2>1, <2>2, <2>3
<1>3. ASSUME NEW d \in Drivers, Ident!RegisterDriver(d)
      PROVE  /\ Ident!TypeOK'
             /\ \A e \in Addresses :
                  /\ profile[e] # None =>
                       profile'[e] # None /\ SameStanding(profile[e], profile'[e])
                  /\ profile[e] = None /\ profile'[e] # None =>
                       profile'[e].deliveries_completed = 0
  <2> DEFINE p == [deliveries_completed |-> 0,
                   reputation_score |-> Ident!INITIAL_REPUTATION,
                   registered_at |-> now, kyc_verified |-> FALSE]
  <2>1. p \in Ident!DriverProfile /\ p.deliveries_completed = 0
    BY DEF Ident!TypeOK, Ident!DriverProfile, Ident!INITIAL_REPUTATION,
           Ident!MAX_REPUTATION
  <2>2. /\ profile' = [profile EXCEPT ![d] = p] /\ profile[d] = None
        /\ UNCHANGED <<idAdmin, Ident!accessVars, idConfig, joined, now>>
    BY <1>3 DEF Ident!RegisterDriver, Ident!Unregistered
  <2> HIDE DEF p
  <2>3. QED
    BY <1>2, <2>1, <2>2
<1>4. ASSUME NEW d \in Drivers, NEW verified \in BOOLEAN,
             Ident!UpdateDriverKycStatus(d, verified)
      PROVE  /\ Ident!TypeOK'
             /\ \A e \in Addresses :
                  /\ profile[e] # None =>
                       profile'[e] # None /\ SameStanding(profile[e], profile'[e])
                  /\ profile[e] = None /\ profile'[e] # None =>
                       profile'[e].deliveries_completed = 0
  <2> DEFINE p == [profile[d] EXCEPT !.kyc_verified = verified]
  <2>1. profile[d] # None /\ profile[d] \in Ident!DriverProfile
    BY <1>4, AddressAssumption DEF Ident!UpdateDriverKycStatus, Ident!TypeOK
  <2>2. p \in Ident!DriverProfile /\ SameStanding(profile[d], p)
    BY <2>1 DEF Ident!DriverProfile
  <2>3. /\ profile' = [profile EXCEPT ![d] = p]
        /\ UNCHANGED <<idAdmin, Ident!accessVars, idConfig, joined, now>>
    BY <1>4 DEF Ident!UpdateDriverKycStatus
  <2> HIDE DEF p
  <2>4. QED
    BY <1>2, <2>1, <2>2, <2>3
<1>5. QED
  BY <1>1, <1>3, <1>4 DEF Enlist

(* What the identity contract does by itself leaves the others alone.      *)
LEMMA IdentityAlone ==
  ASSUME IdentityNext
  PROVE  UNCHANGED <<vars, deliveryConfig, counter, delivery, deliveryIndex, early>>
BY DEF IdentityNext

(* So does every function of the identity contract.                        *)
LEMMA TypeIdentity ==
  ASSUME DeliveryTypeOK, IdentityNext
  PROVE  DeliveryTypeOK'
<1>1. Ident!TypeOK /\ elsewhere \in [Addresses -> Nat]
  BY DEF DeliveryTypeOK
<1>2. Ident!TypeOK' /\ elsewhere' \in [Addresses -> Nat]
  <2>1. CASE (Oversee \/ Enlist) /\ UNCHANGED elsewhere
    BY <1>1, <2>1, OverseeType, EnlistStep
  <2>2. CASE \E c \in OtherContracts, d \in Drivers : Rate(c, d)
    BY <2>2, RateStep
  <2>3. QED
    BY <2>1, <2>2 DEF IdentityNext
<1>3. UNCHANGED <<deliveryConfig, counter, delivery, deliveryIndex, early>>
  BY IdentityAlone
<1>4. QED
  BY <1>2, <1>3 DEF DeliveryTypeOK, deliveryConfig, deliveryIndex

-----------------------------------------------------------------------------
(* The course of a case.                                                   *)

Entered(id) ==
  /\ case'[id] \in DisputeCase
  /\ case' = [case EXCEPT ![id] = case'[id]]
  /\ UNCHANGED <<arbiterVars, settingVars>>

Filed(id, caller) ==
  /\ case[id] = None
  /\ case'[id].status = "Open" /\ case'[id].resolved_by = None
  /\ case'[id].raised_at = now /\ case'[id].raised_by = caller
  /\ Rewritten(id) /\ Contested(id, caller)

SameCase(c, k) ==
  /\ k.raised_at = c.raised_at /\ k.raised_by = c.raised_by

Supported(id) ==
  /\ CaseOpen(id)
  /\ SameCase(case[id], case'[id])
  /\ case'[id].status = "Open" /\ case'[id].resolved_by = case[id].resolved_by
  /\ UNCHANGED <<vars, deliveryVars, identityVars>>

(* What a verdict does to the money.                                       *)
Enforced(id, status) ==
  \/ status = "ResolvedRefund" /\ ResolveDisputeRefund(id)
  \/ status = "ResolvedPayout" /\ ResolveDisputeRelease(id)
  \/ status = "Split" /\ \E bps \in ShareOffers : ResolveDisputeSplit(id, bps)
  \/ /\ status = "Split"
     /\ escrow[id] # None /\ escrow[id].status # "Paused" /\ UNCHANGED vars

Decided(id, status) ==
  /\ CaseOpen(id)
  /\ SameCase(case[id], case'[id])
  /\ case'[id].status = status /\ case'[id].resolved_by # None
  /\ Enforced(id, status)
  /\ UNCHANGED deliveryVars

(* A penalty is a natural number of points, also the default one.          *)
LEMMA PenaltyType == DisputeTypeOK => Penalty \in Nat
BY ProfileAssumption
   DEF DisputeTypeOK, Penalty, DEFAULT_DISPUTE_REPUTATION_PENALTY

(* Lowering a driver's score keeps the identity contract's types and the   *)
(* counts of deliveries.                                                   *)
LEMMA PenalizeType ==
  ASSUME DeliveryTypeOK, now' \in Nat, NEW id \in Ids, delivery[id] # None,
         NEW points \in Nat, Penalize(id, points)
  PROVE  /\ Ident!TypeOK'
         /\ \A e \in Addresses :
              /\ profile'[e] # None <=> profile[e] # None
              /\ profile[e] # None => profile'[e].deliveries_completed =
                                        profile[e].deliveries_completed
<1>1. delivery[id] \in DeliveryRecord /\ Ident!TypeOK
  BY DEF DeliveryTypeOK
<1>2. delivery[id].driver # None => delivery[id].driver \in Addresses
  BY <1>1, AddressAssumption DEF DeliveryRecord
<1>3. CASE UNCHANGED identityVars
  BY <1>1, <1>3, IdentKept DEF identityVars
<1>4. CASE /\ delivery[id].driver # None
           /\ Ident!DecreaseReputation(DisputeAddr, delivery[id].driver, points)
  BY <1>1, <1>2, <1>4, DecreaseType
<1>5. QED
  BY <1>3, <1>4 DEF Penalize

(* Opening a case.                                                         *)
LEMMA OpenStep ==
  ASSUME TypeOK, DeliveryTypeOK, DisputeTypeOK, NEW id \in Ids,
         NEW caller \in DeliveryParties(id), OpenCase(caller, id)
  PROVE  Entered(id) /\ Filed(id, caller)
<1> DEFINE k == [status |-> "Open", raised_at |-> now, raised_by |-> caller,
                 evidence_hashes |-> 0, resolved_at |-> None,
                 resolved_by |-> None]
<1>1. caller \in Addresses /\ now \in Nat
  BY PartiesCall, AddressAssumption DEF TypeOK
<1>2. k \in DisputeCase
  BY <1>1 DEF DisputeCase, DisputeStatuses
<1>3. case' = [case EXCEPT ![id] = k] /\ case[id] = None
      /\ UNCHANGED <<arbiterVars, settingVars>>
  BY DEF OpenCase
<1>4. case'[id] = k
  BY <1>3 DEF DisputeTypeOK
<1>5. Rewritten(id) /\ Contested(id, caller)
  BY ContestStep DEF OpenCase
<1>6. Entered(id)
  BY <1>2, <1>3, <1>4 DEF Entered
<1>7. Filed(id, caller)
  BY <1>3, <1>4, <1>5 DEF Filed
<1>8. QED
  BY <1>6, <1>7

(* Adding evidence.                                                        *)
LEMMA SupportStep ==
  ASSUME DisputeTypeOK, NEW id \in Ids, NEW caller, AddEvidenceHash(caller, id)
  PROVE  Entered(id) /\ Supported(id)
<1> DEFINE k == [case[id] EXCEPT !.evidence_hashes = @ + 1]
<1>1. /\ CaseOpen(id) /\ case' = [case EXCEPT ![id] = k]
      /\ UNCHANGED <<vars, deliveryVars, identityVars, arbiterVars, settingVars>>
  BY DEF AddEvidenceHash
<1>2. case[id] \in DisputeCase /\ case[id].status = "Open"
  BY <1>1 DEF CaseOpen, DisputeTypeOK
<1>3. /\ k \in DisputeCase /\ SameCase(case[id], k) /\ k.status = "Open"
      /\ k.resolved_by = case[id].resolved_by
  BY <1>2 DEF DisputeCase, SameCase
<1> HIDE DEF k
<1>4. case'[id] = k
  BY <1>1 DEF DisputeTypeOK
<1>5. QED
  BY <1>1, <1>3, <1>4 DEF Entered, Supported

(* Closing a case.                                                         *)
LEMMA CloseCaseEffect ==
  ASSUME DisputeTypeOK, now \in Nat, NEW id \in Ids, NEW caller \in Addresses,
         CaseOpen(id), NEW status \in DisputeStatuses,
         CloseCase(id, caller, status), UNCHANGED <<arbiterVars, settingVars>>
  PROVE  /\ Entered(id) /\ SameCase(case[id], case'[id])
         /\ case'[id].status = status /\ case'[id].resolved_by # None
<1> DEFINE k == [case[id] EXCEPT !.status = status, !.resolved_at = now,
                                 !.resolved_by = caller]
<1>1. case' = [case EXCEPT ![id] = k]
  BY DEF CloseCase
<1>2. case[id] \in DisputeCase
  BY DEF CaseOpen, DisputeTypeOK
<1>3. /\ k \in DisputeCase /\ SameCase(case[id], k)
      /\ k.status = status /\ k.resolved_by = caller
  BY <1>2 DEF DisputeCase, SameCase
<1> HIDE DEF k
<1>4. case'[id] = k
  BY <1>1 DEF DisputeTypeOK
<1>5. QED
  BY <1>1, <1>3, <1>4, AddressAssumption DEF Entered

(* The four ways of closing one.                                           *)
LEMMA DecideStep ==
  ASSUME TypeOK, DeliveryTypeOK, DisputeTypeOK, NEW id \in Ids,
         NEW caller, NEW bps \in ShareOffers,
         \/ ResolveDisputeRefundSender(caller, id)
         \/ ResolveDisputeSplitFunds(caller, id, bps)
         \/ ResolveDisputePayDriver(caller, id)
         \/ ForceResolveDispute(caller, id)
  PROVE  Entered(id) /\ \E status : Decided(id, status)
<1>0. now \in Nat /\ arbiters \subseteq Addresses
      /\ DeliveryParties(id) \subseteq Addresses
  BY PartiesCall, AddressAssumption DEF TypeOK, DisputeTypeOK
<1>1. CASE ResolveDisputeRefundSender(caller, id)
  <2>1. /\ CaseOpen(id) /\ caller \in Addresses
        /\ CloseCase(id, caller, "ResolvedRefund")
        /\ UNCHANGED <<deliveryVars, arbiterVars, settingVars>>
    BY <1>0, <1>1 DEF ResolveDisputeRefundSender, Judges
  <2>2. Enforced(id, "ResolvedRefund")
    BY <1>1 DEF ResolveDisputeRefundSender, Enforced
  <2>3. QED
    BY <1>0, <2>1, <2>2, CloseCaseEffect DEF Decided, DisputeStatuses
<1>2. CASE ResolveDisputeSplitFunds(caller, id, bps)
  <2>1. /\ CaseOpen(id) /\ caller \in Addresses
        /\ CloseCase(id, caller, "Split")
        /\ UNCHANGED <<deliveryVars, arbiterVars, settingVars>>
    BY <1>0, <1>2 DEF ResolveDisputeSplitFunds, Judges
  <2>2. Enforced(id, "Split")
    BY <1>2 DEF ResolveDisputeSplitFunds, Enforced
  <2>3. QED
    BY <1>0, <2>1, <2>2, CloseCaseEffect DEF Decided, DisputeStatuses
<1>3. CASE ResolveDisputePayDriver(caller, id)
  <2>1. /\ CaseOpen(id) /\ caller \in Addresses
        /\ CloseCase(id, caller, "ResolvedPayout")
        /\ UNCHANGED <<deliveryVars, arbiterVars, settingVars>>
    BY <1>0, <1>3 DEF ResolveDisputePayDriver, Judges
  <2>2. Enforced(id, "ResolvedPayout")
    BY <1>3 DEF ResolveDisputePayDriver, Enforced
  <2>3. QED
    BY <1>0, <2>1, <2>2, CloseCaseEffect DEF Decided, DisputeStatuses
<1>4. CASE ForceResolveDispute(caller, id)
  <2>1. /\ CaseOpen(id) /\ caller \in Addresses
        /\ CloseCase(id, caller, "Split")
        /\ UNCHANGED <<deliveryVars, arbiterVars, settingVars>>
    BY <1>0, <1>4 DEF ForceResolveDispute
  <2>2. Enforced(id, "Split")
    BY <1>4, WiringAssumption DEF ForceResolveDispute, ForceSplit, Enforced
  <2>3. QED
    BY <1>0, <2>1, <2>2, CloseCaseEffect DEF Decided, DisputeStatuses
<1>5. QED
  BY <1>1, <1>2, <1>3, <1>4

(* Every function on a case is one of these.                               *)
LEMMA HearStep ==
  ASSUME TypeOK, DeliveryTypeOK, DisputeTypeOK, NEW id \in Ids, Hear(id)
  PROVE  /\ Entered(id)
         /\ \/ \E caller : Filed(id, caller)
            \/ Supported(id)
            \/ \E status : Decided(id, status)
<1> DEFINE Result == /\ Entered(id)
                     /\ \/ \E caller : Filed(id, caller)
                        \/ Supported(id)
                        \/ \E status : Decided(id, status)
<1>1. ASSUME NEW caller \in DeliveryParties(id), OpenCase(caller, id)
      PROVE  Result
  BY <1>1, OpenStep
<1>2. ASSUME NEW caller \in DeliveryParties(id), AddEvidenceHash(caller, id)
      PROVE  Result
  BY <1>2, SupportStep
<1>3. ASSUME NEW caller, ForceResolveDispute(caller, id)
      PROVE  Result
  BY <1>3, DecideStep, WiringAssumption
<1>4. ASSUME NEW caller, \/ ResolveDisputeRefundSender(caller, id)
                         \/ ResolveDisputePayDriver(caller, id)
      PROVE  Result
  BY <1>4, DecideStep, WiringAssumption
<1>5. ASSUME NEW caller, NEW bps \in ShareOffers,
             ResolveDisputeSplitFunds(caller, id, bps)
      PROVE  Result
  BY <1>5, DecideStep
<1> HIDE DEF Result
<1>6. Result
  BY <1>1, <1>2, <1>3, <1>4, <1>5 DEF Hear
<1>7. QED
  BY <1>6 DEF Result

(* The identity contract keeps its types, and no function on a case counts *)
(* a delivery.                                                             *)
LEMMA HearIdent ==
  ASSUME TypeOK, TypeOK', DeliveryTypeOK, DisputeTypeOK, NEW id \in Ids, Hear(id)
  PROVE  /\ Ident!TypeOK'
         /\ \A e \in Addresses :
              /\ profile'[e] # None <=> profile[e] # None
              /\ profile[e] # None => profile'[e].deliveries_completed =
                                        profile[e].deliveries_completed
<1> DEFINE Result == /\ Ident!TypeOK'
                     /\ \A e \in Addresses :
                          /\ profile'[e] # None <=> profile[e] # None
                          /\ profile[e] # None =>
                               profile'[e].deliveries_completed =
                                 profile[e].deliveries_completed
<1>1. now' \in Nat /\ Ident!TypeOK
  BY DEF TypeOK, DeliveryTypeOK
<1>2. CASE UNCHANGED identityVars
  <2>1. Result
    BY <1>1, <1>2, IdentKept DEF identityVars
  <2>2. QED
    BY <2>1
<1>3. ASSUME NEW caller, ResolveDisputeRefundSender(caller, id)
      PROVE  Result
  BY <1>1, <1>3, PenaltyType, PenalizeType DEF ResolveDisputeRefundSender, Judges
<1>4. ASSUME NEW caller, NEW bps \in ShareOffers,
             ResolveDisputeSplitFunds(caller, id, bps)
      PROVE  Result
  <2>1. DISPUTE_REPUTATION_SPLIT_PENALTY \in Nat
    BY DEF DISPUTE_REPUTATION_SPLIT_PENALTY
  <2>2. QED
    BY <1>1, <1>4, <2>1, PenalizeType DEF ResolveDisputeSplitFunds, Judges
<1>5. CASE \/ \E caller : OpenCase(caller, id)
           \/ \E caller : AddEvidenceHash(caller, id)
           \/ \E caller : ForceResolveDispute(caller, id)
           \/ \E caller : ResolveDisputePayDriver(caller, id)
  <2>1. UNCHANGED identityVars
    BY <1>5 DEF OpenCase, RaiseDeliveryDispute, AddEvidenceHash,
       ForceResolveDispute, ResolveDisputePayDriver, RewardDriver
  <2>2. QED
    BY <1>2, <2>1
<1> HIDE DEF Result
<1>6. Result
  BY <1>3, <1>4, <1>5 DEF Hear, Result
<1>7. QED
  BY <1>6 DEF Result

(* Functions on a case keep the types.                                     *)
LEMMA TypeHear ==
  ASSUME TypeOK, TypeOK', DeliveryTypeOK, DisputeTypeOK, NEW id \in Ids, Hear(id)
  PROVE  DeliveryTypeOK' /\ DisputeTypeOK'
<1>1. DisputeTypeOK'
  BY HearStep DEF Entered, DisputeTypeOK, arbiterVars, settingVars
<1>2. Ident!TypeOK'
  BY HearIdent
<1>3. ASSUME UNCHANGED deliveryVars PROVE DeliveryTypeOK'
  BY <1>2, <1>3
     DEF DeliveryTypeOK, deliveryVars, deliveryConfig, deliveryIndex, history
<1>4. ASSUME Rewritten(id) PROVE DeliveryTypeOK'
  BY <1>2, <1>4, TypeRewritten
<1>5. QED
  BY <1>1, <1>3, <1>4, HearStep DEF Filed, Supported, Decided

(* So does the administration of the dispute contract.                     *)
LEMMA TypeAppoint ==
  ASSUME DisputeTypeOK, Appoint
  PROVE  DisputeTypeOK' /\ UNCHANGED <<vars, deliveryVars, identityVars, case>>
<1> USE DEF DisputeTypeOK, arbiterVars, settingVars
<1>1. ASSUME NEW a \in Founders, NEW time \in LimitOffers,
             NEW resolution \in LimitOffers, InitDispute(a, time, resolution)
      PROVE  DisputeTypeOK'
  BY <1>1, AddressAssumption, DisputeAssumption DEF InitDispute, Occurs
<1>2. ASSUME NEW caller, NEW a \in Arbiters,
             AddAdmin(caller, a) \/ RemoveAdmin(caller, a)
      PROVE  DisputeTypeOK'
  BY <1>2, DisputeAssumption DEF AddAdmin, RemoveAdmin, Listed
<1>3. ASSUME NEW caller, SetDisputeIdentity(caller)
      PROVE  DisputeTypeOK'
  BY <1>3 DEF SetDisputeIdentity
<1>4. ASSUME NEW caller, NEW points \in Penalties,
             SetDisputeReputationPenalty(caller, points)
      PROVE  DisputeTypeOK'
  BY <1>4 DEF SetDisputeReputationPenalty
<1>5. ASSUME NEW caller, NEW limit \in LimitOffers,
             \/ UpdateDisputeTimeLimit(caller, limit)
             \/ SetDisputeResolutionLimit(caller, limit)
      PROVE  DisputeTypeOK'
  BY <1>5, DisputeAssumption DEF UpdateDisputeTimeLimit, SetDisputeResolutionLimit
<1>6. UNCHANGED <<vars, deliveryVars, identityVars, case>>
  BY DEF Appoint, InitDispute, AddAdmin, RemoveAdmin, SetDisputeIdentity,
         SetDisputeReputationPenalty, UpdateDisputeTimeLimit,
         SetDisputeResolutionLimit
<1>7. QED
  BY <1>1, <1>2, <1>3, <1>4, <1>5, <1>6 DEF Appoint

(* The types are inductive.                                                *)
LEMMA ProtocolTypeStep ==
  ASSUME ProtocolTypeOK, [ProtocolNext]_protocolVars
  PROVE  ProtocolTypeOK'
<1> USE DEF ProtocolTypeOK
<1>1. TypeOK'
  BY EscrowStep, TypeStep
<1>2. now' \in Nat /\ Ident!TypeOK
  BY <1>1 DEF TypeOK, DeliveryTypeOK
<1>3. UNCHANGED <<deliveryVars, identityVars>> => DeliveryTypeOK'
  BY <1>2, IdentKept
     DEF DeliveryTypeOK, deliveryVars, deliveryConfig, deliveryIndex, history
<1>4. UNCHANGED disputeVars => DisputeTypeOK'
  BY DEF DisputeTypeOK, disputeVars, arbiterVars, settingVars
<1>5. CASE UNCHANGED protocolVars
  BY <1>1, <1>3, <1>4, <1>5 DEF protocolVars
<1>6. CASE EscrowNext
  BY <1>1, <1>3, <1>4, <1>6 DEF EscrowNext
<1>7. CASE DeliveryNext /\ UNCHANGED disputeVars
  BY <1>1, <1>4, <1>7, TypeDelivery
<1>8. CASE IdentityNext /\ UNCHANGED disputeVars
  BY <1>1, <1>4, <1>8, TypeIdentity
<1>9. CASE DisputeNext
  <2>1. CASE Appoint
    BY <1>1, <1>3, <2>1, TypeAppoint
  <2>2. QED
    BY <1>1, <1>9, <2>1, TypeHear DEF DisputeNext
<1>10. QED
  BY <1>5, <1>6, <1>7, <1>8, <1>9 DEF ProtocolNext

(* At first, everything is well typed.                                     *)
LEMMA ProtocolTypeInit == ProtocolInit => ProtocolTypeOK
<1> SUFFICES ASSUME ProtocolInit PROVE ProtocolTypeOK
  OBVIOUS
<1>1. TypeOK
  BY TypeInit DEF ProtocolInit
<1>2. Ident!TypeOK
  BY <1>1 DEF ProtocolInit, DeliveryInit, Ident!Init, Ident!TypeOK, TypeOK
<1>3. DeliveryTypeOK
  BY <1>2 DEF ProtocolInit, DeliveryInit, DeliveryTypeOK
<1>4. DisputeTypeOK
  BY DEF ProtocolInit, DisputeInit, DisputeTypeOK
<1>5. QED
  BY <1>1, <1>3, <1>4 DEF ProtocolTypeOK

(* Every variable of the three contracts and of the identity contract      *)
(* keeps its type under all of their nested calls: scores stay in bounds,  *)
(* and no arbiter, party or profile is ever anything but an address or     *)
(* absent.                                                                 *)
THEOREM ProtocolTypeCorrect == ProtocolSpec => []ProtocolTypeOK
<1>1. QED
  BY ProtocolTypeInit, ProtocolTypeStep, PTL DEF ProtocolSpec

-----------------------------------------------------------------------------
(* What holds of the escrow holds of the escrow in the composition.        *)

(* The composition is a system in which the escrow is used as its own      *)
(* module says, whoever calls it through whom.                             *)
THEOREM UsesEscrow == ProtocolSpec => Spec
<1>1. ProtocolInit => Init
  BY DEF ProtocolInit
<1>2. ProtocolTypeOK /\ [ProtocolNext]_protocolVars => [Next]_vars
  BY EscrowStep DEF ProtocolTypeOK
<1>3. QED
  BY <1>1, <1>2, ProtocolTypeCorrect, PTL DEF ProtocolSpec, Spec

(* Under nested and direct calls in any order, the money of a delivery is  *)
(* in custody as module Custody promises: held, then paid once, in full.   *)
THEOREM CustodyInProtocol == ProtocolSpec => CustodyKept
BY UsesEscrow, ImplementsCustody, PTL

-----------------------------------------------------------------------------
(* What a step of the composition does to one escrow.  There is no freeze  *)
(* of a Holdback among them: freeze_funds is called only when the dispute  *)
(* of the escrow has succeeded already.                                    *)

SameStamps(r, q) ==
  /\ q # None
  /\ q.disputed_by = r.disputed_by /\ q.disputed_at = r.disputed_at

PaidOut(r, q) ==
  /\ r # None /\ SameStamps(r, q)
  /\ r.status \in Live /\ q.status \in {"Released", "Refunded", "Split"}
  /\ q.status = "Split" => r.status = "Paused"

HeldBack(r, q) ==
  /\ r # None /\ SameStamps(r, q)
  /\ r.status = "Locked" /\ q.status = "Holdback"

PausedBy(r, q, caller) ==
  /\ r # None /\ q # None
  /\ r.status = "Locked" /\ q.status = "Paused"
  /\ q.disputed_by = caller /\ q.disputed_at = now

Turn(r, q) ==
  \/ q = r
  \/ r = None /\ Fresh(q)
  \/ PaidOut(r, q)
  \/ HeldBack(r, q)
  \/ \E caller : PausedBy(r, q, caller)

Others(id) == \A i \in Ids \ {id} : escrow'[i] = escrow[i]

(* Closing a live escrow.                                                  *)
LEMMA CloseTurn ==
  ASSUME TypeOK, NEW id \in Ids, InStatus(id, Live),
         NEW status \in {"Released", "Refunded", "Split"},
         status = "Split" => escrow[id].status = "Paused",
         NEW toSender, NEW toDriver, NEW fee,
         Close(id, status, toSender, toDriver, fee)
  PROVE  PaidOut(escrow[id], escrow'[id]) /\ escrow'[id].status = status /\ Others(id)
<1>1. escrow[id] \in EscrowRecord /\ escrow[id] # None /\ escrow[id].status \in Live
  BY DEF InStatus, TypeOK
<1>2. escrow' = [escrow EXCEPT ![id] = [escrow[id] EXCEPT !.status = status]]
  BY DEF Close
<1>3. escrow'[id] = [escrow[id] EXCEPT !.status = status] /\ Others(id)
  BY <1>2 DEF TypeOK, Others
<1>4. /\ escrow'[id].status = status /\ escrow'[id] \in EscrowRecord
      /\ escrow'[id].disputed_by = escrow[id].disputed_by
      /\ escrow'[id].disputed_at = escrow[id].disputed_at
  BY <1>1, <1>3 DEF EscrowRecord, Statuses
<1>5. QED
  BY <1>1, <1>3, <1>4, RecordAssumption DEF PaidOut, SameStamps

(* A refund closes an escrow.                                              *)
LEMMA RefundTurn ==
  ASSUME TypeOK, NEW id \in Ids, InStatus(id, Live), RefundSender(id)
  PROVE  /\ PaidOut(escrow[id], escrow'[id]) /\ escrow'[id].status = "Refunded"
         /\ Others(id)
<1>1. Close(id, "Refunded", escrow[id].amount, 0, 0)
  BY DEF RefundSender
<1>2. QED
  BY <1>1, CloseTurn

(* So does a release, which pays the driver.                               *)
LEMMA ReleaseTurn ==
  ASSUME TypeOK, NEW id \in Ids, InStatus(id, Live), SettleEscrowFunds(id)
  PROVE  /\ PaidOut(escrow[id], escrow'[id]) /\ escrow'[id].status = "Released"
         /\ Others(id)
<1>1. \E net, fee : Close(id, "Released", 0, net, fee)
  BY DEF SettleEscrowFunds
<1>2. QED
  BY <1>1, CloseTurn

(* And a split, of a frozen escrow only.                                   *)
LEMMA SplitTurn ==
  ASSUME TypeOK, NEW id \in Ids, NEW bps, ResolveDisputeSplit(id, bps)
  PROVE  /\ PaidOut(escrow[id], escrow'[id]) /\ escrow'[id].status = "Split"
         /\ Others(id)
<1>1. /\ InStatus(id, Live) /\ escrow[id].status = "Paused"
      /\ \E toSender, toDriver : Close(id, "Split", toSender, toDriver, 0)
  BY DEF ResolveDisputeSplit, InStatus, Live
<1>2. QED
  BY <1>1, CloseTurn

(* A confirmation moves a Locked escrow to Holdback.                       *)
LEMMA HoldbackTurn ==
  ASSUME TypeOK, NEW id \in Ids, NEW caller, MarkHoldbackEscrow(caller, id)
  PROVE  HeldBack(escrow[id], escrow'[id]) /\ Others(id)
<1>1. /\ escrow[id] # None /\ escrow[id].status = "Locked"
      /\ escrow' = [escrow EXCEPT ![id] = [escrow[id] EXCEPT !.status = "Holdback"]]
  BY DEF MarkHoldbackEscrow, InStatus
<1>2. escrow[id] \in EscrowRecord
  BY <1>1 DEF TypeOK
<1>3. escrow'[id] = [escrow[id] EXCEPT !.status = "Holdback"] /\ Others(id)
  BY <1>1 DEF TypeOK, Others
<1>4. /\ escrow'[id].status = "Holdback" /\ escrow'[id] \in EscrowRecord
      /\ escrow'[id].disputed_by = escrow[id].disputed_by
      /\ escrow'[id].disputed_at = escrow[id].disputed_at
  BY <1>2, <1>3 DEF EscrowRecord, Statuses
<1>5. QED
  BY <1>1, <1>3, <1>4, RecordAssumption DEF HeldBack, SameStamps

(* A dispute freezes it, for a named party and at this moment.             *)
LEMMA DisputeTurn ==
  ASSUME TypeOK, NEW id \in Ids, NEW caller, RaiseDispute(caller, id)
  PROVE  PausedBy(escrow[id], escrow'[id], caller) /\ Others(id)
<1>1. /\ escrow[id] # None /\ escrow[id].status = "Locked"
      /\ caller \in {escrow[id].sender, escrow[id].recipient, escrow[id].driver}
      /\ escrow' = [escrow EXCEPT ![id] =
                      [escrow[id] EXCEPT !.status = "Paused",
                                         !.disputed_by = caller,
                                         !.disputed_at = now]]
  BY DEF RaiseDispute, InStatus
<1>2. escrow[id] \in EscrowRecord /\ now \in Nat
  BY <1>1 DEF TypeOK
<1>3. escrow'[id] = [escrow[id] EXCEPT !.status = "Paused", !.disputed_by = caller,
                                       !.disputed_at = now] /\ Others(id)
  BY <1>1 DEF TypeOK, Others
<1>4. caller \in Addresses
  BY <1>1, <1>2 DEF EscrowRecord
<1>5. /\ escrow'[id].status = "Paused" /\ escrow'[id].disputed_by = caller
      /\ escrow'[id].disputed_at = now /\ escrow'[id] \in EscrowRecord
  BY <1>2, <1>3, <1>4 DEF EscrowRecord, Statuses
<1>6. QED
  BY <1>1, <1>3, <1>5, RecordAssumption DEF PausedBy

(* A direct call of the escrow is a turn of one record.                    *)
LEMMA DirectTurn ==
  ASSUME TypeOK, NEW id \in Ids, EscrowDirect(id)
  PROVE  Turn(escrow[id], escrow'[id]) /\ Others(id)
<1> USE DEF Turn
<1>1. ASSUME NEW caller, MarkHoldbackEscrow(caller, id)
      PROVE  Turn(escrow[id], escrow'[id]) /\ Others(id)
  BY <1>1, HoldbackTurn
<1>2. ASSUME NEW caller, RaiseDispute(caller, id)
      PROVE  Turn(escrow[id], escrow'[id]) /\ Others(id)
  BY <1>2, DisputeTurn
<1>3. ASSUME NEW caller, ReleaseEscrow(caller, id) \/ ReleaseHoldbackEscrow(caller, id)
      PROVE  Turn(escrow[id], escrow'[id]) /\ Others(id)
  <2>1. InStatus(id, Live) /\ SettleEscrowFunds(id)
    BY <1>3 DEF ReleaseEscrow, ReleaseHoldbackEscrow, InStatus, Live,
       ReleasableFrom, HoldbackReleasableFrom
  <2>2. QED
    BY <2>1, ReleaseTurn
<1>4. ASSUME NEW caller, RefundEscrow(caller, id)
      PROVE  Turn(escrow[id], escrow'[id]) /\ Others(id)
  <2>1. InStatus(id, Live) /\ RefundSender(id)
    BY <1>4 DEF RefundEscrow, InStatus, Live, RefundableFrom
  <2>2. QED
    BY <2>1, RefundTurn
<1>5. CASE ReclaimExpiredEscrow(id) \/ ResolveDisputeRefund(id)
  <2>1. InStatus(id, Live) /\ RefundSender(id)
    BY <1>5 DEF ReclaimExpiredEscrow, ResolveDisputeRefund, InStatus, Live
  <2>2. QED
    BY <2>1, RefundTurn
<1>6. CASE ResolveDisputeRelease(id)
  <2>1. InStatus(id, Live) /\ SettleEscrowFunds(id)
    BY <1>6 DEF ResolveDisputeRelease, InStatus, Live
  <2>2. QED
    BY <2>1, ReleaseTurn
<1>7. ASSUME NEW bps, ResolveDisputeSplit(id, bps)
      PROVE  Turn(escrow[id], escrow'[id]) /\ Others(id)
  BY <1>7, SplitTurn
<1>8. QED
  BY <1>1, <1>2, <1>3, <1>4, <1>5, <1>6, <1>7 DEF EscrowDirect

(* So is every step of the escrow that no other contract asks for.         *)
LEMMA EscrowNextTurn ==
  ASSUME TypeOK, EscrowNext
  PROVE  \A id \in Ids : Turn(escrow[id], escrow'[id])
<1>1. CASE Administer \/ Environment
  BY <1>1, RecordsFramed DEF Turn
<1>2. CASE Create
  BY <1>2, CreateRecords DEF Turn
<1>3. ASSUME NEW id \in Ids, EscrowDirect(id)
      PROVE  \A i \in Ids : Turn(escrow[i], escrow'[i])
  BY <1>3, DirectTurn DEF Others, Turn
<1>4. QED
  BY <1>1, <1>2, <1>3 DEF EscrowNext

-----------------------------------------------------------------------------
(* The records of one delivery d agree with its escrow r and its case c,   *)
(* where e says that the number was given out before init.  Of a case,     *)
(* what matters besides the properties is that its escrow is frozen or     *)
(* closed; of a delivery, that it has a driver from its assignment on and  *)
(* never before, and the time of delivery when it is Delivered.            *)

Settled == {"Released", "Refunded", "Split"}

DeliveryAgrees(d, r) ==
  d # None =>
    /\ d.status = "Delivered" =>
         /\ r # None /\ r.status \in {"Holdback", "Released", "Refunded"}
         /\ r.disputed_at = None
    /\ d.status = "Cancelled" => r # None /\ r.status = "Refunded"
    /\ d.status = "Disputed" =>
         /\ r # None /\ r.status \in {"Paused"} \cup Settled
         /\ r.disputed_at # None

CaseAgrees(d, r, c, e) ==
  c # None =>
    /\ r # None /\ r.status \in {"Paused"} \cup Settled
    /\ c.raised_at = r.disputed_at /\ c.raised_by = r.disputed_by
    /\ ~e => /\ d # None /\ d.status = "Disputed" /\ d.driver # None
             /\ c.raised_by \in {d.sender, d.recipient}

VerdictFits(r, c) ==
  c # None =>
    /\ c.status \in DisputeStatuses
    /\ c.status = "ResolvedRefund" => r.status = "Refunded"
    /\ c.status = "ResolvedPayout" => r.status = "Released"
    /\ c.status = "Split" => r.status \in Settled
    /\ c.status = "Open" <=> c.resolved_by = None

Staffed(d) ==
  d # None =>
    /\ d.status = "Pending" => d.driver = None
    /\ d.status \in {"Active", "InTransit", "Delivered", "Disputed"} =>
         d.driver # None
    /\ d.delivered_at # None <=> d.status = "Delivered"

Agree(d, r, c, e) ==
  DeliveryAgrees(d, r) /\ CaseAgrees(d, r, c, e) /\ VerdictFits(r, c) /\ Staffed(d)

Agreement ==
  \A id \in Ids : Agree(delivery[id], escrow[id], case[id], id \in early)

(* A turn of the escrow keeps the agreement: what a delivery or a case     *)
(* says of an escrow stays true whatever the escrow may still do.          *)
LEMMA AgreeTurn ==
  ASSUME NEW d, NEW r, NEW q, NEW c, NEW e,
         Agree(d, r, c, e), Turn(r, q)
  PROVE  Agree(d, q, c, e)
<1> USE DEF Agree, DeliveryAgrees, CaseAgrees, VerdictFits, Settled, DisputeStatuses
<1>1. CASE q = r
  BY <1>1
<1>2. CASE r = None /\ Fresh(q)
  BY <1>2
<1>3. CASE PaidOut(r, q)
  BY <1>3 DEF PaidOut, SameStamps, Live
<1>4. CASE HeldBack(r, q)
  BY <1>4 DEF HeldBack, SameStamps
<1>5. ASSUME NEW caller, PausedBy(r, q, caller) PROVE Agree(d, q, c, e)
  BY <1>5 DEF PausedBy
<1>6. QED
  BY <1>1, <1>2, <1>3, <1>4, <1>5 DEF Turn

(* A delivery that is dispatched.                                          *)
LEMMA DrivenAgrees ==
  ASSUME NEW id \in Ids, Rewritten(id), Driven(id), UNCHANGED case,
         Agree(delivery[id], escrow[id], case[id], id \in early)
  PROVE  Agree(delivery'[id], escrow'[id], case'[id], id \in early')
<1>1. /\ delivery[id] # None /\ delivery[id].status \in {"Pending", "Active"}
      /\ delivery'[id].status \in {"Pending", "Active", "InTransit"}
      /\ delivery'[id].status = "Pending" \/ delivery'[id].driver # None
      /\ \/ /\ delivery'[id].driver = delivery[id].driver
            /\ delivery'[id].status = "Pending" => delivery[id].status = "Pending"
         \/ delivery[id].status = "Pending" /\ delivery'[id].status = "Active"
      /\ delivery'[id].delivered_at = delivery[id].delivered_at
      /\ escrow' = escrow /\ case' = case /\ early' = early
  BY DeliveryAssumption DEF Rewritten, Driven, vars, fundVars
<1>2. QED
  BY <1>1 DEF Agree, DeliveryAgrees, CaseAgrees, VerdictFits, Staffed

(* A delivery that is called off, with a refund.                           *)
LEMMA CalledOffAgrees ==
  ASSUME TypeOK, NEW id \in Ids, Rewritten(id), CalledOff(id), UNCHANGED case,
         Agree(delivery[id], escrow[id], case[id], id \in early)
  PROVE  /\ Agree(delivery'[id], escrow'[id], case'[id], id \in early')
         /\ Others(id)
<1>1. PICK s : RefundEscrow(s, id)
  BY DEF CalledOff
<1>2. InStatus(id, Live) /\ RefundSender(id)
  BY <1>1 DEF RefundEscrow, InStatus, Live, RefundableFrom
<1>3. /\ PaidOut(escrow[id], escrow'[id]) /\ escrow'[id].status = "Refunded"
      /\ Others(id)
  BY <1>2, RefundTurn
<1>4. /\ delivery[id] # None /\ delivery[id].status \in {"Pending", "Active"}
      /\ delivery'[id].status = "Cancelled"
      /\ delivery'[id].delivered_at = delivery[id].delivered_at
      /\ case' = case /\ early' = early
  BY DeliveryAssumption DEF Rewritten, CalledOff
<1>5. Agree(delivery[id], escrow'[id], case[id], id \in early)
  BY <1>3, AgreeTurn DEF Turn
<1>6. escrow'[id] # None
  BY <1>3 DEF PaidOut, SameStamps
<1>7. QED
  BY <1>3, <1>4, <1>5, <1>6
     DEF Agree, DeliveryAgrees, CaseAgrees, VerdictFits, Staffed

(* A delivery that is confirmed.  It was not Disputed before: a disputed   *)
(* escrow takes no holdback.                                               *)
LEMMA ConfirmedAgrees ==
  ASSUME TypeOK, DisputeStamped, NEW id \in Ids, Rewritten(id), Confirmed(id),
         UNCHANGED case,
         Agree(delivery[id], escrow[id], case[id], id \in early)
  PROVE  /\ Agree(delivery'[id], escrow'[id], case'[id], id \in early')
         /\ Others(id)
         /\ delivery[id] # None /\ delivery[id].status = "InTransit"
<1>1. PICK r : MarkHoldbackEscrow(r, id)
  BY DEF Confirmed
<1>2. HeldBack(escrow[id], escrow'[id]) /\ Others(id)
  BY <1>1, HoldbackTurn
<1>3. /\ escrow[id] # None /\ escrow[id].status = "Locked"
      /\ escrow'[id] # None /\ escrow'[id].status = "Holdback"
      /\ escrow'[id].disputed_at = escrow[id].disputed_at
  BY <1>2 DEF HeldBack, SameStamps
<1>4. escrow[id].disputed_at = None
  BY <1>3 DEF DisputeStamped
<1>5. /\ delivery[id] # None /\ delivery[id].status \in {"InTransit", "Disputed"}
      /\ delivery'[id].status = "Delivered"
      /\ delivery'[id].driver = delivery[id].driver
      /\ delivery'[id].delivered_at # None
      /\ case' = case /\ early' = early
  BY DeliveryAssumption DEF Rewritten, Confirmed
<1>6. case[id] = None /\ delivery[id].status = "InTransit"
  BY <1>3, <1>5 DEF Agree, DeliveryAgrees, CaseAgrees, Settled
<1>7. QED
  BY <1>2, <1>3, <1>4, <1>5, <1>6
     DEF Agree, DeliveryAgrees, CaseAgrees, VerdictFits, Staffed

(* A delivery that is disputed.  Its escrow was Locked, so it was not      *)
(* Delivered, and no case was open; one may be opened in the same step.    *)
LEMMA ContestedAgrees ==
  ASSUME TypeOK, NEW id \in Ids, NEW caller, Rewritten(id), Contested(id, caller),
         Agree(delivery[id], escrow[id], case[id], id \in early),
         \/ UNCHANGED case
         \/ /\ case'[id].status = "Open" /\ case'[id].resolved_by = None
            /\ case'[id].raised_at = now /\ case'[id].raised_by = caller
  PROVE  /\ Agree(delivery'[id], escrow'[id], case'[id], id \in early')
         /\ Others(id)
         /\ delivery[id].status \in {"Active", "InTransit"}
<1>1. PausedBy(escrow[id], escrow'[id], caller) /\ Others(id)
  BY DisputeTurn DEF Contested
<1>2. /\ escrow[id] # None /\ escrow[id].status = "Locked"
      /\ escrow'[id] # None /\ escrow'[id].status = "Paused"
      /\ escrow'[id].disputed_by = caller /\ escrow'[id].disputed_at = now
  BY <1>1 DEF PausedBy
<1>3. now # None
  BY NoneAssumption DEF TypeOK
<1>4. /\ delivery[id] # None /\ delivery'[id] # None
      /\ delivery[id].status \in {"Active", "InTransit", "Delivered"}
      /\ delivery'[id].status = "Disputed"
      /\ delivery'[id].driver = delivery[id].driver
      /\ delivery'[id].delivered_at = delivery[id].delivered_at
      /\ delivery'[id].sender = delivery[id].sender
      /\ delivery'[id].recipient = delivery[id].recipient
      /\ caller \in {delivery[id].sender, delivery[id].recipient}
      /\ early' = early
  BY DeliveryAssumption DEF Rewritten, Contested
<1>5. /\ case[id] = None /\ delivery[id].status \in {"Active", "InTransit"}
      /\ delivery[id].driver # None /\ delivery[id].delivered_at = None
  BY <1>2, <1>4 DEF Agree, DeliveryAgrees, CaseAgrees, Settled, Staffed
<1>6. DeliveryAgrees(delivery'[id], escrow'[id]) /\ Staffed(delivery'[id])
  BY <1>2, <1>3, <1>4, <1>5 DEF DeliveryAgrees, Staffed
<1>7. CASE case' = case
  BY <1>1, <1>5, <1>6, <1>7 DEF Agree, CaseAgrees, VerdictFits
<1>8. CASE /\ case'[id].status = "Open" /\ case'[id].resolved_by = None
           /\ case'[id].raised_at = now /\ case'[id].raised_by = caller
  <2>1. CaseAgrees(delivery'[id], escrow'[id], case'[id], id \in early')
    BY <1>2, <1>4, <1>5, <1>8 DEF CaseAgrees
  <2>2. VerdictFits(escrow'[id], case'[id])
    BY <1>8 DEF VerdictFits, DisputeStatuses
  <2>3. QED
    BY <1>1, <1>5, <1>6, <2>1, <2>2 DEF Agree
<1>9. QED
  BY <1>7, <1>8

(* The verdict on a case and the end of its escrow come in one step, or    *)
(* the escrow had its end before.                                          *)
LEMMA EnforcedTurn ==
  ASSUME TypeOK, NEW id \in Ids, NEW status, Enforced(id, status),
         escrow[id].status \in {"Paused"} \cup Settled
  PROVE  /\ Turn(escrow[id], escrow'[id]) /\ Others(id)
         /\ status = "ResolvedRefund" => escrow'[id].status = "Refunded"
         /\ status = "ResolvedPayout" => escrow'[id].status = "Released"
         /\ status = "Split" => escrow'[id].status \in Settled
         /\ status \in DisputeStatuses \ {"Open"}
<1> USE DEF Turn, Settled, DisputeStatuses
<1>1. CASE status = "ResolvedRefund" /\ ResolveDisputeRefund(id)
  <2>1. InStatus(id, Live) /\ RefundSender(id)
    BY <1>1 DEF ResolveDisputeRefund, InStatus, Live
  <2>2. QED
    BY <1>1, <2>1, RefundTurn
<1>2. CASE status = "ResolvedPayout" /\ ResolveDisputeRelease(id)
  <2>1. InStatus(id, Live) /\ SettleEscrowFunds(id)
    BY <1>2 DEF ResolveDisputeRelease, InStatus, Live
  <2>2. QED
    BY <1>2, <2>1, ReleaseTurn
<1>3. CASE status = "Split" /\ \E bps \in ShareOffers : ResolveDisputeSplit(id, bps)
  BY <1>3, SplitTurn
<1>4. CASE status = "Split" /\ escrow[id].status # "Paused" /\ UNCHANGED vars
  <2>1. escrow' = escrow
    BY <1>4 DEF vars, fundVars
  <2>2. QED
    BY <1>4, <2>1 DEF Others
<1>5. QED
  BY <1>1, <1>2, <1>3, <1>4 DEF Enforced

(* A verdict keeps the agreement, and fits what became of the money.       *)
LEMMA DecidedAgrees ==
  ASSUME TypeOK, NEW id \in Ids, NEW status, Entered(id), Decided(id, status),
         Agree(delivery[id], escrow[id], case[id], id \in early)
  PROVE  /\ Agree(delivery'[id], escrow'[id], case'[id], id \in early')
         /\ Others(id)
<1>1. /\ case[id] # None /\ case'[id] # None
      /\ SameCase(case[id], case'[id])
      /\ case'[id].status = status /\ case'[id].resolved_by # None
      /\ delivery' = delivery /\ early' = early
  BY DisputeAssumption DEF Entered, Decided, CaseOpen, deliveryVars, history
<1>2. escrow[id].status \in {"Paused"} \cup Settled
  BY <1>1 DEF Agree, CaseAgrees
<1>3. /\ Turn(escrow[id], escrow'[id]) /\ Others(id)
      /\ status = "ResolvedRefund" => escrow'[id].status = "Refunded"
      /\ status = "ResolvedPayout" => escrow'[id].status = "Released"
      /\ status = "Split" => escrow'[id].status \in Settled
      /\ status \in DisputeStatuses \ {"Open"}
  BY <1>2, EnforcedTurn DEF Decided
<1>4. Agree(delivery[id], escrow'[id], case[id], id \in early)
  BY <1>3, AgreeTurn
<1>5. CaseAgrees(delivery[id], escrow'[id], case'[id], id \in early)
  BY <1>1, <1>4 DEF Agree, CaseAgrees, SameCase
<1>6. VerdictFits(escrow'[id], case'[id])
  BY <1>1, <1>3 DEF VerdictFits
<1>7. QED
  BY <1>1, <1>3, <1>4, <1>5, <1>6 DEF Agree

-----------------------------------------------------------------------------
(* The numbers of deliveries: those given out since init are no higher     *)
(* than the counter, so that the next ones are new.                        *)

Numbered ==
  \A id \in Ids \ early :
    delivery[id] # None => deliveryAdmin # None /\ id <= counter

(* No record stands under a number that a booking takes, unless that       *)
(* number was given out before init.                                       *)
LEMMA NewIsNew ==
  ASSUME DeliveryTypeOK, Numbered, NEW s, NEW r, NEW new, Booked(s, r, new),
         NEW id \in new
  PROVE  id \in Ids /\ (id \notin early' => delivery[id] = None)
<1>1. /\ id \in Ids /\ id \in Nat /\ counter \in Nat /\ id > counter
      /\ early \subseteq early'
  BY DeliveryAssumption DEF DeliveryTypeOK, Booked
<1>2. QED
  BY <1>1 DEF Numbered

(* A booking adds deliveries without an escrow record of their own, and    *)
(* without a case.                                                         *)
LEMMA BookedAgrees ==
  ASSUME DeliveryTypeOK, Numbered, NEW s, NEW r, NEW new, Booked(s, r, new),
         UNCHANGED <<escrow, case>>, Agreement
  PROVE  Agreement'
<1> SUFFICES ASSUME NEW id \in Ids
             PROVE  Agree(delivery'[id], escrow'[id], case'[id], id \in early')
  BY DEF Agreement
<1>1. Agree(delivery[id], escrow[id], case[id], id \in early)
  BY DEF Agreement
<1>2. early \subseteq early' /\ escrow' = escrow /\ case' = case
  BY DEF Booked
<1>3. CASE id \notin new
  <2>1. delivery'[id] = delivery[id]
    BY <1>3 DEF Booked
  <2>2. QED
    BY <1>1, <1>2, <2>1 DEF Agree, CaseAgrees
<1>4. CASE id \in new
  <2>1. id \notin early' => delivery[id] = None
    BY <1>4, NewIsNew
  <2>2. /\ delivery'[id].status = "Pending" /\ delivery'[id].driver = None
        /\ delivery'[id].delivered_at = None
    BY <1>4 DEF Booked
  <2>3. id \notin early' => case[id] = None
    BY <1>1, <1>2, <2>1 DEF Agree, CaseAgrees
  <2>4. QED
    BY <1>1, <1>2, <2>2, <2>3
       DEF Agree, DeliveryAgrees, CaseAgrees, VerdictFits, Staffed
<1>5. QED
  BY <1>3, <1>4

(* A booking keeps the numbering.                                          *)
LEMMA BookedNumbered ==
  ASSUME DeliveryTypeOK, Numbered, NEW s, NEW r, NEW new, Booked(s, r, new),
         UNCHANGED deliveryAdmin
  PROVE  Numbered'
<1> SUFFICES ASSUME NEW id \in Ids \ early', delivery'[id] # None
             PROVE  deliveryAdmin' # None /\ id <= counter'
  BY DEF Numbered
<1>1. /\ counter \in Nat /\ counter' \in Nat /\ counter' >= counter /\ id \in Nat
      /\ early' = IF deliveryAdmin = None THEN early \cup new ELSE early
  BY DeliveryAssumption DEF Booked, DeliveryTypeOK
<1>2. CASE id \in new
  BY <1>1, <1>2 DEF Booked
<1>3. CASE id \notin new
  <2>1. delivery'[id] = delivery[id] /\ id \notin early
    BY <1>1, <1>3 DEF Booked
  <2>2. deliveryAdmin # None /\ id <= counter
    BY <2>1 DEF Numbered
  <2>3. QED
    BY <1>1, <2>2
<1>4. QED
  BY <1>2, <1>3

-----------------------------------------------------------------------------
(* Every step keeps the agreement and the numbering, and changes nothing   *)
(* that has come to its end.                                               *)

(* More than NoWayBack asks: no step that the other contracts let happen   *)
(* leads from Delivered to Disputed.                                       *)
Final(id) ==
  /\ id \notin early /\ delivery[id] # None =>
       /\ Continues(delivery[id], delivery'[id])
       /\ delivery[id].status \in Finished => delivery'[id] = delivery[id]
  /\ case[id] # None =>
       /\ case'[id] # None
       /\ ~CaseOpen(id) => case'[id] = case[id]

Kept == Agreement' /\ Numbered' /\ \A id \in Ids : Final(id)

(* What one delivery and its case do leaves the others alone.              *)
LEMMA OneOfMany ==
  ASSUME DeliveryTypeOK, DisputeTypeOK, Agreement, Numbered, NEW id \in Ids,
         Rewritten(id) \/ UNCHANGED deliveryVars,
         Entered(id) \/ UNCHANGED case,
         Others(id),
         Agree(delivery'[id], escrow'[id], case'[id], id \in early'),
         Final(id)
  PROVE  Kept
<1>1. \A i \in Ids \ {id} : delivery'[i] = delivery[i] /\ case'[i] = case[i]
  BY DEF Rewritten, Entered, deliveryVars, DeliveryTypeOK, DisputeTypeOK
<1>2. UNCHANGED <<deliveryConfig, counter, early>>
  BY DEF Rewritten, deliveryVars, history
<1>3. delivery'[id] # None => delivery[id] # None
  BY DeliveryAssumption DEF Rewritten, deliveryVars
<1>4. Agreement'
  BY <1>1, <1>2 DEF Agreement, Others
<1>5. Numbered'
  BY <1>1, <1>2, <1>3 DEF Numbered, deliveryConfig
<1>6. ASSUME NEW i \in Ids PROVE Final(i)
  BY <1>1 DEF Final, Continues
<1>7. QED
  BY <1>4, <1>5, <1>6 DEF Kept

(* Functions on a delivery.                                                *)
LEMMA CarryKeeps ==
  ASSUME TypeOK, DeliveryTypeOK, DisputeTypeOK, DisputeStamped, Agreement,
         Numbered, NEW id \in Ids, Carry(id), UNCHANGED disputeVars
  PROVE  Kept
<1>1. UNCHANGED case /\ now \in Nat
      /\ Agree(delivery[id], escrow[id], case[id], id \in early)
  BY DEF disputeVars, TypeOK, Agreement
<1>2. Rewritten(id) /\ delivery[id] # None /\ delivery'[id] # None
  BY <1>1, CarryStep, DeliveryAssumption DEF Rewritten
<1>3. /\ Agree(delivery'[id], escrow'[id], case'[id], id \in early')
      /\ Others(id) /\ delivery[id].status \notin Finished
  <2>1. CASE Driven(id)
    <3>1. escrow' = escrow
      BY <2>1 DEF Driven, vars, fundVars
    <3>2. QED
      BY <1>1, <1>2, <2>1, <3>1, DrivenAgrees DEF Driven, Others, Finished
  <2>2. CASE CalledOff(id)
    BY <1>1, <1>2, <2>2, CalledOffAgrees DEF CalledOff, Finished
  <2>3. CASE Confirmed(id)
    BY <1>1, <1>2, <2>3, ConfirmedAgrees DEF Finished
  <2>4. ASSUME NEW caller, Contested(id, caller)
        PROVE  /\ Agree(delivery'[id], escrow'[id], case'[id], id \in early')
               /\ Others(id) /\ delivery[id].status \notin Finished
    BY <1>1, <1>2, <2>4, ContestedAgrees DEF Finished
  <2>5. QED
    BY <1>1, <2>1, <2>2, <2>3, <2>4, CarryStep
<1>4. Final(id)
  <2>1. /\ delivery'[id].sender = delivery[id].sender
        /\ delivery'[id].recipient = delivery[id].recipient
    BY <1>2 DEF Rewritten
  <2>2. delivery[id].driver # None => delivery'[id].driver = delivery[id].driver
    BY <1>1, <1>2, CarryStep
       DEF Driven, CalledOff, Confirmed, Contested, Agree, Staffed
  <2>3. QED
    BY <1>1, <1>2, <1>3, <2>1, <2>2 DEF Final, Continues, Finished
<1>5. QED
  BY <1>1, <1>2, <1>3, <1>4, OneOfMany

(* Functions on a case.                                                    *)
LEMMA HearKeeps ==
  ASSUME TypeOK, DeliveryTypeOK, DisputeTypeOK, Agreement, Numbered,
         NEW id \in Ids, Hear(id)
  PROVE  Kept
<1> DEFINE Good == /\ Agree(delivery'[id], escrow'[id], case'[id], id \in early')
                   /\ Others(id) /\ Final(id)
                   /\ Rewritten(id) \/ UNCHANGED deliveryVars
<1>1. Agree(delivery[id], escrow[id], case[id], id \in early)
  BY DEF Agreement
<1>2. Entered(id) /\ case'[id] # None
  BY HearStep, DisputeAssumption DEF Entered
<1>3. ASSUME NEW caller, Filed(id, caller) PROVE Good
  <2>1. /\ Agree(delivery'[id], escrow'[id], case'[id], id \in early')
        /\ Others(id) /\ delivery[id].status \in {"Active", "InTransit"}
    BY <1>1, <1>3, ContestedAgrees DEF Filed
  <2>2. delivery'[id] # None /\ case[id] = None /\ Rewritten(id)
    BY <1>3, DeliveryAssumption DEF Filed, Rewritten
  <2>3. Continues(delivery[id], delivery'[id])
    BY <1>3, <2>1, <2>2 DEF Filed, Rewritten, Contested, Continues, Finished
  <2>5. Final(id)
    BY <2>1, <2>2, <2>3 DEF Final, Finished
  <2>4. QED
    BY <2>1, <2>2, <2>5
<1>4. ASSUME Supported(id) PROVE Good
  <2>1. UNCHANGED <<escrow, delivery, early>> /\ UNCHANGED deliveryVars
    BY <1>4 DEF Supported, vars, fundVars, deliveryVars, history
  <2>2. /\ CaseOpen(id) /\ case[id] # None /\ case[id].status = "Open"
        /\ SameCase(case[id], case'[id])
        /\ case'[id].status = "Open" /\ case'[id].resolved_by = case[id].resolved_by
    BY <1>4 DEF Supported, CaseOpen
  <2>3. Agree(delivery[id], escrow[id], case'[id], id \in early)
    BY <1>1, <2>2 DEF Agree, CaseAgrees, VerdictFits, SameCase
  <2>4. Others(id)
    BY <2>1 DEF Others
  <2>5. Final(id)
    BY <1>2, <2>1, <2>2 DEF Final, Continues
  <2>6. QED
    BY <2>1, <2>3, <2>4, <2>5
<1>5. ASSUME NEW status, Decided(id, status) PROVE Good
  <2>1. /\ Agree(delivery'[id], escrow'[id], case'[id], id \in early')
        /\ Others(id)
    BY <1>1, <1>2, <1>5, DecidedAgrees
  <2>2. CaseOpen(id) /\ UNCHANGED deliveryVars /\ delivery' = delivery
    BY <1>5 DEF Decided, deliveryVars
  <2>3. Final(id)
    BY <1>2, <2>2 DEF Final, Continues
  <2>4. QED
    BY <2>1, <2>2, <2>3
<1>6. ASSUME Good PROVE Kept
  BY <1>2, <1>6, OneOfMany
<1> HIDE DEF Good
<1>7. QED
  BY <1>3, <1>4, <1>5, <1>6, HearStep

(* The invariant from which the rest follows.                              *)
ProtocolInv == ProtocolTypeOK /\ DisputeStamped /\ Agreement /\ Numbered

(* Creation of deliveries.                                                 *)
LEMMA BookKeeps ==
  ASSUME ProtocolInv, Book, UNCHANGED disputeVars
  PROVE  Kept
<1>1. DeliveryTypeOK /\ Agreement /\ Numbered
  BY DEF ProtocolInv, ProtocolTypeOK
<1>0. PICK s \in Senders, r \in Recipients : \E new : Booked(s, r, new)
  BY <1>1, BookStep
<1>2. PICK new : Booked(s, r, new)
  BY <1>0
<1>3. UNCHANGED <<escrow, case, deliveryAdmin>>
  BY <1>1, BookStep DEF vars, fundVars, deliveryConfig, disputeVars
<1>4. Agreement' /\ Numbered'
  BY <1>1, <1>2, <1>3, BookedAgrees, BookedNumbered
<1>5. ASSUME NEW id \in Ids PROVE Final(id)
  <2>1. id \notin early /\ delivery[id] # None => id \notin new
    <3>1. SUFFICES ASSUME id \notin early, delivery[id] # None, id \in new
                   PROVE  FALSE
      OBVIOUS
    <3>2. id <= counter
      BY <1>1, <3>1 DEF Numbered
    <3>3. id > counter /\ id \in Nat /\ counter \in Nat
      BY <1>1, <1>2, <3>1, DeliveryAssumption DEF Booked, DeliveryTypeOK
    <3>4. QED
      BY <3>2, <3>3
  <2>2. id \notin new => delivery'[id] = delivery[id]
    BY <1>2 DEF Booked
  <2>3. QED
    BY <1>3, <2>1, <2>2 DEF Final, Continues
<1>6. QED
  BY <1>4, <1>5 DEF Kept

(* A step that leaves deliveries and cases alone keeps all of them, and    *)
(* leaves what the escrows turn into.                                      *)
LEMMA TurnsKeep ==
  ASSUME ProtocolInv, UNCHANGED <<delivery, case, early>>,
         \/ UNCHANGED <<deliveryAdmin, counter>>
         \/ deliveryAdmin = None,
         \A id \in Ids : Turn(escrow[id], escrow'[id])
  PROVE  Kept
<1>1. ASSUME NEW id \in Ids
      PROVE  Agree(delivery'[id], escrow'[id], case'[id], id \in early')
  <2>1. Agree(delivery[id], escrow[id], case[id], id \in early)
    BY DEF ProtocolInv, Agreement
  <2>2. Agree(delivery[id], escrow'[id], case[id], id \in early)
    BY <2>1, AgreeTurn
  <2>3. QED
    BY <2>2
<1>2. Numbered'
  BY DEF ProtocolInv, Numbered
<1>3. \A id \in Ids : Final(id)
  BY DEF Final, Continues
<1>4. QED
  BY <1>1, <1>2, <1>3 DEF Agreement, Kept

(* The agreement and the numbering are inductive, and every end is final.  *)
LEMMA KeptStep ==
  ASSUME ProtocolInv, [ProtocolNext]_protocolVars
  PROVE  Kept
<1> USE DEF ProtocolTypeOK
<1>1. /\ TypeOK /\ DeliveryTypeOK /\ DisputeTypeOK
      /\ DisputeStamped /\ Agreement /\ Numbered
  BY DEF ProtocolInv
<1>2. UNCHANGED vars => \A id \in Ids : Turn(escrow[id], escrow'[id])
  BY DEF vars, fundVars, Turn
<1>3. UNCHANGED deliveryVars =>
        UNCHANGED <<delivery, early, deliveryAdmin, counter>>
  BY DEF deliveryVars, deliveryConfig, history
<1>4. UNCHANGED disputeVars => UNCHANGED case
  BY DEF disputeVars
<1>5. CASE UNCHANGED protocolVars
  <2>1. UNCHANGED vars /\ UNCHANGED deliveryVars /\ UNCHANGED disputeVars
    BY <1>5 DEF protocolVars
  <2>2. QED
    BY <1>2, <1>3, <1>4, <2>1, TurnsKeep
<1>6. CASE EscrowNext
  <2>1. UNCHANGED deliveryVars /\ UNCHANGED disputeVars
    BY <1>6 DEF EscrowNext
  <2>2. \A id \in Ids : Turn(escrow[id], escrow'[id])
    BY <1>1, <1>6, EscrowNextTurn
  <2>3. QED
    BY <1>3, <1>4, <2>1, <2>2, TurnsKeep
<1>7. CASE DeliveryNext /\ UNCHANGED disputeVars
  <2>1. ASSUME NEW a, InitDelivery(a) PROVE Kept
    BY <1>2, <1>4, <1>7, <2>1, TurnsKeep DEF InitDelivery, Uninitialized, history
  <2>2. CASE SetDeliveryIdentity
    BY <1>2, <1>4, <1>7, <2>2, TurnsKeep DEF SetDeliveryIdentity, history
  <2>3. ASSUME NEW id \in Ids, Carry(id) PROVE Kept
    BY <1>1, <1>7, <2>3, CarryKeeps
  <2>4. QED
    BY <1>7, <2>1, <2>2, <2>3, BookKeeps DEF DeliveryNext
<1>8. CASE IdentityNext /\ UNCHANGED disputeVars
  <2>1. UNCHANGED vars /\ UNCHANGED <<delivery, early, deliveryAdmin, counter>>
    BY <1>8, IdentityAlone DEF deliveryConfig
  <2>2. QED
    BY <1>2, <1>4, <1>8, <2>1, TurnsKeep
<1>9. CASE DisputeNext
  <2>1. CASE Appoint
    <3>1. UNCHANGED vars /\ UNCHANGED deliveryVars /\ UNCHANGED case
      BY <1>1, <2>1, TypeAppoint
    <3>2. QED
      BY <1>2, <1>3, <3>1, TurnsKeep
  <2>2. ASSUME NEW id \in Ids, Hear(id) PROVE Kept
    BY <1>1, <2>2, HearKeeps
  <2>3. QED
    BY <1>9, <2>1, <2>2 DEF DisputeNext
<1>10. QED
  BY <1>5, <1>6, <1>7, <1>8, <1>9 DEF ProtocolNext

(* At first there is nothing to disagree.                                  *)
LEMMA AgreementInit == ProtocolInit => Agreement /\ Numbered
BY DEF ProtocolInit, DeliveryInit, DisputeInit, Agreement, Agree, DeliveryAgrees,
       CaseAgrees, VerdictFits, Staffed, Numbered

(* Deliveries, escrows and cases agree in every state.                     *)
THEOREM RecordsAgree == ProtocolSpec => []ProtocolInv
<1>1. ProtocolSpec => []DisputeStamped
  BY UsesEscrow, DisputesStamped, PTL
<1>2. ProtocolInv /\ [ProtocolNext]_protocolVars => Agreement' /\ Numbered'
  BY KeptStep DEF Kept
<1>3. ProtocolInv <=> ProtocolTypeOK /\ DisputeStamped /\ Agreement /\ Numbered
  BY DEF ProtocolInv
<1>4. QED
  BY <1>1, <1>2, <1>3, AgreementInit, ProtocolTypeCorrect, PTL DEF ProtocolSpec

(* A delivery that has left the road agrees with its escrow for ever,      *)
(* whatever is called at the escrow directly, before or after.             *)
THEOREM DeliveryAndEscrow == ProtocolSpec => []DeliveryMatchesEscrow
<1>1. ProtocolInv => DeliveryMatchesEscrow
  BY DEF ProtocolInv, Agreement, Agree, DeliveryAgrees, Settled, InStatus,
         DeliveryMatchesEscrow
<1>2. QED
  BY <1>1, RecordsAgree, PTL

(* Delivery, escrow and case tell the same story of a dispute: who raised  *)
(* it, when, and that the delivery is Disputed and has a driver.           *)
THEOREM CaseAndDispute == ProtocolSpec => []CaseMatchesDispute
<1>1. ProtocolInv => CaseMatchesDispute
  <2> SUFFICES ASSUME ProtocolInv, NEW id \in Ids, case[id] # None
               PROVE  /\ escrow[id] # None
                      /\ case[id].raised_at = escrow[id].disputed_at
                      /\ case[id].raised_by = escrow[id].disputed_by
                      /\ id \notin early =>
                           /\ case[id].raised_by \in DeliveryParties(id)
                           /\ delivery[id].driver # None
                           /\ CaseOpen(id) => delivery[id].status = "Disputed"
    BY DEF CaseMatchesDispute
  <2>1. CaseAgrees(delivery[id], escrow[id], case[id], id \in early)
    BY DEF ProtocolInv, Agreement, Agree
  <2>2. case[id].raised_by # None
    BY DisputeAssumption, AddressAssumption
       DEF ProtocolInv, ProtocolTypeOK, DisputeTypeOK, DisputeCase
  <2>3. QED
    BY <2>1, <2>2 DEF CaseAgrees, DeliveryParties
<1>2. QED
  BY <1>1, RecordsAgree, PTL

(* A closed case names what became of the money.                           *)
THEOREM VerdictAndMoney == ProtocolSpec => []VerdictMatchesMoney
<1>1. ProtocolInv => VerdictMatchesMoney
  BY DEF ProtocolInv, Agreement, Agree, CaseAgrees, VerdictFits, Settled,
         InStatus, VerdictMatchesMoney
<1>2. QED
  BY <1>1, RecordsAgree, PTL

(* No delivery is put back on the road, loses a party or its driver, or     *)
(* gives up its number, and no closed case is ever touched again.          *)
THEOREM FinishedForGood == ProtocolSpec => NoWayBack
<1>1. ProtocolInv /\ [ProtocolNext]_protocolVars =>
        [\A id \in Ids :
           /\ id \notin early /\ delivery[id] # None =>
                Continues(delivery[id], delivery'[id])
           /\ case[id] # None =>
                /\ case'[id] # None
                /\ ~CaseOpen(id) => case'[id] = case[id]]_protocolVars
  BY KeptStep DEF Kept, Final
<1>2. QED
  BY <1>1, RecordsAgree, PTL DEF ProtocolSpec, NoWayBack

-----------------------------------------------------------------------------
(* The lists.                                                              *)

(* A booking lists what it stores, and only numbers given out before init  *)
(* may be listed twice.                                                    *)
LEMMA BookedIndex ==
  ASSUME DeliveryTypeOK, Numbered, NEW s \in Senders, NEW r \in Recipients,
         NEW new, Booked(s, r, new), DeliveryIndexExact
  PROVE  DeliveryIndexExact'
<1> SUFFICES ASSUME NEW a \in Addresses, NEW id \in Ids \ early'
             PROVE  /\ deliveriesBySender'[a][id] =
                         Occurs(delivery'[id] # None /\ delivery'[id].sender = a)
                    /\ deliveriesByRecipient'[a][id] =
                         Occurs(delivery'[id] # None /\ delivery'[id].recipient = a)
  BY DEF DeliveryIndexExact
<1>1. id \notin early
  BY DEF Booked
<1>2. /\ deliveriesBySender[a][id] =
           Occurs(delivery[id] # None /\ delivery[id].sender = a)
      /\ deliveriesByRecipient[a][id] =
           Occurs(delivery[id] # None /\ delivery[id].recipient = a)
  BY <1>1 DEF DeliveryIndexExact
<1>3. /\ deliveriesBySender \in [Addresses -> [Ids -> Nat]]
      /\ deliveriesByRecipient \in [Addresses -> [Ids -> Nat]]
      /\ deliveriesBySender' = IndexBatch(deliveriesBySender, s, new)
      /\ deliveriesByRecipient' = IndexBatch(deliveriesByRecipient, r, new)
  BY DEF DeliveryTypeOK, Booked
<1>4. /\ deliveriesBySender'[a][id] =
           deliveriesBySender[a][id] + Occurs(a = s /\ id \in new)
      /\ deliveriesByRecipient'[a][id] =
           deliveriesByRecipient[a][id] + Occurs(a = r /\ id \in new)
  BY <1>3 DEF IndexBatch, Occurs
<1>5. CASE id \in new
  <2>1. delivery[id] = None
    BY <1>5, NewIsNew
  <2>2. /\ delivery'[id] # None
        /\ delivery'[id].sender = s /\ delivery'[id].recipient = r
    BY <1>5, DeliveryAssumption DEF Booked
  <2>3. QED
    BY <1>2, <1>4, <1>5, <2>1, <2>2 DEF Occurs
<1>6. CASE id \notin new
  <2>1. delivery'[id] = delivery[id]
    BY <1>6 DEF Booked
  <2>2. QED
    BY <1>2, <1>4, <1>6, <2>1 DEF Occurs
<1>7. QED
  BY <1>5, <1>6

(* A rewritten record keeps its parties, so its lists need not change.     *)
LEMMA RewrittenIndex ==
  ASSUME DeliveryTypeOK, NEW id \in Ids, Rewritten(id), DeliveryIndexExact
  PROVE  DeliveryIndexExact'
<1>1. /\ delivery[id] # None /\ delivery'[id] # None
      /\ delivery'[id].sender = delivery[id].sender
      /\ delivery'[id].recipient = delivery[id].recipient
      /\ \A i \in Ids \ {id} : delivery'[i] = delivery[i]
      /\ UNCHANGED <<deliveriesBySender, deliveriesByRecipient, early>>
  BY DeliveryAssumption DEF Rewritten, DeliveryTypeOK, deliveryIndex
<1>2. ASSUME NEW a \in Addresses, NEW i \in Ids
      PROVE  /\ (delivery'[i] # None /\ delivery'[i].sender = a) <=>
                  (delivery[i] # None /\ delivery[i].sender = a)
             /\ (delivery'[i] # None /\ delivery'[i].recipient = a) <=>
                  (delivery[i] # None /\ delivery[i].recipient = a)
  BY <1>1
<1>3. QED
  BY <1>1, <1>2 DEF DeliveryIndexExact, Occurs

(* The lists by sender and by recipient are exact after every step.        *)
LEMMA DeliveryIndexStep ==
  ASSUME ProtocolInv, DeliveryIndexExact, [ProtocolNext]_protocolVars
  PROVE  DeliveryIndexExact'
<1>1. TypeOK /\ DeliveryTypeOK /\ DisputeTypeOK /\ Numbered /\ now \in Nat
  BY DEF ProtocolInv, ProtocolTypeOK, TypeOK
<1>2. UNCHANGED <<delivery, deliveryIndex, early>> => DeliveryIndexExact'
  BY DEF DeliveryIndexExact, deliveryIndex
<1>3. UNCHANGED deliveryVars => DeliveryIndexExact'
  BY <1>2 DEF deliveryVars, history
<1>4. CASE DeliveryNext
  <2>1. ASSUME NEW a, InitDelivery(a) PROVE DeliveryIndexExact'
    BY <1>2, <2>1 DEF InitDelivery, history
  <2>2. CASE SetDeliveryIdentity
    BY <1>2, <2>2 DEF SetDeliveryIdentity, history
  <2>3. CASE Book
    BY <1>1, <2>3, BookStep, BookedIndex
  <2>4. ASSUME NEW id \in Ids, Carry(id) PROVE DeliveryIndexExact'
    BY <1>1, <2>4, CarryStep, RewrittenIndex
  <2>5. QED
    BY <1>4, <2>1, <2>2, <2>3, <2>4 DEF DeliveryNext
<1>5. CASE DisputeNext
  <2>1. CASE Appoint
    BY <1>1, <1>3, <2>1, TypeAppoint
  <2>2. ASSUME NEW id \in Ids, Hear(id) PROVE DeliveryIndexExact'
    <3>1. Rewritten(id) \/ UNCHANGED deliveryVars
      BY <1>1, <2>2, HearStep DEF Filed, Supported, Decided
    <3>2. QED
      BY <1>1, <1>3, <3>1, RewrittenIndex
  <2>3. QED
    BY <1>5, <2>1, <2>2 DEF DisputeNext
<1>6. CASE IdentityNext
  BY <1>2, <1>6, IdentityAlone
<1>7. QED
  BY <1>3, <1>4, <1>5, <1>6 DEF ProtocolNext, EscrowNext, protocolVars

(* The lists of deliveries by sender and by recipient hold exactly the     *)
(* deliveries of that party, each once.                                    *)
THEOREM DeliveryIndexCorrect == ProtocolSpec => []DeliveryIndexExact
<1>1. ProtocolInit => DeliveryIndexExact
  BY DEF ProtocolInit, DeliveryInit, DeliveryIndexExact, Occurs
<1>2. ProtocolInv /\ DeliveryIndexExact /\ [ProtocolNext]_protocolVars =>
        DeliveryIndexExact'
  BY DeliveryIndexStep
<1>3. QED
  BY <1>1, <1>2, RecordsAgree, PTL DEF ProtocolSpec

(* The list of arbiters is exact after every step.  Before init there is   *)
(* no arbiter: init would drop the others from the list.                   *)
ArbitersRight == AdminListExact /\ (timeLimit = None => arbiters = {})

(* Only the administration of the dispute contract touches the list.       *)
LEMMA ArbiterStep ==
  ASSUME ProtocolInv, ArbitersRight, [ProtocolNext]_protocolVars
  PROVE  ArbitersRight'
<1>1. TypeOK /\ DeliveryTypeOK /\ DisputeTypeOK
  BY DEF ProtocolInv, ProtocolTypeOK
<1>2. UNCHANGED <<arbiterVars, timeLimit>> => ArbitersRight'
  BY DEF ArbitersRight, AdminListExact, arbiterVars
<1>3. UNCHANGED disputeVars \/ UNCHANGED <<arbiterVars, settingVars>> => ArbitersRight'
  BY <1>2 DEF disputeVars, settingVars
<1>4. CASE Appoint
  <2>1. ASSUME NEW a, NEW time \in LimitOffers, NEW resolution,
               InitDispute(a, time, resolution)
        PROVE  ArbitersRight'
    <3>1. time # None /\ arbiters = {}
      BY <2>1, DisputeAssumption, NoneAssumption DEF InitDispute, ArbitersRight
    <3>2. QED
      BY <2>1, <3>1 DEF InitDispute, ArbitersRight, AdminListExact, Occurs
  <2>2. ASSUME NEW caller, NEW a \in Arbiters, AddAdmin(caller, a)
        PROVE  ArbitersRight'
    BY <1>1, <2>2 DEF AddAdmin, ArbitersRight, AdminListExact, Listed, Occurs,
       DisputeTypeOK, settingVars
  <2>3. ASSUME NEW caller, NEW a \in Arbiters, RemoveAdmin(caller, a)
        PROVE  ArbitersRight'
    BY <1>1, <2>3 DEF RemoveAdmin, ArbitersRight, AdminListExact, Occurs,
       DisputeTypeOK, settingVars
  <2>4. ASSUME NEW caller, NEW points, NEW limit \in LimitOffers,
               \/ SetDisputeIdentity(caller)
               \/ SetDisputeReputationPenalty(caller, points)
               \/ UpdateDisputeTimeLimit(caller, limit)
               \/ SetDisputeResolutionLimit(caller, limit)
        PROVE  ArbitersRight'
    <3>1. /\ UNCHANGED arbiterVars /\ caller \in arbiters
          /\ UNCHANGED timeLimit \/ timeLimit' = limit
      BY <2>4 DEF SetDisputeIdentity, SetDisputeReputationPenalty,
         UpdateDisputeTimeLimit, SetDisputeResolutionLimit
    <3>2. limit # None
      BY DisputeAssumption, NoneAssumption
    <3>3. QED
      BY <3>1, <3>2 DEF ArbitersRight, AdminListExact, arbiterVars
  <2>5. ASSUME NEW caller, \/ SetDisputeIdentity(caller)
                           \/ \E points \in Penalties :
                                SetDisputeReputationPenalty(caller, points)
        PROVE  ArbitersRight'
    BY <1>2, <2>5 DEF SetDisputeIdentity, SetDisputeReputationPenalty
  <2>6. QED
    BY <1>4, <2>1, <2>2, <2>3, <2>4, <2>5 DEF Appoint
<1>5. ASSUME NEW id \in Ids, Hear(id) PROVE ArbitersRight'
  BY <1>1, <1>3, <1>5, HearStep DEF Entered
<1>6. CASE DisputeNext
  BY <1>4, <1>5, <1>6 DEF DisputeNext
<1>7. QED
  BY <1>3, <1>6 DEF ProtocolNext, EscrowNext, protocolVars

(* list_admins answers with exactly the addresses that is_admin accepts,   *)
(* each once.                                                              *)
THEOREM AdminListCorrect == ProtocolSpec => []AdminListExact
<1>1. ProtocolInit => ArbitersRight
  BY DEF ProtocolInit, DisputeInit, ArbitersRight, AdminListExact, Occurs
<1>2. ProtocolInv /\ ArbitersRight /\ [ProtocolNext]_protocolVars => ArbitersRight'
  BY ArbiterStep
<1>3. ArbitersRight => AdminListExact
  BY DEF ArbitersRight
<1>4. QED
  BY <1>1, <1>2, <1>3, RecordsAgree, PTL DEF ProtocolSpec

-----------------------------------------------------------------------------
(* The counts of deliveries.                                               *)

(* The count of a driver starts at zero, or is what it was.                *)
CountKept(d) ==
  profile'[d] # None =>
    \/ profile'[d].deliveries_completed = 0
    \/ /\ profile[d] # None
       /\ profile'[d].deliveries_completed = profile[d].deliveries_completed

(* Or it goes up by one, and so do the credits of other contracts.         *)
CreditedElsewhere(d) ==
  /\ profile[d] # None /\ profile[d].deliveries_completed \in Nat
  /\ profile'[d].deliveries_completed = profile[d].deliveries_completed + 1
  /\ elsewhere'[d] = elsewhere[d] + 1

(* What is called at the identity contract directly.                       *)
LEMMA IdentityCounts ==
  ASSUME DeliveryTypeOK, IdentityNext, NEW d \in Addresses
  PROVE  \/ CountKept(d) /\ (profile'[d] # None => elsewhere'[d] = elsewhere[d])
         \/ CreditedElsewhere(d)
<1> USE DEF CountKept, CreditedElsewhere
<1>1. Ident!TypeOK
  BY DEF DeliveryTypeOK
<1>2. CASE Oversee /\ UNCHANGED elsewhere
  BY <1>1, <1>2, OverseeType
<1>3. CASE Enlist /\ UNCHANGED elsewhere
  BY <1>1, <1>3, EnlistStep DEF SameStanding
<1>4. CASE \E c \in OtherContracts, e \in Drivers : Rate(c, e)
  BY <1>4, RateStep DEF CountedElsewhere
<1>5. QED
  BY <1>2, <1>3, <1>4 DEF IdentityNext

(* Apart from confirmations and from credits of other contracts, no step   *)
(* counts a delivery.                                                      *)
LEMMA CountStep ==
  ASSUME ProtocolInv, ProtocolTypeOK', [ProtocolNext]_protocolVars,
         ~IdentityNext,
         ~\E id \in Ids : Carry(id) /\ Confirmed(id) /\ UNCHANGED case
  PROVE  \A d \in Addresses : CountKept(d)
<1> USE DEF CountKept
<1>1. /\ TypeOK /\ TypeOK' /\ DeliveryTypeOK /\ DisputeTypeOK /\ Ident!TypeOK
      /\ now \in Nat
  BY DEF ProtocolInv, ProtocolTypeOK, TypeOK, DeliveryTypeOK
<1>2. UNCHANGED profile \/ UNCHANGED identityVars => \A d \in Addresses : CountKept(d)
  BY DEF identityVars
<1>3. CASE DeliveryNext /\ UNCHANGED disputeVars
  <2>1. CASE Book
    BY <1>1, <1>2, <2>1, BookStep
  <2>2. ASSUME NEW id \in Ids, Carry(id), UNCHANGED case
        PROVE  UNCHANGED identityVars
    BY <1>1, <2>2, CarryStep DEF Driven, CalledOff, Contested
  <2>3. QED
    BY <1>2, <1>3, <2>1, <2>2
       DEF DeliveryNext, InitDelivery, SetDeliveryIdentity, disputeVars
<1>4. CASE DisputeNext
  <2>1. CASE Appoint
    BY <1>2, <2>1 DEF Appoint, InitDispute, AddAdmin, RemoveAdmin,
       SetDisputeIdentity, SetDisputeReputationPenalty, UpdateDisputeTimeLimit,
       SetDisputeResolutionLimit
  <2>2. ASSUME NEW id \in Ids, Hear(id) PROVE \A d \in Addresses : CountKept(d)
    BY <1>1, <2>2, HearIdent
  <2>3. QED
    BY <1>4, <2>1, <2>2 DEF DisputeNext
<1>5. QED
  BY <1>2, <1>3, <1>4 DEF ProtocolNext, EscrowNext, protocolVars

(* A confirmation counts at most one delivery, and it is the one that is   *)
(* confirmed in this step.                                                 *)
LEMMA ConfirmCounts ==
  ASSUME ProtocolInv, NEW id \in Ids, Rewritten(id), Confirmed(id),
         UNCHANGED case, NEW d \in Addresses
  PROVE  /\ profile[d] # None => profile'[d] # None
         /\ \/ CountKept(d) /\ (profile[d] # None => profile'[d] = profile[d])
            \/ /\ profile[d] # None /\ profile[d].deliveries_completed \in Nat
               /\ profile'[d].deliveries_completed =
                    profile[d].deliveries_completed + 1
               /\ delivery[id] # None /\ delivery[id].driver = d
               /\ ConfirmedFor(id)
               /\ id \notin DeliveredBy(d) /\ id \in DeliveredBy(d)'
<1>1. TypeOK /\ DisputeStamped /\ Ident!TypeOK /\ DeliveryTypeOK
      /\ Agree(delivery[id], escrow[id], case[id], id \in early)
  BY DEF ProtocolInv, ProtocolTypeOK, DeliveryTypeOK, Agreement
<1>2. /\ delivery[id] # None /\ delivery[id].status = "InTransit"
      /\ delivery[id].delivered_at = None
  BY <1>1, ConfirmedAgrees DEF Agree, Staffed
<1>3. /\ delivery[id] \in DeliveryRecord
      /\ delivery'[id] # None /\ delivery'[id].status = "Delivered"
      /\ delivery'[id].delivered_at # None
      /\ delivery'[id].driver = delivery[id].driver
  BY DeliveryAssumption DEF Rewritten, Confirmed
<1>4. CASE UNCHANGED identityVars
  BY <1>4 DEF identityVars, CountKept
<1>5. CASE ~UNCHANGED identityVars
  <2> DEFINE v == delivery[id].driver
             heavy == delivery[id].metadata.heavy
             fragile == delivery[id].metadata.fragile
  <2>1. v # None /\ Ident!IncreaseReputation(DeliveryAddr, v, heavy, fragile)
    BY <1>5 DEF Confirmed, CreditDriver
  <2>2. v \in Addresses /\ heavy \in BOOLEAN /\ fragile \in BOOLEAN
    BY <1>3, <2>1, AddressAssumption DEF DeliveryRecord, Cargo
  <2>3. /\ profile[v] # None /\ profile[v].deliveries_completed \in Nat
        /\ profile'[v] # None
        /\ profile'[v].deliveries_completed = profile[v].deliveries_completed + 1
        /\ \A e \in Addresses \ {v} : profile'[e] = profile[e]
    BY <1>1, <2>1, <2>2, IncreaseType
  <2>4. d = v => /\ id \notin DeliveredBy(d) /\ id \in DeliveredBy(d)'
                 /\ delivery[id].driver = d /\ ConfirmedFor(id)
    BY <1>2, <1>3 DEF DeliveredBy, ConfirmedFor
  <2> HIDE DEF v
  <2>5. CASE d = v
    BY <1>2, <2>3, <2>4, <2>5
  <2>6. d # v => profile'[d] = profile[d]
    BY <2>3
  <2>7. QED
    BY <2>5, <2>6 DEF CountKept
<1>6. QED
  BY <1>4, <1>5

(* Numbers given out before init stay known as such, and only what is      *)
(* called at the identity contract directly is credited elsewhere.         *)
LEMMA HistoryGrows ==
  ASSUME ProtocolInv, [ProtocolNext]_protocolVars
  PROVE  early \subseteq early' /\ (UNCHANGED elsewhere \/ IdentityNext)
<1>1. TypeOK /\ DeliveryTypeOK /\ DisputeTypeOK /\ now \in Nat
  BY DEF ProtocolInv, ProtocolTypeOK, TypeOK
<1>2. UNCHANGED deliveryVars => UNCHANGED <<early, elsewhere>>
  BY DEF deliveryVars, history
<1>3. CASE DeliveryNext
  <2>1. CASE Book
    BY <1>1, <2>1, BookStep DEF Booked
  <2>2. ASSUME NEW id \in Ids, Carry(id) PROVE UNCHANGED <<early, elsewhere>>
    BY <1>1, <2>2, CarryStep DEF Rewritten
  <2>3. QED
    BY <1>3, <2>1, <2>2 DEF DeliveryNext, InitDelivery, SetDeliveryIdentity, history
<1>4. CASE DisputeNext
  <2>1. CASE Appoint
    BY <1>1, <1>2, <2>1, TypeAppoint
  <2>2. ASSUME NEW id \in Ids, Hear(id) PROVE UNCHANGED <<early, elsewhere>>
    BY <1>1, <1>2, <2>2, HearStep DEF Filed, Supported, Decided, Rewritten
  <2>3. QED
    BY <1>4, <2>1, <2>2 DEF DisputeNext
<1>5. CASE IdentityNext
  BY <1>5, IdentityAlone
<1>6. QED
  BY <1>2, <1>3, <1>4, <1>5 DEF ProtocolNext, EscrowNext, protocolVars

(* The count of a driver stays within the parcels of that driver that were *)
(* delivered and the credits of other contracts.                           *)
CountsRight ==
  early = {} =>
    \A d \in Addresses : profile[d] # None =>
      /\ profile[d].deliveries_completed \in Nat
      /\ profile[d].deliveries_completed <=
           Cardinality(DeliveredBy(d)) + elsewhere[d]

(* Every step keeps the counts within that.                                *)
LEMMA CountsStep ==
  ASSUME IsFiniteSet(Ids), ProtocolInv, ProtocolTypeOK', CountsRight,
         [ProtocolNext]_protocolVars
  PROVE  CountsRight'
<1> SUFFICES ASSUME early' = {}, NEW d \in Addresses, profile'[d] # None
             PROVE  /\ profile'[d].deliveries_completed \in Nat
                    /\ profile'[d].deliveries_completed <=
                         Cardinality(DeliveredBy(d)') + elsewhere'[d]
  BY DEF CountsRight
<1>1. early = {}
  BY HistoryGrows
<1>2. /\ elsewhere[d] \in Nat /\ elsewhere'[d] \in Nat
      /\ DeliveryTypeOK
  BY DEF ProtocolInv, ProtocolTypeOK, DeliveryTypeOK
<1>3. DeliveredBy(d) \subseteq DeliveredBy(d)'
  <2> SUFFICES ASSUME NEW id \in Ids, delivery[id] # None,
                      delivery[id].driver = d, delivery[id].delivered_at # None
               PROVE  id \in DeliveredBy(d)'
    BY DEF DeliveredBy
  <2>1. delivery[id].status = "Delivered"
    BY DEF ProtocolInv, Agreement, Agree, Staffed
  <2>2. delivery'[id] = delivery[id]
    BY <1>1, <2>1, KeptStep DEF Kept, Final, Finished
  <2>3. QED
    BY <2>2 DEF DeliveredBy
<1>4. DeliveredBy(d) \subseteq Ids /\ DeliveredBy(d)' \subseteq Ids
  BY DEF DeliveredBy
<1> DEFINE n == Cardinality(DeliveredBy(d))
           m == Cardinality(DeliveredBy(d)')
           Right == /\ profile'[d].deliveries_completed \in Nat
                    /\ profile'[d].deliveries_completed <= m + elsewhere'[d]
<1>5. /\ IsFiniteSet(DeliveredBy(d)) /\ IsFiniteSet(DeliveredBy(d)')
      /\ n \in Nat /\ m \in Nat /\ n <= m
  <2>1. IsFiniteSet(DeliveredBy(d)) /\ IsFiniteSet(DeliveredBy(d)')
    BY <1>4, FS_Subset
  <2>2. QED
    BY <1>3, <2>1, FS_Subset, FS_CardinalityType
<1>6. profile[d] # None =>
        /\ profile[d].deliveries_completed \in Nat
        /\ profile[d].deliveries_completed <= n + elsewhere[d]
  BY <1>1 DEF CountsRight
<1>7. ASSUME CountKept(d), elsewhere'[d] = elsewhere[d] PROVE Right
  <2> HIDE DEF n, m
  <2>1. QED
    BY <1>2, <1>5, <1>6, <1>7 DEF CountKept
<1>8. ASSUME CreditedElsewhere(d) PROVE Right
  <2> HIDE DEF n, m
  <2>1. QED
    BY <1>2, <1>5, <1>6, <1>8 DEF CreditedElsewhere
<1>9. ASSUME NEW id \in Ids, id \notin DeliveredBy(d), id \in DeliveredBy(d)',
             profile[d] # None, elsewhere'[d] = elsewhere[d],
             profile'[d].deliveries_completed = profile[d].deliveries_completed + 1
      PROVE  Right
  <2>1. DeliveredBy(d) \cup {id} \subseteq DeliveredBy(d)'
    BY <1>3, <1>9
  <2>2. Cardinality(DeliveredBy(d) \cup {id}) = n + 1
    BY <1>5, <1>9, FS_AddElement
  <2>3. Cardinality(DeliveredBy(d) \cup {id}) <= m
    BY <1>5, <2>1, FS_Subset
  <2> HIDE DEF n, m
  <2>4. QED
    BY <1>2, <1>5, <1>6, <1>9, <2>2, <2>3
<1>10. CASE IdentityNext
  <2>1. \/ CountKept(d) /\ elsewhere'[d] = elsewhere[d]
        \/ CreditedElsewhere(d)
    BY <1>2, <1>10, IdentityCounts
  <2> HIDE DEF Right
  <2>2. Right
    BY <1>7, <1>8, <2>1
  <2>3. QED
    BY <2>2 DEF Right
<1>11. CASE ~IdentityNext
  <2>1. elsewhere'[d] = elsewhere[d]
    BY <1>11, HistoryGrows
  <2>2. ASSUME NEW id \in Ids, Carry(id), Confirmed(id), UNCHANGED case
        PROVE  Right
    <3>1. DeliveryTypeOK /\ now \in Nat
      BY DEF ProtocolInv, ProtocolTypeOK, TypeOK
    <3>2. Rewritten(id)
      BY <2>2, <3>1, CarryStep
    <3>3. \/ CountKept(d)
          \/ /\ profile[d] # None
             /\ profile'[d].deliveries_completed =
                  profile[d].deliveries_completed + 1
             /\ id \notin DeliveredBy(d) /\ id \in DeliveredBy(d)'
      BY <2>2, <3>2, ConfirmCounts
    <3> HIDE DEF Right
    <3>4. QED
      BY <1>7, <1>9, <2>1, <3>3
  <2>3. ASSUME ~\E id \in Ids : Carry(id) /\ Confirmed(id) /\ UNCHANGED case
        PROVE  Right
    <3>1. CountKept(d)
      BY <1>11, <2>3, CountStep
    <3> HIDE DEF Right
    <3>2. QED
      BY <1>7, <2>1, <3>1
  <2> HIDE DEF Right
  <2>4. Right
    BY <2>2, <2>3
  <2>5. QED
    BY <2>4 DEF Right
<1>12. QED
  BY <1>10, <1>11

(* The identity contract counts no more deliveries for a driver than were  *)
(* delivered by, or decided for, that driver or credited by other          *)
(* contracts.  Numbers are finitely many, as u64 are.                      *)
THEOREM CompletionsAreConfirmed ==
  ASSUME IsFiniteSet(Ids)
  PROVE  ProtocolSpec => []CompletionsConfirmed
<1>1. ProtocolInit => CountsRight
  BY DEF ProtocolInit, DeliveryInit, Ident!Init, CountsRight
<1>2. ProtocolInv /\ ProtocolTypeOK' /\ CountsRight /\ [ProtocolNext]_protocolVars =>
        CountsRight'
  BY CountsStep
<1>3. ProtocolTypeOK /\ CountsRight => CompletionsConfirmed
  <2> SUFFICES ASSUME ProtocolTypeOK, CountsRight, early = {},
                      NEW d \in Addresses, profile[d] # None
               PROVE  profile[d].deliveries_completed <=
                        Cardinality(DeliveredBy(d)) + Cardinality(WonBy(d))
                          + elsewhere[d]
    BY DEF CompletionsConfirmed
  <2>1. DeliveredBy(d) \subseteq Ids /\ WonBy(d) \subseteq Ids
    BY DEF DeliveredBy, WonBy
  <2>2. Cardinality(DeliveredBy(d)) \in Nat /\ Cardinality(WonBy(d)) \in Nat
    BY <2>1, FS_Subset, FS_CardinalityType
  <2>3. elsewhere[d] \in Nat
    BY DEF ProtocolTypeOK, DeliveryTypeOK
  <2>4. /\ profile[d].deliveries_completed \in Nat
        /\ profile[d].deliveries_completed <=
             Cardinality(DeliveredBy(d)) + elsewhere[d]
    BY DEF CountsRight
  <2>5. QED
    BY <2>2, <2>3, <2>4
<1>4. QED
  BY <1>1, <1>2, <1>3, RecordsAgree, ProtocolTypeCorrect, PTL DEF ProtocolSpec

-----------------------------------------------------------------------------
(* The account of a driver's record.                                       *)

(* Among the functions on a case, only two verdicts change a record, each  *)
(* that of the driver of its delivery, and each closes the case.           *)
LEMMA HearPenalizes ==
  ASSUME ProtocolInv, NEW id \in Ids, Hear(id)
  PROVE  \/ UNCHANGED identityVars
         \/ /\ delivery[id] # None /\ delivery[id].driver # None
            /\ \E points \in Nat :
                 Ident!DecreaseReputation(DisputeAddr, delivery[id].driver, points)
            /\ JudgedFor(id)
<1> DEFINE Result ==
      \/ UNCHANGED identityVars
      \/ /\ delivery[id] # None /\ delivery[id].driver # None
         /\ \E points \in Nat :
              Ident!DecreaseReputation(DisputeAddr, delivery[id].driver, points)
         /\ JudgedFor(id)
<1>1. TypeOK /\ DeliveryTypeOK /\ DisputeTypeOK /\ now \in Nat
      /\ Agree(delivery[id], escrow[id], case[id], id \in early)
  BY DEF ProtocolInv, ProtocolTypeOK, TypeOK, Agreement
<1>2. ASSUME CaseOpen(id), NEW status, Decided(id, status)
      PROVE  JudgedFor(id)
  <2>1. id \notin early => delivery[id].status = "Disputed"
    BY <1>1, <1>2 DEF Agree, CaseAgrees, CaseOpen
  <2>2. status # "Open"
    BY <1>2 DEF Decided, Enforced
  <2>3. ~CaseOpen(id)'
    BY <1>2, <2>2 DEF Decided, CaseOpen
  <2>4. QED
    BY <1>2, <2>1, <2>3 DEF JudgedFor
<1>3. ASSUME NEW points \in Nat, delivery[id] # None, Penalize(id, points),
             JudgedFor(id)
      PROVE  Result
  BY <1>3 DEF Penalize
<1>4. ASSUME NEW caller, ResolveDisputeRefundSender(caller, id)
      PROVE  Result
  <2>1. JudgedFor(id)
    BY <1>1, <1>2, <1>4, DecideStep, WiringAssumption
       DEF ResolveDisputeRefundSender, Judges
  <2>2. QED
    BY <1>1, <1>3, <1>4, <2>1, PenaltyType DEF ResolveDisputeRefundSender, Judges
<1>5. ASSUME NEW caller, NEW bps \in ShareOffers,
             ResolveDisputeSplitFunds(caller, id, bps)
      PROVE  Result
  <2>1. JudgedFor(id)
    BY <1>1, <1>2, <1>5, DecideStep DEF ResolveDisputeSplitFunds, Judges
  <2>2. DISPUTE_REPUTATION_SPLIT_PENALTY \in Nat
    BY DEF DISPUTE_REPUTATION_SPLIT_PENALTY
  <2>3. QED
    BY <1>3, <1>5, <2>1, <2>2 DEF ResolveDisputeSplitFunds, Judges
<1>6. CASE \/ \E caller : OpenCase(caller, id)
           \/ \E caller : AddEvidenceHash(caller, id)
           \/ \E caller : ForceResolveDispute(caller, id)
           \/ \E caller : ResolveDisputePayDriver(caller, id)
  <2>1. UNCHANGED identityVars
    BY <1>6 DEF OpenCase, RaiseDeliveryDispute, AddEvidenceHash,
       ForceResolveDispute, ResolveDisputePayDriver, RewardDriver
  <2>2. QED
    BY <2>1
<1> HIDE DEF Result
<1>7. Result
  BY <1>4, <1>5, <1>6 DEF Hear, Result
<1>8. QED
  BY <1>7 DEF Result

(* What the property says of one driver.                                   *)
Explained(d) ==
  profile[d] # None =>
    /\ profile'[d] # None
    /\ SameStanding(profile[d], profile'[d]) \/ Accounted(d)

(* A confirmation accounts for what it changes.                            *)
LEMMA ConfirmAccounts ==
  ASSUME ProtocolInv, NEW id \in Ids, Rewritten(id), Confirmed(id),
         UNCHANGED case, NEW d \in Addresses
  PROVE  Explained(d)
BY ConfirmCounts DEF Explained, Accounted, SameStanding

(* So does a function on a case.                                           *)
LEMMA HearAccounts ==
  ASSUME ProtocolInv, NEW id \in Ids, Hear(id), NEW d \in Addresses
  PROVE  Explained(d)
<1>1. Ident!TypeOK /\ DeliveryTypeOK
  BY DEF ProtocolInv, ProtocolTypeOK, DeliveryTypeOK
<1>2. CASE UNCHANGED identityVars
  BY <1>2 DEF identityVars, Explained, SameStanding
<1>3. CASE ~UNCHANGED identityVars
  <2> DEFINE v == delivery[id].driver
  <2>1. /\ delivery[id] # None /\ v # None /\ JudgedFor(id)
        /\ \E points \in Nat : Ident!DecreaseReputation(DisputeAddr, v, points)
    BY <1>3, HearPenalizes
  <2>2. v \in Addresses
    BY <1>1, <2>1, AddressAssumption DEF DeliveryTypeOK, DeliveryRecord
  <2>3. /\ \A e \in Addresses : profile'[e] # None <=> profile[e] # None
        /\ \A e \in Addresses \ {v} : profile'[e] = profile[e]
    BY <1>1, <2>1, <2>2, DecreaseType
  <2>4. CASE d = v
    BY <2>1, <2>3, <2>4 DEF Explained, Accounted
  <2>5. CASE d # v
    BY <2>3, <2>5 DEF Explained, SameStanding
  <2>6. QED
    BY <2>4, <2>5
<1>4. QED
  BY <1>2, <1>3

(* And so does what is called at the identity contract directly: the       *)
(* standing of a driver changes at the word of an allowed contract only.   *)
LEMMA IdentityAccounts ==
  ASSUME DeliveryTypeOK, IdentityNext, UNCHANGED disputeVars, NEW d \in Addresses
  PROVE  Explained(d)
<1> USE DEF Explained
<1>1. Ident!TypeOK
  BY DEF DeliveryTypeOK
<1>2. CASE Oversee
  BY <1>1, <1>2, OverseeType DEF SameStanding
<1>3. CASE Enlist
  BY <1>1, <1>3, EnlistStep
<1>4. CASE \E c \in OtherContracts, e \in Drivers : Rate(c, e)
  <2>1. PICK c \in OtherContracts, e \in Drivers : Rate(c, e)
    BY <1>4
  <2>2. c \in allowlist /\ (profile'[d] # None <=> profile[d] # None)
    BY <2>1, RateStep DEF CountedElsewhere
  <2>3. UNCHANGED <<delivery, case>>
    BY IdentityAlone DEF disputeVars
  <2>4. QED
    BY <2>1, <2>2, <2>3 DEF Accounted
<1>5. QED
  BY <1>2, <1>3, <1>4 DEF IdentityNext

(* Every step accounts for the records it changes.                         *)
LEMMA AccountStep ==
  ASSUME ProtocolInv, [ProtocolNext]_protocolVars
  PROVE  \A d \in Addresses : Explained(d)
<1> SUFFICES ASSUME NEW d \in Addresses PROVE Explained(d)
  OBVIOUS
<1>1. /\ TypeOK /\ DeliveryTypeOK /\ DisputeTypeOK /\ Ident!TypeOK
      /\ now \in Nat
  BY DEF ProtocolInv, ProtocolTypeOK, TypeOK, DeliveryTypeOK
<1>2. UNCHANGED profile \/ UNCHANGED identityVars => Explained(d)
  BY DEF identityVars, Explained, SameStanding
<1>3. CASE DeliveryNext /\ UNCHANGED disputeVars
  <2>1. CASE Book
    BY <1>1, <1>2, <2>1, BookStep
  <2>2. ASSUME NEW id \in Ids, Carry(id)
        PROVE  Explained(d)
    <3>1. Rewritten(id)
      BY <1>1, <2>2, CarryStep
    <3>2. UNCHANGED identityVars \/ Confirmed(id)
      BY <1>1, <2>2, CarryStep DEF Driven, CalledOff, Contested
    <3>3. UNCHANGED case
      BY <1>3 DEF disputeVars
    <3>4. QED
      BY <1>2, <3>1, <3>2, <3>3, ConfirmAccounts
  <2>3. QED
    BY <1>2, <1>3, <2>1, <2>2 DEF DeliveryNext, InitDelivery, SetDeliveryIdentity
<1>4. CASE IdentityNext /\ UNCHANGED disputeVars
  BY <1>1, <1>4, IdentityAccounts
<1>5. CASE DisputeNext
  <2>1. CASE Appoint
    BY <1>2, <2>1 DEF Appoint, InitDispute, AddAdmin, RemoveAdmin,
       SetDisputeIdentity, SetDisputeReputationPenalty, UpdateDisputeTimeLimit,
       SetDisputeResolutionLimit
  <2>2. QED
    BY <1>5, <2>1, HearAccounts DEF DisputeNext
<1>6. QED
  BY <1>2, <1>3, <1>4, <1>5 DEF ProtocolNext, EscrowNext, protocolVars

(* Score and count of a driver change only with a confirmation, which      *)
(* counts that delivery, with a verdict, which closes that case, or at the *)
(* word of another contract that the admin allows.                         *)
THEOREM EveryChangeAccounted == ProtocolSpec => ReputationAccounted
<1>1. ProtocolInv /\ [ProtocolNext]_protocolVars =>
        [\A d \in Addresses : profile[d] # None =>
           /\ profile'[d] # None
           /\ SameStanding(profile[d], profile'[d]) \/ Accounted(d)]_protocolVars
  BY AccountStep DEF Explained
<1>2. QED
  BY <1>1, RecordsAgree, PTL DEF ProtocolSpec, ReputationAccounted

=============================================================================
