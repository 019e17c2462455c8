------------------------------- MODULE Dispute -------------------------------
(***************************************************************************)
(* The dispute resolution contract                                         *)
(* (src/contracts/dispute_resolution_contract/lib.rs): a case per disputed *)
(* delivery, which an arbiter of this contract closes for one party, or    *)
(* splits, and which a party may force to a split after a time.  As in     *)
(* module Delivery, a function is one transaction with the functions of    *)
(* the delivery, escrow and identity contracts that it calls.              *)
(***************************************************************************)
EXTENDS Delivery

CONSTANTS
  Arbiters,            \* addresses that an arbiter may appoint
  MinDisputeTimeLimit, \* MIN_DISPUTE_TIME_LIMIT
  LimitOffers,         \* time limits passed to init and to the setters
  MaxU64,              \* largest value of the integer type u64
  MaxEvidence          \* bound: hashes attached to one case

DEFAULT_DISPUTE_REPUTATION_PENALTY == 10
DISPUTE_REPUTATION_SPLIT_PENALTY == 5
DEFAULT_SENDER_SHARE_BPS == 5000

DisputeStatuses == {"Open", "ResolvedRefund", "ResolvedPayout", "Split"}

(* Of the evidence, how many hashes there are.                             *)
DisputeCase ==
  [status : DisputeStatuses, raised_at : Nat, raised_by : Addresses,
   evidence_hashes : Nat, resolved_at : Nat \cup {None},
   resolved_by : Addresses \cup {None}]

ASSUME DisputeAssumption ==
  /\ Arbiters \subseteq Addresses
  /\ MinDisputeTimeLimit \in Nat
  /\ LimitOffers \subseteq Nat
  /\ MaxU64 \in Nat /\ MaxEvidence \in Nat
  /\ None \notin DisputeCase

VARIABLES
  arbiters,         \* DataKey::Admin(a): who holds the flag
  adminList,        \* DataKey::AdminList: how often it lists an address
  disputeIdentity,  \* DataKey::IdentityReputationContract, or None
  penalty,          \* DataKey::DisputeReputationPenalty, or None
  timeLimit,        \* DataKey::DisputeTimeLimit, None before init
  resolutionLimit,  \* DataKey::DisputeResolutionLimit
  case              \* DataKey::Dispute(id): a case, or None

arbiterVars == <<arbiters, adminList>>
settingVars == <<disputeIdentity, penalty, timeLimit, resolutionLimit>>
disputeVars == <<arbiterVars, settingVars, case>>

DisputeInit ==
  /\ arbiters = {}
  /\ adminList = [a \in Addresses |-> 0]
  /\ disputeIdentity = None /\ penalty = None
  /\ timeLimit = None /\ resolutionLimit = 0
  /\ case = [id \in Ids |-> None]

-----------------------------------------------------------------------------
(* Administration.                                                         *)

InitDispute(a, time, resolution) ==
  /\ timeLimit = None
  /\ time >= MinDisputeTimeLimit
  /\ timeLimit' = time /\ resolutionLimit' = resolution
  /\ arbiters' = arbiters \cup {a}
  /\ adminList' = [b \in Addresses |-> Occurs(b = a)]
  /\ UNCHANGED <<vars, deliveryVars, identityVars, disputeIdentity, penalty,
                 case>>

BugListed(n) == n + 1      \* mutant: pushed without a look at the list
Listed(n) == IF n = 0 THEN 1 ELSE n

AddAdmin(caller, a) ==
  /\ caller \in arbiters
  /\ arbiters' = arbiters \cup {a}
  /\ adminList' = [adminList EXCEPT ![a] = Listed(@)]
  /\ UNCHANGED <<vars, deliveryVars, identityVars, settingVars, case>>

(* Also the last one, and by itself.                                       *)
RemoveAdmin(caller, a) ==
  /\ caller \in arbiters
  /\ arbiters' = arbiters \ {a}
  /\ adminList' = [adminList EXCEPT ![a] = 0]
  /\ UNCHANGED <<vars, deliveryVars, identityVars, settingVars, case>>

SetDisputeIdentity(caller) ==
  /\ caller \in arbiters
  /\ disputeIdentity' = IdentityAddr
  /\ UNCHANGED <<vars, deliveryVars, identityVars, arbiterVars, penalty,
                 timeLimit, resolutionLimit, case>>

SetDisputeReputationPenalty(caller, points) ==
  /\ caller \in arbiters
  /\ penalty' = points
  /\ UNCHANGED <<vars, deliveryVars, identityVars, arbiterVars,
                 disputeIdentity, timeLimit, resolutionLimit, case>>

(* The minimum that init asks for is not asked for here.                   *)
UpdateDisputeTimeLimit(caller, limit) ==
  /\ caller \in arbiters
  /\ timeLimit' = limit
  /\ UNCHANGED <<vars, deliveryVars, identityVars, arbiterVars,
                 disputeIdentity, penalty, resolutionLimit, case>>

SetDisputeResolutionLimit(caller, limit) ==
  /\ caller \in arbiters
  /\ resolutionLimit' = limit
  /\ UNCHANGED <<vars, deliveryVars, identityVars, arbiterVars,
                 disputeIdentity, penalty, timeLimit, case>>

-----------------------------------------------------------------------------
(* Cases.                                                                  *)

DeliveryParties(id) ==
  IF delivery[id] = None THEN {}
  ELSE {delivery[id].sender, delivery[id].recipient, delivery[id].driver} \ {None}

BugCaseOpen(id) == case[id] # None     \* mutant: its status not looked at
CaseOpen(id) == case[id] # None /\ case[id].status = "Open"

(* A sum past u64 aborts the transaction.                                  *)
Within(start, limit) ==
  start + limit <= MaxU64 /\ now <= start + limit

BugElapsed(start, limit) == now > start + limit + 1   \* mutant: one late
Elapsed(start, limit) ==
  start + limit <= MaxU64 /\ now > start + limit

BugOpenCase(caller, id) ==    \* mutant: a dispute raised directly tolerated
  /\ timeLimit # None
  /\ caller \in DeliveryParties(id)
  /\ \/ RaiseDeliveryDispute(caller, id)
     \/ delivery[id].status = "Disputed" /\ UNCHANGED <<vars, deliveryVars, identityVars>>
  /\ case[id] = None
  /\ case' = [case EXCEPT ![id] =
                [status |-> "Open", raised_at |-> now, raised_by |-> caller,
                 evidence_hashes |-> 0, resolved_at |-> None,
                 resolved_by |-> None]]
  /\ UNCHANGED <<arbiterVars, settingVars>>

(* Nested: raise_dispute of the delivery and through it of the escrow,     *)
(* which leaves the escrow Paused, so that all that freeze_funds adds is   *)
(* its check of the caller.  A case that exists is found only then.        *)
OpenCase(caller, id) ==
  /\ timeLimit # None
  /\ caller \in DeliveryParties(id)
  /\ delivery[id].status \in {"Active", "InTransit", "Delivered"}
  /\ delivery[id].status = "Delivered" =>
       Within(delivery[id].delivered_at, timeLimit)
  /\ RaiseDeliveryDispute(caller, id)
  /\ disputeContract = DisputeAddr
  /\ case[id] = None
  /\ case' = [case EXCEPT ![id] =
                [status |-> "Open", raised_at |-> now, raised_by |-> caller,
                 evidence_hashes |-> 0, resolved_at |-> None,
                 resolved_by |-> None]]
  /\ UNCHANGED <<arbiterVars, settingVars>>

AddEvidenceHash(caller, id) ==
  /\ CaseOpen(id)
  /\ caller \in DeliveryParties(id)
  /\ case[id].evidence_hashes < MaxEvidence
  /\ case' = [case EXCEPT ![id].evidence_hashes = @ + 1]
  /\ UNCHANGED <<vars, deliveryVars, identityVars, arbiterVars, settingVars>>

BugCloseCase(id, caller, status) ==      \* mutant: the verdict not stored
  case' = [case EXCEPT ![id] =
             [@ EXCEPT !.resolved_at = now, !.resolved_by = caller]]

CloseCase(id, caller, status) ==
  case' = [case EXCEPT ![id] =
             [@ EXCEPT !.status = status, !.resolved_at = now,
                       !.resolved_by = caller]]

Penalty ==
  IF penalty = None THEN DEFAULT_DISPUTE_REPUTATION_PENALTY ELSE penalty

(* Nested: decrease_reputation.                                            *)
BugPenalize(id, points) ==       \* mutant: the other call
  IF delivery[id].driver = None \/ disputeIdentity = None
  THEN UNCHANGED identityVars
  ELSE Ident!IncreaseReputation(DisputeAddr, delivery[id].driver, FALSE, FALSE)

Penalize(id, points) ==
  IF delivery[id].driver = None \/ disputeIdentity = None
  THEN UNCHANGED identityVars
  ELSE Ident!DecreaseReputation(DisputeAddr, delivery[id].driver, points)

(* An arbiter closes a case through the escrow, where the same caller has  *)
(* to be the admin.                                                        *)
Judges(caller, id) ==
  /\ caller \in arbiters
  /\ IsAdmin(caller)
  /\ CaseOpen(id)
  /\ delivery[id] # None

ResolveDisputeRefundSender(caller, id) ==
  /\ Judges(caller, id)
  /\ delivery[id].driver # None
  /\ Penalize(id, Penalty)
  /\ ResolveDisputeRefund(id)
  /\ CloseCase(id, caller, "ResolvedRefund")
  /\ UNCHANGED <<deliveryVars, arbiterVars, settingVars>>

ResolveDisputeSplitFunds(caller, id, bps) ==
  /\ Judges(caller, id)
  /\ Penalize(id, DISPUTE_REPUTATION_SPLIT_PENALTY)
  /\ ResolveDisputeSplit(id, bps)
  /\ CloseCase(id, caller, "Split")
  /\ UNCHANGED <<deliveryVars, arbiterVars, settingVars>>

(* The nested increase_reputation is called with three arguments and takes *)
(* six: where the call is made, the transaction fails.                     *)
RewardDriver(id) ==
  /\ delivery[id].driver = None \/ disputeIdentity = None
  /\ UNCHANGED identityVars

ResolveDisputePayDriver(caller, id) ==
  /\ Judges(caller, id)
  /\ ResolveDisputeRelease(id)
  /\ RewardDriver(id)
  /\ CloseCase(id, caller, "ResolvedPayout")
  /\ UNCHANGED <<deliveryVars, arbiterVars, settingVars>>

(* Nested, while the escrow is Paused only: resolve_dispute_split, which   *)
(* takes the admin of the escrow and nobody else.                          *)
BugForceSplit(caller, id) == UNCHANGED vars    \* mutant: the money forgotten
ForceSplit(caller, id) ==
  IF escrow[id].status = "Paused"
  THEN IsAdmin(caller) /\ ResolveDisputeSplit(id, DEFAULT_SENDER_SHARE_BPS)
  ELSE UNCHANGED vars

ForceResolveDispute(caller, id) ==
  /\ CaseOpen(id)
  /\ caller \in DeliveryParties(id)
  /\ Elapsed(case[id].raised_at, resolutionLimit)
  /\ escrow[id] # None
  /\ ForceSplit(caller, id)
  /\ CloseCase(id, caller, "Split")
  /\ UNCHANGED <<deliveryVars, identityVars, arbiterVars, settingVars>>

-----------------------------------------------------------------------------
Appoint ==
  \/ \E a \in Founders, time, resolution \in LimitOffers :
       InitDispute(a, time, resolution)
  \/ \E caller \in arbiters :
       \/ \E a \in Arbiters : AddAdmin(caller, a) \/ RemoveAdmin(caller, a)
       \/ SetDisputeIdentity(caller)
       \/ \E points \in Penalties : SetDisputeReputationPenalty(caller, points)
       \/ \E limit \in LimitOffers :
            \/ UpdateDisputeTimeLimit(caller, limit)
            \/ SetDisputeResolutionLimit(caller, limit)

Hear(id) ==
  \/ \E caller \in DeliveryParties(id) :
       \/ OpenCase(caller, id)
       \/ AddEvidenceHash(caller, id)
       \/ ForceResolveDispute(caller, id)
  \/ \E caller \in arbiters :
       \/ ResolveDisputeRefundSender(caller, id)
       \/ \E bps \in ShareOffers : ResolveDisputeSplitFunds(caller, id, bps)
       \/ ResolveDisputePayDriver(caller, id)

DisputeNext == Appoint \/ \E id \in Ids : Hear(id)

-----------------------------------------------------------------------------
(* Types of this contract's storage.                                       *)
DisputeTypeOK ==
  /\ arbiters \subseteq Addresses
  /\ adminList \in [Addresses -> Nat]
  /\ disputeIdentity \in {None, IdentityAddr}
  /\ penalty \in Penalties \cup {None}
  /\ timeLimit \in Nat \cup {None}
  /\ resolutionLimit \in Nat
  /\ case \in [Ids -> DisputeCase \cup {None}]

=============================================================================
