------------------------------ MODULE Protocol ------------------------------
(***************************************************************************)
(* The delivery, escrow, dispute and identity contracts as one system.     *)
(* The functions of each remain open to direct calls, next to the nested   *)
(* calls of the others, so that the records that the contracts keep of one *)
(* delivery can be moved separately.                                       *)
(***************************************************************************)
EXTENDS Dispute, FiniteSets

(* The admin of the escrow names no other dispute contract than this one,  *)
(* and the share of a forced split is a share the escrow may be asked for. *)
ASSUME WiringAssumption ==
  /\ DisputeAddrs \subseteq {DisputeAddr}
  /\ DEFAULT_SENDER_SHARE_BPS \in ShareOffers

protocolVars == <<vars, deliveryVars, identityVars, disputeVars>>

ProtocolInit == Init /\ DeliveryInit /\ DisputeInit

(* What accounts call at the escrow directly.  freeze_funds is for the     *)
(* dispute contract, which calls it when it opens a case.                  *)
EscrowDirect(id) ==
  \/ \E caller \in Callers :
       \/ MarkHoldbackEscrow(caller, id)
       \/ ReleaseEscrow(caller, id)
       \/ ReleaseHoldbackEscrow(caller, id)
       \/ RefundEscrow(caller, id)
       \/ RaiseDispute(caller, id)
  \/ ReclaimExpiredEscrow(id)
  \/ ResolveDisputeRelease(id)
  \/ ResolveDisputeRefund(id)
  \/ \E bps \in ShareOffers : ResolveDisputeSplit(id, bps)

EscrowNext ==
  /\ Administer \/ Create \/ Environment \/ \E id \in Ids : EscrowDirect(id)
  /\ UNCHANGED <<deliveryVars, identityVars, disputeVars>>

ProtocolNext ==
  \/ EscrowNext
  \/ DeliveryNext /\ UNCHANGED disputeVars
  \/ IdentityNext /\ UNCHANGED disputeVars
  \/ DisputeNext

ProtocolSpec == ProtocolInit /\ [][ProtocolNext]_protocolVars

(* Time passes, and a party to an open case asks for its forced resolution *)
(* as long as that would succeed.                                          *)
ForcedByParty(id) ==
  \E caller \in DeliveryParties(id) : ForceResolveDispute(caller, id)

Advance ==
  Tick /\ UNCHANGED <<deliveryVars, identityVars, disputeVars>>

WindowFairness ==
  /\ WF_protocolVars(Advance)
  /\ \A id \in Ids : WF_protocolVars(ForcedByParty(id))

(* refund_escrow takes a Paused escrow too: its sender, who gets all of    *)
(* the money, takes the chance when it keeps coming back.                  *)
WithdrawDisputed(id) ==
  /\ InStatus(id, {"Paused"})
  /\ RefundEscrow(escrow[id].sender, id)
  /\ UNCHANGED <<deliveryVars, identityVars, disputeVars>>

WindowSpec == ProtocolSpec /\ WindowFairness

FairProtocolSpec ==
  WindowSpec /\ \A id \in Ids : SF_protocolVars(WithdrawDisputed(id))

-----------------------------------------------------------------------------
(* Properties.                                                             *)

(* Every variable of the three contracts and of the profiles has the type  *)
(* that its Rust declaration gives it.                                     *)
ProtocolTypeOK == TypeOK /\ DeliveryTypeOK /\ DisputeTypeOK

(* The end of a delivery never runs ahead of the money, whatever is called *)
(* at the escrow directly, before or after: no parcel is Delivered whose   *)
(* money still stands Locked or is frozen, none is Cancelled unless the    *)
(* sender has the money back, and none is Disputed unless the escrow bears *)
(* the time of a dispute and is frozen or settled.                         *)
DeliveryMatchesEscrow ==
  \A id \in Ids : delivery[id] # None =>
    /\ delivery[id].status = "Delivered" =>
         InStatus(id, {"Holdback", "Released", "Refunded", "Split"})
    /\ delivery[id].status = "Cancelled" => InStatus(id, {"Refunded"})
    /\ delivery[id].status = "Disputed" =>
         /\ InStatus(id, {"Paused", "Released", "Refunded", "Split"})
         /\ escrow[id].disputed_at # None

(* Whoever opened a case, delivery, escrow and case tell the same story of *)
(* it: the escrow was disputed by the same party of the delivery at the    *)
(* same moment, the delivery has a driver to judge, and it stays Disputed  *)
(* as long as the case is open.  Numbers that init gives out a second time *)
(* are left aside.                                                         *)
CaseMatchesDispute ==
  \A id \in Ids : case[id] # None =>
    /\ escrow[id] # None
    /\ case[id].raised_at = escrow[id].disputed_at
    /\ case[id].raised_by = escrow[id].disputed_by
    /\ id \notin early =>
         /\ case[id].raised_by \in DeliveryParties(id)
         /\ delivery[id].driver # None
         /\ CaseOpen(id) => delivery[id].status = "Disputed"

(* A closed case names what became of the money: a verdict for one party   *)
(* means that party was paid, and no closed case leaves money frozen.  A   *)
(* forced Split may stand over an escrow that was settled directly before. *)
VerdictMatchesMoney ==
  \A id \in Ids : case[id] # None =>
    /\ case[id].status = "ResolvedRefund" => InStatus(id, {"Refunded"})
    /\ case[id].status = "ResolvedPayout" => InStatus(id, {"Released"})
    /\ case[id].status = "Split" =>
         InStatus(id, {"Split", "Refunded", "Released"})
    /\ case[id].status = "Open" <=> case[id].resolved_by = None

(* There is no way back: no record is dropped, no new delivery takes the   *)
(* number of another, its parties and, once assigned, its driver stay, and *)
(* a parcel that was delivered, disputed or cancelled is never under way   *)
(* again, a cancelled one never anything else.  A closed case is never     *)
(* opened again, judged twice or given more evidence.                      *)
Finished == {"Delivered", "Disputed", "Cancelled"}

Continues(d, e) ==
  /\ e # None
  /\ e.sender = d.sender /\ e.recipient = d.recipient
  /\ d.driver # None => e.driver = d.driver
  /\ d.status \in Finished => e.status \in Finished
  /\ d.status = "Cancelled" => e = d

NoWayBack ==
  [][\A id \in Ids :
       /\ id \notin early /\ delivery[id] # None =>
            Continues(delivery[id], delivery'[id])
       /\ case[id] # None =>
            /\ case'[id] # None
            /\ ~CaseOpen(id) => case'[id] = case[id]]_protocolVars

(* Every delivery that the identity contract counts for a driver has its   *)
(* own reason: the moment at which a parcel of that driver was delivered,  *)
(* a case decided for that driver, or a credit by another contract that    *)
(* the admin allowed.  No parcel and no case counts twice.                 *)
DeliveredBy(d) ==
  {id \in Ids : /\ delivery[id] # None
                /\ delivery[id].driver = d
                /\ delivery[id].delivered_at # None}

WonBy(d) ==
  {id \in Ids : /\ delivery[id] # None
                /\ delivery[id].driver = d
                /\ case[id] # None /\ case[id].status = "ResolvedPayout"}

CompletionsConfirmed ==
  early = {} =>
    \A d \in Addresses : profile[d] # None =>
      profile[d].deliveries_completed <=
        Cardinality(DeliveredBy(d)) + Cardinality(WonBy(d)) + elsewhere[d]

(* A driver's standing is accounted for, step by step: score and count     *)
(* change only with the confirmation of a delivery of that driver, which   *)
(* counts it, with the verdict on a case over one, or at the word of       *)
(* another contract that the admin allows, which touches no delivery and   *)
(* no case.  No confirmation and no case does so twice.                    *)
SameStanding(p, q) ==
  /\ q.deliveries_completed = p.deliveries_completed
  /\ q.reputation_score = p.reputation_score

ConfirmedFor(id) ==
  delivery[id].status = "InTransit" /\ delivery'[id].status = "Delivered"

JudgedFor(id) ==
  /\ CaseOpen(id) /\ ~CaseOpen(id)'
  /\ id \notin early => delivery[id].status = "Disputed"

Accounted(d) ==
  \/ \E id \in Ids :
       /\ delivery[id] # None /\ delivery[id].driver = d
       /\ \/ /\ ConfirmedFor(id)
             /\ profile'[d].deliveries_completed =
                  profile[d].deliveries_completed + 1
          \/ JudgedFor(id)
  \/ /\ OtherContracts \cap allowlist # {}
     /\ UNCHANGED <<delivery, case>>

ReputationAccounted ==
  [][\A d \in Addresses : profile[d] # None =>
       /\ profile'[d] # None
       /\ SameStanding(profile[d], profile'[d]) \/ Accounted(d)]_protocolVars

(* The lists of deliveries by sender and by recipient hold exactly the     *)
(* deliveries of that party, each once, through single creation and        *)
(* batches alike, numbers that init gives out a second time left aside.    *)
DeliveryIndexExact ==
  \A a \in Addresses, id \in Ids \ early :
    /\ deliveriesBySender[a][id] =
         Occurs(delivery[id] # None /\ delivery[id].sender = a)
    /\ deliveriesByRecipient[a][id] =
         Occurs(delivery[id] # None /\ delivery[id].recipient = a)

(* list_admins answers with exactly the addresses that is_admin accepts,   *)
(* each once, whatever is added again or removed without being there.      *)
AdminListExact == \A a \in Addresses : adminList[a] = Occurs(a \in arbiters)

(* Without any arbiter, and whatever limit the arbiters set, the parties   *)
(* can bring a case to an end once its window has passed, provided the     *)
(* pause is lifted from time to time.                                      *)
WindowEnds(id) ==
  /\ CaseOpen(id)
  /\ \A limit \in LimitOffers :
       /\ case[id].raised_at + limit < MaxTime
       /\ case[id].raised_at + limit <= MaxU64

CaseCloses ==
  \A id \in Ids : []<>~paused => (WindowEnds(id) ~> ~CaseOpen(id))

(* The parties of a delivery see the carriage of module Carriage.  Nothing  *)
(* is promised of the parcel under a number that init gives out twice, and *)
(* of its money that it moves forward.                                     *)
CourseOf(d, early_id) ==
  IF early_id \/ d = None THEN "none"
  ELSE IF d.status = "Delivered" THEN "delivered"
  ELSE IF d.status = "Cancelled" THEN "cancelled"
  ELSE IF d.status = "Disputed" THEN "disputed" ELSE "open"

MoneyAt == [Locked |-> "held", Holdback |-> "due", Paused |-> "frozen",
            Released |-> "driver", Refunded |-> "sender", Split |-> "shared"]

MoneyOf(r) == IF r = None THEN "none" ELSE MoneyAt[r.status]

VerdictName == [Open |-> "open", ResolvedRefund |-> "refund",
                ResolvedPayout |-> "payout", Split |-> "split"]

VerdictOf(c, early_id) ==
  IF early_id \/ c = None THEN "none" ELSE VerdictName[c.status]

Journey == INSTANCE Carriage WITH
  Ids <- Ids,
  course <- [id \in Ids |-> CourseOf(delivery[id], id \in early)],
  money <- [id \in Ids |-> MoneyOf(escrow[id])],
  verdict <- [id \in Ids |-> VerdictOf(case[id], id \in early)]

CarriageKept == Journey!Spec

-----------------------------------------------------------------------------
(* What the repository says and this code does not do.                     *)

(* Any party ends a dispute that is past its window.                       *)
WindowEndsDispute == \A id \in Ids : WindowEnds(id) ~> ~CaseOpen(id)

(* The contracts point at one another, and no case is open or decided yet. *)
Disputable(id) ==
  /\ timeLimit # None /\ disputeContract = DisputeAddr /\ deliveryAdmin # None
  /\ delivery[id] # None /\ escrow[id] # None /\ case[id] = None

(* Once a parcel is delivered, its escrow is Released, as the consistency  *)
(* query expects, or at least, within the dispute limit, some party can    *)
(* still open a case.  Either of two claims of the repository would do.    *)
PaidOrDisputable ==
  \A id \in Ids :
    /\ Disputable(id)
    /\ delivery[id].status = "Delivered"
    /\ Within(delivery[id].delivered_at, timeLimit)
    => \/ InStatus(id, {"Released"})
       \/ ENABLED \E caller \in DeliveryParties(id) : OpenCase(caller, id)

(* A driver under way with a parcel, whose money is Locked, may open a     *)
(* case like the other two parties.                                        *)
DriverMayDispute ==
  \A id \in Ids :
    /\ Disputable(id)
    /\ delivery[id].status = "InTransit"
    /\ InStatus(id, {"Locked"})
    /\ delivery[id].driver = escrow[id].driver
    => ENABLED OpenCase(delivery[id].driver, id)

(* An arbiter who can charge a case to the driver's reputation can decide  *)
(* it for the driver as well, and the reputation then rises.               *)
Vindicate(caller, id) ==
  /\ ResolveDisputePayDriver(caller, id)
  /\ profile'[delivery[id].driver].deliveries_completed >
       profile[delivery[id].driver].deliveries_completed

VindicatedRewarded ==
  \A id \in Ids, caller \in arbiters :
    disputeIdentity # None /\ ENABLED ResolveDisputeRefundSender(caller, id)
      => ENABLED Vindicate(caller, id)

=============================================================================
