----------------------------- MODULE MCProtocol -----------------------------
(***************************************************************************)
(* Values for the constants of module Protocol that a .cfg cannot spell,   *)
(* and the order in which the instances are deployed.                      *)
(***************************************************************************)
EXTENDS Protocol

Goods == {[valid |-> TRUE, heavy |-> FALSE, fragile |-> TRUE]}

Flat == {[base_points |-> 1, heavy_cargo_points |-> 0, fragile_points |-> 0]}

(* The escrow, the identity contract and the dispute contract are set up   *)
(* in this order before anything else is called, so that TLC need not      *)
(* interleave them.  The delivery contract may be used before its init.    *)
Deployed ==
  /\ admin # None /\ disputeContract # None
  /\ idAdmin # None /\ timeLimit # None

(* A setting is changed only where something reads it: what the identity   *)
(* contract holds once another contract points at it, the pause when there *)
(* is an escrow, arbiters and penalty when there is a case.  The clock     *)
(* starts when there is a delivery with an escrow.                         *)
Read ==
  /\ now' # now => \E id \in Ids : escrow[id] # None /\ delivery[id] # None
  /\ allowlist' # allowlist => deliveryIdentity # None
  /\ joined' # joined => deliveryIdentity # None /\ \A id \in Ids : delivery[id] = None
  /\ profile' # profile => {deliveryIdentity, disputeIdentity} # {None}
  /\ paused' # paused => \E id \in Ids : escrow[id] # None
  /\ <<arbiters, penalty>>' # <<arbiters, penalty>> =>
       \E id \in Ids : case[id] # None

(* Another contract is allowed while a parcel is on its way or has just    *)
(* been delivered, and rates its driver once; only the delivery goes on    *)
(* then.  What nothing reads, the admin sets when a delivery is cancelled, *)
(* one setting a run.                                                      *)
OnTheWay ==
  /\ now = 0 /\ ~paused /\ disputeIdentity = None
  /\ \E a \in Addresses : profile[a] # None
  /\ \E id \in Ids : /\ delivery[id] # None
                     /\ delivery[id].status \in {"InTransit", "Delivered"}

Over == \E id \in Ids : delivery[id] # None /\ delivery[id].status = "Cancelled"

Verified == {a \in Addresses : profile[a] # None /\ profile[a].kyc_verified}

OtherAllowed == OtherContracts \cap allowlist # {}

Rated ==
  /\ OtherAllowed' # OtherAllowed => OnTheWay /\ ~OtherAllowed
  /\ OtherAllowed =>
       /\ <<deliveryVars, profile>>' # <<deliveryVars, profile>>
       /\ UNCHANGED <<now, paused, case, DeliveryAddr \in allowlist>>
  /\ \A a \in Addresses : elsewhere'[a] <= 1
  /\ <<idConfig, idDelivery, idDispute>>' # <<idConfig, idDelivery, idDispute>> =>
       /\ Over /\ deliveryIdentity # None /\ disputeIdentity = None
       /\ ~paused /\ now = 0
       /\ idConfig = None /\ idDelivery = None /\ idDispute = None
  /\ Verified' # Verified => OtherAllowed

InOrder ==
  \/ Deployed /\ Read /\ Rated
  \/ admin = None /\ admin' # None
  \/ admin # None /\ disputeContract = None /\ disputeContract' # None
  \/ disputeContract # None /\ idAdmin = None /\ idAdmin' # None
  \/ idAdmin # None /\ timeLimit = None /\ timeLimit' # None

InstanceSpec == ProtocolInit /\ [][ProtocolNext /\ InOrder]_protocolVars

WindowInstanceSpec == InstanceSpec /\ WindowFairness

FairInstanceSpec ==
  /\ WindowInstanceSpec
  /\ \A id \in Ids : SF_protocolVars(WithdrawDisputed(id))

=============================================================================
