------------------------------- MODULE Escrow -------------------------------
(***************************************************************************)
(* The escrow contract (src/contracts/escrow_contract/lib.rs): it takes a  *)
(* sender's tokens for a delivery and pays them out to the driver, back to *)
(* the sender, or to both.  An entry point runs as one atomic transaction, *)
(* and a panic undoes all of it, so each entry point is one action whose   *)
(* guard is the conjunction of the checks that would panic.  An entry      *)
(* point that returns early without changing anything is a stuttering step *)
(* and its early return appears as a guard.                                *)
(***************************************************************************)
EXTENDS Integers, Sequences, Functions

CONSTANTS
  Ids,              \* delivery identifiers (u64)
  Addresses,        \* accounts and contracts that can hold tokens
  EscrowAddr,       \* the address of this contract
  None,             \* Rust's Option::None, and "not set" in storage
  Tokens,           \* token contracts
  AmountOffers,     \* amounts callers pass for an escrow
  MaxI128, MaxU32,  \* i128::MAX, u32::MAX: saturating arithmetic stops there
  EscrowExpiry,     \* DEFAULT_ESCROW_EXPIRY_SECONDS
  Senders, Recipients, Drivers, Treasuries,
  Founders,         \* addresses that init may install as admin
  Nominees,         \* addresses that an admin may propose as successor
  SettlementAddrs, FleetAddrs, DisputeAddrs,
  FleetIds,         \* fleet_id arguments, None included
  FeeOffers, SlippageOffers, ShareOffers, TierTables,
  Surpluses,        \* amounts transferred to the contract by mistake
  InitialBalance,   \* what each sender owns of each token at the start
  MaxBatchLen,      \* bound: items passed to create_escrows_batch
  MaxTime           \* bound: the ledger clock

MAX_PLATFORM_FEE_BPS == 1000
MAX_BATCH_SIZE == 100
BASIS_POINTS == 10000

ASSUME AddressAssumption ==
  /\ EscrowAddr \in Addresses
  /\ None \notin Addresses
  /\ Senders \subseteq Addresses \ {EscrowAddr}
  /\ Recipients \cup Drivers \cup Treasuries \subseteq Addresses
  /\ Founders \cup Nominees \subseteq Addresses
  /\ SettlementAddrs \cup FleetAddrs \cup DisputeAddrs \subseteq Addresses

ASSUME NoneAssumption == None \notin Int

ASSUME NumberAssumption ==
  /\ AmountOffers \subseteq Int
  /\ MaxI128 \in Nat /\ MaxU32 \in Nat
  /\ EscrowExpiry \in Nat
  /\ FeeOffers \cup SlippageOffers \cup ShareOffers \subseteq Nat
  /\ Surpluses \subseteq Nat
  /\ InitialBalance \in Nat
  /\ MaxBatchLen \in Nat
  /\ MaxTime \in Nat

VARIABLES
  admin,              \* StorageKey::Admin, None before init
  pendingAdmin,       \* DataKey::PendingAdmin
  nominator,          \* history: the admin who set pendingAdmin
  paused,             \* DataKey::Paused
  protocolToken,      \* ProtocolConfig.token
  feeBps,             \* ProtocolConfig.platform_fee_bps
  slippageBps,        \* ProtocolConfig.slippage_tolerance_bps
  settlementContract, fleetContract, disputeContract,
  volumeTiers,        \* DataKey::VolumeTiers
  escrow,             \* StorageKey::Escrow(id): a record, or None
  totalLocked,        \* DataKey::TotalLocked(token)
  senderVolume,       \* DataKey::SenderVolume(address)
  bySender, byRecipient, byDriver, \* secondary indexes: how often id occurs
  paid,               \* history: what has left for each delivery
  bal,                \* the token contracts: bal[token][address]
  now                 \* ledger timestamp

adminVars  == <<admin, pendingAdmin, nominator, paused>>
configVars == <<protocolToken, feeBps, slippageBps, settlementContract,
                fleetContract, disputeContract, volumeTiers>>
indexVars  == <<bySender, byRecipient, byDriver>>
fundVars   == <<totalLocked, paid, bal>>
vars == <<adminVars, configVars, indexVars, fundVars, escrow, senderVolume, now>>

Statuses == {"Locked", "Holdback", "Paused", "Released", "Refunded", "Split"}

EscrowRecord ==
  [sender : Addresses, recipient : Addresses, driver : Addresses,
   token : Tokens, amount : Nat, status : Statuses,
   expires_at : Nat \cup {None}, disputed_by : Addresses \cup {None},
   disputed_at : Nat \cup {None}, fleet_id : FleetIds \cup {None}]

ASSUME RecordAssumption == None \notin EscrowRecord

Payout == [sender : Nat, driver : Nat, fee : Nat]

NothingPaid == [sender |-> 0, driver |-> 0, fee |-> 0]

-----------------------------------------------------------------------------
(* Arithmetic.                                                             *)

Smaller(m, n) == IF m <= n THEN m ELSE n

SaturatingMul(m, n) == Smaller(m * n, MaxI128)

SaturatingAdd(m, n) == Smaller(m + n, MaxI128)

(* i128::MIN is -MaxI128 - 1.                                              *)
SaturatingSub(m, n) == IF m - n < -MaxI128 - 1 THEN -MaxI128 - 1 ELSE m - n

CalculateFee(amount, bps) == SaturatingMul(amount, bps) \div BASIS_POINTS

BugDriverAmount(amount, fee) == amount         \* mutant: fee charged on top
DriverAmount(amount, fee) == amount - fee

SenderShare(amount, bps) == SaturatingMul(amount, bps) \div BASIS_POINTS

(* The scan runs from the last tier to the first and takes the first hit.  *)
EffectiveFeeBps(sender) ==
  LET hits == {i \in DOMAIN volumeTiers :
                 senderVolume[sender] >= volumeTiers[i].volume_threshold}
      last == CHOOSE i \in hits : \A j \in hits : j <= i
  IN  IF hits = {} THEN feeBps
      ELSE IF volumeTiers[last].discount_bps >= feeBps THEN 0
           ELSE feeBps - volumeTiers[last].discount_bps

-----------------------------------------------------------------------------
(* The token contracts: a transfer moves a non-negative amount that the    *)
(* payer owns, or the transaction fails.                                   *)

CanTransfer(b, t, from, n) == n \in 0..b[t][from]

(* The debit comes before the credit, so that paying oneself changes       *)
(* nothing.                                                                *)
Transfer(b, t, from, to, n) ==
  [[b EXCEPT ![t][from] = @ - n] EXCEPT ![t][to] = @ + n]

-----------------------------------------------------------------------------
Init ==
  /\ admin = None /\ pendingAdmin = None /\ nominator = None
  /\ paused = FALSE
  /\ protocolToken = None /\ feeBps = 0 /\ slippageBps = 0
  /\ settlementContract = None /\ fleetContract = None
  /\ disputeContract = None
  /\ volumeTiers = <<>>
  /\ escrow = [id \in Ids |-> None]
  /\ totalLocked = [t \in Tokens |-> 0]
  /\ senderVolume = [a \in Addresses |-> 0]
  /\ bySender = [a \in Addresses |-> [id \in Ids |-> 0]]
  /\ byRecipient = [a \in Addresses |-> [id \in Ids |-> 0]]
  /\ byDriver = [a \in Addresses |-> [id \in Ids |-> 0]]
  /\ paid = [id \in Ids |-> NothingPaid]
  /\ bal = [t \in Tokens |->
             [a \in Addresses |-> IF a \in Senders THEN InitialBalance ELSE 0]]
  /\ now = 0

-----------------------------------------------------------------------------
(* Initialization, administration and configuration.  An administrator's   *)
(* entry point succeeds for one caller only, the stored admin, so that     *)
(* require_auth and require_admin leave the guard admin # None.            *)

BugValidFee(bps) == bps <= 10 * MAX_PLATFORM_FEE_BPS   \* mutant: cap of 100%
ValidFee(bps) == bps <= MAX_PLATFORM_FEE_BPS

InitContract(a, t, fee) ==
  /\ admin = None
  /\ ValidFee(fee)
  /\ admin' = a
  /\ protocolToken' = t /\ feeBps' = fee /\ slippageBps' = 500
  /\ UNCHANGED <<pendingAdmin, nominator, paused, settlementContract,
                 fleetContract, disputeContract, volumeTiers,
                 indexVars, fundVars, escrow, senderVolume, now>>

UpdatePlatformFee(fee) ==
  /\ admin # None
  /\ ValidFee(fee)
  /\ feeBps' = fee
  /\ UNCHANGED <<adminVars, protocolToken, slippageBps, settlementContract,
                 fleetContract, disputeContract, volumeTiers,
                 indexVars, fundVars, escrow, senderVolume, now>>

UpdateSlippageTolerance(bps) ==
  /\ admin # None
  /\ bps <= BASIS_POINTS
  /\ slippageBps' = bps
  /\ UNCHANGED <<adminVars, protocolToken, feeBps, settlementContract,
                 fleetContract, disputeContract, volumeTiers,
                 indexVars, fundVars, escrow, senderVolume, now>>

SetSettlementContract(a) ==
  /\ admin # None
  /\ settlementContract' = a
  /\ UNCHANGED <<adminVars, protocolToken, feeBps, slippageBps, fleetContract,
                 disputeContract, volumeTiers,
                 indexVars, fundVars, escrow, senderVolume, now>>

SetFleetManagementContract(a) ==
  /\ admin # None
  /\ fleetContract' = a
  /\ UNCHANGED <<adminVars, protocolToken, feeBps, slippageBps,
                 settlementContract, disputeContract, volumeTiers,
                 indexVars, fundVars, escrow, senderVolume, now>>

SetDisputeResolutionContract(a) ==
  /\ admin # None
  /\ disputeContract' = a
  /\ UNCHANGED <<adminVars, protocolToken, feeBps, slippageBps,
                 settlementContract, fleetContract, volumeTiers,
                 indexVars, fundVars, escrow, senderVolume, now>>

SetVolumeTiers(tiers) ==
  /\ admin # None
  /\ volumeTiers' = tiers
  /\ UNCHANGED <<adminVars, protocolToken, feeBps, slippageBps,
                 settlementContract, fleetContract, disputeContract,
                 indexVars, fundVars, escrow, senderVolume, now>>

SetPaused(flag) ==
  /\ admin # None
  /\ paused' = flag
  /\ UNCHANGED <<admin, pendingAdmin, nominator, configVars,
                 indexVars, fundVars, escrow, senderVolume, now>>

ProposeAdmin(a) ==
  /\ admin # None
  /\ pendingAdmin' = a
  /\ nominator' = admin
  /\ UNCHANGED <<admin, paused, configVars,
                 indexVars, fundVars, escrow, senderVolume, now>>

BugNominated(a) == pendingAdmin # None   \* mutant: any nomination will do
Nominated(a) == pendingAdmin # None /\ pendingAdmin = a

AcceptAdmin(a) ==
  /\ Nominated(a)
  /\ admin' = a
  /\ pendingAdmin' = None /\ nominator' = None
  /\ UNCHANGED <<paused, configVars,
                 indexVars, fundVars, escrow, senderVolume, now>>

-----------------------------------------------------------------------------
(* Creation.                                                               *)

Occurs(p) == IF p THEN 1 ELSE 0

NewRecord(s, r, d, t, n, expiry, fleet) ==
  [sender |-> s, recipient |-> r, driver |-> d, token |-> t, amount |-> n,
   status |-> "Locked", expires_at |-> expiry, disputed_by |-> None,
   disputed_at |-> None, fleet_id |-> fleet]

BugTrack(t, n) == UNCHANGED totalLocked   \* mutant: as create_escrows_batch does
Track(t, n) == totalLocked' = [totalLocked EXCEPT ![t] = SaturatingAdd(@, n)]

CreateEscrow(s, r, d, id, t, n, fleet) ==
  /\ n > 0
  /\ escrow[id] = None
  /\ protocolToken # None
  /\ t = protocolToken
  /\ CanTransfer(bal, t, s, n)
  /\ bal' = Transfer(bal, t, s, EscrowAddr, n)
  /\ escrow' = [escrow EXCEPT ![id] =
                  NewRecord(s, r, d, t, n, now + EscrowExpiry, fleet)]
  /\ bySender' = [bySender EXCEPT ![s][id] = @ + 1]
  /\ byRecipient' = [byRecipient EXCEPT ![r][id] = @ + 1]
  /\ byDriver' = [byDriver EXCEPT ![d][id] = @ + 1]
  /\ Track(t, n)
  /\ UNCHANGED <<adminVars, configVars, paid, senderVolume, now>>

(* The loop of create_escrows_batch: an item is refused when its id has a  *)
(* record already, an earlier item's included, so the ids are distinct and *)
(* fresh.  The transfers of the loop come from one account, so they all    *)
(* succeed exactly when their sum is covered.                              *)
Items(batch) == {batch[k] : k \in DOMAIN batch}

ItemFor(batch, id) == CHOOSE item \in Items(batch) : item.id = id

BatchIds(batch) == {item.id : item \in Items(batch)}

BatchTotal(batch) == SumFunction([k \in DOMAIN batch |-> batch[k].amount])

IndexBatch(index, a, ids) ==
  [index EXCEPT ![a] = [id \in Ids |-> @[id] + Occurs(id \in ids)]]

(* Mutant: each item starts from the stored index, so the last one wins.   *)
BugIndexDriversOfBatch(batch) ==
  LET last(a) == {k \in DOMAIN batch :
                    /\ batch[k].driver = a
                    /\ \A j \in DOMAIN batch : batch[j].driver = a => j <= k}
  IN  [a \in Addresses |-> [id \in Ids |->
         byDriver[a][id] + Occurs(\E k \in last(a) : batch[k].id = id)]]

IndexDriversOfBatch(batch) ==
  [a \in Addresses |-> [id \in Ids |->
     byDriver[a][id] +
       Occurs(id \in BatchIds(batch) /\ ItemFor(batch, id).driver = a)]]

CreateEscrowsBatch(s, r, t, batch) ==
  /\ Len(batch) <= MAX_BATCH_SIZE
  /\ \A id \in BatchIds(batch) : escrow[id] = None
  /\ \A j, k \in DOMAIN batch : batch[j].id = batch[k].id => j = k
  /\ \A item \in Items(batch) : item.amount >= 0
  /\ CanTransfer(bal, t, s, BatchTotal(batch))
  /\ bal' = Transfer(bal, t, s, EscrowAddr, BatchTotal(batch))
  /\ escrow' = [id \in Ids |->
                  IF id \in BatchIds(batch)
                  THEN NewRecord(s, r, ItemFor(batch, id).driver, t,
                                 ItemFor(batch, id).amount, None, None)
                  ELSE escrow[id]]
  /\ bySender' = IndexBatch(bySender, s, BatchIds(batch))
  /\ byRecipient' = IndexBatch(byRecipient, r, BatchIds(batch))
  /\ byDriver' = IndexDriversOfBatch(batch)
  /\ UNCHANGED <<adminVars, configVars, totalLocked, paid, senderVolume, now>>

-----------------------------------------------------------------------------
(* The ways money leaves.                                                  *)

Live == {"Locked", "Holdback", "Paused"}

Held == {id \in Ids : escrow[id] # None /\ escrow[id].status \in Live}

ReleasableFrom == {"Locked"}
HoldbackReleasableFrom == {"Holdback"}
BugRefundableFrom == Live \cup {"Split"}       \* mutant: one status too many
RefundableFrom == {"Locked", "Paused", "Holdback"}

InStatus(id, S) == escrow[id] # None /\ escrow[id].status \in S

IsAdmin(caller) == admin # None /\ caller = admin

(* The balance guard that most paths place before their transfers.         *)
FundsPresent(id) == bal[escrow[id].token][EscrowAddr] >= escrow[id].amount

(* Mutant: only what the driver received is taken off the total.           *)
BugUntrack(id) ==
  totalLocked' = [totalLocked EXCEPT ![escrow[id].token] =
    SaturatingSub(@, DriverAmount(escrow[id].amount,
                                  CalculateFee(escrow[id].amount, feeBps)))]

Untrack(id) ==
  totalLocked' = [totalLocked EXCEPT ![escrow[id].token] =
                    SaturatingSub(@, escrow[id].amount)]

(* Closes the record of a delivery and notes who was paid.                 *)
Close(id, status, toSender, toDriver, fee) ==
  /\ escrow' = [escrow EXCEPT ![id].status = status]
  /\ paid' = [paid EXCEPT ![id] = [sender |-> @.sender + toSender,
                                   driver |-> @.driver + toDriver,
                                   fee    |-> @.fee + fee]]
  /\ Untrack(id)

(* The fleet contract answers with a treasury or with the driver; the      *)
(* settlement contract knows no preferred asset, so payment is direct.     *)
PayoutAddresses(r) ==
  IF fleetContract # None /\ r.fleet_id # None
  THEN {r.driver} \cup Treasuries
  ELSE {r.driver}

(* The driver is paid first, then the admin.                               *)
SettleEscrowFunds(id) ==
  LET r == escrow[id]
      fee == CalculateFee(r.amount, feeBps)
      net == DriverAmount(r.amount, fee)
  IN  \E payee \in PayoutAddresses(r) :
        LET afterDriver == Transfer(bal, r.token, EscrowAddr, payee, net)
        IN  /\ CanTransfer(bal, r.token, EscrowAddr, net)
            /\ CanTransfer(afterDriver, r.token, EscrowAddr, fee)
            /\ bal' = Transfer(afterDriver, r.token, EscrowAddr, admin, fee)
            /\ Close(id, "Released", 0, net, fee)

BugCountCompletion(s) == UNCHANGED senderVolume   \* mutant: not counted
CountCompletion(s) ==
  senderVolume' = [senderVolume EXCEPT ![s] = Smaller(@ + 1, MaxU32)]

RefundSender(id) ==
  LET r == escrow[id]
  IN  /\ CanTransfer(bal, r.token, EscrowAddr, r.amount)
      /\ bal' = Transfer(bal, r.token, EscrowAddr, r.sender, r.amount)
      /\ Close(id, "Refunded", r.amount, 0, 0)

MarkHoldbackEscrow(caller, id) ==
  /\ InStatus(id, {"Locked"})
  /\ caller = escrow[id].recipient
  /\ escrow' = [escrow EXCEPT ![id].status = "Holdback"]
  /\ UNCHANGED <<adminVars, configVars, indexVars, fundVars, senderVolume, now>>

ReleaseEscrow(caller, id) ==
  /\ ~paused
  /\ InStatus(id, ReleasableFrom)
  /\ admin # None
  /\ IsAdmin(caller) \/ caller = escrow[id].recipient
  /\ FundsPresent(id)
  /\ CountCompletion(escrow[id].sender)
  /\ SettleEscrowFunds(id)
  /\ UNCHANGED <<adminVars, configVars, indexVars, now>>

ReleaseHoldbackEscrow(caller, id) ==
  /\ InStatus(id, HoldbackReleasableFrom)
  /\ admin # None
  /\ IsAdmin(caller) \/ caller = escrow[id].recipient
  /\ FundsPresent(id)
  /\ CountCompletion(escrow[id].sender)
  /\ SettleEscrowFunds(id)
  /\ UNCHANGED <<adminVars, configVars, indexVars, now>>

RefundEscrow(caller, id) ==
  /\ ~paused
  /\ InStatus(id, RefundableFrom)
  /\ admin # None
  /\ IsAdmin(caller) \/ caller = escrow[id].sender
  /\ FundsPresent(id)
  /\ RefundSender(id)
  /\ UNCHANGED <<adminVars, configVars, indexVars, senderVolume, now>>

(* Anyone may call this one; a batch record has no deadline.               *)
BugExpired(r) == r.expires_at # None /\ now < r.expires_at  \* mutant: reversed
Expired(r) == r.expires_at # None /\ now > r.expires_at

ReclaimExpiredEscrow(id) ==
  /\ InStatus(id, {"Locked"})
  /\ Expired(escrow[id])
  /\ FundsPresent(id)
  /\ RefundSender(id)
  /\ UNCHANGED <<adminVars, configVars, indexVars, senderVolume, now>>

-----------------------------------------------------------------------------
(* Disputes.                                                               *)

RaiseDispute(caller, id) ==
  /\ InStatus(id, {"Locked"})
  /\ caller \in {escrow[id].sender, escrow[id].recipient, escrow[id].driver}
  /\ escrow' = [escrow EXCEPT ![id] =
                  [@ EXCEPT !.status = "Paused", !.disputed_by = caller,
                            !.disputed_at = now]]
  /\ UNCHANGED <<adminVars, configVars, indexVars, fundVars, senderVolume, now>>

BugFrozen(r) == [r EXCEPT !.status = "Paused"]   \* mutant: no timestamp
Frozen(r) == [r EXCEPT !.status = "Paused", !.disputed_at = now]

(* For the dispute contract only; on any other status it changes nothing.  *)
FreezeFunds(id) ==
  /\ disputeContract # None
  /\ InStatus(id, {"Locked", "Holdback"})
  /\ escrow' = [escrow EXCEPT ![id] = Frozen(@)]
  /\ UNCHANGED <<adminVars, configVars, indexVars, fundVars, senderVolume, now>>

BugResolveDisputeRelease(id) ==   \* mutant: the pause not looked at
  /\ admin # None
  /\ InStatus(id, {"Paused"})
  /\ CountCompletion(escrow[id].sender)
  /\ SettleEscrowFunds(id)
  /\ UNCHANGED <<adminVars, configVars, indexVars, now>>

ResolveDisputeRelease(id) ==
  /\ admin # None
  /\ ~paused
  /\ InStatus(id, {"Paused"})
  /\ CountCompletion(escrow[id].sender)
  /\ SettleEscrowFunds(id)
  /\ UNCHANGED <<adminVars, configVars, indexVars, now>>

ResolveDisputeRefund(id) ==
  /\ admin # None
  /\ ~paused
  /\ InStatus(id, {"Paused"})
  /\ FundsPresent(id)
  /\ RefundSender(id)
  /\ UNCHANGED <<adminVars, configVars, indexVars, senderVolume, now>>

(* Mutant: both shares are rounded down.                                   *)
BugSplitRemainder(amount, bps) == SaturatingMul(amount, BASIS_POINTS - bps) \div BASIS_POINTS

(* What is left for the driver of a split.                                 *)
SplitRemainder(amount, bps) == amount - SenderShare(amount, bps)

ResolveDisputeSplit(id, bps) ==
  LET r == escrow[id]
      toSender == SenderShare(r.amount, bps)
      toDriver == SplitRemainder(r.amount, bps)
      afterSender == Transfer(bal, r.token, EscrowAddr, r.sender, toSender)
  IN  /\ admin # None
      /\ ~paused
      /\ bps <= BASIS_POINTS
      /\ InStatus(id, {"Paused"})
      /\ FundsPresent(id)
      /\ CanTransfer(bal, r.token, EscrowAddr, toSender)
      /\ CanTransfer(afterSender, r.token, EscrowAddr, toDriver)
      /\ bal' = Transfer(afterSender, r.token, EscrowAddr, r.driver, toDriver)
      /\ Close(id, "Split", toSender, toDriver, 0)
      /\ UNCHANGED <<adminVars, configVars, indexVars, senderVolume, now>>

-----------------------------------------------------------------------------
(* Recovery of tokens that belong to no escrow, and the environment.       *)

BugUntracked(t) == bal[t][EscrowAddr]   \* mutant: locked funds swept too
Untracked(t) == bal[t][EscrowAddr] - totalLocked[t]

SweepUntrackedBalance(t, to) ==
  /\ admin # None
  /\ bal[t][EscrowAddr] > totalLocked[t]
  /\ CanTransfer(bal, t, EscrowAddr, Untracked(t))
  /\ bal' = Transfer(bal, t, EscrowAddr, to, Untracked(t))
  /\ UNCHANGED <<adminVars, configVars, indexVars, totalLocked, paid, escrow,
                 senderVolume, now>>

(* Somebody sends tokens straight to the contract.                         *)
MistakenTransfer(from, t, n) ==
  /\ CanTransfer(bal, t, from, n)
  /\ bal' = Transfer(bal, t, from, EscrowAddr, n)
  /\ UNCHANGED <<adminVars, configVars, indexVars, totalLocked, paid, escrow,
                 senderVolume, now>>

Tick ==
  /\ now < MaxTime
  /\ now' = now + 1
  /\ UNCHANGED <<adminVars, configVars, indexVars, fundVars, escrow,
                 senderVolume>>

-----------------------------------------------------------------------------
Callers == Senders \cup Recipients \cup Drivers \cup Founders \cup Nominees

BatchItems == [id : Ids, driver : Drivers, amount : AmountOffers]

Batches == UNION {[1..n -> BatchItems] : n \in 1..MaxBatchLen}

Administer ==
  \/ \E a \in Founders, t \in Tokens, fee \in FeeOffers :
       InitContract(a, t, fee)
  \/ \E fee \in FeeOffers : UpdatePlatformFee(fee)
  \/ \E bps \in SlippageOffers : UpdateSlippageTolerance(bps)
  \/ \E a \in SettlementAddrs : SetSettlementContract(a)
  \/ \E a \in FleetAddrs : SetFleetManagementContract(a)
  \/ \E a \in DisputeAddrs : SetDisputeResolutionContract(a)
  \/ \E tiers \in TierTables : SetVolumeTiers(tiers)
  \/ \E flag \in BOOLEAN : SetPaused(flag)
  \/ \E a \in Nominees : ProposeAdmin(a) \/ AcceptAdmin(a)
  \/ \E t \in Tokens, to \in Treasuries :
       SweepUntrackedBalance(t, to)

Create ==
  \/ \E s \in Senders, r \in Recipients, d \in Drivers, id \in Ids,
        t \in Tokens, n \in AmountOffers, fleet \in FleetIds :
       CreateEscrow(s, r, d, id, t, n, fleet)
  \/ \E s \in Senders, r \in Recipients, t \in Tokens, batch \in Batches :
       CreateEscrowsBatch(s, r, t, batch)

Progress(id) ==
  \/ \E caller \in Callers :
       \/ MarkHoldbackEscrow(caller, id)
       \/ ReleaseEscrow(caller, id)
       \/ ReleaseHoldbackEscrow(caller, id)
       \/ RefundEscrow(caller, id)
       \/ RaiseDispute(caller, id)
  \/ ReclaimExpiredEscrow(id)
  \/ FreezeFunds(id)
  \/ ResolveDisputeRelease(id)
  \/ ResolveDisputeRefund(id)
  \/ \E bps \in ShareOffers : ResolveDisputeSplit(id, bps)

Environment ==
  \/ \E from \in Senders, t \in Tokens, n \in Surpluses :
       MistakenTransfer(from, t, n)
  \/ Tick

Next ==
  \/ Administer
  \/ Create
  \/ \E id \in Ids : Progress(id)
  \/ Environment

Spec == Init /\ [][Next]_vars

(* reclaim_expired_escrow asks for no authorization and is not gated by    *)
(* the pause, so a sender who wants the money back keeps calling it, and   *)
(* the ledger clock advances.                                              *)
FairSpec ==
  /\ Spec
  /\ WF_vars(Tick)
  /\ \A id \in Ids : WF_vars(ReclaimExpiredEscrow(id))

-----------------------------------------------------------------------------
(* Properties.                                                             *)

(* Every stored value has the type its Rust declaration gives it, and the  *)
(* fee never passes the cap that init and update_platform_fee enforce.     *)
TypeOK ==
  /\ admin \in Addresses \cup {None}
  /\ pendingAdmin \in Addresses \cup {None}
  /\ nominator \in Addresses \cup {None}
  /\ paused \in BOOLEAN
  /\ protocolToken \in Tokens \cup {None}
  /\ feeBps \in 0..MAX_PLATFORM_FEE_BPS
  /\ slippageBps \in 0..BASIS_POINTS
  /\ settlementContract \in Addresses \cup {None}
  /\ fleetContract \in Addresses \cup {None}
  /\ disputeContract \in Addresses \cup {None}
  /\ volumeTiers \in TierTables \cup {<<>>}
  /\ escrow \in [Ids -> EscrowRecord \cup {None}]
  /\ totalLocked \in [Tokens -> Int]
  /\ senderVolume \in [Addresses -> Nat]
  /\ bySender \in [Addresses -> [Ids -> Nat]]
  /\ byRecipient \in [Addresses -> [Ids -> Nat]]
  /\ byDriver \in [Addresses -> [Ids -> Nat]]
  /\ paid \in [Ids -> Payout]
  /\ bal \in [Tokens -> [Addresses -> Nat]]
  /\ now \in Nat

(* TotalLocked, kept by hand in seven entry points, is at every moment the *)
(* sum of the escrows that still hold money of that token: nothing is      *)
(* counted twice, forgotten, or left behind by a settled escrow.  It is    *)
(* what sweep_untracked_balance trusts.                                    *)
LiveAmount(t) ==
  SumFunction([id \in Ids |->
    IF id \in Held /\ escrow[id].token = t THEN escrow[id].amount ELSE 0])

TotalLockedExact == \A t \in Tokens : totalLocked[t] = LiveAmount(t)

(* A batch takes deposits without counting them, and settling one of them  *)
(* takes it off all the same: at every moment TotalLocked falls short of   *)
(* the live escrows by all that was ever deposited in batches, whether it  *)
(* is still there or not, and by nothing else.  Only a record of a batch   *)
(* has no deadline.                                                        *)
BatchAmount(t) ==
  SumFunction([id \in Ids |->
    IF /\ escrow[id] # None
       /\ escrow[id].expires_at = None
       /\ escrow[id].token = t
    THEN escrow[id].amount ELSE 0])

TotalLockedDrift ==
  \A t \in Tokens : totalLocked[t] + BatchAmount(t) = LiveAmount(t)

(* What was swept, settled or sent by mistake before never takes the money *)
(* of a live escrow: the contract can pay all of them at the same time,    *)
(* short at most of what was ever deposited in batches.  Where a token was *)
(* never deposited in one, no balance guard refuses a release, a refund,   *)
(* a reclaim or a resolution.                                              *)
LiveBacked ==
  \A t \in Tokens : bal[t][EscrowAddr] + BatchAmount(t) >= LiveAmount(t)

(* The contract owns at least what it has recorded as locked, whatever     *)
(* was swept, refunded, split or paid before, and whoever was paid.        *)
Covered == \A t \in Tokens : bal[t][EscrowAddr] >= totalLocked[t]

(* How an escrow stands decides what has left for it: nothing while it is  *)
(* live, the deposit to the unit when it is closed, the whole of it to the *)
(* sender of a refund and none of it to the sender of a release, and no    *)
(* fee on a split.                                                         *)
PayoutMatchesStatus ==
  \A id \in Ids :
    LET r == escrow[id]
        p == paid[id]
    IN  IF id \notin Held /\ r # None
        THEN /\ p.sender + p.driver + p.fee = r.amount
             /\ r.status = "Refunded" => p.sender = r.amount
             /\ r.status = "Released" => p.sender = 0
             /\ r.status = "Split" => p.fee = 0
        ELSE p = NothingPaid

(* Records are never dropped or reused, the terms of an escrow never       *)
(* change, a closed escrow is never touched again, and a live one moves    *)
(* only forward: no way back to Locked, none from Paused to Holdback.      *)
SameTerms(r, q) ==
  /\ q.sender = r.sender /\ q.recipient = r.recipient /\ q.driver = r.driver
  /\ q.token = r.token /\ q.amount = r.amount
  /\ q.expires_at = r.expires_at /\ q.fleet_id = r.fleet_id

Forward(from, to) ==
  \/ to = from
  \/ from = "Locked"
  \/ from = "Holdback" /\ to \in {"Paused", "Released", "Refunded"}
  \/ from = "Paused" /\ to \in {"Released", "Refunded", "Split"}

Advances(r, q) ==
  /\ q # None
  /\ SameTerms(r, q)
  /\ Forward(r.status, q.status)
  /\ r.status \notin Live => q = r

Lifecycle ==
  [][\A id \in Ids : escrow[id] # None => Advances(escrow[id], escrow'[id])]_vars

(* A sender's volume is the number of that sender's escrows that were      *)
(* released, by whichever of the three paths, as far as a u32 counts;      *)
(* refunds, splits and reclaims do not count, and no release twice.        *)
ReleasedFor(a) ==
  SumFunction([id \in Ids |->
    Occurs(InStatus(id, {"Released"}) /\ escrow[id].sender = a)])

VolumeCountsReleases ==
  \A a \in Addresses : senderVolume[a] = Smaller(ReleasedFor(a), MaxU32)

(* An escrow carries the time of a dispute exactly when one was opened:    *)
(* every frozen escrow has it, by raise_dispute or by freeze_funds, no     *)
(* undisputed one does, a split comes only out of a dispute, and a named   *)
(* disputer is a party to the delivery.                                    *)
DisputeStamped ==
  \A id \in Ids :
    LET r == escrow[id]
    IN  r # None =>
          /\ r.status \in {"Paused", "Split"} => r.disputed_at # None
          /\ r.status \in {"Locked", "Holdback"} => r.disputed_at = None
          /\ r.disputed_by # None =>
               /\ r.disputed_at # None
               /\ r.disputed_by \in {r.sender, r.recipient, r.driver}

(* The three secondary indexes list exactly the escrows of that party, and *)
(* each of them once, through single creation and batches alike.           *)
IndexExact ==
  \A a \in Addresses, id \in Ids :
    LET r == escrow[id]
    IN  /\ bySender[a][id] = Occurs(r # None /\ r.sender = a)
        /\ byRecipient[a][id] = Occurs(r # None /\ r.recipient = a)
        /\ byDriver[a][id] = Occurs(r # None /\ r.driver = a)

(* The admin changes only into an address that the admin in office named:  *)
(* a nomination does not outlive the admin who made it.                    *)
AdminHandover ==
  [][admin # None /\ admin' # admin =>
       admin' = pendingAdmin /\ nominator = admin]_vars

(* No pause, fee change, sweep or foreign escrow keeps a Locked escrow     *)
(* from leaving that status after its deadline.                            *)
ExpiredLeavesLocked ==
  \A id \in Ids :
    InStatus(id, {"Locked"}) /\ escrow[id].expires_at # None
        /\ escrow[id].expires_at < MaxTime
      ~> ~InStatus(id, {"Locked"})

(* The parties of a delivery see the abstract custody of module Custody.   *)
CustodyStatus(id) ==
  IF escrow[id] = None THEN "empty"
  ELSE IF escrow[id].status \in Live THEN "held" ELSE "settled"

Promise == INSTANCE Custody WITH
  Ids <- Ids,
  MaxFeeBps <- MAX_PLATFORM_FEE_BPS,
  BasisPoints <- BASIS_POINTS,
  slot <- [id \in Ids |-> CustodyStatus(id)],
  deposit <- [id \in Ids |-> IF escrow[id] = None THEN 0 ELSE escrow[id].amount],
  payout <- paid

CustodyKept == Promise!Spec

(* What the pause does halt: while it is on, money leaves an escrow by the *)
(* release of its holdback or the reclaim after its deadline only.  A      *)
(* disputed escrow keeps its money until the pause is lifted.              *)
PausedPayouts ==
  [][paused => \A id \in Ids : paid'[id] # paid[id] =>
       \/ escrow[id].status = "Holdback" /\ escrow'[id].status = "Released"
       \/ /\ escrow[id].status = "Locked" /\ Expired(escrow[id])
          /\ escrow'[id].status = "Refunded"]_vars

-----------------------------------------------------------------------------
(* What the repository says and this code does not do.                     *)

(* No escrow is paid out or refunded while the protocol is paused.         *)
PauseHaltsPayouts == [][paused => paid' = paid]_vars

(* A release charges the fee of the sender's volume tier.                  *)
TierFeeCharged ==
  [][\A id \in Held : escrow'[id].status = "Released" =>
         paid'[id].fee = CalculateFee(escrow[id].amount,
                                      EffectiveFeeBps(escrow[id].sender))]_vars

=============================================================================
