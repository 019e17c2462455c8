---------------------------- MODULE EscrowProofs ----------------------------
(***************************************************************************)
(* Theorems about module Escrow, for every value of its constants.         *)
(***************************************************************************)
EXTENDS Escrow, TLAPS

-----------------------------------------------------------------------------
(* Arithmetic.                                                             *)

(* A share of at most all basis points of an amount is a natural number no *)
(* greater than the amount, saturated or not.                              *)
LEMMA ShareBounds ==
  ASSUME NEW a \in Nat, NEW b \in 0..BASIS_POINTS
  PROVE  CalculateFee(a, b) \in 0..a
<1> DEFINE p == a * b
           m == SaturatingMul(a, b)
           q == m \div 10000
<1>1. p \in Nat /\ p <= a * 10000
  BY SMT DEF BASIS_POINTS
<1>2. m \in Nat /\ m <= p
  BY <1>1, NumberAssumption, SMT DEF SaturatingMul, Smaller, BASIS_POINTS
<1>3. q = CalculateFee(a, b)
  BY DEF CalculateFee, BASIS_POINTS
<1> HIDE DEF m, p
<1>4. q \in 0..a
  BY <1>1, <1>2, SMT
<1>5. QED
  BY <1>3, <1>4

(* The fee respects the cap, stated without division.                      *)
LEMMA FeeCap ==
  ASSUME NEW a \in Nat, NEW b \in 0..MAX_PLATFORM_FEE_BPS
  PROVE  CalculateFee(a, b) * BASIS_POINTS <= a * MAX_PLATFORM_FEE_BPS
<1> DEFINE p == a * b
           m == SaturatingMul(a, b)
           q == m \div 10000
<1>1. p \in Nat /\ p <= a * 1000
  BY SMT DEF MAX_PLATFORM_FEE_BPS
<1>2. m \in Nat /\ m <= p
  BY <1>1, NumberAssumption, SMT DEF SaturatingMul, Smaller, MAX_PLATFORM_FEE_BPS
<1>3. q = CalculateFee(a, b)
  BY DEF CalculateFee, BASIS_POINTS
<1> HIDE DEF m, p
<1>4. q * 10000 <= a * 1000
  BY <1>1, <1>2, SMT
<1>5. QED
  BY <1>3, <1>4 DEF MAX_PLATFORM_FEE_BPS, BASIS_POINTS

(* The fee and the driver's part are natural numbers that add up to the    *)
(* amount.                                                                 *)
LEMMA FeeBounds ==
  ASSUME NEW a \in Nat, NEW b \in 0..MAX_PLATFORM_FEE_BPS
  PROVE  /\ CalculateFee(a, b) \in 0..a
         /\ DriverAmount(a, CalculateFee(a, b)) \in 0..a
         /\ CalculateFee(a, b) + DriverAmount(a, CalculateFee(a, b)) = a
<1>1. b \in 0..BASIS_POINTS
  BY DEF MAX_PLATFORM_FEE_BPS, BASIS_POINTS
<1>2. CalculateFee(a, b) \in 0..a
  BY <1>1, ShareBounds
<1>3. QED
  BY <1>2 DEF DriverAmount

(* The two shares of a split are natural numbers that add up to the amount.*)
LEMMA SplitBounds ==
  ASSUME NEW a \in Nat, NEW b \in 0..BASIS_POINTS
  PROVE  /\ SenderShare(a, b) \in 0..a
         /\ SplitRemainder(a, b) \in 0..a
         /\ SenderShare(a, b) + SplitRemainder(a, b) = a
<1>1. SenderShare(a, b) = CalculateFee(a, b)
  BY DEF SenderShare, CalculateFee
<1>2. SenderShare(a, b) \in 0..a
  BY <1>1, ShareBounds
<1>3. QED
  BY <1>2 DEF SplitRemainder
-----------------------------------------------------------------------------
(* Transfers and closing a record.                                         *)

Ledger == [Tokens -> [Addresses -> Nat]]

(* A covered transfer keeps balances natural; only the payer loses, the    *)
(* amount at most.                                                         *)
LEMMA TransferEffect ==
  ASSUME NEW b \in Ledger, NEW t \in Tokens, NEW from \in Addresses,
         NEW to \in Addresses, NEW n, CanTransfer(b, t, from, n)
  PROVE  /\ n \in Nat
         /\ Transfer(b, t, from, to, n) \in Ledger
         /\ \A u \in Tokens \ {t} : Transfer(b, t, from, to, n)[u] = b[u]
         /\ \A a \in Addresses \ {from} :
              Transfer(b, t, from, to, n)[t][a] >= b[t][a]
         /\ Transfer(b, t, from, to, n)[t][from] >= b[t][from] - n
         /\ from # to =>
              Transfer(b, t, from, to, n)[t][to] = b[t][to] + n
<1>1. n \in Nat /\ n <= b[t][from]
  <2>1. b[t] \in [Addresses -> Nat]
    BY DEF Ledger
  <2>2. b[t][from] \in Nat
    BY <2>1
  <2>3. QED
    BY <2>2 DEF CanTransfer
<1> DEFINE c == [b EXCEPT ![t][from] = @ - n]
           d == [c EXCEPT ![t][to] = @ + n]
<1>2. /\ c \in Ledger
      /\ c[t][from] = b[t][from] - n
      /\ \A a \in Addresses \ {from} : c[t][a] = b[t][a]
      /\ \A u \in Tokens \ {t} : c[u] = b[u]
  BY <1>1 DEF Ledger
<1> HIDE DEF c
<1>3. /\ d \in Ledger
      /\ d[t][to] = c[t][to] + n
      /\ \A a \in Addresses \ {to} : d[t][a] = c[t][a]
      /\ \A u \in Tokens \ {t} : d[u] = c[u]
  BY <1>1, <1>2 DEF Ledger
<1> HIDE DEF d
<1>4. Transfer(b, t, from, to, n) = d
  BY DEF Transfer, c, d
<1>5. /\ \A a \in Addresses \ {from} : d[t][a] >= b[t][a]
      /\ d[t][from] >= b[t][from] - n
      /\ from # to => d[t][to] = b[t][to] + n
  BY <1>1, <1>2, <1>3 DEF Ledger
<1>6. \A u \in Tokens \ {t} : d[u] = b[u]
  BY <1>2, <1>3
<1>7. QED
  BY <1>1, <1>3, <1>4, <1>5, <1>6

(* Saturating arithmetic stays within the integers.                         *)
LEMMA SaturationInt ==
  ASSUME NEW m \in Int, NEW n \in Int
  PROVE  SaturatingAdd(m, n) \in Int /\ SaturatingSub(m, n) \in Int
BY NumberAssumption DEF SaturatingAdd, SaturatingSub, Smaller

(* Closing a record keeps the types of the storage it writes.              *)
LEMMA CloseType ==
  ASSUME TypeOK, NEW id \in Ids, escrow[id] # None, NEW status \in Statuses,
         NEW toSender \in Nat, NEW toDriver \in Nat, NEW fee \in Nat,
         Close(id, status, toSender, toDriver, fee)
  PROVE  /\ escrow' \in [Ids -> EscrowRecord \cup {None}]
         /\ paid' \in [Ids -> Payout]
         /\ totalLocked' \in [Tokens -> Int]
<1>1. escrow[id] \in EscrowRecord /\ paid[id] \in Payout
  BY DEF TypeOK
<1>2. escrow' \in [Ids -> EscrowRecord \cup {None}]
  BY <1>1 DEF TypeOK, Close, EscrowRecord
<1>3. paid' \in [Ids -> Payout]
  <2>1. [sender |-> paid[id].sender + toSender,
         driver |-> paid[id].driver + toDriver,
         fee    |-> paid[id].fee + fee] \in Payout
    BY <1>1 DEF Payout
  <2>2. QED
    BY <2>1 DEF TypeOK, Close
<1>4. totalLocked' \in [Tokens -> Int]
  <2>1. escrow[id].token \in Tokens /\ escrow[id].amount \in Int
    BY <1>1 DEF EscrowRecord
  <2>2. totalLocked[escrow[id].token] \in Int
    BY <2>1 DEF TypeOK
  <2>3. QED
    BY <2>1, <2>2, SaturationInt DEF TypeOK, Close, Untrack
<1>5. QED
  BY <1>2, <1>3, <1>4

(* What a payment for delivery id may do to the token ledger: the contract *)
(* loses at most the amount of that escrow, in its token only.             *)
Spends(id) ==
  /\ bal' \in Ledger
  /\ \A u \in Tokens :
       bal'[u][EscrowAddr] >=
         bal[u][EscrowAddr] - (IF u = escrow[id].token THEN escrow[id].amount
                               ELSE 0)

(* A release pays natural amounts that add up to the escrow's amount,      *)
(* within the fee cap, to a real address.                                  *)
LEMMA SettleEffect ==
  ASSUME TypeOK, NEW id \in Ids, escrow[id] # None, admin # None,
         SettleEscrowFunds(id)
  PROVE  /\ Spends(id)
         /\ \E net \in Nat, fee \in Nat :
              /\ net + fee = escrow[id].amount
              /\ fee * BASIS_POINTS <= escrow[id].amount * MAX_PLATFORM_FEE_BPS
              /\ Close(id, "Released", 0, net, fee)
<1> DEFINE r == escrow[id]
           fee == CalculateFee(r.amount, feeBps)
           net == DriverAmount(r.amount, fee)
<1>1. r \in EscrowRecord
  BY DEF TypeOK
<1>2. r.token \in Tokens /\ r.amount \in Nat /\ r.driver \in Addresses
  BY <1>1 DEF EscrowRecord
<1>3. feeBps \in 0..MAX_PLATFORM_FEE_BPS /\ bal \in Ledger
      /\ admin \in Addresses /\ EscrowAddr \in Addresses
  BY AddressAssumption DEF TypeOK, Ledger
<1>4. /\ fee \in 0..r.amount /\ net \in 0..r.amount /\ fee + net = r.amount
      /\ fee * BASIS_POINTS <= r.amount * MAX_PLATFORM_FEE_BPS
  BY <1>2, <1>3, FeeBounds, FeeCap
<1>5. PICK payee \in PayoutAddresses(r) :
        LET afterDriver == Transfer(bal, r.token, EscrowAddr, payee, net)
        IN  /\ CanTransfer(bal, r.token, EscrowAddr, net)
            /\ CanTransfer(afterDriver, r.token, EscrowAddr, fee)
            /\ bal' = Transfer(afterDriver, r.token, EscrowAddr, admin, fee)
            /\ Close(id, "Released", 0, net, fee)
  BY DEF SettleEscrowFunds
<1>6. payee \in Addresses
  BY <1>2, AddressAssumption DEF PayoutAddresses
<1> DEFINE mid == Transfer(bal, r.token, EscrowAddr, payee, net)
<1>7. /\ mid \in Ledger
      /\ \A u \in Tokens \ {r.token} : mid[u] = bal[u]
      /\ mid[r.token][EscrowAddr] >= bal[r.token][EscrowAddr] - net
  BY <1>2, <1>3, <1>5, <1>6, TransferEffect
<1>8. CanTransfer(mid, r.token, EscrowAddr, fee)
      /\ bal' = Transfer(mid, r.token, EscrowAddr, admin, fee)
  BY <1>5
<1> HIDE DEF mid, fee, net
<1>9. /\ bal' \in Ledger
      /\ \A u \in Tokens \ {r.token} : bal'[u] = mid[u]
      /\ bal'[r.token][EscrowAddr] >= mid[r.token][EscrowAddr] - fee
  BY <1>2, <1>3, <1>7, <1>8, TransferEffect
<1>10. \A u \in Tokens : /\ bal[u][EscrowAddr] \in Nat
                         /\ mid[u][EscrowAddr] \in Nat
                         /\ bal'[u][EscrowAddr] \in Nat
  BY <1>3, <1>7, <1>9 DEF Ledger
<1>11. Spends(id)
  <2>1. bal'[r.token][EscrowAddr] >= bal[r.token][EscrowAddr] - r.amount
    BY <1>2, <1>4, <1>7, <1>9, <1>10
  <2>2. \A u \in Tokens \ {r.token} : bal'[u][EscrowAddr] >= bal[u][EscrowAddr]
    BY <1>7, <1>9, <1>10
  <2>3. QED
    BY <1>9, <1>10, <2>1, <2>2 DEF Spends
<1>12. /\ net \in Nat /\ fee \in Nat /\ net + fee = r.amount
       /\ Close(id, "Released", 0, net, fee)
  BY <1>2, <1>4, <1>5 DEF fee, net
<1>13. QED
  BY <1>4, <1>11, <1>12

(* A refund pays the escrow's amount to its sender.                        *)
LEMMA RefundEffect ==
  ASSUME TypeOK, NEW id \in Ids, escrow[id] # None, RefundSender(id)
  PROVE  /\ Spends(id)
         /\ escrow[id].amount \in Nat
         /\ Close(id, "Refunded", escrow[id].amount, 0, 0)
<1> DEFINE r == escrow[id]
<1>1. r.token \in Tokens /\ r.amount \in Nat /\ r.sender \in Addresses
  BY DEF TypeOK, EscrowRecord
<1>2. bal \in Ledger /\ EscrowAddr \in Addresses
  BY AddressAssumption DEF TypeOK, Ledger
<1>3. /\ CanTransfer(bal, r.token, EscrowAddr, r.amount)
      /\ bal' = Transfer(bal, r.token, EscrowAddr, r.sender, r.amount)
      /\ Close(id, "Refunded", r.amount, 0, 0)
  BY DEF RefundSender
<1>4. /\ bal' \in Ledger
      /\ \A u \in Tokens \ {r.token} : bal'[u] = bal[u]
      /\ bal'[r.token][EscrowAddr] >= bal[r.token][EscrowAddr] - r.amount
  BY <1>1, <1>2, <1>3, TransferEffect
<1>5. \A u \in Tokens : bal[u][EscrowAddr] \in Nat /\ bal'[u][EscrowAddr] \in Nat
  BY <1>2, <1>4 DEF Ledger
<1>6. Spends(id)
  BY <1>4, <1>5 DEF Spends
<1>7. QED
  BY <1>1, <1>3, <1>6

(* A split pays natural shares that add up to the escrow's amount, and no  *)
(* fee.                                                                    *)
LEMMA SplitEffect ==
  ASSUME TypeOK, NEW id \in Ids, NEW bps \in Nat, ResolveDisputeSplit(id, bps)
  PROVE  /\ Spends(id)
         /\ \E toSender \in Nat, toDriver \in Nat :
              /\ toSender + toDriver = escrow[id].amount
              /\ Close(id, "Split", toSender, toDriver, 0)
<1> DEFINE r == escrow[id]
           toSender == SenderShare(r.amount, bps)
           toDriver == SplitRemainder(r.amount, bps)
           mid == Transfer(bal, r.token, EscrowAddr, r.sender, toSender)
<1>1. /\ escrow[id] # None /\ bps <= BASIS_POINTS
      /\ CanTransfer(bal, r.token, EscrowAddr, toSender)
      /\ CanTransfer(mid, r.token, EscrowAddr, toDriver)
      /\ bal' = Transfer(mid, r.token, EscrowAddr, r.driver, toDriver)
      /\ Close(id, "Split", toSender, toDriver, 0)
  BY DEF ResolveDisputeSplit, InStatus
<1>2. /\ r.token \in Tokens /\ r.amount \in Nat
      /\ r.driver \in Addresses /\ r.sender \in Addresses
  BY <1>1 DEF TypeOK, EscrowRecord
<1>3. bal \in Ledger /\ EscrowAddr \in Addresses
  BY AddressAssumption DEF TypeOK, Ledger
<1>4. bps \in 0..BASIS_POINTS
  BY <1>1
<1>5. /\ toSender \in 0..r.amount /\ toDriver \in 0..r.amount
      /\ toSender + toDriver = r.amount
  BY <1>2, <1>4, SplitBounds
<1> HIDE DEF toSender, toDriver
<1>6. /\ mid \in Ledger
      /\ \A u \in Tokens \ {r.token} : mid[u] = bal[u]
      /\ mid[r.token][EscrowAddr] >= bal[r.token][EscrowAddr] - toSender
  BY <1>1, <1>2, <1>3, TransferEffect
<1> HIDE DEF mid
<1>7. /\ bal' \in Ledger
      /\ \A u \in Tokens \ {r.token} : bal'[u] = mid[u]
      /\ bal'[r.token][EscrowAddr] >= mid[r.token][EscrowAddr] - toDriver
  BY <1>1, <1>2, <1>3, <1>6, TransferEffect
<1>8. \A u \in Tokens : /\ bal[u][EscrowAddr] \in Nat
                        /\ mid[u][EscrowAddr] \in Nat
                        /\ bal'[u][EscrowAddr] \in Nat
  BY <1>3, <1>6, <1>7 DEF Ledger
<1>9. Spends(id)
  <2>1. bal'[r.token][EscrowAddr] >= bal[r.token][EscrowAddr] - r.amount
    BY <1>2, <1>5, <1>6, <1>7, <1>8
  <2>2. \A u \in Tokens \ {r.token} : bal'[u][EscrowAddr] >= bal[u][EscrowAddr]
    BY <1>6, <1>7, <1>8
  <2>3. QED
    BY <1>7, <1>8, <2>1, <2>2 DEF Spends
<1>10. /\ toSender \in Nat /\ toDriver \in Nat
       /\ toSender + toDriver = escrow[id].amount
       /\ Close(id, "Split", toSender, toDriver, 0)
  BY <1>1, <1>2, <1>5
<1>11. QED
  BY <1>9, <1>10

(* The items of a batch are what their type says, and ItemFor finds the    *)
(* item of each of its ids.                                                *)
LEMMA BatchFacts ==
  ASSUME NEW batch \in Batches
  PROVE  /\ Items(batch) \subseteq BatchItems
         /\ BatchIds(batch) \subseteq Ids
         /\ \A id \in BatchIds(batch) :
              ItemFor(batch, id) \in Items(batch) /\ ItemFor(batch, id).id = id
<1>1. Items(batch) \subseteq BatchItems
  <2>1. PICK n \in 1..MaxBatchLen : batch \in [1..n -> BatchItems]
    BY DEF Batches
  <2>2. QED
    BY <2>1 DEF Items
<1>2. BatchIds(batch) \subseteq Ids
  BY <1>1 DEF BatchIds, BatchItems
<1>3. ASSUME NEW id \in BatchIds(batch)
      PROVE  ItemFor(batch, id) \in Items(batch) /\ ItemFor(batch, id).id = id
  <2>1. \E item \in Items(batch) : item.id = id
    BY DEF BatchIds
  <2>2. QED
    BY <2>1 DEF ItemFor
<1>4. QED
  BY <1>1, <1>2, <1>3

(* A new record, of a single creation or of a batch, is well typed.        *)
LEMMA NewRecordType ==
  ASSUME NEW s \in Addresses, NEW r \in Addresses, NEW d \in Addresses,
         NEW t \in Tokens, NEW n \in Nat, NEW expiry \in Nat \cup {None},
         NEW fleet \in FleetIds \cup {None}
  PROVE  NewRecord(s, r, d, t, n, expiry, fleet) \in EscrowRecord
BY DEF NewRecord, EscrowRecord, Statuses

-----------------------------------------------------------------------------
(* Type correctness.                                                       *)

(* The storage before init is well typed.                                   *)
LEMMA TypeInit == Init => TypeOK
<1> SUFFICES ASSUME Init PROVE TypeOK
  OBVIOUS
<1>1. bal \in [Tokens -> [Addresses -> Nat]]
  BY NumberAssumption DEF Init
<1>2. paid \in [Ids -> Payout]
  BY DEF Init, Payout, NothingPaid
<1>3. feeBps \in 0..MAX_PLATFORM_FEE_BPS /\ slippageBps \in 0..BASIS_POINTS
  <2>1. MAX_PLATFORM_FEE_BPS \in Nat /\ BASIS_POINTS \in Nat
    BY DEF MAX_PLATFORM_FEE_BPS, BASIS_POINTS
  <2>2. QED
    BY <2>1 DEF Init
<1>4. /\ bySender \in [Addresses -> [Ids -> Nat]]
      /\ byRecipient \in [Addresses -> [Ids -> Nat]]
      /\ byDriver \in [Addresses -> [Ids -> Nat]]
  BY DEF Init
<1>5. /\ escrow \in [Ids -> EscrowRecord \cup {None}]
      /\ totalLocked \in [Tokens -> Int]
      /\ senderVolume \in [Addresses -> Nat]
      /\ now \in Nat
  BY DEF Init
<1>6. QED
  BY <1>1, <1>2, <1>3, <1>4, <1>5 DEF Init, TypeOK

(* Administration keeps the types, the fee cap included.                    *)
LEMMA TypeAdminister == TypeOK /\ Administer => TypeOK'
<1> SUFFICES ASSUME TypeOK, Administer PROVE TypeOK'
  OBVIOUS
<1> USE DEF adminVars, configVars, indexVars, fundVars
<1>1. ASSUME NEW a \in Founders, NEW t \in Tokens, NEW fee \in FeeOffers,
             InitContract(a, t, fee)
      PROVE  TypeOK'
  <2>1. a \in Addresses /\ fee \in 0..MAX_PLATFORM_FEE_BPS
    BY <1>1, AddressAssumption, NumberAssumption DEF InitContract, ValidFee
  <2>2. 500 \in 0..BASIS_POINTS
    BY DEF BASIS_POINTS
  <2>3. QED
    BY <1>1, <2>1, <2>2 DEF InitContract, TypeOK
<1>2. ASSUME NEW fee \in FeeOffers, UpdatePlatformFee(fee)
      PROVE  TypeOK'
  <2>1. fee \in 0..MAX_PLATFORM_FEE_BPS
    BY <1>2, NumberAssumption DEF UpdatePlatformFee, ValidFee
  <2>2. QED
    BY <1>2, <2>1 DEF UpdatePlatformFee, TypeOK
<1>3. ASSUME NEW bps \in SlippageOffers, UpdateSlippageTolerance(bps)
      PROVE  TypeOK'
  <2>1. bps \in 0..BASIS_POINTS
    BY <1>3, NumberAssumption DEF UpdateSlippageTolerance
  <2>2. QED
    BY <1>3, <2>1 DEF UpdateSlippageTolerance, TypeOK
<1>4. ASSUME NEW a \in SettlementAddrs, SetSettlementContract(a)
      PROVE  TypeOK'
  BY <1>4, AddressAssumption DEF SetSettlementContract, TypeOK
<1>5. ASSUME NEW a \in FleetAddrs, SetFleetManagementContract(a)
      PROVE  TypeOK'
  BY <1>5, AddressAssumption DEF SetFleetManagementContract, TypeOK
<1>6. ASSUME NEW a \in DisputeAddrs, SetDisputeResolutionContract(a)
      PROVE  TypeOK'
  BY <1>6, AddressAssumption DEF SetDisputeResolutionContract, TypeOK
<1>7. ASSUME NEW tiers \in TierTables, SetVolumeTiers(tiers)
      PROVE  TypeOK'
  BY <1>7 DEF SetVolumeTiers, TypeOK
<1>8. ASSUME NEW flag \in BOOLEAN, SetPaused(flag)
      PROVE  TypeOK'
  BY <1>8 DEF SetPaused, TypeOK
<1>9. ASSUME NEW a \in Nominees, ProposeAdmin(a) \/ AcceptAdmin(a)
      PROVE  TypeOK'
  <2>1. a \in Addresses
    BY AddressAssumption
  <2>2. QED
    BY <1>9, <2>1 DEF ProposeAdmin, AcceptAdmin, Nominated, TypeOK
<1>10. ASSUME NEW t \in Tokens, NEW to \in Treasuries,
              SweepUntrackedBalance(t, to)
       PROVE  TypeOK'
  <2>1. bal' \in Ledger
    BY <1>10, AddressAssumption, TransferEffect
       DEF SweepUntrackedBalance, TypeOK, Ledger
  <2>2. QED
    BY <1>10, <2>1 DEF SweepUntrackedBalance, TypeOK, Ledger
<1>11. QED
  BY <1>1, <1>2, <1>3, <1>4, <1>5, <1>6, <1>7, <1>8, <1>9, <1>10
     DEF Administer

(* The record that create_escrow stores is well typed.                     *)
LEMMA CreatedRecord ==
  ASSUME TypeOK, NEW s \in Senders, NEW r \in Recipients, NEW d \in Drivers,
         NEW id \in Ids, NEW t \in Tokens, NEW n \in AmountOffers,
         NEW fleet \in FleetIds, CreateEscrow(s, r, d, id, t, n, fleet)
  PROVE  /\ n \in Nat
         /\ NewRecord(s, r, d, t, n, now + EscrowExpiry, fleet) \in EscrowRecord
<1>1. s \in Addresses /\ r \in Addresses /\ d \in Addresses
      /\ EscrowAddr \in Addresses /\ bal \in Ledger
  BY AddressAssumption DEF TypeOK, Ledger
<1>2. n \in Nat
  BY <1>1, TransferEffect DEF CreateEscrow
<1>3. now + EscrowExpiry \in Nat
  BY NumberAssumption DEF TypeOK
<1>4. QED
  BY <1>1, <1>2, <1>3, NewRecordType

(* So is the record of each item of a batch.                               *)
LEMMA BatchRecord ==
  ASSUME NEW s \in Senders, NEW r \in Recipients, NEW t \in Tokens,
         NEW batch \in Batches, CreateEscrowsBatch(s, r, t, batch),
         NEW id \in BatchIds(batch)
  PROVE  NewRecord(s, r, ItemFor(batch, id).driver, t,
                   ItemFor(batch, id).amount, None, None) \in EscrowRecord
<1>1. ItemFor(batch, id) \in Items(batch) /\ ItemFor(batch, id) \in BatchItems
  BY BatchFacts
<1>2. s \in Addresses /\ r \in Addresses /\ ItemFor(batch, id).driver \in Addresses
  BY <1>1, AddressAssumption DEF BatchItems
<1>3. ItemFor(batch, id).amount \in Int
  BY <1>1, NumberAssumption DEF BatchItems
<1>4. ItemFor(batch, id).amount \in Nat
  BY <1>1, <1>3 DEF CreateEscrowsBatch
<1>5. QED
  BY <1>2, <1>4, NewRecordType

(* Creation, single or in a batch, stores well typed values.               *)
LEMMA TypeCreate == TypeOK /\ Create => TypeOK'
<1> SUFFICES ASSUME TypeOK, Create PROVE TypeOK'
  OBVIOUS
<1> USE DEF adminVars, configVars
<1>1. ASSUME NEW s \in Senders, NEW r \in Recipients, NEW d \in Drivers,
             NEW id \in Ids, NEW t \in Tokens, NEW n \in AmountOffers,
             NEW fleet \in FleetIds, CreateEscrow(s, r, d, id, t, n, fleet)
      PROVE  TypeOK'
  <2>1. s \in Addresses /\ r \in Addresses /\ d \in Addresses
        /\ EscrowAddr \in Addresses /\ bal \in Ledger
    BY AddressAssumption DEF TypeOK, Ledger
  <2>2. n \in Nat /\ bal' \in Ledger
    BY <1>1, <2>1, TransferEffect DEF CreateEscrow
  <2>4. escrow' \in [Ids -> EscrowRecord \cup {None}]
    BY <1>1, CreatedRecord DEF CreateEscrow, TypeOK
  <2>5. totalLocked' \in [Tokens -> Int]
    <3>1. totalLocked \in [Tokens -> Int]
      BY DEF TypeOK
    <3>2. SaturatingAdd(totalLocked[t], n) \in Int
      BY <3>1, <2>2, SaturationInt
    <3>3. QED
      BY <1>1, <3>1, <3>2 DEF CreateEscrow, Track
  <2>6. /\ bySender' \in [Addresses -> [Ids -> Nat]]
        /\ byRecipient' \in [Addresses -> [Ids -> Nat]]
        /\ byDriver' \in [Addresses -> [Ids -> Nat]]
    <3>1. /\ bySender \in [Addresses -> [Ids -> Nat]]
          /\ byRecipient \in [Addresses -> [Ids -> Nat]]
          /\ byDriver \in [Addresses -> [Ids -> Nat]]
      BY DEF TypeOK
    <3>2. QED
      BY <1>1, <2>1, <3>1 DEF CreateEscrow
  <2>7. QED
    BY <1>1, <2>2, <2>4, <2>5, <2>6 DEF CreateEscrow, TypeOK, Ledger
<1>2. ASSUME NEW s \in Senders, NEW r \in Recipients, NEW t \in Tokens,
             NEW batch \in Batches, CreateEscrowsBatch(s, r, t, batch)
      PROVE  TypeOK'
  <2>1. s \in Addresses /\ r \in Addresses /\ Drivers \subseteq Addresses
        /\ EscrowAddr \in Addresses /\ bal \in Ledger
    BY AddressAssumption DEF TypeOK, Ledger
  <2>2. bal' \in Ledger
    BY <1>2, <2>1, TransferEffect DEF CreateEscrowsBatch
  <2>3. ASSUME NEW id \in BatchIds(batch)
        PROVE  NewRecord(s, r, ItemFor(batch, id).driver, t,
                         ItemFor(batch, id).amount, None, None) \in EscrowRecord
    BY <1>2, BatchRecord
  <2>4. escrow' \in [Ids -> EscrowRecord \cup {None}]
    BY <1>2, <2>3 DEF CreateEscrowsBatch, TypeOK
  <2>5. /\ bySender \in [Addresses -> [Ids -> Nat]]
        /\ byRecipient \in [Addresses -> [Ids -> Nat]]
        /\ byDriver \in [Addresses -> [Ids -> Nat]]
    BY DEF TypeOK
  <2>6. /\ bySender' \in [Addresses -> [Ids -> Nat]]
        /\ byRecipient' \in [Addresses -> [Ids -> Nat]]
        /\ byDriver' \in [Addresses -> [Ids -> Nat]]
    <3>1. \A index \in [Addresses -> [Ids -> Nat]], a \in Addresses :
            IndexBatch(index, a, BatchIds(batch)) \in [Addresses -> [Ids -> Nat]]
      BY DEF IndexBatch, Occurs
    <3>2. IndexDriversOfBatch(batch) \in [Addresses -> [Ids -> Nat]]
      BY <2>5 DEF IndexDriversOfBatch, Occurs
    <3>3. QED
      BY <1>2, <2>1, <2>5, <3>1, <3>2 DEF CreateEscrowsBatch
  <2>7. QED
    BY <1>2, <2>2, <2>4, <2>5, <2>6 DEF CreateEscrowsBatch, TypeOK, Ledger
<1>3. QED
  BY <1>1, <1>2 DEF Create

-----------------------------------------------------------------------------
(* The two shapes of a step on an existing escrow: it closes the escrow    *)
(* with payments that add up, or it moves money-free to another live       *)
(* status.                                                                 *)

ClosingPayment(status, amount, toSender, toDriver, fee) ==
  /\ toSender \in Nat /\ toDriver \in Nat /\ fee \in Nat
  /\ toSender + toDriver + fee = amount
  /\ \/ status = "Released" /\ toSender = 0
        /\ fee * BASIS_POINTS <= amount * MAX_PLATFORM_FEE_BPS
     \/ status = "Refunded" /\ toSender = amount /\ toDriver = 0 /\ fee = 0
     \/ status = "Split" /\ fee = 0

Closes(id) ==
  /\ InStatus(id, Live)
  /\ Spends(id)
  /\ \E status \in Statuses, toSender, toDriver, fee \in Nat :
       /\ ClosingPayment(status, escrow[id].amount, toSender, toDriver, fee)
       /\ status = "Split" => escrow[id].status = "Paused"
       /\ Close(id, status, toSender, toDriver, fee)
  /\ senderVolume' \in [Addresses -> Nat]
  /\ UNCHANGED <<adminVars, configVars, indexVars, now>>

MovedTo(r, q) ==
  \/ r.status = "Locked" /\ q = [r EXCEPT !.status = "Holdback"]
  \/ r.status \in {"Locked", "Holdback"} /\ q = Frozen(r)
  \/ /\ r.status = "Locked"
     /\ \E caller \in {r.sender, r.recipient, r.driver} :
          q = [r EXCEPT !.status = "Paused", !.disputed_by = caller,
                        !.disputed_at = now]

Moves(id) ==
  /\ escrow[id] # None
  /\ \E q : MovedTo(escrow[id], q) /\ escrow' = [escrow EXCEPT ![id] = q]
  /\ UNCHANGED <<adminVars, configVars, indexVars, fundVars, senderVolume, now>>

(* Counting a completion keeps the volumes natural.                         *)
LEMMA CountType ==
  ASSUME TypeOK, NEW s \in Addresses, CountCompletion(s)
  PROVE  senderVolume' \in [Addresses -> Nat]
<1>1. senderVolume \in [Addresses -> Nat]
  BY DEF TypeOK
<1>2. \A n \in Nat : Smaller(n + 1, MaxU32) \in Nat
  BY NumberAssumption DEF Smaller
<1>3. QED
  BY <1>1, <1>2 DEF CountCompletion

(* Each of the three releases closes the escrow.                            *)
LEMMA ReleaseCloses ==
  ASSUME TypeOK, NEW id \in Ids, InStatus(id, Live), admin # None,
         CountCompletion(escrow[id].sender), SettleEscrowFunds(id),
         UNCHANGED <<adminVars, configVars, indexVars, now>>
  PROVE  Closes(id)
<1>1. escrow[id] # None
  BY DEF InStatus
<1>2. escrow[id].sender \in Addresses /\ escrow[id].amount \in Nat
  BY <1>1 DEF TypeOK, EscrowRecord
<1>3. senderVolume' \in [Addresses -> Nat]
  BY <1>2, CountType
<1>4. Spends(id)
  BY <1>1, SettleEffect
<1>5. PICK net \in Nat, fee \in Nat :
        /\ net + fee = escrow[id].amount
        /\ fee * BASIS_POINTS <= escrow[id].amount * MAX_PLATFORM_FEE_BPS
        /\ Close(id, "Released", 0, net, fee)
  BY <1>1, SettleEffect
<1>6. ClosingPayment("Released", escrow[id].amount, 0, net, fee)
  BY <1>2, <1>5 DEF ClosingPayment
<1>7. QED
  BY <1>3, <1>4, <1>5, <1>6 DEF Closes, Statuses

(* So does each of the three refunds.                                       *)
LEMMA RefundCloses ==
  ASSUME TypeOK, NEW id \in Ids, InStatus(id, Live), RefundSender(id),
         UNCHANGED <<adminVars, configVars, indexVars, senderVolume, now>>
  PROVE  Closes(id)
<1>1. escrow[id] # None
  BY DEF InStatus
<1>2. /\ Spends(id)
      /\ escrow[id].amount \in Nat
      /\ Close(id, "Refunded", escrow[id].amount, 0, 0)
  BY <1>1, RefundEffect
<1>3. ClosingPayment("Refunded", escrow[id].amount, escrow[id].amount, 0, 0)
  BY <1>2 DEF ClosingPayment
<1>4. senderVolume' \in [Addresses -> Nat]
  BY DEF TypeOK
<1>5. QED
  BY <1>2, <1>3, <1>4 DEF Closes, Statuses

(* Every entry point that pays, pays by closing the escrow; three others   *)
(* do not pay.                                                             *)
LEMMA ProgressCases ==
  ASSUME TypeOK, NEW id \in Ids, Progress(id)
  PROVE  \/ Closes(id)
         \/ \E caller \in Callers : MarkHoldbackEscrow(caller, id)
         \/ \E caller \in Callers : RaiseDispute(caller, id)
         \/ FreezeFunds(id)
<1> USE DEF InStatus, Live
<1>1. ASSUME NEW caller \in Callers, ReleaseEscrow(caller, id)
      PROVE  Closes(id)
  BY <1>1, ReleaseCloses DEF ReleaseEscrow, ReleasableFrom
<1>2. ASSUME NEW caller \in Callers, ReleaseHoldbackEscrow(caller, id)
      PROVE  Closes(id)
  BY <1>2, ReleaseCloses DEF ReleaseHoldbackEscrow, HoldbackReleasableFrom
<1>3. ASSUME NEW caller \in Callers, RefundEscrow(caller, id)
      PROVE  Closes(id)
  BY <1>3, RefundCloses DEF RefundEscrow, RefundableFrom
<1>4. ASSUME ReclaimExpiredEscrow(id)
      PROVE  Closes(id)
  BY <1>4, RefundCloses DEF ReclaimExpiredEscrow
<1>5. ASSUME ResolveDisputeRelease(id)
      PROVE  Closes(id)
  BY <1>5, ReleaseCloses DEF ResolveDisputeRelease
<1>6. ASSUME ResolveDisputeRefund(id)
      PROVE  Closes(id)
  BY <1>6, RefundCloses DEF ResolveDisputeRefund
<1>7. ASSUME NEW bps \in ShareOffers, ResolveDisputeSplit(id, bps)
      PROVE  Closes(id)
  <2>1. bps \in Nat
    BY NumberAssumption
  <2>2. Spends(id)
    BY <1>7, <2>1, SplitEffect
  <2>3. PICK toSender \in Nat, toDriver \in Nat :
          /\ toSender + toDriver = escrow[id].amount
          /\ Close(id, "Split", toSender, toDriver, 0)
    BY <1>7, <2>1, SplitEffect
  <2>4. ClosingPayment("Split", escrow[id].amount, toSender, toDriver, 0)
    BY <2>3 DEF ClosingPayment
  <2>5. /\ InStatus(id, {"Paused"})
        /\ UNCHANGED <<adminVars, configVars, indexVars, senderVolume, now>>
    BY <1>7 DEF ResolveDisputeSplit
  <2>6. senderVolume' \in [Addresses -> Nat]
    BY <2>5 DEF TypeOK
  <2>7. QED
    BY <2>2, <2>3, <2>4, <2>5, <2>6 DEF Closes, Statuses
<1>8. QED
  BY <1>1, <1>2, <1>3, <1>4, <1>5, <1>6, <1>7 DEF Progress

(* The three entry points that pay nothing move the record.                *)
LEMMA MovingMoves ==
  ASSUME TypeOK, NEW id \in Ids
  PROVE  /\ \A caller \in Callers :
              MarkHoldbackEscrow(caller, id) \/ RaiseDispute(caller, id) => Moves(id)
         /\ FreezeFunds(id) => Moves(id)
<1> USE DEF InStatus
<1>1. ASSUME NEW caller \in Callers, MarkHoldbackEscrow(caller, id)
      PROVE  Moves(id)
  <2>1. escrow' = [escrow EXCEPT ![id] = [escrow[id] EXCEPT !.status = "Holdback"]]
    BY <1>1 DEF MarkHoldbackEscrow
  <2>2. QED
    BY <1>1, <2>1 DEF MarkHoldbackEscrow, Moves, MovedTo
<1>2. ASSUME NEW caller \in Callers, RaiseDispute(caller, id)
      PROVE  Moves(id)
  <2>1. escrow' = [escrow EXCEPT ![id] =
                     [escrow[id] EXCEPT !.status = "Paused",
                                        !.disputed_by = caller,
                                        !.disputed_at = now]]
    BY <1>2 DEF RaiseDispute
  <2>2. MovedTo(escrow[id], [escrow[id] EXCEPT !.status = "Paused",
                                               !.disputed_by = caller,
                                               !.disputed_at = now])
    BY <1>2 DEF RaiseDispute, MovedTo
  <2>3. QED
    BY <1>2, <2>1, <2>2 DEF RaiseDispute, Moves
<1>3. ASSUME FreezeFunds(id)
      PROVE  Moves(id)
  <2>1. MovedTo(escrow[id], Frozen(escrow[id]))
        /\ escrow' = [escrow EXCEPT ![id] = Frozen(escrow[id])]
    BY <1>3 DEF FreezeFunds, MovedTo
  <2>2. QED
    BY <1>3, <2>1 DEF FreezeFunds, Moves
<1>4. QED
  BY <1>1, <1>2, <1>3

(* Every entry point on an existing escrow closes it or moves it.           *)
LEMMA ProgressShape ==
  ASSUME TypeOK, NEW id \in Ids, Progress(id)
  PROVE  Closes(id) \/ Moves(id)
BY ProgressCases, MovingMoves

(* What a step of MovedTo keeps and sets.                                  *)
LEMMA MovedFacts ==
  ASSUME NEW r \in EscrowRecord, NEW q, MovedTo(r, q), now \in Nat
  PROVE  /\ q \in EscrowRecord
         /\ SameTerms(r, q)
         /\ r.status \in {"Locked", "Holdback"}
         /\ q.status \in {"Holdback", "Paused"}
         /\ r.status = "Holdback" => q.status = "Paused"
<1>1. /\ r.sender \in Addresses /\ r.recipient \in Addresses
      /\ r.driver \in Addresses
  BY DEF EscrowRecord
<1>2. q \in EscrowRecord
  BY <1>1 DEF EscrowRecord, MovedTo, Frozen, Statuses
<1>3. QED
  BY <1>2 DEF EscrowRecord, MovedTo, Frozen, SameTerms

(* Progress keeps the types.                                                *)
LEMMA TypeProgress ==
  ASSUME TypeOK, NEW id \in Ids, Progress(id)
  PROVE  TypeOK'
<1>1. CASE Closes(id)
  <2>1. escrow[id] # None
    BY <1>1 DEF Closes, InStatus
  <2>2. /\ escrow' \in [Ids -> EscrowRecord \cup {None}]
        /\ paid' \in [Ids -> Payout]
        /\ totalLocked' \in [Tokens -> Int]
    BY <1>1, <2>1, CloseType DEF Closes
  <2>3. bal' \in [Tokens -> [Addresses -> Nat]]
    BY <1>1 DEF Closes, Spends, Ledger
  <2>4. QED
    BY <1>1, <2>2, <2>3 DEF Closes, TypeOK, adminVars, configVars, indexVars
<1>2. CASE Moves(id)
  <2>1. PICK q : MovedTo(escrow[id], q) /\ escrow' = [escrow EXCEPT ![id] = q]
    BY <1>2 DEF Moves
  <2>2. escrow[id] \in EscrowRecord /\ now \in Nat
    BY <1>2 DEF Moves, TypeOK
  <2>3. q \in EscrowRecord
    BY <2>1, <2>2, MovedFacts
  <2>4. QED
    BY <1>2, <2>1, <2>3
       DEF Moves, TypeOK, adminVars, configVars, indexVars, fundVars
<1>3. QED
  BY <1>1, <1>2, ProgressShape

(* The environment keeps the types.                                         *)
LEMMA TypeEnvironment == TypeOK /\ Environment => TypeOK'
<1> SUFFICES ASSUME TypeOK, Environment PROVE TypeOK'
  OBVIOUS
<1> USE DEF adminVars, configVars, indexVars, fundVars
<1>1. ASSUME NEW from \in Senders, NEW t \in Tokens, NEW n \in Surpluses,
             MistakenTransfer(from, t, n)
      PROVE  TypeOK'
  <2>1. bal' \in Ledger
    BY <1>1, AddressAssumption, TransferEffect
       DEF MistakenTransfer, TypeOK, Ledger
  <2>2. QED
    BY <1>1, <2>1 DEF MistakenTransfer, TypeOK, Ledger
<1>2. ASSUME Tick PROVE TypeOK'
  BY <1>2 DEF Tick, TypeOK
<1>3. QED
  BY <1>1, <1>2 DEF Environment

(* TypeOK is inductive.                                                     *)
LEMMA TypeStep == TypeOK /\ [Next]_vars => TypeOK'
<1>1. CASE UNCHANGED vars
  BY <1>1 DEF TypeOK, vars, adminVars, configVars, indexVars, fundVars
<1>2. QED
  BY <1>1, TypeAdminister, TypeCreate, TypeProgress, TypeEnvironment DEF Next

(* Every stored value keeps its declared type, balances never go below     *)
(* zero, and the platform fee never passes its cap of 1000 basis points.   *)
THEOREM TypeCorrect == Spec => []TypeOK
<1>1. QED
  BY TypeInit, TypeStep, PTL DEF Spec

-----------------------------------------------------------------------------
(* Coverage.                                                               *)

(* A sweep takes only what is above the recorded total.                     *)
LEMMA CoveredAdminister == TypeOK /\ Covered /\ Administer => Covered'
<1> SUFFICES ASSUME TypeOK, Covered, Administer PROVE Covered'
  OBVIOUS
<1>1. CASE UNCHANGED <<bal, totalLocked>>
  BY <1>1 DEF Covered
<1>2. ASSUME NEW t \in Tokens, NEW to \in Treasuries,
             SweepUntrackedBalance(t, to)
      PROVE  Covered'
  <2> DEFINE n == Untracked(t)
  <2>a. bal \in Ledger /\ EscrowAddr \in Addresses /\ to \in Addresses
    BY AddressAssumption DEF TypeOK, Ledger
  <2>b. /\ CanTransfer(bal, t, EscrowAddr, n)
        /\ bal' = Transfer(bal, t, EscrowAddr, to, n)
    BY <1>2 DEF SweepUntrackedBalance
  <2> HIDE DEF n
  <2>1. /\ bal' \in Ledger
        /\ \A u \in Tokens \ {t} : bal'[u] = bal[u]
        /\ bal'[t][EscrowAddr] >= bal[t][EscrowAddr] - n
    BY <2>a, <2>b, TransferEffect
  <2>2. bal[t][EscrowAddr] \in Nat /\ totalLocked[t] \in Int
    BY AddressAssumption DEF TypeOK
  <2>3. totalLocked' = totalLocked
    BY <1>2 DEF SweepUntrackedBalance
  <2>4. bal'[t][EscrowAddr] \in Nat
    BY <2>a, <2>1 DEF Ledger
  <2>5. bal'[t][EscrowAddr] >= totalLocked'[t]
    <3>1. n = bal[t][EscrowAddr] - totalLocked[t]
      BY DEF n, Untracked
    <3>2. QED
      BY <2>1, <2>2, <2>3, <2>4, <3>1
  <2>6. QED
    BY <2>1, <2>3, <2>5 DEF Covered
<1>3. QED
  BY <1>1, <1>2
     DEF Administer, InitContract, UpdatePlatformFee, UpdateSlippageTolerance,
         SetSettlementContract, SetFleetManagementContract,
         SetDisputeResolutionContract, SetVolumeTiers, SetPaused, ProposeAdmin,
         AcceptAdmin, fundVars

(* A deposit raises the balance at least as much as the total.              *)
LEMMA CoveredCreate == TypeOK /\ Covered /\ Create => Covered'
<1> SUFFICES ASSUME TypeOK, Covered, Create PROVE Covered'
  OBVIOUS
<1>1. bal \in Ledger /\ EscrowAddr \in Addresses /\ totalLocked \in [Tokens -> Int]
  BY AddressAssumption DEF TypeOK, Ledger
<1>2. ASSUME NEW s \in Senders, NEW r \in Recipients, NEW d \in Drivers,
             NEW id \in Ids, NEW t \in Tokens, NEW n \in AmountOffers,
             NEW fleet \in FleetIds, CreateEscrow(s, r, d, id, t, n, fleet)
      PROVE  Covered'
  <2>1. s \in Addresses /\ s # EscrowAddr
    BY AddressAssumption
  <2>b. /\ CanTransfer(bal, t, s, n)
        /\ bal' = Transfer(bal, t, s, EscrowAddr, n)
    BY <1>2 DEF CreateEscrow
  <2>2. /\ n \in Nat
        /\ \A u \in Tokens \ {t} : bal'[u] = bal[u]
        /\ bal'[t][EscrowAddr] = bal[t][EscrowAddr] + n
    BY <1>1, <2>1, <2>b, TransferEffect
  <2>3. totalLocked' = [totalLocked EXCEPT ![t] = SaturatingAdd(totalLocked[t], n)]
    BY <1>2 DEF CreateEscrow, Track
  <2>4. totalLocked[t] \in Int /\ bal[t][EscrowAddr] \in Nat
        /\ bal[t][EscrowAddr] >= totalLocked[t]
    BY <1>1 DEF Covered, Ledger
  <2>5. SaturatingAdd(totalLocked[t], n) <= totalLocked[t] + n
    BY <2>2, <2>4, NumberAssumption DEF SaturatingAdd, Smaller
  <2>6. SaturatingAdd(totalLocked[t], n) \in Int
    <3>1. n \in Int /\ totalLocked[t] \in Int
      BY <2>2, <2>4
    <3>2. QED
      BY ONLY <3>1, SaturationInt
  <2>7. bal'[t][EscrowAddr] >= totalLocked'[t]
    BY <1>1, <2>2, <2>3, <2>4, <2>5, <2>6
  <2>8. QED
    BY <1>1, <2>2, <2>3, <2>7 DEF Covered
<1>3. ASSUME NEW s \in Senders, NEW r \in Recipients, NEW t \in Tokens,
             NEW batch \in Batches, CreateEscrowsBatch(s, r, t, batch)
      PROVE  Covered'
  <2>1. s \in Addresses /\ s # EscrowAddr
    BY AddressAssumption
  <2> DEFINE n == BatchTotal(batch)
  <2>b. /\ CanTransfer(bal, t, s, n)
        /\ bal' = Transfer(bal, t, s, EscrowAddr, n)
        /\ totalLocked' = totalLocked
    BY <1>3 DEF CreateEscrowsBatch
  <2> HIDE DEF n
  <2>2. /\ bal' \in Ledger
        /\ \A u \in Tokens \ {t} : bal'[u] = bal[u]
        /\ bal'[t][EscrowAddr] >= bal[t][EscrowAddr]
        /\ totalLocked' = totalLocked
    BY <1>1, <2>1, <2>b, TransferEffect
  <2>3. \A u \in Tokens : bal[u][EscrowAddr] \in Nat /\ bal'[u][EscrowAddr] \in Nat
    BY <1>1, <2>2 DEF Ledger
  <2>4. QED
    BY <1>1, <2>2, <2>3 DEF Covered
<1>4. QED
  BY <1>2, <1>3 DEF Create

(* A payment takes at most the amount of the escrow, and the amount is     *)
(* taken off the total as well.                                            *)
LEMMA CoveredProgress ==
  ASSUME TypeOK, Covered, NEW id \in Ids, Progress(id)
  PROVE  Covered'
<1>1. CASE Closes(id)
  <2> DEFINE r == escrow[id]
  <2>1. r.token \in Tokens /\ r.amount \in Nat
    BY <1>1 DEF Closes, InStatus, TypeOK, EscrowRecord
  <2>2. Untrack(id) /\ Spends(id)
    BY <1>1 DEF Closes, Close
  <2>3. \A u \in Tokens : /\ bal[u][EscrowAddr] \in Nat
                          /\ bal'[u][EscrowAddr] \in Nat
                          /\ totalLocked[u] \in Int
                          /\ bal[u][EscrowAddr] >= totalLocked[u]
    BY <2>2, AddressAssumption DEF Spends, Ledger, TypeOK, Covered
  <2> DEFINE left == SaturatingSub(totalLocked[r.token], r.amount)
  <2>4. totalLocked' = [totalLocked EXCEPT ![r.token] = left]
    BY <2>2 DEF Untrack
  <2>5. bal'[r.token][EscrowAddr] >= left
    <3>1. bal'[r.token][EscrowAddr] >= bal[r.token][EscrowAddr] - r.amount
      BY <2>1, <2>2 DEF Spends
    <3>2. left = totalLocked[r.token] - r.amount \/ left = -MaxI128 - 1
      BY DEF SaturatingSub
    <3> HIDE DEF left
    <3>3. QED
      BY <2>1, <2>3, <3>1, <3>2, NumberAssumption
  <2>6. \A u \in Tokens \ {r.token} : bal'[u][EscrowAddr] >= bal[u][EscrowAddr]
    BY <2>2, <2>3 DEF Spends
  <2> HIDE DEF left
  <2>7. \A u \in Tokens : bal'[u][EscrowAddr] >= totalLocked'[u]
    <3>1. totalLocked \in [Tokens -> Int]
      BY DEF TypeOK
    <3>2. QED
      BY <2>1, <2>3, <2>4, <2>5, <2>6, <3>1
  <2>8. QED
    BY <2>7 DEF Covered
<1>2. CASE Moves(id)
  BY <1>2 DEF Moves, Covered, fundVars
<1>3. QED
  BY <1>1, <1>2, ProgressShape

(* A mistaken transfer only adds to the balance.                            *)
LEMMA CoveredEnvironment == TypeOK /\ Covered /\ Environment => Covered'
<1> SUFFICES ASSUME TypeOK, Covered, Environment PROVE Covered'
  OBVIOUS
<1>1. ASSUME NEW from \in Senders, NEW t \in Tokens, NEW n \in Surpluses,
             MistakenTransfer(from, t, n)
      PROVE  Covered'
  <2>1. /\ bal \in Ledger /\ totalLocked \in [Tokens -> Int]
        /\ EscrowAddr \in Addresses /\ from \in Addresses /\ from # EscrowAddr
    BY AddressAssumption DEF TypeOK, Ledger
  <2>2. /\ CanTransfer(bal, t, from, n)
        /\ bal' = Transfer(bal, t, from, EscrowAddr, n)
        /\ totalLocked' = totalLocked
    BY <1>1 DEF MistakenTransfer
  <2>3. /\ bal' \in Ledger
        /\ \A u \in Tokens \ {t} : bal'[u] = bal[u]
        /\ bal'[t][EscrowAddr] >= bal[t][EscrowAddr]
    BY <2>1, <2>2, TransferEffect
  <2>4. \A u \in Tokens : bal[u][EscrowAddr] \in Nat /\ bal'[u][EscrowAddr] \in Nat
    BY <2>1, <2>3 DEF Ledger
  <2>5. QED
    BY <2>1, <2>2, <2>3, <2>4 DEF Covered
<1>2. ASSUME Tick PROVE Covered'
  BY <1>2 DEF Tick, Covered, fundVars
<1>3. QED
  BY <1>1, <1>2 DEF Environment

(* The contract owns at least what it has recorded as locked, in every     *)
(* token and after any sequence of deposits, batches, payouts, refunds,    *)
(* splits, reclaims and sweeps.                                            *)
THEOREM AlwaysCovered == Spec => []Covered
<1>1. Init => Covered
  BY NumberAssumption, AddressAssumption DEF Init, Covered
<1>2. TypeOK /\ Covered /\ [Next]_vars => Covered'
  <2>1. UNCHANGED vars /\ Covered => Covered'
    BY DEF vars, fundVars, Covered
  <2>2. QED
    BY <2>1, CoveredAdminister, CoveredCreate, CoveredProgress,
       CoveredEnvironment DEF Next
<1>3. QED
  BY <1>1, <1>2, TypeCorrect, PTL DEF Spec

-----------------------------------------------------------------------------
(* What each group of actions does to the records.                         *)

(* No administrative step and no step of the environment touches an        *)
(* escrow, a payout, an index or a volume.                                 *)
LEMMA RecordsFramed ==
  Administer \/ Environment =>
    UNCHANGED <<escrow, paid, bySender, byRecipient, byDriver, senderVolume>>
BY DEF Administer, Environment, InitContract, UpdatePlatformFee,
       UpdateSlippageTolerance, SetSettlementContract,
       SetFleetManagementContract, SetDisputeResolutionContract,
       SetVolumeTiers, SetPaused, ProposeAdmin, AcceptAdmin,
       SweepUntrackedBalance, MistakenTransfer, Tick, fundVars, indexVars

Fresh(q) ==
  /\ q \in EscrowRecord
  /\ q.status = "Locked" /\ q.disputed_by = None /\ q.disputed_at = None

(* Creation leaves every existing record alone, and what it adds is Locked *)
(* and undisputed.                                                         *)
LEMMA CreateRecords ==
  ASSUME TypeOK, Create
  PROVE  /\ escrow' \in [Ids -> EscrowRecord \cup {None}]
         /\ \A id \in Ids : \/ escrow'[id] = escrow[id]
                            \/ escrow[id] = None /\ Fresh(escrow'[id])
         /\ UNCHANGED <<paid, senderVolume, adminVars>>
<1>1. escrow' \in [Ids -> EscrowRecord \cup {None}]
  BY TypeCreate DEF TypeOK
<1>2. ASSUME NEW s, NEW r, NEW d, NEW t, NEW n, NEW expiry, NEW fleet,
             NewRecord(s, r, d, t, n, expiry, fleet) \in EscrowRecord
      PROVE  Fresh(NewRecord(s, r, d, t, n, expiry, fleet))
  BY <1>2 DEF NewRecord, Fresh
<1>3. ASSUME NEW s \in Senders, NEW r \in Recipients, NEW d \in Drivers,
             NEW id \in Ids, NEW t \in Tokens, NEW n \in AmountOffers,
             NEW fleet \in FleetIds, CreateEscrow(s, r, d, id, t, n, fleet)
      PROVE  /\ \A i \in Ids : \/ escrow'[i] = escrow[i]
                               \/ escrow[i] = None /\ Fresh(escrow'[i])
             /\ UNCHANGED <<paid, senderVolume, adminVars>>
  <2> DEFINE q == NewRecord(s, r, d, t, n, now + EscrowExpiry, fleet)
  <2>1. escrow[id] = None /\ escrow' = [escrow EXCEPT ![id] = q]
    BY <1>3 DEF CreateEscrow
  <2>2. escrow'[id] = q
    BY <2>1 DEF TypeOK
  <2>3. Fresh(q)
    BY <1>2, <1>3, CreatedRecord
  <2> HIDE DEF q
  <2>4. \A i \in Ids \ {id} : escrow'[i] = escrow[i]
    BY <2>1 DEF TypeOK
  <2>5. QED
    BY <1>3, <2>1, <2>2, <2>3, <2>4 DEF CreateEscrow
<1>4. ASSUME NEW s \in Senders, NEW r \in Recipients, NEW t \in Tokens,
             NEW batch \in Batches, CreateEscrowsBatch(s, r, t, batch)
      PROVE  /\ \A i \in Ids : \/ escrow'[i] = escrow[i]
                               \/ escrow[i] = None /\ Fresh(escrow'[i])
             /\ UNCHANGED <<paid, senderVolume, adminVars>>
  <2>1. ASSUME NEW i \in Ids, i \in BatchIds(batch)
        PROVE  escrow[i] = None /\ Fresh(escrow'[i])
    <3> DEFINE q == NewRecord(s, r, ItemFor(batch, i).driver, t,
                              ItemFor(batch, i).amount, None, None)
    <3>1. escrow[i] = None /\ escrow'[i] = q
      BY <1>4, <2>1 DEF CreateEscrowsBatch
    <3>2. q \in EscrowRecord
      BY <1>4, <2>1, BatchRecord
    <3>3. QED
      BY <1>2, <3>1, <3>2
  <2>2. ASSUME NEW i \in Ids, i \notin BatchIds(batch)
        PROVE  escrow'[i] = escrow[i]
    BY <1>4, <2>2 DEF CreateEscrowsBatch
  <2>3. QED
    BY <1>4, <2>1, <2>2 DEF CreateEscrowsBatch
<1>5. QED
  BY <1>1, <1>3, <1>4 DEF Create

(* A step on an existing escrow writes that record only, and only forward. *)
LEMMA ProgressRecord ==
  ASSUME TypeOK, NEW id \in Ids, Progress(id)
  PROVE  /\ escrow[id] \in EscrowRecord /\ escrow[id].status \in Live
         /\ escrow'[id] \in EscrowRecord
         /\ Advances(escrow[id], escrow'[id])
         /\ \A i \in Ids \ {id} : escrow'[i] = escrow[i]
<1>1. CASE Closes(id)
  <2>1. escrow[id] \in EscrowRecord /\ escrow[id].status \in Live
    BY <1>1 DEF Closes, InStatus, TypeOK
  <2>2. PICK status \in {"Released", "Refunded", "Split"} :
          /\ status = "Split" => escrow[id].status = "Paused"
          /\ escrow' = [escrow EXCEPT ![id] =
                          [escrow[id] EXCEPT !.status = status]]
    BY <1>1 DEF Closes, ClosingPayment, Close
  <2>3. escrow'[id] = [escrow[id] EXCEPT !.status = status]
        /\ \A i \in Ids \ {id} : escrow'[i] = escrow[i]
    BY <2>2 DEF TypeOK
  <2>4. /\ escrow'[id] \in EscrowRecord /\ escrow'[id].status = status
        /\ SameTerms(escrow[id], escrow'[id])
    BY <2>1, <2>3 DEF EscrowRecord, Statuses, SameTerms
  <2>5. QED
    BY <2>1, <2>2, <2>3, <2>4, RecordAssumption DEF Advances, Forward, Live
<1>2. CASE Moves(id)
  <2>1. PICK q : MovedTo(escrow[id], q) /\ escrow' = [escrow EXCEPT ![id] = q]
    BY <1>2 DEF Moves
  <2>2. escrow[id] \in EscrowRecord /\ now \in Nat
    BY <1>2 DEF Moves, TypeOK
  <2>3. escrow'[id] = q /\ \A i \in Ids \ {id} : escrow'[i] = escrow[i]
    BY <2>1 DEF TypeOK
  <2>4. QED
    BY <2>1, <2>2, <2>3, MovedFacts, RecordAssumption
       DEF Advances, Forward, Live
<1>3. QED
  BY <1>1, <1>2, ProgressShape

-----------------------------------------------------------------------------
(* The life cycle of a record.                                             *)

(* One step of the life cycle, whoever takes it.                            *)
LEMMA LifecycleStep ==
  ASSUME TypeOK, [Next]_vars
  PROVE  \A id \in Ids : escrow[id] # None => Advances(escrow[id], escrow'[id])
<1>1. ASSUME NEW id \in Ids, escrow[id] # None, escrow'[id] = escrow[id]
      PROVE  Advances(escrow[id], escrow'[id])
  BY <1>1 DEF Advances, SameTerms, Forward
<1>2. CASE UNCHANGED escrow
  BY <1>1, <1>2
<1>3. CASE Create
  BY <1>1, <1>3, CreateRecords
<1>4. ASSUME NEW id \in Ids, Progress(id)
      PROVE  \A i \in Ids : escrow[i] # None => Advances(escrow[i], escrow'[i])
  <2>1. Advances(escrow[id], escrow'[id])
    BY <1>4, ProgressRecord
  <2>2. \A i \in Ids \ {id} : escrow'[i] = escrow[i]
    BY <1>4, ProgressRecord
  <2>3. QED
    BY <1>1, <2>1, <2>2
<1>5. QED
  BY <1>2, <1>3, <1>4, RecordsFramed DEF Next, vars

(* Records are never dropped or reused, the terms of an escrow never       *)
(* change, a closed escrow is never touched again, and a live one only     *)
(* moves forward.                                                          *)
THEOREM LifecycleHolds == Spec => Lifecycle
<1>1. TypeOK /\ [Next]_vars =>
        [\A id \in Ids : escrow[id] # None => Advances(escrow[id], escrow'[id])]_vars
  BY LifecycleStep
<1>2. QED
  BY <1>1, TypeCorrect, PTL DEF Spec, Lifecycle

-----------------------------------------------------------------------------
(* What has left, by status.                                               *)

(* The conjunct of PayoutMatchesStatus for one delivery.                   *)
PaidRight(r, p) ==
  IF r # None /\ r.status \notin Live
  THEN /\ p.sender + p.driver + p.fee = r.amount
       /\ r.status = "Refunded" => p.sender = r.amount
       /\ r.status = "Released" => p.sender = 0
       /\ r.status = "Split" => p.fee = 0
  ELSE p = NothingPaid

(* PayoutMatchesStatus, delivery by delivery.                               *)
LEMMA PaidRightDef ==
  PayoutMatchesStatus <=> \A id \in Ids : PaidRight(escrow[id], paid[id])
BY DEF PayoutMatchesStatus, PaidRight, Held

(* Closing an escrow out of which nothing has been paid pays exactly what  *)
(* its new status says.                                                    *)
LEMMA PaidOnClose ==
  ASSUME TypeOK, NEW id \in Ids, Closes(id), paid[id] = NothingPaid
  PROVE  /\ PaidRight(escrow'[id], paid'[id])
         /\ paid'[id] \in Payout
         /\ paid'[id].sender + paid'[id].driver + paid'[id].fee = escrow[id].amount
         /\ paid'[id].fee * BASIS_POINTS <= escrow[id].amount * MAX_PLATFORM_FEE_BPS
         /\ paid'[id].sender > 0 => paid'[id].fee = 0
         /\ escrow'[id].status \notin Live
         /\ \A i \in Ids \ {id} : paid'[i] = paid[i]
<1>1. escrow[id] \in EscrowRecord
  BY DEF Closes, InStatus, TypeOK
<1>2. PICK status \in Statuses, toSender \in Nat, toDriver \in Nat, fee \in Nat :
        /\ ClosingPayment(status, escrow[id].amount, toSender, toDriver, fee)
        /\ Close(id, status, toSender, toDriver, fee)
  BY DEF Closes
<1>3. escrow'[id] = [escrow[id] EXCEPT !.status = status]
  BY <1>2 DEF Close, TypeOK
<1>4. escrow'[id] \in EscrowRecord /\ escrow'[id].status = status
      /\ escrow'[id].amount = escrow[id].amount /\ escrow[id].amount \in Nat
  BY <1>1, <1>3 DEF EscrowRecord
<1>5. paid'[id] = [sender |-> toSender, driver |-> toDriver, fee |-> fee]
      /\ \A i \in Ids \ {id} : paid'[i] = paid[i]
  <2>1. paid' = [paid EXCEPT ![id] = [sender |-> paid[id].sender + toSender,
                                      driver |-> paid[id].driver + toDriver,
                                      fee    |-> paid[id].fee + fee]]
    BY <1>2 DEF Close
  <2>2. paid[id].sender = 0 /\ paid[id].driver = 0 /\ paid[id].fee = 0
    BY DEF NothingPaid
  <2>3. paid[id].sender + toSender = toSender /\ paid[id].driver + toDriver = toDriver
        /\ paid[id].fee + fee = fee
    BY <2>2
  <2>4. QED
    BY <2>1, <2>3 DEF TypeOK
<1>6. status \notin Live
  BY <1>2 DEF ClosingPayment, Live
<1>7. PaidRight(escrow'[id], paid'[id])
  BY <1>2, <1>4, <1>5, <1>6, RecordAssumption DEF PaidRight, ClosingPayment
<1>8. fee * BASIS_POINTS <= escrow[id].amount * MAX_PLATFORM_FEE_BPS
  <2>1. CASE fee = 0
    <3>1. fee * BASIS_POINTS = 0
      BY <2>1 DEF BASIS_POINTS
    <3>2. 0 <= escrow[id].amount * MAX_PLATFORM_FEE_BPS
      BY <1>4 DEF MAX_PLATFORM_FEE_BPS
    <3>3. QED
      BY <3>1, <3>2
  <2>2. QED
    BY <1>2, <2>1 DEF ClosingPayment
<1>9. toSender > 0 => fee = 0
  BY <1>2 DEF ClosingPayment
<1>10. toSender + toDriver + fee = escrow[id].amount
  BY <1>2 DEF ClosingPayment
<1>11. QED
  BY <1>4, <1>5, <1>6, <1>7, <1>8, <1>9, <1>10 DEF Payout

(* PayoutMatchesStatus is inductive together with TypeOK.                   *)
LEMMA PaidStep ==
  ASSUME TypeOK, PayoutMatchesStatus, [Next]_vars
  PROVE  PayoutMatchesStatus'
<1>1. \A id \in Ids : PaidRight(escrow[id], paid[id])
  BY PaidRightDef
<1>2. SUFFICES ASSUME NEW i \in Ids PROVE PaidRight(escrow'[i], paid'[i])
  BY DEF PayoutMatchesStatus, PaidRight, Held
<1>3. CASE UNCHANGED <<escrow, paid>>
  BY <1>1, <1>3
<1>4. CASE Create
  <2>1. paid'[i] = paid[i]
    BY <1>4, CreateRecords
  <2>2. CASE escrow'[i] = escrow[i]
    BY <1>1, <2>1, <2>2
  <2>3. CASE escrow[i] = None /\ Fresh(escrow'[i])
    <3>1. paid[i] = NothingPaid
      BY <1>1, <2>3 DEF PaidRight
    <3>2. QED
      BY <2>1, <2>3, <3>1 DEF PaidRight, Fresh, Live
  <2>4. QED
    BY <1>4, <2>2, <2>3, CreateRecords
<1>5. ASSUME NEW id \in Ids, Progress(id)
      PROVE  PaidRight(escrow'[i], paid'[i])
  <2>1. /\ escrow[id] \in EscrowRecord /\ escrow[id].status \in Live
        /\ escrow'[id] \in EscrowRecord
        /\ \A k \in Ids \ {id} : escrow'[k] = escrow[k]
    BY <1>5, ProgressRecord
  <2>2. paid[id] = NothingPaid
    BY <1>1, <2>1 DEF PaidRight
  <2>3. CASE Closes(id)
    <3>1. PaidRight(escrow'[id], paid'[id])
          /\ \A k \in Ids \ {id} : paid'[k] = paid[k]
      BY <2>2, <2>3, PaidOnClose
    <3>2. QED
      BY <1>1, <2>1, <3>1
  <2>4. CASE Moves(id)
    <3>1. paid' = paid
      BY <2>4 DEF Moves, fundVars
    <3>2. escrow'[id].status \in Live
      <4>1. PICK q : MovedTo(escrow[id], q) /\ escrow' = [escrow EXCEPT ![id] = q]
        BY <2>4 DEF Moves
      <4>2. escrow'[id] = q /\ now \in Nat
        BY <4>1 DEF TypeOK
      <4>3. QED
        BY <2>1, <4>1, <4>2, MovedFacts DEF Live
    <3>3. PaidRight(escrow'[id], paid'[id])
      BY <2>2, <3>1, <3>2 DEF PaidRight
    <3>4. QED
      BY <1>1, <2>1, <3>1, <3>3
  <2>5. QED
    BY <1>5, <2>3, <2>4, ProgressShape
<1>6. QED
  BY <1>3, <1>4, <1>5, RecordsFramed DEF Next, vars, fundVars

(* A delivery pays nothing while it is live and exactly its deposit when   *)
(* it is closed, divided the way its final status says.                    *)
THEOREM PaidAsStated == Spec => []PayoutMatchesStatus
<1>1. Init => PayoutMatchesStatus
  BY DEF Init, PayoutMatchesStatus
<1>2. TypeOK /\ PayoutMatchesStatus /\ [Next]_vars => PayoutMatchesStatus'
  BY PaidStep
<1>3. QED
  BY <1>1, <1>2, TypeCorrect, PTL DEF Spec

-----------------------------------------------------------------------------
(* Disputes.                                                               *)

Stamped(r) ==
  /\ r.status \in {"Paused", "Split"} => r.disputed_at # None
  /\ r.status \in {"Locked", "Holdback"} => r.disputed_at = None
  /\ r.disputed_by # None =>
       /\ r.disputed_at # None
       /\ r.disputed_by \in {r.sender, r.recipient, r.driver}

(* DisputeStamped is inductive together with TypeOK.                        *)
LEMMA StampedStep ==
  ASSUME TypeOK, DisputeStamped, [Next]_vars
  PROVE  DisputeStamped'
<1>1. \A i \in Ids : escrow[i] # None => Stamped(escrow[i])
  BY DEF DisputeStamped, Stamped
<1>2. SUFFICES ASSUME NEW i \in Ids, escrow'[i] # None PROVE Stamped(escrow'[i])
  BY DEF DisputeStamped, Stamped
<1>3. CASE escrow'[i] = escrow[i]
  BY <1>1, <1>2, <1>3
<1>4. CASE Create
  <2>1. CASE Fresh(escrow'[i])
    BY <2>1 DEF Fresh, Stamped
  <2>2. QED
    BY <1>3, <1>4, <2>1, CreateRecords
<1>5. CASE Progress(i)
  <2>1. escrow[i] \in EscrowRecord /\ escrow[i] # None /\ now \in Nat
    BY <1>5, ProgressRecord, RecordAssumption DEF TypeOK
  <2>2. Stamped(escrow[i])
    BY <1>1, <2>1
  <2>3. CASE Closes(i)
    <3>1. PICK status \in {"Released", "Refunded", "Split"} :
            /\ status = "Split" => escrow[i].status = "Paused"
            /\ escrow' = [escrow EXCEPT ![i] =
                            [escrow[i] EXCEPT !.status = status]]
      BY <2>3 DEF Closes, ClosingPayment, Close
    <3>2. escrow'[i] = [escrow[i] EXCEPT !.status = status]
      BY <3>1 DEF TypeOK
    <3>3. QED
      BY <2>1, <2>2, <3>1, <3>2 DEF Stamped, EscrowRecord
  <2>4. CASE Moves(i)
    <3>1. PICK q : MovedTo(escrow[i], q) /\ escrow' = [escrow EXCEPT ![i] = q]
      BY <2>4 DEF Moves
    <3>2. escrow'[i] = q
      BY <3>1 DEF TypeOK
    <3>3. now # None
      BY <2>1, NoneAssumption
    <3> DEFINE r == escrow[i]
    <3>4. CASE r.status = "Locked" /\ q = [r EXCEPT !.status = "Holdback"]
      BY <2>1, <2>2, <3>2, <3>4 DEF Stamped, EscrowRecord
    <3>5. CASE r.status \in {"Locked", "Holdback"} /\ q = Frozen(r)
      <4>1. q = [r EXCEPT !.status = "Paused", !.disputed_at = now]
        BY <3>5 DEF Frozen
      <4>2. /\ q.status = "Paused" /\ q.disputed_at = now
            /\ q.disputed_by = r.disputed_by /\ q.sender = r.sender
            /\ q.recipient = r.recipient /\ q.driver = r.driver
        BY <2>1, <4>1 DEF EscrowRecord
      <4>3. QED
        BY <2>2, <3>2, <3>3, <4>2 DEF Stamped
    <3>6. CASE \E caller \in {r.sender, r.recipient, r.driver} :
                 q = [r EXCEPT !.status = "Paused", !.disputed_by = caller,
                               !.disputed_at = now]
      <4>1. /\ q.status = "Paused" /\ q.disputed_at = now
            /\ q.disputed_by \in {r.sender, r.recipient, r.driver}
            /\ q.sender = r.sender /\ q.recipient = r.recipient
            /\ q.driver = r.driver
        BY <2>1, <3>6 DEF EscrowRecord
      <4>2. QED
        BY <3>2, <3>3, <4>1 DEF Stamped
    <3>7. QED
      BY <3>1, <3>4, <3>5, <3>6 DEF MovedTo
  <2>5. QED
    BY <1>5, <2>3, <2>4, ProgressShape
<1>6. ASSUME NEW id \in Ids, id # i, Progress(id)
      PROVE  Stamped(escrow'[i])
  BY <1>3, <1>6, ProgressRecord
<1>7. QED
  BY <1>3, <1>4, <1>5, <1>6, RecordsFramed DEF Next, vars

(* A frozen escrow always carries the time of its dispute, an undisputed   *)
(* one never does, and only a party to the delivery is named as disputer.  *)
THEOREM DisputesStamped == Spec => []DisputeStamped
<1>1. Init => DisputeStamped
  BY DEF Init, DisputeStamped
<1>2. TypeOK /\ DisputeStamped /\ [Next]_vars => DisputeStamped'
  BY StampedStep
<1>3. QED
  BY <1>1, <1>2, TypeCorrect, PTL DEF Spec

-----------------------------------------------------------------------------
(* The admin role.                                                         *)

(* A pending nomination is the work of the admin in office.                *)
NominationCurrent ==
  pendingAdmin # None => admin # None /\ nominator = admin

(* NominationCurrent is inductive, and gives the handover.                  *)
LEMMA NominationStep ==
  ASSUME TypeOK, NominationCurrent, [Next]_vars
  PROVE  /\ NominationCurrent'
         /\ admin # None /\ admin' # admin =>
              admin' = pendingAdmin /\ nominator = admin
<1> USE DEF NominationCurrent
<1>1. CASE UNCHANGED adminVars
  BY <1>1 DEF adminVars
<1>2. CASE Administer
  <2>1. ASSUME NEW a \in Founders, NEW t \in Tokens, NEW fee \in FeeOffers,
               InitContract(a, t, fee)
        PROVE  admin = None /\ NominationCurrent'
    BY <2>1 DEF InitContract
  <2>2. ASSUME NEW a \in Nominees, AcceptAdmin(a)
        PROVE  /\ NominationCurrent'
               /\ admin' = pendingAdmin /\ nominator = admin
    BY <2>2 DEF AcceptAdmin, Nominated
  <2>3. ASSUME NEW a \in Nominees, ProposeAdmin(a)
        PROVE  NominationCurrent' /\ admin' = admin
    BY <2>3 DEF ProposeAdmin
  <2>4. ASSUME NEW flag \in BOOLEAN, SetPaused(flag)
        PROVE  NominationCurrent' /\ admin' = admin
    BY <2>4 DEF SetPaused
  <2>5. QED
    BY <1>1, <1>2, <2>1, <2>2, <2>3, <2>4
       DEF Administer, UpdatePlatformFee, UpdateSlippageTolerance,
           SetSettlementContract, SetFleetManagementContract,
           SetDisputeResolutionContract, SetVolumeTiers, SweepUntrackedBalance
<1>3. CASE Create
  BY <1>1, <1>3, CreateRecords
<1>4. ASSUME NEW id \in Ids, Progress(id) PROVE UNCHANGED adminVars
  BY <1>4, ProgressShape DEF Closes, Moves
<1>5. CASE Environment
  BY <1>1, <1>5 DEF Environment, MistakenTransfer, Tick
<1>6. QED
  BY <1>1, <1>2, <1>3, <1>4, <1>5 DEF Next, vars

(* The admin role passes only to whom the admin in office named; a         *)
(* nomination never outlives the admin who made it.                        *)
THEOREM HandoverHolds == Spec => AdminHandover
<1>1. Init => NominationCurrent
  BY DEF Init, NominationCurrent
<1>2. TypeOK /\ NominationCurrent /\ [Next]_vars => NominationCurrent'
  BY NominationStep
<1>3. TypeOK /\ NominationCurrent /\ [Next]_vars =>
        [admin # None /\ admin' # admin =>
           admin' = pendingAdmin /\ nominator = admin]_vars
  BY NominationStep
<1>4. QED
  BY <1>1, <1>2, <1>3, TypeCorrect, PTL DEF Spec, AdminHandover

-----------------------------------------------------------------------------
(* The indexes.                                                            *)

(* IndexExact is inductive together with TypeOK.                            *)
LEMMA IndexStep ==
  ASSUME TypeOK, IndexExact, [Next]_vars
  PROVE  IndexExact'
<1> USE DEF IndexExact
<1>1. CASE UNCHANGED <<escrow, bySender, byRecipient, byDriver>>
  BY <1>1
<1>2. ASSUME NEW s \in Senders, NEW r \in Recipients, NEW d \in Drivers,
             NEW id \in Ids, NEW t \in Tokens, NEW n \in AmountOffers,
             NEW fleet \in FleetIds, CreateEscrow(s, r, d, id, t, n, fleet)
      PROVE  IndexExact'
  <2> DEFINE q == NewRecord(s, r, d, t, n, now + EscrowExpiry, fleet)
  <2>1. /\ escrow[id] = None /\ escrow' = [escrow EXCEPT ![id] = q]
        /\ bySender' = [bySender EXCEPT ![s][id] = bySender[s][id] + 1]
        /\ byRecipient' = [byRecipient EXCEPT ![r][id] = byRecipient[r][id] + 1]
        /\ byDriver' = [byDriver EXCEPT ![d][id] = byDriver[d][id] + 1]
    BY <1>2 DEF CreateEscrow
  <2>2. s \in Addresses /\ r \in Addresses /\ d \in Addresses
    BY AddressAssumption
  <2>3. escrow'[id] = q /\ \A i \in Ids \ {id} : escrow'[i] = escrow[i]
    BY <2>1 DEF TypeOK
  <2>4. q # None
    BY <1>2, CreatedRecord, RecordAssumption
  <2>5. q.sender = s /\ q.recipient = r /\ q.driver = d
    BY DEF NewRecord
  <2>6. /\ bySender \in [Addresses -> [Ids -> Nat]]
        /\ byRecipient \in [Addresses -> [Ids -> Nat]]
        /\ byDriver \in [Addresses -> [Ids -> Nat]]
    BY DEF TypeOK
  <2> HIDE DEF q
  <2>7. ASSUME NEW a \in Addresses, NEW i \in Ids
        PROVE  /\ bySender'[a][i] = bySender[a][i] + Occurs(i = id /\ a = s)
               /\ byRecipient'[a][i] = byRecipient[a][i] + Occurs(i = id /\ a = r)
               /\ byDriver'[a][i] = byDriver[a][i] + Occurs(i = id /\ a = d)
    BY <2>1, <2>2, <2>6 DEF Occurs
  <2>8. QED
    BY <2>1, <2>2, <2>3, <2>4, <2>5, <2>6, <2>7 DEF Occurs
<1>3. ASSUME NEW s \in Senders, NEW r \in Recipients, NEW t \in Tokens,
             NEW batch \in Batches, CreateEscrowsBatch(s, r, t, batch)
      PROVE  IndexExact'
  <2> DEFINE new == BatchIds(batch)
  <2>1. /\ \A id \in new : escrow[id] = None
        /\ bySender' = IndexBatch(bySender, s, new)
        /\ byRecipient' = IndexBatch(byRecipient, r, new)
        /\ byDriver' = IndexDriversOfBatch(batch)
    BY <1>3 DEF CreateEscrowsBatch
  <2>2. s \in Addresses /\ r \in Addresses
    BY AddressAssumption
  <2>3. ASSUME NEW i \in Ids, i \in new
        PROVE  /\ escrow'[i] # None
               /\ escrow'[i].sender = s /\ escrow'[i].recipient = r
               /\ escrow'[i].driver = ItemFor(batch, i).driver
    <3>1. escrow'[i] = NewRecord(s, r, ItemFor(batch, i).driver, t,
                                 ItemFor(batch, i).amount, None, None)
      BY <1>3, <2>3 DEF CreateEscrowsBatch
    <3>2. escrow'[i] # None
      BY <1>3, <2>3, <3>1, BatchRecord, RecordAssumption
    <3>3. QED
      BY <3>1, <3>2 DEF NewRecord
  <2>4. ASSUME NEW i \in Ids, i \notin new
        PROVE  escrow'[i] = escrow[i]
    BY <1>3, <2>4 DEF CreateEscrowsBatch
  <2>5. /\ bySender \in [Addresses -> [Ids -> Nat]]
        /\ byRecipient \in [Addresses -> [Ids -> Nat]]
        /\ byDriver \in [Addresses -> [Ids -> Nat]]
    BY DEF TypeOK
  <2> HIDE DEF new
  <2>6. ASSUME NEW a \in Addresses, NEW i \in Ids
        PROVE  /\ bySender'[a][i] = bySender[a][i] + Occurs(i \in new /\ a = s)
               /\ byRecipient'[a][i] = byRecipient[a][i] + Occurs(i \in new /\ a = r)
    BY <2>1, <2>2, <2>5 DEF IndexBatch, Occurs
  <2>7. ASSUME NEW a \in Addresses, NEW i \in Ids
        PROVE  byDriver'[a][i] = byDriver[a][i]
                 + Occurs(i \in new /\ ItemFor(batch, i).driver = a)
    BY <2>1 DEF IndexDriversOfBatch, new
  <2>8. ASSUME NEW a \in Addresses, NEW i \in Ids, i \in new
        PROVE  /\ bySender[a][i] = 0 /\ byRecipient[a][i] = 0 /\ byDriver[a][i] = 0
    BY <2>1, <2>8 DEF Occurs
  <2>9. ASSUME NEW a \in Addresses, NEW i \in Ids, i \in new
        PROVE  /\ bySender'[a][i] = Occurs(escrow'[i] # None /\ escrow'[i].sender = a)
               /\ byRecipient'[a][i] =
                    Occurs(escrow'[i] # None /\ escrow'[i].recipient = a)
               /\ byDriver'[a][i] = Occurs(escrow'[i] # None /\ escrow'[i].driver = a)
    BY <2>3, <2>6, <2>7, <2>8, <2>9 DEF Occurs
  <2>10. ASSUME NEW a \in Addresses, NEW i \in Ids, i \notin new
         PROVE  /\ bySender'[a][i] = bySender[a][i]
                /\ byRecipient'[a][i] = byRecipient[a][i]
                /\ byDriver'[a][i] = byDriver[a][i]
                /\ escrow'[i] = escrow[i]
    BY <2>4, <2>5, <2>6, <2>7, <2>10 DEF Occurs
  <2>11. QED
    BY <2>9, <2>10
<1>4. ASSUME NEW id \in Ids, Progress(id)
      PROVE  IndexExact'
  <2>1. UNCHANGED <<bySender, byRecipient, byDriver>>
    BY <1>4, ProgressShape DEF Closes, Moves, indexVars
  <2>2. /\ \A i \in Ids \ {id} : escrow'[i] = escrow[i]
        /\ escrow[id] # None /\ escrow'[id] # None
        /\ SameTerms(escrow[id], escrow'[id])
    BY <1>4, ProgressRecord, RecordAssumption DEF Advances
  <2>3. QED
    BY <2>1, <2>2 DEF SameTerms, Occurs
<1>5. QED
  BY <1>1, <1>2, <1>3, <1>4, RecordsFramed DEF Next, Create, vars, indexVars

(* Each index lists every escrow of its party exactly once and nothing     *)
(* else, whatever mix of single and batch creation filled it.              *)
THEOREM IndexesExact == Spec => []IndexExact
<1>1. Init => IndexExact
  BY DEF Init, IndexExact, Occurs
<1>2. TypeOK /\ IndexExact /\ [Next]_vars => IndexExact'
  BY IndexStep
<1>3. QED
  BY <1>1, <1>2, TypeCorrect, PTL DEF Spec

-----------------------------------------------------------------------------
(* The contract implements the abstract custody.                           *)

SlotOf(r) ==
  IF r = None THEN "empty" ELSE IF r.status \in Live THEN "held" ELSE "settled"

DepositOf(r) == IF r = None THEN 0 ELSE r.amount

slotBar == [id \in Ids |-> CustodyStatus(id)]
depositBar == [id \in Ids |-> IF escrow[id] = None THEN 0 ELSE escrow[id].amount]

(* The refinement mapping, delivery by delivery.                           *)
LEMMA Mapping ==
  /\ slotBar = [id \in Ids |-> SlotOf(escrow[id])]
  /\ depositBar = [id \in Ids |-> DepositOf(escrow[id])]
  /\ slotBar' = [id \in Ids |-> SlotOf(escrow'[id])]
  /\ depositBar' = [id \in Ids |-> DepositOf(escrow'[id])]
BY DEF slotBar, depositBar, CustodyStatus, SlotOf, DepositOf

(* Every step is a step of module Custody or leaves its view unchanged.     *)
LEMMA CustodyStep ==
  ASSUME TypeOK, TypeOK', PayoutMatchesStatus, [Next]_vars
  PROVE  [Promise!Next]_(Promise!vars)
<1> USE DEF Promise!vars
<1>1. CASE slotBar' = slotBar /\ depositBar' = depositBar /\ paid' = paid
  BY <1>1 DEF slotBar, depositBar
<1>2. CASE UNCHANGED <<escrow, paid>>
  BY <1>1, <1>2, Mapping
<1>3. CASE Create
  <2>1. \A id \in Ids : \/ escrow'[id] = escrow[id]
                        \/ escrow[id] = None /\ Fresh(escrow'[id])
    BY <1>3, CreateRecords
  <2>2. paid' = paid
    BY <1>3, CreateRecords
  <2>3. slotBar' \in [Ids -> {"empty", "held", "settled"}]
    BY Mapping DEF SlotOf
  <2>4. depositBar' \in [Ids -> Nat]
    BY Mapping DEF DepositOf, TypeOK, EscrowRecord
  <2>5. ASSUME NEW id \in Ids
        PROVE  \/ slotBar'[id] = slotBar[id] /\ depositBar'[id] = depositBar[id]
               \/ slotBar[id] = "empty" /\ slotBar'[id] = "held"
    BY <2>1, Mapping, RecordAssumption DEF SlotOf, DepositOf, Fresh, Live
  <2>6. Promise!Deposit
    BY <2>2, <2>3, <2>4, <2>5 DEF Promise!Deposit, slotBar, depositBar
  <2>7. QED
    BY <2>6 DEF Promise!Next
<1>4. ASSUME NEW id \in Ids, Progress(id)
      PROVE  [Promise!Next]_(Promise!vars)
  <2>1. /\ escrow[id] \in EscrowRecord /\ escrow[id].status \in Live
        /\ escrow'[id] \in EscrowRecord
        /\ escrow'[id].amount = escrow[id].amount
        /\ \A i \in Ids \ {id} : escrow'[i] = escrow[i]
    BY <1>4, ProgressRecord DEF Advances, SameTerms
  <2>2. depositBar' = depositBar
    BY <2>1, Mapping, RecordAssumption DEF DepositOf
  <2>3. slotBar[id] = "held"
    BY <2>1, Mapping, RecordAssumption DEF SlotOf
  <2>4. CASE Closes(id)
    <3>1. paid[id] = NothingPaid
      BY <2>1, PaidRightDef DEF PaidRight
    <3>2. /\ paid'[id] \in Payout
          /\ paid'[id].sender + paid'[id].driver + paid'[id].fee = escrow[id].amount
          /\ paid'[id].fee * BASIS_POINTS <= escrow[id].amount * MAX_PLATFORM_FEE_BPS
          /\ paid'[id].sender > 0 => paid'[id].fee = 0
          /\ escrow'[id].status \notin Live
          /\ \A i \in Ids \ {id} : paid'[i] = paid[i]
      BY <2>4, <3>1, PaidOnClose
    <3>3. depositBar[id] = escrow[id].amount
      BY <2>1, Mapping, RecordAssumption DEF DepositOf
    <3>4. Promise!Fair(paid'[id], depositBar[id])
      BY <3>2, <3>3 DEF Promise!Fair, Promise!Total, Promise!Payout, Payout
    <3>5. slotBar' = [slotBar EXCEPT ![id] = "settled"]
      BY <2>1, <3>2, Mapping, RecordAssumption DEF SlotOf
    <3>6. DOMAIN paid' = Ids
      BY DEF TypeOK
    <3>7. Promise!Settle(id)
      BY <2>2, <2>3, <3>2, <3>4, <3>5, <3>6
         DEF Promise!Settle, slotBar, depositBar
    <3>8. QED
      BY <3>7 DEF Promise!Next
  <2>5. CASE Moves(id)
    <3>1. paid' = paid
      BY <2>5 DEF Moves, fundVars
    <3>2. PICK q : MovedTo(escrow[id], q) /\ escrow' = [escrow EXCEPT ![id] = q]
      BY <2>5 DEF Moves
    <3>3. escrow'[id] = q /\ now \in Nat
      BY <3>2 DEF TypeOK
    <3>4. escrow'[id].status \in Live
      BY <2>1, <3>2, <3>3, MovedFacts DEF Live
    <3>5. slotBar' = slotBar
      BY <2>1, <3>4, Mapping, RecordAssumption DEF SlotOf
    <3>6. QED
      BY <1>1, <2>2, <3>1, <3>5
  <2>6. QED
    BY <1>4, <2>4, <2>5, ProgressShape
<1>5. QED
  BY <1>2, <1>3, <1>4, RecordsFramed DEF Next, vars, fundVars

(* Seen from the parties of a delivery, the contract is the custody of     *)
(* module Custody: money goes in, is held, and leaves once, to the unit,   *)
(* with at most the capped fee and none on money that goes back.           *)
THEOREM ImplementsCustody == Spec => CustodyKept
<1>1. Init => Promise!Init
  BY DEF Init, Promise!Init, CustodyStatus, Promise!NothingPaid, NothingPaid
<1>2. TypeOK /\ TypeOK' /\ PayoutMatchesStatus /\ [Next]_vars =>
        [Promise!Next]_(Promise!vars)
  BY CustodyStep
<1>3. QED
  BY <1>1, <1>2, TypeCorrect, PaidAsStated, PTL
     DEF Spec, CustodyKept, Promise!Spec
-----------------------------------------------------------------------------
(* The pause.                                                              *)

(* Closing one escrow pays from no other.                                  *)
LEMMA CloseStatus ==
  ASSUME TypeOK, NEW id \in Ids, escrow[id] # None, NEW status \in Statuses,
         NEW toSender, NEW toDriver, NEW fee,
         Close(id, status, toSender, toDriver, fee)
  PROVE  /\ escrow'[id].status = status
         /\ \A i \in Ids \ {id} : paid'[i] = paid[i]
<1>1. escrow[id] \in EscrowRecord
  BY DEF TypeOK
<1>2. escrow' = [escrow EXCEPT ![id] = [escrow[id] EXCEPT !.status = status]]
  BY DEF Close
<1>3. escrow'[id] = [escrow[id] EXCEPT !.status = status]
  BY <1>2 DEF TypeOK
<1>4. escrow'[id].status = status
  BY <1>1, <1>3 DEF EscrowRecord
<1>5. \A i \in Ids \ {id} : paid'[i] = paid[i]
  BY DEF Close, TypeOK
<1>6. QED
  BY <1>4, <1>5

(* Under the pause, money leaves an escrow by the release of its holdback  *)
(* or the reclaim after its deadline only; release_holdback_escrow and     *)
(* reclaim_expired_escrow are the two functions that do not look at the    *)
(* flag.                                                                   *)
THEOREM PauseKeeps == Spec => PausedPayouts
<1> DEFINE Leaves(i) ==
      \/ escrow[i].status = "Holdback" /\ escrow'[i].status = "Released"
      \/ /\ escrow[i].status = "Locked" /\ Expired(escrow[i])
         /\ escrow'[i].status = "Refunded"
<1>1. ASSUME TypeOK, Next, paused, NEW i \in Ids, paid'[i] # paid[i]
      PROVE  Leaves(i)
  <2>1. CASE Administer \/ Environment \/ Create
    BY <1>1, <2>1, RecordsFramed, CreateRecords
  <2>2. ASSUME NEW id \in Ids, Progress(id) PROVE Leaves(i)
    <3>1. CASE \E caller \in Callers : ReleaseHoldbackEscrow(caller, id)
      <4>1. /\ escrow[id] # None /\ escrow[id].status = "Holdback"
            /\ SettleEscrowFunds(id)
        BY <3>1 DEF ReleaseHoldbackEscrow, InStatus, HoldbackReleasableFrom
      <4>2. PICK net, fee : Close(id, "Released", 0, net, fee)
        BY <4>1 DEF SettleEscrowFunds
      <4>3. /\ escrow'[id].status = "Released"
            /\ \A k \in Ids \ {id} : paid'[k] = paid[k]
        BY <1>1, <4>1, <4>2, CloseStatus DEF Statuses
      <4>4. QED
        BY <1>1, <4>1, <4>3
    <3>2. CASE ReclaimExpiredEscrow(id)
      <4>1. /\ escrow[id] # None /\ escrow[id].status = "Locked"
            /\ Expired(escrow[id]) /\ RefundSender(id)
        BY <3>2 DEF ReclaimExpiredEscrow, InStatus
      <4>2. Close(id, "Refunded", escrow[id].amount, 0, 0)
        BY <4>1 DEF RefundSender
      <4>3. /\ escrow'[id].status = "Refunded"
            /\ \A k \in Ids \ {id} : paid'[k] = paid[k]
        BY <1>1, <4>1, <4>2, CloseStatus DEF Statuses
      <4>4. QED
        BY <1>1, <4>1, <4>3
    <3>3. CASE \/ \E caller \in Callers :
                    MarkHoldbackEscrow(caller, id) \/ RaiseDispute(caller, id)
               \/ FreezeFunds(id)
      BY <1>1, <3>3 DEF MarkHoldbackEscrow, RaiseDispute, FreezeFunds, fundVars
    <3>4. CASE \/ \E caller \in Callers :
                    ReleaseEscrow(caller, id) \/ RefundEscrow(caller, id)
               \/ ResolveDisputeRelease(id) \/ ResolveDisputeRefund(id)
               \/ \E bps \in ShareOffers : ResolveDisputeSplit(id, bps)
      BY <1>1, <3>4 DEF ReleaseEscrow, RefundEscrow, ResolveDisputeRelease,
                        ResolveDisputeRefund, ResolveDisputeSplit
    <3>5. QED
      BY <2>2, <3>1, <3>2, <3>3, <3>4 DEF Progress
  <2>3. QED
    BY <1>1, <2>1, <2>2 DEF Next
<1>2. TypeOK /\ [Next]_vars =>
        [paused => \A id \in Ids : paid'[id] # paid[id] =>
           \/ escrow[id].status = "Holdback" /\ escrow'[id].status = "Released"
           \/ /\ escrow[id].status = "Locked" /\ Expired(escrow[id])
              /\ escrow'[id].status = "Refunded"]_vars
  BY <1>1
<1>3. QED
  BY <1>2, TypeCorrect, PTL DEF Spec, PausedPayouts

=============================================================================
