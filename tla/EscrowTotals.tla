----------------------------- MODULE EscrowTotals -----------------------------
(***************************************************************************)
(* Proofs about the sums that the escrow contract keeps by hand: how many  *)
(* of a sender's escrows were released, and how much is locked.            *)
(***************************************************************************)
EXTENDS EscrowProofs, Sums

-----------------------------------------------------------------------------
(* Volumes.                                                                *)

ReleaseOf(r, a) == Occurs(r # None /\ r.status = "Released" /\ r.sender = a)

ReleasesOf(e, a) == [id \in Ids |-> ReleaseOf(e[id], a)]

(* The property, as a sum over the records.                                *)
LEMMA VolumeDef ==
  /\ VolumeCountsReleases <=>
       \A a \in Addresses :
         senderVolume[a] = Smaller(SumFunctionOnSet(ReleasesOf(escrow, a), Ids), MaxU32)
  /\ VolumeCountsReleases' <=>
       \A a \in Addresses :
         senderVolume'[a] = Smaller(SumFunctionOnSet(ReleasesOf(escrow', a), Ids), MaxU32)
<1>1. ASSUME NEW a
      PROVE  /\ [id \in Ids |-> Occurs(InStatus(id, {"Released"})
                                         /\ escrow[id].sender = a)]
                  = ReleasesOf(escrow, a)
             /\ [id \in Ids |-> Occurs(InStatus(id, {"Released"})
                                         /\ escrow[id].sender = a)]'
                  = ReleasesOf(escrow', a)
  BY DEF InStatus, Occurs, ReleasesOf, ReleaseOf
<1>2. ASSUME NEW a
      PROVE  DOMAIN ReleasesOf(escrow, a) = Ids /\ DOMAIN ReleasesOf(escrow', a) = Ids
  BY DEF ReleasesOf
<1>3. QED
  BY <1>1, <1>2 DEF VolumeCountsReleases, ReleasedFor, SumFunction

(* A step on an escrow counts one completion for its sender if it releases *)
(* the escrow, and none otherwise.                                         *)
LEMMA ReleaseCounted ==
  ASSUME TypeOK, NEW id \in Ids, Progress(id)
  PROVE  \/ escrow'[id].status = "Released" /\ CountCompletion(escrow[id].sender)
         \/ escrow'[id].status # "Released" /\ UNCHANGED senderVolume
<1>1. ASSUME NEW status \in Statuses, NEW toSender, NEW toDriver, NEW fee,
             escrow[id] # None, Close(id, status, toSender, toDriver, fee)
      PROVE  escrow'[id].status = status
  <2>1. escrow[id] \in EscrowRecord
    BY <1>1 DEF TypeOK
  <2>2. escrow'[id] = [escrow[id] EXCEPT !.status = status]
    BY <1>1 DEF Close, TypeOK
  <2>3. QED
    BY <2>1, <2>2 DEF EscrowRecord
<1>2. ASSUME escrow[id] # None, admin # None, SettleEscrowFunds(id)
      PROVE  escrow'[id].status = "Released"
  BY <1>1, <1>2, SettleEffect DEF Statuses
<1>3. ASSUME escrow[id] # None, RefundSender(id)
      PROVE  escrow'[id].status # "Released"
  BY <1>1, <1>3, RefundEffect DEF Statuses
<1>4. ASSUME Moves(id)
      PROVE  escrow'[id].status # "Released" /\ UNCHANGED senderVolume
  <2>1. PICK q : MovedTo(escrow[id], q) /\ escrow' = [escrow EXCEPT ![id] = q]
    BY <1>4 DEF Moves
  <2>2. escrow[id] \in EscrowRecord /\ now \in Nat /\ escrow'[id] = q
    BY <1>4, <2>1 DEF Moves, TypeOK
  <2>3. q.status \in {"Holdback", "Paused"}
    BY <2>1, <2>2, MovedFacts
  <2>4. QED
    BY <1>4, <2>2, <2>3 DEF Moves
<1>5. ASSUME NEW caller \in Callers,
             ReleaseEscrow(caller, id) \/ ReleaseHoldbackEscrow(caller, id)
      PROVE  escrow'[id].status = "Released" /\ CountCompletion(escrow[id].sender)
  BY <1>2, <1>5 DEF ReleaseEscrow, ReleaseHoldbackEscrow, InStatus
<1>6. ASSUME ResolveDisputeRelease(id)
      PROVE  escrow'[id].status = "Released" /\ CountCompletion(escrow[id].sender)
  BY <1>2, <1>6 DEF ResolveDisputeRelease, InStatus
<1>7. ASSUME NEW caller \in Callers, RefundEscrow(caller, id)
      PROVE  escrow'[id].status # "Released" /\ UNCHANGED senderVolume
  BY <1>3, <1>7 DEF RefundEscrow, InStatus
<1>8. ASSUME ReclaimExpiredEscrow(id) \/ ResolveDisputeRefund(id)
      PROVE  escrow'[id].status # "Released" /\ UNCHANGED senderVolume
  BY <1>3, <1>8 DEF ReclaimExpiredEscrow, ResolveDisputeRefund, InStatus
<1>9. ASSUME NEW bps \in ShareOffers, ResolveDisputeSplit(id, bps)
      PROVE  escrow'[id].status # "Released" /\ UNCHANGED senderVolume
  <2>1. PICK toSender, toDriver : Close(id, "Split", toSender, toDriver, 0)
    BY <1>9 DEF ResolveDisputeSplit
  <2>2. escrow[id] # None /\ UNCHANGED senderVolume
    BY <1>9 DEF ResolveDisputeSplit, InStatus
  <2>3. escrow'[id].status = "Split"
    BY <1>1, <2>1, <2>2 DEF Statuses
  <2>4. QED
    BY <2>2, <2>3
<1>10. ASSUME NEW caller \in Callers,
              MarkHoldbackEscrow(caller, id) \/ RaiseDispute(caller, id)
       PROVE  Moves(id)
  BY <1>10, MovingMoves
<1>11. ASSUME FreezeFunds(id)
       PROVE  Moves(id)
  BY <1>11, MovingMoves
<1>12. QED
  BY <1>4, <1>5, <1>6, <1>7, <1>8, <1>9, <1>10, <1>11 DEF Progress

(* VolumeCountsReleases is inductive together with TypeOK.                 *)
LEMMA VolumeStep ==
  ASSUME TypeOK, VolumeCountsReleases, [Next]_vars, IsFiniteSet(Ids)
  PROVE  VolumeCountsReleases'
<1>1. \A a \in Addresses :
        senderVolume[a] = Smaller(SumFunctionOnSet(ReleasesOf(escrow, a), Ids), MaxU32)
  BY VolumeDef
<1>2. ASSUME NEW a \in Addresses, NEW id \in Ids
      PROVE  ReleasesOf(escrow, a)[id] \in Int /\ ReleasesOf(escrow', a)[id] \in Int
  BY DEF ReleasesOf, ReleaseOf, Occurs
<1>3. ASSUME UNCHANGED senderVolume,
             \A id \in Ids, a \in Addresses :
               ReleaseOf(escrow'[id], a) = ReleaseOf(escrow[id], a)
      PROVE  VolumeCountsReleases'
  <2>1. \A a \in Addresses : ReleasesOf(escrow', a) = ReleasesOf(escrow, a)
    BY <1>3 DEF ReleasesOf
  <2>2. QED
    BY <1>1, <1>3, <2>1, VolumeDef
<1>4. CASE UNCHANGED <<escrow, senderVolume>>
  BY <1>3, <1>4
<1>5. CASE Create
  BY <1>3, <1>5, CreateRecords, RecordAssumption DEF ReleaseOf, Occurs, Fresh
<1>6. ASSUME NEW id \in Ids, Progress(id)
      PROVE  VolumeCountsReleases'
  <2> DEFINE s == escrow[id].sender
  <2>1. /\ escrow[id] \in EscrowRecord /\ escrow'[id] \in EscrowRecord
        /\ escrow[id].status # "Released"
        /\ escrow'[id].sender = s
        /\ \A i \in Ids \ {id} : escrow'[i] = escrow[i]
    BY <1>6, ProgressRecord DEF Advances, SameTerms, Live
  <2>2. s \in Addresses /\ senderVolume \in [Addresses -> Nat]
    BY <2>1 DEF EscrowRecord, TypeOK
  <2>3. CASE escrow'[id].status # "Released" /\ UNCHANGED senderVolume
    BY <1>3, <2>1, <2>3 DEF ReleaseOf, Occurs
  <2>4. CASE escrow'[id].status = "Released" /\ CountCompletion(s)
    <3>1. ASSUME NEW a \in Addresses
          PROVE  senderVolume'[a] =
                   Smaller(SumFunctionOnSet(ReleasesOf(escrow', a), Ids), MaxU32)
      <4> DEFINE f == ReleasesOf(escrow, a)
                 g == ReleasesOf(escrow', a)
      <4>1. /\ f[id] = 0 /\ g[id] = (IF a = s THEN 1 ELSE 0)
            /\ \A i \in Ids \ {id} : g[i] = f[i]
        BY <2>1, <2>4, RecordAssumption DEF ReleasesOf, ReleaseOf, Occurs
      <4>2. \A i \in Ids : f[i] \in Int /\ g[i] \in Int
        BY <1>2
      <4> HIDE DEF f, g
      <4>3. SumFunctionOnSet(g, Ids) = SumFunctionOnSet(f, Ids) - f[id] + g[id]
        BY <4>1, <4>2, SumChange
      <4>4. SumFunctionOnSet(f, Ids) \in Int
        BY <4>2, SumRemove
      <4>5. senderVolume[a] = Smaller(SumFunctionOnSet(f, Ids), MaxU32)
        BY <1>1 DEF f
      <4>6. senderVolume'[a] = IF a = s THEN Smaller(senderVolume[a] + 1, MaxU32)
                               ELSE senderVolume[a]
        BY <2>2, <2>4 DEF CountCompletion
      <4>7. senderVolume'[a] = Smaller(SumFunctionOnSet(g, Ids), MaxU32)
        BY <4>1, <4>3, <4>4, <4>5, <4>6, NumberAssumption DEF Smaller
      <4>8. QED
        BY <4>7 DEF g
    <3>2. QED
      BY <3>1, VolumeDef
  <2>5. QED
    BY <1>6, <2>3, <2>4, ReleaseCounted
<1>7. QED
  BY <1>4, <1>5, <1>6, RecordsFramed DEF Next, vars

(* A sender's volume is the number of that sender's escrows that were      *)
(* released, as far as a u32 counts: whoever released them and by          *)
(* whichever of the three paths, each is counted once, and no refund,      *)
(* split or reclaim is counted.                                            *)
THEOREM VolumesExact ==
  ASSUME IsFiniteSet(Ids)
  PROVE  Spec => []VolumeCountsReleases
<1>1. Init => VolumeCountsReleases
  <2> SUFFICES ASSUME Init PROVE VolumeCountsReleases
    OBVIOUS
  <2>1. ASSUME NEW a \in Addresses
        PROVE  senderVolume[a] =
                 Smaller(SumFunctionOnSet(ReleasesOf(escrow, a), Ids), MaxU32)
    <3>1. ReleasesOf(escrow, a) = [id \in Ids |-> 0]
      BY DEF Init, ReleasesOf, ReleaseOf, Occurs
    <3>2. SumFunctionOnSet([id \in Ids |-> 0], Ids) = 0
      BY SumOfConstant, FS_CardinalityType
    <3>3. QED
      BY <3>1, <3>2, NumberAssumption DEF Init, Smaller
  <2>2. QED
    BY <2>1, VolumeDef
<1>2. TypeOK /\ VolumeCountsReleases /\ [Next]_vars => VolumeCountsReleases'
  BY VolumeStep
<1>3. QED
  BY <1>1, <1>2, TypeCorrect, PTL DEF Spec

-----------------------------------------------------------------------------
(* Totals.                                                                 *)

(* What a record adds to LiveAmount and to BatchAmount of token t, and the *)
(* difference: what the contract has counted for it.                       *)
HeldOf(r, t) == IF r # None /\ r.status \in Live /\ r.token = t THEN r.amount ELSE 0

BatchOf(r, t) ==
  IF r # None /\ r.expires_at = None /\ r.token = t THEN r.amount ELSE 0

CountedOf(r, t) == HeldOf(r, t) - BatchOf(r, t)

Counted(e, t) == [id \in Ids |-> CountedOf(e[id], t)]

CountedSum(e, t) == SumFunctionOnSet(Counted(e, t), Ids)

(* The inductive form of TotalLockedDrift, with one sum instead of two.    *)
TotalsInv == \A t \in Tokens : totalLocked[t] = CountedSum(escrow, t)

(* The sums stay where saturating arithmetic is exact.                     *)
Unsaturated ==
  \A t \in Tokens : CountedSum(escrow, t) \in (-MaxI128 - 1)..MaxI128

(* The constants of a deployment in which they do: all deliveries together *)
(* cannot move more than an i128 holds.                                    *)
AmountsFit == \A n \in AmountOffers : Cardinality(Ids) * n <= MaxI128

Records == [Ids -> EscrowRecord \cup {None}]

(* What is counted for a record is an integer.                             *)
LEMMA CountedType ==
  ASSUME NEW r \in EscrowRecord \cup {None}, NEW t
  PROVE  HeldOf(r, t) \in Nat /\ BatchOf(r, t) \in Nat /\ CountedOf(r, t) \in Int
<1>1. HeldOf(r, t) \in Nat /\ BatchOf(r, t) \in Nat
  BY DEF HeldOf, BatchOf, EscrowRecord
<1>2. QED
  BY <1>1 DEF CountedOf

(* The sum of what is counted is the difference of the two amounts.        *)
LEMMA CountedAmounts ==
  ASSUME IsFiniteSet(Ids), escrow \in Records, NEW t \in Tokens
  PROVE  /\ CountedSum(escrow, t) \in Int
         /\ LiveAmount(t) \in Int /\ BatchAmount(t) \in Int
         /\ CountedSum(escrow, t) = LiveAmount(t) - BatchAmount(t)
<1> DEFINE f == [id \in Ids |-> HeldOf(escrow[id], t)]
           g == [id \in Ids |-> BatchOf(escrow[id], t)]
           h == Counted(escrow, t)
<1>1. LiveAmount(t) = SumFunctionOnSet(f, Ids)
  <2>1. f = [id \in Ids |-> IF id \in Held /\ escrow[id].token = t
                            THEN escrow[id].amount ELSE 0]
    BY DEF HeldOf, Held
  <2>2. DOMAIN f = Ids
    OBVIOUS
  <2> HIDE DEF f
  <2>3. QED
    BY <2>1, <2>2 DEF LiveAmount, SumFunction
<1>2. BatchAmount(t) = SumFunctionOnSet(g, Ids)
  <2>1. g = [id \in Ids |-> IF /\ escrow[id] # None
                               /\ escrow[id].expires_at = None
                               /\ escrow[id].token = t
                            THEN escrow[id].amount ELSE 0]
    BY DEF BatchOf
  <2>2. DOMAIN g = Ids
    OBVIOUS
  <2> HIDE DEF g
  <2>3. QED
    BY <2>1, <2>2 DEF BatchAmount, SumFunction
<1>3. \A id \in Ids :
        f[id] \in Int /\ g[id] \in Int /\ h[id] \in Int /\ h[id] = f[id] - g[id]
  <2>1. ASSUME NEW id \in Ids
        PROVE  HeldOf(escrow[id], t) \in Nat /\ BatchOf(escrow[id], t) \in Nat
    BY CountedType DEF Records
  <2>2. QED
    BY <2>1 DEF Counted, CountedOf
<1> HIDE DEF f, g, h
<1>4. SumFunctionOnSet(f, Ids) \in Int /\ SumFunctionOnSet(g, Ids) \in Int
  BY <1>3, SumRemove
<1>5. SumFunctionOnSet(h, Ids) =
        SumFunctionOnSet(f, Ids) - SumFunctionOnSet(g, Ids)
  BY <1>3, SumDifference
<1>6. QED
  BY <1>1, <1>2, <1>4, <1>5 DEF CountedSum, h

(* Changing one record changes the sum by the change of what is counted    *)
(* for that record.                                                        *)
LEMMA CountedChange ==
  ASSUME IsFiniteSet(Ids), NEW e \in Records, NEW q \in Records, NEW t,
         NEW id \in Ids, \A i \in Ids \ {id} : q[i] = e[i]
  PROVE  CountedSum(q, t) =
           CountedSum(e, t) - CountedOf(e[id], t) + CountedOf(q[id], t)
<1> DEFINE f == Counted(e, t)
           g == Counted(q, t)
<1>1. \A i \in Ids : f[i] \in Int /\ g[i] \in Int
  BY CountedType DEF Counted, Records
<1>2. \A i \in Ids \ {id} : g[i] = f[i]
  BY DEF Counted
<1>3. f[id] = CountedOf(e[id], t) /\ g[id] = CountedOf(q[id], t)
  BY DEF Counted
<1> HIDE DEF f, g
<1>4. SumFunctionOnSet(g, Ids) = SumFunctionOnSet(f, Ids) - f[id] + g[id]
  BY <1>1, <1>2, SumChange
<1>5. QED
  BY <1>3, <1>4 DEF CountedSum, f, g

(* If the same is counted for every record, the sum is the same.           *)
LEMMA CountedKept ==
  ASSUME NEW e, NEW q, NEW t, \A id \in Ids : CountedOf(q[id], t) = CountedOf(e[id], t)
  PROVE  CountedSum(q, t) = CountedSum(e, t)
<1>1. Counted(q, t) = Counted(e, t)
  BY DEF Counted
<1>2. QED
  BY <1>1 DEF CountedSum

(* A single creation counts the amount of the new record.                  *)
LEMMA TotalsCreate ==
  ASSUME TypeOK, TypeOK', TotalsInv, Unsaturated', IsFiniteSet(Ids),
         NEW s \in Senders, NEW r \in Recipients, NEW d \in Drivers,
         NEW id \in Ids, NEW t \in Tokens, NEW n \in AmountOffers,
         NEW fleet \in FleetIds, CreateEscrow(s, r, d, id, t, n, fleet)
  PROVE  TotalsInv'
<1> DEFINE q == NewRecord(s, r, d, t, n, now + EscrowExpiry, fleet)
<1>1. escrow \in Records /\ escrow' \in Records
  BY DEF TypeOK, Records
<1>2. n \in Nat /\ q \in EscrowRecord
  BY CreatedRecord
<1>3. escrow[id] = None /\ escrow'[id] = q
      /\ \A i \in Ids \ {id} : escrow'[i] = escrow[i]
  BY <1>1 DEF CreateEscrow, Records
<1>4. q # None /\ q.expires_at # None /\ q.status \in Live
      /\ q.token = t /\ q.amount = n
  <2>1. now + EscrowExpiry \in Int
    BY NumberAssumption DEF TypeOK
  <2>2. QED
    BY <1>2, <2>1, NoneAssumption, RecordAssumption DEF NewRecord, Live
<1> HIDE DEF q
<1>5. ASSUME NEW u \in Tokens
      PROVE  /\ CountedOf(escrow[id], u) = 0
             /\ CountedOf(escrow'[id], u) = IF u = t THEN n ELSE 0
  BY <1>2, <1>3, <1>4 DEF CountedOf, HeldOf, BatchOf
<1>6. ASSUME NEW u \in Tokens
      PROVE  CountedSum(escrow', u) = totalLocked[u] + (IF u = t THEN n ELSE 0)
  <2>1. CountedSum(escrow', u) = CountedSum(escrow, u)
          - CountedOf(escrow[id], u) + CountedOf(escrow'[id], u)
    BY <1>1, <1>3, CountedChange
  <2>2. totalLocked[u] = CountedSum(escrow, u) /\ totalLocked[u] \in Int
    BY DEF TotalsInv, TypeOK
  <2>3. QED
    BY <1>2, <1>5, <2>1, <2>2
<1>7. totalLocked[t] \in Int /\ totalLocked[t] + n <= MaxI128
  BY <1>6, NumberAssumption DEF Unsaturated, TypeOK
<1>8. totalLocked' = [totalLocked EXCEPT ![t] = SaturatingAdd(totalLocked[t], n)]
  BY DEF CreateEscrow, Track
<1>9. SaturatingAdd(totalLocked[t], n) = totalLocked[t] + n
  BY <1>7 DEF SaturatingAdd, Smaller
<1>10. ASSUME NEW u \in Tokens
       PROVE  totalLocked'[u] = totalLocked[u] + (IF u = t THEN n ELSE 0)
  <2>1. totalLocked \in [Tokens -> Int]
    BY DEF TypeOK
  <2>2. totalLocked' = [totalLocked EXCEPT ![t] = totalLocked[t] + n]
    BY <1>8, <1>9
  <2>3. QED
    BY <2>1, <2>2
<1>11. QED
  BY <1>6, <1>10 DEF TotalsInv

(* A batch counts nothing: what its records add to the live amount they    *)
(* add to the batch amount.                                                *)
LEMMA TotalsBatch ==
  ASSUME TypeOK, TotalsInv, NEW s \in Senders, NEW r \in Recipients,
         NEW t \in Tokens, NEW batch \in Batches,
         CreateEscrowsBatch(s, r, t, batch)
  PROVE  TotalsInv'
<1>1. ASSUME NEW u \in Tokens, NEW id \in Ids
      PROVE  CountedOf(escrow'[id], u) = CountedOf(escrow[id], u)
  <2>1. CASE id \in BatchIds(batch)
    <3> DEFINE q == NewRecord(s, r, ItemFor(batch, id).driver, t,
                              ItemFor(batch, id).amount, None, None)
    <3>1. escrow[id] = None /\ escrow'[id] = q
      BY <2>1 DEF CreateEscrowsBatch
    <3>2. q \in EscrowRecord
      BY <2>1, BatchRecord
    <3>3. q.status \in Live /\ q.expires_at = None
      BY DEF NewRecord, Live
    <3>4. q.amount \in Nat
      BY <3>2 DEF EscrowRecord
    <3> HIDE DEF q
    <3>5. CountedOf(q, u) = 0
      BY <3>2, <3>3, <3>4, RecordAssumption DEF CountedOf, HeldOf, BatchOf
    <3>6. QED
      BY <3>1, <3>5 DEF CountedOf, HeldOf, BatchOf
  <2>2. CASE id \notin BatchIds(batch)
    BY <2>2 DEF CreateEscrowsBatch
  <2>3. QED
    BY <2>1, <2>2
<1>2. ASSUME NEW u \in Tokens
      PROVE  CountedSum(escrow', u) = CountedSum(escrow, u)
  BY <1>1, CountedKept
<1>3. totalLocked' = totalLocked
  BY DEF CreateEscrowsBatch
<1>4. QED
  BY <1>2, <1>3 DEF TotalsInv

(* Closing an escrow takes its amount off, and moving it takes nothing.    *)
LEMMA TotalsProgress ==
  ASSUME TypeOK, TypeOK', TotalsInv, Unsaturated', IsFiniteSet(Ids),
         NEW id \in Ids, Progress(id)
  PROVE  TotalsInv'
<1> DEFINE r == escrow[id]
           q == escrow'[id]
<1>1. escrow \in Records /\ escrow' \in Records
  BY DEF TypeOK, Records
<1>2. /\ r \in EscrowRecord /\ r.status \in Live /\ q \in EscrowRecord
      /\ q.token = r.token /\ q.amount = r.amount /\ q.expires_at = r.expires_at
      /\ \A i \in Ids \ {id} : escrow'[i] = escrow[i]
  BY ProgressRecord DEF Advances, SameTerms
<1>3. r.token \in Tokens /\ r.amount \in Nat /\ r # None /\ q # None
  BY <1>2, RecordAssumption DEF EscrowRecord
<1>4. ASSUME NEW u \in Tokens
      PROVE  /\ totalLocked[u] = CountedSum(escrow, u) /\ totalLocked[u] \in Int
             /\ CountedSum(escrow', u) = CountedSum(escrow, u)
                  - CountedOf(r, u) + CountedOf(q, u)
  BY <1>1, <1>2, CountedChange DEF TotalsInv, TypeOK
<1>5. CASE Closes(id)
  <2>1. q.status \notin Live
    <3>1. PICK status \in {"Released", "Refunded", "Split"} :
            escrow' = [escrow EXCEPT ![id] = [escrow[id] EXCEPT !.status = status]]
      BY <1>5 DEF Closes, ClosingPayment, Close
    <3>2. q = [r EXCEPT !.status = status]
      BY <1>1, <3>1 DEF Records
    <3>3. q.status = status
      BY <1>2, <3>2 DEF EscrowRecord
    <3>4. QED
      BY <3>3 DEF Live
  <2> HIDE DEF r, q
  <2>2. ASSUME NEW u \in Tokens
        PROVE  /\ CountedOf(r, u) = (IF u = r.token THEN r.amount ELSE 0) - BatchOf(r, u)
               /\ CountedOf(q, u) = 0 - BatchOf(r, u)
               /\ BatchOf(r, u) \in Nat
    BY <1>2, <1>3, <2>1 DEF CountedOf, HeldOf, BatchOf
  <2>3. ASSUME NEW u \in Tokens
        PROVE  CountedSum(escrow', u) =
                 totalLocked[u] - (IF u = r.token THEN r.amount ELSE 0)
    BY <1>3, <1>4, <2>2
  <2>4. totalLocked[r.token] \in Int /\ totalLocked[r.token] - r.amount >= -MaxI128 - 1
    BY <1>3, <1>4, <2>3, NumberAssumption DEF Unsaturated
  <2>5. totalLocked' = [totalLocked EXCEPT ![r.token] =
                          SaturatingSub(totalLocked[r.token], r.amount)]
    BY <1>5 DEF Closes, Close, Untrack, r
  <2>6. SaturatingSub(totalLocked[r.token], r.amount) = totalLocked[r.token] - r.amount
    BY <1>3, <2>4, NumberAssumption DEF SaturatingSub
  <2>7. ASSUME NEW u \in Tokens
        PROVE  totalLocked'[u] = totalLocked[u] - (IF u = r.token THEN r.amount ELSE 0)
    <3>1. totalLocked \in [Tokens -> Int]
      BY DEF TypeOK
    <3>2. totalLocked' = [totalLocked EXCEPT ![r.token] =
                            totalLocked[r.token] - r.amount]
      BY <2>5, <2>6
    <3>3. QED
      BY <1>3, <3>1, <3>2
  <2>8. QED
    BY <2>3, <2>7 DEF TotalsInv
<1>6. CASE Moves(id)
  <2>1. q.status \in Live
    <3>1. PICK p : MovedTo(escrow[id], p) /\ escrow' = [escrow EXCEPT ![id] = p]
      BY <1>6 DEF Moves
    <3>2. q = p /\ now \in Nat
      BY <1>1, <3>1 DEF Records, TypeOK
    <3>3. QED
      BY <1>2, <3>1, <3>2, MovedFacts DEF Live
  <2>2. totalLocked' = totalLocked
    BY <1>6 DEF Moves, fundVars
  <2> HIDE DEF r, q
  <2>3. ASSUME NEW u \in Tokens
        PROVE  CountedOf(q, u) = CountedOf(r, u) /\ CountedOf(r, u) \in Int
    BY <1>2, <1>3, <2>1, CountedType DEF CountedOf, HeldOf, BatchOf
  <2>4. ASSUME NEW u \in Tokens
        PROVE  CountedSum(escrow', u) = totalLocked[u]
    BY <1>4, <2>3
  <2>5. QED
    BY <2>2, <2>4 DEF TotalsInv
<1>7. QED
  BY <1>5, <1>6, ProgressShape

(* As long as nothing saturates, every step keeps the totals.              *)
LEMMA TotalsStep ==
  ASSUME TypeOK, TypeOK', TotalsInv, Unsaturated', [Next]_vars, IsFiniteSet(Ids)
  PROVE  TotalsInv'
<1>1. CASE UNCHANGED <<escrow, totalLocked>>
  BY <1>1 DEF TotalsInv
<1>2. CASE Administer \/ Environment
  <2>1. totalLocked' = totalLocked
    BY <1>2 DEF Administer, Environment, InitContract, UpdatePlatformFee,
         UpdateSlippageTolerance, SetSettlementContract,
         SetFleetManagementContract, SetDisputeResolutionContract,
         SetVolumeTiers, SetPaused, ProposeAdmin, AcceptAdmin,
         SweepUntrackedBalance, MistakenTransfer, Tick, fundVars
  <2>2. QED
    BY <1>1, <1>2, <2>1, RecordsFramed
<1>3. CASE Create
  BY <1>3, TotalsCreate, TotalsBatch DEF Create
<1>4. QED
  BY <1>1, <1>2, <1>3, TotalsProgress DEF Next, vars, fundVars

(* With AmountsFit nothing saturates: an amount that is stored is one that *)
(* was offered.                                                            *)
RecordsOffered ==
  \A id \in Ids : escrow[id] # None => escrow[id].amount \in AmountOffers

(* RecordsOffered is inductive together with TypeOK.                       *)
LEMMA OfferedStep ==
  ASSUME TypeOK, RecordsOffered, [Next]_vars
  PROVE  RecordsOffered'
<1>1. CASE UNCHANGED escrow
  BY <1>1 DEF RecordsOffered
<1>2. ASSUME NEW s \in Senders, NEW r \in Recipients, NEW d \in Drivers,
             NEW id \in Ids, NEW t \in Tokens, NEW n \in AmountOffers,
             NEW fleet \in FleetIds, CreateEscrow(s, r, d, id, t, n, fleet)
      PROVE  RecordsOffered'
  <2> DEFINE q == NewRecord(s, r, d, t, n, now + EscrowExpiry, fleet)
  <2>1. escrow'[id] = q /\ \A i \in Ids \ {id} : escrow'[i] = escrow[i]
    BY <1>2 DEF CreateEscrow, TypeOK
  <2>2. q.amount \in AmountOffers
    BY DEF NewRecord
  <2> HIDE DEF q
  <2>3. QED
    BY <2>1, <2>2 DEF RecordsOffered
<1>3. ASSUME NEW s \in Senders, NEW r \in Recipients, NEW t \in Tokens,
             NEW batch \in Batches, CreateEscrowsBatch(s, r, t, batch)
      PROVE  RecordsOffered'
  <2>1. ASSUME NEW id \in Ids, id \in BatchIds(batch)
        PROVE  escrow'[id].amount \in AmountOffers
    <3>1. ItemFor(batch, id).amount \in AmountOffers
      BY <2>1, BatchFacts DEF BatchItems
    <3>2. escrow'[id] = NewRecord(s, r, ItemFor(batch, id).driver, t,
                                  ItemFor(batch, id).amount, None, None)
      BY <1>3, <2>1 DEF CreateEscrowsBatch
    <3>3. QED
      BY <3>1, <3>2 DEF NewRecord
  <2>2. \A id \in Ids : id \notin BatchIds(batch) => escrow'[id] = escrow[id]
    BY <1>3 DEF CreateEscrowsBatch
  <2>3. QED
    BY <2>1, <2>2 DEF RecordsOffered
<1>4. ASSUME NEW id \in Ids, Progress(id)
      PROVE  RecordsOffered'
  <2>1. /\ escrow[id] # None
        /\ SameTerms(escrow[id], escrow'[id])
        /\ \A i \in Ids \ {id} : escrow'[i] = escrow[i]
    BY <1>4, ProgressRecord, RecordAssumption DEF Advances
  <2>2. QED
    BY <2>1 DEF RecordsOffered, SameTerms
<1>5. QED
  BY <1>1, <1>2, <1>3, <1>4, RecordsFramed DEF Next, Create, vars

(* A sum over all deliveries stays within the size of the largest amount   *)
(* times their number.                                                     *)
LEMMA FitBound ==
  ASSUME IsFiniteSet(Ids), AmountsFit, NEW e \in Records, NEW t \in Tokens,
         \A id \in Ids : e[id] # None => e[id].amount \in AmountOffers
  PROVE  CountedSum(e, t) \in (-MaxI128 - 1)..MaxI128
<1> DEFINE k == Cardinality(Ids)
           f == [id \in Ids |-> IF e[id] = None THEN 0 ELSE e[id].amount]
           c == Counted(e, t)
<1>1. k \in Nat /\ MaxI128 \in Nat
  BY NumberAssumption, FS_CardinalityType
<1>2. CASE Ids = {}
  <2>1. CountedSum(e, t) = 0
    BY <1>2, SumUnfold, FS_EmptySet DEF CountedSum
  <2>2. QED
    BY <1>1, <2>1
<1>3. CASE Ids # {}
  <2>1. \A id \in Ids : /\ f[id] \in Nat
                        /\ f[id] = 0 \/ f[id] \in AmountOffers
    BY <1>1 DEF Records, EscrowRecord
  <2>2. \A id \in Ids : c[id] \in Int /\ -f[id] <= c[id] /\ c[id] <= f[id]
    <3>1. ASSUME NEW id \in Ids
          PROVE  CountedOf(e[id], t) \in (-f[id])..f[id]
      BY <1>1, <2>1 DEF Records, EscrowRecord, CountedOf, HeldOf, BatchOf
    <3>2. QED
      BY <2>1, <3>1 DEF Counted
  <2>3. PICK x \in Ids : \A y \in Ids : f[y] <= f[x]
    <3>1. \A id \in Ids : f[id] \in Int
      BY <2>1
    <3> HIDE DEF f
    <3>2. QED
      BY <1>3, <3>1, LargestTerm
  <2> DEFINE m == f[x]
             up == [id \in Ids |-> m]
             down == [id \in Ids |-> -m]
  <2>4. m \in Nat /\ k * m \in Nat /\ k * m <= MaxI128
    <3>1. m \in Nat /\ (m = 0 \/ m \in AmountOffers)
      BY <2>1
    <3> HIDE DEF f, m, k
    <3>2. CASE m = 0
      BY <1>1, <3>2
    <3>3. CASE m \in AmountOffers
      BY <1>1, <3>1, <3>3 DEF AmountsFit, k
    <3>4. QED
      BY <3>1, <3>2, <3>3
  <2>5. \A id \in Ids : /\ c[id] \in Int /\ up[id] \in Int /\ down[id] \in Int
                        /\ down[id] <= c[id] /\ c[id] <= up[id]
    <3>1. ASSUME NEW id \in Ids
          PROVE  /\ f[id] \in Nat /\ f[id] <= m /\ c[id] \in Int
                 /\ -f[id] <= c[id] /\ c[id] <= f[id]
      BY <2>1, <2>2, <2>3
    <3>2. \A id \in Ids : up[id] = m /\ down[id] = -m
      OBVIOUS
    <3> HIDE DEF f, c, m, up, down
    <3>3. QED
      BY <2>4, <3>1, <3>2
  <2>6. SumFunctionOnSet(up, Ids) = k * m /\ SumFunctionOnSet(down, Ids) = k * (-m)
    <3>1. m \in Int /\ -m \in Int
      BY <2>4
    <3> HIDE DEF m
    <3>2. QED
      BY <3>1, SumOfConstant
  <2>7. /\ SumFunctionOnSet(down, Ids) <= SumFunctionOnSet(c, Ids)
        /\ SumFunctionOnSet(c, Ids) <= SumFunctionOnSet(up, Ids)
        /\ SumFunctionOnSet(c, Ids) \in Int
    <3> HIDE DEF c, up, down
    <3>1. QED
      BY <2>5, SumAtMost, SumRemove
  <2>8. k * (-m) = -(k * m)
    <3> HIDE DEF k, m
    <3>1. QED
      BY <1>1, <2>4
  <2> HIDE DEF f, c, k, m, up, down
  <2>9. QED
    BY <1>1, <2>4, <2>6, <2>7, <2>8 DEF CountedSum, c
<1>4. QED
  BY <1>2, <1>3

(* The inductive invariant of the totals holds in every reachable state.   *)
LEMMA TotalsHold ==
  ASSUME IsFiniteSet(Ids), AmountsFit
  PROVE  Spec => [](RecordsOffered /\ TotalsInv)
<1>1. Init => RecordsOffered /\ TotalsInv
  <2> SUFFICES ASSUME Init PROVE RecordsOffered /\ TotalsInv
    OBVIOUS
  <2>1. ASSUME NEW t \in Tokens
        PROVE  CountedSum(escrow, t) = 0
    <3>1. Counted(escrow, t) = [id \in Ids |-> 0]
      BY DEF Init, Counted, CountedOf, HeldOf, BatchOf
    <3>2. SumFunctionOnSet([id \in Ids |-> 0], Ids) = 0
      BY SumOfConstant, FS_CardinalityType
    <3>3. QED
      BY <3>1, <3>2 DEF CountedSum
  <2>2. QED
    BY <2>1 DEF Init, RecordsOffered, TotalsInv
<1>2. TypeOK /\ RecordsOffered /\ TotalsInv /\ [Next]_vars =>
        (RecordsOffered /\ TotalsInv)'
  <2> SUFFICES ASSUME TypeOK, RecordsOffered, TotalsInv, [Next]_vars
               PROVE  RecordsOffered' /\ TotalsInv'
    OBVIOUS
  <2>1. TypeOK' /\ RecordsOffered'
    BY TypeStep, OfferedStep
  <2>2. Unsaturated'
    <3>1. /\ escrow' \in Records
          /\ \A id \in Ids : escrow'[id] # None => escrow'[id].amount \in AmountOffers
      BY <2>1 DEF TypeOK, Records, RecordsOffered
    <3>2. QED
      BY <3>1, FitBound DEF Unsaturated
  <2>3. QED
    BY <2>1, <2>2, TotalsStep
<1>3. QED
  BY <1>1, <1>2, TypeCorrect, PTL DEF Spec

(* TotalLocked falls short of the live escrows by exactly what was ever    *)
(* deposited in batches, for any mix of creations, payouts, splits,        *)
(* refunds, reclaims and sweeps.                                           *)
THEOREM TotalsDrift ==
  ASSUME IsFiniteSet(Ids), AmountsFit
  PROVE  Spec => []TotalLockedDrift
<1>1. TypeOK /\ TotalsInv => TotalLockedDrift
  <2> SUFFICES ASSUME TypeOK, TotalsInv, NEW t \in Tokens
               PROVE  totalLocked[t] + BatchAmount(t) = LiveAmount(t)
    BY DEF TotalLockedDrift
  <2>1. /\ LiveAmount(t) \in Int /\ BatchAmount(t) \in Int
        /\ CountedSum(escrow, t) = LiveAmount(t) - BatchAmount(t)
    BY CountedAmounts DEF TypeOK, Records
  <2>2. QED
    BY <2>1 DEF TotalsInv
<1>2. QED
  BY <1>1, TypeCorrect, TotalsHold, PTL

(* As long as no batch was accepted, TotalLocked is the sum of the live    *)
(* escrows of each token, to the unit: the seven places that write it      *)
(* agree.                                                                  *)
THEOREM TotalsExact ==
  ASSUME IsFiniteSet(Ids), AmountsFit
  PROVE  Spec => []((\A t \in Tokens : BatchAmount(t) = 0) => TotalLockedExact)
<1>1. TypeOK /\ TotalLockedDrift =>
        ((\A t \in Tokens : BatchAmount(t) = 0) => TotalLockedExact)
  BY DEF TypeOK, TotalLockedDrift, TotalLockedExact
<1>2. QED
  BY <1>1, TypeCorrect, TotalsDrift, PTL

(* The contract can pay all live escrows at once, short at most of what    *)
(* was deposited in batches, whatever was swept or settled before.         *)
THEOREM AlwaysBacked ==
  ASSUME IsFiniteSet(Ids), AmountsFit
  PROVE  Spec => []LiveBacked
<1>1. TypeOK /\ TotalLockedDrift /\ Covered => LiveBacked
  <2> SUFFICES ASSUME TypeOK, TotalLockedDrift, Covered, NEW t \in Tokens
               PROVE  bal[t][EscrowAddr] + BatchAmount(t) >= LiveAmount(t)
    BY DEF LiveBacked
  <2>1. /\ totalLocked[t] + BatchAmount(t) = LiveAmount(t)
        /\ bal[t][EscrowAddr] >= totalLocked[t]
    BY DEF TotalLockedDrift, Covered
  <2>2. bal[t][EscrowAddr] \in Int /\ totalLocked[t] \in Int
    BY AddressAssumption DEF TypeOK
  <2>3. BatchAmount(t) \in Int
    BY CountedAmounts DEF TypeOK, Records
  <2>4. QED
    BY <2>1, <2>2, <2>3
<1>2. QED
  BY <1>1, TypeCorrect, TotalsDrift, AlwaysCovered, PTL

(* A live escrow is part of the sum of its token.                          *)
LEMMA LiveAmountCovers ==
  ASSUME IsFiniteSet(Ids), TypeOK, NEW id \in Held
  PROVE  /\ escrow[id].token \in Tokens /\ escrow[id].amount \in Nat
         /\ LiveAmount(escrow[id].token) \in Int
         /\ escrow[id].amount <= LiveAmount(escrow[id].token)
<1> DEFINE t == escrow[id].token
           f == [i \in Ids |-> IF i \in Held /\ escrow[i].token = t
                               THEN escrow[i].amount ELSE 0]
           g == [i \in Ids |-> IF i = id THEN escrow[id].amount ELSE 0]
           z == [i \in Ids |-> 0]
<1>1. id \in Ids /\ escrow[id].token \in Tokens /\ escrow[id].amount \in Nat
  BY DEF Held, TypeOK, EscrowRecord
<1>2. \A i \in Ids : f[i] \in Nat
  BY DEF Held, TypeOK, EscrowRecord
<1>3. f[id] = escrow[id].amount /\ g[id] = escrow[id].amount /\ z[id] = 0
  BY <1>1
<1>4. \A i \in Ids : g[i] \in Nat /\ g[i] <= f[i]
  <2>1. \A i \in Ids \ {id} : g[i] = 0
    OBVIOUS
  <2> HIDE DEF f, g
  <2>2. QED
    BY <1>1, <1>2, <1>3, <2>1
<1>5. \A i \in Ids : z[i] \in Int
  OBVIOUS
<1>6. \A i \in Ids \ {id} : g[i] = z[i]
  OBVIOUS
<1>7. SumFunctionOnSet(z, Ids) = 0
  BY SumOfConstant, FS_CardinalityType
<1>8. LiveAmount(t) = SumFunctionOnSet(f, Ids)
  BY DEF LiveAmount, SumFunction
<1> HIDE DEF f, g, z
<1>9. SumFunctionOnSet(g, Ids) = escrow[id].amount
  <2>1. SumFunctionOnSet(g, Ids) = SumFunctionOnSet(z, Ids) - z[id] + g[id]
    BY <1>1, <1>4, <1>5, <1>6, SumChange
  <2>2. QED
    BY <1>1, <1>3, <1>7, <2>1
<1>10. SumFunctionOnSet(g, Ids) <= SumFunctionOnSet(f, Ids)
       /\ SumFunctionOnSet(f, Ids) \in Int
  BY <1>2, <1>4, SumAtMost, SumRemove
<1>11. QED
  BY <1>1, <1>8, <1>9, <1>10

(* In particular the balance guard of release, refund, reclaim and         *)
(* resolution never refuses a live escrow in a token that no batch has     *)
(* deposited: this is the safety that the liveness property                *)
(* ExpiredLeavesLocked rests on.                                           *)
THEOREM GuardNeverRefuses ==
  ASSUME IsFiniteSet(Ids), AmountsFit
  PROVE  Spec => [](\A id \in Held :
                      BatchAmount(escrow[id].token) = 0 => FundsPresent(id))
<1>1. TypeOK /\ LiveBacked =>
        \A id \in Held : BatchAmount(escrow[id].token) = 0 => FundsPresent(id)
  <2> SUFFICES ASSUME TypeOK, LiveBacked, NEW id \in Held,
                      BatchAmount(escrow[id].token) = 0
               PROVE  FundsPresent(id)
    OBVIOUS
  <2>1. /\ escrow[id].token \in Tokens /\ escrow[id].amount \in Nat
        /\ LiveAmount(escrow[id].token) \in Int
        /\ escrow[id].amount <= LiveAmount(escrow[id].token)
    BY LiveAmountCovers
  <2>2. bal[escrow[id].token][EscrowAddr] \in Nat
    BY <2>1, AddressAssumption DEF TypeOK
  <2>3. bal[escrow[id].token][EscrowAddr] >= LiveAmount(escrow[id].token)
    BY <2>1, <2>2 DEF LiveBacked
  <2>4. QED
    BY <2>1, <2>2, <2>3 DEF FundsPresent
<1>2. QED
  BY <1>1, TypeCorrect, AlwaysBacked, PTL

=============================================================================
