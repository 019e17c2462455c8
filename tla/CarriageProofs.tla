--------------------------- MODULE CarriageProofs ---------------------------
(***************************************************************************)
(* What the parties of a delivery may rely on in the four contracts        *)
(* together, for every value of the constants: module Protocol implements  *)
(* module Carriage, and the money of every live escrow is there.           *)
(***************************************************************************)
EXTENDS ProtocolProofs, EscrowTotals

courseBar == [id \in Ids |-> CourseOf(delivery[id], id \in early)]

moneyBar == [id \in Ids |-> MoneyOf(escrow[id])]

verdictBar == [id \in Ids |-> VerdictOf(case[id], id \in early)]

-----------------------------------------------------------------------------
(* The steps of module Carriage on one delivery, from s, m, v to s2, m2,   *)
(* v2.                                                                     *)

Delivers(s, m, s2, m2) ==
  s = "open" /\ s2 = "delivered" /\ m = "held" /\ m2 = "due"

Cancels(s, m, s2, m2) ==
  s = "open" /\ s2 = "cancelled" /\ m \in {"held", "due", "frozen"} /\ m2 = "sender"

Contests(s, m, v, s2, m2, v2) ==
  /\ s = "open" /\ s2 = "disputed" /\ m = "held" /\ m2 = "frozen"
  /\ v2 = v \/ (v = "none" /\ v2 = "open")

Decides(m, v, m2, v2) ==
  /\ v = "open"
  /\ \/ v2 = "refund" /\ m = "frozen" /\ m2 = "sender"
     \/ v2 = "payout" /\ m = "frozen" /\ m2 = "driver"
     \/ v2 = "split" /\ m = "frozen" /\ m2 = "shared"
     \/ v2 = "split" /\ m \in {"driver", "sender", "shared"} /\ m2 = m

MoneyGoes(m, m2) ==
  \/ m2 = m
  \/ m = "none" /\ m2 = "held"
  \/ m2 \in Journey!Places /\ <<m, m2>> \in Journey!MoneyMoves

Moved(s, m, v, s2, m2, v2) ==
  \/ s2 = s /\ v2 = v /\ MoneyGoes(m, m2)
  \/ Delivers(s, m, s2, m2) /\ v2 = v
  \/ Cancels(s, m, s2, m2) /\ v2 = v
  \/ Contests(s, m, v, s2, m2, v2)
  \/ s2 = s /\ Decides(m, v, m2, v2)

(* One delivery that moves so is a step of module Carriage.                *)
LEMMA MovedStep ==
  ASSUME NEW id \in Ids, NEW s2, NEW m2, NEW v2,
         courseBar' = [courseBar EXCEPT ![id] = s2],
         moneyBar' = [moneyBar EXCEPT ![id] = m2],
         verdictBar' = [verdictBar EXCEPT ![id] = v2],
         Moved(courseBar[id], moneyBar[id], verdictBar[id], s2, m2, v2)
  PROVE  [Journey!Next]_(Journey!vars)
<1> DEFINE s == courseBar[id]
           m == moneyBar[id]
           v == verdictBar[id]
<1>1. /\ s2 = s => courseBar' = courseBar
      /\ m2 = m => moneyBar' = moneyBar
      /\ v2 = v => verdictBar' = verdictBar
  BY DEF courseBar, moneyBar, verdictBar
<1>2. CASE s2 = s /\ v2 = v /\ m2 = m
  BY <1>1, <1>2 DEF Journey!vars, courseBar, moneyBar, verdictBar
<1>3. CASE s2 = s /\ v2 = v /\ m = "none" /\ m2 = "held"
  <2>1. Journey!Begins(moneyBar, {id}, "none", "held")
    BY <1>3 DEF Journey!Begins, moneyBar
  <2>2. Journey!Pay
    BY <1>1, <1>3, <2>1 DEF Journey!Pay, courseBar, moneyBar, verdictBar
  <2>3. QED
    BY <2>2 DEF Journey!Next
<1>4. CASE /\ s2 = s /\ v2 = v /\ m2 \in Journey!Places
           /\ <<m, m2>> \in Journey!MoneyMoves
  <2>1. Journey!MoveMoney(id)
    BY <1>1, <1>4 DEF Journey!MoveMoney, courseBar, moneyBar, verdictBar
  <2>2. QED
    BY <2>1 DEF Journey!Next
<1>5. CASE Delivers(s, m, s2, m2) /\ v2 = v
  <2>1. Journey!Deliver(id)
    BY <1>1, <1>5
       DEF Delivers, Journey!Deliver, Journey!Turn, courseBar, moneyBar, verdictBar
  <2>2. QED
    BY <2>1 DEF Journey!Next
<1>6. CASE Cancels(s, m, s2, m2) /\ v2 = v
  <2>1. Journey!Cancel(id)
    BY <1>1, <1>6
       DEF Cancels, Journey!Cancel, Journey!Turn, courseBar, moneyBar, verdictBar
  <2>2. QED
    BY <2>1 DEF Journey!Next
<1>7. CASE Contests(s, m, v, s2, m2, v2)
  <2>1. Journey!Contest(id)
    BY <1>1, <1>7
       DEF Contests, Journey!Contest, Journey!Turn, courseBar, moneyBar, verdictBar
  <2>2. QED
    BY <2>1 DEF Journey!Next
<1>8. CASE s2 = s /\ Decides(m, v, m2, v2)
  <2>1. v2 \in Journey!Verdicts /\ Journey!Judge(id, v2)
    BY <1>1, <1>8
       DEF Decides, Journey!Judge, Journey!Verdicts, Journey!Turn, courseBar,
           moneyBar, verdictBar
  <2>2. QED
    BY <2>1 DEF Journey!Next
<1>9. QED
  BY <1>2, <1>3, <1>4, <1>5, <1>6, <1>7, <1>8 DEF Moved, MoneyGoes

(* A step on one delivery, its escrow and its case changes one entry.      *)
LEMMA OneEntry ==
  ASSUME NEW id \in Ids, Others(id), UNCHANGED early,
         \A i \in Ids \ {id} : delivery'[i] = delivery[i] /\ case'[i] = case[i]
  PROVE  /\ courseBar' = [courseBar EXCEPT ![id] =
                            CourseOf(delivery'[id], id \in early)]
         /\ moneyBar' = [moneyBar EXCEPT ![id] = MoneyOf(escrow'[id])]
         /\ verdictBar' = [verdictBar EXCEPT ![id] =
                             VerdictOf(case'[id], id \in early)]
<1>1. courseBar' = [courseBar EXCEPT ![id] = CourseOf(delivery'[id], id \in early)]
  BY DEF courseBar
<1>2. moneyBar' = [moneyBar EXCEPT ![id] = MoneyOf(escrow'[id])]
  BY DEF moneyBar, Others
<1>3. verdictBar' = [verdictBar EXCEPT ![id] = VerdictOf(case'[id], id \in early)]
  BY DEF verdictBar
<1>4. QED
  BY <1>1, <1>2, <1>3
-----------------------------------------------------------------------------
(* What a turn of an escrow, and the end of a delivery, do to the entries. *)

(* Where the money of an escrow is, by its status.                         *)
LEMMA MoneyPlaces ==
  ASSUME NEW r \in EscrowRecord
  PROVE  /\ r # None
         /\ r.status \in {"Locked", "Holdback", "Paused", "Released", "Refunded",
                          "Split"}
         /\ r.status = "Locked" => MoneyOf(r) = "held"
         /\ r.status = "Holdback" => MoneyOf(r) = "due"
         /\ r.status = "Paused" => MoneyOf(r) = "frozen"
         /\ r.status = "Released" => MoneyOf(r) = "driver"
         /\ r.status = "Refunded" => MoneyOf(r) = "sender"
         /\ r.status = "Split" => MoneyOf(r) = "shared"
BY RecordAssumption DEF EscrowRecord, Statuses, MoneyOf, MoneyAt

(* Whatever an escrow turns into, its money goes forward.                  *)
LEMMA TurnMoves ==
  ASSUME NEW r \in EscrowRecord \cup {None}, NEW q \in EscrowRecord \cup {None},
         Turn(r, q)
  PROVE  MoneyGoes(MoneyOf(r), MoneyOf(q))
<1>1. CASE q = r
  BY <1>1 DEF MoneyGoes
<1>2. CASE r = None /\ Fresh(q)
  BY <1>2, MoneyPlaces DEF MoneyGoes, Fresh, MoneyOf
<1>3. CASE PaidOut(r, q)
  BY <1>3, MoneyPlaces
     DEF PaidOut, SameStamps, Live, MoneyGoes, Journey!MoneyMoves, Journey!Places
<1>4. CASE HeldBack(r, q)
  BY <1>4, MoneyPlaces
     DEF HeldBack, SameStamps, MoneyGoes, Journey!MoneyMoves, Journey!Places
<1>5. ASSUME NEW caller, PausedBy(r, q, caller)
      PROVE  MoneyGoes(MoneyOf(r), MoneyOf(q))
  BY <1>5, MoneyPlaces
     DEF PausedBy, MoneyGoes, Journey!MoneyMoves, Journey!Places
<1>6. QED
  BY <1>1, <1>2, <1>3, <1>4, <1>5 DEF Turn

(* The entries of delivery id, before a step and after it.                 *)
MovedAt(id) ==
  Moved(CourseOf(delivery[id], id \in early), MoneyOf(escrow[id]),
        VerdictOf(case[id], id \in early),
        CourseOf(delivery'[id], id \in early), MoneyOf(escrow'[id]),
        VerdictOf(case'[id], id \in early))

(* Such a step on one delivery is a step of module Carriage.               *)
LEMMA OneMoves ==
  ASSUME NEW id \in Ids, Others(id), UNCHANGED early,
         \A i \in Ids \ {id} : delivery'[i] = delivery[i] /\ case'[i] = case[i],
         MovedAt(id)
  PROVE  [Journey!Next]_(Journey!vars)
<1>1. /\ courseBar[id] = CourseOf(delivery[id], id \in early)
      /\ moneyBar[id] = MoneyOf(escrow[id])
      /\ verdictBar[id] = VerdictOf(case[id], id \in early)
  BY DEF courseBar, moneyBar, verdictBar
<1> DEFINE s2 == CourseOf(delivery'[id], id \in early)
           m2 == MoneyOf(escrow'[id])
           v2 == VerdictOf(case'[id], id \in early)
<1>2. /\ courseBar' = [courseBar EXCEPT ![id] = s2]
      /\ moneyBar' = [moneyBar EXCEPT ![id] = m2]
      /\ verdictBar' = [verdictBar EXCEPT ![id] = v2]
  BY OneEntry
<1>3. Moved(courseBar[id], moneyBar[id], verdictBar[id], s2, m2, v2)
  BY <1>1 DEF MovedAt
<1> HIDE DEF s2, m2, v2
<1>4. QED
  BY <1>2, <1>3, MovedStep

(* Under a number given out before init, only the money is seen.           *)
LEMMA EarlyMoves ==
  ASSUME NEW id \in early, TypeOK, TypeOK', id \in Ids,
         Turn(escrow[id], escrow'[id])
  PROVE  MovedAt(id)
<1>1. escrow[id] \in EscrowRecord \cup {None} /\ escrow'[id] \in EscrowRecord \cup {None}
  BY DEF TypeOK
<1>2. MoneyGoes(MoneyOf(escrow[id]), MoneyOf(escrow'[id]))
  BY <1>1, TurnMoves
<1>3. /\ CourseOf(delivery'[id], id \in early) = CourseOf(delivery[id], id \in early)
      /\ VerdictOf(case'[id], id \in early) = VerdictOf(case[id], id \in early)
  BY DEF CourseOf, VerdictOf
<1>4. QED
  BY <1>2, <1>3 DEF MovedAt, Moved
-----------------------------------------------------------------------------
(* The transactions.                                                       *)

(* Those of the delivery contract on one delivery.                         *)
LEMMA CarryMoves ==
  ASSUME ProtocolInv, TypeOK', NEW id \in Ids, Carry(id), UNCHANGED disputeVars
  PROVE  [Journey!Next]_(Journey!vars)
<1>1. /\ TypeOK /\ DeliveryTypeOK /\ DisputeStamped /\ now \in Nat
      /\ Agree(delivery[id], escrow[id], case[id], id \in early)
      /\ case' = case
  BY DEF ProtocolInv, ProtocolTypeOK, TypeOK, Agreement, disputeVars
<1>2. /\ Rewritten(id) /\ delivery[id] # None /\ delivery'[id] # None
      /\ UNCHANGED early
      /\ \A i \in Ids \ {id} : delivery'[i] = delivery[i]
  BY <1>1, CarryStep, DeliveryAssumption DEF Rewritten, DeliveryTypeOK
<1>3. /\ delivery[id] # None => delivery[id].status \in DeliveryStatuses
      /\ escrow[id] \in EscrowRecord \cup {None}
      /\ escrow'[id] \in EscrowRecord \cup {None}
  BY <1>1 DEF TypeOK, DeliveryTypeOK, DeliveryRecord
<1>4. /\ Others(id)
      /\ \/ escrow' = escrow /\ Driven(id)
         \/ /\ PaidOut(escrow[id], escrow'[id]) /\ CalledOff(id)
            /\ escrow'[id].status = "Refunded"
         \/ HeldBack(escrow[id], escrow'[id]) /\ Confirmed(id)
            /\ delivery[id].status = "InTransit"
         \/ \E caller :
              /\ PausedBy(escrow[id], escrow'[id], caller)
              /\ Contested(id, caller)
              /\ delivery[id].status \in {"Active", "InTransit"}
  <2>1. CASE Driven(id)
    BY <2>1 DEF Driven, vars, fundVars, Others
  <2>2. CASE CalledOff(id)
    <3>1. PICK s \in Senders : RefundEscrow(s, id)
      BY <2>2 DEF CalledOff
    <3>2. InStatus(id, Live) /\ RefundSender(id)
      BY <3>1 DEF RefundEscrow, RefundableFrom, InStatus, Live
    <3>3. QED
      BY <1>1, <2>2, <3>2, RefundTurn
  <2>3. CASE Confirmed(id)
    <3>1. delivery[id].status = "InTransit"
      BY <1>1, <1>2, <2>3, ConfirmedAgrees
    <3>2. HeldBack(escrow[id], escrow'[id]) /\ Others(id)
      BY <1>1, <2>3, HoldbackTurn DEF Confirmed
    <3>3. QED
      BY <2>3, <3>1, <3>2
  <2>4. ASSUME NEW caller, Contested(id, caller)
        PROVE  /\ Others(id)
               /\ PausedBy(escrow[id], escrow'[id], caller)
               /\ delivery[id].status \in {"Active", "InTransit"}
    <3>1. delivery[id].status \in {"Active", "InTransit"}
      BY <1>1, <1>2, <2>4, ContestedAgrees
    <3>2. PausedBy(escrow[id], escrow'[id], caller) /\ Others(id)
      BY <1>1, <2>4, DisputeTurn DEF Contested
    <3>3. QED
      BY <3>1, <3>2
  <2>5. QED
    BY <1>1, <2>1, <2>2, <2>3, <2>4, CarryStep
<1>5. MovedAt(id)
  <2>1. CASE id \in early
    <3>1. Turn(escrow[id], escrow'[id])
      BY <1>4 DEF Turn
    <3>2. QED
      BY <1>1, <2>1, <3>1, EarlyMoves
  <2>2. CASE id \notin early
    <3>1. VerdictOf(case'[id], id \in early') = VerdictOf(case[id], id \in early)
      BY <1>1, <1>2
    <3>2. CASE escrow' = escrow /\ Driven(id)
      <4>1. CourseOf(delivery'[id], id \in early') = CourseOf(delivery[id], id \in early)
        BY <1>2, <3>2 DEF Driven, CourseOf
      <4>2. QED
        BY <1>2, <3>1, <3>2, <4>1 DEF MovedAt, Moved, MoneyGoes
    <3>3. CASE /\ PaidOut(escrow[id], escrow'[id]) /\ CalledOff(id)
               /\ escrow'[id].status = "Refunded"
      <4>1. /\ CourseOf(delivery[id], id \in early) = "open"
            /\ CourseOf(delivery'[id], id \in early) = "cancelled"
        BY <1>2, <2>2, <3>3 DEF CalledOff, CourseOf
      <4>2. /\ MoneyOf(escrow[id]) \in {"held", "due", "frozen"}
            /\ MoneyOf(escrow'[id]) = "sender"
        BY <1>3, <3>3, MoneyPlaces DEF PaidOut, SameStamps, Live
      <4>3. QED
        BY <1>2, <3>1, <4>1, <4>2 DEF MovedAt, Moved, Cancels
    <3>4. CASE /\ HeldBack(escrow[id], escrow'[id]) /\ Confirmed(id)
               /\ delivery[id].status = "InTransit"
      <4>1. /\ CourseOf(delivery[id], id \in early) = "open"
            /\ CourseOf(delivery'[id], id \in early) = "delivered"
        BY <1>2, <2>2, <3>4 DEF Confirmed, CourseOf
      <4>2. MoneyOf(escrow[id]) = "held" /\ MoneyOf(escrow'[id]) = "due"
        BY <1>3, <3>4, MoneyPlaces DEF HeldBack, SameStamps
      <4>3. QED
        BY <1>2, <3>1, <4>1, <4>2 DEF MovedAt, Moved, Delivers
    <3>5. ASSUME NEW caller, PausedBy(escrow[id], escrow'[id], caller),
                 Contested(id, caller),
                 delivery[id].status \in {"Active", "InTransit"}
          PROVE  MovedAt(id)
      <4>1. /\ CourseOf(delivery[id], id \in early) = "open"
            /\ CourseOf(delivery'[id], id \in early) = "disputed"
        BY <1>2, <2>2, <3>5 DEF Contested, CourseOf
      <4>2. MoneyOf(escrow[id]) = "held" /\ MoneyOf(escrow'[id]) = "frozen"
        BY <1>3, <3>5, MoneyPlaces DEF PausedBy
      <4>3. QED
        BY <1>2, <3>1, <4>1, <4>2 DEF MovedAt, Moved, Contests
    <3>6. QED
      BY <1>4, <3>2, <3>3, <3>4, <3>5
  <2>3. QED
    BY <2>1, <2>2
<1>6. QED
  BY <1>1, <1>2, <1>4, <1>5, OneMoves
(* The name of a verdict.                                                  *)
LEMMA VerdictNames ==
  ASSUME NEW c \in DisputeCase
  PROVE  /\ c # None /\ c.status \in DisputeStatuses
         /\ c.status = "Open" => VerdictOf(c, FALSE) = "open"
         /\ c.status = "ResolvedRefund" => VerdictOf(c, FALSE) = "refund"
         /\ c.status = "ResolvedPayout" => VerdictOf(c, FALSE) = "payout"
         /\ c.status = "Split" => VerdictOf(c, FALSE) = "split"
BY DisputeAssumption DEF DisputeCase, DisputeStatuses, VerdictOf, VerdictName

(* What a verdict does to the money: it is carried out on frozen money, or *)
(* is a split of money that has left.                                      *)
LEMMA EnforcedMoves ==
  ASSUME TypeOK, NEW id \in Ids, NEW status, Enforced(id, status),
         escrow[id] # None, escrow[id].status \in {"Paused"} \cup Settled
  PROVE  \/ /\ PaidOut(escrow[id], escrow'[id])
            /\ escrow[id].status = "Paused"
            /\ <<status, escrow'[id].status>> \in
                 {<<"ResolvedRefund", "Refunded">>, <<"ResolvedPayout", "Released">>,
                  <<"Split", "Split">>}
         \/ /\ status = "Split" /\ escrow' = escrow
            /\ escrow[id].status \in Settled
<1>1. CASE status = "ResolvedRefund" /\ ResolveDisputeRefund(id)
  <2>1. InStatus(id, Live) /\ RefundSender(id) /\ escrow[id].status = "Paused"
    BY <1>1 DEF ResolveDisputeRefund, InStatus, Live
  <2>2. QED
    BY <1>1, <2>1, RefundTurn
<1>2. CASE status = "ResolvedPayout" /\ ResolveDisputeRelease(id)
  <2>1. InStatus(id, Live) /\ SettleEscrowFunds(id) /\ escrow[id].status = "Paused"
    BY <1>2 DEF ResolveDisputeRelease, InStatus, Live
  <2>2. QED
    BY <1>2, <2>1, ReleaseTurn
<1>3. ASSUME status = "Split", NEW bps \in ShareOffers, ResolveDisputeSplit(id, bps)
      PROVE  /\ PaidOut(escrow[id], escrow'[id]) /\ escrow'[id].status = "Split"
             /\ escrow[id].status = "Paused"
  BY <1>3, SplitTurn DEF ResolveDisputeSplit, InStatus
<1>4. CASE status = "Split" /\ escrow[id].status # "Paused" /\ UNCHANGED vars
  BY <1>4 DEF vars, fundVars
<1>5. QED
  BY <1>1, <1>2, <1>3, <1>4 DEF Enforced

(* The transactions of the dispute contract on one case.                   *)
LEMMA HearMoves ==
  ASSUME ProtocolInv, TypeOK', NEW id \in Ids, Hear(id)
  PROVE  [Journey!Next]_(Journey!vars)
<1>1. /\ TypeOK /\ DeliveryTypeOK /\ DisputeTypeOK /\ now \in Nat
      /\ Agree(delivery[id], escrow[id], case[id], id \in early)
  BY DEF ProtocolInv, ProtocolTypeOK, TypeOK, Agreement
<1>2. /\ Entered(id) /\ case'[id] \in DisputeCase
      /\ \A i \in Ids \ {id} : case'[i] = case[i]
      /\ case[id] # None => case[id] \in DisputeCase
  BY <1>1, HearStep DEF Entered, DisputeTypeOK
<1>3. /\ escrow[id] \in EscrowRecord \cup {None}
      /\ escrow'[id] \in EscrowRecord \cup {None}
  BY <1>1 DEF TypeOK
<1>4. ASSUME NEW caller, Filed(id, caller)
      PROVE  [Journey!Next]_(Journey!vars)
  <2>1. delivery[id].status \in {"Active", "InTransit"}
    BY <1>1, <1>4, ContestedAgrees DEF Filed
  <2>2. PausedBy(escrow[id], escrow'[id], caller) /\ Others(id)
    BY <1>1, <1>4, DisputeTurn DEF Filed, Contested
  <2>3. /\ delivery[id] # None /\ delivery'[id] # None /\ UNCHANGED early
        /\ \A i \in Ids \ {id} : delivery'[i] = delivery[i]
    BY <1>1, <1>4, DeliveryAssumption DEF Filed, Rewritten, DeliveryTypeOK
  <2>4. MovedAt(id)
    <3>1. CASE id \in early
      BY <1>1, <2>2, <3>1, EarlyMoves DEF Turn
    <3>2. CASE id \notin early
      <4>1. /\ CourseOf(delivery[id], id \in early) = "open"
            /\ CourseOf(delivery'[id], id \in early) = "disputed"
        BY <1>4, <2>1, <2>3, <3>2 DEF Filed, Contested, CourseOf
      <4>2. MoneyOf(escrow[id]) = "held" /\ MoneyOf(escrow'[id]) = "frozen"
        BY <1>3, <2>2, MoneyPlaces DEF PausedBy
      <4>3. /\ VerdictOf(case[id], id \in early) = "none"
            /\ VerdictOf(case'[id], id \in early) = "open"
        BY <1>2, <1>4, <3>2, VerdictNames DEF Filed, VerdictOf
      <4>4. QED
        BY <2>3, <4>1, <4>2, <4>3 DEF MovedAt, Moved, Contests
    <3>3. QED
      BY <3>1, <3>2
  <2>5. QED
    BY <1>2, <2>2, <2>3, <2>4, OneMoves
<1>5. ASSUME Supported(id)
      PROVE  [Journey!Next]_(Journey!vars)
  <2>1. UNCHANGED <<escrow, delivery, early>> /\ Others(id)
    BY <1>5 DEF Supported, vars, fundVars, deliveryVars, Others, history
  <2>2. /\ case[id] # None /\ case[id].status = "Open"
        /\ case'[id].status = "Open"
    BY <1>5 DEF Supported, CaseOpen
  <2>3. VerdictOf(case'[id], id \in early) = VerdictOf(case[id], id \in early)
    BY <1>2, <2>2, VerdictNames DEF VerdictOf
  <2>4. MovedAt(id)
    BY <2>1, <2>3 DEF MovedAt, Moved, MoneyGoes
  <2>5. QED
    BY <1>2, <2>1, <2>4, OneMoves
<1>6. ASSUME NEW status, Decided(id, status)
      PROVE  [Journey!Next]_(Journey!vars)
  <2>1. /\ UNCHANGED <<delivery, early>>
        /\ case[id] # None /\ case[id].status = "Open"
        /\ case'[id].status = status
    BY <1>6 DEF Decided, CaseOpen, deliveryVars, history
  <2>2. escrow[id] # None /\ escrow[id].status \in {"Paused"} \cup Settled
    BY <1>1, <2>1 DEF Agree, CaseAgrees
  <2>3. /\ Turn(escrow[id], escrow'[id]) /\ Others(id)
    BY <1>1, <1>6, <2>2, EnforcedTurn DEF Decided
  <2>4. MovedAt(id)
    <3>1. CASE id \in early
      BY <1>1, <2>3, <3>1, EarlyMoves
    <3>2. CASE id \notin early
      <4>1. /\ VerdictOf(case[id], id \in early) = VerdictOf(case[id], FALSE)
            /\ VerdictOf(case'[id], id \in early) = VerdictOf(case'[id], FALSE)
        BY <3>2 DEF VerdictOf
      <4>2. VerdictOf(case[id], FALSE) = "open"
        BY <1>2, <2>1, VerdictNames
      <4>3. Decides(MoneyOf(escrow[id]), "open", MoneyOf(escrow'[id]),
                    VerdictOf(case'[id], FALSE))
        <5>1. CASE /\ PaidOut(escrow[id], escrow'[id])
                   /\ escrow[id].status = "Paused"
                   /\ <<status, escrow'[id].status>> \in
                        {<<"ResolvedRefund", "Refunded">>,
                         <<"ResolvedPayout", "Released">>, <<"Split", "Split">>}
          BY <1>2, <1>3, <2>1, <5>1, MoneyPlaces, VerdictNames
             DEF Decides, PaidOut, SameStamps
        <5>2. CASE status = "Split" /\ escrow' = escrow /\ escrow[id].status \in Settled
          BY <1>2, <1>3, <2>1, <2>2, <5>2, MoneyPlaces, VerdictNames
             DEF Decides, Settled
        <5>3. Enforced(id, status)
          BY <1>6 DEF Decided
        <5>4. \/ /\ PaidOut(escrow[id], escrow'[id])
                 /\ escrow[id].status = "Paused"
                 /\ <<status, escrow'[id].status>> \in
                      {<<"ResolvedRefund", "Refunded">>,
                       <<"ResolvedPayout", "Released">>, <<"Split", "Split">>}
              \/ status = "Split" /\ escrow' = escrow /\ escrow[id].status \in Settled
          BY <1>1, <2>2, <5>3, EnforcedMoves
        <5>5. QED
          BY <5>1, <5>2, <5>4
      <4>4. QED
        BY <2>1, <4>1, <4>2, <4>3 DEF MovedAt, Moved
    <3>3. QED
      BY <3>1, <3>2
  <2>5. QED
    BY <1>2, <2>1, <2>3, <2>4, OneMoves
<1>7. QED
  BY <1>1, <1>4, <1>5, <1>6, HearStep
(* Creation of deliveries.  What it adds has neither a course nor a        *)
(* verdict before, and only a course after.                                *)
LEMMA BookMoves ==
  ASSUME ProtocolInv, Book, UNCHANGED disputeVars
  PROVE  [Journey!Next]_(Journey!vars)
<1>1. DeliveryTypeOK /\ Numbered /\ Agreement
  BY DEF ProtocolInv, ProtocolTypeOK
<1>2. PICK s \in Senders, r \in Recipients : \E new : Booked(s, r, new)
  BY <1>1, BookStep
<1>3. PICK new : Booked(s, r, new)
  BY <1>2
<1>4. UNCHANGED <<escrow, case>>
  BY <1>1, BookStep DEF vars, fundVars, disputeVars
<1>5. /\ new \subseteq Ids
      /\ early' = IF deliveryAdmin = None THEN early \cup new ELSE early
      /\ \A id \in new : delivery'[id] # None /\ delivery'[id].status = "Pending"
      /\ \A id \in Ids \ new : delivery'[id] = delivery[id]
  BY <1>3, DeliveryAssumption DEF Booked
<1>6. ASSUME NEW id \in Ids
      PROVE  /\ id \in early' \ early => delivery[id] = None
             /\ id \in new /\ id \notin early' => delivery[id] = None
  BY <1>1, <1>3, <1>5, NewIsNew DEF Numbered
<1>7. \A id \in early' \ early : case[id] = None
  BY <1>1, <1>5, <1>6 DEF Agreement, Agree, CaseAgrees, DeliveryTypeOK
<1> DEFINE fresh == new \ early'
<1>8. Journey!Begins(courseBar, fresh, "none", "open")
  <2>1. \A id \in fresh : courseBar[id] = "none"
    BY <1>5, <1>6 DEF courseBar, CourseOf
  <2>2. ASSUME NEW id \in Ids
        PROVE  CourseOf(delivery'[id], id \in early') =
                 IF id \in fresh THEN "open" ELSE courseBar[id]
    <3>1. CASE id \in early'
      BY <1>5, <1>6, <3>1 DEF courseBar, CourseOf
    <3>2. CASE id \notin early'
      BY <1>5, <3>2 DEF courseBar, CourseOf
    <3>3. QED
      BY <3>1, <3>2
  <2>3. courseBar' = [id \in Ids |-> IF id \in fresh THEN "open" ELSE courseBar[id]]
    BY <2>2 DEF courseBar
  <2>4. QED
    BY <2>1, <2>3 DEF Journey!Begins
<1>9. moneyBar' = moneyBar
  BY <1>4 DEF moneyBar
<1>10. verdictBar' = verdictBar
  <2>1. ASSUME NEW id \in Ids
        PROVE  VerdictOf(case'[id], id \in early') = VerdictOf(case[id], id \in early)
    BY <1>4, <1>5, <1>7 DEF VerdictOf
  <2>2. QED
    BY <2>1 DEF verdictBar
<1>11. fresh \in SUBSET Ids
  BY <1>5
<1> HIDE DEF fresh
<1>12. Journey!Book
  BY <1>8, <1>9, <1>10, <1>11 DEF Journey!Book, courseBar, moneyBar, verdictBar
<1>13. QED
  BY <1>12 DEF Journey!Next

(* The transactions of the escrow that no other contract asks for.         *)
LEMMA EscrowMoves ==
  ASSUME ProtocolInv, TypeOK', EscrowNext
  PROVE  [Journey!Next]_(Journey!vars)
<1>1. TypeOK
  BY DEF ProtocolInv, ProtocolTypeOK
<1>2. UNCHANGED <<delivery, early, case>>
  BY DEF EscrowNext, deliveryVars, disputeVars, history
<1>3. courseBar' = courseBar /\ verdictBar' = verdictBar
  BY <1>2 DEF courseBar, verdictBar
<1>4. CASE Administer \/ Environment
  <2>1. moneyBar' = moneyBar
    BY <1>4, RecordsFramed DEF moneyBar
  <2>2. QED
    BY <1>3, <2>1 DEF Journey!vars, courseBar, moneyBar, verdictBar
<1>5. CASE Create
  <2> DEFINE new == {id \in Ids : escrow[id] = None /\ Fresh(escrow'[id])}
  <2>1. \A id \in new : moneyBar[id] = "none"
    BY DEF moneyBar, MoneyOf
  <2>2. ASSUME NEW id \in Ids
        PROVE  MoneyOf(escrow'[id]) = IF id \in new THEN "held" ELSE moneyBar[id]
    <3>1. CASE id \in new
      BY <3>1, MoneyPlaces DEF Fresh
    <3>2. CASE id \notin new
      <4>1. escrow'[id] = escrow[id]
        BY <1>1, <1>5, <3>2, CreateRecords
      <4>2. QED
        BY <3>2, <4>1 DEF moneyBar
    <3>3. QED
      BY <3>1, <3>2
  <2>3. new \in SUBSET Ids
    OBVIOUS
  <2> HIDE DEF new
  <2>4. moneyBar' = [id \in Ids |-> IF id \in new THEN "held" ELSE moneyBar[id]]
    BY <2>2 DEF moneyBar
  <2>5. Journey!Begins(moneyBar, new, "none", "held")
    BY <2>1, <2>4 DEF Journey!Begins
  <2>6. Journey!Pay
    BY <1>3, <2>3, <2>5 DEF Journey!Pay, courseBar, moneyBar, verdictBar
  <2>7. QED
    BY <2>6 DEF Journey!Next
<1>6. ASSUME NEW id \in Ids, EscrowDirect(id)
      PROVE  [Journey!Next]_(Journey!vars)
  <2>1. Turn(escrow[id], escrow'[id]) /\ Others(id)
    BY <1>1, <1>6, DirectTurn
  <2>2. MoneyGoes(MoneyOf(escrow[id]), MoneyOf(escrow'[id]))
    BY <1>1, <2>1, TurnMoves DEF TypeOK
  <2>3. MovedAt(id)
    BY <1>2, <2>2 DEF MovedAt, Moved
  <2>4. QED
    BY <1>2, <2>1, <2>3, OneMoves
<1>7. QED
  BY <1>4, <1>5, <1>6 DEF EscrowNext

(* Every transaction is a step of module Carriage, or nothing is seen of   *)
(* it there.                                                               *)
LEMMA CarriageStep ==
  ASSUME ProtocolInv, TypeOK', [ProtocolNext]_protocolVars
  PROVE  [Journey!Next]_(Journey!vars)
<1>1. UNCHANGED <<escrow, delivery, early, case>> => [Journey!Next]_(Journey!vars)
  BY DEF Journey!vars
<1>2. CASE UNCHANGED protocolVars
  BY <1>1, <1>2 DEF protocolVars, vars, deliveryVars, disputeVars, history
<1>3. CASE EscrowNext
  BY <1>3, EscrowMoves
<1>4. CASE DeliveryNext /\ UNCHANGED disputeVars
  <2>1. ASSUME NEW a, InitDelivery(a) PROVE [Journey!Next]_(Journey!vars)
    BY <1>1, <1>4, <2>1 DEF InitDelivery, vars, disputeVars, history
  <2>2. CASE SetDeliveryIdentity
    BY <1>1, <1>4, <2>2 DEF SetDeliveryIdentity, vars, disputeVars, history
  <2>3. ASSUME NEW id \in Ids, Carry(id) PROVE [Journey!Next]_(Journey!vars)
    BY <1>4, <2>3, CarryMoves
  <2>4. QED
    BY <1>4, <2>1, <2>2, <2>3, BookMoves DEF DeliveryNext
<1>5. CASE IdentityNext /\ UNCHANGED disputeVars
  BY <1>1, <1>5, IdentityAlone DEF vars, disputeVars
<1>6. CASE DisputeNext
  <2>1. CASE Appoint
    <3>1. UNCHANGED vars /\ UNCHANGED deliveryVars /\ UNCHANGED case
      BY <2>1, TypeAppoint DEF ProtocolInv, ProtocolTypeOK
    <3>2. QED
      BY <1>1, <3>1 DEF vars, deliveryVars, history
  <2>2. ASSUME NEW id \in Ids, Hear(id) PROVE [Journey!Next]_(Journey!vars)
    BY <2>2, HearMoves
  <2>3. QED
    BY <1>6, <2>1, <2>2 DEF DisputeNext
<1>7. QED
  BY <1>2, <1>3, <1>4, <1>5, <1>6 DEF ProtocolNext

(* The parties of a delivery see the carriage of module Carriage: parcel,  *)
(* money and verdict move together where they have to, whatever is called  *)
(* at which contract in between.                                           *)
THEOREM ImplementsCarriage == ProtocolSpec => CarriageKept
<1>1. ProtocolInit => Journey!Init
  BY DEF ProtocolInit, Init, DeliveryInit, DisputeInit, Journey!Init, CourseOf,
         MoneyOf, VerdictOf
<1>2. ProtocolInv /\ TypeOK' /\ [ProtocolNext]_protocolVars =>
        [Journey!Next]_(Journey!vars)
  BY CarriageStep
<1>3. ProtocolInv => TypeOK
  BY DEF ProtocolInv, ProtocolTypeOK
<1>4. QED
  BY <1>1, <1>2, <1>3, RecordsAgree, PTL
     DEF ProtocolSpec, CarriageKept, Journey!Spec
-----------------------------------------------------------------------------
(* The money in the composition.                                           *)

(* Whoever calls whom, the escrow can pay all its live escrows at once, so *)
(* that no cancellation and no verdict of another contract fails for want  *)
(* of money: batches aside, which do not count what they deposit.          *)
THEOREM BackedInProtocol ==
  ASSUME IsFiniteSet(Ids), AmountsFit
  PROVE  ProtocolSpec =>
           /\ []LiveBacked
           /\ [](\A id \in Held :
                   BatchAmount(escrow[id].token) = 0 => FundsPresent(id))
<1>1. Spec => []LiveBacked
  BY AlwaysBacked
<1>2. Spec => [](\A id \in Held :
                   BatchAmount(escrow[id].token) = 0 => FundsPresent(id))
  BY GuardNeverRefuses
<1>3. QED
  BY <1>1, <1>2, UsesEscrow, PTL

=============================================================================
