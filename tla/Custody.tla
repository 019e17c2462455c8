------------------------------ MODULE Custody ------------------------------
(***************************************************************************)
(* What the escrow contract promises to the parties of a delivery, with    *)
(* nothing said of disputes, deadlines, callers or contract storage: the   *)
(* money deposited for a delivery is held, then leaves once, to the last   *)
(* unit, and the platform takes at most its capped share, and only when    *)
(* nothing goes back to the sender.  Module Escrow implements it.          *)
(***************************************************************************)
EXTENDS Integers

CONSTANTS Ids,          \* delivery identifiers
          MaxFeeBps,    \* the cap on the platform's share, in basis points
          BasisPoints   \* basis points in a whole

VARIABLES slot,     \* slot[id]: "empty", then "held", then "settled"
          deposit,  \* deposit[id]: what the sender put in
          payout    \* payout[id]: what has left, by beneficiary

vars == <<slot, deposit, payout>>

Payout == [sender : Nat, driver : Nat, fee : Nat]

NothingPaid == [sender |-> 0, driver |-> 0, fee |-> 0]

Total(p) == p.sender + p.driver + p.fee

TypeOK ==
  /\ slot \in [Ids -> {"empty", "held", "settled"}]
  /\ deposit \in [Ids -> Nat]
  /\ payout \in [Ids -> Payout]

Init ==
  /\ slot = [id \in Ids |-> "empty"]
  /\ deposit = [id \in Ids |-> 0]
  /\ payout = [id \in Ids |-> NothingPaid]

(* One transaction may open several deliveries.                            *)
Deposit ==
  /\ slot' \in [Ids -> {"empty", "held", "settled"}]
  /\ deposit' \in [Ids -> Nat]
  /\ \A id \in Ids : \/ slot'[id] = slot[id] /\ deposit'[id] = deposit[id]
                     \/ slot[id] = "empty" /\ slot'[id] = "held"
  /\ UNCHANGED payout

Fair(p, amount) ==
  /\ p \in Payout
  /\ Total(p) = amount
  /\ p.fee * BasisPoints <= amount * MaxFeeBps
  /\ p.sender > 0 => p.fee = 0

Settle(id) ==
  /\ slot[id] = "held"
  /\ slot' = [slot EXCEPT ![id] = "settled"]
  /\ \A other \in Ids \ {id} : payout'[other] = payout[other]
  /\ Fair(payout'[id], deposit[id])
  /\ DOMAIN payout' = Ids
  /\ UNCHANGED deposit

Next == Deposit \/ \E id \in Ids : Settle(id)

Spec == Init /\ [][Next]_vars
=============================================================================
