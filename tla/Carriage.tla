------------------------------ MODULE Carriage ------------------------------
(***************************************************************************)
(* What the four contracts together promise to the parties of a delivery,  *)
(* with nothing said of callers, contracts, tokens or time: the course of  *)
(* the parcel, the place of the money and the verdict on a dispute move    *)
(* together where they have to.  A parcel is delivered in the step that    *)
(* makes its money due, cancelled in the step that pays it back, and       *)
(* disputed in the step that freezes it; a verdict is given in the step    *)
(* that carries it out.  Between these steps the money may move, forward   *)
(* only, without the parcel.  The promise leaves room for a dispute after  *)
(* delivery and for a disputed parcel that ends as its verdict says;       *)
(* module Protocol implements it without taking either.                    *)
(***************************************************************************)
CONSTANT Ids            \* delivery identifiers

VARIABLES course,    \* course[id]: "none", "open", then as below
          money,     \* money[id]: "none", then as in MoneyMoves
          verdict    \* verdict[id]: "none", "open", then one of Verdicts

vars == <<course, money, verdict>>

Verdicts == {"refund", "payout", "split"}

(* Held money becomes due to the driver; held or due, it may be frozen; it *)
(* leaves for the driver or the sender, or, frozen, in shares.             *)
MoneyMoves ==
  {<<"held", "due">>, <<"held", "frozen">>,
   <<"held", "driver">>, <<"held", "sender">>,
   <<"due", "frozen">>, <<"due", "driver">>, <<"due", "sender">>,
   <<"frozen", "driver">>, <<"frozen", "sender">>, <<"frozen", "shared">>}

Places == {"none", "held", "due", "frozen", "driver", "sender", "shared"}

Init ==
  /\ course = [id \in Ids |-> "none"]
  /\ money = [id \in Ids |-> "none"]
  /\ verdict = [id \in Ids |-> "none"]

(* One transaction may book, or pay for, several deliveries.               *)
Begins(f, new, from, to) ==
  /\ \A id \in new : f[id] = from
  /\ f' = [id \in Ids |-> IF id \in new THEN to ELSE f[id]]

Book ==
  /\ \E new \in SUBSET Ids : Begins(course, new, "none", "open")
  /\ UNCHANGED <<money, verdict>>

Pay ==
  /\ \E new \in SUBSET Ids : Begins(money, new, "none", "held")
  /\ UNCHANGED <<course, verdict>>

Turn(f, id, from, to) == f[id] \in from /\ f' = [f EXCEPT ![id] = to]

Deliver(id) ==
  /\ Turn(course, id, {"open"}, "delivered")
  /\ Turn(money, id, {"held"}, "due")
  /\ UNCHANGED verdict

Cancel(id) ==
  /\ Turn(course, id, {"open"}, "cancelled")
  /\ Turn(money, id, {"held", "due", "frozen"}, "sender")
  /\ UNCHANGED verdict

(* On the way or after delivery, with or without opening a case.           *)
Contest(id) ==
  /\ Turn(course, id, {"open", "delivered"}, "disputed")
  /\ Turn(money, id, {"held", "due"}, "frozen")
  /\ Turn(verdict, id, {"none"}, "open") \/ UNCHANGED verdict

(* Whoever moves the money directly.                                       *)
MoveMoney(id) ==
  /\ \E place \in Places :
       /\ <<money[id], place>> \in MoneyMoves
       /\ money' = [money EXCEPT ![id] = place]
  /\ UNCHANGED <<course, verdict>>

(* Over frozen money, the verdict moves it.  Over money that has left, it  *)
(* can only be a split, and moves nothing.  The parcel may end with it.    *)
Judge(id, v) ==
  /\ Turn(verdict, id, {"open"}, v)
  /\ \/ v = "refund" /\ Turn(money, id, {"frozen"}, "sender")
     \/ v = "payout" /\ Turn(money, id, {"frozen"}, "driver")
     \/ v = "split" /\ Turn(money, id, {"frozen"}, "shared")
     \/ /\ v = "split"
        /\ money[id] \in {"driver", "sender", "shared"} /\ UNCHANGED money
  /\ \/ UNCHANGED course
     \/ v \in {"payout", "split"} /\ Turn(course, id, {"disputed"}, "delivered")
     \/ v \in {"refund", "split"} /\ Turn(course, id, {"disputed"}, "cancelled")

Next ==
  \/ Book
  \/ Pay
  \/ \E id \in Ids :
       \/ Deliver(id)
       \/ Cancel(id)
       \/ Contest(id)
       \/ MoveMoney(id)
       \/ \E v \in Verdicts : Judge(id, v)

Spec == Init /\ [][Next]_vars
=============================================================================
