------------------------------- MODULE Charter -------------------------------
(***************************************************************************)
(* What the fleet contract promises to drivers, with nothing said of who   *)
(* manages a fleet: nobody is enrolled who was not asked and did not join  *)
(* of their own, a fleet that is closed stays closed and asks nobody, its  *)
(* size is counted one driver at a time, and where the money of its        *)
(* drivers goes changes only as announced, a time after the announcement.  *)
(* Module Fleet implements it.                                             *)
(***************************************************************************)
EXTENDS Integers

CONSTANTS
  Fleets, Drivers, Treasuries,
  None,
  Notice        \* from an announcement to its effect

VARIABLES
  treasury,     \* treasury[f]: None before f is founded
  open,         \* open[f]: f may ask drivers
  asked,        \* asked[f]: drivers with an invitation
  enrolled,     \* enrolled[f]: drivers who joined and have not left
  size,         \* size[f]: how many they are, counted
  plan,         \* plan[f]: the announced treasury, with the time of its
                \* effect, or None
  now           \* time

vars == <<treasury, open, asked, enrolled, size, plan, now>>

Init ==
  /\ treasury = [f \in Fleets |-> None]
  /\ open = [f \in Fleets |-> FALSE]
  /\ asked = [f \in Fleets |-> {}]
  /\ enrolled = [f \in Fleets |-> {}]
  /\ size = [f \in Fleets |-> 0]
  /\ plan = [f \in Fleets |-> None]
  /\ now = 0

Found(f, t) ==
  /\ treasury[f] = None /\ enrolled[f] = {}
  /\ treasury' = [treasury EXCEPT ![f] = t]
  /\ open' = [open EXCEPT ![f] = TRUE]
  /\ UNCHANGED <<asked, enrolled, size, plan, now>>

Close(f) ==
  /\ open' = [open EXCEPT ![f] = FALSE]
  /\ UNCHANGED <<treasury, asked, enrolled, size, plan, now>>

Ask(f, d) ==
  /\ open[f]
  /\ d \notin asked[f] \cup enrolled[f]
  /\ asked' = [asked EXCEPT ![f] = @ \cup {d}]
  /\ UNCHANGED <<treasury, open, enrolled, size, plan, now>>

(* By the fleet, or declined by the driver.                                *)
Withdraw(f, d) ==
  /\ d \in asked[f]
  /\ asked' = [asked EXCEPT ![f] = @ \ {d}]
  /\ UNCHANGED <<treasury, open, enrolled, size, plan, now>>

Join(f, d) ==
  /\ d \in asked[f]
  /\ asked' = [asked EXCEPT ![f] = @ \ {d}]
  /\ enrolled' = [enrolled EXCEPT ![f] = @ \cup {d}]
  /\ size' = [size EXCEPT ![f] = @ + 1]
  /\ UNCHANGED <<treasury, open, plan, now>>

Leave(f, d) ==
  /\ d \in enrolled[f]
  /\ enrolled' = [enrolled EXCEPT ![f] = @ \ {d}]
  /\ size' = [size EXCEPT ![f] = @ - 1]
  /\ UNCHANGED <<treasury, open, asked, plan, now>>

(* The time counts from the last announcement.                             *)
Announce(f, t) ==
  /\ treasury[f] # None
  /\ plan' = [plan EXCEPT ![f] = [treasury |-> t, activates_at |-> now + Notice]]
  /\ UNCHANGED <<treasury, open, asked, enrolled, size, now>>

TakeEffect(f) ==
  /\ plan[f] # None
  /\ now >= plan[f].activates_at
  /\ treasury' = [treasury EXCEPT ![f] = plan[f].treasury]
  /\ plan' = [plan EXCEPT ![f] = None]
  /\ UNCHANGED <<open, asked, enrolled, size, now>>

Pass ==
  /\ now' = now + 1
  /\ UNCHANGED <<treasury, open, asked, enrolled, size, plan>>

Govern(f) ==
  \/ \E t \in Treasuries : Found(f, t) \/ Announce(f, t)
  \/ Close(f)
  \/ TakeEffect(f)

Enrol(f, d) == Ask(f, d) \/ Withdraw(f, d) \/ Join(f, d) \/ Leave(f, d)

Next ==
  \/ \E f \in Fleets : Govern(f)
  \/ \E f \in Fleets, d \in Drivers : Enrol(f, d)
  \/ Pass

Spec == Init /\ [][Next]_vars
=============================================================================
