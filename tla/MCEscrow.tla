------------------------------ MODULE MCEscrow ------------------------------
(***************************************************************************)
(* Values for the constants of module Escrow that a .cfg file cannot spell.*)
(***************************************************************************)
EXTENDS Escrow

NoTiers == {<<>>}

(* One tier: half the fee after the first completed delivery.              *)
OneTier == {<<[volume_threshold |-> 1, discount_bps |-> 500]>>}

(* Two explorations in one run, so that TLC need not interleave them: what *)
(* becomes of any creation, under the settings that init left; and what    *)
(* the administration does, around one escrow that was created singly.     *)
AsInitialized ==
  /\ admin \in Founders \cup {None} /\ pendingAdmin = None
  /\ feeBps \in {0, MAX_PLATFORM_FEE_BPS} /\ slippageBps \in {0, 500}
  /\ settlementContract = None /\ fleetContract = None /\ volumeTiers = <<>>
  /\ \A id \in Held : feeBps # 0 /\ escrow[id].fleet_id = None

CreatedSingly ==
  \A id \in Ids : escrow[id] # None =>
    /\ id = 1 /\ escrow[id].expires_at # None
    /\ escrow[id].driver = "dan" /\ escrow[id].token = "usd"

InstanceSpec == Init /\ [][Next /\ (AsInitialized' \/ CreatedSingly')]_vars

=============================================================================
