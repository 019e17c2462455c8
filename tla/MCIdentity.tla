----------------------------- MODULE MCIdentity -----------------------------
(***************************************************************************)
(* Values for the constants of module Identity that a .cfg file cannot     *)
(* spell.                                                                  *)
(***************************************************************************)
EXTENDS Identity

(* Many points for a delivery; with heavy cargo the sum passes MaxU32.     *)
Generous ==
  {[base_points |-> 40, heavy_cargo_points |-> 100, fragile_points |-> 2]}

=============================================================================
