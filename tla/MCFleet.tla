------------------------------- MODULE MCFleet -------------------------------
(***************************************************************************)
(* Values for the constants of module Fleet that a .cfg file cannot spell. *)
(***************************************************************************)
EXTENDS Fleet

(* The owner with a second signer, the second signer alone, nobody.        *)
OwnerAndSigner == {<<"own", "sig">>, <<"sig">>, <<>>}

=============================================================================
