------------------------- MODULE MCAccountAuthority -------------------------
(* Instances of AccountAuthority for TLC. *)
EXTENDS AccountAuthority
CONSTANTS d1, d2
=============================================================================
