--------------------------- MODULE MCAccountDevices ---------------------------
(* Instances of AccountDevices for TLC. *)
EXTENDS AccountDevices
CONSTANTS a, b, p
Bounds == Logs!Bounds
\* One kind of misfortune at a time.
MCFactScenes == {[l \in Bounds |-> IF l = k THEN 1 ELSE 0] : k \in Bounds}
=============================================================================
