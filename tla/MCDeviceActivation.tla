------------------------- MODULE MCDeviceActivation -------------------------
(* Instances of DeviceActivation for TLC. *)
EXTENDS DeviceActivation
CONSTANTS p, q
=============================================================================
