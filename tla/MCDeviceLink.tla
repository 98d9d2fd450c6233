---------------------------- MODULE MCDeviceLink ----------------------------
(* Instances of DeviceLink for TLC. *)
EXTENDS DeviceLink
CONSTANTS d1, d2
=============================================================================
