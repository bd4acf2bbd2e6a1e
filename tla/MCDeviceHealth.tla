----------------------------- MODULE MCDeviceHealth ----------------------------
(* Instance of device health for TLC. *)
EXTENDS DeviceHealth, TLC
Symmetry == Permutations(Zids) \cup Permutations(Polls)
=============================================================================
