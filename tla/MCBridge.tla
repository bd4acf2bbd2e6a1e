-------------------------------- MODULE MCBridge -------------------------------
(* Instance of the bridge for TLC. *)
EXTENDS Bridge
=============================================================================
