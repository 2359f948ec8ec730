-------------------------- MODULE MCChargingPolicy --------------------------
(* Instances of ChargingPolicy for TLC. *)
EXTENDS ChargingPolicy, TLC
=============================================================================
