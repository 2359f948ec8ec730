---------------------------- MODULE MCBleMonitor ----------------------------
(* Instances of BleMonitor for TLC. *)
EXTENDS BleMonitor, TLC
=============================================================================
