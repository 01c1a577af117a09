----------------------------- MODULE MCDeviceTasks -----------------------------
(***************************************************************************)
(* DeviceTasks for TLC: none of the devices is special, so they may be     *)
(* exchanged for one another in the runs that check no liveness.           *)
(***************************************************************************)
EXTENDS DeviceTasks, TLC

DeviceSymmetry == Permutations(Devices)
================================================================================
