-------------------------------- MODULE MCBle --------------------------------
(* TLC instance of the BLE client alone: two workarea slots.  Nothing tells  *)
(* one device from the other, so the run that checks safety only counts them *)
(* as one.                                                                   *)
EXTENDS BleAlertSource, TLC

CONSTANTS d1, d2

Interchangeable == Permutations(Devices)
=============================================================================
