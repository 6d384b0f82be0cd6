------------------------------ MODULE MCBridge ------------------------------
(* TLC instance of the bridge and the monitor on the watch.                 *)
EXTENDS BridgeToWatch

CONSTANTS h1, h2
=============================================================================
