------------------------------ MODULE MCLatency ------------------------------
(* TLC instance of the clocks of the latency monitor.                        *)
EXTENDS LatencyClocks
=============================================================================
