----------------------------- MODULE MCCapture ------------------------------
(* TLC instance of the line capture.                                        *)
EXTENDS RawSerialCapture

CONSTANTS a, b
=============================================================================
