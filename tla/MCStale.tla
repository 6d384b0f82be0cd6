------------------------------- MODULE MCStale -------------------------------
(* TLC instance of the alert screen with its history.                        *)
EXTENDS MCScreen, StaleAlerts
=============================================================================
