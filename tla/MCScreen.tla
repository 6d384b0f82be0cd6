------------------------------- MODULE MCScreen ------------------------------
(* TLC instance of the alert screen.  A tick is 2.5 s, the coarsest that     *)
(* keeps the order of the time limits.                                       *)
EXTENDS AlertScreen

Alert(risk, threat, class) == [
    riskLevel |-> risk, threatType |-> threat, band |-> "5.8GHz", distanceLabel |-> "NEAR",
    droneClass |-> class]

MCAlerts == {Alert("CRITICAL", "UNKNOWN", "MULTI"), Alert("HIGH", "FPV", "FM Analog"),
             Alert("HIGH", "FPV", "AIRCRAFT")}

MCHoldTicks == [CRITICAL |-> 4, HIGH |-> 3, MEDIUM |-> 2, LOW |-> 1]
=============================================================================
