----------------------------- MODULE AlertEngine -----------------------------
(***************************************************************************)
(* Which alert the watch keeps: updatePriorityAlert() of                   *)
(* garmin-app/source/AlertEngine.mc, which every public method calls.      *)
(*                                                                         *)
(* Operators take the record of its fields and return it changed.  Alerts  *)
(* are objects and every notification is a new one: fresh says that the    *)
(* source holds an object the engine has not seen, changed that the engine *)
(* has accepted one the view has not.                                      *)
(***************************************************************************)
EXTENDS Naturals

CONSTANTS
    Alerts,         \* the alerts received: records of the five fields used here
    NoAlert,
    HoldTicks       \* PRIORITY_HOLD_*_MS by risk level, in ticks

ASSUME HoldAssumption ==
    \A level \in {"CRITICAL", "HIGH", "MEDIUM", "LOW"} : HoldTicks[level] \in Nat \ {0}

RiskLevels == {"LOW", "MEDIUM", "HIGH", "CRITICAL"}

getSeverityPriority == [LOW |-> 1, MEDIUM |-> 2, HIGH |-> 3, CRITICAL |-> 4]

getThreatPriority == [FPV |-> 3, UNKNOWN |-> 2, DJI |-> 1, AUTEL |-> 1]

\* What CborAlertDecoder leaves in the two fields.
ASSUME AlertAssumption ==
    /\ NoAlert \notin Alerts
    /\ \A alert \in Alerts : /\ alert.riskLevel \in RiskLevels
                            /\ alert.threatType \in DOMAIN getThreatPriority

getBandPriority(band) ==
    CASE band = "MULTI" -> 3
      [] band = "5.8GHz" -> 2
      [] band \in {"2.4GHz", "1.2GHz", "3.3GHz"} -> 1
      [] OTHER -> 0

\* The three priorities in one number, the severity first.
Rank(alert) ==
    16 * getSeverityPriority[alert.riskLevel] + 4 * getThreatPriority[alert.threatType]
        + getBandPriority(alert.band)

\* compareAlertPriority() > 0.
Higher(left, right) == Rank(left) > Rank(right)

Hold(alert) == IF alert = NoAlert THEN 0 ELSE HoldTicks[alert.riskLevel]

Engine == [
    incoming: Alerts \cup {NoAlert},    \* the source's latest alert
    fresh: BOOLEAN,
    observed: BOOLEAN,                  \* the view has noted its arrival
    incomingFor: Nat,                   \* since the engine saw it, while unobserved
    current: Alerts \cup {NoAlert},     \* _currentPriorityAlert
    acceptedFor: Nat,                   \* since _priorityAcceptedAtMs, up to the hold
    changed: BOOLEAN]

InitialEngine == [
    incoming |-> NoAlert, fresh |-> FALSE, observed |-> TRUE, incomingFor |-> 0,
    current |-> NoAlert, acceptedFor |-> 0, changed |-> FALSE]

\* onNotificationBytes(): a notification that does not decode leaves no alert.
Notified(e, alert) == [e EXCEPT !.incoming = alert, !.fresh = alert # NoAlert]

shouldAcceptEqualPriorityUpdate(incoming, current) ==
    incoming.band # current.band \/ incoming.droneClass # current.droneClass

hasPriorityHoldExpired(e) == e.acceptedFor >= Hold(e.current)

\* Fault variant: a higher alert waits for the hold as a lower one does.
AcceptsAfterHold(e) == e.current = NoAlert \/ hasPriorityHoldExpired(e)

Accepts(e) ==
    IF e.current = NoAlert \/ Higher(e.incoming, e.current) THEN TRUE
    ELSE IF Higher(e.current, e.incoming) THEN hasPriorityHoldExpired(e)
    ELSE shouldAcceptEqualPriorityUpdate(e.incoming, e.current)

\* Fault variant: the time the last alert was accepted stays.
AcceptsWithoutTime(e) == [e EXCEPT !.current = e.incoming, !.changed = TRUE]

acceptPriorityAlert(e) ==
    [e EXCEPT !.current = e.incoming, !.acceptedFor = 0, !.changed = TRUE]

\* Fault variant: an alert that is suppressed starts the hold again.
SuppressedStartsHold(e) == [e EXCEPT !.acceptedFor = 0]

Suppressed(e) == e

Seen(e) ==
    IF e.fresh THEN [e EXCEPT !.fresh = FALSE, !.observed = FALSE, !.incomingFor = 0] ELSE e

updatePriorityAlert(e) ==
    IF e.incoming = NoAlert THEN e
    ELSE IF Accepts(Seen(e)) THEN acceptPriorityAlert(Seen(e))
    ELSE Suppressed(Seen(e))

UpTo(n, limit) == IF n < limit THEN n ELSE limit

EngineTimePasses(e) ==
    [e EXCEPT !.acceptedFor = UpTo(@ + 1, Hold(e.current)),
              !.incomingFor = IF e.observed THEN 0 ELSE @ + 1]
=============================================================================
