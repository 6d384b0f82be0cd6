---------------------------- MODULE ThreatHaptics ----------------------------
(***************************************************************************)
(* The threat half of garmin-app/source/VibrationEngine.mc: one pulse for  *)
(* an alert, at most.  LinkHaptics has the other half.                     *)
(*                                                                         *)
(* Operators take the record of the fields and return it changed.  age is  *)
(* getTimer() - _lastVibrationMs, up to the repeat interval.               *)
(***************************************************************************)
EXTENDS AlertEngine, Integers

CONSTANTS
    Cooldown,       \* HAPTIC_COOLDOWN_MS, in ticks
    Repeat          \* HAPTIC_ELEVATED_REPEAT_MS

ASSUME HapticAssumption == Cooldown \in Nat /\ Repeat \in Nat

SeverityOf(alert) == getSeverityPriority[alert.riskLevel] - 1

\* compactBand() knows four bands.
CompactBand(band) == IF band \in {"5.8GHz", "2.4GHz", "3.3GHz", "1.2GHz"} THEN band ELSE "X"

\* compactStrength() knows two distances.
CompactStrength(distance) == IF distance \in {"NEAR", "MID"} THEN distance ELSE "F"

getAlertKey(alert) ==
    <<alert.threatType, alert.riskLevel, CompactBand(alert.band),
      CompactStrength(alert.distanceLabel), alert.droneClass>>

AlertKeys == {getAlertKey(alert) : alert \in Alerts}

Haptics == [
    key: AlertKeys \cup {<<>>},     \* _lastAlertKey, <<>> if there is none
    severity: -1..3,                \* _lastSeverityPriority
    age: 0..Repeat,
    busy: BOOLEAN]                  \* before _busyUntilMs

\* reset(), when the RF session ends.
ResetHaptics == [key |-> <<>>, severity |-> -1, age |-> Repeat, busy |-> FALSE]

\* Whether triggerForAlert() gets as far as the pulse.
Pulses(h, alert) ==
    LET same == h.key = getAlertKey(alert)
        increased == SeverityOf(alert) > h.severity
        cooling == h.key # <<>> /\ h.age < Cooldown
    IN  /\ ~(same /\ (alert.riskLevel # "CRITICAL" \/ h.age < Repeat))
        /\ cooling => ~same /\ increased
        /\ h.busy => increased

Remembered(h, alert) ==
    [key |-> getAlertKey(alert), severity |-> SeverityOf(alert), age |-> 0, busy |-> TRUE]

\* Fault variant: an alert is remembered although it was held back.
RemembersAnyway(h, alert, played) == Remembered(h, alert)

\* played is what vibrate() does: it may throw.
triggerForAlert(h, alert, played) ==
    IF Pulses(h, alert) /\ played THEN Remembered(h, alert) ELSE h

\* A pulse is shorter than a tick, and so is a rhythm of the link.
HapticTimePasses(h) == [h EXCEPT !.age = UpTo(@ + 1, Repeat), !.busy = FALSE]

LinkRhythm(h) == [h EXCEPT !.busy = TRUE]
=============================================================================
