-------------------------- MODULE SkyShieldProtocol -------------------------
(***************************************************************************)
(* The normalized alert, esp32-bridge/include/SkyShieldProtocol.h: the one *)
(* struct every detector fills and the encoder reads.                      *)
(*                                                                         *)
(* An enum is the sequence of its names, in the order of the wire values   *)
(* from 0.  An optional field and its has-flag are one field that may be   *)
(* Absent.  A text is what it was copied from and how many bytes of that   *)
(* it holds: the bytes themselves are left out.                            *)
(***************************************************************************)
EXTENDS Naturals, Sequences

CONSTANTS
    Absent,         \* the value of a field that is not there
    WordLimit       \* 2^32: the clock and the sequence are uint32_t

\* Half a word holds every type code: what a uint16_t holds, an int32_t does.
ASSUME WordAssumption == WordLimit \in Nat /\ WordLimit \div 2 > 65535

\* The sum of a sequence of numbers.
Total(numbers) ==
    LET upTo[n \in 0..Len(numbers)] == IF n = 0 THEN 0 ELSE upTo[n - 1] + numbers[n]
    IN  upTo[Len(numbers)]

PROTOCOL_VERSION == 4
\* Fault variant: the largest payload a comment at LOG_MTU_DIAGNOSTICS names.
DocumentedLargest == 69

MAX_PAYLOAD_BYTES == 180
DRONE_CLASS_CAPACITY == 64
SOURCE_CAPACITY == 16

SensorType == <<"rf", "acoustic", "radar", "contact">>
AlertKind == <<"classified", "contact">>
Threat == <<"UNKNOWN", "FPV", "DJI", "AUTEL">>
Severity == <<"LOW", "MEDIUM", "HIGH", "CRITICAL">>
Band == <<"UNKNOWN", "1.2GHz", "2.4GHz", "3.3GHz", "5.8GHz", "MULTI">>
Distance == <<"UNKNOWN", "FAR", "MID", "NEAR">>
BandStrength == <<"NONE", "LOW", "MED", "HIGH">>
Direction == <<"FRONT", "LEFT", "RIGHT", "REAR">>

Names(enum) == {enum[i] : i \in DOMAIN enum}

WireValue(enum, name) == (CHOOSE i \in DOMAIN enum : enum[i] = name) - 1

Name(enum, value) == enum[value + 1]

Keys == [
    protocolVersion |-> 1, timestampMs |-> 2, sequence |-> 3, sensorType |-> 4,
    alertKind |-> 5, threat |-> 6, severity |-> 7, band |-> 8, distance |-> 9,
    confidence |-> 10, droneClass |-> 11, detectorLatencyMs |-> 12, bands |-> 13,
    direction |-> 14, source |-> 15, detectorTypeCode |-> 16]

Text(of, length) == [of |-> of, length |-> length]

EmptyText == Text(<<>>, 0)

EmptyAlert == [
    timestampMs |-> 0, sequence |-> 0, sensorType |-> "rf", alertKind |-> "classified",
    threat |-> "UNKNOWN", severity |-> "LOW", band |-> "UNKNOWN", distance |-> "UNKNOWN",
    confidence |-> Absent, droneClass |-> Absent, detectorLatencyMs |-> Absent,
    bands |-> Absent, direction |-> Absent, source |-> Absent, detectorTypeCode |-> Absent]

\* Fault variant: the optional fields are not reset.
KeepsOptional(alert) ==
    [EmptyAlert EXCEPT !.confidence = alert.confidence, !.droneClass = alert.droneClass,
                       !.detectorLatencyMs = alert.detectorLatencyMs, !.bands = alert.bands]

\* alert is whatever the storage holds.
alertInit(alert) == EmptyAlert

alertInitContact(alert, timestampMs, sequence) ==
    [alertInit(alert) EXCEPT !.alertKind = "contact", !.timestampMs = timestampMs,
                             !.sequence = sequence, !.severity = "LOW"]

TooLarge(text, capacity) == text.length >= capacity

\* A text that does not fit leaves the field absent, and so does an empty one.
setBoundedField(text, capacity) ==
    IF text.length = 0 \/ TooLarge(text, capacity) THEN Absent ELSE text

alertSetDroneClass(alert, text) ==
    [alert EXCEPT !.droneClass = setBoundedField(text, DRONE_CLASS_CAPACITY)]

alertSetSource(alert, text) ==
    [alert EXCEPT !.source = setBoundedField(text, SOURCE_CAPACITY)]

TypeCodes == {n \in Nat : n <= 65535}

\* The fields of a whole alert.
IsAlert(alert) ==
    /\ alert.timestampMs \in 0..(WordLimit - 1)
    /\ alert.sequence \in 0..(WordLimit - 1)
    /\ alert.sensorType \in Names(SensorType)
    /\ alert.alertKind \in Names(AlertKind)
    /\ alert.threat \in Names(Threat)
    /\ alert.severity \in Names(Severity)
    /\ alert.band \in Names(Band)
    /\ alert.distance \in Names(Distance)
    /\ alert.confidence \in 0..100 \cup {Absent}
    /\ alert.droneClass # Absent => alert.droneClass.length \in 1..(DRONE_CLASS_CAPACITY - 1)
    /\ alert.detectorLatencyMs \in 0..(WordLimit - 1) \cup {Absent}
    /\ alert.bands # Absent => alert.bands \in [1..4 -> Names(BandStrength)]
    /\ alert.direction \in Names(Direction) \cup {Absent}
    /\ alert.source # Absent => alert.source.length \in 1..(SOURCE_CAPACITY - 1)
    /\ alert.detectorTypeCode \in TypeCodes \cup {Absent}
=============================================================================
