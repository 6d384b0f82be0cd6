-------------------------- MODULE CborAlertDecoder --------------------------
(***************************************************************************)
(* The decoder of the watch, garmin-app/source/CborAlertDecoder.mc, which  *)
(* makes an AlertModel of a packet.                                        *)
(*                                                                         *)
(* It has its own enum tables and its own failures.  A Number of the watch *)
(* is a signed 32-bit integer, so a 4-byte argument above 2^31 - 1 comes   *)
(* out negative, and an argument of eight bytes is not read at all.        *)
(***************************************************************************)
EXTENDS SkyShieldCodec

threatName == <<"UNKNOWN", "FPV", "DJI", "AUTEL">>
severityName == <<"LOW", "MEDIUM", "HIGH", "CRITICAL">>
bandName == <<"UNKNOWN", "1.2GHz", "2.4GHz", "3.3GHz", "5.8GHz", "MULTI">>
distanceName == <<"UNKNOWN", "FAR", "MID", "NEAR">>
alertKindName == <<"CLASSIFIED", "CONTACT">>
sensorTypeName == <<"RF", "ACOUSTIC", "RADAR", "CONTACT">>
directionName == <<"FRONT", "LEFT", "RIGHT", "REAR">>
bandStrengthName == <<"NONE", "LOW", "MED", "HIGH">>

\* A value without a name of its own has the first one.
NameOf(table, value) == IF value + 1 \in DOMAIN table THEN table[value + 1] ELSE table[1]

Signed(n) == IF n < WordLimit \div 2 THEN n ELSE n - WordLimit

\* Absent is null, which is no number and no array.
ASSUME NullAssumption == Absent \notin Int \cup [1..4 -> Int]

\* readArgument() takes four bytes at most.
Readable(packet, i, major) == HasWhole(packet, i, major) /\ packet[i].arg < WordLimit

readUint(packet, i) ==
    IF Readable(packet, i, "uint") THEN Signed(packet[i].arg) ELSE Absent

readBoundedUint(packet, i, maxValue) ==
    LET value == readUint(packet, i)
    IN  IF value = Absent THEN Absent ELSE IF value > maxValue THEN Absent ELSE value

readTextString(packet, i) == IF Readable(packet, i, "text") THEN packet[i].text ELSE Absent

\* A field without a bound fails as malformed, one with a bound as a bad value.
Keep(r, field, value, failure) ==
    IF value = Absent THEN Fail(r, failure) ELSE Found(r, field, value, 2)

BoundOf == [sensorType |-> 3, alertKind |-> 1, threat |-> 3, severity |-> 3, band |-> 5,
            distance |-> 3, direction |-> 3, detectorTypeCode |-> 65535]

WatchReadsVersion(packet, r) ==
    LET version == readUint(packet, r.at + 1)
    IN  IF version # Absent /\ version # PROTOCOL_VERSION THEN Fail(r, "WRONG_VERSION")
        ELSE Keep(r, "protocolVersion", version, "MALFORMED")

WatchReadsConfidence(packet, r) ==
    IF HasWhole(packet, r.at + 1, "null") THEN Found(r, "confidence", Absent, 2)
    ELSE IF r.at + 1 \notin DOMAIN packet \/ packet[r.at + 1].major # "uint"
    THEN Fail(r, "MALFORMED")
    ELSE Keep(r, "confidence", readBoundedUint(packet, r.at + 1, 100), "BAD_VALUE")

WatchReadsBands(packet, r) ==
    LET level(i) == readBoundedUint(packet, r.at + 1 + i, 3)
    IN  IF r.at + 1 \notin DOMAIN packet \/ packet[r.at + 1].major # "array"
        THEN Fail(r, "MALFORMED")
        ELSE IF packet[r.at + 1].arg # 4 \/ \E i \in 1..4 : level(i) = Absent
        THEN Fail(r, "BAD_VALUE")
        ELSE Found(r, "bands", [i \in 1..4 |-> level(i)], 6)

\* Fault variant: a value that is not known is one item, whatever is in it.
SkipOneItem(packet, r) == [r EXCEPT !.at = @ + 2]

\* The argument of every item that is skipped has to be read.
WatchSkipsUnknown(packet, r) ==
    LET end == skipItem(packet, r.at + 1)
    IN  IF end = 0 \/ \E i \in (r.at + 1)..(end - 1) : packet[i].arg >= WordLimit
        THEN Fail(r, "MALFORMED") ELSE [r EXCEPT !.at = end]

readValueForKey(packet, r) ==
    LET field == FieldOf(packet[r.at].arg)
    IN  IF field = "protocolVersion" THEN WatchReadsVersion(packet, r)
        ELSE IF field \in {"timestampMs", "sequence", "detectorLatencyMs"}
        THEN Keep(r, field, readUint(packet, r.at + 1), "MALFORMED")
        ELSE IF field \in DOMAIN BoundOf
        THEN Keep(r, field, readBoundedUint(packet, r.at + 1, BoundOf[field]), "BAD_VALUE")
        ELSE IF field = "confidence" THEN WatchReadsConfidence(packet, r)
        ELSE IF field \in {"droneClass", "source"}
        THEN Keep(r, field, readTextString(packet, r.at + 1), "MALFORMED")
        ELSE IF field = "bands" THEN WatchReadsBands(packet, r)
        ELSE WatchSkipsUnknown(packet, r)

\* Levels nobody reported are unknown.
bandsToModel(bands) ==
    [i \in 1..4 |-> IF bands = Absent THEN "UNKNOWN" ELSE NameOf(bandStrengthName, bands[i])]

\* What the model holds for a field the packet does not have.
OrDefault(value, default) == IF value = Absent THEN default ELSE value

AlertModel(s) == [
    threatType |-> NameOf(threatName, s.threat),
    riskLevel |-> NameOf(severityName, s.severity),
    confidencePercent |-> s.confidence,
    band |-> NameOf(bandName, s.band),
    distanceLabel |-> NameOf(distanceName, s.distance),
    activeBands |-> bandsToModel(s.bands),
    directionLabel |-> IF s.direction = Absent THEN Absent ELSE NameOf(directionName, s.direction),
    source |-> OrDefault(s.source, EmptyText),
    sequence |-> s.sequence,
    droneClass |-> OrDefault(s.droneClass, Text(<<"UNKNOWN">>, 7)),
    alertKind |-> NameOf(alertKindName, s.alertKind),
    sensorType |-> NameOf(sensorTypeName, s.sensorType),
    timestampMs |-> s.timestampMs,
    detectorLatencyMs |-> s.detectorLatencyMs,
    detectorTypeCode |-> s.detectorTypeCode,
    hasBandDetail |-> s.bands # Absent]

Nothing == [f \in DOMAIN Keys |-> Absent]

buildResult(r) ==
    IF Verdict(r) = "OK" THEN [status |-> "OK", model |-> AlertModel(r.found)]
    ELSE [status |-> Verdict(r), model |-> Absent]

decode(packet) ==
    LET entry(r) == IF ~Readable(packet, r.at, "uint") THEN Fail(r, "MALFORMED")
                    ELSE readValueForKey(packet, r)
        read[n \in 0..packet[1].arg] ==
            IF n = 0 THEN Reader(Nothing)
            ELSE LET r == read[n - 1] IN IF r.status = "OK" THEN entry(r) ELSE r
    IN  IF ~Readable(packet, 1, "map") THEN [status |-> "MALFORMED", model |-> Absent]
        ELSE buildResult(read[packet[1].arg])
=============================================================================
