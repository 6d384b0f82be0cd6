---------------------------- MODULE TTSKW07Parser ---------------------------
(***************************************************************************)
(* The TTSKW07 line parser, esp32-bridge/include/TTSKW07Parser.h.          *)
(*                                                                         *)
(* A line is a sequence of tokens: the labels F:, R: and T:, runs of       *)
(* digits, blanks, and words, which are any other text.  A token knows how *)
(* many bytes it has, and a run of digits its value.  The text of a line   *)
(* is the sequence of what its tokens are.  The device timestamp and the   *)
(* other diagnostics are only logged and left out.                         *)
(***************************************************************************)
EXTENDS SkyShieldProtocol, FiniteSets, FiniteSetsExt, Functions

Tokens == [is: STRING, n: Nat, length: Nat]

Token(is, n, length) == [is |-> is, n |-> n, length |-> length]

Label(is) == Token(is, 0, 2)
Digits(n, length) == Token("digits", n, length)
Word(is, length) == Token(is, 0, length)
Space == Token("blank", 0, 1)

TokenBytes(tokens) == Total([i \in DOMAIN tokens |-> tokens[i].length])

TTSKW07_MAX_LINE == 220

-----------------------------------------------------------------------------
\* The index just past the first such label, past the end of the line if there
\* is none.
findLabel(line, from, label) ==
    LET found == {i \in from..Len(line) : line[i].is = label}
    IN  IF found = {} THEN Len(line) + 1 ELSE Min(found) + 1

skipSpaces(line, from) ==
    LET solid == {i \in from..Len(line) : line[i].is # "blank"}
    IN  IF solid = {} THEN Len(line) + 1 ELSE Min(solid)

\* An absurd value is no value.
readUnsignedAt(line, from) ==
    LET i == skipSpaces(line, from)
    IN  IF i <= Len(line) /\ line[i].is = "digits" /\ line[i].n <= 1000000
        THEN [value |-> line[i].n, end |-> i + 1]
        ELSE [value |-> Absent, end |-> from]

\* The text from begin on without blanks around it, cut to what the field holds
\* beside its terminator.
copyTrimmed(line, begin, capacity) ==
    LET solid == {i \in begin..Len(line) : line[i].is # "blank"}
        tokens == IF solid = {} THEN <<>> ELSE SubSeq(line, Min(solid), Max(solid))
    IN  Text([i \in DOMAIN tokens |-> tokens[i].is],
             Min({TokenBytes(tokens), capacity - 1}))

bandFromFrequency(megahertz) ==
    IF megahertz \in 1100..1350 THEN "1.2GHz"
    ELSE IF megahertz \in 2350..2550 THEN "2.4GHz"
    ELSE IF megahertz \in 3200..3600 THEN "3.3GHz"
    ELSE IF megahertz \in 5650..5950 THEN "5.8GHz"
    ELSE "UNKNOWN"

distanceFromSignal(signalValue) ==
    IF signalValue >= 70 THEN "NEAR" ELSE IF signalValue >= 40 THEN "MID" ELSE "FAR"

severityFromDistance(distance) ==
    IF distance = "NEAR" THEN "HIGH" ELSE IF distance = "MID" THEN "MEDIUM" ELSE "LOW"

ttskw07ThreatFromCode(typeCode) ==
    IF typeCode = 20 THEN "FPV"
    ELSE IF typeCode \in {2, 5, 6} THEN "DJI"
    ELSE IF typeCode \in {11, 12} THEN "AUTEL"
    ELSE "UNKNOWN"

\* Nothing identifiable and no usable band: a contact.
kindOf(threat, band) ==
    IF threat = "UNKNOWN" /\ band = "UNKNOWN" THEN "contact" ELSE "classified"

-----------------------------------------------------------------------------
Parsed(result, alert) == [result |-> result, alert |-> alert]

\* Every field is known: the alert.  The confidence stays absent.
ttskw07Alert(initial, now, sequence, frequency, signal, typeCode, description) ==
    LET threat == ttskw07ThreatFromCode(typeCode)
        band == bandFromFrequency(frequency)
        distance == distanceFromSignal(signal)
        fields == [initial EXCEPT
            !.timestampMs = now, !.sequence = sequence, !.sensorType = "rf",
            !.threat = threat, !.detectorTypeCode = typeCode, !.band = band,
            !.distance = distance, !.severity = severityFromDistance(distance),
            !.confidence = Absent, !.alertKind = kindOf(threat, band)]
    IN  alertSetSource(alertSetDroneClass(fields, description), Text(<<"TTSKW07">>, 7))

ttskw07ParseLine(line, now, sequence, alert) ==
    LET initial == alertInit(alert)
        missing == Len(line) + 1
        afterF == findLabel(line, 1, "F:")
        afterR == findLabel(line, afterF, "R:")
        afterT == IF afterR < missing THEN findLabel(line, afterR, "T:") ELSE missing
        frequency == readUnsignedAt(line, afterF)
        signal == readUnsignedAt(line, afterR)
        typeCode == readUnsignedAt(line, afterT)
        description == copyTrimmed(line, typeCode.end, DRONE_CLASS_CAPACITY)
        isDetection == TokenBytes(line) <= TTSKW07_MAX_LINE /\ afterF # missing
        isUsable ==
            /\ missing \notin {afterR, afterT}
            /\ Absent \notin {frequency.value, signal.value, typeCode.value}
            /\ typeCode.value <= 65535
    IN  IF ~isDetection THEN Parsed("NOT_A_DETECTION", initial)
        ELSE IF ~isUsable THEN Parsed("MALFORMED", initial)
        ELSE Parsed("OK", ttskw07Alert(initial, now, sequence, frequency.value,
                                       signal.value, typeCode.value, description))
=============================================================================
