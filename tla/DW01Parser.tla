----------------------------- MODULE DW01Parser -----------------------------
(***************************************************************************)
(* The DW01 record parser, esp32-bridge/include/DW01Parser.h.              *)
(*                                                                         *)
(* A record is a sequence of characters, because what the parser has to    *)
(* get right is where a field of digits ends: T is hexadecimal, and the C  *)
(* that starts the next field is a hex digit too.  Hex digits are written  *)
(* in one case here; the code takes both.                                  *)
(***************************************************************************)
EXTENDS TTSKW07Parser, SequencesExt

DW01_MAX_LINE == 120

Decimals == <<"0", "1", "2", "3", "4", "5", "6", "7", "8", "9">>
Hexadecimals == Decimals \o <<"A", "B", "C", "D", "E", "F">>

DigitValue(char) == WireValue(Hexadecimals, char)

DigitRun(record, from, maxDigits) ==
    Max({n \in 0..maxDigits : \A i \in from..(from + n - 1) :
            i <= Len(record) /\ record[i] \in Names(Decimals)})

readBoundedUnsignedAt(record, from, maxDigits) ==
    LET digits == DigitRun(record, from, maxDigits)
        value == FoldLeft(LAMBDA n, char : 10 * n + DigitValue(char), 0,
                          SubSeq(record, from, from + digits - 1))
    IN  [value |-> IF digits = 0 THEN Absent ELSE value, end |-> from + digits]

\* Exactly two digits.
readHexPairAt(record, from) ==
    IF from + 1 <= Len(record) /\ {record[from], record[from + 1]} \subseteq Names(Hexadecimals)
    THEN [value |-> 16 * DigitValue(record[from]) + DigitValue(record[from + 1]), end |-> from + 2]
    ELSE [value |-> Absent, end |-> from]

\* Fault variant: the range of Autel ends a code early.
AutelStopsEarly(typeCode) ==
    IF typeCode \in 1..7 THEN "DJI"
    ELSE IF typeCode \in 16..17 THEN "AUTEL"
    ELSE IF typeCode = 32 THEN "FPV"
    ELSE "UNKNOWN"

\* The codes are hexadecimal: 16..18 is 0x10..0x12, 32 is 0x20, 48 is 0x30.
dw01ThreatFromCode(typeCode) ==
    IF typeCode \in 1..7 THEN "DJI"
    ELSE IF typeCode \in 16..18 THEN "AUTEL"
    ELSE IF typeCode = 32 THEN "FPV"
    ELSE "UNKNOWN"

\* The model text by its beginning and its length: 0x02 leaves one byte free.
dw01ModelTextFromCode(typeCode) ==
    IF typeCode = 1 THEN Text(<<"DJI", "LB">>, 56)
    ELSE IF typeCode = 2 THEN Text(<<"DJI", "OCU">>, 62)
    ELSE IF typeCode = 3 THEN Text(<<"DJI", "Special", "Phantom">>, 26)
    ELSE IF typeCode = 4 THEN Text(<<"DJI", "Special", "MINI">>, 19)
    ELSE IF typeCode = 5 THEN Text(<<"DJI", "O3+">>, 30)
    ELSE IF typeCode = 6 THEN Text(<<"DJI", "O3">>, 41)
    ELSE IF typeCode = 7 THEN Text(<<"DJI", "O4">>, 29)
    ELSE IF typeCode = 16 THEN Text(<<"AUTEL", "EVO", "2">>, 20)
    ELSE IF typeCode = 17 THEN Text(<<"AUTEL", "LITE/NANO">>, 24)
    ELSE IF typeCode = 18 THEN Text(<<"AUTEL", "EVO", "2", "PRO">>, 24)
    ELSE IF typeCode = 32 THEN Text(<<"FM", "Analog">>, 34)
    ELSE IF typeCode = 48 THEN Text(<<"WiFi">>, 45)
    ELSE IF typeCode = 0 THEN Text(<<"Unrecognized">>, 12)
    ELSE EmptyText

ASSUME ModelTextAssumption == \A typeCode \in 0..255 : dw01ModelTextFromCode(typeCode) # Absent

dw01Alert(initial, now, sequence, frequency, signal, typeCode) ==
    LET threat == dw01ThreatFromCode(typeCode)
        band == bandFromFrequency(frequency)
        distance == distanceFromSignal(signal)
        fields == [initial EXCEPT
            !.timestampMs = now, !.sequence = sequence, !.sensorType = "rf",
            !.threat = threat, !.detectorTypeCode = typeCode, !.band = band,
            !.distance = distance, !.severity = severityFromDistance(distance),
            !.confidence = Absent, !.alertKind = kindOf(threat, band)]
    IN  alertSetSource(alertSetDroneClass(fields, dw01ModelTextFromCode(typeCode)),
                       Text(<<"DW01">>, 4))

CharAt(record, i) == IF i <= Len(record) THEN record[i] ELSE "end"

\* The capture has taken the blanks around the record away.  The C field is only
\* logged, and with it whatever follows the type code.
dw01ParseLine(record, now, sequence, alert) ==
    LET initial == alertInit(alert)
        frequency == readBoundedUnsignedAt(record, 2, 4)
        signal == readBoundedUnsignedAt(record, frequency.end + 1, 3)
        typeCode == readHexPairAt(record, signal.end + 1)
        isRecord == Len(record) <= DW01_MAX_LINE /\ CharAt(record, 1) = "F"
        isUsable ==
            /\ frequency.value # Absent /\ CharAt(record, frequency.end) = "R"
            /\ signal.value # Absent /\ CharAt(record, signal.end) = "T"
            /\ typeCode.value # Absent
    IN  IF ~isRecord THEN Parsed("NOT_A_DETECTION", initial)
        ELSE IF ~isUsable THEN Parsed("MALFORMED", initial)
        ELSE Parsed("OK", dw01Alert(initial, now, sequence, frequency.value,
                                    signal.value, typeCode.value))
=============================================================================
