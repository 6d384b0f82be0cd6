--------------------------- MODULE SkyShieldCodec ---------------------------
(***************************************************************************)
(* The CBOR codec of the bridge, esp32-bridge/include/SkyShieldCodec.h:    *)
(* encodeAlert() and decodeAlert().                                        *)
(*                                                                         *)
(* A packet is the sequence of its data items, each with its major type,   *)
(* its argument (the value, the length of a text, the count of an array or *)
(* a map), its text, and how many of its bytes are there: an item that was *)
(* cut off has fewer than it needs.  The bytes themselves are left out.    *)
(***************************************************************************)
EXTENDS SkyShieldProtocol, Integers, FiniteSets, FiniteSetsExt, Functions, SequencesExt

\* The shortest form that fits: the bytes of an argument after the initial byte.
ArgumentBytes(n) ==
    IF n < 24 THEN 0 ELSE IF n < 256 THEN 1 ELSE IF n < 65536 THEN 2
    ELSE IF n < WordLimit THEN 4 ELSE 8

\* What an item takes before the bytes of its text.
HeadBytes(item) == IF item.major = "null" THEN 1 ELSE 1 + ArgumentBytes(item.arg)

ItemBytes(item) == HeadBytes(item) + (IF item.major = "text" THEN item.arg ELSE 0)

Item(major, arg, text) ==
    LET item == [major |-> major, arg |-> arg, text |-> text, got |-> 0]
    IN  [item EXCEPT !.got = ItemBytes(item)]

Uint(n) == Item("uint", n, EmptyText)
Null == Item("null", 0, EmptyText)
TextString(text) == Item("text", text.length, text)
ArrayHeader(n) == Item("array", n, EmptyText)
MapHeader(n) == Item("map", n, EmptyText)

PacketBytes(packet) == Total([i \in DOMAIN packet |-> packet[i].got])

-----------------------------------------------------------------------------
(* The encoder.                                                             *)

Entry(key, items) == <<Uint(key)>> \o items

Optional(key, field, items) == IF field = Absent THEN <<>> ELSE Entry(key, items)

Bands(bands) ==
    <<ArrayHeader(4)>> \o [i \in 1..4 |-> Uint(WireValue(BandStrength, bands[i]))]

\* Fault variant: no confidence is sent as no chance.
ConfidenceOrZero(confidence) == IF confidence = Absent THEN Uint(0) ELSE Uint(confidence)

ConfidenceItem(confidence) == IF confidence = Absent THEN Null ELSE Uint(confidence)

RequiredEntries(alert) ==
    Entry(Keys.protocolVersion, <<Uint(PROTOCOL_VERSION)>>)
        \o Entry(Keys.timestampMs, <<Uint(alert.timestampMs)>>)
        \o Entry(Keys.sequence, <<Uint(alert.sequence)>>)
        \o Entry(Keys.sensorType, <<Uint(WireValue(SensorType, alert.sensorType))>>)
        \o Entry(Keys.alertKind, <<Uint(WireValue(AlertKind, alert.alertKind))>>)
        \o Entry(Keys.threat, <<Uint(WireValue(Threat, alert.threat))>>)
        \o Entry(Keys.severity, <<Uint(WireValue(Severity, alert.severity))>>)
        \o Entry(Keys.band, <<Uint(WireValue(Band, alert.band))>>)
        \o Entry(Keys.distance, <<Uint(WireValue(Distance, alert.distance))>>)
        \o Entry(Keys.confidence, <<ConfidenceItem(alert.confidence)>>)

OptionalEntries(alert) ==
    Optional(Keys.droneClass, alert.droneClass, <<TextString(alert.droneClass)>>)
        \o Optional(Keys.detectorLatencyMs, alert.detectorLatencyMs,
                    <<Uint(alert.detectorLatencyMs)>>)
        \o Optional(Keys.bands, alert.bands, Bands(alert.bands))
        \o Optional(Keys.direction, alert.direction, <<Uint(WireValue(Direction, alert.direction))>>)
        \o Optional(Keys.source, alert.source, <<TextString(alert.source)>>)
        \o Optional(Keys.detectorTypeCode, alert.detectorTypeCode, <<Uint(alert.detectorTypeCode)>>)

OptionalFields == {"droneClass", "detectorLatencyMs", "bands", "direction", "source",
                   "detectorTypeCode"}

EntryCount(alert) == 10 + Cardinality({f \in OptionalFields : alert[f] # Absent})

\* The writer latches an overflow, so what does not fit as a whole is not sent
\* at all: an empty packet is the failure.
encodeAlert(alert, capacity) ==
    LET packet == <<MapHeader(EntryCount(alert))>> \o RequiredEntries(alert)
                        \o OptionalEntries(alert)
    IN  IF PacketBytes(packet) > capacity \/ PacketBytes(packet) > MAX_PAYLOAD_BYTES
        THEN <<>> ELSE packet

-----------------------------------------------------------------------------
(* The reader, which both decoders share in form: where it stands in the    *)
(* packet, what it has found, and the failure that ended it.  That of the   *)
(* bridge reads arguments of every length; that of the watch does not.      *)

Reader(found) == [at |-> 2, found |-> found, seen |-> {}, status |-> "OK"]

Fail(reader, status) == [reader EXCEPT !.status = status]

Found(reader, field, value, used) ==
    [reader EXCEPT !.found[field] = value, !.seen = @ \cup {field}, !.at = @ + used]

\* An item of this type of which the head is there.
HasHead(packet, i, major) ==
    i \in DOMAIN packet /\ packet[i].major = major /\ packet[i].got >= HeadBytes(packet[i])

\* Fault variant: a text that was cut off is taken for the whole.
HasHeadOnly(packet, i, major) == HasHead(packet, i, major)

HasWhole(packet, i, major) ==
    HasHead(packet, i, major) /\ packet[i].got = ItemBytes(packet[i])

Children(item) == IF item.major = "map" THEN 2 * item.arg ELSE item.arg

\* How many items are still to come at each level, the innermost level first.
AfterItem(stack, item) ==
    LET above == <<Head(stack) - 1>> \o Tail(stack)
        levels == IF item.major \in {"array", "map"} THEN <<Children(item)>> \o above ELSE above
        open == {k \in DOMAIN levels : levels[k] > 0}
    IN  IF open = {} THEN <<>> ELSE SubSeq(levels, Min(open), Len(levels))

\* The index after the item at i and all that is in it; 0 if not all of it is
\* there or it is nested more than four deep.
skipItem(packet, i) ==
    LET stackBefore[j \in i..(Len(packet) + 1)] ==
            IF j = i THEN <<1>>
            ELSE LET stack == stackBefore[j - 1]
                 IN  IF stack = <<>> THEN <<>> ELSE AfterItem(stack, packet[j - 1])
        ends == {j \in i..(Len(packet) + 1) : stackBefore[j] = <<>>}
    IN  IF /\ ends # {}
           /\ \A j \in i..(Min(ends) - 1) : /\ Len(stackBefore[j]) <= 5
                                            /\ packet[j].got = ItemBytes(packet[j])
        THEN Min(ends) ELSE 0

-----------------------------------------------------------------------------
(* decodeAlert().                                                           *)

\* The fields that are one number: the greatest value a packet may carry.
Greatest == [
    timestampMs |-> WordLimit - 1, sequence |-> WordLimit - 1, sensorType |-> 3, alertKind |-> 1,
    threat |-> 3, severity |-> 3, band |-> 5, distance |-> 3, direction |-> 3,
    detectorLatencyMs |-> WordLimit - 1, detectorTypeCode |-> 65535]

NumberFields == DOMAIN Greatest

\* The enums among them: a number is stored as its name, any other as it is.
EnumOf == [
    sensorType |-> SensorType, alertKind |-> AlertKind, threat |-> Threat, severity |-> Severity,
    band |-> Band, distance |-> Distance, direction |-> Direction]

Meaning(field, n) == IF field \in DOMAIN EnumOf THEN Name(EnumOf[field], n) ELSE n

ReadVersion(packet, r) ==
    IF ~HasWhole(packet, r.at + 1, "uint") THEN Fail(r, "MALFORMED")
    ELSE IF packet[r.at + 1].arg # PROTOCOL_VERSION THEN Fail(r, "WRONG_VERSION")
    ELSE Found(r, "protocolVersion", PROTOCOL_VERSION, 2)

ReadNumber(packet, r, field) ==
    IF ~HasWhole(packet, r.at + 1, "uint") THEN Fail(r, "MALFORMED")
    ELSE IF packet[r.at + 1].arg > Greatest[field] THEN Fail(r, "BAD_VALUE")
    ELSE Found(r, field, Meaning(field, packet[r.at + 1].arg), 2)

ReadConfidence(packet, r) ==
    IF HasWhole(packet, r.at + 1, "null") THEN Found(r, "confidence", Absent, 2)
    ELSE IF ~HasWhole(packet, r.at + 1, "uint") THEN Fail(r, "MALFORMED")
    ELSE IF packet[r.at + 1].arg > 100 THEN Fail(r, "BAD_VALUE")
    ELSE Found(r, "confidence", packet[r.at + 1].arg, 2)

\* A text that does not fit the field or the packet is a bad value.
ReadText(packet, r, field, capacity) ==
    IF ~HasHead(packet, r.at + 1, "text") THEN Fail(r, "MALFORMED")
    ELSE IF TooLarge(packet[r.at + 1].text, capacity) \/ ~HasWhole(packet, r.at + 1, "text")
    THEN Fail(r, "BAD_VALUE")
    ELSE Found(r, field, setBoundedField(packet[r.at + 1].text, capacity), 2)

ReadBands(packet, r) ==
    LET level(i) == packet[r.at + 1 + i].arg
        readable(i) == HasWhole(packet, r.at + 1 + i, "uint")
    IN  IF ~HasWhole(packet, r.at + 1, "array") THEN Fail(r, "MALFORMED")
        ELSE IF packet[r.at + 1].arg # 4 THEN Fail(r, "BAD_VALUE")
        ELSE IF \A i \in 1..4 : readable(i) /\ level(i) <= 3
        THEN Found(r, "bands", [i \in 1..4 |-> Name(BandStrength, level(i))], 6)
        ELSE Fail(r, IF \E i \in 1..4 : readable(i) /\ level(i) > 3
                     THEN "BAD_VALUE" ELSE "MALFORMED")

SkipUnknown(packet, r) ==
    LET end == skipItem(packet, r.at + 1)
    IN  IF end = 0 THEN Fail(r, "MALFORMED") ELSE [r EXCEPT !.at = end]

FieldOf(key) ==
    IF \E f \in DOMAIN Keys : Keys[f] = key THEN CHOOSE f \in DOMAIN Keys : Keys[f] = key
    ELSE "unknown"

ReadEntry(packet, r) ==
    LET field == FieldOf(packet[r.at].arg)
    IN  IF ~HasWhole(packet, r.at, "uint") THEN Fail(r, "MALFORMED")
        ELSE IF field = "protocolVersion" THEN ReadVersion(packet, r)
        ELSE IF field \in NumberFields THEN ReadNumber(packet, r, field)
        ELSE IF field = "confidence" THEN ReadConfidence(packet, r)
        ELSE IF field = "droneClass" THEN ReadText(packet, r, field, DRONE_CLASS_CAPACITY)
        ELSE IF field = "source" THEN ReadText(packet, r, field, SOURCE_CAPACITY)
        ELSE IF field = "bands" THEN ReadBands(packet, r)
        ELSE SkipUnknown(packet, r)

Required == {"timestampMs", "sequence", "sensorType", "alertKind", "threat", "severity",
             "band", "distance", "confidence"}

Verdict(r) ==
    IF r.status # "OK" THEN r.status
    ELSE IF "protocolVersion" \notin r.seen THEN "WRONG_VERSION"
    ELSE IF Required \subseteq r.seen THEN "OK" ELSE "MISSING_FIELD"

decodeAlert(packet, alert) ==
    LET blank == alertInit(alert)
        start == Reader([f \in DOMAIN Keys |-> IF f \in DOMAIN blank THEN blank[f] ELSE Absent])
        read[n \in 0..packet[1].arg] ==
            IF n = 0 THEN start
            ELSE LET r == read[n - 1] IN IF r.status = "OK" THEN ReadEntry(packet, r) ELSE r
        last == read[packet[1].arg]
    IN  IF ~HasWhole(packet, 1, "map") THEN [status |-> "MALFORMED", alert |-> alertInit(alert)]
        ELSE [status |-> Verdict(last), alert |-> Restrict(last.found, DOMAIN EmptyAlert)]
=============================================================================
