----------------------------- MODULE MCPipeline ------------------------------
(* TLC instance of the alert pipeline: the lines each adapter is given, next *)
(* to what the format documents (docs/ttskw07-format.md, docs/dw01-format.md)*)
(* say a line means, and for StandIns to what the parser takes one for.      *)
EXTENDS AlertPipeline

Line(text, fields) == [text |-> text, fields |-> fields]

Frequencies == {
    [n |-> 5773, band |-> "5.8GHz"], [n |-> 5649, band |-> "UNKNOWN"],
    [n |-> 3320, band |-> "3.3GHz"], [n |-> 2419, band |-> "2.4GHz"],
    [n |-> 1100, band |-> "1.2GHz"]}

Signals == {
    [n |-> 70, distance |-> "NEAR", severity |-> "HIGH"],
    [n |-> 69, distance |-> "MID", severity |-> "MEDIUM"],
    [n |-> 39, distance |-> "FAR", severity |-> "LOW"]}

Said(frequency, signal, code, threat, class, name) == [
    band |-> frequency.band, distance |-> signal.distance, severity |-> signal.severity,
    detectorTypeCode |-> code, threat |-> threat, droneClass |-> class,
    alertKind |-> IF threat = "UNKNOWN" /\ frequency.band = "UNKNOWN"
                  THEN "contact" ELSE "classified",
    source |-> Text(<<name>>, Len(name))]

First(S, n) == CHOOSE x \in S : x.n = n

-----------------------------------------------------------------------------
(* TTSKW07                                                                  *)

Clock == <<Digits(6, 2), Space, Word("11:25:36", 8), Space>>

Part(label, digits) == <<Label(label), digits, Space>>

Megahertz(n) == <<Label("F:"), Digits(n, 4), Word("MHz", 3), Space>>

Strength(n) == Part("R:", Digits(n, 3))

Kind(n) == Part("T:", Digits(n, 2))

Rendered(frequency, signal, code, description) ==
    Clock \o Megahertz(frequency) \o Strength(signal) \o Kind(code) \o description

Codes == {[n |-> 20, threat |-> "FPV"], [n |-> 5, threat |-> "DJI"],
          [n |-> 12, threat |-> "AUTEL"], [n |-> 32, threat |-> "UNKNOWN"]}

Descriptions == {
    [n |-> 0, tokens |-> <<>>, class |-> Absent],
    [n |-> 1, tokens |-> <<Space, Word("FM Analog", 34), Space>>,
     class |-> Text(<<"FM Analog">>, 34)],
    [n |-> 2, tokens |-> <<Word("DJI OCU", 64)>>, class |-> Text(<<"DJI OCU">>, 63)],
    [n |-> 3, tokens |-> <<Word("SkyLink", 7), Space, Label("R:"), Digits(9, 1)>>,
     class |-> Text(<<"SkyLink", "blank", "R:", "digits">>, 11)]}

Detection(f, s, c, d) ==
    Line(Rendered(f.n, s.n, c.n, d.tokens), Said(f, s, c.n, c.threat, d.class, "TTSKW07"))

Detections ==
    {Detection(f, First(Signals, 70), First(Codes, 20), First(Descriptions, 1)) : f \in Frequencies}
        \cup {Detection(First(Frequencies, 2419), s, First(Codes, 5), First(Descriptions, 2)) : s \in Signals}
        \cup {Detection(First(Frequencies, 5649), First(Signals, 69), c, First(Descriptions, 0)) : c \in Codes}
        \cup {Detection(First(Frequencies, 5773), First(Signals, 39), First(Codes, 12), d) : d \in Descriptions}

\* A field is missing and its label is in the description: what stands behind
\* that label is taken for the field, and the rest for the description.
Weak == [n |-> 9, distance |-> "FAR", severity |-> "LOW"]

StandIns == {
    Line(Clock \o Megahertz(5773) \o Strength(70) \o <<Word("SkyLink", 7), Space>>
            \o Kind(5) \o <<Word("Pro", 3)>>,
         Said(First(Frequencies, 5773), First(Signals, 70), 5, "DJI",
              Text(<<"Pro">>, 3), "TTSKW07")),
    Line(Clock \o Megahertz(5773) \o Kind(20) \o <<Word("SkyLink", 7), Space>>
            \o Part("R:", Digits(9, 1)) \o Kind(5),
         Said(First(Frequencies, 5773), Weak, 5, "DJI", Absent, "TTSKW07"))}

\* Noise, a field or its digits missing and in no description, fields out of
\* order, a code too large, a line too long.
Useless == {Line(text, Absent) : text \in {
    <<>>,
    <<Word("boot", 4)>>,
    Clock \o Strength(70) \o Kind(20),
    Clock \o Megahertz(5773) \o Kind(20) \o <<Word("FM Analog", 34)>>,
    Clock \o Megahertz(5773) \o Kind(20) \o <<Word("SkyLink", 7), Space>> \o Strength(9),
    Clock \o Megahertz(5773) \o Strength(70),
    Clock \o Megahertz(5773) \o <<Label("R:"), Space>> \o Kind(20),
    Clock \o Strength(70) \o Megahertz(5773) \o Kind(20),
    Clock \o Megahertz(5773) \o Strength(70) \o Part("T:", Digits(65536, 5)),
    Rendered(5773, 70, 20, <<Word("FM Analog", 200)>>)}}

-----------------------------------------------------------------------------
(* DW01                                                                     *)

Record(frequency, signal, code) ==
    <<"F">> \o frequency \o <<"R">> \o signal \o <<"T">> \o code \o <<"C", "2", "0", "2">>

FrequencyDigits == [n \in {5773, 5649, 2419} |->
    CASE n = 5773 -> <<"5", "7", "7", "3">>
      [] n = 5649 -> <<"5", "6", "4", "9">>
      [] n = 2419 -> <<"2", "4", "1", "9">>]

SignalDigits == [n \in {70, 69, 39} |->
    CASE n = 70 -> <<"0", "7", "0">> [] n = 69 -> <<"6", "9">> [] n = 39 -> <<"0", "3", "9">>]

HexCodes == {
    [n |-> 2, digits |-> <<"0", "2">>, threat |-> "DJI", class |-> Text(<<"DJI", "OCU">>, 62)],
    [n |-> 16, digits |-> <<"1", "0">>, threat |-> "AUTEL", class |-> Text(<<"AUTEL", "EVO", "2">>, 20)],
    [n |-> 18, digits |-> <<"1", "2">>, threat |-> "AUTEL", class |-> Text(<<"AUTEL", "EVO", "2", "PRO">>, 24)],
    [n |-> 32, digits |-> <<"2", "0">>, threat |-> "FPV", class |-> Text(<<"FM", "Analog">>, 34)],
    [n |-> 48, digits |-> <<"3", "0">>, threat |-> "UNKNOWN", class |-> Text(<<"WiFi">>, 45)],
    [n |-> 10, digits |-> <<"0", "A">>, threat |-> "UNKNOWN", class |-> Absent]}

RecordOf(f, s, c) ==
    Line(Record(FrequencyDigits[f], SignalDigits[s], c.digits),
         Said(First(Frequencies, f), First(Signals, s), c.n, c.threat, c.class, "DW01"))

Records ==
    {RecordOf(2419, 70, c) : c \in HexCodes}
        \cup {RecordOf(f, 69, First(HexCodes, 10)) : f \in DOMAIN FrequencyDigits}
        \cup {RecordOf(5773, s, First(HexCodes, 18)) : s \in DOMAIN SignalDigits}

BrokenRecords == {Line(text, Absent) : text \in {
    <<>>,
    <<"B", "0", "0", "T">>,
    <<"F", "5", "7", "7", "3", "R", "0", "7", "0">>,
    <<"F", "R", "0", "7", "0", "T", "2", "0", "C", "2">>,
    <<"F", "5", "7", "7", "3", "0", "R", "0", "7", "0", "T", "2", "0">>,
    <<"F", "5", "7", "7", "3", "R", "0", "7", "0", "T", "2">>}}

-----------------------------------------------------------------------------
(* What is typed                                                            *)

Asserted(threat, severity, band, distance, confidence, class, bytes) == [
    alertKind |-> "classified", threat |-> threat, severity |-> severity, band |-> band,
    distance |-> distance, confidence |-> confidence, droneClass |-> Text(<<class>>, bytes),
    source |-> Text(<<"SERIAL_INJECT">>, 13)]

Shortcuts == {
    Line(<<Word("FPV", 3)>>, Asserted("FPV", "HIGH", "5.8GHz", "NEAR", 87, "FPV", 3)),
    Line(<<Word("MAVIC", 5)>>, Asserted("DJI", "MEDIUM", "2.4GHz", "MID", 72, "MAVIC", 5)),
    Line(<<Word("AUTEL", 5)>>, Asserted("UNKNOWN", "MEDIUM", "2.4GHz", "MID", 70, "AUTEL", 5)),
    Line(<<Word("UNKNOWN", 7)>>, Asserted("UNKNOWN", "HIGH", "MULTI", "NEAR", 94, "UNKNOWN", 7)),
    Line(<<Word("CONTACT", 7)>>,
         [alertKind |-> "contact", threat |-> "UNKNOWN", severity |-> "LOW", band |-> "UNKNOWN",
          distance |-> "UNKNOWN", source |-> Text(<<"SERIAL_INJECT">>, 13)])}

Pasted == {Detection(First(Frequencies, 5773), First(Signals, 39), First(Codes, 12), d) : d \in Descriptions}

-----------------------------------------------------------------------------
MCLines == [
    TTSKW07 |-> Detections \cup StandIns \cup Useless,
    DW01 |-> Records \cup BrokenRecords,
    SERIAL_INJECT |-> Shortcuts \cup Pasted \cup StandIns \cup Useless]

MCMoments == {23, WordLimit - 2}

MCDurations == {0, 7}

MCSequences == {1, WordLimit - 1}

\* 23 is what a link starts with, 185 what the watch asks for; the others end
\* at every byte of the shorter packets and of the longest ones.
MCMtus == {23, 185} \cup 48..80 \cup 98..111

\* Numbers of every width, alone and inside; the last two are long.
MCNewValues == {
    <<TextString(Text(<<"new">>, 30))>>,
    <<ArrayHeader(2), Uint(300), MapHeader(1), Uint(70000), Null>>,
    <<Uint(WordLimit)>>,
    <<ArrayHeader(2), Uint(1), MapHeader(1), Uint(2), Uint(WordLimit + 7)>>}
=============================================================================
