-------------------------- MODULE DetectorAdapters --------------------------
(***************************************************************************)
(* The sources of alerts of the bridge: the three adapters behind          *)
(* IDetectorAdapter (TTSKW07Adapter.h, DW01Adapter.h,                      *)
(* SerialInjectAdapter.h) and the mock provider (MockAlertProvider.h).     *)
(*                                                                         *)
(* alert is the struct pollDetector() declares and hands to poll() without *)
(* a value: the storage may still hold the previous alert.  The lines are  *)
(* those of the line capture (LineQueue).  The counters of the adapters    *)
(* are read by nobody and left out.                                        *)
(***************************************************************************)
EXTENDS DW01Parser

CONSTANTS
    Lines,      \* the lines each adapter may be given, [text, fields]: what the
                \* detector wrote, and the fields it wrote there, Absent if none
    Moments,    \* readings of millis() when a line is there
    Durations,  \* how long a step may take, in ms
    Sequences   \* values of sequence

ASSUME AdaptersAssumption ==
    /\ Moments \cup Durations \cup Sequences \subseteq 0..(WordLimit - 1)
    /\ \A line \in Lines["TTSKW07"] \cup Lines["SERIAL_INJECT"] : line.text \in Seq(Tokens)

VARIABLES
    source,     \* ACTIVE_DETECTOR
    alert,      \* the storage of the alert
    polled,     \* the last poll, for the properties: what the line said
    mockIndex   \* _index of the mock provider

adapterVars == <<source, alert, polled, mockIndex>>

Adapters == {"TTSKW07", "DW01", "SERIAL_INJECT"}

Sources == Adapters \cup {"MOCK"}

-----------------------------------------------------------------------------
\* Fault variant: the clock does not wrap.
LaterWithoutWrap(moment, duration) == moment + duration

Later(moment, duration) == (moment + duration) % WordLimit

\* Fault variant: a difference that is negative is taken for nothing.
ElapsedWithoutWrap(from, to) == IF to < from THEN 0 ELSE to - from

Elapsed(from, to) == (to + WordLimit - from) % WordLimit

\* A line of a detector has been parsed: the alert is stamped, and how long it
\* took is measured.
Stamped(parsed, ingest, processed) ==
    [parsed EXCEPT !.timestampMs = processed,
                   !.detectorLatencyMs = Elapsed(ingest, processed)]

\* The shortcuts and the mock provider fill in the same fields.
Filled(initial, threat, severity, band, distance, confidence, droneClass) ==
    alertSetDroneClass([initial EXCEPT !.threat = threat, !.severity = severity,
                                       !.band = band, !.distance = distance,
                                       !.confidence = confidence], droneClass)

Fpv == Text(<<"FPV">>, 3)
Mavic == Text(<<"MAVIC">>, 5)
Autel == Text(<<"AUTEL">>, 5)
Unknown == Text(<<"UNKNOWN">>, 7)

Shortcut(initial, token) ==
    IF token = "FPV" THEN Filled(initial, "FPV", "HIGH", "5.8GHz", "NEAR", 87, Fpv)
    ELSE IF token = "MAVIC" THEN Filled(initial, "DJI", "MEDIUM", "2.4GHz", "MID", 72, Mavic)
    ELSE IF token = "AUTEL" THEN Filled(initial, "UNKNOWN", "MEDIUM", "2.4GHz", "MID", 70, Autel)
    ELSE Filled(initial, "UNKNOWN", "HIGH", "MULTI", "NEAR", 94, Unknown)

Started(storage, now, sequence, name) ==
    alertSetSource([alertInit(storage) EXCEPT !.timestampMs = now, !.sequence = sequence], name)

Contact(storage, now, sequence, name) ==
    alertSetSource(alertInitContact(storage, now, sequence), name)

Typed == Text(<<"SERIAL_INJECT">>, 13)

IsShortcut(line, tokens) == Len(line) = 1 /\ line[1].is \in tokens

\* A pasted detector line first, then the shortcuts.
buildAlert(line, now, sequence, storage) ==
    LET pasted == ttskw07ParseLine(line, now, sequence, storage)
        started == Started(pasted.alert, now, sequence, Typed)
    IN  IF pasted.result = "OK" THEN pasted
        ELSE IF IsShortcut(line, {"FPV", "MAVIC", "AUTEL", "UNKNOWN"})
        THEN Parsed("OK", Shortcut(started, line[1].is))
        ELSE IF IsShortcut(line, {"CONTACT"})
        THEN Parsed("OK", Contact(started, now, sequence, Typed))
        ELSE Parsed("UNRECOGNIZED", started)

-----------------------------------------------------------------------------
(* What poll() makes of a line: took is how long that takes.                *)

PollTTSKW07(line, sequence, ingest, took) ==
    LET parsed == ttskw07ParseLine(line, ingest, sequence, alert)
    IN  IF parsed.result # "OK" THEN parsed
        ELSE Parsed("OK", Stamped(parsed.alert, ingest, Later(ingest, took)))

PollDW01(line, sequence, ingest, took) ==
    LET parsed == dw01ParseLine(line, ingest, sequence, alert)
    IN  IF parsed.result # "OK" THEN parsed
        ELSE Parsed("OK", Stamped(parsed.alert, ingest, Later(ingest, took)))

\* Nobody measured a latency: a human typed the line.
PollSerialInject(line, sequence, ingest, took) ==
    LET built == buildAlert(line, ingest, sequence, alert)
    IN  IF built.result # "OK" THEN built
        ELSE Parsed("OK", [built.alert EXCEPT !.timestampMs = Later(ingest, took),
                                              !.detectorLatencyMs = Absent])

Poll(line, sequence, ingest, took) ==
    IF source = "TTSKW07" THEN PollTTSKW07(line, sequence, ingest, took)
    ELSE IF source = "DW01" THEN PollDW01(line, sequence, ingest, took)
    ELSE PollSerialInject(line, sequence, ingest, took)

\* The mock provider: three alerts and a contact in turn.
MockBands(i) == <<<<"LOW", "LOW", "MED", "HIGH">>, <<"LOW", "MED", "MED", "LOW">>,
                  <<"HIGH", "MED", "MED", "HIGH">>>>[i + 1]

Mock == Text(<<"MOCK">>, 4)

\* The names the sources give themselves are names.
SourceNames == {Text(<<"TTSKW07">>, 7), Text(<<"DW01">>, 4), Typed, Mock}

ASSUME SourceAssumption == Absent \notin SourceNames

build(i, storage, now, sequence) ==
    LET started == Started(storage, now, sequence, Mock)
        banded == [started EXCEPT !.bands = MockBands(i)]
    IN  IF i = 0 THEN Filled(banded, "FPV", "HIGH", "5.8GHz", "NEAR", 87, Fpv)
        ELSE IF i = 1 THEN Filled(banded, "DJI", "MEDIUM", "2.4GHz", "MID", 72, Mavic)
        ELSE IF i = 2 THEN Filled(banded, "UNKNOWN", "CRITICAL", "MULTI", "NEAR", 94, Unknown)
        ELSE Contact(started, now, sequence, Mock)

-----------------------------------------------------------------------------
NothingPolled == [found |-> FALSE, fields |-> Absent, sequence |-> 0, took |-> 0]

\* setup() selects the source; for the mock provider it builds the first alert.
AdaptersInit ==
    /\ source \in Sources
    /\ mockIndex = 0
    /\ IF source \in Adapters THEN alert = EmptyAlert /\ polled = NothingPolled
       ELSE \E sequence \in Sequences, now \in Moments :
            /\ alert = build(0, EmptyAlert, now, sequence)
            /\ polled = [found |-> TRUE, fields |-> Absent, sequence |-> sequence, took |-> 0]

\* pollDetector(), up to the publishing, with a line in the capture.
PollDetector ==
    /\ source \in Adapters
    /\ \E line \in Lines[source], sequence \in Sequences, ingest \in Moments, took \in Durations :
        LET result == Poll(line.text, sequence, ingest, took) IN
            /\ alert' = result.alert
            /\ polled' = [found |-> result.result = "OK", fields |-> line.fields,
                          sequence |-> sequence, took |-> took]
    /\ UNCHANGED <<source, mockIndex>>

\* pollMockProvider(), when its interval is over.
PollMockProvider ==
    /\ source = "MOCK"
    /\ mockIndex' = (mockIndex + 1) % 4
    /\ \E sequence \in Sequences, now \in Moments :
        /\ alert' = build(mockIndex', alert, now, sequence)
        /\ polled' = [found |-> TRUE, fields |-> Absent, sequence |-> sequence, took |-> 0]
    /\ UNCHANGED source
=============================================================================
