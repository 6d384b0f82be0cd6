---------------------------- MODULE AlertPipeline ----------------------------
(***************************************************************************)
(* An alert from the detector to the watch: an adapter polls a line,       *)
(* publishAlert() stamps and encodes it (main.cpp), the radio carries it,  *)
(* and the watch decodes what it receives (CborAlertDecoder), as does the  *)
(* decoder the bridge has of its own (SkyShieldCodec).                     *)
(*                                                                         *)
(* A notification longer than the MTU leaves room for arrives cut.  A      *)
(* bridge with a newer minor revision of the protocol sends an entry that  *)
(* is not known here, one with another major version another version.      *)
(* When a client may be notified at all is in Bridge.                      *)
(***************************************************************************)
EXTENDS DetectorAdapters, CborAlertDecoder

CONSTANTS
    Mtus,           \* the MTUs a client may have asked for
    NewValues       \* values of an entry that is not known, as items

\* Nothing takes half a word of milliseconds, which is 24 days; a value that is
\* not known is one data item, nested no deeper than a reader follows, and no
\* longer than half a word of bytes, however large the numbers in it are.
ASSUME PipelineAssumption ==
    /\ Durations \subseteq 0..(WordLimit \div 2 - 1)
    /\ Mtus \subseteq Nat
    /\ \A value \in NewValues : /\ value \in Seq(Range(value))
                                /\ skipItem(value, 1) = Len(value) + 1
                                /\ PacketBytes(value) < WordLimit \div 2

VARIABLES
    stage,          \* where the alert is: "idle", "polled", "air", "shown"
    sent,           \* the alert as stamped
    packet,         \* payloadBuffer
    received,       \* how it arrived: "whole", "cut", "newer", "long" or "other"
    watch,          \* what the watch makes of it
    core            \* what the decoder of the bridge makes of it

pipelineVars == <<source, alert, polled, mockIndex, stage, sent, packet, received, watch, core>>

linkVars == <<sent, packet, received, watch, core>>

Nowhere ==
    /\ sent = EmptyAlert
    /\ packet = <<>>
    /\ received = "nothing"
    /\ watch = [status |-> "NONE", model |-> Absent]
    /\ core = [status |-> "NONE", alert |-> EmptyAlert]

-----------------------------------------------------------------------------
PipelineInit ==
    /\ AdaptersInit
    /\ stage = IF polled.found THEN "polled" ELSE "idle"
    /\ Nowhere

Polled == stage' = IF polled'.found THEN "polled" ELSE "idle"

LoopPollsDetector == stage = "idle" /\ PollDetector /\ Polled /\ UNCHANGED linkVars

LoopPollsMock == stage = "idle" /\ PollMockProvider /\ Polled /\ UNCHANGED linkVars

\* The copy that is sent carries the moment it is sent.
StampedForSending(moment) == [alert EXCEPT !.timestampMs = moment]

\* An alert that cannot be encoded is not sent.
publishAlert ==
    /\ stage = "polled"
    /\ \E spent \in Durations :
        /\ sent' = StampedForSending(Later(alert.timestampMs, spent))
        /\ packet' = encodeAlert(sent', MAX_PAYLOAD_BYTES)
    /\ stage' = IF packet' = <<>> THEN "idle" ELSE "air"
    /\ UNCHANGED <<source, alert, polled, mockIndex, received, watch, core>>

-----------------------------------------------------------------------------
BytesBefore(items, i) == PacketBytes(SubSeq(items, 1, i - 1))

Least(m, n) == IF m < n THEN m ELSE n

\* What is left of a packet in so many bytes.
Cut(items, bytes) ==
    LET reached == {i \in DOMAIN items : BytesBefore(items, i) < bytes}
    IN  [i \in reached |-> [items[i] EXCEPT !.got = Least(@, bytes - BytesBefore(items, i))]]

\* Where an entry begins, and the end: behind the header and behind every value.
EntryStarts(items) ==
    {i \in 2..(Len(items) + 1) :
        i % 2 = 0 /\ \A j \in DOMAIN items : items[j].major = "array" => i \notin j..(j + 4)}

\* A value with an argument of eight bytes.
HasLong(value) == \E i \in DOMAIN value : value[i].arg >= WordLimit

\* One entry more, in front of item i.
WithEntry(items, i, value) ==
    <<MapHeader(items[1].arg + 1)>> \o SubSeq(items, 2, i - 1)
        \o Entry(17, value) \o SubSeq(items, i, Len(items))

\* The first entry is the version.
WithVersion(items, version) == [items EXCEPT ![3] = Uint(version)]

Decoded(how, items) ==
    /\ stage = "air"
    /\ stage' = "shown"
    /\ received' = how
    /\ watch' = decode(items)
    /\ core' = decodeAlert(items, EmptyAlert)
    /\ UNCHANGED <<source, alert, polled, mockIndex, sent, packet>>

ArrivesWhole ==
    /\ \E mtu \in Mtus : PacketBytes(packet) <= mtu - 3
    /\ Decoded("whole", packet)

ArrivesCut ==
    \E mtu \in Mtus :
        /\ PacketBytes(packet) > mtu - 3
        /\ Decoded("cut", Cut(packet, mtu - 3))

ArrivesFromNewer ==
    \E value \in NewValues, i \in EntryStarts(packet) :
        Decoded(IF HasLong(value) THEN "long" ELSE "newer", WithEntry(packet, i, value))

ArrivesFromOther ==
    \E version \in {PROTOCOL_VERSION - 1, PROTOCOL_VERSION + 1} :
        Decoded("other", WithVersion(packet, version))

\* The loop of the bridge goes on; the storage of its alert stays as it is.
LoopReturns ==
    /\ stage = "shown"
    /\ stage' = "idle"
    /\ sent' = EmptyAlert
    /\ packet' = <<>>
    /\ received' = "nothing"
    /\ watch' = [status |-> "NONE", model |-> Absent]
    /\ core' = [status |-> "NONE", alert |-> EmptyAlert]
    /\ polled' = NothingPolled
    /\ UNCHANGED <<source, alert, mockIndex>>

PipelineNext ==
    \/ LoopPollsDetector
    \/ LoopPollsMock
    \/ publishAlert
    \/ ArrivesWhole
    \/ ArrivesCut
    \/ ArrivesFromNewer
    \/ ArrivesFromOther
    \/ LoopReturns

PipelineSpec == PipelineInit /\ [][PipelineNext]_pipelineVars

-----------------------------------------------------------------------------
(* What is said of the bridge.                                              *)

\* The alert has values its fields can hold, the texts end inside their buffers,
\* and no packet is larger than the buffer.
PipelineTypeOK ==
    /\ source \in Sources
    /\ mockIndex \in 0..3
    /\ IsAlert(alert)
    /\ IsAlert(sent)
    /\ PacketBytes(packet) \in 0..MAX_PAYLOAD_BYTES
    /\ stage \in {"idle", "polled", "air", "shown"}

OptionalOnes == OptionalFields \cup {"confidence"}

\* An alert is made of a line exactly when the labels it needs are found in their
\* order, a number behind each, and says what stands behind the first of each
\* and nothing else: where the field itself is missing that may be a label of the
\* description.  What the line does not say stays absent whatever the storage held
\* before (poll() of the adapters, ttskw07ParseLine, dw01ParseLine, alertInit).
AlertSaysWhatTheLineSaid ==
    [][LoopPollsDetector =>
        /\ polled'.found = (polled'.fields # Absent)
        /\ polled'.found =>
            /\ \A f \in DOMAIN polled'.fields : alert'[f] = polled'.fields[f]
            /\ \A f \in OptionalOnes \ (DOMAIN polled'.fields \cup {"detectorLatencyMs"}) :
                  alert'[f] = Absent
            /\ alert'.sequence = polled'.sequence]_pipelineVars

\* The vendor the DW01's model text names is the threat of the alert: the two
\* tables agree code by code, the hexadecimal ones too (dw01ThreatFromCode,
\* dw01ModelTextFromCode).
ModelTextMatchesThreat ==
    stage = "polled" /\ source = "DW01" =>
        LET vendor == IF alert.droneClass = Absent THEN "none" ELSE Head(alert.droneClass.of)
        IN  /\ vendor \in {"DJI", "AUTEL"} => alert.threat = vendor
            /\ alert.threat \in {"DJI", "AUTEL"} => vendor = alert.threat
            /\ alert.threat = "FPV" <=> vendor = "FM"

\* The latency of a detector is the time its line took, across the wrap of the
\* clock too, and there is none where nothing was measured: a typed line, a
\* pasted one, a mock alert (poll() of the adapters).
LatencyIsMeasured ==
    stage = "polled" =>
        alert.detectorLatencyMs =
            IF source \in {"TTSKW07", "DW01"} THEN polled.took ELSE Absent

\* Whatever is polled can be sent: no alert is too long for the buffer, with the
\* longest class and every number at its widest (publishAlert, encodeAlert).
EveryAlertIsSent == [][publishAlert => packet' # <<>>]_pipelineVars

-----------------------------------------------------------------------------
(* What is said of the link.                                                *)

\* The name the watch has for a level of the bridge.
Upper == [classified |-> "CLASSIFIED", contact |-> "CONTACT", rf |-> "RF",
          acoustic |-> "ACOUSTIC", radar |-> "RADAR"]

OnTheWatch(a, model) ==
    /\ model.threatType = a.threat
    /\ model.riskLevel = a.severity
    /\ model.confidencePercent = a.confidence
    /\ model.band = a.band
    /\ model.distanceLabel = a.distance
    /\ model.activeBands = IF a.bands = Absent THEN [i \in 1..4 |-> "UNKNOWN"] ELSE a.bands
    /\ model.hasBandDetail = (a.bands # Absent)
    /\ model.directionLabel = a.direction
    /\ model.source = a.source
    /\ model.droneClass = IF a.droneClass = Absent THEN Text(<<"UNKNOWN">>, 7) ELSE a.droneClass
    /\ model.alertKind = Upper[a.alertKind]
    /\ model.sensorType = Upper[a.sensorType]
    /\ (model.sequence - a.sequence) % WordLimit = 0
    /\ (model.timestampMs - a.timestampMs) % WordLimit = 0
    /\ model.detectorLatencyMs = a.detectorLatencyMs
    /\ model.detectorTypeCode = a.detectorTypeCode

\* The watch shows the alert the bridge sent, field by field, and an entry it
\* does not know changes nothing, between whichever two entries it is, as long
\* as no number in it needs more than four bytes; what was absent stays absent
\* and never becomes 0 (CborAlertDecoder.decode).
WatchShowsTheAlert ==
    received \in {"whole", "newer"} => watch.status = "OK" /\ OnTheWatch(sent, watch.model)

\* A packet that was cut, at any byte, or is of another major version never
\* becomes an alert, of either decoder (decode, decodeAlert).
OnlyWholePacketsAreAccepted ==
    received \in {"cut", "other"} => "OK" \notin {watch.status, core.status}

\* The decoder of the bridge gives back what was encoded, with whatever entry of
\* a newer bridge.  The two decoders accept the same packets but for one kind: an
\* entry that is not known and has an argument of eight bytes is skipped by the
\* bridge's readArgument() and costs the watch, whose own has no such case, the
\* whole packet (decodeAlert, decode).
DecodersAgree ==
    received # "nothing" =>
        /\ core.status = "OK" <=> received \in {"whole", "newer", "long"}
        /\ core.status = "OK" => core.alert = sent
        /\ watch.status = "OK" <=> core.status = "OK" /\ received # "long"
=============================================================================
