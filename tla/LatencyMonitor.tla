--------------------------- MODULE LatencyMonitor ---------------------------
(***************************************************************************)
(* The latency log of the watch, garmin-app/source/LatencyMonitor.mc.      *)
(*                                                                         *)
(* Operators take the record of its fields and return it changed; Null is  *)
(* a field that holds null.  The largest values seen, the sample count and *)
(* the latency the detector reports are only logged and left out.          *)
(***************************************************************************)
EXTENDS Integers

CONSTANTS
    Null,
    NumberLimit,    \* 2^32: a Number has 32 bits and a sign
    CountLimit      \* bound: how many missed packets are counted

ASSUME MonitorAssumption == NumberLimit \div 2 \in Nat \ {0} /\ CountLimit \in Nat

\* What is left of an integer in a Number.
Number(n) ==
    LET half == NumberLimit \div 2
    IN  ((n + half) % NumberLimit) - half

\* reset()
ResetMonitor == [
    lastSequence |-> Null,
    dropped |-> 0,              \* _droppedPackets, up to CountLimit
    baseline |-> Null,          \* _baselineRawDelta
    excess |-> Null,            \* _lastExcessMs
    rxMs |-> Null,
    rxSequence |-> Null,
    renderedSequence |-> Null,
    renderMs |-> Null]

UpToCount(n) == IF n < CountLimit THEN n ELSE CountLimit

\* Fault variant: the sum that is expected next does not wrap.
ExpectedUnbounded(m) == m.lastSequence + 1

Expected(m) == Number(m.lastSequence + 1)

\* A packet is never old: a number that is not ahead of the expected one counts
\* for nothing and is remembered all the same.
trackSequenceGap(m, sequence) ==
    LET gap == m.lastSequence # Null /\ sequence > Expected(m)
    IN  [m EXCEPT !.dropped = IF gap THEN UpToCount(@ + sequence - Expected(m)) ELSE @,
                  !.lastSequence = sequence]

recordPacket(m, coreTimestampMs, localRxMs, sequence) ==
    LET rawDelta == localRxMs - coreTimestampMs
        fastest == m.baseline = Null \/ rawDelta < m.baseline
    IN  [trackSequenceGap(m, sequence) EXCEPT
            !.rxMs = localRxMs,
            !.rxSequence = sequence,
            !.baseline = IF fastest THEN rawDelta ELSE @,
            !.excess = IF fastest THEN 0 ELSE rawDelta - m.baseline]

\* Only the first time the last packet received is drawn.
recordRendered(m, sequence, shownMs) ==
    IF m.rxMs = Null \/ m.rxSequence # sequence \/ m.renderedSequence = sequence THEN m
    ELSE [m EXCEPT !.renderedSequence = sequence,
                   !.renderMs = IF shownMs < m.rxMs THEN Null ELSE shownMs - m.rxMs]
=============================================================================
