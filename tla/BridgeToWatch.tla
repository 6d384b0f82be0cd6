---------------------------- MODULE BridgeToWatch ----------------------------
(***************************************************************************)
(* The numbers of the alerts from the bridge (Bridge) to the watch, which  *)
(* looks for gaps in them (LatencyMonitor).                                *)
(*                                                                         *)
(* notify() returns nothing the bridge looks at: the notification may be   *)
(* refused for want of a buffer, or be lost with the link.  What arrives   *)
(* arrives in order and is decoded; when does not matter to the numbers,   *)
(* and neither do the clocks of the monitor, which stay at 0 here.         *)
(***************************************************************************)
EXTENDS Bridge, LatencyMonitor

ASSUME NumberAssumption ==
    /\ NumberLimit = SequenceLimit
    /\ NumberLimit = 2 * (NumberLimit \div 2)

VARIABLES
    monitor,    \* _latency of the client on the watch
    skipped     \* history: numbers used since the watch received one, up to
                \* NumberLimit \div 2, from where the sign hides them

systemVars == <<bridgeVars, monitor, skipped>>

SystemInit == BridgeInit /\ monitor = ResetMonitor /\ skipped = 0

\* The number a packet has on the watch.
Decoded(sequence) == Number(sequence)

Received ==
    /\ Notify
    /\ stack.subscribed
    /\ monitor' = recordPacket(monitor, 0, 0, Decoded(bridge.sequence))
    /\ skipped' = 0

\* An alert that is not to be notified takes a number too.
SetValueOnly == SetValue /\ ~loop.possible

\* Nobody is subscribed, or the notification is lost.
Unheard ==
    /\ \/ Notify
       \/ SetValueOnly
    /\ skipped' = IF skipped < NumberLimit \div 2 THEN skipped + 1 ELSE skipped
    /\ UNCHANGED monitor

\* Every other step gives out no number.
Unnumbered ==
    /\ BridgeNext
    /\ bridge'.sequence = bridge.sequence
    /\ UNCHANGED <<monitor, skipped>>

SystemNext == Received \/ Unheard \/ Unnumbered

SystemSpec == SystemInit /\ [][SystemNext]_systemVars

SystemFairSpec == SystemSpec /\ BridgeFairness

-----------------------------------------------------------------------------
(* Properties.                                                              *)

\* The number that was skipped is below 2^31 and the one received is not, which is
\* negative on the watch.
TurnsNegative ==
    /\ monitor.lastSequence \in 0..((NumberLimit \div 2) - 2)
    /\ monitor'.lastSequence < 0

\* The watch counts as missed exactly the alerts published since the last one it
\* received: within a subscription, across any number of links, subscriptions and
\* deferred alerts and across the wrap of the number, as long as they are fewer
\* than half of the numbers.  Only a gap in which the number turns negative goes
\* uncounted (publishAlert, trackSequenceGap).
MissedIsWhatWasSkipped ==
    [][Received /\ monitor.lastSequence # Null /\ skipped < NumberLimit \div 2
            => monitor'.dropped = IF TurnsNegative THEN monitor.dropped
                                  ELSE UpToCount(monitor.dropped + skipped)]_systemVars
=============================================================================
