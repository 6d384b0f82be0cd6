---------------------------- MODULE LatencyClocks ----------------------------
(***************************************************************************)
(* The two clocks the latency monitor of the watch is fed from: _uptimeMs  *)
(* of the BLE client, which begins at 0 and grows by the period of the     *)
(* timer on every tick after the splash (BleAlertSource.mc), and           *)
(* System.getTimer(), which the view gives to recordRendered()             *)
(* (SkyShieldView.mc).                                                     *)
(***************************************************************************)
EXTENDS LatencyMonitor

CONSTANTS
    Period,         \* TIMER_INTERVAL_MS
    TimerLimit      \* bound: how long the timer runs

VARIABLES
    timer,          \* System.getTimer()
    uptimeMs,       \* _uptimeMs
    monitor,
    receivedAt,     \* history: what the timer was when the last packet came
    displayed       \* the number of the alert on the screen, Null if none

clockVars == <<timer, uptimeMs, monitor, receivedAt, displayed>>

\* The splash is over, so the timer has run for a while.
ClocksInit ==
    /\ timer \in 0..Period
    /\ uptimeMs = 0
    /\ monitor = ResetMonitor
    /\ receivedAt = Null
    /\ displayed = Null

Passes(time) == timer + time <= TimerLimit /\ timer' = timer + time

\* A tick comes a period after the one before it, or later.
TimerTick ==
    /\ \E late \in 0..1 : Passes(Period + late)
    /\ uptimeMs' = uptimeMs + Period
    /\ UNCHANGED <<monitor, receivedAt, displayed>>

\* recordLatencySample(); the packet left the bridge as it comes.
PacketReceived ==
    /\ LET sequence == IF monitor.lastSequence = Null THEN 1 ELSE monitor.lastSequence + 1
       IN  /\ monitor' = recordPacket(monitor, timer, uptimeMs, sequence)
           /\ displayed' = sequence
    /\ receivedAt' = timer
    /\ UNCHANGED <<timer, uptimeMs>>

\* noteAlertRendered(); System.getTimer() is read once more.
noteAlertRendered ==
    /\ displayed # Null
    /\ monitor' = recordRendered(monitor, displayed, timer)
    /\ UNCHANGED <<timer, uptimeMs, receivedAt, displayed>>

ClocksNext == TimerTick \/ PacketReceived \/ noteAlertRendered

ClocksSpec == ClocksInit /\ [][ClocksNext]_clockVars

\* LatencyMonitor.mc:34-35 and 145-147: both ends are read from one clock, so the
\* time from the packet to the screen is a measured duration.
RenderLatencyIsMeasured ==
    [][monitor'.renderedSequence # monitor.renderedSequence
            => monitor'.renderMs = timer - receivedAt]_clockVars
=============================================================================
