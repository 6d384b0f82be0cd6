----------------------------- MODULE AlertScreen -----------------------------
(***************************************************************************)
(* What the wearer sees and feels of alerts: the priority engine           *)
(* (AlertEngine), the RF session and display cycle of                      *)
(* garmin-app/source/SkyShieldView.mc, and the threat pulses               *)
(* (ThreatHaptics), driven by notifications, by the timer and by redraws,  *)
(* in any order.                                                           *)
(*                                                                         *)
(* The session has the time limit of the LIVE state, so the state of the   *)
(* link does not matter here; it is in WatchLink, as are the splash and    *)
(* the hiding of the view.                                                 *)
(***************************************************************************)
EXTENDS ThreatHaptics

CONSTANTS
    MonitorTimeout,     \* MONITOR_TIMEOUT_MS and LIVE_ALERT_MS, in ticks
    Cycle,              \* UI_CYCLE_MS
    Played              \* what vibrate() may do: a set of TRUE and FALSE

ASSUME ScreenAssumption ==
    /\ MonitorTimeout \in Nat
    /\ Cycle \in Nat \ {0}
    /\ Played \subseteq BOOLEAN

VARIABLES
    engine,
    screen,     \* the SkyShieldView object
    haptics,
    felt        \* history, for the properties: the alert of the last pulse

screenVars == <<engine, screen, haptics, felt>>

Expired == MonitorTimeout + 1

Screen == [
    latest: Alerts \cup {NoAlert},      \* _alert and _latestAlert
    display: Alerts \cup {NoAlert},     \* _displayAlert
    session: BOOLEAN,                   \* _rfSessionActive
    validAge: 0..Expired,               \* since _lastValidAlertMs
    cycleAge: 0..(2 * Cycle - 1),       \* since _uiCycleStartMs, in a session
    buzzed: BOOLEAN]                    \* _lastHapticCycleStartMs is _uiCycleStartMs

InitialScreen == [
    latest |-> NoAlert, display |-> NoAlert, session |-> FALSE, validAge |-> Expired,
    cycleAge |-> 0, buzzed |-> FALSE]

-----------------------------------------------------------------------------
\* An alert was valid age ticks ago.  A session begins with what _latestAlert is
\* at this moment.
noteValidAlert(s, age) ==
    IF s.session THEN [s EXCEPT !.validAge = UpTo(age, Expired)]
    ELSE [s EXCEPT !.validAge = UpTo(age, Expired), !.session = TRUE, !.buzzed = FALSE,
                   !.cycleAge = UpTo(age, Cycle), !.display = s.latest]

noteIncomingAlertActivity(s, e) ==
    IF e.observed THEN s ELSE noteValidAlert(s, e.incomingFor)

\* Fault variant: the alert that is kept counts as activity on every tick.
SyncNotesAlways(s, e) == IF e.current = NoAlert THEN s
                         ELSE noteValidAlert([s EXCEPT !.latest = e.current], 0)

\* syncLiveBleAlert(): the activity is noted before the new alert is stored.
syncLiveBleAlert(s, e) ==
    IF e.current = NoAlert THEN s
    ELSE LET noted == noteIncomingAlertActivity(s, e)
         IN  IF e.changed THEN noteValidAlert([noted EXCEPT !.latest = e.current], 0) ELSE noted

Synced(e) ==
    IF e.current = NoAlert THEN e
    ELSE [e EXCEPT !.observed = TRUE, !.incomingFor = 0, !.changed = FALSE]

\* Whole cycles that have passed keep their remainder.
ScreenTimePasses(s) ==
    [s EXCEPT !.validAge = UpTo(@ + 1, Expired),
              !.cycleAge = IF ~s.session THEN 0
                           ELSE IF @ + 1 = 2 * Cycle THEN Cycle ELSE @ + 1]

SessionExpires(s) == s.session /\ s.validAge > MonitorTimeout

updateRfSessionState(s) ==
    IF SessionExpires(s)
    THEN [s EXCEPT !.session = FALSE, !.display = NoAlert, !.cycleAge = 0, !.buzzed = FALSE]
    ELSE s

\* Fault variant: the alert of the session stays until it is over.
KeepsFirst(s) ==
    IF ~s.session THEN s
    ELSE IF s.display = NoAlert
    THEN [s EXCEPT !.display = s.latest, !.cycleAge = 0, !.buzzed = FALSE]
    ELSE IF s.cycleAge >= Cycle THEN [s EXCEPT !.cycleAge = @ - Cycle, !.buzzed = FALSE]
    ELSE s

updateDisplayCycle(s) ==
    IF ~s.session THEN s
    ELSE IF s.display = NoAlert
    THEN [s EXCEPT !.display = s.latest, !.cycleAge = 0, !.buzzed = FALSE]
    ELSE IF s.cycleAge >= Cycle
    THEN [s EXCEPT !.display = s.latest, !.cycleAge = @ - Cycle, !.buzzed = FALSE]
    ELSE s

-----------------------------------------------------------------------------
ScreenInit ==
    /\ engine = InitialEngine
    /\ screen = InitialScreen
    /\ haptics = ResetHaptics
    /\ felt = NoAlert

Notification ==
    /\ \E alert \in Alerts \cup {NoAlert} : engine' = Notified(engine, alert)
    /\ UNCHANGED <<screen, haptics, felt>>

\* onTimerTick(): the engine first, then the view.
TimerTick ==
    LET updated == updatePriorityAlert(EngineTimePasses(engine)) IN
    /\ engine' = Synced(updated)
    /\ screen' = syncLiveBleAlert(ScreenTimePasses(screen), updated)
    /\ haptics' = HapticTimePasses(haptics)
    /\ UNCHANGED felt

\* onUpdate(): the engine may take an alert here too, which the view only looks
\* at if it has none.
OnUpdate ==
    LET updated == updatePriorityAlert(engine)
        first == screen.latest = NoAlert /\ updated.current # NoAlert
        begun == IF first THEN noteValidAlert([screen EXCEPT !.latest = updated.current], 0)
                 ELSE screen
        shown == updateDisplayCycle(updateRfSessionState(begun))
        rested == IF SessionExpires(begun) THEN ResetHaptics ELSE haptics
        buzzes == shown.session /\ shown.display # NoAlert /\ ~shown.buzzed
    IN  /\ engine' = [updated EXCEPT !.changed = @ /\ ~first]
        /\ screen' = [shown EXCEPT !.buzzed = @ \/ buzzes]
        /\ \E played \in Played :
            /\ haptics' = IF buzzes THEN triggerForAlert(rested, shown.display, played) ELSE rested
            /\ felt' = IF buzzes /\ played /\ Pulses(rested, shown.display)
                       THEN shown.display ELSE felt

\* LINK LOST and LINK RESTORED keep the motor busy.
LinkRhythmPlays ==
    /\ haptics' = LinkRhythm(haptics)
    /\ UNCHANGED <<engine, screen, felt>>

ScreenNext == Notification \/ TimerTick \/ OnUpdate \/ LinkRhythmPlays

ScreenSpec == ScreenInit /\ [][ScreenNext]_screenVars

\* The timer of the view ticks, and every tick asks for a redraw.
ScreenFairSpec ==
    /\ ScreenSpec
    /\ WF_screenVars(TimerTick)
    /\ WF_screenVars(OnUpdate)

-----------------------------------------------------------------------------
(* Properties.                                                              *)

\* Every field stays in the range the code gives it.
ScreenTypeOK ==
    /\ engine \in Engine
    /\ engine.acceptedFor <= Hold(engine.current)
    /\ screen \in Screen
    /\ haptics \in Haptics
    /\ felt \in Alerts \cup {NoAlert}

\* Once the engine has seen it, an alert never waits behind a lower one
\* (updatePriorityAlert).
NoHigherAlertWaits ==
    engine.incoming # NoAlert /\ ~engine.fresh =>
        Rank(engine.current) >= Rank(engine.incoming)

\* The engine keeps the promises of AlertHold.
Promise == INSTANCE AlertHold WITH
    offered <- engine.incoming, kept <- engine.current, keptFor <- engine.acceptedFor

PriorityIsHeld == Promise!HoldSpec

\* An alert the engine goes on keeping comes to be the one on the screen, or the
\* session is over before its turn (updateDisplayCycle).
KeptAlertIsShown ==
    <>[][engine'.current = engine.current]_screenVars =>
        []<>(screen.display = engine.current \/ ~screen.session)

\* An alert that stays on the screen is felt, however close the pulse before it,
\* once the rhythms of the link leave the motor free (triggerForAlert).
ShownAlertIsFelt ==
    <>[][~LinkRhythmPlays /\ screen'.display = screen.display]_screenVars =>
        []<>(screen.display \in {felt, NoAlert})

\* When no notification comes any more, the screen is cleared for good
\* (updateRfSessionState).
SilenceClearsTheScreen ==
    <>[][~Notification]_screenVars => <>[](screen.display = NoAlert)
=============================================================================
