------------------------------ MODULE WatchLink ------------------------------
(***************************************************************************)
(* The watch as its wearer meets it: the BLE client (BleAlertSource), the  *)
(* operator state machine of garmin-app/source/SkyShieldView.mc and the    *)
(* link rhythms (LinkHaptics), driven by the 250 ms timer, by redraws and  *)
(* by the callbacks of the BLE stack, in any order.                        *)
(*                                                                         *)
(* Of alerts only what the operator state depends on is kept: when the     *)
(* last valid one was noted.  Which of two alerts AlertEngine prefers is   *)
(* left open; it may accept a new one, ignore it, or hold it back behind a *)
(* higher one and accept it later.                                         *)
(***************************************************************************)
EXTENDS BleAlertSource, LinkHaptics

CONSTANTS
    LiveAlert,      \* LIVE_ALERT_MS, in ticks
    SplashTicks,    \* SPLASH_DURATION_MS
    MayHide         \* whether the system hides and shows the view

ASSUME ViewAssumption ==
    /\ LiveAlert \in Nat
    /\ SplashTicks \in Nat \ {0}
    /\ MayHide \in BOOLEAN

VARIABLES
    view,   \* the SkyShieldView object, and the AlertEngine it owns
    vib,    \* the link half of its VibrationEngine
    upFor   \* history, for the properties: ticks the link has been up unbroken

watchVars == <<src, stack, view, vib, upFor>>

OperationalStates == {"LIVE", "MONITOR", "LINK LOST"}

AlertAge == 0..(LiveAlert + 1)
Expired == LiveAlert + 1

View == [
    visible: BOOLEAN,           \* the timer runs
    splashLeft: 0..SplashTicks,
    operationalState: OperationalStates,
    validAge: AlertAge,         \* since _lastValidAlertMs; Expired when unset
    hasAlert: BOOLEAN,          \* AlertEngine has a priority alert
    fresh: BOOLEAN,             \* the source holds an alert the engine has not seen
    held: BOOLEAN,              \* a lower alert waits for the hold to expire
    changed: BOOLEAN,           \* the active alert is not the view's _alert
    incomingAge: AlertAge,      \* since the engine's _lastIncomingAlertMs
    observed: BOOLEAN]          \* that activity has been noted by the view

InitialView == [
    visible |-> TRUE, splashLeft |-> SplashTicks, operationalState |-> "LINK LOST",
    validAge |-> Expired, hasAlert |-> FALSE, fresh |-> FALSE, held |-> FALSE,
    changed |-> FALSE, incomingAge |-> Expired, observed |-> TRUE]

-----------------------------------------------------------------------------
(* AlertEngine.updatePriorityAlert(), as far as the operator state sees it. *)

EngineOutcomes(v) ==
    IF v.fresh THEN IF v.hasAlert THEN {"accepted", "ignored", "held"} ELSE {"accepted"}
    ELSE IF v.held THEN {"agedOut", "kept"}
    ELSE {"kept"}

UpdatePriorityAlert(v, s, outcome) ==
    IF ~s.hasLatestAlert THEN v
    ELSE IF v.fresh
         THEN [v EXCEPT !.fresh = FALSE, !.hasAlert = TRUE, !.incomingAge = 0,
                        !.observed = FALSE, !.held = outcome = "held",
                        !.changed = @ \/ outcome = "accepted"]
    ELSE IF v.held /\ outcome = "agedOut" THEN [v EXCEPT !.held = FALSE, !.changed = TRUE]
    ELSE v

\* Fault variant: the active alert is noted again on every tick.
SyncNotesAlways(v) ==
    IF ~v.hasAlert THEN v
    ELSE [v EXCEPT !.observed = TRUE, !.changed = FALSE, !.validAge = 0]

\* syncLiveBleAlert() and updateAlertData(): note new activity at the time the
\* engine saw it, and a changed active alert at the present time.
SyncLiveBleAlert(v) ==
    IF ~v.hasAlert THEN v
    ELSE [v EXCEPT !.observed = TRUE,
                   !.changed = FALSE,
                   !.validAge = IF v.changed THEN 0
                                ELSE IF ~v.observed THEN v.incomingAge ELSE @]

ViewTimePasses(v) ==
    [v EXCEPT !.validAge = Capped(@ + 1, Expired), !.incomingAge = Capped(@ + 1, Expired)]

\* Fault variant: silence on a live link counts as a lost one.
OperationalStateByActivity(v, s) ==
    IF v.validAge <= LiveAlert THEN "LIVE"
    ELSE IF HasExplicitDisconnect(s) \/ s.activityAge > LinkLostAfter THEN "LINK LOST"
    ELSE "MONITOR"

GetOperationalState(v, s) ==
    IF v.validAge <= LiveAlert THEN "LIVE"
    ELSE IF HasExplicitDisconnect(s) THEN "LINK LOST"
    ELSE IF IsLinkAlive(s) THEN "MONITOR"
    ELSE IF s.activityAge > LinkLostAfter THEN "LINK LOST"
    ELSE "MONITOR"

LinkHealthy(s) == ~HasExplicitDisconnect(s) /\ IsLinkAlive(s)

\* Fault variant: only a drop out of MONITOR is felt.
HapticFromMonitorOnly(h, previous, state, s) ==
    IF state = "LINK LOST"
    THEN LET cancelled == CancelLinkRestored(h)
         IN  IF HasExplicitDisconnect(s) /\ previous = "MONITOR"
             THEN TriggerLinkLost(cancelled) ELSE cancelled
    ELSE IF previous = "LINK LOST" THEN ArmLinkRestored(h)
    ELSE h

HandleLinkStateHaptic(h, previous, state, s) ==
    IF state = "LINK LOST"
    THEN LET cancelled == CancelLinkRestored(h)
         IN  IF HasExplicitDisconnect(s) THEN TriggerLinkLost(cancelled) ELSE cancelled
    ELSE IF previous = "LINK LOST" THEN ArmLinkRestored(h)
    ELSE h

-----------------------------------------------------------------------------
(* onTimerTick: the splash first, then the engine, the view, the haptics.   *)

SplashTick ==
    /\ view.visible
    /\ view.splashLeft > 0
    /\ view' = [view EXCEPT !.splashLeft = @ - 1,
                            !.validAge = Capped(@ + 1, Expired),
                            !.incomingAge = Capped(@ + 1, Expired)]
    /\ vib' = HapticTimePasses(vib)
    /\ IF view.splashLeft = 1 /\ ~src.enabled THEN Start ELSE UNCHANGED bleVars

TimerTick ==
    /\ view.visible
    /\ view.splashLeft = 0
    /\ SourceTick
    /\ \E outcome \in EngineOutcomes(view) :
        view' = SyncLiveBleAlert(UpdatePriorityAlert(ViewTimePasses(view), src', outcome))
    /\ vib' = ServiceLinkRestored(HapticTimePasses(vib), LinkHealthy(src'))

\* onUpdate: resolve the operator state and feel its change.
OnUpdate ==
    /\ view.visible
    /\ view.splashLeft = 0
    /\ \E outcome \in EngineOutcomes(view) :
        LET engine == UpdatePriorityAlert(view, src, outcome)
            first == engine.hasAlert /\ ~view.hasAlert
            seen == IF first THEN [engine EXCEPT !.validAge = 0, !.changed = FALSE]
                    ELSE engine
            state == GetOperationalState(seen, src)
        IN  /\ view' = [seen EXCEPT !.operationalState = state]
            /\ vib' = IF state = view.operationalState THEN vib
                      ELSE HandleLinkStateHaptic(vib, view.operationalState, state, src)
    /\ UNCHANGED bleVars

OnHide ==
    /\ MayHide
    /\ view.visible
    /\ view' = [view EXCEPT !.visible = FALSE]
    /\ UNCHANGED <<bleVars, vib>>

\* onShow resets the view and its splash, but neither the engine nor the haptics.
OnShow ==
    /\ ~view.visible
    /\ \E outcome \in EngineOutcomes(view) :
        LET engine == UpdatePriorityAlert(view, src, outcome)
        IN  view' = [engine EXCEPT !.visible = TRUE, !.splashLeft = SplashTicks,
                                   !.operationalState = "LINK LOST",
                                   !.validAge = Expired, !.changed = FALSE,
                                   !.observed = ~engine.hasAlert]
    /\ UNCHANGED <<bleVars, vib>>

\* While the view is hidden its timer is stopped and the clock is not.
HiddenTime ==
    /\ ~view.visible
    /\ view' = ViewTimePasses(view)
    /\ vib' = HapticTimePasses(vib)
    /\ UNCHANGED bleVars

\* A callback of the stack.  A notification that decodes is an alert object the
\* engine has not seen; one that does not leaves the source without an alert.
BleCallback ==
    \/ /\ LinkCallback
       /\ UNCHANGED <<view, vib>>
    \/ /\ OnCharacteristicChanged
       /\ view' = [view EXCEPT !.fresh = IF src.explicitDisconnectSeen THEN @
                                         ELSE src'.hasLatestAlert]
       /\ UNCHANGED vib

-----------------------------------------------------------------------------
\* The link as the rhythms are about it: up from the CONNECTED callback to the
\* disconnect callback.
Connected == IsConnected(src) /\ ~src.explicitDisconnectSeen

ClockStep == SplashTick \/ TimerTick \/ HiddenTime
OtherStep == OnUpdate \/ OnHide \/ OnShow \/ BleCallback

WatchInit == BleInit /\ view = InitialView /\ vib = InitialHaptics /\ upFor = 0

WatchNext ==
    \/ /\ ClockStep
       /\ upFor' = IF Connected' THEN Capped(upFor + 1, LinkStable) ELSE 0
    \/ /\ OtherStep
       /\ upFor' = IF Connected' THEN upFor ELSE 0

WatchSpec == WatchInit /\ [][WatchNext]_watchVars

\* The timer of a visible view ticks, and every tick asks for a redraw that the
\* system grants.  Nothing is assumed of the bridge.
TimerFairness ==
    /\ WF_<<bleVars, view, vib>>(SplashTick)
    /\ WF_<<bleVars, view, vib>>(TimerTick)
    /\ WF_<<bleVars, view, vib>>(OnUpdate)

\* The bridge is in range: scans find it and it ends up connecting.
InRange ==
    /\ WF_bleVars(OnScanResults)
    /\ SF_bleVars(Pairs)
    /\ SF_bleVars(OnDescriptorWrite)

WatchTimerSpec == WatchSpec /\ TimerFairness
WatchFairSpec == WatchTimerSpec /\ InRange

-----------------------------------------------------------------------------
(* Properties.                                                              *)

\* Every field stays in the range the code gives it.
WatchTypeOK ==
    /\ BleTypeOK
    /\ view \in View
    /\ vib \in Haptics
    /\ upFor \in 0..LinkStable

\* The wearer is told of losses and recoveries in episodes: never two LINK LOST
\* rhythms without a LINK RESTORED between them, and LINK RESTORED only when the
\* link has really been up, unbroken, for the stability window.
Episode == INSTANCE LinkEpisode WITH
    announced <- vib.lastSystemEvent,
    up <- Connected

EpisodeSpec == Episode!EpisodeSpec

Shows(state) == view.visible /\ view.splashLeft = 0 /\ view.operationalState = state

\* A drop that lasts is shown once the view stays on screen, however many fresh
\* alerts, redraws and hidden periods came before.
DropIsShown ==
    <>[](view.visible /\ src.explicitDisconnectSeen) => <>[]Shows("LINK LOST")

\* A link that stays healthy is shown as one: LINK LOST does not stick.
RecoveryIsShown ==
    <>[](view.visible /\ LinkHealthy(src)) => <>[](~Shows("LINK LOST"))

\* A drop that the screen does not show yet, and that comes when the wearer was
\* last told that the link is back or was told nothing, is felt, unless the link
\* is being made again before that.  While LINK LOST is the last rhythm felt a
\* further drop is not: playSystemEvent() takes it for a repeat, although
\* VibrationEngine.mc:40-41 has every drop announced.
UnseenAndUntold ==
    /\ src.explicitDisconnectSeen
    /\ view.operationalState # "LINK LOST"
    /\ vib.lastSystemEvent # "LINK_LOST"

UntoldDropIsFelt ==
    UnseenAndUntold ~> vib.lastSystemEvent = "LINK_LOST" \/ ~src.explicitDisconnectSeen

-----------------------------------------------------------------------------
(* What the documentation says of the link rhythms and the code does not do. *)

\* docs/ble-reconnect.md:217: drop, reconnect and hold gives one LINK RESTORED.
HeldLinkIsRestored ==
    <>[]LinkHealthy(src) => <>[](vib.lastSystemEvent # "LINK_LOST")
=============================================================================
