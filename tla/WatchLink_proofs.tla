--------------------------- MODULE WatchLink_proofs ---------------------------
(***************************************************************************)
(* Theorems about the watch as its wearer meets it.  A step of the watch   *)
(* is a step of the BLE client or leaves it alone, so what is proved of    *)
(* the client holds on the watch; the rest of the type invariant follows   *)
(* from what the helpers of the view and of the haptics return.            *)
(*                                                                         *)
(* That the link rhythms come in episodes is a refinement, and needs to    *)
(* know why a window that is measured is never older than the link: a drop *)
(* can only be followed by a connection once the radio has scanned again,  *)
(* which takes a tick, and the tick ends the window of a link that is      *)
(* down.  No assumption is made of what the stack delivers late, and only  *)
(* a scan that cannot be turned off is excluded: a second device paired    *)
(* over a link that is up takes it away without a drop.                    *)
(***************************************************************************)
EXTENDS WatchLink, BleAlertSource_proofs

-----------------------------------------------------------------------------
(* Lemmas about the helpers of the view and of the haptics.                 *)

\* The saturating counters of the view and of the window contain what is put in them.
LEMMA ViewNumbers ==
    /\ LiveAlert \in Nat
    /\ Expired \in AlertAge
    /\ 0 \in AlertAge
    /\ SplashTicks \in 0..SplashTicks
    /\ LinkStable \in Nat \ {0}
    /\ 0 \in 0..LinkStable
BY ViewAssumption, LinkStableAssumption DEF AlertAge, Expired

\* An age that grows saturates.
LEMMA AgeGrows ==
    ASSUME NEW age \in AlertAge
    PROVE  Capped(age + 1, Expired) \in AlertAge
BY ViewNumbers DEF AlertAge, Expired, Capped

\* updatePriorityAlert() keeps the view in range, its visibility and its splash.
LEMMA UpdatePriorityAlertContract ==
    ASSUME NEW v \in View, NEW s, NEW outcome
    PROVE  LET w == UpdatePriorityAlert(v, s, outcome)
           IN  /\ w \in View
               /\ w.visible = v.visible
               /\ w.splashLeft = v.splashLeft
<1> DEFINE isHeld == outcome = "held"
           isChanged == v.changed \/ outcome = "accepted"
           new == [v EXCEPT !.fresh = FALSE, !.hasAlert = TRUE, !.incomingAge = 0,
                            !.observed = FALSE, !.held = isHeld, !.changed = isChanged]
           aged == [v EXCEPT !.held = FALSE, !.changed = TRUE]
<1>1. UpdatePriorityAlert(v, s, outcome) \in {v, new, aged}
  BY DEF UpdatePriorityAlert
<1>2. isHeld \in BOOLEAN /\ isChanged \in BOOLEAN
  OBVIOUS
<1> HIDE DEF isHeld, isChanged
<1>3. new \in View /\ new.visible = v.visible /\ new.splashLeft = v.splashLeft
  BY <1>2, ViewNumbers DEF View
<1>4. aged \in View /\ aged.visible = v.visible /\ aged.splashLeft = v.splashLeft
  BY DEF View
<1> QED
  BY <1>1, <1>3, <1>4

\* syncLiveBleAlert() too.
LEMMA SyncLiveBleAlertContract ==
    ASSUME NEW v \in View
    PROVE  LET w == SyncLiveBleAlert(v)
           IN  /\ w \in View
               /\ w.visible = v.visible
               /\ w.splashLeft = v.splashLeft
<1> DEFINE age == IF v.changed THEN 0 ELSE IF ~v.observed THEN v.incomingAge ELSE v.validAge
           noted == [v EXCEPT !.observed = TRUE, !.changed = FALSE, !.validAge = age]
<1>1. SyncLiveBleAlert(v) \in {v, noted}
  BY DEF SyncLiveBleAlert
<1>2. age \in AlertAge
  BY ViewNumbers DEF View
<1> HIDE DEF age
<1>3. noted \in View /\ noted.visible = v.visible /\ noted.splashLeft = v.splashLeft
  BY <1>2 DEF View
<1> QED
  BY <1>1, <1>3

\* The clock moves two ages on and nothing else.
LEMMA ViewTimePassesContract ==
    ASSUME NEW v \in View
    PROVE  LET w == ViewTimePasses(v)
           IN  /\ w \in View
               /\ w.visible = v.visible
               /\ w.splashLeft = v.splashLeft
<1> DEFINE valid == Capped(v.validAge + 1, Expired)
           incoming == Capped(v.incomingAge + 1, Expired)
<1>1. valid \in AlertAge /\ incoming \in AlertAge
  BY AgeGrows DEF View
<1> HIDE DEF valid, incoming
<1>2. LET w == [v EXCEPT !.validAge = valid, !.incomingAge = incoming]
      IN  w \in View /\ w.visible = v.visible /\ w.splashLeft = v.splashLeft
  BY <1>1 DEF View
<1> QED
  BY <1>2 DEF ViewTimePasses, valid, incoming

\* The three states are all there are.
LEMMA OperationalStateType ==
    ASSUME NEW v, NEW s
    PROVE  GetOperationalState(v, s) \in OperationalStates
BY DEF GetOperationalState, OperationalStates

\* The clock measures the window and announces nothing.
LEMMA HapticTimePassesContract ==
    ASSUME NEW h \in Haptics
    PROVE  LET g == HapticTimePasses(h)
           IN  /\ g \in Haptics
               /\ g.lastSystemEvent = h.lastSystemEvent
               /\ g.linkRestorePending = h.linkRestorePending
               /\ g.stableFor = IF h.linkRestorePending /\ h.stableFor < LinkStable
                                THEN h.stableFor + 1 ELSE h.stableFor
<1> DEFINE window == IF h.linkRestorePending /\ h.stableFor < LinkStable
                     THEN h.stableFor + 1 ELSE h.stableFor
<1>1. h.stableFor \in 0..LinkStable
  BY DEF Haptics
<1>2. window \in 0..LinkStable
  BY <1>1, ViewNumbers
<1> HIDE DEF window
<1>3. LET g == [h EXCEPT !.stableFor = window]
      IN  /\ g \in Haptics
          /\ g.lastSystemEvent = h.lastSystemEvent
          /\ g.linkRestorePending = h.linkRestorePending
          /\ g.stableFor = window
  BY <1>2 DEF Haptics
<1> QED
  BY <1>3 DEF HapticTimePasses, window

\* serviceLinkRestored() keeps a window only of a healthy link, and ends it with the one
\* announcement when it has run its length.
LEMMA ServiceLinkRestoredContract ==
    ASSUME NEW h \in Haptics, NEW healthy \in BOOLEAN
    PROVE  LET g == ServiceLinkRestored(h, healthy)
           IN  /\ g \in Haptics
               /\ g.linkRestorePending => g = h /\ healthy
               /\ \/ g.lastSystemEvent = h.lastSystemEvent
                  \/ /\ h.linkRestorePending
                     /\ healthy
                     /\ h.stableFor = LinkStable
                     /\ ~g.linkRestorePending
                     /\ g.lastSystemEvent = "LINK_RESTORED"
<1> DEFINE cancelled == CancelLinkRestored(h)
           restored == PlaySystemEvent(cancelled, "LINK_RESTORED")
<1>1. /\ cancelled \in Haptics
      /\ ~cancelled.linkRestorePending
      /\ cancelled.lastSystemEvent = h.lastSystemEvent
  BY ViewNumbers DEF CancelLinkRestored, Haptics
<1> HIDE DEF cancelled
<1>2. /\ restored \in Haptics
      /\ ~restored.linkRestorePending
      /\ restored.lastSystemEvent = "LINK_RESTORED"
  BY <1>1 DEF PlaySystemEvent, Haptics, SystemEvents
<1> HIDE DEF restored
<1>3. ServiceLinkRestored(h, healthy) =
        IF ~h.linkRestorePending THEN h
        ELSE IF ~healthy THEN cancelled
        ELSE IF h.stableFor < LinkStable THEN h
        ELSE restored
  BY DEF ServiceLinkRestored, cancelled, restored
<1>4. ~(h.stableFor < LinkStable) => h.stableFor = LinkStable
  BY ViewNumbers DEF Haptics
<1> QED
  BY <1>1, <1>2, <1>3, <1>4

\* handleLinkStateHaptic() announces a loss or arms a new window, and a window that was
\* there goes on only as it was.
LEMMA HandleLinkStateHapticContract ==
    ASSUME NEW h \in Haptics, NEW previous, NEW state, NEW s
    PROVE  LET g == HandleLinkStateHaptic(h, previous, state, s)
           IN  /\ g \in Haptics
               /\ g.lastSystemEvent \in {h.lastSystemEvent, "LINK_LOST"}
               /\ g.linkRestorePending =>
                    \/ g = h
                    \/ g.stableFor = 0 /\ g.lastSystemEvent = "LINK_LOST"
<1> DEFINE cancelled == CancelLinkRestored(h)
           lost == TriggerLinkLost(cancelled)
           armed == [h EXCEPT !.linkRestorePending = TRUE, !.stableFor = 0]
<1>1. /\ cancelled \in Haptics
      /\ ~cancelled.linkRestorePending
      /\ cancelled.lastSystemEvent = h.lastSystemEvent
  BY ViewNumbers DEF CancelLinkRestored, Haptics
<1> HIDE DEF cancelled
<1>2. /\ lost \in Haptics
      /\ ~lost.linkRestorePending
      /\ lost.lastSystemEvent = "LINK_LOST"
  BY <1>1 DEF TriggerLinkLost, PlaySystemEvent, Haptics, SystemEvents
<1> HIDE DEF lost
<1>3. /\ armed \in Haptics
      /\ armed.stableFor = 0
      /\ armed.lastSystemEvent = h.lastSystemEvent
  BY ViewNumbers DEF Haptics
<1> HIDE DEF armed
<1>4. ArmLinkRestored(h) = h \/ (ArmLinkRestored(h) = armed /\ h.lastSystemEvent = "LINK_LOST")
  BY DEF ArmLinkRestored, armed
<1>5. HandleLinkStateHaptic(h, previous, state, s) \in {h, cancelled, lost, ArmLinkRestored(h)}
  BY DEF HandleLinkStateHaptic, cancelled, lost
<1> QED
  BY <1>1, <1>2, <1>3, <1>4, <1>5

-----------------------------------------------------------------------------
(* The watch implements the BLE client, and keeps every field in its range. *)

\* A step of the watch is a step of its client, or leaves the client alone.
LEMMA WatchStepIsBleStep == [WatchNext]_watchVars => [BleNext]_bleVars
BY DEF WatchNext, watchVars, ClockStep, OtherStep, SplashTick, TimerTick, HiddenTime, OnUpdate,
       OnHide, OnShow, BleCallback, BleNext, bleVars

\* Whatever the timer, the redraws and the system do, the client behaves as BleAlertSource
\* says: every property of BleSpec is one of the watch (SkyShieldView drives the client by
\* start() and AlertEngine.tick() alone).
THEOREM WatchRunsTheClient == WatchSpec => BleSpec
<1>1. WatchInit => BleInit
  BY DEF WatchInit
<1> QED
  BY <1>1, WatchStepIsBleStep, PTL DEF WatchSpec, BleSpec

\* The view and the haptics begin in range.
LEMMA InitialWatch == InitialView \in View /\ InitialHaptics \in Haptics
BY ViewNumbers DEF InitialView, View, OperationalStates, InitialHaptics, Haptics, SystemEvents

\* Time on a link that is up is counted up to the window.
LEMMA UpForGrows ==
    ASSUME NEW n \in 0..LinkStable
    PROVE  Capped(n + 1, LinkStable) \in 0..LinkStable
BY ViewNumbers DEF Capped

\* A tick of the splash, of the timer or of a hidden view keeps view and haptics in range.
LEMMA ClockStepType ==
    ASSUME view \in View, vib \in Haptics, ClockStep
    PROVE  view' \in View /\ vib' \in Haptics
<1>0. HapticTimePasses(vib) \in Haptics
  BY HapticTimePassesContract
<1>1. CASE SplashTick
  <2> DEFINE left == view.splashLeft - 1
             valid == Capped(view.validAge + 1, Expired)
             incoming == Capped(view.incomingAge + 1, Expired)
  <2>1. view' = [view EXCEPT !.splashLeft = left, !.validAge = valid, !.incomingAge = incoming]
    BY <1>1 DEF SplashTick
  <2>2. view.splashLeft \in 0..SplashTicks /\ view.splashLeft > 0
    BY <1>1 DEF SplashTick, View
  <2>3. left \in 0..SplashTicks
    BY <2>2, ViewAssumption
  <2>4. valid \in AlertAge /\ incoming \in AlertAge
    BY AgeGrows DEF View
  <2> HIDE DEF left, valid, incoming
  <2>5. view' \in View
    BY <2>1, <2>3, <2>4 DEF View
  <2> QED
    BY <1>0, <1>1, <2>5 DEF SplashTick
<1>2. CASE TimerTick
  <2>1. PICK outcome \in EngineOutcomes(view) :
          view' = SyncLiveBleAlert(UpdatePriorityAlert(ViewTimePasses(view), src', outcome))
    BY <1>2 DEF TimerTick
  <2>2. view' \in View
    BY <2>1, ViewTimePassesContract, UpdatePriorityAlertContract, SyncLiveBleAlertContract
  <2>3. LinkHealthy(src') \in BOOLEAN
    BY DEF LinkHealthy
  <2> QED
    BY <1>0, <1>2, <2>2, <2>3, ServiceLinkRestoredContract DEF TimerTick
<1>3. CASE HiddenTime
  BY <1>0, <1>3, ViewTimePassesContract DEF HiddenTime
<1> QED
  BY <1>1, <1>2, <1>3 DEF ClockStep

\* So does everything else.
LEMMA OtherStepType ==
    ASSUME view \in View, vib \in Haptics, src \in Source, src' \in Source, OtherStep
    PROVE  view' \in View /\ vib' \in Haptics
<1>1. CASE OnUpdate
  <2>1. PICK outcome \in EngineOutcomes(view) :
          LET engine == UpdatePriorityAlert(view, src, outcome)
              first == engine.hasAlert /\ ~view.hasAlert
              seen == IF first THEN [engine EXCEPT !.validAge = 0, !.changed = FALSE]
                      ELSE engine
              state == GetOperationalState(seen, src)
          IN  /\ view' = [seen EXCEPT !.operationalState = state]
              /\ vib' = IF state = view.operationalState THEN vib
                        ELSE HandleLinkStateHaptic(vib, view.operationalState, state, src)
    BY <1>1 DEF OnUpdate
  <2> DEFINE engine == UpdatePriorityAlert(view, src, outcome)
             noted == [engine EXCEPT !.validAge = 0, !.changed = FALSE]
             seen == IF engine.hasAlert /\ ~view.hasAlert THEN noted ELSE engine
             state == GetOperationalState(seen, src)
  <2>2. engine \in View
    BY UpdatePriorityAlertContract
  <2> HIDE DEF engine
  <2>3. noted \in View
    BY <2>2, ViewNumbers DEF View
  <2>4. seen \in View
    BY <2>2, <2>3
  <2>5. /\ view' = [seen EXCEPT !.operationalState = state]
        /\ vib' = IF state = view.operationalState THEN vib
                  ELSE HandleLinkStateHaptic(vib, view.operationalState, state, src)
    BY <2>1 DEF engine
  <2> HIDE DEF seen
  <2>6. state \in OperationalStates
    BY OperationalStateType
  <2> HIDE DEF state
  <2>7. view' \in View
    BY <2>4, <2>5, <2>6 DEF View
  <2> QED
    BY <2>5, <2>7, HandleLinkStateHapticContract
<1>2. CASE OnHide
  BY <1>2 DEF OnHide, View
<1>3. CASE OnShow
  <2>1. PICK outcome \in EngineOutcomes(view) :
          LET engine == UpdatePriorityAlert(view, src, outcome)
          IN  view' = [engine EXCEPT !.visible = TRUE, !.splashLeft = SplashTicks,
                                     !.operationalState = "LINK LOST",
                                     !.validAge = Expired, !.changed = FALSE,
                                     !.observed = ~engine.hasAlert]
    BY <1>3 DEF OnShow
  <2> DEFINE engine == UpdatePriorityAlert(view, src, outcome)
             unseen == ~engine.hasAlert
  <2>2. engine \in View
    BY UpdatePriorityAlertContract
  <2>3. view' = [engine EXCEPT !.visible = TRUE, !.splashLeft = SplashTicks,
                               !.operationalState = "LINK LOST",
                               !.validAge = Expired, !.changed = FALSE,
                               !.observed = unseen]
    BY <2>1
  <2>4. unseen \in BOOLEAN
    OBVIOUS
  <2> HIDE DEF engine, unseen
  <2>5. view' \in View
    BY <2>2, <2>3, <2>4, ViewNumbers DEF View, OperationalStates
  <2> QED
    BY <1>3, <2>5 DEF OnShow
<1>4. CASE BleCallback
  <2>1. CASE LinkCallback /\ UNCHANGED <<view, vib>>
    BY <2>1
  <2>2. CASE OnCharacteristicChanged
             /\ view' = [view EXCEPT !.fresh = IF src.explicitDisconnectSeen THEN @
                                               ELSE src'.hasLatestAlert]
             /\ UNCHANGED vib
    <3> DEFINE isFresh == IF src.explicitDisconnectSeen THEN view.fresh ELSE src'.hasLatestAlert
    <3>1. isFresh \in BOOLEAN
      BY DEF View, Source
    <3>2. view' = [view EXCEPT !.fresh = isFresh]
      BY <2>2
    <3> HIDE DEF isFresh
    <3> QED
      BY <2>2, <3>1, <3>2 DEF View
  <2> QED
    BY <1>4, <2>1, <2>2 DEF BleCallback
<1> QED
  BY <1>1, <1>2, <1>3, <1>4 DEF OtherStep

\* Every step of the watch keeps every field in its range.
LEMMA WatchTypeStep == WatchTypeOK /\ [WatchNext]_watchVars => WatchTypeOK'
<1> SUFFICES ASSUME WatchTypeOK, [WatchNext]_watchVars
             PROVE  WatchTypeOK'
  OBVIOUS
<1>0. BleTypeOK /\ view \in View /\ vib \in Haptics /\ upFor \in 0..LinkStable
  BY DEF WatchTypeOK
<1>1. BleTypeOK'
  BY <1>0, WatchStepIsBleStep, TypeStep
<1>2. src \in Source /\ src' \in Source
  BY <1>0, <1>1 DEF BleTypeOK
<1>3. CASE ClockStep /\ upFor' = IF Connected' THEN Capped(upFor + 1, LinkStable) ELSE 0
  BY <1>0, <1>1, <1>3, ClockStepType, UpForGrows, ViewNumbers DEF WatchTypeOK
<1>4. CASE OtherStep /\ upFor' = IF Connected' THEN upFor ELSE 0
  BY <1>0, <1>1, <1>2, <1>4, OtherStepType, ViewNumbers DEF WatchTypeOK
<1>5. CASE UNCHANGED watchVars
  BY <1>0, <1>1, <1>5 DEF watchVars, WatchTypeOK
<1> QED
  BY <1>3, <1>4, <1>5 DEF WatchNext

\* Type correctness of the watch, for every interval, splash and window and whether or not
\* the view may be hidden: SkyShieldView's ages and states and VibrationEngine's window
\* stay in the range the code gives them.
THEOREM WatchTypeCorrect == WatchSpec => []WatchTypeOK
<1>1. WatchInit => WatchTypeOK
  BY InitialType, InitialWatch, ViewNumbers DEF WatchInit, BleInit, WatchTypeOK, BleTypeOK
<1> QED
  BY <1>1, WatchTypeStep, PTL DEF WatchSpec

-----------------------------------------------------------------------------
(* What the episodes need of the client, whatever the stack delivers late.  *)

\* handleScanStateChange() leaves a connection what it is.
LEMMA ScanStateChangeKeepsConnection ==
    ASSUME NEW s \in Source, NEW ok \in BOOLEAN
    PROVE  IsConnected(HandleScanStateChange(s, ok)) <=> IsConnected(s)
<1> DEFINE scanning == [s EXCEPT !.phase = "scanning"]
           cleared == [s EXCEPT !.phase = IF @ = "scanning" THEN "none" ELSE @]
<1>1. scanning.phase = "scanning"
  BY DEF Source
<1>2. cleared \in Source /\ cleared.phase = IF s.phase = "scanning" THEN "none" ELSE s.phase
  BY DEF Source, Phases
<1> HIDE DEF scanning, cleared
<1>3. SetScanError(s).phase = s.phase /\ SetScanError(cleared).phase = cleared.phase
  BY <1>2, SetScanErrorContract DEF ErrorOrSame, Kept
<1>4. HandleScanStateChange(s, ok) =
        IF ~CanProcessScanCallback(s) THEN IF ok THEN s ELSE SetScanError(s)
        ELSE IF ok THEN scanning
        ELSE SetScanError(cleared)
  BY DEF HandleScanStateChange, scanning, cleared
<1>5. CanProcessScanCallback(s) => s.phase \in {"none", "scanning"}
  BY DEF CanProcessScanCallback
<1> QED
  BY <1>1, <1>2, <1>3, <1>4, <1>5 DEF IsConnected

\* handleConnected() takes a drop back, unless the link was established before.
LEMMA ConnectedTakesDropBack ==
    ASSUME NEW s \in Source, NEW d \in Devices \cup {NoDevice}, NEW failed
    PROVE  LET t == HandleConnected(s, d, failed)
           IN  /\ IsConnected(t)
               /\ s.explicitDisconnectSeen /\ ~AlreadyEstablished(s) => ~t.explicitDisconnectSeen
               /\ ~s.explicitDisconnectSeen => ~t.explicitDisconnectSeen
<1> DEFINE held == [s EXCEPT !.device = d]
           base == [held EXCEPT !.latches = @ \cup {"CONNECTED"},
                                !.explicitDisconnectSeen = FALSE,
                                !.activityAge = 0,
                                !.phase = "connected"]
           connected == SetBleState(base, "CONNECTED", "CONN")
<1>1. CASE AlreadyEstablished(s)
  BY <1>1 DEF HandleConnected, AlreadyEstablished, Source, IsConnected
<1>2. CASE ~AlreadyEstablished(s)
  <2>1. HandleConnected(s, d, failed) = DiscoverAlertCharacteristic(connected, failed)
    BY <1>2 DEF HandleConnected
  <2>2. base \in Source /\ base.phase = "connected" /\ ~base.explicitDisconnectSeen
    BY Zero DEF Source, Phases, Latches
  <2> HIDE DEF base
  <2>3. Shown(base, connected, "CONNECTED", "CONN")
    BY <2>2, SetBleStateContract DEF States, Diags, LinkDiags, TimedDiags
  <2>4. connected \in Source /\ connected.phase = "connected" /\ ~connected.explicitDisconnectSeen
    BY <2>2, <2>3 DEF Shown, Kept
  <2> HIDE DEF connected
  <2>5. KeptThroughDiscovery(connected, DiscoverAlertCharacteristic(connected, failed))
    BY <2>4, DiscoverContract
  <2> QED
    BY <2>1, <2>4, <2>5 DEF KeptThroughDiscovery, IsConnected
<1> QED
  BY <1>1, <1>2

\* handleDescriptorWrite() leaves a drop what it is, and fails without a claim.
LEMMA DescriptorWriteKeepsDrop ==
    ASSUME NEW s \in Source, NEW ok \in BOOLEAN
    PROVE  LET t == HandleDescriptorWrite(s, ok)
           IN  /\ t.explicitDisconnectSeen = s.explicitDisconnectSeen
               /\ ~ok /\ Quiet(s) => Quiet(t)
<1> DEFINE base == [s EXCEPT !.latches = @ \cup {"SUBSCRIBED"},
                             !.activityAge = 0,
                             !.phase = "subscribed"]
<1>1. CASE ~ok
  <2>1. HandleDescriptorWrite(s, ok) = SetBleError(s, "SUB")
    BY <1>1 DEF HandleDescriptorWrite
  <2>2. ErrorOrSame(s, SetBleError(s, "SUB"))
    BY SetBleErrorContract DEF Stages
  <2> QED
    BY <2>1, <2>2, ErrorKeepsQuiet DEF ErrorOrSame, Kept
<1>2. CASE ok
  <2>1. HandleDescriptorWrite(s, ok) = SetDiagnosticState(base, "SUB_WAIT")
    BY <1>2 DEF HandleDescriptorWrite
  <2>2. base \in Source /\ base.explicitDisconnectSeen = s.explicitDisconnectSeen
    BY Zero DEF Source, Phases, Latches
  <2> HIDE DEF base
  <2>3. Shown(base, SetDiagnosticState(base, "SUB_WAIT"), base.state, "SUB_WAIT")
    BY <2>2, SetDiagnosticStateContract DEF Diags, LinkDiags
  <2> QED
    BY <1>2, <2>1, <2>2, <2>3 DEF Shown, Kept
<1> QED
  BY <1>1, <1>2

\* A notification is no drop, whether it decodes or not.
LEMMA NotificationShowsNoDrop ==
    ASSUME NEW s \in Source, NEW decodes \in BOOLEAN, ~s.explicitDisconnectSeen
    PROVE  ~HandleCharacteristicChanged(s, decodes).explicitDisconnectSeen
<1> DEFINE base == [s EXCEPT !.activityAge = 0, !.phase = "subscribed"]
           received == SetDiagnosticState(base, "RX")
           accepted == [received EXCEPT !.hasLatestAlert = TRUE, !.lastParseOk = TRUE,
                                        !.reconnectDelay = ReconnectMin,
                                        !.explicitDisconnectSeen = FALSE]
           failed == [received EXCEPT !.hasLatestAlert = FALSE, !.lastParseOk = FALSE]
<1>1. base \in Source /\ ~base.explicitDisconnectSeen
  BY Zero DEF Source, Phases
<1> HIDE DEF base
<1>2. received \in Source /\ ~received.explicitDisconnectSeen
  BY <1>1, SetDiagnosticStateContract DEF Shown, Kept, Diags, LinkDiags
<1> HIDE DEF received
<1>3. accepted \in Source /\ ~accepted.explicitDisconnectSeen
  BY <1>2, Zero DEF Source
<1>4. failed \in Source /\ ~failed.explicitDisconnectSeen
  BY <1>2 DEF Source
<1> HIDE DEF accepted, failed
<1>5. ~SetBleState(accepted, "CONNECTED", "RX").explicitDisconnectSeen
  <2>1. Shown(accepted, SetBleState(accepted, "CONNECTED", "RX"), "CONNECTED", "RX")
    BY <1>3, SetBleStateContract DEF States, Diags, LinkDiags
  <2> QED
    BY <1>3, <2>1 DEF Shown, Kept
<1>6. ~SetBleError(failed, "RX").explicitDisconnectSeen
  BY <1>4, SetBleErrorContract DEF ErrorOrSame, Kept, Stages
<1>7. HandleCharacteristicChanged(s, decodes) =
        IF decodes THEN SetBleState(accepted, "CONNECTED", "RX") ELSE SetBleError(failed, "RX")
  BY DEF HandleCharacteristicChanged, AcceptAlert, HandleByteParseError, base, received,
         accepted, failed
<1> QED
  BY <1>5, <1>6, <1>7

\* A source that claims a link has one; the radio scans only without a link, and not while
\* a reconnect waits; there is one link at a time; and what arrives late arrives after a drop
\* that was seen.
LinkStory ==
    /\ NotStarted
    /\ stack.rivals = {}
    /\ ~src.explicitDisconnectSeen /\ ~Quiet(src) => IsConnected(src)
    /\ stack.link # "idle" => ~stack.radio
    /\ src.reconnectPending => ~stack.radio /\ stack.link = "idle"
    /\ stack.cccd # "off" /\ stack.link = "idle" => src.explicitDisconnectSeen
    /\ stack.radio => ~Connected

\* A drop from which no callback leads to a connection: only a tick can scan again.
Dropped == src.explicitDisconnectSeen /\ stack.link = "idle" /\ ~stack.radio

\* How a callback may move the link.
DropsAreSeen ==
    /\ LinkStory'
    /\ Connected /\ ~Connected' => Dropped'
    /\ Dropped => Dropped'

\* A tick, or start(), makes and breaks no link.
LEMMA TickTellsLinkStory ==
    ASSUME "stop" \notin Faults, BleTypeOK, LinkStory, Start \/ SourceTick
    PROVE  LinkStory' /\ Connected' = Connected
<1>0. src \in Source /\ stack \in Stack
  BY DEF BleTypeOK
<1>1. CASE Start
  <2>1. PICK available \in BOOLEAN, scanOk \in BOOLEAN :
          /\ src' = StartSource(src, available, scanOk)
          /\ stack' = [stack EXCEPT !.radio = available /\ scanOk]
    BY <1>1, FailuresAreBoolean DEF Start
  <2>2. src = InitialSource /\ stack = InitialStack
    BY <1>1 DEF Start, LinkStory, NotStarted
  <2>3. src.phase = "none" /\ src.state # "CONNECTED" /\ ~src.reconnectPending
    BY <2>2 DEF InitialSource
  <2>4. /\ Kept([src EXCEPT !.enabled = TRUE, !.phase = src'.phase], src')
        /\ src'.phase \in {"scanning", "none"}
        /\ Quiet(src')
    BY <1>0, <2>1, <2>3, StartSourceContract
  <2>5. src'.enabled /\ ~src'.reconnectPending
    BY <1>0, <2>3, <2>4 DEF Kept, Source
  <2>6. stack'.link = "idle" /\ stack'.cccd = "off" /\ stack'.rivals = {}
    BY <2>1, <2>2 DEF InitialStack
  <2> QED
    BY <2>3, <2>4, <2>5, <2>6 DEF LinkStory, NotStarted, Connected, IsConnected
<1>2. CASE SourceTick
  <2> DEFINE due == ReconnectDue(Elapse(src))
  <2>1. PICK scanOk \in BOOLEAN, unpaired \in BOOLEAN, stopped \in BOOLEAN :
          /\ stopped \in MayFail("stop")
          /\ src' = TickSource(src, scanOk)
          /\ stack' = IF ~due THEN stack ELSE TickedStack(scanOk, unpaired, stopped)
    BY <1>2, TickCalls
  <2>2. src.enabled /\ stopped
    BY <1>2, <2>1 DEF SourceTick, MayFail
  <2>3. /\ src'.enabled
        /\ src'.explicitDisconnectSeen = src.explicitDisconnectSeen
        /\ Quiet(src) => Quiet(src')
        /\ ~due => /\ src'.phase = src.phase
                   /\ src'.reconnectPending = src.reconnectPending
        /\ due => /\ src.reconnectPending
                  /\ ~src'.reconnectPending
                  /\ src'.phase = IF src.phase = "none" /\ scanOk THEN "scanning" ELSE src.phase
    BY <1>0, <2>1, <2>2, TickContract
  <2>4. /\ stack'.link = stack.link
        /\ stack'.cccd = stack.cccd
        /\ stack'.rivals = stack.rivals
        /\ ~due => stack'.radio = stack.radio
        /\ due => (stack'.radio <=> src.phase = "none" /\ scanOk)
    BY <1>0, <2>1, <2>2 DEF Stack, TickedStack
  <2> HIDE DEF due
  <2>5. IsConnected(src') <=> IsConnected(src)
    BY <2>3 DEF IsConnected
  <2>6. due /\ stack'.radio => ~IsConnected(src)
    BY <2>4 DEF IsConnected
  <2> QED
    BY <2>3, <2>4, <2>5, <2>6 DEF LinkStory, NotStarted, Connected
<1> QED
  BY <1>1, <1>2

\* No callback brings a link back that was dropped: it takes a scan.
LEMMA CallbackTellsLinkStory ==
    ASSUME "stop" \notin Faults, BleTypeOK, LinkStory, LinkCallback \/ OnCharacteristicChanged
    PROVE  DropsAreSeen
<1>0. src \in Source /\ stack \in Stack
  BY DEF BleTypeOK
<1>1. src.enabled
  <2>1. stack.link # "idle" \/ stack.radio \/ stack.cccd # "off"
    BY DEF LinkCallback, OnScanResults, OnScanStateChange, OnConnected, OnDisconnected,
           OnDescriptorWrite, OnCharacteristicChanged, PeerVanishes, ServesOther, LinkStory
  <2>2. stack # InitialStack
    BY <2>1 DEF InitialStack
  <2> QED
    BY <2>2 DEF LinkStory, NotStarted
<1>2. CASE OnScanResults
  <2>1. PICK paired \in PairOutcomes, stopped \in BOOLEAN :
          /\ stopped \in MayFail("stop")
          /\ src' = HandleScanResults(src, paired)
          /\ paired \notin Devices => stack' = ScannedStack(stopped)
          /\ paired \in Devices => stack' = PairedStack(paired, stopped)
    BY <1>2, ScanResultCalls
  <2>2. stack.radio /\ ~src.reconnectPending /\ ~Connected
    BY <1>2 DEF OnScanResults, LinkStory
  <2>a. stopped /\ stack.link = "idle"
    BY <1>2, <2>1 DEF MayFail, OnScanResults, LinkStory
  <2>3. paired \in Devices \cup {NoDevice, "throws"}
    BY ScanOutcomes
  <2>4. src'.enabled /\ ~src'.reconnectPending /\ Quiet(src')
    BY <1>0, <1>1, <2>1, <2>2, <2>3, HandleScanResultsContract
  <2>b. /\ ~ScannedStack(stopped).radio
        /\ ScannedStack(stopped).cccd = "off"
        /\ ScannedStack(stopped).rivals = {}
        /\ {"link", "peer", "slots", "cccd", "rivals"} \subseteq DOMAIN ScannedStack(stopped)
    BY <1>0, <1>2, <2>a DEF Stack, ScannedStack, LinkStory
  <2>c. PairedStack(paired, stopped) =
          [ScannedStack(stopped) EXCEPT !.link = "pairing", !.peer = paired,
             !.slots = @ \cup {paired}, !.cccd = "off", !.rivals = @ \cup {}]
    BY <2>a DEF PairedStack
  <2>d. /\ ~PairedStack(paired, stopped).radio
        /\ PairedStack(paired, stopped).cccd = "off"
        /\ PairedStack(paired, stopped).rivals = {}
    <3> HIDE DEF ScannedStack
    <3> QED
      BY <2>b, <2>c
  <2>5. ~stack'.radio /\ stack'.cccd = "off" /\ stack'.rivals = {}
    BY <2>1, <2>b, <2>d
  <2> QED
    BY <2>2, <2>4, <2>5 DEF DropsAreSeen, Dropped, LinkStory, NotStarted
<1>3. CASE OnScanStateChange
  <2>1. PICK ok \in BOOLEAN :
          /\ src' = HandleScanStateChange(src, ok)
          /\ stack' = [stack EXCEPT !.radio = ok]
    BY <1>3, FailuresAreBoolean DEF OnScanStateChange
  <2>2. stack.radio /\ stack.link = "idle" /\ ~src.reconnectPending /\ ~Connected
    BY <1>3 DEF OnScanStateChange, LinkStory
  <2>3. /\ Kept([src EXCEPT !.phase = src'.phase], src')
        /\ Quiet(src) => Quiet(src')
        /\ IsConnected(src') <=> IsConnected(src)
    BY <1>0, <2>1, HandleScanStateChangeContract, ScanStateChangeKeepsConnection
  <2>4. /\ src'.enabled /\ ~src'.reconnectPending
        /\ src'.explicitDisconnectSeen = src.explicitDisconnectSeen
    BY <1>0, <1>1, <2>2, <2>3 DEF Kept, Source
  <2>5. stack'.link = "idle" /\ stack'.cccd = stack.cccd /\ stack'.rivals = stack.rivals
    BY <1>0, <2>1, <2>2 DEF Stack
  <2> QED
    BY <2>2, <2>3, <2>4, <2>5 DEF DropsAreSeen, Dropped, LinkStory, NotStarted, Connected
<1>4. CASE OnConnected
  <2>1. PICK failed \in Failures :
          /\ src' = HandleConnected(src, stack.peer, failed)
          /\ stack' = [stack EXCEPT
               !.link = IF @ = "pairing" THEN "up" ELSE @,
               !.cccd = IF ~AlreadyEstablished(src) /\ failed = "none" THEN "pending" ELSE @]
    BY <1>4 DEF OnConnected
  <2>2. stack.link # "idle" /\ stack.peer \in Devices \cup {NoDevice}
    BY <1>0, <1>4 DEF OnConnected, Stack
  <2>3. ~stack.radio /\ ~src.reconnectPending
    BY <2>2 DEF LinkStory
  <2>4. src'.enabled /\ ~src'.reconnectPending
    BY <1>0, <1>1, <2>1, <2>2, <2>3, HandleConnectedContract
  <2>5. /\ IsConnected(src')
        /\ ~src.explicitDisconnectSeen => ~src'.explicitDisconnectSeen
    BY <1>0, <2>1, <2>2, ConnectedTakesDropBack
  <2>6. stack'.link # "idle" /\ ~stack'.radio /\ stack'.rivals = stack.rivals
    BY <1>0, <2>1, <2>2, <2>3 DEF Stack
  <2> QED
    BY <2>2, <2>4, <2>5, <2>6 DEF DropsAreSeen, Dropped, LinkStory, NotStarted, Connected
<1>5. CASE OnDisconnected
  <2>1. stack.link # "idle" /\ ~stack.radio /\ stack.peer \in Devices \cup {NoDevice}
    BY <1>0, <1>5 DEF OnDisconnected, LinkStory, Stack
  <2>2. src'.enabled /\ src'.explicitDisconnectSeen
    BY <1>0, <1>1, <1>5, <2>1, HandleDisconnectedContract DEF OnDisconnected
  <2>3. stack'.link = "idle" /\ ~stack'.radio /\ stack'.rivals = stack.rivals
    BY <1>0, <1>5, <2>1 DEF OnDisconnected, Stack
  <2> QED
    BY <2>2, <2>3 DEF DropsAreSeen, Dropped, LinkStory, NotStarted
<1>6. CASE OnDescriptorWrite
  <2>1. PICK ok \in BOOLEAN :
          /\ src' = HandleDescriptorWrite(src, ok)
          /\ stack' = [stack EXCEPT !.cccd = IF ok /\ stack.link = "up" THEN "on" ELSE "off"]
    BY <1>6, FailuresAreBoolean DEF OnDescriptorWrite
  <2>2. /\ src'.enabled
        /\ src'.phase = IF ok THEN "subscribed" ELSE src.phase
        /\ src'.reconnectPending = src.reconnectPending
        /\ src'.explicitDisconnectSeen = src.explicitDisconnectSeen
        /\ ~ok /\ Quiet(src) => Quiet(src')
    BY <1>0, <1>1, <2>1, HandleDescriptorWriteContract, DescriptorWriteKeepsDrop
  <2>3. /\ stack'.link = stack.link
        /\ stack'.rivals = stack.rivals
        /\ stack'.radio = stack.radio
        /\ stack'.cccd # "off" => stack.link = "up"
    BY <1>0, <2>1 DEF Stack
  <2>4. stack.radio => src.explicitDisconnectSeen
    BY <1>6 DEF OnDescriptorWrite, LinkStory
  <2>5. IsConnected(src) => IsConnected(src')
    BY <2>2 DEF IsConnected
  <2>6. ok => IsConnected(src')
    BY <2>2 DEF IsConnected
  <2>7. ~ok => (IsConnected(src') <=> IsConnected(src))
    BY <2>2 DEF IsConnected
  <2>8. LinkStory'
    BY <2>2, <2>3, <2>4, <2>6, <2>7 DEF LinkStory, NotStarted, Connected
  <2> QED
    BY <2>2, <2>3, <2>5, <2>8 DEF DropsAreSeen, Dropped, Connected
<1>7. CASE OnCharacteristicChanged
  <2>1. PICK decodes \in BOOLEAN : src' = HandleCharacteristicChanged(src, decodes)
    BY <1>7, FailuresAreBoolean DEF OnCharacteristicChanged
  <2>2. /\ KeptThroughNotification(src, src')
        /\ src.explicitDisconnectSeen => src' = src
        /\ ~src.explicitDisconnectSeen => src'.phase = "subscribed"
    BY <1>0, <2>1, HandleCharacteristicChangedContract
  <2>3. stack' = stack /\ stack.cccd = "on"
    BY <1>7 DEF OnCharacteristicChanged
  <2>4. CASE src.explicitDisconnectSeen
    BY <2>2, <2>3, <2>4 DEF DropsAreSeen, Dropped, LinkStory, NotStarted, Connected
  <2>5. CASE ~src.explicitDisconnectSeen
    <3>1. stack.link # "idle" /\ ~stack.radio
      BY <2>3, <2>5 DEF LinkStory
    <3>2. IsConnected(src') /\ src'.enabled /\ src'.reconnectPending = src.reconnectPending
      BY <1>1, <2>2, <2>5 DEF IsConnected, KeptThroughNotification
    <3>3. LinkStory'
      BY <2>3, <3>1, <3>2 DEF LinkStory, NotStarted
    <3>4. ~src'.explicitDisconnectSeen
      BY <1>0, <2>1, <2>5, NotificationShowsNoDrop
    <3> QED
      BY <2>3, <2>5, <3>2, <3>3, <3>4 DEF DropsAreSeen, Dropped, Connected
  <2> QED
    BY <2>4, <2>5
<1>8. CASE PeerVanishes
  <2>1. stack'.link = "gone" /\ stack.link = "up" /\ stack'.radio = stack.radio /\ src' = src
        /\ stack'.rivals = stack.rivals
    BY <1>0, <1>8 DEF PeerVanishes, Stack
  <2> QED
    BY <1>1, <2>1 DEF DropsAreSeen, Dropped, LinkStory, NotStarted, Connected
<1>9. CASE ServesOther
  BY <1>9 DEF ServesOther, LinkStory
<1> QED
  BY <1>2, <1>3, <1>4, <1>5, <1>6, <1>7, <1>8, <1>9 DEF LinkCallback

-----------------------------------------------------------------------------
(* The rhythms come in episodes.                                            *)

\* A window is only measured after a loss was announced, and it is no older than the link,
\* or the link was dropped since the last tick and the next one will end the window.
WindowStory ==
    /\ view.visible
    /\ view.splashLeft > 0 => ~vib.linkRestorePending
    /\ ~Connected => upFor = 0
    /\ vib.linkRestorePending =>
         /\ vib.lastSystemEvent = "LINK_LOST"
         /\ vib.stableFor <= upFor \/ Dropped

\* The inductive invariant of the refinement.
EpisodeInvariant == WatchTypeOK /\ LinkStory /\ WindowStory

\* What a step may do to the episode: an abstract step, or nothing.
EpisodeStep == [Episode!EpisodeNext]_Episode!episodeVars

\* Both modules count the ticks of a link alike.
LEMMA OneMoreIsCapped ==
    ASSUME NEW n \in 0..LinkStable
    PROVE  Episode!OneMore(n) = Capped(n + 1, LinkStable)
BY ViewNumbers DEF Episode!OneMore, Capped

\* A tick in which the link stays what it is and nothing is announced.
LEMMA QuietTick ==
    ASSUME upFor \in 0..LinkStable, ~Connected => upFor = 0,
           Connected' = Connected,
           upFor' = IF Connected' THEN Capped(upFor + 1, LinkStable) ELSE 0,
           vib'.lastSystemEvent = vib.lastSystemEvent
    PROVE  EpisodeStep
<1>1. CASE Connected
  <2>1. upFor' = Episode!OneMore(upFor)
    BY <1>1, OneMoreIsCapped
  <2>2. Episode!Hold
    BY <1>1, <2>1 DEF Episode!Hold
  <2> QED
    BY <2>2 DEF EpisodeStep, Episode!EpisodeNext
<1>2. CASE ~Connected
  BY <1>2 DEF EpisodeStep, Episode!episodeVars
<1> QED
  BY <1>1, <1>2

\* While the splash is shown no window is measured.
LEMMA SplashKeepsEpisode ==
    ASSUME "stop" \notin Faults, EpisodeInvariant, SplashTick,
           upFor' = IF Connected' THEN Capped(upFor + 1, LinkStable) ELSE 0
    PROVE  LinkStory' /\ WindowStory' /\ EpisodeStep
<1>0. /\ BleTypeOK /\ LinkStory /\ WindowStory
      /\ view \in View /\ vib \in Haptics /\ upFor \in 0..LinkStable
  BY DEF EpisodeInvariant, WatchTypeOK
<1>1. LinkStory' /\ Connected' = Connected
  <2>1. CASE Start
    BY <1>0, <2>1, TickTellsLinkStory
  <2>2. CASE UNCHANGED bleVars
    BY <1>0, <2>2 DEF bleVars, LinkStory, NotStarted, Connected
  <2> QED
    BY <2>1, <2>2 DEF SplashTick
<1>2. view'.visible /\ ~vib.linkRestorePending
  BY <1>0 DEF SplashTick, WindowStory, View
<1>3. vib'.lastSystemEvent = vib.lastSystemEvent /\ ~vib'.linkRestorePending
  BY <1>0, <1>2, HapticTimePassesContract DEF SplashTick
<1>4. ~Connected => upFor = 0
  BY <1>0 DEF WindowStory
<1>5. EpisodeStep
  BY <1>0, <1>1, <1>3, <1>4, QuietTick
<1> QED
  BY <1>1, <1>2, <1>3, <1>5 DEF WindowStory

\* The tick that ends a window is one with which the link has been up for all of it.
LEMMA TimerKeepsEpisode ==
    ASSUME "stop" \notin Faults, EpisodeInvariant, TimerTick,
           upFor' = IF Connected' THEN Capped(upFor + 1, LinkStable) ELSE 0
    PROVE  LinkStory' /\ WindowStory' /\ EpisodeStep
<1> DEFINE measured == HapticTimePasses(vib)
           healthy == LinkHealthy(src')
<1>0. /\ BleTypeOK /\ LinkStory /\ WindowStory
      /\ view \in View /\ vib \in Haptics /\ upFor \in 0..LinkStable
  BY DEF EpisodeInvariant, WatchTypeOK
<1>1. LinkStory' /\ Connected' = Connected
  BY <1>0, TickTellsLinkStory DEF TimerTick
<1>2. view'.visible /\ view'.splashLeft = 0
  BY <1>0, ViewTimePassesContract, UpdatePriorityAlertContract, SyncLiveBleAlertContract
     DEF TimerTick
<1>3. /\ measured \in Haptics
      /\ measured.lastSystemEvent = vib.lastSystemEvent
      /\ measured.linkRestorePending = vib.linkRestorePending
      /\ measured.stableFor = IF vib.linkRestorePending /\ vib.stableFor < LinkStable
                              THEN vib.stableFor + 1 ELSE vib.stableFor
  BY <1>0, HapticTimePassesContract
<1>4. vib' = ServiceLinkRestored(measured, healthy) /\ healthy \in BOOLEAN
  BY DEF TimerTick, LinkHealthy
<1> HIDE DEF measured
<1>5. healthy => Connected'
  BY <1>1 DEF LinkStory, LinkHealthy, HasExplicitDisconnect, IsLinkAlive, Connected, Quiet,
              AlertDiags
<1> HIDE DEF healthy
<1>6. /\ vib'.linkRestorePending => vib' = measured /\ healthy
      /\ \/ vib'.lastSystemEvent = measured.lastSystemEvent
         \/ /\ measured.linkRestorePending
            /\ healthy
            /\ measured.stableFor = LinkStable
            /\ ~vib'.linkRestorePending
            /\ vib'.lastSystemEvent = "LINK_RESTORED"
  BY <1>3, <1>4, ServiceLinkRestoredContract
<1>7. ~Connected => upFor = 0
  BY <1>0 DEF WindowStory
<1>8. ASSUME vib.linkRestorePending, healthy
      PROVE  /\ vib.lastSystemEvent = "LINK_LOST"
             /\ Connected
             /\ measured.stableFor <= upFor'
             /\ upFor' \in 0..LinkStable
  <2>1. Connected /\ vib.lastSystemEvent = "LINK_LOST" /\ vib.stableFor <= upFor
    BY <1>0, <1>1, <1>5, <1>8 DEF WindowStory, Dropped, Connected
  <2>2. vib.stableFor \in 0..LinkStable
    BY <1>0 DEF Haptics
  <2>3. upFor' = Capped(upFor + 1, LinkStable)
    BY <1>1, <2>1
  <2>4. measured.stableFor <= upFor' /\ upFor' \in 0..LinkStable
    BY <1>0, <1>3, <1>8, <2>1, <2>2, <2>3, ViewNumbers DEF Capped
  <2> QED
    BY <2>1, <2>4
<1>9. WindowStory'
  <2>1. ~Connected' => upFor' = 0
    OBVIOUS
  <2>2. vib'.linkRestorePending => vib'.lastSystemEvent = "LINK_LOST" /\ vib'.stableFor <= upFor'
    BY <1>3, <1>6, <1>8
  <2> QED
    BY <1>2, <2>1, <2>2 DEF WindowStory
<1>10. EpisodeStep
  <2>1. CASE vib'.lastSystemEvent = measured.lastSystemEvent
    BY <1>0, <1>1, <1>3, <1>7, <2>1, QuietTick
  <2>2. CASE /\ measured.linkRestorePending
             /\ healthy
             /\ measured.stableFor = LinkStable
             /\ vib'.lastSystemEvent = "LINK_RESTORED"
    <3>1. vib.lastSystemEvent = "LINK_LOST" /\ Connected /\ upFor' = LinkStable
      BY <1>3, <1>8, <2>2, ViewNumbers
    <3>2. upFor' = Episode!OneMore(upFor)
      BY <1>0, <1>1, <3>1, OneMoreIsCapped
    <3>3. Episode!AnnounceRestored
      BY <1>1, <2>2, <3>1, <3>2 DEF Episode!AnnounceRestored
    <3> QED
      BY <3>3 DEF EpisodeStep, Episode!EpisodeNext
  <2> QED
    BY <1>6, <2>1, <2>2
<1> QED
  BY <1>1, <1>9, <1>10

\* A redraw may announce a loss or begin a window.
LEMMA UpdateKeepsEpisode ==
    ASSUME EpisodeInvariant, OnUpdate, upFor' = IF Connected' THEN upFor ELSE 0
    PROVE  LinkStory' /\ WindowStory' /\ EpisodeStep
<1>0. /\ LinkStory /\ WindowStory
      /\ view \in View /\ vib \in Haptics /\ upFor \in 0..LinkStable
  BY DEF EpisodeInvariant, WatchTypeOK
<1>1. src' = src /\ stack' = stack
  BY DEF OnUpdate, bleVars
<1>2. LinkStory' /\ Connected' = Connected /\ Dropped' = Dropped
  BY <1>0, <1>1 DEF LinkStory, NotStarted, Connected, Dropped
<1>3. upFor' = upFor
  BY <1>0, <1>2 DEF WindowStory
<1>4. PICK outcome \in EngineOutcomes(view) :
        LET engine == UpdatePriorityAlert(view, src, outcome)
            first == engine.hasAlert /\ ~view.hasAlert
            seen == IF first THEN [engine EXCEPT !.validAge = 0, !.changed = FALSE]
                    ELSE engine
            state == GetOperationalState(seen, src)
        IN  /\ view' = [seen EXCEPT !.operationalState = state]
            /\ vib' = IF state = view.operationalState THEN vib
                      ELSE HandleLinkStateHaptic(vib, view.operationalState, state, src)
  BY DEF OnUpdate
<1> DEFINE engine == UpdatePriorityAlert(view, src, outcome)
           noted == [engine EXCEPT !.validAge = 0, !.changed = FALSE]
           seen == IF engine.hasAlert /\ ~view.hasAlert THEN noted ELSE engine
           state == GetOperationalState(seen, src)
<1>5. engine \in View /\ engine.visible = view.visible /\ engine.splashLeft = view.splashLeft
  BY <1>0, UpdatePriorityAlertContract
<1>6. /\ view' = [seen EXCEPT !.operationalState = state]
      /\ vib' = IF state = view.operationalState THEN vib
                ELSE HandleLinkStateHaptic(vib, view.operationalState, state, src)
  BY <1>4
<1> HIDE DEF engine
<1>7. noted \in View /\ noted.visible = view.visible /\ noted.splashLeft = view.splashLeft
  BY <1>5, ViewNumbers DEF View
<1> HIDE DEF noted
<1>8. seen \in View /\ seen.visible = view.visible /\ seen.splashLeft = view.splashLeft
  BY <1>5, <1>7
<1> HIDE DEF seen, state
<1>9. view'.visible /\ view'.splashLeft = 0
  BY <1>0, <1>6, <1>8 DEF OnUpdate, WindowStory, View
<1>10. /\ vib'.lastSystemEvent \in {vib.lastSystemEvent, "LINK_LOST"}
       /\ vib'.linkRestorePending =>
            \/ vib' = vib
            \/ vib'.stableFor = 0 /\ vib'.lastSystemEvent = "LINK_LOST"
  BY <1>0, <1>6, HandleLinkStateHapticContract
<1>11. WindowStory'
  <2>1. vib'.linkRestorePending =>
          /\ vib'.lastSystemEvent = "LINK_LOST"
          /\ vib'.stableFor <= upFor' \/ Dropped'
    BY <1>0, <1>2, <1>3, <1>10, ViewNumbers DEF WindowStory
  <2> QED
    BY <1>0, <1>2, <1>3, <1>9, <2>1 DEF WindowStory
<1>12. EpisodeStep
  <2>1. CASE vib'.lastSystemEvent = vib.lastSystemEvent
    BY <1>2, <1>3, <2>1 DEF EpisodeStep, Episode!episodeVars
  <2>2. CASE vib'.lastSystemEvent # vib.lastSystemEvent
    BY <1>2, <1>3, <1>10, <2>2 DEF EpisodeStep, Episode!EpisodeNext, Episode!AnnounceLost
  <2> QED
    BY <2>1, <2>2
<1> QED
  BY <1>2, <1>11, <1>12

\* A callback may make the link or drop it; a drop leaves a window to the next tick.
LEMMA CallbackKeepsEpisode ==
    ASSUME "stop" \notin Faults, EpisodeInvariant, BleCallback,
           upFor' = IF Connected' THEN upFor ELSE 0
    PROVE  LinkStory' /\ WindowStory' /\ EpisodeStep
<1>0. /\ BleTypeOK /\ LinkStory /\ WindowStory
      /\ view \in View /\ vib \in Haptics /\ upFor \in 0..LinkStable
  BY DEF EpisodeInvariant, WatchTypeOK
<1>1. DropsAreSeen
  BY <1>0, CallbackTellsLinkStory DEF BleCallback
<1>2. vib' = vib /\ view'.visible = view.visible /\ view'.splashLeft = view.splashLeft
  BY <1>0 DEF BleCallback, View
<1>3. LinkStory' /\ (Connected /\ ~Connected' => Dropped') /\ (Dropped => Dropped')
  BY <1>1 DEF DropsAreSeen
<1>4. ~Connected => upFor = 0
  BY <1>0 DEF WindowStory
<1>5. vib'.linkRestorePending =>
        /\ vib'.lastSystemEvent = "LINK_LOST"
        /\ vib'.stableFor <= upFor' \/ Dropped'
  BY <1>0, <1>2, <1>3, <1>4 DEF WindowStory
<1>6. WindowStory'
  BY <1>0, <1>2, <1>5 DEF WindowStory
<1>7. EpisodeStep
  <2>1. CASE Connected /\ ~Connected'
    BY <1>2, <2>1 DEF EpisodeStep, Episode!EpisodeNext, Episode!LinkDown
  <2>2. CASE ~Connected /\ Connected'
    BY <1>2, <1>4, <2>2 DEF EpisodeStep, Episode!EpisodeNext, Episode!LinkUp
  <2>3. CASE Connected /\ Connected'
    BY <1>2, <2>3 DEF EpisodeStep, Episode!episodeVars
  <2>4. CASE ~Connected /\ ~Connected'
    <3>1. Connected' = Connected
      BY <2>4 DEF Connected
    <3>2. upFor' = upFor /\ vib'.lastSystemEvent = vib.lastSystemEvent
      BY <1>2, <1>4, <2>4
    <3> QED
      BY <3>1, <3>2 DEF EpisodeStep, Episode!episodeVars
  <2> QED
    BY <2>1, <2>2, <2>3, <2>4
<1> QED
  BY <1>3, <1>6, <1>7

\* Every step keeps the invariant and is a step of the episodes, or none.
LEMMA WatchImplementsEpisodes ==
    ASSUME MayHide = FALSE, "stop" \notin Faults
    PROVE  EpisodeInvariant /\ [WatchNext]_watchVars => EpisodeInvariant' /\ EpisodeStep
<1> SUFFICES ASSUME EpisodeInvariant, [WatchNext]_watchVars
             PROVE  LinkStory' /\ WindowStory' /\ EpisodeStep
  BY WatchTypeStep DEF EpisodeInvariant
<1>0. view.visible
  BY DEF EpisodeInvariant, WindowStory
<1>1. CASE ClockStep /\ upFor' = IF Connected' THEN Capped(upFor + 1, LinkStable) ELSE 0
  BY <1>0, <1>1, SplashKeepsEpisode, TimerKeepsEpisode DEF ClockStep, HiddenTime
<1>2. CASE OtherStep /\ upFor' = IF Connected' THEN upFor ELSE 0
  BY <1>0, <1>2, UpdateKeepsEpisode, CallbackKeepsEpisode DEF OtherStep, OnHide, OnShow
<1>3. CASE UNCHANGED watchVars
  BY <1>3 DEF watchVars, EpisodeInvariant, LinkStory, NotStarted, WindowStory, Connected, Dropped,
              EpisodeStep, Episode!episodeVars
<1> QED
  BY <1>1, <1>2, <1>3 DEF WatchNext

\* The link rhythms of a view that stays on screen come in episodes, for every window and
\* whatever the stack delivers late and whatever call fails but setScanState(OFF), after which
\* a second device may be paired over a link that is up: one LINK LOST, then nothing until LINK
\* RESTORED, and that only with a link up unbroken for the whole stability window
\* (serviceLinkRestored(), armLinkRestored(), cancelLinkRestored(), handleLinkStateHaptic()).
THEOREM RhythmsComeInEpisodes ==
    ASSUME MayHide = FALSE, "stop" \notin Faults
    PROVE  WatchSpec => EpisodeSpec
<1>1. WatchInit => EpisodeInvariant /\ Episode!EpisodeInit
  <2> SUFFICES ASSUME WatchInit PROVE EpisodeInvariant /\ Episode!EpisodeInit
    OBVIOUS
  <2>1. WatchTypeOK
    BY InitialType, InitialWatch, ViewNumbers DEF WatchInit, BleInit, WatchTypeOK, BleTypeOK
  <2>2. ~Connected /\ LinkStory
    BY DEF WatchInit, BleInit, InitialSource, InitialStack, LinkStory, NotStarted, Connected,
           IsConnected, Quiet, AlertDiags
  <2>3. WindowStory /\ Episode!EpisodeInit
    BY <2>2 DEF WatchInit, InitialView, InitialHaptics, WindowStory, Episode!EpisodeInit
  <2> QED
    BY <2>1, <2>2, <2>3 DEF EpisodeInvariant
<1>2. EpisodeInvariant /\ [WatchNext]_watchVars
        => EpisodeInvariant' /\ [Episode!EpisodeNext]_Episode!episodeVars
  BY WatchImplementsEpisodes DEF EpisodeStep
<1> QED
  BY <1>1, <1>2, PTL DEF WatchSpec, EpisodeSpec, Episode!EpisodeSpec
=============================================================================
