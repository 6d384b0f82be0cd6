--------------------------- MODULE BleAlertSource ---------------------------
(***************************************************************************)
(* The watch's BLE client, garmin-app/source/BleAlertSource.mc, together   *)
(* with the Connect IQ BLE stack that calls it back.                       *)
(*                                                                         *)
(* The fields of the class are the record src; each method that changes    *)
(* them is an operator from record to record with the method's name, so a  *)
(* callback is the composition of the calls it makes, in their order.  The *)
(* stack is external: stack holds what the code can observe of it.         *)
(*                                                                         *)
(* Time.  _uptimeMs only ever appears in differences, so the record keeps  *)
(* ages and countdowns in timer ticks instead: activityAge is              *)
(* getBridgeActivityAgeMs(), reconnectIn is _reconnectAtMs - _uptimeMs and *)
(* diagElapsed is _diagElapsedMs while a stage that can time out is shown. *)
(* Each saturates one past the largest value the code compares it with.    *)
(*                                                                         *)
(* phase stands for the four lifecycle flags: setLifecycleFlags() is only  *)
(* ever called with the five combinations named in Phases.  latches is the *)
(* set of hasEver* latches that are set.  _bleStatus is determined by      *)
(* _diagState and left out, as are the fields that are only logged.        *)
(***************************************************************************)
EXTENDS Naturals, FiniteSets

CONSTANTS
    Devices,        \* handles pairDevice() may return, one per workarea slot
    NoDevice,       \* null
    ReconnectMin,   \* BLE_RECONNECT_MIN_MS, in ticks
    ReconnectMax,   \* BLE_RECONNECT_MAX_MS
    StageTimeout,   \* BLE_STAGE_TIMEOUT_MS
    LinkLostAfter,  \* LINK_LOST_MS, the age getOperationalState() compares with
    Faults,         \* which calls into the stack may fail, and how the peer may
    Late            \* callbacks the stack may still deliver after a disconnect

\* stop: setScanState(OFF) throws; unpair: unpairDevice() throws.  The code logs
\* both and goes on.
FaultKinds == {"scan", "stop", "pair", "unpair", "discover", "write", "parse", "vanish"}
LateKinds == {"write", "notify"}

ASSUME TimesAssumption ==
    /\ ReconnectMin \in Nat \ {0}
    /\ ReconnectMax \in Nat
    /\ ReconnectMin <= ReconnectMax
    /\ StageTimeout \in Nat \ {0}
    /\ LinkLostAfter \in Nat
ASSUME DevicesAssumption == Devices # {} /\ NoDevice \notin Devices
ASSUME EnvironmentAssumption == Faults \subseteq FaultKinds /\ Late \subseteq LateKinds

VARIABLES
    src,    \* the BleAlertSource object
    stack   \* the Connect IQ BLE stack and the radio link to the bridge

bleVars == <<src, stack>>

Phases == {"none", "scanning", "connecting", "connected", "subscribed"}
States == {"SCANNING", "CONNECTING", "CONNECTED", "DISCONNECTED", "SIGNAL_LOST"}
Stages == {"SCAN", "REG", "FOUND", "CONN", "SVC", "CHAR", "SUB", "RX"}
TimedDiags == {"CONN", "SVC", "CHAR", "SUB"}
LinkDiags == TimedDiags \cup {"SUB_WAIT", "RX"}
ErrorDiags == {"ERR_SCAN", "ERR_FOUND", "ERR_CONN", "ERR_SVC", "ERR_CHAR",
               "ERR_SUB", "NOTIFY_ERR", "DISC"}
Diags == {"INIT", "REG", "SCAN", "FOUND"} \cup LinkDiags \cup ErrorDiags
Latches == {"FOUND", "CONNECTED", "SUBSCRIBED"}

Source == [
    enabled: BOOLEAN,
    phase: Phases,
    state: States,
    diagState: Diags,
    diagElapsed: 0..StageTimeout,
    timeoutLogged: BOOLEAN,                 \* _rxTimeoutLogged
    lastBleStage: Stages,
    latches: SUBSET Latches,
    activityAge: 0..(LinkLostAfter + 1),
    explicitDisconnectSeen: BOOLEAN,
    hasLatestAlert: BOOLEAN,
    lastParseOk: BOOLEAN,
    device: Devices \cup {NoDevice},
    characteristic: BOOLEAN,                \* _alertCharacteristic # null
    pendingUnpair: Devices \cup {NoDevice}, \* _devicePendingUnpair
    reconnectPending: BOOLEAN,
    reconnectIn: 0..ReconnectMax,
    reconnectDelay: ReconnectMin..ReconnectMax]

Links == {"idle", "pairing", "up", "gone"}    \* gone: the peer vanished unreported
Writes == {"off", "pending", "on"}            \* the CCCD write and its effect

\* link, peer and cccd are those of the device the stack talks of now.  A second
\* device is paired beside a first only when a scan could not be stopped; the
\* links set aside for it are the rivals.
Stack == [
    link: Links,
    peer: Devices \cup {NoDevice},            \* the device paired last
    slots: SUBSET Devices,                    \* workarea slots held by paired devices
    radio: BOOLEAN,                           \* the radio scans
    cccd: Writes,
    rivals: SUBSET [peer: Devices \cup {NoDevice}, link: Links, cccd: Writes],
    failed: SUBSET {"stop", "unpair"}]        \* history: the failures passed over

InitialSource == [
    enabled |-> FALSE, phase |-> "none", state |-> "DISCONNECTED",
    diagState |-> "SCAN", diagElapsed |-> 0, timeoutLogged |-> FALSE,
    lastBleStage |-> "SCAN", latches |-> {}, activityAge |-> 0,
    explicitDisconnectSeen |-> FALSE, hasLatestAlert |-> FALSE,
    lastParseOk |-> FALSE, device |-> NoDevice, characteristic |-> FALSE,
    pendingUnpair |-> NoDevice, reconnectPending |-> FALSE, reconnectIn |-> 0,
    reconnectDelay |-> ReconnectMin]

InitialStack == [link |-> "idle", peer |-> NoDevice, slots |-> {}, radio |-> FALSE,
                 cccd |-> "off", rivals |-> {}, failed |-> {}]

-----------------------------------------------------------------------------
(* What the rest of the watch reads.                                        *)

IsConnected(s) == s.phase \in {"connected", "subscribed"}
IsSubscribed(s) == s.phase = "subscribed"

HasExplicitDisconnect(s) == s.explicitDisconnectSeen \/ s.state = "SIGNAL_LOST"

IsLinkAlive(s) ==
    /\ ~HasExplicitDisconnect(s)
    /\ \/ IsConnected(s)
       \/ s.state = "CONNECTED"
       \/ s.diagState \in {"SUB", "SUB_WAIT", "RX"}

IsPostSubscribeState(s) == IsSubscribed(s) \/ s.diagState \in {"SUB_WAIT", "RX"}

CanProcessScanCallback(s) ==
    /\ s.latches = {}
    /\ s.phase \in {"none", "scanning"}
    /\ s.diagState \notin LinkDiags

CanSetScanError(s) ==
    /\ CanProcessScanCallback(s)
    /\ \/ s.lastBleStage \in {"SCAN", "REG"}
       \/ s.diagState \in {"INIT", "REG", "SCAN"}

-----------------------------------------------------------------------------
(* State and error bookkeeping.                                             *)

StageOfDiag(d, stage) ==
    IF d = "SUB_WAIT" THEN "SUB" ELSE IF d \in Stages THEN d ELSE stage

ErrorLabelForStage(stage) ==
    CASE stage = "FOUND" -> "ERR_FOUND"
      [] stage = "SVC" -> "ERR_SVC"
      [] stage = "CHAR" -> "ERR_CHAR"
      [] stage = "SUB" -> "ERR_SUB"
      [] stage = "RX" -> "NOTIFY_ERR"
      [] OTHER -> "ERR_CONN"

SetDiagnosticState(s, d) ==
    IF s.diagState = d THEN s
    ELSE [s EXCEPT !.diagState = d, !.diagElapsed = 0, !.timeoutLogged = FALSE,
                   !.lastBleStage = StageOfDiag(d, @)]

SetBleState(s, state, d) == SetDiagnosticState([s EXCEPT !.state = state], d)

SignalLost(s, stage, label) ==
    SetDiagnosticState([s EXCEPT !.lastBleStage = stage, !.state = "SIGNAL_LOST"], label)

SetDisconnectError(s) == SignalLost(s, "CONN", "DISC")
SetRxTimeoutError(s) == SignalLost(s, "RX", "NOTIFY_ERR")
SetScanError(s) == IF CanSetScanError(s) THEN SignalLost(s, "SCAN", "ERR_SCAN") ELSE s

SetBleError(s, stage) ==
    IF stage \in {"SCAN", "REG"} THEN SetScanError(s)
    ELSE IF IsPostSubscribeState(s) /\ stage # "RX" THEN s
    ELSE IF stage = "CONN" /\ ~s.explicitDisconnectSeen THEN s
    ELSE IF stage = "CONN" /\ (IsSubscribed(s) \/ "SUBSCRIBED" \in s.latches)
         THEN SetDisconnectError(s)
    ELSE SignalLost(s, stage, ErrorLabelForStage(stage))

\* Fault variant: any activity, not only a decoded alert, shortens the backoff.
MarkActivityResetsBackoff(s) ==
    [s EXCEPT !.activityAge = 0, !.reconnectDelay = ReconnectMin]

MarkBridgeActivity(s) == [s EXCEPT !.activityAge = 0]

-----------------------------------------------------------------------------
(* Scanning, pairing, discovery.                                            *)

\* Fault variant: the flag survives a setScanState() that throws.
StartScanKeepsFlag(s, ok) ==
    IF ~s.enabled \/ s.phase # "none" THEN s
    ELSE LET scanning == SetBleState([s EXCEPT !.phase = "scanning"], "SCANNING", "SCAN")
         IN  IF ok THEN scanning ELSE SetScanError(scanning)

\* ok is FALSE when setScanState() throws.
StartScan(s, ok) ==
    IF ~s.enabled \/ s.phase # "none" THEN s
    ELSE LET scanning == SetBleState([s EXCEPT !.phase = "scanning"], "SCANNING", "SCAN")
         IN  IF ok THEN scanning ELSE SetScanError([scanning EXCEPT !.phase = "none"])

\* Only the outcome of the four Ble calls of start() is left to the stack.
StartSource(s, available, scanOk) ==
    LET init == SetDiagnosticState([s EXCEPT !.enabled = TRUE], "INIT")
    IN  IF available THEN StartScan(SetDiagnosticState(init, "REG"), scanOk)
                     ELSE SetScanError(init)

\* paired is the handle pairDevice() returned, NoDevice, or "throws".
ConnectToScanResult(s, paired) ==
    LET connecting ==
            SetBleState([s EXCEPT !.latches = @ \cup {"CONNECTED"},
                                  !.explicitDisconnectSeen = FALSE,
                                  !.activityAge = 0,
                                  !.phase = "connecting"], "CONNECTING", "CONN")
    IN  IF paired \in Devices THEN [connecting EXCEPT !.device = paired]
        ELSE SetBleError([connecting EXCEPT
                            !.phase = "none",
                            !.device = IF paired = NoDevice THEN NoDevice ELSE @], "CONN")

HandleScanResults(s, paired) ==
    ConnectToScanResult(
        SetDiagnosticState([s EXCEPT !.latches = @ \cup {"FOUND"}, !.phase = "none"], "FOUND"),
        paired)

HandleScanStateChange(s, ok) ==
    IF ~CanProcessScanCallback(s) THEN IF ok THEN s ELSE SetScanError(s)
    ELSE IF ok THEN [s EXCEPT !.phase = "scanning"]
    ELSE SetScanError([s EXCEPT !.phase = IF @ = "scanning" THEN "none" ELSE @])

\* failed names the call of the chain that fails or returns null, "none" if all
\* succeed.  The chain runs inside the CONNECTED callback.
SubscribeToAlertCharacteristic(s, failed) ==
    LET asked == MarkBridgeActivity([s EXCEPT !.latches = @ \cup {"SUBSCRIBED"}])
    IN  IF failed = "SUB" THEN SetBleError(asked, "SUB")
        ELSE SetDiagnosticState(asked, "SUB")

DiscoverAlertCharacteristic(s, failed) ==
    IF failed = "SVC" THEN SetBleError(s, "SVC")
    ELSE LET found == MarkBridgeActivity(SetDiagnosticState(s, "SVC"))
         IN  IF failed = "CHAR"
             THEN SetBleError([found EXCEPT !.characteristic = FALSE], "CHAR")
             ELSE SubscribeToAlertCharacteristic(
                    SetDiagnosticState([found EXCEPT !.characteristic = TRUE], "CHAR"), failed)

-----------------------------------------------------------------------------
(* Connection, notification and reconnection.                               *)

\* Fault variant: a duplicate CONNECTED is not recognised.
NeverEstablished(s) == FALSE

AlreadyEstablished(s) == IsConnected(s) /\ s.characteristic

HandleConnected(s, d, failed) ==
    LET held == [s EXCEPT !.device = d]
    IN  IF AlreadyEstablished(s) THEN held
        ELSE DiscoverAlertCharacteristic(
                SetBleState([held EXCEPT !.latches = @ \cup {"CONNECTED"},
                                         !.explicitDisconnectSeen = FALSE,
                                         !.activityAge = 0,
                                         !.phase = "connected"], "CONNECTED", "CONN"),
                failed)

\* Fault variant: the ceiling is missing.
Uncapped(n, limit) == n

Capped(n, limit) == IF n > limit THEN limit ELSE n

\* Fault variant: the dead device is dropped instead of queued for unpairing.
ScheduleReconnectLeaks(s) ==
    [s EXCEPT !.device = NoDevice,
              !.characteristic = FALSE,
              !.phase = "none",
              !.latches = {},
              !.timeoutLogged = FALSE,
              !.reconnectPending = TRUE,
              !.reconnectIn = s.reconnectDelay,
              !.reconnectDelay = Capped(2 * @, ReconnectMax)]

\* Fault variant: at the longest backoff the watch gives up.
ScheduleReconnectGivesUp(s) ==
    [s EXCEPT !.pendingUnpair = IF s.device # NoDevice THEN s.device ELSE @,
              !.device = NoDevice,
              !.characteristic = FALSE,
              !.phase = "none",
              !.latches = {},
              !.timeoutLogged = FALSE,
              !.reconnectPending = s.reconnectDelay < ReconnectMax,
              !.reconnectIn = s.reconnectDelay,
              !.reconnectDelay = Capped(2 * @, ReconnectMax)]

ScheduleReconnect(s) ==
    LET reset == [s EXCEPT !.pendingUnpair = IF s.device # NoDevice THEN s.device ELSE @,
                           !.device = NoDevice,
                           !.characteristic = FALSE,
                           !.phase = "none",
                           !.latches = {},
                           !.timeoutLogged = FALSE]
    IN  IF ~s.enabled THEN reset
        ELSE [reset EXCEPT !.reconnectPending = TRUE,
                           !.reconnectIn = s.reconnectDelay,
                           !.reconnectDelay = Capped(2 * @, ReconnectMax)]

HandleDisconnected(s, d) ==
    LET down == [s EXCEPT !.device = d, !.explicitDisconnectSeen = TRUE, !.phase = "none"]
        shown == IF "SUBSCRIBED" \in s.latches \/ s.diagState = "SUB"
                 THEN SetDisconnectError(down)
                 ELSE SetBleError(down, "CONN")
    IN  ScheduleReconnect([shown EXCEPT !.characteristic = FALSE])

HandleDescriptorWrite(s, ok) ==
    IF ~ok THEN SetBleError(s, "SUB")
    ELSE SetDiagnosticState([s EXCEPT !.latches = @ \cup {"SUBSCRIBED"},
                                      !.activityAge = 0,
                                      !.phase = "subscribed"], "SUB_WAIT")

HandleByteParseError(s) ==
    SetBleError([s EXCEPT !.hasLatestAlert = FALSE, !.lastParseOk = FALSE], "RX")

AcceptAlert(s) ==
    SetBleState([s EXCEPT !.hasLatestAlert = TRUE, !.lastParseOk = TRUE,
                          !.reconnectDelay = ReconnectMin,
                          !.explicitDisconnectSeen = FALSE], "CONNECTED", "RX")

\* Fault variant: a notification in flight when the peer vanished is processed.
HandleCharacteristicChangedUnguarded(s, decodes) ==
    LET received == SetDiagnosticState([s EXCEPT !.activityAge = 0,
                                                 !.phase = "subscribed"], "RX")
    IN  IF decodes THEN AcceptAlert(received) ELSE HandleByteParseError(received)

HandleCharacteristicChanged(s, decodes) ==
    IF s.explicitDisconnectSeen THEN s
    ELSE LET received == SetDiagnosticState([s EXCEPT !.activityAge = 0,
                                                      !.phase = "subscribed"], "RX")
         IN  IF decodes THEN AcceptAlert(received) ELSE HandleByteParseError(received)

\* One tick passes for every age and countdown.
Elapse(s) ==
    [s EXCEPT !.activityAge = Capped(@ + 1, LinkLostAfter + 1),
              !.reconnectIn = IF @ > 0 THEN @ - 1 ELSE 0,
              !.diagElapsed = IF s.diagState \in TimedDiags
                              THEN Capped(@ + 1, StageTimeout) ELSE 0]

ReconnectDue(s) == s.enabled /\ s.reconnectPending /\ s.reconnectIn = 0

\* Fault variant: the request is consumed before the time is looked at.
ServiceReconnectConsumes(s, scanOk) ==
    IF ~ReconnectDue(s) THEN [s EXCEPT !.reconnectPending = FALSE]
    ELSE StartScan([s EXCEPT !.reconnectPending = FALSE, !.pendingUnpair = NoDevice], scanOk)

\* releasePendingDevice() swallows the exception unpairDevice() may raise.
ServiceReconnect(s, scanOk) ==
    IF ~ReconnectDue(s) THEN s
    ELSE StartScan([s EXCEPT !.reconnectPending = FALSE, !.pendingUnpair = NoDevice], scanOk)

StageTimedOut(s) ==
    s.diagState \in TimedDiags /\ s.diagElapsed >= StageTimeout /\ ~s.timeoutLogged

CheckStageTimeout(s) ==
    IF ~StageTimedOut(s) THEN s
    ELSE LET logged == [s EXCEPT !.timeoutLogged = TRUE]
         IN  IF s.diagState = "SUB" THEN SetRxTimeoutError(logged)
             ELSE SetBleError(logged, s.lastBleStage)

TickSource(s, scanOk) == CheckStageTimeout(ServiceReconnect(Elapse(s), scanOk))

-----------------------------------------------------------------------------
(* The stack's side: which callbacks it may deliver, and what it keeps.     *)

MayFail(kind) == IF kind \in Faults THEN BOOLEAN ELSE {TRUE}

Start ==
    /\ ~src.enabled
    /\ \E available, scanOk \in MayFail("scan") :
        /\ src' = StartSource(src, available, scanOk)
        /\ stack' = [stack EXCEPT !.radio = available /\ scanOk]

\* The failures passed over once a call that came back with ok is done.
Remember(kind, ok) == stack.failed \cup (IF ok THEN {} ELSE {kind})

\* AlertEngine.tick() -> tick(): a due reconnect unpairs the dead device, turns
\* the scan off and asks for a new one, which startScan() may decline.  A device
\* whose unpairing throws keeps its slot, and nothing names it any more; a scan
\* that cannot be turned off goes on.
SourceTick ==
    /\ src.enabled
    /\ \E scanOk \in MayFail("scan"), unpaired \in MayFail("unpair"), stopped \in MayFail("stop") :
        /\ src' = TickSource(src, scanOk)
        /\ IF ~ReconnectDue(Elapse(src))
           THEN unpaired /\ stopped /\ UNCHANGED stack
           ELSE /\ ~unpaired => src.pendingUnpair # NoDevice
                /\ ~stopped => stack.radio
                /\ stack' = [stack EXCEPT
                     !.slots = IF unpaired THEN @ \ {src.pendingUnpair} ELSE @,
                     !.radio = (src.phase = "none" /\ scanOk) \/ ~stopped,
                     !.failed = Remember("unpair", unpaired) \cup Remember("stop", stopped)]

\* pairDevice() gives a slot that is free; it fails when none is.
PairOutcomes ==
    (Devices \ stack.slots)
        \cup (IF "pair" \in Faults \/ Devices \subseteq stack.slots
              THEN {NoDevice, "throws"} ELSE {})

\* The link the stack talks of now, if there is one to come back to.
Aside ==
    IF stack.link = "idle" /\ stack.cccd = "off" THEN {}
    ELSE {[peer |-> stack.peer, link |-> stack.link, cccd |-> stack.cccd]}

\* A scan result that matches the bridge.  handleScanResults() does not look at
\* the phase: that no result is delivered once the scan is off is the stack's.
\* stopScanForConnect() goes on to pair when the scan cannot be stopped, so that
\* the next result pairs again, over whatever link there is by then.
OnScanResults ==
    /\ stack.radio
    /\ \E paired \in PairOutcomes, stopped \in MayFail("stop") :
        /\ src' = HandleScanResults(src, paired)
        /\ stack' =
             LET scanned == [stack EXCEPT !.radio = ~stopped,
                                          !.cccd = IF stack.link = "idle" THEN "off" ELSE @,
                                          !.failed = Remember("stop", stopped)]
             IN  IF paired \notin Devices THEN scanned
                 ELSE [scanned EXCEPT
                        !.link = "pairing", !.peer = paired, !.slots = @ \cup {paired},
                        !.cccd = "off",
                        !.rivals = @ \cup (IF stack.link = "idle" THEN {} ELSE Aside)]

\* With two devices paired the next callback may be the other one's.
ServesOther ==
    /\ \E r \in stack.rivals :
        stack' = [stack EXCEPT !.peer = r.peer, !.link = r.link, !.cccd = r.cccd,
                               !.rivals = (@ \ {r}) \cup Aside]
    /\ UNCHANGED src

OnScanStateChange ==
    /\ stack.radio
    /\ \E ok \in MayFail("scan") :
        /\ src' = HandleScanStateChange(src, ok)
        /\ stack' = [stack EXCEPT !.radio = ok]

Failures == {"none"} \cup (IF "discover" \in Faults THEN {"SVC", "CHAR", "SUB"} ELSE {})

\* CONNECTED: first for a device being paired, then possibly again, also for a
\* peer that has vanished (two CONNECTED and no disconnect seen on hardware).
OnConnected ==
    /\ stack.link # "idle"
    /\ \E failed \in Failures :
        /\ src' = HandleConnected(src, stack.peer, failed)
        /\ stack' = [stack EXCEPT
             !.link = IF @ = "pairing" THEN "up" ELSE @,
             !.cccd = IF ~AlreadyEstablished(src) /\ failed = "none" THEN "pending" ELSE @]

\* What a disconnect leaves in flight: the answer to the CCCD write, or a
\* notification; both are gone by the time the next device is to be paired.
InFlight(cccd) == (cccd = "pending" /\ "write" \in Late) \/ (cccd = "on" /\ "notify" \in Late)

OnDisconnected ==
    /\ stack.link # "idle"
    /\ src' = HandleDisconnected(src, stack.peer)
    /\ stack' = [stack EXCEPT !.link = "idle",
                              !.cccd = IF InFlight(@) THEN @ ELSE "off"]

OnDescriptorWrite ==
    /\ stack.cccd = "pending"
    /\ \E ok \in MayFail("write") :
        /\ ok => stack.link # "gone"
        /\ src' = HandleDescriptorWrite(src, ok)
        /\ stack' = [stack EXCEPT !.cccd = IF ok /\ stack.link = "up" THEN "on" ELSE "off"]

OnCharacteristicChanged ==
    /\ stack.link # "gone" /\ stack.cccd = "on"
    /\ \E decodes \in MayFail("parse") : src' = HandleCharacteristicChanged(src, decodes)
    /\ UNCHANGED stack

\* The bridge is reset or loses power and the stack reports nothing.
PeerVanishes ==
    /\ "vanish" \in Faults
    /\ stack.link = "up"
    /\ stack' = [stack EXCEPT !.link = "gone"]
    /\ UNCHANGED src

-----------------------------------------------------------------------------
LinkCallback ==
    \/ OnScanResults
    \/ OnScanStateChange
    \/ OnConnected
    \/ OnDisconnected
    \/ OnDescriptorWrite
    \/ PeerVanishes
    \/ ServesOther

BleInit == src = InitialSource /\ stack = InitialStack

BleNext == Start \/ SourceTick \/ LinkCallback \/ OnCharacteristicChanged

BleSpec == BleInit /\ [][BleNext]_bleVars

\* The timer keeps ticking and an advertising bridge is found.  Nothing makes a
\* link drop, and a bridge in range that is paired again and again connects in
\* the end, on a link that lasts until the CCCD write is answered.
Pairs == OnConnected /\ stack.link = "pairing"

BleFairness ==
    /\ WF_bleVars(Start)
    /\ WF_bleVars(SourceTick)
    /\ WF_bleVars(OnScanResults)
    /\ SF_bleVars(Pairs)
    /\ SF_bleVars(OnDescriptorWrite)

BleFairSpec == BleSpec /\ BleFairness

-----------------------------------------------------------------------------
(* Properties.                                                              *)

\* Every field stays in the range the code gives it.
BleTypeOK == src \in Source /\ stack \in Stack

\* No setScanState(OFF) has thrown so far, and no unpairDevice().  The code logs
\* the exception and goes on as if the call had worked; nothing looks at it
\* again.  A scan that goes on pairs a second device, after which the flags of
\* one link speak of another; a device that stays paired keeps its slot for
\* good.  What is said of the link below is said until one of them happens.
ScanStops == "stop" \notin stack.failed
SlotsFreed == "unpair" \notin stack.failed

\* A workarea slot the stack holds is always one the source can still name and
\* so unpair, and there is never a second one: pairDevice() with the old slot
\* still held is what scheduleReconnect() and releasePendingDevice() are there
\* to prevent, over any sequence of drops, reconnects and duplicate callbacks.
NoWorkareaLeak ==
    ScanStops /\ SlotsFreed =>
        /\ stack.slots \subseteq {src.device, src.pendingUnpair}
        /\ Cardinality(stack.slots) <= 1

\* The source believes it is scanning exactly when the radio is: were the flag
\* left set, startScan() would decline every later scan as a repeat.
ScanningMatchesRadio == ScanStops => (src.phase = "scanning" <=> stack.radio)

\* isLinkAlive() is never true of a link the stack does not have.
AliveMeansLink == ScanStops /\ IsLinkAlive(src) => stack.link \in {"up", "gone"}

\* A started source without a link is on its way to one: a rescan is armed or
\* running.  This is what makes recovery from a drop automatic.
NeverStranded ==
    src.enabled /\ stack.link = "idle" => src.reconnectPending \/ stack.radio

\* Subscribed implies the characteristic is in hand, which is what makes a
\* duplicate CONNECTED recognisable as one.
SubscribedHasCharacteristic == ScanStops /\ IsSubscribed(src) => src.characteristic

\* The backoff gets shorter only with an alert that decoded on a live link;
\* connecting or subscribing is not enough.
BackoffResetNeedsAlert ==
    [][ScanStops /\ src'.reconnectDelay < src.reconnectDelay =>
            src'.lastParseOk /\ stack.link = "up" /\ src'.reconnectDelay = ReconnectMin]_bleVars

\* What ties the client to the stack, by the state of the link.  Each part says
\* what the others need of it; together they are inductive as long as the stack
\* delivers no answer to a CCCD write after the disconnect.
AlertDiags == {"SUB", "SUB_WAIT", "RX"}

NotStarted == ~src.enabled => src = InitialSource /\ stack = InitialStack

IdleLink ==
    stack.link = "idle" =>
        /\ src.phase \in {"none", "scanning"}
        /\ src.device = NoDevice
        /\ SlotsFreed => stack.slots \subseteq {src.pendingUnpair}
        /\ src.explicitDisconnectSeen \/ (src.state # "CONNECTED" /\ src.diagState \notin AlertDiags)
        /\ stack.cccd # "pending"
        /\ stack.cccd = "on" => src.explicitDisconnectSeen

HeldLink ==
    stack.link # "idle" =>
        /\ src.enabled
        /\ stack.peer \in Devices
        /\ src.device = stack.peer
        /\ SlotsFreed => stack.slots = {stack.peer}

PairingLink ==
    stack.link = "pairing" =>
        /\ src.phase = "connecting"
        /\ src.state # "CONNECTED"
        /\ src.diagState \notin AlertDiags
        /\ stack.cccd = "off"

LiveLink ==
    stack.link \in {"up", "gone"} =>
        /\ IsConnected(src)
        /\ stack.cccd # "off" \/ IsSubscribed(src) => src.characteristic

Scanning ==
    /\ src.phase = "scanning" <=> stack.radio
    /\ stack.radio =>
        /\ src.enabled
        /\ stack.link = "idle"
        /\ SlotsFreed => stack.slots = {}
        /\ src.latches = {}
        /\ src.diagState = "SCAN"

Waiting ==
    src.reconnectPending =>
        /\ src.enabled
        /\ stack.link = "idle"
        /\ src.phase = "none"
        /\ src.latches = {}

OneLink ==
    /\ stack.rivals = {}
    /\ IdleLink
    /\ HeldLink
    /\ PairingLink
    /\ LiveLink
    /\ Scanning
    /\ Waiting

\* The invariant the safety properties above follow from.
LinkInvariant == BleTypeOK /\ NotStarted /\ (ScanStops => OneLink)

\* A drop that was reported is followed by a connection on which the watch is
\* subscribed to alerts again, as often as it happens.
ResubscribedAfterDrop == src.explicitDisconnectSeen ~> IsSubscribed(src)
=============================================================================
