------------------------ MODULE BleAlertSource_proofs ------------------------
(***************************************************************************)
(* Theorems about the BLE client.  LinkInvariant is the inductive          *)
(* invariant: each part says what the others need of the link state, and   *)
(* the safety properties of BleAlertSource follow from it.  It is kept by  *)
(* every step if no answer to a CCCD write is delivered after the          *)
(* disconnect ("write" \notin Late): handleDescriptorWrite() would set the *)
(* flags of a link that is gone, and NeverStranded would fail.  What it    *)
(* says of the link it says until a setScanState(OFF) throws, and of the   *)
(* slots until an unpairDevice() does: the step lemmas below assume that   *)
(* none has by the end of the step (StillOne).                             *)
(*                                                                         *)
(* First what each method of the client promises, whatever the constants:  *)
(* the fields it leaves alone, the ones it sets, and that the record stays *)
(* in range.  One lemma per method, proved from those of the methods it    *)
(* calls; the steps use nothing else of them.                              *)
(***************************************************************************)
EXTENDS BleAlertSource, FiniteSetTheorems, TLAPS

-----------------------------------------------------------------------------
(* The methods.                                                             *)

\* t differs from s at most in what the diagnostics show.
Kept(s, t) ==
    /\ t.enabled = s.enabled
    /\ t.phase = s.phase
    /\ t.latches = s.latches
    /\ t.activityAge = s.activityAge
    /\ t.explicitDisconnectSeen = s.explicitDisconnectSeen
    /\ t.hasLatestAlert = s.hasLatestAlert
    /\ t.lastParseOk = s.lastParseOk
    /\ t.device = s.device
    /\ t.characteristic = s.characteristic
    /\ t.pendingUnpair = s.pendingUnpair
    /\ t.reconnectPending = s.reconnectPending
    /\ t.reconnectIn = s.reconnectIn
    /\ t.reconnectDelay = s.reconnectDelay

\* The diagnostics now show state and d.
Shown(s, t, state, d) ==
    t \in Source /\ Kept(s, t) /\ t.state = state /\ t.diagState = d

\* What a method that reports an error does.
ErrorOrSame(s, t) ==
    /\ t \in Source
    /\ Kept(s, t)
    /\ t = s \/ (t.state = "SIGNAL_LOST" /\ t.diagState \in ErrorDiags)

\* The bounds of the saturating counters contain their reset values.
LEMMA Zero ==
    /\ 0 \in 0..StageTimeout
    /\ 0 \in 0..(LinkLostAfter + 1)
    /\ 0 \in 0..ReconnectMax
    /\ ReconnectMin \in ReconnectMin..ReconnectMax
    /\ ReconnectMin \in Nat
    /\ ReconnectMax \in Nat
BY TimesAssumption

\* updateLastBleStage() always leaves a stage.
LEMMA StageOfDiagType ==
    ASSUME NEW d, NEW stage \in Stages
    PROVE  StageOfDiag(d, stage) \in Stages
BY DEF StageOfDiag, Stages

\* errorLabelForStage() only answers error labels.
LEMMA ErrorLabelType ==
    ASSUME NEW stage
    PROVE  ErrorLabelForStage(stage) \in ErrorDiags
BY DEF ErrorLabelForStage, ErrorDiags

\* An error label is a diagnostic state.
LEMMA ErrorDiagsAreDiags == ErrorDiags \subseteq Diags
BY DEF Diags

\* setDiagnosticState() shows the new state and touches nothing of the link.
LEMMA SetDiagnosticStateContract ==
    ASSUME NEW s \in Source, NEW d \in Diags
    PROVE  Shown(s, SetDiagnosticState(s, d), s.state, d)
<1> DEFINE new == [s EXCEPT !.diagState = d, !.diagElapsed = 0, !.timeoutLogged = FALSE,
                            !.lastBleStage = StageOfDiag(d, @)]
<1>1. s.lastBleStage \in Stages
  BY DEF Source
<1>2. StageOfDiag(d, s.lastBleStage) \in Stages
  BY <1>1, StageOfDiagType
<1>3. new \in Source /\ Kept(s, new) /\ new.state = s.state /\ new.diagState = d
  BY <1>2, Zero DEF Source, Kept
<1>4. CASE s.diagState = d
  BY <1>4 DEF SetDiagnosticState, Shown, Kept
<1>5. CASE s.diagState # d
  BY <1>3, <1>5 DEF SetDiagnosticState, Shown
<1> QED
  BY <1>4, <1>5

\* setBleState() shows both states and touches nothing of the link.
LEMMA SetBleStateContract ==
    ASSUME NEW s \in Source, NEW state \in States, NEW d \in Diags
    PROVE  Shown(s, SetBleState(s, state, d), state, d)
<1> DEFINE base == [s EXCEPT !.state = state]
<1>1. base \in Source /\ Kept(s, base) /\ base.state = state
  BY DEF Source, Kept
<1>2. Shown(base, SetDiagnosticState(base, d), base.state, d)
  BY <1>1, SetDiagnosticStateContract
<1> QED
  BY <1>1, <1>2 DEF SetBleState, Shown, Kept

\* An error ends in SIGNAL_LOST under its label and touches nothing of the link.
LEMMA SignalLostContract ==
    ASSUME NEW s \in Source, NEW stage \in Stages, NEW d \in Diags
    PROVE  Shown(s, SignalLost(s, stage, d), "SIGNAL_LOST", d)
<1> DEFINE base == [s EXCEPT !.lastBleStage = stage, !.state = "SIGNAL_LOST"]
<1>1. base \in Source /\ Kept(s, base) /\ base.state = "SIGNAL_LOST"
  BY DEF Source, Kept, States
<1>2. Shown(base, SetDiagnosticState(base, d), base.state, d)
  BY <1>1, SetDiagnosticStateContract
<1> QED
  BY <1>1, <1>2 DEF SignalLost, Shown, Kept

\* setScanError() is an error or is ignored.
LEMMA SetScanErrorContract ==
    ASSUME NEW s \in Source
    PROVE  ErrorOrSame(s, SetScanError(s))
<1>1. Shown(s, SignalLost(s, "SCAN", "ERR_SCAN"), "SIGNAL_LOST", "ERR_SCAN")
  BY SignalLostContract DEF Stages, Diags, ErrorDiags
<1> QED
  BY <1>1 DEF SetScanError, ErrorOrSame, Shown, Kept, ErrorDiags

\* setRxTimeoutError() is an error.
LEMMA SetRxTimeoutErrorContract ==
    ASSUME NEW s \in Source
    PROVE  ErrorOrSame(s, SetRxTimeoutError(s))
<1>1. Shown(s, SignalLost(s, "RX", "NOTIFY_ERR"), "SIGNAL_LOST", "NOTIFY_ERR")
  BY SignalLostContract DEF Stages, Diags, ErrorDiags
<1> QED
  BY <1>1 DEF SetRxTimeoutError, ErrorOrSame, Shown, ErrorDiags

\* setDisconnectError() is an error.
LEMMA SetDisconnectErrorContract ==
    ASSUME NEW s \in Source
    PROVE  ErrorOrSame(s, SetDisconnectError(s))
<1>1. Shown(s, SignalLost(s, "CONN", "DISC"), "SIGNAL_LOST", "DISC")
  BY SignalLostContract DEF Stages, Diags, ErrorDiags
<1> QED
  BY <1>1 DEF SetDisconnectError, ErrorOrSame, Shown, ErrorDiags

\* setBleError() is an error or is ignored, whatever the stage.
LEMMA SetBleErrorContract ==
    ASSUME NEW s \in Source, NEW stage \in Stages
    PROVE  ErrorOrSame(s, SetBleError(s, stage))
<1>1. ErrorOrSame(s, s)
  BY DEF ErrorOrSame, Kept
<1>2. Shown(s, SignalLost(s, stage, ErrorLabelForStage(stage)), "SIGNAL_LOST",
            ErrorLabelForStage(stage))
  BY SignalLostContract, ErrorLabelType, ErrorDiagsAreDiags
<1>3. ErrorOrSame(s, SignalLost(s, stage, ErrorLabelForStage(stage)))
  BY <1>2, ErrorLabelType DEF ErrorOrSame, Shown
<1> QED
  BY <1>1, <1>3, SetScanErrorContract, SetDisconnectErrorContract DEF SetBleError

\* Nothing the diagnostics show makes isLinkAlive() true.
Quiet(s) == s.state # "CONNECTED" /\ s.diagState \notin AlertDiags

\* No error makes the source claim a link.
LEMMA ErrorKeepsQuiet ==
    ASSUME NEW s, NEW t, ErrorOrSame(s, t), Quiet(s)
    PROVE  Quiet(t)
BY DEF ErrorOrSame, Quiet, ErrorDiags, AlertDiags

\* startScan() changes the phase only, sets it to scanning exactly when it was allowed to
\* and the stack accepted the scan, and never makes the source claim a link.
LEMMA StartScanContract ==
    ASSUME NEW s \in Source, NEW ok \in BOOLEAN
    PROVE  LET t == StartScan(s, ok)
           IN  /\ t \in Source
               /\ Kept([s EXCEPT !.phase = t.phase], t)
               /\ t.phase = IF s.enabled /\ s.phase = "none" /\ ok THEN "scanning" ELSE s.phase
               /\ s.phase = "none" /\ t.phase = "scanning" => t.diagState = "SCAN"
               /\ Quiet(s) => Quiet(t)
<1>1. CASE ~s.enabled \/ s.phase # "none"
  BY <1>1 DEF StartScan, Kept, Source
<1>2. CASE s.enabled /\ s.phase = "none"
  <2> DEFINE flagged == [s EXCEPT !.phase = "scanning"]
             scanning == SetBleState(flagged, "SCANNING", "SCAN")
             cleared == [scanning EXCEPT !.phase = "none"]
  <2>1. flagged \in Source /\ flagged.phase = "scanning"
    BY DEF Source, Phases
  <2>2. Shown(flagged, scanning, "SCANNING", "SCAN")
    BY <2>1, SetBleStateContract DEF States, Diags
  <2>3. scanning \in Source /\ scanning.phase = "scanning" /\ Quiet(scanning)
        /\ Kept([s EXCEPT !.phase = "scanning"], scanning) /\ scanning.diagState = "SCAN"
    BY <2>1, <2>2 DEF Shown, Kept, Quiet, AlertDiags
  <2>4. cleared \in Source /\ Kept(s, cleared) /\ Quiet(cleared)
    BY <1>2, <2>3 DEF Source, Phases, Kept, Quiet
  <2>5. ErrorOrSame(cleared, SetScanError(cleared))
    BY <2>4, SetScanErrorContract
  <2>6. CASE ok
    <3>1. StartScan(s, ok) = scanning
      BY <1>2, <2>6 DEF StartScan
    <3> QED
      BY <1>2, <2>3, <2>6, <3>1
  <2>7. CASE ~ok
    <3>1. StartScan(s, ok) = SetScanError(cleared)
      BY <1>2, <2>7 DEF StartScan
    <3>2. Kept(s, SetScanError(cleared)) /\ Quiet(SetScanError(cleared))
          /\ SetScanError(cleared) \in Source
      BY <2>4, <2>5, ErrorKeepsQuiet DEF ErrorOrSame, Kept
    <3>3. Kept([s EXCEPT !.phase = SetScanError(cleared).phase], SetScanError(cleared))
          /\ SetScanError(cleared).phase = "none"
      BY <1>2, <3>2 DEF Kept, Source
    <3> QED
      BY <1>2, <2>7, <3>1, <3>2, <3>3
  <2> QED
    BY <2>6, <2>7
<1> QED
  BY <1>1, <1>2

\* start() leaves every field in its range.
LEMMA StartSourceType ==
    ASSUME NEW s \in Source, NEW available \in BOOLEAN, NEW ok \in BOOLEAN
    PROVE  StartSource(s, available, ok) \in Source
<1> DEFINE init == SetDiagnosticState([s EXCEPT !.enabled = TRUE], "INIT")
           reg == SetDiagnosticState(init, "REG")
<1>1. [s EXCEPT !.enabled = TRUE] \in Source
  BY DEF Source
<1>2. init \in Source
  BY <1>1, SetDiagnosticStateContract DEF Diags, Shown
<1>3. reg \in Source
  BY <1>2, SetDiagnosticStateContract DEF Diags, Shown
<1>4. StartSource(s, available, ok) \in {StartScan(reg, ok), SetScanError(init)}
  BY DEF StartSource
<1> QED
  BY <1>2, <1>3, <1>4, StartScanContract, SetScanErrorContract DEF ErrorOrSame

\* start() on a source that has not run: enabled, scanning exactly when the scan began.
LEMMA StartSourceContract ==
    ASSUME NEW s \in Source, NEW available \in BOOLEAN, NEW ok \in BOOLEAN,
           s.phase = "none", s.state # "CONNECTED"
    PROVE  LET t == StartSource(s, available, ok)
           IN  /\ t \in Source
               /\ Kept([s EXCEPT !.enabled = TRUE, !.phase = t.phase], t)
               /\ t.phase = IF available /\ ok THEN "scanning" ELSE "none"
               /\ t.phase = "scanning" => t.diagState = "SCAN"
               /\ Quiet(t)
<1> DEFINE base == [s EXCEPT !.enabled = TRUE]
           init == SetDiagnosticState(base, "INIT")
           reg == SetDiagnosticState(init, "REG")
<1>1. base \in Source /\ base.phase = "none" /\ base.state = s.state /\ base.enabled
  BY DEF Source
<1>2. Shown(base, init, base.state, "INIT")
  BY <1>1, SetDiagnosticStateContract DEF Diags
<1>3. Shown(init, reg, init.state, "REG")
  BY <1>2, SetDiagnosticStateContract DEF Diags, Shown
<1>4. init \in Source /\ Kept(base, init) /\ Quiet(init) /\ init.phase = "none"
  BY <1>1, <1>2 DEF Shown, Quiet, AlertDiags, Kept
<1>5. reg \in Source /\ Kept(base, reg) /\ Quiet(reg) /\ reg.phase = "none" /\ reg.enabled
  BY <1>1, <1>2, <1>3 DEF Shown, Quiet, AlertDiags, Kept
<1>6. CASE available
  <2>1. StartSource(s, available, ok) = StartScan(reg, ok)
    BY <1>6 DEF StartSource
  <2> HIDE DEF reg, base
  <2>2. LET t == StartScan(reg, ok)
        IN  /\ t \in Source
            /\ Kept([reg EXCEPT !.phase = t.phase], t)
            /\ t.phase = IF ok THEN "scanning" ELSE "none"
            /\ t.phase = "scanning" => t.diagState = "SCAN"
            /\ Quiet(t)
    BY <1>5, StartScanContract
  <2>3. Kept([base EXCEPT !.phase = StartScan(reg, ok).phase], StartScan(reg, ok))
    BY <1>1, <1>5, <2>2 DEF Kept, Source
  <2> QED
    BY <1>6, <2>1, <2>2, <2>3 DEF base
<1>7. CASE ~available
  <2>1. StartSource(s, available, ok) = SetScanError(init)
    BY <1>7 DEF StartSource
  <2> HIDE DEF init
  <2>2. ErrorOrSame(init, SetScanError(init)) /\ Quiet(SetScanError(init))
    BY <1>4, SetScanErrorContract, ErrorKeepsQuiet
  <2>3. /\ Kept([s EXCEPT !.enabled = TRUE, !.phase = SetScanError(init).phase], SetScanError(init))
        /\ SetScanError(init).phase = "none"
    BY <1>1, <1>4, <2>2 DEF Kept, ErrorOrSame, Source
  <2> QED
    BY <1>7, <2>1, <2>2, <2>3 DEF ErrorOrSame
<1> QED
  BY <1>6, <1>7

\* connectToScanResult() holds the paired device while connecting, and nothing after a
\* pairing that failed.
LEMMA ConnectToScanResultContract ==
    ASSUME NEW s \in Source, NEW paired \in Devices \cup {NoDevice, "throws"}
    PROVE  LET t == ConnectToScanResult(s, paired)
           IN  /\ t \in Source
               /\ t.enabled = s.enabled
               /\ t.pendingUnpair = s.pendingUnpair
               /\ t.reconnectPending = s.reconnectPending
               /\ t.reconnectDelay = s.reconnectDelay
               /\ ~t.explicitDisconnectSeen
               /\ Quiet(t)
               /\ paired \in Devices => t.phase = "connecting" /\ t.device = paired
               /\ paired \notin Devices => t.phase = "none" /\ t.device \in {s.device, NoDevice}
<1> DEFINE base == [s EXCEPT !.latches = @ \cup {"CONNECTED"},
                             !.explicitDisconnectSeen = FALSE,
                             !.activityAge = 0,
                             !.phase = "connecting"]
           connecting == SetBleState(base, "CONNECTING", "CONN")
           given == [connecting EXCEPT !.device = paired]
           refused == [connecting EXCEPT !.phase = "none",
                                         !.device = IF paired = NoDevice THEN NoDevice ELSE @]
<1>1. /\ base \in Source
      /\ base.enabled = s.enabled
      /\ base.pendingUnpair = s.pendingUnpair
      /\ base.reconnectPending = s.reconnectPending
      /\ base.reconnectDelay = s.reconnectDelay
      /\ base.device = s.device
      /\ ~base.explicitDisconnectSeen
      /\ base.phase = "connecting"
  BY Zero DEF Source, Phases, Latches
<1> HIDE DEF base
<1>2. Shown(base, connecting, "CONNECTING", "CONN")
  BY <1>1, SetBleStateContract DEF States, Diags, LinkDiags, TimedDiags
<1>3. /\ connecting \in Source
      /\ connecting.enabled = s.enabled
      /\ connecting.pendingUnpair = s.pendingUnpair
      /\ connecting.reconnectPending = s.reconnectPending
      /\ connecting.reconnectDelay = s.reconnectDelay
      /\ connecting.device = s.device
      /\ ~connecting.explicitDisconnectSeen
      /\ connecting.phase = "connecting"
      /\ Quiet(connecting)
  BY <1>1, <1>2 DEF Shown, Kept, Quiet, AlertDiags
<1>4. CASE paired \in Devices
  <2>1. ConnectToScanResult(s, paired) = given
    BY <1>4 DEF ConnectToScanResult, base
  <2> HIDE DEF connecting
  <2> QED
    BY <1>3, <1>4, <2>1 DEF Source, Quiet
<1>5. CASE paired \notin Devices
  <2>1. ConnectToScanResult(s, paired) = SetBleError(refused, "CONN")
    BY <1>5 DEF ConnectToScanResult, base
  <2> HIDE DEF connecting
  <2>2. /\ refused \in Source
        /\ refused.enabled = s.enabled
        /\ refused.pendingUnpair = s.pendingUnpair
        /\ refused.reconnectPending = s.reconnectPending
        /\ refused.reconnectDelay = s.reconnectDelay
        /\ refused.device \in {s.device, NoDevice}
        /\ ~refused.explicitDisconnectSeen
        /\ refused.phase = "none"
        /\ Quiet(refused)
    BY <1>3 DEF Source, Quiet, Phases
  <2> HIDE DEF refused
  <2>3. ErrorOrSame(refused, SetBleError(refused, "CONN"))
    BY <2>2, SetBleErrorContract DEF Stages
  <2>4. Quiet(SetBleError(refused, "CONN"))
    BY <2>2, <2>3, ErrorKeepsQuiet
  <2> QED
    BY <1>5, <2>1, <2>2, <2>3, <2>4 DEF ErrorOrSame, Kept
<1> QED
  BY <1>4, <1>5

\* handleScanResults() does what connectToScanResult() does.
LEMMA HandleScanResultsContract ==
    ASSUME NEW s \in Source, NEW paired \in Devices \cup {NoDevice, "throws"}
    PROVE  LET t == HandleScanResults(s, paired)
           IN  /\ t \in Source
               /\ t.enabled = s.enabled
               /\ t.pendingUnpair = s.pendingUnpair
               /\ t.reconnectPending = s.reconnectPending
               /\ t.reconnectDelay = s.reconnectDelay
               /\ ~t.explicitDisconnectSeen
               /\ Quiet(t)
               /\ paired \in Devices => t.phase = "connecting" /\ t.device = paired
               /\ paired \notin Devices => t.phase = "none" /\ t.device \in {s.device, NoDevice}
<1> DEFINE base == [s EXCEPT !.latches = @ \cup {"FOUND"}, !.phase = "none"]
           found == SetDiagnosticState(base, "FOUND")
<1>1. base \in Source
      /\ base.enabled = s.enabled
      /\ base.pendingUnpair = s.pendingUnpair
      /\ base.reconnectPending = s.reconnectPending
      /\ base.reconnectDelay = s.reconnectDelay
      /\ base.device = s.device
  BY DEF Source, Phases, Latches
<1>2. HandleScanResults(s, paired) = ConnectToScanResult(found, paired)
  BY DEF HandleScanResults
<1> HIDE DEF base
<1>3. Shown(base, found, base.state, "FOUND")
  BY <1>1, SetDiagnosticStateContract DEF Diags
<1> HIDE DEF found
<1>4. found \in Source
      /\ found.enabled = s.enabled
      /\ found.pendingUnpair = s.pendingUnpair
      /\ found.reconnectPending = s.reconnectPending
      /\ found.reconnectDelay = s.reconnectDelay
      /\ found.device = s.device
  BY <1>1, <1>3 DEF Shown, Kept
<1> QED
  BY <1>2, <1>4, ConnectToScanResultContract

\* handleScanStateChange() during a scan: the flag follows the status reported.
LEMMA HandleScanStateChangeContract ==
    ASSUME NEW s \in Source, NEW ok \in BOOLEAN
    PROVE  LET t == HandleScanStateChange(s, ok)
           IN  /\ t \in Source
               /\ Kept([s EXCEPT !.phase = t.phase], t)
               /\ Quiet(s) => Quiet(t)
               /\ s.phase = "scanning" /\ s.latches = {} /\ s.diagState = "SCAN" =>
                    /\ t.phase = IF ok THEN "scanning" ELSE "none"
                    /\ ok => t.diagState = "SCAN"
<1> DEFINE scanning == [s EXCEPT !.phase = "scanning"]
           cleared == [s EXCEPT !.phase = IF @ = "scanning" THEN "none" ELSE @]
<1>1. /\ scanning \in Source
      /\ Kept([s EXCEPT !.phase = "scanning"], scanning)
      /\ scanning.phase = "scanning"
      /\ scanning.diagState = s.diagState
      /\ Quiet(s) => Quiet(scanning)
  BY DEF Source, Phases, Kept, Quiet
<1>2. /\ cleared \in Source
      /\ Kept([s EXCEPT !.phase = cleared.phase], cleared)
      /\ s.phase = "scanning" => cleared.phase = "none"
      /\ Quiet(s) => Quiet(cleared)
  BY DEF Source, Phases, Kept, Quiet
<1>3. ErrorOrSame(s, SetScanError(s)) /\ (Quiet(s) => Quiet(SetScanError(s)))
  BY SetScanErrorContract, ErrorKeepsQuiet
<1> HIDE DEF cleared, scanning
<1>4. ErrorOrSame(cleared, SetScanError(cleared)) /\ (Quiet(cleared) => Quiet(SetScanError(cleared)))
  BY <1>2, SetScanErrorContract, ErrorKeepsQuiet
<1>5. CASE ~CanProcessScanCallback(s)
  <2>1. ~(s.phase = "scanning" /\ s.latches = {} /\ s.diagState = "SCAN")
    BY <1>5 DEF CanProcessScanCallback, LinkDiags, TimedDiags
  <2>2. HandleScanStateChange(s, ok) = IF ok THEN s ELSE SetScanError(s)
    BY <1>5 DEF HandleScanStateChange
  <2>3. Kept([s EXCEPT !.phase = s.phase], s)
    BY DEF Kept, Source
  <2>4. Kept([s EXCEPT !.phase = SetScanError(s).phase], SetScanError(s))
    BY <1>3 DEF Kept, Source, ErrorOrSame
  <2> QED
    BY <1>3, <2>1, <2>2, <2>3, <2>4 DEF ErrorOrSame
<1>6. CASE CanProcessScanCallback(s) /\ ok
  <2>1. HandleScanStateChange(s, ok) = scanning
    BY <1>6 DEF HandleScanStateChange, scanning
  <2> QED
    BY <1>1, <1>6, <2>1
<1>7. CASE CanProcessScanCallback(s) /\ ~ok
  <2>1. HandleScanStateChange(s, ok) = SetScanError(cleared)
    BY <1>7 DEF HandleScanStateChange, cleared
  <2>2. Kept([s EXCEPT !.phase = SetScanError(cleared).phase], SetScanError(cleared))
    BY <1>2, <1>4 DEF Kept, Source, ErrorOrSame
  <2>3. SetScanError(cleared) \in Source /\ SetScanError(cleared).phase = cleared.phase
    BY <1>4 DEF ErrorOrSame, Kept
  <2> QED
    BY <1>2, <1>4, <1>7, <2>1, <2>2, <2>3
<1> QED
  BY <1>5, <1>6, <1>7

\* What discovery and subscription leave alone.
KeptThroughDiscovery(s, t) ==
    /\ t \in Source
    /\ t.enabled = s.enabled
    /\ t.phase = s.phase
    /\ t.device = s.device
    /\ t.explicitDisconnectSeen = s.explicitDisconnectSeen
    /\ t.pendingUnpair = s.pendingUnpair
    /\ t.reconnectPending = s.reconnectPending
    /\ t.reconnectDelay = s.reconnectDelay

\* An error during discovery leaves the link alone.
LEMMA KeptThroughErrors ==
    ASSUME NEW s \in Source, NEW stage \in Stages
    PROVE  /\ KeptThroughDiscovery(s, SetBleError(s, stage))
           /\ SetBleError(s, stage).characteristic = s.characteristic
BY SetBleErrorContract DEF ErrorOrSame, Kept, KeptThroughDiscovery

\* A stage of the discovery leaves the link alone.
LEMMA KeptThroughStages ==
    ASSUME NEW s \in Source, NEW d \in Diags
    PROVE  /\ KeptThroughDiscovery(s, SetDiagnosticState(s, d))
           /\ SetDiagnosticState(s, d).characteristic = s.characteristic
BY SetDiagnosticStateContract DEF Shown, Kept, KeptThroughDiscovery

\* markBridgeActivity() leaves the link alone.
LEMMA MarkBridgeActivityContract ==
    ASSUME NEW s \in Source
    PROVE  /\ KeptThroughDiscovery(s, MarkBridgeActivity(s))
           /\ MarkBridgeActivity(s).characteristic = s.characteristic
BY Zero DEF MarkBridgeActivity, Source, KeptThroughDiscovery

\* subscribeToAlertCharacteristic() leaves the link and the characteristic alone.
LEMMA SubscribeContract ==
    ASSUME NEW s \in Source, NEW failed
    PROVE  /\ KeptThroughDiscovery(s, SubscribeToAlertCharacteristic(s, failed))
           /\ SubscribeToAlertCharacteristic(s, failed).characteristic = s.characteristic
<1> DEFINE base == [s EXCEPT !.latches = @ \cup {"SUBSCRIBED"}]
           asked == MarkBridgeActivity(base)
<1>1. /\ KeptThroughDiscovery(s, base)
      /\ base.characteristic = s.characteristic
  BY DEF Source, Latches, KeptThroughDiscovery
<1>2. SubscribeToAlertCharacteristic(s, failed) \in
        {SetBleError(asked, "SUB"), SetDiagnosticState(asked, "SUB")}
  BY DEF SubscribeToAlertCharacteristic
<1> HIDE DEF base
<1>3. /\ KeptThroughDiscovery(base, asked)
      /\ asked.characteristic = base.characteristic
  BY <1>1, MarkBridgeActivityContract DEF KeptThroughDiscovery
<1> HIDE DEF asked
<1>4. /\ KeptThroughDiscovery(asked, SetBleError(asked, "SUB"))
      /\ SetBleError(asked, "SUB").characteristic = asked.characteristic
      /\ KeptThroughDiscovery(asked, SetDiagnosticState(asked, "SUB"))
      /\ SetDiagnosticState(asked, "SUB").characteristic = asked.characteristic
  BY <1>3, KeptThroughErrors, KeptThroughStages
     DEF Stages, Diags, LinkDiags, TimedDiags, KeptThroughDiscovery
<1> QED
  BY <1>1, <1>2, <1>3, <1>4 DEF KeptThroughDiscovery

\* discoverAlertCharacteristic() leaves the link alone, and has the characteristic when no
\* call failed.
LEMMA DiscoverContract ==
    ASSUME NEW s \in Source, NEW failed
    PROVE  /\ KeptThroughDiscovery(s, DiscoverAlertCharacteristic(s, failed))
           /\ failed = "none" => DiscoverAlertCharacteristic(s, failed).characteristic
<1> DEFINE service == SetDiagnosticState(s, "SVC")
           found == MarkBridgeActivity(service)
           none == [found EXCEPT !.characteristic = FALSE]
           base == [found EXCEPT !.characteristic = TRUE]
           char == SetDiagnosticState(base, "CHAR")
<1>1. CASE failed = "SVC"
  BY <1>1, KeptThroughErrors DEF DiscoverAlertCharacteristic, Stages
<1>2. CASE failed # "SVC"
  <2>1. DiscoverAlertCharacteristic(s, failed) =
          IF failed = "CHAR" THEN SetBleError(none, "CHAR")
                             ELSE SubscribeToAlertCharacteristic(char, failed)
    BY <1>2 DEF DiscoverAlertCharacteristic
  <2>2. KeptThroughDiscovery(s, service)
    BY KeptThroughStages DEF Diags, LinkDiags, TimedDiags
  <2> HIDE DEF service
  <2>3. KeptThroughDiscovery(s, found)
    BY <2>2, MarkBridgeActivityContract DEF KeptThroughDiscovery
  <2> HIDE DEF found
  <2>4. KeptThroughDiscovery(s, none) /\ KeptThroughDiscovery(s, base) /\ base.characteristic
    BY <2>3 DEF KeptThroughDiscovery, Source
  <2> HIDE DEF none, base
  <2>5. KeptThroughDiscovery(s, char) /\ char.characteristic
    BY <2>4, KeptThroughStages DEF KeptThroughDiscovery, Diags, LinkDiags, TimedDiags
  <2> HIDE DEF char
  <2>6. KeptThroughDiscovery(s, SetBleError(none, "CHAR"))
    BY <2>4, KeptThroughErrors DEF KeptThroughDiscovery, Stages
  <2>7. /\ KeptThroughDiscovery(s, SubscribeToAlertCharacteristic(char, failed))
        /\ SubscribeToAlertCharacteristic(char, failed).characteristic
    BY <2>5, SubscribeContract DEF KeptThroughDiscovery
  <2> QED
    BY <2>1, <2>6, <2>7
<1> QED
  BY <1>1, <1>2

\* CONNECTED: a duplicate changes nothing but the handle; any other one ends connected,
\* with the characteristic when no call failed.
LEMMA HandleConnectedContract ==
    ASSUME NEW s \in Source, NEW d \in Devices \cup {NoDevice}, NEW failed
    PROVE  LET t == HandleConnected(s, d, failed)
           IN  /\ t \in Source
               /\ t.device = d
               /\ t.enabled = s.enabled
               /\ t.pendingUnpair = s.pendingUnpair
               /\ t.reconnectPending = s.reconnectPending
               /\ t.reconnectDelay = s.reconnectDelay
               /\ AlreadyEstablished(s) => t.phase = s.phase /\ t.characteristic
               /\ ~AlreadyEstablished(s) => t.phase = "connected"
               /\ ~AlreadyEstablished(s) /\ failed = "none" => t.characteristic
<1> DEFINE held == [s EXCEPT !.device = d]
           base == [held EXCEPT !.latches = @ \cup {"CONNECTED"},
                                !.explicitDisconnectSeen = FALSE,
                                !.activityAge = 0,
                                !.phase = "connected"]
           connected == SetBleState(base, "CONNECTED", "CONN")
<1>1. CASE AlreadyEstablished(s)
  BY <1>1 DEF HandleConnected, AlreadyEstablished, Source
<1>2. CASE ~AlreadyEstablished(s)
  <2>1. HandleConnected(s, d, failed) = DiscoverAlertCharacteristic(connected, failed)
    BY <1>2 DEF HandleConnected
  <2>2. /\ base \in Source
        /\ base.device = d
        /\ base.enabled = s.enabled
        /\ base.pendingUnpair = s.pendingUnpair
        /\ base.reconnectPending = s.reconnectPending
        /\ base.reconnectDelay = s.reconnectDelay
        /\ base.phase = "connected"
    BY Zero DEF Source, Phases, Latches
  <2> HIDE DEF base
  <2>3. Shown(base, connected, "CONNECTED", "CONN")
    BY <2>2, SetBleStateContract DEF States, Diags, LinkDiags, TimedDiags
  <2>4. KeptThroughDiscovery(base, connected)
    BY <2>3 DEF Shown, Kept, KeptThroughDiscovery
  <2> HIDE DEF connected
  <2>5. /\ KeptThroughDiscovery(connected, DiscoverAlertCharacteristic(connected, failed))
        /\ failed = "none" => DiscoverAlertCharacteristic(connected, failed).characteristic
    BY <2>4, DiscoverContract DEF KeptThroughDiscovery
  <2> QED
    BY <1>2, <2>1, <2>2, <2>4, <2>5 DEF KeptThroughDiscovery
<1> QED
  BY <1>1, <1>2

\* Doubling the delay under the ceiling stays in range.
LEMMA DoubledDelay ==
    ASSUME NEW delay \in ReconnectMin..ReconnectMax
    PROVE  Capped(2 * delay, ReconnectMax) \in ReconnectMin..ReconnectMax
BY TimesAssumption DEF Capped

\* scheduleReconnect() queues the device it held for unpairing, arms the reconnect of an
\* enabled source, and never shortens the backoff.
LEMMA ScheduleReconnectContract ==
    ASSUME NEW s \in Source
    PROVE  LET t == ScheduleReconnect(s)
           IN  /\ t \in Source
               /\ t.enabled = s.enabled
               /\ t.phase = "none"
               /\ t.latches = {}
               /\ t.device = NoDevice
               /\ ~t.characteristic
               /\ t.explicitDisconnectSeen = s.explicitDisconnectSeen
               /\ s.device # NoDevice => t.pendingUnpair = s.device
               /\ s.enabled => t.reconnectPending
               /\ t.reconnectDelay >= s.reconnectDelay
<1> DEFINE reset == [s EXCEPT !.pendingUnpair = IF s.device # NoDevice THEN s.device ELSE @,
                              !.device = NoDevice,
                              !.characteristic = FALSE,
                              !.phase = "none",
                              !.latches = {},
                              !.timeoutLogged = FALSE]
           delay == Capped(2 * s.reconnectDelay, ReconnectMax)
           armed == [reset EXCEPT !.reconnectPending = TRUE,
                                  !.reconnectIn = s.reconnectDelay,
                                  !.reconnectDelay = delay]
<1>1. /\ s.reconnectDelay \in ReconnectMin..ReconnectMax
      /\ s.reconnectDelay \in 0..ReconnectMax
      /\ delay \in ReconnectMin..ReconnectMax
      /\ delay >= s.reconnectDelay
  <2>1. s.reconnectDelay \in ReconnectMin..ReconnectMax
    BY DEF Source
  <2> QED
    BY <2>1, DoubledDelay, TimesAssumption DEF Capped
<1>2. /\ reset \in Source
      /\ reset.enabled = s.enabled
      /\ reset.phase = "none"
      /\ reset.latches = {}
      /\ reset.device = NoDevice
      /\ ~reset.characteristic
      /\ reset.explicitDisconnectSeen = s.explicitDisconnectSeen
      /\ s.device # NoDevice => reset.pendingUnpair = s.device
      /\ reset.reconnectDelay = s.reconnectDelay
  BY DEF Source, Phases
<1>3. ScheduleReconnect(s) = IF ~s.enabled THEN reset ELSE armed
  <2>1. armed = [reset EXCEPT !.reconnectPending = TRUE,
                              !.reconnectIn = s.reconnectDelay,
                              !.reconnectDelay = Capped(2 * @, ReconnectMax)]
    BY <1>2
  <2> QED
    BY <2>1 DEF ScheduleReconnect
<1> HIDE DEF reset, delay
<1>4. /\ armed \in Source
      /\ armed.enabled = s.enabled
      /\ armed.phase = "none"
      /\ armed.latches = {}
      /\ armed.device = NoDevice
      /\ ~armed.characteristic
      /\ armed.explicitDisconnectSeen = s.explicitDisconnectSeen
      /\ s.device # NoDevice => armed.pendingUnpair = s.device
      /\ armed.reconnectPending
      /\ armed.reconnectDelay = delay
  BY <1>1, <1>2 DEF Source
<1> HIDE DEF armed
<1>5. s.reconnectDelay >= s.reconnectDelay
  BY <1>1, TimesAssumption
<1> QED
  BY <1>1, <1>2, <1>3, <1>4, <1>5

\* DISCONNECTED: the handle given is the one queued for unpairing, the phase is cleared and
\* the reconnect armed.
LEMMA HandleDisconnectedContract ==
    ASSUME NEW s \in Source, NEW d \in Devices \cup {NoDevice}
    PROVE  LET t == HandleDisconnected(s, d)
           IN  /\ t \in Source
               /\ t.enabled = s.enabled
               /\ t.phase = "none"
               /\ t.latches = {}
               /\ t.device = NoDevice
               /\ t.explicitDisconnectSeen
               /\ d # NoDevice => t.pendingUnpair = d
               /\ s.enabled => t.reconnectPending
               /\ t.reconnectDelay >= s.reconnectDelay
<1> DEFINE down == [s EXCEPT !.device = d, !.explicitDisconnectSeen = TRUE, !.phase = "none"]
           shown == IF "SUBSCRIBED" \in s.latches \/ s.diagState = "SUB"
                    THEN SetDisconnectError(down)
                    ELSE SetBleError(down, "CONN")
           last == [shown EXCEPT !.characteristic = FALSE]
<1>1. /\ down \in Source
      /\ down.enabled = s.enabled
      /\ down.device = d
      /\ down.explicitDisconnectSeen
      /\ down.reconnectDelay = s.reconnectDelay
  BY DEF Source, Phases
<1>2. HandleDisconnected(s, d) = ScheduleReconnect(last)
  BY DEF HandleDisconnected
<1> HIDE DEF down
<1>3. ErrorOrSame(down, shown)
  BY <1>1, SetDisconnectErrorContract, SetBleErrorContract DEF Stages
<1> HIDE DEF shown
<1>4. /\ last \in Source
      /\ last.enabled = s.enabled
      /\ last.device = d
      /\ last.explicitDisconnectSeen
      /\ last.reconnectDelay = s.reconnectDelay
  BY <1>1, <1>3 DEF ErrorOrSame, Kept, Source
<1> HIDE DEF last
<1> QED
  BY <1>2, <1>4, ScheduleReconnectContract

\* handleDescriptorWrite() moves the phase only, to subscribed on success.
LEMMA HandleDescriptorWriteContract ==
    ASSUME NEW s \in Source, NEW ok \in BOOLEAN
    PROVE  LET t == HandleDescriptorWrite(s, ok)
           IN  /\ t \in Source
               /\ t.enabled = s.enabled
               /\ t.phase = IF ok THEN "subscribed" ELSE s.phase
               /\ t.device = s.device
               /\ t.characteristic = s.characteristic
               /\ t.pendingUnpair = s.pendingUnpair
               /\ t.reconnectPending = s.reconnectPending
               /\ t.reconnectDelay = s.reconnectDelay
<1> DEFINE base == [s EXCEPT !.latches = @ \cup {"SUBSCRIBED"},
                             !.activityAge = 0,
                             !.phase = "subscribed"]
<1>1. CASE ~ok
  <2>1. HandleDescriptorWrite(s, ok) = SetBleError(s, "SUB")
    BY <1>1 DEF HandleDescriptorWrite
  <2>2. ErrorOrSame(s, SetBleError(s, "SUB"))
    BY SetBleErrorContract DEF Stages
  <2> QED
    BY <1>1, <2>1, <2>2 DEF ErrorOrSame, Kept
<1>2. CASE ok
  <2>1. HandleDescriptorWrite(s, ok) = SetDiagnosticState(base, "SUB_WAIT")
    BY <1>2 DEF HandleDescriptorWrite
  <2>2. /\ base \in Source
        /\ base.enabled = s.enabled
        /\ base.phase = "subscribed"
        /\ base.device = s.device
        /\ base.characteristic = s.characteristic
        /\ base.pendingUnpair = s.pendingUnpair
        /\ base.reconnectPending = s.reconnectPending
        /\ base.reconnectDelay = s.reconnectDelay
    BY Zero DEF Source, Phases, Latches
  <2> HIDE DEF base
  <2>3. Shown(base, SetDiagnosticState(base, "SUB_WAIT"), base.state, "SUB_WAIT")
    BY <2>2, SetDiagnosticStateContract DEF Diags, LinkDiags
  <2> QED
    BY <1>2, <2>1, <2>2, <2>3 DEF Shown, Kept
<1> QED
  BY <1>1, <1>2

\* A notification moves nothing of the link but, at most, the phase and the backoff.
KeptThroughNotification(s, t) ==
    /\ t.enabled = s.enabled
    /\ t.device = s.device
    /\ t.characteristic = s.characteristic
    /\ t.pendingUnpair = s.pendingUnpair
    /\ t.reconnectPending = s.reconnectPending

\* A decoded alert resets the backoff and leaves the link alone.
LEMMA AcceptAlertContract ==
    ASSUME NEW s \in Source
    PROVE  LET t == AcceptAlert(s)
           IN  /\ t \in Source
               /\ KeptThroughNotification(s, t)
               /\ t.phase = s.phase
               /\ t.lastParseOk
               /\ t.reconnectDelay = ReconnectMin
<1> DEFINE base == [s EXCEPT !.hasLatestAlert = TRUE, !.lastParseOk = TRUE,
                             !.reconnectDelay = ReconnectMin,
                             !.explicitDisconnectSeen = FALSE]
<1>1. /\ base \in Source
      /\ KeptThroughNotification(s, base)
      /\ base.phase = s.phase
      /\ base.lastParseOk
      /\ base.reconnectDelay = ReconnectMin
  BY Zero DEF Source, KeptThroughNotification
<1>2. AcceptAlert(s) = SetBleState(base, "CONNECTED", "RX")
  BY DEF AcceptAlert
<1> HIDE DEF base
<1>3. Shown(base, SetBleState(base, "CONNECTED", "RX"), "CONNECTED", "RX")
  BY <1>1, SetBleStateContract DEF States, Diags, LinkDiags
<1> QED
  BY <1>1, <1>2, <1>3 DEF Shown, Kept, KeptThroughNotification

\* An undecodable one leaves the link and the backoff alone.
LEMMA HandleByteParseErrorContract ==
    ASSUME NEW s \in Source
    PROVE  LET t == HandleByteParseError(s)
           IN  /\ t \in Source
               /\ KeptThroughNotification(s, t)
               /\ t.phase = s.phase
               /\ t.reconnectDelay = s.reconnectDelay
<1> DEFINE base == [s EXCEPT !.hasLatestAlert = FALSE, !.lastParseOk = FALSE]
<1>1. /\ base \in Source
      /\ KeptThroughNotification(s, base)
      /\ base.phase = s.phase
      /\ base.reconnectDelay = s.reconnectDelay
  BY DEF Source, KeptThroughNotification
<1>2. HandleByteParseError(s) = SetBleError(base, "RX")
  BY DEF HandleByteParseError
<1> HIDE DEF base
<1>3. ErrorOrSame(base, SetBleError(base, "RX"))
  BY <1>1, SetBleErrorContract DEF Stages
<1> QED
  BY <1>1, <1>2, <1>3 DEF ErrorOrSame, Kept, KeptThroughNotification

\* A notification is ignored after a disconnect; otherwise the source is subscribed, and
\* the backoff is reset only if it decodes.
LEMMA HandleCharacteristicChangedContract ==
    ASSUME NEW s \in Source, NEW decodes \in BOOLEAN
    PROVE  LET t == HandleCharacteristicChanged(s, decodes)
           IN  /\ t \in Source
               /\ KeptThroughNotification(s, t)
               /\ s.explicitDisconnectSeen => t = s
               /\ ~s.explicitDisconnectSeen => t.phase = "subscribed"
               /\ ~s.explicitDisconnectSeen /\ decodes =>
                    t.lastParseOk /\ t.reconnectDelay = ReconnectMin
               /\ ~decodes => t.reconnectDelay = s.reconnectDelay
<1> DEFINE base == [s EXCEPT !.activityAge = 0, !.phase = "subscribed"]
           received == SetDiagnosticState(base, "RX")
<1>1. CASE s.explicitDisconnectSeen
  BY <1>1 DEF HandleCharacteristicChanged, KeptThroughNotification
<1>2. CASE ~s.explicitDisconnectSeen
  <2>1. HandleCharacteristicChanged(s, decodes) =
          IF decodes THEN AcceptAlert(received) ELSE HandleByteParseError(received)
    BY <1>2 DEF HandleCharacteristicChanged
  <2>2. /\ base \in Source
        /\ KeptThroughNotification(s, base)
        /\ base.phase = "subscribed"
        /\ base.reconnectDelay = s.reconnectDelay
    BY Zero DEF Source, Phases, KeptThroughNotification
  <2> HIDE DEF base
  <2>3. Shown(base, received, base.state, "RX")
    BY <2>2, SetDiagnosticStateContract DEF Diags, LinkDiags
  <2> HIDE DEF received
  <2>4. /\ received \in Source
        /\ KeptThroughNotification(s, received)
        /\ received.phase = "subscribed"
        /\ received.reconnectDelay = s.reconnectDelay
    BY <2>2, <2>3 DEF Shown, Kept, KeptThroughNotification
  <2> QED
    BY <1>2, <2>1, <2>4, AcceptAlertContract, HandleByteParseErrorContract
       DEF KeptThroughNotification
<1> QED
  BY <1>1, <1>2

\* The passing of time moves the ages and countdowns only.
LEMMA ElapseContract ==
    ASSUME NEW s \in Source
    PROVE  LET t == Elapse(s)
           IN  /\ t \in Source
               /\ t = [s EXCEPT !.activityAge = t.activityAge,
                                !.reconnectIn = t.reconnectIn,
                                !.diagElapsed = t.diagElapsed]
<1> DEFINE age == Capped(s.activityAge + 1, LinkLostAfter + 1)
           in == IF s.reconnectIn > 0 THEN s.reconnectIn - 1 ELSE 0
           elapsed == IF s.diagState \in TimedDiags
                      THEN Capped(s.diagElapsed + 1, StageTimeout) ELSE 0
           t == [s EXCEPT !.activityAge = age, !.reconnectIn = in, !.diagElapsed = elapsed]
<1>1. /\ s.activityAge \in 0..(LinkLostAfter + 1)
      /\ s.reconnectIn \in 0..ReconnectMax
      /\ s.diagElapsed \in 0..StageTimeout
  BY DEF Source
<1>2. age \in 0..(LinkLostAfter + 1)
  BY <1>1, TimesAssumption DEF Capped
<1>3. in \in 0..ReconnectMax
  BY <1>1, TimesAssumption
<1>4. elapsed \in 0..StageTimeout
  BY <1>1, TimesAssumption DEF Capped
<1>5. Elapse(s) = t
  BY DEF Elapse
<1> HIDE DEF age, in, elapsed
<1> QED
  BY <1>2, <1>3, <1>4, <1>5 DEF Source

\* serviceReconnect() does nothing until it is due; then it consumes the request and scans.
LEMMA ServiceReconnectContract ==
    ASSUME NEW s \in Source, NEW ok \in BOOLEAN
    PROVE  LET t == ServiceReconnect(s, ok)
           IN  /\ t \in Source
               /\ ~ReconnectDue(s) => t = s
               /\ ReconnectDue(s) =>
                    /\ t.enabled
                    /\ t.latches = s.latches
                    /\ t.explicitDisconnectSeen = s.explicitDisconnectSeen
                    /\ t.device = s.device
                    /\ t.characteristic = s.characteristic
                    /\ t.reconnectDelay = s.reconnectDelay
                    /\ ~t.reconnectPending
                    /\ t.phase = IF s.phase = "none" /\ ok THEN "scanning" ELSE s.phase
                    /\ s.phase = "none" /\ t.phase = "scanning" => t.diagState = "SCAN"
                    /\ Quiet(s) => Quiet(t)
<1> DEFINE base == [s EXCEPT !.reconnectPending = FALSE, !.pendingUnpair = NoDevice]
<1>1. CASE ~ReconnectDue(s)
  BY <1>1 DEF ServiceReconnect
<1>2. CASE ReconnectDue(s)
  <2>1. ServiceReconnect(s, ok) = StartScan(base, ok)
    BY <1>2 DEF ServiceReconnect
  <2>2. /\ base \in Source
        /\ base.enabled
        /\ base.latches = s.latches
        /\ base.explicitDisconnectSeen = s.explicitDisconnectSeen
        /\ base.device = s.device
        /\ base.characteristic = s.characteristic
        /\ base.reconnectDelay = s.reconnectDelay
        /\ ~base.reconnectPending
        /\ base.phase = s.phase
        /\ Quiet(s) => Quiet(base)
    BY <1>2 DEF Source, Quiet, ReconnectDue
  <2> HIDE DEF base
  <2>3. LET t == StartScan(base, ok)
        IN  /\ t \in Source
            /\ Kept([base EXCEPT !.phase = t.phase], t)
            /\ t.phase = IF base.phase = "none" /\ ok THEN "scanning" ELSE base.phase
            /\ base.phase = "none" /\ t.phase = "scanning" => t.diagState = "SCAN"
            /\ Quiet(base) => Quiet(t)
    BY <2>2, StartScanContract
  <2>4. LET t == StartScan(base, ok)
        IN  /\ t.enabled = base.enabled
            /\ t.latches = base.latches
            /\ t.explicitDisconnectSeen = base.explicitDisconnectSeen
            /\ t.device = base.device
            /\ t.characteristic = base.characteristic
            /\ t.reconnectDelay = base.reconnectDelay
            /\ t.reconnectPending = base.reconnectPending
    BY <2>2, <2>3 DEF Kept, Source
  <2> QED
    BY <1>2, <2>1, <2>2, <2>3, <2>4
<1> QED
  BY <1>1, <1>2

\* The stage timeout reports an error in the stages it watches and does nothing in others.
LEMMA CheckStageTimeoutContract ==
    ASSUME NEW s \in Source
    PROVE  LET t == CheckStageTimeout(s)
           IN  /\ t \in Source
               /\ Kept(s, t)
               /\ s.diagState \notin TimedDiags => t = s
               /\ Quiet(s) => Quiet(t)
<1> DEFINE logged == [s EXCEPT !.timeoutLogged = TRUE]
<1>1. CASE ~StageTimedOut(s)
  BY <1>1 DEF CheckStageTimeout, Kept
<1>2. CASE StageTimedOut(s)
  <2>1. CheckStageTimeout(s) \in {SetRxTimeoutError(logged), SetBleError(logged, s.lastBleStage)}
    BY <1>2 DEF CheckStageTimeout
  <2>2. s.diagState \in TimedDiags
    BY <1>2 DEF StageTimedOut
  <2>3. logged \in Source /\ Kept(s, logged) /\ (Quiet(s) => Quiet(logged))
        /\ s.lastBleStage \in Stages
    BY DEF Source, Kept, Quiet
  <2> HIDE DEF logged
  <2>4. /\ ErrorOrSame(logged, SetRxTimeoutError(logged))
        /\ ErrorOrSame(logged, SetBleError(logged, s.lastBleStage))
    BY <2>3, SetRxTimeoutErrorContract, SetBleErrorContract
  <2>5. ErrorOrSame(logged, CheckStageTimeout(s))
    BY <2>1, <2>4
  <2>6. Quiet(s) => Quiet(CheckStageTimeout(s))
    BY <2>3, <2>5, ErrorKeepsQuiet
  <2> QED
    BY <2>2, <2>3, <2>5, <2>6 DEF ErrorOrSame, Kept
<1> QED
  BY <1>1, <1>2

\* A tick changes the link only by servicing a due reconnect.
LEMMA TickContract ==
    ASSUME NEW s \in Source, NEW ok \in BOOLEAN, s.enabled
    PROVE  LET t == TickSource(s, ok)
               due == ReconnectDue(Elapse(s))
           IN  /\ t \in Source
               /\ t.enabled
               /\ t.latches = s.latches
               /\ t.explicitDisconnectSeen = s.explicitDisconnectSeen
               /\ t.device = s.device
               /\ t.characteristic = s.characteristic
               /\ t.reconnectDelay = s.reconnectDelay
               /\ Quiet(s) => Quiet(t)
               /\ ~due => /\ t.phase = s.phase
                          /\ t.pendingUnpair = s.pendingUnpair
                          /\ t.reconnectPending = s.reconnectPending
                          /\ s.diagState = "SCAN" => t.diagState = "SCAN"
               /\ due => /\ s.reconnectPending
                         /\ ~t.reconnectPending
                         /\ t.phase = IF s.phase = "none" /\ ok THEN "scanning" ELSE s.phase
                         /\ s.phase = "none" /\ t.phase = "scanning" => t.diagState = "SCAN"
<1> DEFINE later == Elapse(s)
           serviced == ServiceReconnect(later, ok)
           t == CheckStageTimeout(serviced)
<1>1. TickSource(s, ok) = t
  BY DEF TickSource
<1>2. /\ later \in Source
      /\ later = [s EXCEPT !.activityAge = later.activityAge,
                           !.reconnectIn = later.reconnectIn,
                           !.diagElapsed = later.diagElapsed]
  BY ElapseContract
<1> HIDE DEF later
<1>3. /\ later.enabled
      /\ later.phase = s.phase
      /\ later.latches = s.latches
      /\ later.explicitDisconnectSeen = s.explicitDisconnectSeen
      /\ later.device = s.device
      /\ later.characteristic = s.characteristic
      /\ later.reconnectDelay = s.reconnectDelay
      /\ later.pendingUnpair = s.pendingUnpair
      /\ later.reconnectPending = s.reconnectPending
      /\ later.diagState = s.diagState
      /\ Quiet(s) => Quiet(later)
  BY <1>2 DEF Source, Quiet
<1>4. ReconnectDue(later) => s.reconnectPending
  BY <1>3 DEF ReconnectDue
<1>5. /\ serviced \in Source
      /\ ~ReconnectDue(later) => serviced = later
      /\ ReconnectDue(later) =>
           /\ serviced.enabled
           /\ serviced.latches = later.latches
           /\ serviced.explicitDisconnectSeen = later.explicitDisconnectSeen
           /\ serviced.device = later.device
           /\ serviced.characteristic = later.characteristic
           /\ serviced.reconnectDelay = later.reconnectDelay
           /\ ~serviced.reconnectPending
           /\ serviced.phase = IF later.phase = "none" /\ ok THEN "scanning" ELSE later.phase
           /\ later.phase = "none" /\ serviced.phase = "scanning" => serviced.diagState = "SCAN"
           /\ Quiet(later) => Quiet(serviced)
  BY <1>2, ServiceReconnectContract
<1> HIDE DEF serviced
<1>6. /\ t \in Source
      /\ Kept(serviced, t)
      /\ serviced.diagState = "SCAN" => t.diagState = "SCAN"
      /\ Quiet(serviced) => Quiet(t)
  BY <1>5, CheckStageTimeoutContract DEF TimedDiags
<1> HIDE DEF t
<1>7. CASE ~ReconnectDue(later)
  BY <1>1, <1>3, <1>5, <1>6, <1>7 DEF Kept, later
<1>8. CASE ReconnectDue(later)
  BY <1>1, <1>3, <1>4, <1>5, <1>6, <1>8 DEF Kept, later
<1> QED
  BY <1>7, <1>8

-----------------------------------------------------------------------------
(* The steps.                                                               *)

\* The initial records are in range.
LEMMA InitialType == InitialSource \in Source /\ InitialStack \in Stack
BY Zero DEF InitialSource, InitialStack, Source, Stack, Phases, States, Stages, Diags, Latches,
            Links, Writes

\* A call succeeds or fails.
LEMMA FailuresAreBoolean == ASSUME NEW kind PROVE MayFail(kind) \subseteq BOOLEAN
BY DEF MayFail

\* What pairDevice() may come back with.
LEMMA ScanOutcomes == PairOutcomes \subseteq Devices \cup {NoDevice, "throws"}
BY DEF PairOutcomes

\* What the stack is set aside as, if at all.
LEMMA AsideType ==
    ASSUME stack \in Stack
    PROVE  Aside \subseteq [peer: Devices \cup {NoDevice}, link: Links, cccd: Writes]
BY DEF Aside, Stack

\* Failures passed over are remembered, and only those that happen are added.
LEMMA RememberContract ==
    ASSUME NEW kind \in {"stop", "unpair"}, NEW ok \in BOOLEAN, stack \in Stack
    PROVE  /\ Remember(kind, ok) \in SUBSET {"stop", "unpair"}
           /\ stack.failed \subseteq Remember(kind, ok)
           /\ kind \notin Remember(kind, ok) => ok
BY DEF Remember, Stack

\* What a tick leaves of the stack.
TickedStack(scanOk, unpaired, stopped) ==
    [stack EXCEPT
      !.slots = IF unpaired THEN @ \ {src.pendingUnpair} ELSE @,
      !.radio = (src.phase = "none" /\ scanOk) \/ ~stopped,
      !.failed = Remember("unpair", unpaired) \cup Remember("stop", stopped)]

\* What a scan result leaves of it.
ScannedStack(stopped) ==
    [stack EXCEPT !.radio = ~stopped,
                  !.cccd = IF stack.link = "idle" THEN "off" ELSE @,
                  !.failed = Remember("stop", stopped)]

PairedStack(paired, stopped) ==
    [ScannedStack(stopped) EXCEPT
      !.link = "pairing", !.peer = paired, !.slots = @ \cup {paired},
      !.cccd = "off",
      !.rivals = @ \cup (IF stack.link = "idle" THEN {} ELSE Aside)]

\* The two steps that may pass over a failure, call by call.
LEMMA TickCalls ==
    ASSUME SourceTick
    PROVE  \E scanOk, unpaired, stopped \in BOOLEAN :
             /\ stopped \in MayFail("stop")
             /\ src' = TickSource(src, scanOk)
             /\ stack' = IF ~ReconnectDue(Elapse(src)) THEN stack
                         ELSE TickedStack(scanOk, unpaired, stopped)
<1>1. PICK scanOk \in MayFail("scan"), unpaired \in MayFail("unpair"),
           stopped \in MayFail("stop") :
        /\ src' = TickSource(src, scanOk)
        /\ IF ~ReconnectDue(Elapse(src))
           THEN unpaired /\ stopped /\ UNCHANGED stack
           ELSE /\ ~unpaired => src.pendingUnpair # NoDevice
                /\ ~stopped => stack.radio
                /\ stack' = TickedStack(scanOk, unpaired, stopped)
  BY DEF SourceTick, TickedStack
<1> QED
  BY <1>1, FailuresAreBoolean

LEMMA ScanResultCalls ==
    ASSUME OnScanResults
    PROVE  \E paired \in PairOutcomes, stopped \in BOOLEAN :
             /\ stopped \in MayFail("stop")
             /\ src' = HandleScanResults(src, paired)
             /\ paired \notin Devices => stack' = ScannedStack(stopped)
             /\ paired \in Devices => stack' = PairedStack(paired, stopped)
<1>1. PICK paired \in PairOutcomes, stopped \in MayFail("stop") :
        /\ src' = HandleScanResults(src, paired)
        /\ stack' = IF paired \notin Devices THEN ScannedStack(stopped)
                    ELSE PairedStack(paired, stopped)
  BY DEF OnScanResults, ScannedStack, PairedStack
<1> QED
  BY <1>1, FailuresAreBoolean

\* Every step keeps every field in its range.
LEMMA TypeStep == BleTypeOK /\ [BleNext]_bleVars => BleTypeOK'
<1> SUFFICES ASSUME BleTypeOK, [BleNext]_bleVars
             PROVE  src' \in Source /\ stack' \in Stack
  BY DEF BleTypeOK
<1>0. src \in Source /\ stack \in Stack
  BY DEF BleTypeOK
<1>1. CASE Start
  <2>1. PICK available \in MayFail("scan"), scanOk \in MayFail("scan") :
          /\ src' = StartSource(src, available, scanOk)
          /\ stack' = [stack EXCEPT !.radio = available /\ scanOk]
    BY <1>1 DEF Start
  <2>2. available \in BOOLEAN /\ scanOk \in BOOLEAN
    BY FailuresAreBoolean
  <2>3. src' \in Source
    BY <1>0, <2>1, <2>2, StartSourceType
  <2> QED
    BY <1>0, <2>1, <2>2, <2>3 DEF Stack
<1>2. CASE SourceTick
  <2>1. PICK scanOk \in BOOLEAN, unpaired \in BOOLEAN, stopped \in BOOLEAN :
          /\ src' = TickSource(src, scanOk)
          /\ stack' = IF ~ReconnectDue(Elapse(src)) THEN stack
                      ELSE TickedStack(scanOk, unpaired, stopped)
    BY <1>2, TickCalls
  <2>2. src.enabled
    BY <1>2 DEF SourceTick
  <2>3. src' \in Source
    BY <1>0, <2>1, <2>2, TickContract
  <2>4. stack' \in Stack
    <3>1. Remember("unpair", unpaired) \cup Remember("stop", stopped) \in SUBSET {"stop", "unpair"}
      BY <1>0, RememberContract
    <3> QED
      BY <1>0, <2>1, <3>1 DEF Stack, TickedStack
  <2> QED
    BY <2>3, <2>4
<1>3. CASE OnScanResults
  <2>1. PICK paired \in PairOutcomes, stopped \in BOOLEAN :
          /\ src' = HandleScanResults(src, paired)
          /\ paired \notin Devices => stack' = ScannedStack(stopped)
          /\ paired \in Devices => stack' = PairedStack(paired, stopped)
    BY <1>3, ScanResultCalls
  <2>2. paired \in Devices \cup {NoDevice, "throws"}
    BY ScanOutcomes
  <2>3. src' \in Source
    BY <1>0, <2>1, <2>2, HandleScanResultsContract
  <2>4. stack' \in Stack
    <3>1. Remember("stop", stopped) \in SUBSET {"stop", "unpair"}
      BY <1>0, RememberContract
    <3>2. ScannedStack(stopped) \in Stack
      BY <1>0, <3>1 DEF Stack, ScannedStack, Writes
    <3>3. ASSUME paired \in Devices
          PROVE  PairedStack(paired, stopped) \in Stack
      <4>1. ScannedStack(stopped).rivals = stack.rivals
        BY <1>0 DEF Stack, ScannedStack
      <4>2. stack.rivals \cup (IF stack.link = "idle" THEN {} ELSE Aside)
              \in SUBSET [peer: Devices \cup {NoDevice}, link: Links, cccd: Writes]
        BY <1>0, AsideType DEF Stack
      <4> HIDE DEF ScannedStack
      <4> QED
        BY <3>2, <3>3, <4>1, <4>2 DEF PairedStack, Stack, Links, Writes
    <3> QED
      BY <2>1, <3>2, <3>3
  <2> QED
    BY <2>3, <2>4
<1>4. CASE OnScanStateChange
  <2>1. PICK ok \in MayFail("scan") :
          /\ src' = HandleScanStateChange(src, ok)
          /\ stack' = [stack EXCEPT !.radio = ok]
    BY <1>4 DEF OnScanStateChange
  <2>2. ok \in BOOLEAN
    BY FailuresAreBoolean
  <2>3. src' \in Source
    BY <1>0, <2>1, <2>2, HandleScanStateChangeContract
  <2> QED
    BY <1>0, <2>1, <2>2, <2>3 DEF Stack
<1>5. CASE OnConnected
  <2>1. PICK failed \in Failures :
          /\ src' = HandleConnected(src, stack.peer, failed)
          /\ stack' = [stack EXCEPT
               !.link = IF @ = "pairing" THEN "up" ELSE @,
               !.cccd = IF ~AlreadyEstablished(src) /\ failed = "none" THEN "pending" ELSE @]
    BY <1>5 DEF OnConnected
  <2>2. stack.peer \in Devices \cup {NoDevice}
    BY <1>0 DEF Stack
  <2>3. src' \in Source
    BY <1>0, <2>1, <2>2, HandleConnectedContract
  <2>4. stack' \in Stack
    BY <1>0, <2>1 DEF Stack, Links, Writes
  <2> QED
    BY <2>3, <2>4
<1>6. CASE OnDisconnected
  <2>1. stack.peer \in Devices \cup {NoDevice}
    BY <1>0 DEF Stack
  <2>2. src' \in Source
    BY <1>0, <1>6, <2>1, HandleDisconnectedContract DEF OnDisconnected
  <2>3. stack' \in Stack
    BY <1>0, <1>6 DEF OnDisconnected, Stack, Links, Writes
  <2> QED
    BY <2>2, <2>3
<1>7. CASE OnDescriptorWrite
  <2>1. PICK ok \in MayFail("write") :
          /\ src' = HandleDescriptorWrite(src, ok)
          /\ stack' = [stack EXCEPT !.cccd = IF ok /\ stack.link = "up" THEN "on" ELSE "off"]
    BY <1>7 DEF OnDescriptorWrite
  <2>2. ok \in BOOLEAN
    BY FailuresAreBoolean
  <2>3. src' \in Source
    BY <1>0, <2>1, <2>2, HandleDescriptorWriteContract
  <2>4. stack' \in Stack
    BY <1>0, <2>1 DEF Stack, Links, Writes
  <2> QED
    BY <2>3, <2>4
<1>8. CASE OnCharacteristicChanged
  <2>1. PICK decodes \in MayFail("parse") : src' = HandleCharacteristicChanged(src, decodes)
    BY <1>8 DEF OnCharacteristicChanged
  <2>2. decodes \in BOOLEAN
    BY FailuresAreBoolean
  <2>3. src' \in Source
    BY <1>0, <2>1, <2>2, HandleCharacteristicChangedContract
  <2> QED
    BY <1>0, <1>8, <2>3 DEF OnCharacteristicChanged
<1>9. CASE PeerVanishes
  BY <1>0, <1>9 DEF PeerVanishes, Stack, Links
<1>10. CASE ServesOther
  <2>1. PICK r \in stack.rivals :
          stack' = [stack EXCEPT !.peer = r.peer, !.link = r.link, !.cccd = r.cccd,
                                 !.rivals = (@ \ {r}) \cup Aside]
    BY <1>10 DEF ServesOther
  <2>2. r \in [peer: Devices \cup {NoDevice}, link: Links, cccd: Writes]
    BY <1>0 DEF Stack
  <2>3. (stack.rivals \ {r}) \cup Aside
           \in SUBSET [peer: Devices \cup {NoDevice}, link: Links, cccd: Writes]
    BY <1>0, AsideType DEF Stack
  <2>4. stack' \in Stack
    BY <1>0, <2>1, <2>2, <2>3 DEF Stack
  <2> QED
    BY <1>0, <1>10, <2>4 DEF ServesOther
<1>11. CASE UNCHANGED bleVars
  BY <1>0, <1>11 DEF bleVars
<1> QED
  BY <1>1, <1>2, <1>3, <1>4, <1>5, <1>6, <1>7, <1>8, <1>9, <1>10, <1>11 DEF BleNext, LinkCallback

\* Type correctness, for every number of devices, every backoff, timeout and fault: each
\* field of BleAlertSource stays in the range the code gives it, the backoff between its
\* minimum and its ceiling included (scheduleReconnect()).
THEOREM BleTypeCorrect == BleSpec => []BleTypeOK
<1>1. BleInit => BleTypeOK
  BY InitialType DEF BleInit, BleTypeOK
<1> QED
  BY <1>1, TypeStep, PTL DEF BleSpec

\* What LinkInvariant says while every scan could be stopped, without the ranges,
\* which TypeStep takes care of, and with them.
LinkParts ==
    /\ NotStarted
    /\ stack.rivals = {}
    /\ IdleLink /\ HeldLink /\ PairingLink /\ LiveLink /\ Scanning /\ Waiting

Linked == BleTypeOK /\ LinkParts

\* The failures passed over are never forgotten.
LEMMA FailuresStay ==
    ASSUME BleTypeOK, [BleNext]_bleVars
    PROVE  stack.failed \subseteq stack'.failed
<1>1. stack \in Stack
  BY DEF BleTypeOK
<1>2. CASE Start
  BY <1>1, <1>2 DEF Start, Stack
<1>3. CASE SourceTick
  <2>1. PICK scanOk \in BOOLEAN, unpaired \in BOOLEAN, stopped \in BOOLEAN :
          stack' = IF ~ReconnectDue(Elapse(src)) THEN stack
                   ELSE TickedStack(scanOk, unpaired, stopped)
    BY <1>3, TickCalls
  <2>2. TickedStack(scanOk, unpaired, stopped).failed
           = Remember("unpair", unpaired) \cup Remember("stop", stopped)
    BY <1>1 DEF TickedStack, Stack
  <2> QED
    BY <1>1, <2>1, <2>2, RememberContract
<1>4. CASE OnScanResults
  <2>1. PICK paired \in PairOutcomes, stopped \in BOOLEAN :
          /\ paired \notin Devices => stack' = ScannedStack(stopped)
          /\ paired \in Devices => stack' = PairedStack(paired, stopped)
    BY <1>4, ScanResultCalls
  <2>2. /\ ScannedStack(stopped).failed = Remember("stop", stopped)
        /\ PairedStack(paired, stopped).failed = Remember("stop", stopped)
    BY <1>1 DEF ScannedStack, PairedStack, Stack
  <2> QED
    BY <1>1, <2>1, <2>2, RememberContract
<1>5. CASE LinkCallback /\ ~OnScanResults
  BY <1>1, <1>5 DEF LinkCallback, OnScanStateChange, OnConnected, OnDisconnected,
                    OnDescriptorWrite, PeerVanishes, ServesOther, Stack
<1>6. CASE OnCharacteristicChanged \/ UNCHANGED bleVars
  BY <1>6 DEF OnCharacteristicChanged, bleVars
<1> QED
  BY <1>2, <1>3, <1>4, <1>5, <1>6 DEF BleNext

\* A step before which every scan could be stopped, and every device unpaired if
\* it could be after it.
StillOne == ScanStops' /\ (SlotsFreed' => SlotsFreed)

\* The link invariant holds before start().
LEMMA InitialLink == BleInit => LinkInvariant
<1> SUFFICES ASSUME BleInit PROVE LinkInvariant
  OBVIOUS
<1>1. BleTypeOK
  BY InitialType DEF BleInit, BleTypeOK
<1>2. LinkParts
  BY DEF BleInit, InitialSource, InitialStack, LinkParts, NotStarted, IdleLink, HeldLink,
         PairingLink, LiveLink, Scanning, Waiting, AlertDiags
<1> QED
  BY <1>1, <1>2 DEF LinkInvariant, LinkParts, OneLink

\* start() keeps the link invariant.
LEMMA StartKeepsLink ==
    ASSUME Linked, StillOne, Start
    PROVE  LinkParts'
<1>1. PICK available \in BOOLEAN, scanOk \in BOOLEAN :
        /\ src' = StartSource(src, available, scanOk)
        /\ stack' = [stack EXCEPT !.radio = available /\ scanOk]
  BY FailuresAreBoolean DEF Start
<1>2. src = InitialSource /\ stack = InitialStack /\ src \in Source
  BY DEF Start, Linked, LinkParts, NotStarted, BleTypeOK
<1>3. /\ src.phase = "none" /\ src.state # "CONNECTED" /\ src.latches = {}
      /\ src.device = NoDevice /\ ~src.reconnectPending
  BY <1>2 DEF InitialSource
<1>4. /\ src' \in Source
      /\ Kept([src EXCEPT !.enabled = TRUE, !.phase = src'.phase], src')
      /\ src'.phase = IF available /\ scanOk THEN "scanning" ELSE "none"
      /\ src'.phase = "scanning" => src'.diagState = "SCAN"
      /\ Quiet(src')
  BY <1>1, <1>2, <1>3, StartSourceContract
<1>5. /\ src'.enabled
      /\ src'.latches = {}
      /\ src'.device = NoDevice
      /\ ~src'.reconnectPending
  BY <1>2, <1>3, <1>4 DEF Kept, Source
<1>6. /\ stack'.link = "idle"
      /\ stack'.rivals = {}
      /\ stack'.slots = {}
      /\ stack'.cccd = "off"
      /\ stack'.radio <=> available /\ scanOk
  BY <1>1, <1>2 DEF InitialStack
<1> QED
  BY <1>4, <1>5, <1>6 DEF StillOne, LinkParts, NotStarted, IdleLink, HeldLink, PairingLink,
                          LiveLink,
                          Scanning, Waiting, Quiet

\* A tick keeps it: a due reconnect finds the link idle and frees the slot it names.
LEMMA TickKeepsLink ==
    ASSUME Linked, StillOne, SourceTick
    PROVE  LinkParts'
<1> DEFINE due == ReconnectDue(Elapse(src))
<1>1. PICK scanOk \in BOOLEAN, unpaired \in BOOLEAN, stopped \in BOOLEAN :
        /\ src' = TickSource(src, scanOk)
        /\ stack' = IF ~due THEN stack ELSE TickedStack(scanOk, unpaired, stopped)
  BY TickCalls
<1>2. src \in Source /\ stack \in Stack /\ src.enabled
  BY DEF SourceTick, Linked, LinkParts, BleTypeOK
<1>3. /\ src' \in Source
      /\ src'.enabled
      /\ src'.latches = src.latches
      /\ src'.explicitDisconnectSeen = src.explicitDisconnectSeen
      /\ src'.device = src.device
      /\ src'.characteristic = src.characteristic
      /\ Quiet(src) => Quiet(src')
      /\ ~due => /\ src'.phase = src.phase
                 /\ src'.pendingUnpair = src.pendingUnpair
                 /\ src'.reconnectPending = src.reconnectPending
                 /\ src.diagState = "SCAN" => src'.diagState = "SCAN"
      /\ due => /\ src.reconnectPending
                /\ ~src'.reconnectPending
                /\ src'.phase = IF src.phase = "none" /\ scanOk THEN "scanning" ELSE src.phase
                /\ src.phase = "none" /\ src'.phase = "scanning" => src'.diagState = "SCAN"
  BY <1>1, <1>2, TickContract
<1> HIDE DEF due
<1>4. CASE ~due
  <2>1. stack' = stack
    BY <1>1, <1>4
  <2> QED
    BY <1>3, <1>4, <2>1 DEF Linked, LinkParts, SlotsFreed, NotStarted, IdleLink, HeldLink,
                            PairingLink, LiveLink, Scanning, Waiting, Quiet, IsConnected,
                            IsSubscribed
<1>5. CASE due
  <2>1. /\ stack.link = "idle" /\ src.phase = "none" /\ src.latches = {}
        /\ src.device = NoDevice /\ (SlotsFreed => stack.slots \subseteq {src.pendingUnpair})
        /\ stack.rivals = {}
    BY <1>3, <1>5 DEF Linked, LinkParts, Waiting, IdleLink
  <2>2. /\ stack'.link = "idle"
        /\ stack'.cccd = stack.cccd
        /\ stack'.rivals = {}
        /\ stack'.slots = IF unpaired THEN stack.slots \ {src.pendingUnpair} ELSE stack.slots
        /\ stack'.radio <=> scanOk \/ ~stopped
        /\ stack'.failed = Remember("unpair", unpaired) \cup Remember("stop", stopped)
    BY <1>1, <1>2, <1>5, <2>1 DEF Stack, TickedStack
  <2>3. stopped /\ (SlotsFreed' => unpaired)
    BY <1>2, <2>2, RememberContract DEF StillOne, ScanStops, SlotsFreed
  <2>4. stack'.radio <=> scanOk
    BY <2>2, <2>3
  <2>5. SlotsFreed' => stack'.slots = {}
    BY <2>1, <2>2, <2>3 DEF StillOne
  <2> QED
    BY <1>3, <1>5, <2>1, <2>2, <2>4, <2>5 DEF Linked, LinkParts, NotStarted, IdleLink, HeldLink,
                            PairingLink, LiveLink, Scanning, Waiting, Quiet, IsConnected,
                            IsSubscribed
<1> QED
  BY <1>4, <1>5

\* A scan result keeps it: no slot is held when it arrives.
LEMMA ScanResultsKeepLink ==
    ASSUME Linked, StillOne, OnScanResults
    PROVE  LinkParts'
<1>1. PICK paired \in PairOutcomes, stopped \in BOOLEAN :
        /\ src' = HandleScanResults(src, paired)
        /\ paired \notin Devices => stack' = ScannedStack(stopped)
        /\ paired \in Devices => stack' = PairedStack(paired, stopped)
  BY ScanResultCalls
<1>2. src \in Source /\ stack \in Stack /\ stack.radio
  BY DEF OnScanResults, Linked, LinkParts, BleTypeOK
<1>3. /\ src.enabled /\ src.phase = "scanning" /\ ~src.reconnectPending
      /\ stack.link = "idle" /\ (SlotsFreed => stack.slots = {}) /\ src.device = NoDevice
      /\ stack.rivals = {}
  BY <1>2 DEF Linked, LinkParts, Scanning, Waiting, IdleLink
<1>4. paired \in Devices \cup {NoDevice, "throws"}
  BY ScanOutcomes
<1>5. /\ src'.enabled
      /\ src'.pendingUnpair = src.pendingUnpair
      /\ ~src'.reconnectPending
      /\ Quiet(src')
      /\ paired \in Devices => src'.phase = "connecting" /\ src'.device = paired
      /\ paired \notin Devices => src'.phase = "none" /\ src'.device = NoDevice
  BY <1>1, <1>2, <1>3, <1>4, HandleScanResultsContract
<1>6. CASE paired \in Devices
  <2>1. /\ stack'.radio = ~stopped
        /\ stack'.link = "pairing"
        /\ stack'.peer = paired
        /\ stack'.slots = stack.slots \cup {paired}
        /\ stack'.cccd = "off"
        /\ stack'.rivals = {}
        /\ stack'.failed = Remember("stop", stopped)
    <3> DEFINE scanned == ScannedStack(stopped)
    <3>1. /\ scanned.rivals = {} /\ scanned.slots = stack.slots
          /\ scanned.radio = ~stopped /\ scanned.failed = Remember("stop", stopped)
          /\ {"link", "peer", "slots", "radio", "cccd", "rivals", "failed"} \subseteq DOMAIN scanned
      BY <1>2, <1>3 DEF Stack, ScannedStack
    <3>2. stack' = [scanned EXCEPT !.link = "pairing", !.peer = paired,
                                   !.slots = @ \cup {paired}, !.cccd = "off",
                                   !.rivals = @ \cup {}]
      BY <1>1, <1>3, <1>6 DEF PairedStack
    <3> HIDE DEF scanned
    <3> QED
      BY <3>1, <3>2
  <2>2. stopped /\ (SlotsFreed' => stack'.slots = {paired})
    BY <1>2, <1>3, <2>1, RememberContract DEF StillOne, ScanStops
  <2> QED
    BY <1>5, <1>6, <2>1, <2>2 DEF StillOne, LinkParts, NotStarted, IdleLink, HeldLink,
                                  PairingLink, LiveLink,
                            Scanning, Waiting, Quiet
<1>7. CASE paired \notin Devices
  <2>1. /\ stack'.radio = ~stopped
        /\ stack'.link = "idle"
        /\ stack'.slots = stack.slots
      /\ stack'.rivals = stack.rivals
        /\ stack'.cccd = "off"
        /\ stack'.rivals = {}
        /\ stack'.failed = Remember("stop", stopped)
    BY <1>1, <1>2, <1>3, <1>7 DEF Stack, ScannedStack
  <2>2. stopped /\ (SlotsFreed' => stack'.slots = {})
    BY <1>2, <1>3, <2>1, RememberContract DEF StillOne, ScanStops
  <2> QED
    BY <1>5, <1>7, <2>1, <2>2 DEF StillOne, LinkParts, NotStarted, IdleLink, HeldLink,
                                  PairingLink, LiveLink,
                            Scanning, Waiting, Quiet
<1> QED
  BY <1>6, <1>7

\* A scan state change keeps it.
LEMMA ScanStateChangeKeepsLink ==
    ASSUME Linked, StillOne, OnScanStateChange
    PROVE  LinkParts'
<1>1. PICK ok \in MayFail("scan") :
        /\ src' = HandleScanStateChange(src, ok)
        /\ stack' = [stack EXCEPT !.radio = ok]
  BY DEF OnScanStateChange
<1>2. src \in Source /\ stack \in Stack /\ stack.radio /\ ok \in BOOLEAN
  BY FailuresAreBoolean DEF OnScanStateChange, Linked, LinkParts, BleTypeOK
<1>3. /\ src.enabled /\ src.phase = "scanning" /\ ~src.reconnectPending
      /\ src.latches = {} /\ src.diagState = "SCAN"
      /\ stack.link = "idle" /\ (SlotsFreed => stack.slots = {}) /\ src.device = NoDevice
      /\ stack.rivals = {}
      /\ stack.cccd # "pending"
      /\ src.explicitDisconnectSeen \/ Quiet(src)
      /\ stack.cccd = "on" => src.explicitDisconnectSeen
  BY <1>2 DEF Linked, LinkParts, Scanning, Waiting, IdleLink, Quiet
<1>4. /\ src' \in Source
      /\ Kept([src EXCEPT !.phase = src'.phase], src')
      /\ Quiet(src) => Quiet(src')
      /\ src'.phase = IF ok THEN "scanning" ELSE "none"
      /\ ok => src'.diagState = "SCAN"
  BY <1>1, <1>2, <1>3, HandleScanStateChangeContract
<1>5. /\ src'.enabled /\ ~src'.reconnectPending /\ src'.latches = {}
      /\ src'.device = NoDevice
      /\ src'.explicitDisconnectSeen = src.explicitDisconnectSeen
  BY <1>2, <1>3, <1>4 DEF Kept, Source
<1>6. /\ stack'.radio <=> ok
      /\ stack'.link = "idle"
      /\ stack'.rivals = {}
      /\ SlotsFreed' => stack'.slots = {}
      /\ stack'.cccd = stack.cccd
  BY <1>1, <1>2, <1>3 DEF Stack, StillOne
<1> QED
  BY <1>3, <1>4, <1>5, <1>6 DEF StillOne, LinkParts, NotStarted, IdleLink, HeldLink, PairingLink,
                                LiveLink, Scanning, Waiting, Quiet

\* A CONNECTED keeps it, the first one and every duplicate.
LEMMA ConnectedKeepsLink ==
    ASSUME Linked, StillOne, OnConnected
    PROVE  LinkParts'
<1>1. PICK failed \in Failures :
        /\ src' = HandleConnected(src, stack.peer, failed)
        /\ stack' = [stack EXCEPT
             !.link = IF @ = "pairing" THEN "up" ELSE @,
             !.cccd = IF ~AlreadyEstablished(src) /\ failed = "none" THEN "pending" ELSE @]
  BY DEF OnConnected
<1>2. src \in Source /\ stack \in Stack /\ stack.link # "idle"
  BY DEF OnConnected, Linked, LinkParts, BleTypeOK
<1>3. /\ src.enabled /\ ~src.reconnectPending
      /\ stack.peer \in Devices /\ (SlotsFreed => stack.slots = {stack.peer})
      /\ stack.rivals = {}
      /\ ~stack.radio
  BY <1>2 DEF Linked, LinkParts, HeldLink, Waiting, Scanning
<1>4. /\ stack.cccd # "off" => AlreadyEstablished(src)
      /\ AlreadyEstablished(src) => stack.link # "pairing"
  <2>1. stack.link \in {"pairing", "up", "gone"}
    BY <1>2 DEF Stack, Links
  <2> QED
    BY <2>1 DEF Linked, LinkParts, PairingLink, LiveLink, AlreadyEstablished, IsConnected
<1>5. /\ src'.enabled
      /\ src'.device = stack.peer
      /\ ~src'.reconnectPending
      /\ AlreadyEstablished(src) => src'.phase = src.phase /\ src'.characteristic
      /\ ~AlreadyEstablished(src) => src'.phase = "connected"
      /\ ~AlreadyEstablished(src) /\ failed = "none" => src'.characteristic
  BY <1>1, <1>2, <1>3, HandleConnectedContract
<1>6. /\ stack'.link \in {"up", "gone"}
      /\ stack'.peer = stack.peer
      /\ stack'.slots = stack.slots
      /\ stack'.rivals = stack.rivals
      /\ ~stack'.radio
      /\ stack'.cccd # "off" => stack.cccd # "off" \/ (~AlreadyEstablished(src) /\ failed = "none")
  BY <1>1, <1>2, <1>3 DEF Stack, Links
<1>7. /\ IsConnected(src') /\ src'.phase # "scanning"
      /\ IsSubscribed(src') => src'.characteristic
  BY <1>5 DEF IsConnected, IsSubscribed, AlreadyEstablished
<1> QED
  BY <1>3, <1>4, <1>5, <1>6, <1>7 DEF StillOne, LinkParts, NotStarted, IdleLink, HeldLink,
                                      PairingLink,
                                      LiveLink, Scanning, Waiting

\* A DISCONNECTED keeps it unless a CCCD answer may still be on its way.
LEMMA DisconnectedKeepsLink ==
    ASSUME Linked, StillOne, OnDisconnected, "write" \notin Late
    PROVE  LinkParts'
<1>1. src \in Source /\ stack \in Stack /\ stack.link # "idle"
  BY DEF OnDisconnected, Linked, LinkParts, BleTypeOK
<1>2. /\ src.enabled /\ stack.peer \in Devices /\ (SlotsFreed => stack.slots = {stack.peer})
      /\ stack.rivals = {}
      /\ ~stack.radio /\ stack.peer # NoDevice
  BY <1>1, DevicesAssumption DEF Linked, LinkParts, HeldLink, Scanning
<1>3. /\ src'.enabled
      /\ src'.phase = "none"
      /\ src'.latches = {}
      /\ src'.device = NoDevice
      /\ src'.explicitDisconnectSeen
      /\ src'.pendingUnpair = stack.peer
      /\ src'.reconnectPending
  BY <1>1, <1>2, HandleDisconnectedContract DEF OnDisconnected
<1>4. /\ stack'.link = "idle"
      /\ stack'.slots = stack.slots
      /\ stack'.rivals = stack.rivals
      /\ ~stack'.radio
      /\ stack'.cccd # "pending"
  BY <1>1, <1>2 DEF OnDisconnected, InFlight, Stack
<1> QED
  BY <1>2, <1>3, <1>4 DEF StillOne, LinkParts, NotStarted, IdleLink, HeldLink, PairingLink,
                          LiveLink, Scanning, Waiting

\* The answer to the CCCD write keeps it: the link is still there.
LEMMA DescriptorWriteKeepsLink ==
    ASSUME Linked, StillOne, OnDescriptorWrite
    PROVE  LinkParts'
<1>1. PICK ok \in MayFail("write") :
        /\ src' = HandleDescriptorWrite(src, ok)
        /\ stack' = [stack EXCEPT !.cccd = IF ok /\ stack.link = "up" THEN "on" ELSE "off"]
  BY DEF OnDescriptorWrite
<1>2. src \in Source /\ stack \in Stack /\ stack.cccd = "pending" /\ ok \in BOOLEAN
  BY FailuresAreBoolean DEF OnDescriptorWrite, Linked, LinkParts, BleTypeOK
<1>3. stack.link \in {"up", "gone"}
  BY <1>2 DEF Linked, LinkParts, IdleLink, PairingLink, Stack, Links
<1>4. /\ src.enabled /\ ~src.reconnectPending /\ src.characteristic /\ IsConnected(src)
      /\ stack.peer \in Devices /\ (SlotsFreed => stack.slots = {stack.peer})
      /\ stack.rivals = {} /\ src.device = stack.peer
      /\ ~stack.radio
  BY <1>2, <1>3 DEF Linked, LinkParts, HeldLink, Waiting, Scanning, LiveLink
<1>5. /\ src'.enabled
      /\ src'.phase = IF ok THEN "subscribed" ELSE src.phase
      /\ src'.device = stack.peer
      /\ src'.characteristic
      /\ ~src'.reconnectPending
  BY <1>1, <1>2, <1>4, HandleDescriptorWriteContract
<1>6. /\ stack'.link = stack.link
      /\ stack'.peer = stack.peer
      /\ stack'.slots = stack.slots
      /\ stack'.rivals = stack.rivals
      /\ ~stack'.radio
  BY <1>1, <1>2, <1>4 DEF Stack
<1>7. IsConnected(src') /\ src'.phase # "scanning"
  BY <1>4, <1>5 DEF IsConnected
<1> QED
  BY <1>3, <1>4, <1>5, <1>6, <1>7 DEF StillOne, LinkParts, NotStarted, IdleLink, HeldLink,
                                      PairingLink,
                                      LiveLink, Scanning, Waiting

\* A step that changes nothing keeps it.
LEMMA StutterKeepsLink ==
    ASSUME Linked, StillOne, UNCHANGED bleVars
    PROVE  LinkParts'
BY DEF bleVars, Linked, LinkParts, SlotsFreed, NotStarted, IdleLink, HeldLink, PairingLink,
       LiveLink,
       Scanning, Waiting, IsConnected, IsSubscribed

\* A notification keeps it: one that comes late is ignored.
LEMMA CharacteristicChangedKeepsLink ==
    ASSUME Linked, StillOne, OnCharacteristicChanged
    PROVE  LinkParts'
<1>1. PICK decodes \in MayFail("parse") : src' = HandleCharacteristicChanged(src, decodes)
  BY DEF OnCharacteristicChanged
<1>2. /\ src \in Source /\ stack \in Stack /\ decodes \in BOOLEAN
      /\ stack.link # "gone" /\ stack.cccd = "on" /\ stack' = stack
  BY FailuresAreBoolean DEF OnCharacteristicChanged, Linked, LinkParts, BleTypeOK
<1>3. CASE src.explicitDisconnectSeen
  <2>1. src' = src
    BY <1>1, <1>2, <1>3, HandleCharacteristicChangedContract
  <2> QED
    BY <1>2, <2>1, StutterKeepsLink DEF bleVars
<1>4. CASE ~src.explicitDisconnectSeen
  <2>1. stack.link = "up"
    BY <1>2, <1>4 DEF Linked, LinkParts, IdleLink, PairingLink, Stack, Links
  <2>2. /\ src.enabled /\ ~src.reconnectPending /\ src.characteristic
        /\ stack.peer \in Devices /\ (SlotsFreed => stack.slots = {stack.peer})
      /\ stack.rivals = {} /\ src.device = stack.peer
        /\ ~stack.radio
    BY <1>2, <2>1 DEF Linked, LinkParts, HeldLink, Waiting, Scanning, LiveLink
  <2>3. /\ src'.enabled
        /\ src'.phase = "subscribed"
        /\ src'.device = stack.peer
        /\ src'.characteristic
        /\ ~src'.reconnectPending
    BY <1>1, <1>2, <1>4, <2>2, HandleCharacteristicChangedContract DEF KeptThroughNotification
  <2> QED
    BY <1>2, <2>1, <2>2, <2>3 DEF StillOne, LinkParts, NotStarted, IdleLink, HeldLink, PairingLink,
                                  LiveLink, Scanning, Waiting, IsConnected
<1> QED
  BY <1>3, <1>4

\* A peer that vanishes keeps it: nothing tells the source.
LEMMA PeerVanishesKeepsLink ==
    ASSUME Linked, StillOne, PeerVanishes
    PROVE  LinkParts'
<1>1. /\ src' = src
      /\ stack.link = "up"
      /\ stack'.link = "gone"
      /\ stack'.peer = stack.peer
      /\ stack'.slots = stack.slots
      /\ stack'.rivals = stack.rivals
      /\ stack'.radio = stack.radio
      /\ stack'.cccd = stack.cccd
  BY DEF PeerVanishes, Linked, LinkParts, BleTypeOK, Stack
<1> QED
  BY <1>1 DEF Linked, LinkParts, StillOne, NotStarted, IdleLink, HeldLink, PairingLink, LiveLink,
              Scanning, Waiting, IsConnected, IsSubscribed, InitialStack

\* Nothing stops a source that was started.
LEMMA EnabledStays ==
    ASSUME BleTypeOK, src.enabled, [BleNext]_bleVars
    PROVE  src'.enabled
<1>1. src \in Source /\ stack \in Stack /\ stack.peer \in Devices \cup {NoDevice}
  BY DEF BleTypeOK, Stack
<1>2. CASE SourceTick
  BY <1>1, <1>2, TickCalls, TickContract
<1>3. CASE OnScanResults
  BY <1>1, <1>3, ScanResultCalls, ScanOutcomes, HandleScanResultsContract
<1>4. CASE OnScanStateChange
  <2>1. PICK ok \in MayFail("scan") : src' = HandleScanStateChange(src, ok)
    BY <1>4 DEF OnScanStateChange
  <2>2. Kept([src EXCEPT !.phase = src'.phase], src')
    BY <1>1, <2>1, FailuresAreBoolean, HandleScanStateChangeContract
  <2> QED
    BY <1>1, <2>2 DEF Kept, Source
<1>5. CASE OnConnected
  BY <1>1, <1>5, HandleConnectedContract DEF OnConnected
<1>6. CASE OnDisconnected
  BY <1>1, <1>6, HandleDisconnectedContract DEF OnDisconnected
<1>7. CASE OnDescriptorWrite
  BY <1>1, <1>7, FailuresAreBoolean, HandleDescriptorWriteContract DEF OnDescriptorWrite
<1>8. CASE OnCharacteristicChanged
  BY <1>1, <1>8, FailuresAreBoolean, HandleCharacteristicChangedContract
     DEF OnCharacteristicChanged, KeptThroughNotification
<1>9. CASE PeerVanishes \/ ServesOther \/ UNCHANGED bleVars
  BY <1>9 DEF PeerVanishes, ServesOther, bleVars
<1>10. CASE Start
  BY <1>10 DEF Start
<1> QED
  BY <1>2, <1>3, <1>4, <1>5, <1>6, <1>7, <1>8, <1>9, <1>10 DEF BleNext, LinkCallback

\* A source that was started stays so, and one that was not has done nothing.
LEMMA StartedStays ==
    ASSUME BleTypeOK, NotStarted, [BleNext]_bleVars
    PROVE  NotStarted'
<1>1. src \in Source /\ stack \in Stack
  BY DEF BleTypeOK
<1>2. CASE src.enabled
  <2>1. src'.enabled
    BY <1>1, <1>2, EnabledStays
  <2> QED
    BY <2>1 DEF NotStarted
<1>3. CASE ~src.enabled
  <2>1. src = InitialSource /\ stack = InitialStack
    BY <1>3 DEF NotStarted
  <2>2. Start \/ UNCHANGED bleVars
    BY <1>3, <2>1 DEF BleNext, LinkCallback, SourceTick, OnScanResults, OnScanStateChange,
        OnConnected, OnDisconnected, OnDescriptorWrite, OnCharacteristicChanged, PeerVanishes,
        ServesOther, InitialStack
  <2>3. CASE Start
    <3>1. PICK available \in BOOLEAN, scanOk \in BOOLEAN :
            src' = StartSource(src, available, scanOk)
      BY <2>3, FailuresAreBoolean DEF Start
    <3>2. src.phase = "none" /\ src.state # "CONNECTED"
      BY <2>1 DEF InitialSource
    <3>3. src'.enabled
      BY <1>1, <3>1, <3>2, StartSourceContract DEF Kept, Source
    <3> QED
      BY <3>3 DEF NotStarted
  <2>4. CASE UNCHANGED bleVars
    BY <2>4 DEF bleVars, NotStarted
  <2> QED
    BY <2>2, <2>3, <2>4
<1> QED
  BY <1>2, <1>3

\* Every step keeps the link invariant.
LEMMA LinkStep ==
    ASSUME "write" \notin Late, LinkInvariant, [BleNext]_bleVars
    PROVE  LinkInvariant'
<1>a. BleTypeOK /\ BleTypeOK' /\ NotStarted'
  BY TypeStep, StartedStays DEF LinkInvariant
<1> SUFFICES ASSUME ScanStops'
             PROVE  LinkParts'
  BY <1>a DEF LinkInvariant, LinkParts, OneLink
<1>b. Linked /\ StillOne
  BY <1>a, FailuresStay DEF LinkInvariant, Linked, LinkParts, OneLink, StillOne, ScanStops,
                            SlotsFreed
<1>1. CASE Start
  BY <1>b, <1>1, StartKeepsLink
<1>2. CASE SourceTick
  BY <1>b, <1>2, TickKeepsLink
<1>3. CASE OnScanResults
  BY <1>b, <1>3, ScanResultsKeepLink
<1>4. CASE OnScanStateChange
  BY <1>b, <1>4, ScanStateChangeKeepsLink
<1>5. CASE OnConnected
  BY <1>b, <1>5, ConnectedKeepsLink
<1>6. CASE OnDisconnected
  BY <1>b, <1>6, DisconnectedKeepsLink
<1>7. CASE OnDescriptorWrite
  BY <1>b, <1>7, DescriptorWriteKeepsLink
<1>8. CASE OnCharacteristicChanged
  BY <1>b, <1>8, CharacteristicChangedKeepsLink
<1>9. CASE PeerVanishes
  BY <1>b, <1>9, PeerVanishesKeepsLink
<1>10. CASE ServesOther
  BY <1>b, <1>10 DEF ServesOther, Linked, LinkParts
<1>11. CASE UNCHANGED bleVars
  BY <1>b, <1>11, StutterKeepsLink
<1> QED
  BY <1>1, <1>2, <1>3, <1>4, <1>5, <1>6, <1>7, <1>8, <1>9, <1>10, <1>11 DEF BleNext, LinkCallback

\* The link invariant, as long as the stack delivers no answer to a CCCD write after the
\* disconnect: until a setScanState(OFF) throws (stopScanForConnect() and serviceReconnect()
\* go on regardless), what the phase, the handles and the scan flag of the client say of the
\* link is true of it in every state, whatever other call fails; an unpairDevice() that throws
\* costs a slot and nothing else.
THEOREM LinkInvariantHolds ==
    ASSUME "write" \notin Late
    PROVE  BleSpec => []LinkInvariant
<1>1. LinkInvariant /\ [BleNext]_bleVars => LinkInvariant'
  BY LinkStep
<1> QED
  BY <1>1, InitialLink, PTL DEF BleSpec

\* scheduleReconnect() and releasePendingDevice(): the client can always name the one
\* workarea slot the stack holds, over every sequence of drops and reconnects, until a
\* setScanState(OFF) or an unpairDevice() throws.
THEOREM NoWorkareaLeakHolds ==
    ASSUME "write" \notin Late
    PROVE  BleSpec => []NoWorkareaLeak
<1>1. LinkInvariant => NoWorkareaLeak
  <2> SUFFICES ASSUME LinkInvariant, ScanStops, SlotsFreed
               PROVE  /\ stack.slots \subseteq {src.device, src.pendingUnpair}
                      /\ Cardinality(stack.slots) <= 1
    BY DEF NoWorkareaLeak
  <2>1. PICK d : stack.slots \subseteq {d} /\ d \in {src.device, src.pendingUnpair}
    BY DEF LinkInvariant, OneLink, IdleLink, HeldLink
  <2>2. Cardinality({d}) = 1 /\ IsFiniteSet({d})
    BY FS_Singleton
  <2>3. Cardinality(stack.slots) <= 1
    BY <2>1, <2>2, FS_Subset
  <2> QED
    BY <2>1, <2>3
<1> QED
  BY <1>1, LinkInvariantHolds, PTL

\* startScan() and handleScanResults(): the scanning flag and the radio never disagree, so no
\* later scan is declined as a repeat, until a setScanState(OFF) throws.
THEOREM ScanningMatchesRadioHolds ==
    ASSUME "write" \notin Late
    PROVE  BleSpec => []ScanningMatchesRadio
<1>1. LinkInvariant => ScanningMatchesRadio
  BY DEF LinkInvariant, OneLink, Scanning, ScanningMatchesRadio
<1> QED
  BY <1>1, LinkInvariantHolds, PTL

\* isLinkAlive() is never true without a link.
THEOREM AliveMeansLinkHolds ==
    ASSUME "write" \notin Late
    PROVE  BleSpec => []AliveMeansLink
<1>1. LinkInvariant => AliveMeansLink
  BY DEF LinkInvariant, OneLink, BleTypeOK, Stack, Links, IdleLink, PairingLink, AliveMeansLink,
         IsLinkAlive,
         HasExplicitDisconnect, IsConnected, AlertDiags
<1> QED
  BY <1>1, LinkInvariantHolds, PTL

\* handleConnectedStateChanged(): a duplicate CONNECTED is always recognised once subscribed.
THEOREM SubscribedHasCharacteristicHolds ==
    ASSUME "write" \notin Late
    PROVE  BleSpec => []SubscribedHasCharacteristic
<1>1. LinkInvariant => SubscribedHasCharacteristic
  BY DEF LinkInvariant, OneLink, BleTypeOK, Stack, Links, IdleLink, PairingLink, LiveLink,
         SubscribedHasCharacteristic, IsSubscribed
<1> QED
  BY <1>1, LinkInvariantHolds, PTL

\* No step but a notification shortens the backoff.
LEMMA OnlyAlertsShortenBackoff ==
    ASSUME LinkInvariant, BleNext, ~OnCharacteristicChanged
    PROVE  src'.reconnectDelay >= src.reconnectDelay
<1>1. src \in Source /\ stack \in Stack /\ src.reconnectDelay \in Nat
  <2>1. src \in Source /\ stack \in Stack
    BY DEF LinkInvariant, BleTypeOK
  <2> QED
    BY <2>1, TimesAssumption DEF Source
<1>2. CASE Start
  <2>1. PICK available \in MayFail("scan"), scanOk \in MayFail("scan") :
          src' = StartSource(src, available, scanOk)
    BY <1>2 DEF Start
  <2>2. src.phase = "none" /\ src.state # "CONNECTED"
    BY <1>2 DEF Start, LinkInvariant, NotStarted, InitialSource
  <2>3. Kept([src EXCEPT !.enabled = TRUE, !.phase = src'.phase], src')
    <3>1. available \in BOOLEAN /\ scanOk \in BOOLEAN
      BY FailuresAreBoolean
    <3> QED
      BY <1>1, <2>1, <2>2, <3>1, StartSourceContract
  <2> QED
    BY <1>1, <2>3 DEF Kept, Source
<1>3. CASE SourceTick
  <2>1. src.enabled
    BY <1>3 DEF SourceTick
  <2> QED
    BY <1>1, <1>3, <2>1, TickCalls, TickContract
<1>4. CASE OnScanResults
  BY <1>1, <1>4, HandleScanResultsContract, ScanOutcomes, ScanResultCalls
<1>5. CASE OnScanStateChange
  <2>1. PICK ok \in MayFail("scan") : src' = HandleScanStateChange(src, ok)
    BY <1>5 DEF OnScanStateChange
  <2>2. Kept([src EXCEPT !.phase = src'.phase], src')
    BY <1>1, <2>1, FailuresAreBoolean, HandleScanStateChangeContract
  <2> QED
    BY <1>1, <2>2 DEF Kept, Source
<1>6. CASE OnConnected
  BY <1>1, <1>6, HandleConnectedContract DEF OnConnected, Stack
<1>7. CASE OnDisconnected
  BY <1>1, <1>7, HandleDisconnectedContract DEF OnDisconnected, Stack
<1>8. CASE OnDescriptorWrite
  BY <1>1, <1>8, FailuresAreBoolean, HandleDescriptorWriteContract DEF OnDescriptorWrite
<1>9. CASE PeerVanishes \/ ServesOther
  <2>1. src' = src
    BY <1>9 DEF PeerVanishes, ServesOther
  <2> QED
    BY <1>1, <2>1
<1> QED
  BY <1>2, <1>3, <1>4, <1>5, <1>6, <1>7, <1>8, <1>9 DEF BleNext, LinkCallback

\* onNotificationBytes() is the only place where the backoff gets shorter, and only with an
\* alert that decoded on a live link, until a setScanState(OFF) throws.
THEOREM BackoffResetNeedsAlertHolds ==
    ASSUME "write" \notin Late
    PROVE  BleSpec => BackoffResetNeedsAlert
<1> DEFINE Reset == ScanStops /\ src'.reconnectDelay < src.reconnectDelay =>
                      src'.lastParseOk /\ stack.link = "up" /\ src'.reconnectDelay = ReconnectMin
<1>1. LinkInvariant /\ BleTypeOK' /\ [BleNext]_bleVars => [Reset]_bleVars
  <2> SUFFICES ASSUME LinkInvariant, BleTypeOK', BleNext, ScanStops,
                      src'.reconnectDelay < src.reconnectDelay
               PROVE  src'.lastParseOk /\ stack.link = "up" /\ src'.reconnectDelay = ReconnectMin
    OBVIOUS
  <2>1. /\ src \in Source /\ stack \in Stack
        /\ src.reconnectDelay \in Nat /\ src'.reconnectDelay \in Nat
    <3>1. src \in Source /\ src' \in Source /\ stack \in Stack
      BY DEF LinkInvariant, BleTypeOK
    <3> QED
      BY <3>1, TimesAssumption DEF Source
  <2>2. OnCharacteristicChanged
    BY <2>1, OnlyAlertsShortenBackoff
  <2>3. PICK decodes \in MayFail("parse") : src' = HandleCharacteristicChanged(src, decodes)
    BY <2>2 DEF OnCharacteristicChanged
  <2>4. ~src.explicitDisconnectSeen /\ decodes
    BY <2>1, <2>3, FailuresAreBoolean, HandleCharacteristicChangedContract
  <2>5. stack.link = "up"
    BY <2>1, <2>2, <2>4 DEF OnCharacteristicChanged, LinkInvariant, OneLink, IdleLink,
                                PairingLink, Stack, Links
  <2> QED
    BY <2>1, <2>3, <2>4, <2>5, FailuresAreBoolean, HandleCharacteristicChangedContract
<1> QED
  BY <1>1, BleTypeCorrect, LinkInvariantHolds, PTL DEF BleSpec, BackoffResetNeedsAlert

\* Calls that do not fail are not passed over.
LEMMA NothingPassedOver ==
    ASSUME "stop" \notin Faults, "unpair" \notin Faults
    PROVE  BleSpec => [](stack.failed = {})
<1>1. BleInit => stack.failed = {}
  BY DEF BleInit, InitialStack
<1>2. BleTypeOK /\ stack.failed = {} /\ [BleNext]_bleVars => (stack.failed = {})'
  <2> SUFFICES ASSUME BleTypeOK, stack.failed = {}, [BleNext]_bleVars
               PROVE  stack'.failed = {}
    OBVIOUS
  <2>0. stack \in Stack /\ MayFail("stop") = {TRUE} /\ MayFail("unpair") = {TRUE}
    BY DEF BleTypeOK, MayFail
  <2>1. Remember("stop", TRUE) = {} /\ Remember("unpair", TRUE) = {}
    BY DEF Remember
  <2>2. CASE Start
    BY <2>0, <2>2 DEF Start, Stack
  <2>3. CASE SourceTick
    <3>1. PICK scanOk \in MayFail("scan") :
            stack' = IF ~ReconnectDue(Elapse(src)) THEN stack ELSE TickedStack(scanOk, TRUE, TRUE)
      BY <2>0, <2>3 DEF SourceTick, TickedStack
    <3>2. TickedStack(scanOk, TRUE, TRUE).failed = {}
      BY <2>0, <2>1 DEF TickedStack, Stack
    <3> QED
      BY <3>1, <3>2
  <2>4. CASE OnScanResults
    BY <2>0, <2>1, <2>4 DEF OnScanResults, Stack
  <2>5. CASE LinkCallback /\ ~OnScanResults
    BY <2>0, <2>5 DEF LinkCallback, OnScanStateChange, OnConnected, OnDisconnected,
                      OnDescriptorWrite, PeerVanishes, ServesOther, Stack
  <2>6. CASE OnCharacteristicChanged \/ UNCHANGED bleVars
    BY <2>6 DEF OnCharacteristicChanged, bleVars
  <2> QED
    BY <2>2, <2>3, <2>4, <2>5, <2>6 DEF BleNext
<1> QED
  BY <1>1, <1>2, BleTypeCorrect, PTL DEF BleSpec

\* scheduleReconnect() and serviceReconnect(): if neither pairing, unpairing nor the scan fails, a
\* started source without a link always has a rescan armed or running.
THEOREM NeverStrandedHolds ==
    ASSUME "write" \notin Late,
           "pair" \notin Faults, "unpair" \notin Faults, "scan" \notin Faults, "stop" \notin Faults
    PROVE  BleSpec => []NeverStranded
<1>1. BleInit => NeverStranded
  BY DEF BleInit, InitialSource, NeverStranded
<1>2. LinkInvariant /\ stack.failed = {} /\ NeverStranded /\ [BleNext]_bleVars => NeverStranded'
  <2> SUFFICES ASSUME LinkInvariant, stack.failed = {}, NeverStranded, [BleNext]_bleVars,
                      src'.enabled, stack'.link = "idle"
               PROVE  src'.reconnectPending \/ stack'.radio
    BY DEF NeverStranded
  <2>0. src \in Source /\ stack \in Stack /\ MayFail("scan") = {TRUE}
        /\ MayFail("stop") = {TRUE} /\ MayFail("unpair") = {TRUE}
    BY DEF LinkInvariant, BleTypeOK, MayFail
  <2>a. OneLink /\ SlotsFreed
    BY DEF LinkInvariant, ScanStops, SlotsFreed
  <2>1. CASE Start
    BY <2>0, <2>1 DEF Start, Stack
  <2>2. CASE SourceTick
    <3>1. /\ src' = TickSource(src, TRUE)
          /\ ~ReconnectDue(Elapse(src)) => stack' = stack
          /\ ReconnectDue(Elapse(src)) => stack' = TickedStack(TRUE, TRUE, TRUE)
      BY <2>0, <2>2 DEF SourceTick, TickedStack
    <3>2. CASE ReconnectDue(Elapse(src))
      <4>1. src.reconnectPending
        BY <2>0, <2>2, <3>2, TickContract DEF SourceTick
      <4>2. src.phase = "none"
        BY <2>a, <4>1 DEF OneLink, Waiting
      <4> QED
        BY <2>0, <3>1, <3>2, <4>2 DEF Stack, TickedStack
    <3>3. CASE ~ReconnectDue(Elapse(src))
      <4>1. stack' = stack
        BY <3>1, <3>3
      <4>2. src'.reconnectPending = src.reconnectPending
        BY <2>0, <2>2, <3>1, <3>3, TickContract DEF SourceTick
      <4> QED
        BY <2>2, <4>1, <4>2 DEF NeverStranded, SourceTick
    <3> QED
      BY <3>2, <3>3
  <2>3. CASE OnScanResults
    <3>1. PairOutcomes = Devices \ stack.slots
      BY <2>a, <2>3, DevicesAssumption DEF PairOutcomes, OnScanResults, OneLink, Scanning
    <3>2. PICK paired \in PairOutcomes, stopped \in BOOLEAN :
            paired \in Devices => stack' = PairedStack(paired, stopped)
      BY <2>3, ScanResultCalls
    <3>3. stack'.link = "pairing"
      <4>1. stack' = PairedStack(paired, stopped)
        BY <3>1, <3>2
      <4>2. "link" \in DOMAIN ScannedStack(stopped)
        BY <2>0 DEF Stack, ScannedStack
      <4> HIDE DEF ScannedStack
      <4> QED
        BY <4>1, <4>2 DEF PairedStack
    <3> QED
      BY <3>3
  <2>4. CASE OnScanStateChange
    BY <2>0, <2>4 DEF OnScanStateChange, Stack
  <2>5. CASE OnConnected
    BY <2>0, <2>5 DEF OnConnected, Stack
  <2>6. CASE OnDisconnected
    <3>1. src.enabled
      BY <2>a, <2>6 DEF OnDisconnected, OneLink, HeldLink
    <3> QED
      BY <2>0, <2>6, <3>1, HandleDisconnectedContract DEF OnDisconnected, Stack
  <2>7. CASE OnDescriptorWrite
    <3>1. stack'.link = stack.link
      BY <2>0, <2>7 DEF OnDescriptorWrite, Stack
    <3> QED
      BY <2>a, <2>7, <3>1 DEF OnDescriptorWrite, OneLink, IdleLink
  <2>8. CASE OnCharacteristicChanged
    <3>1. PICK decodes \in MayFail("parse") : src' = HandleCharacteristicChanged(src, decodes)
      BY <2>8 DEF OnCharacteristicChanged
    <3>2. KeptThroughNotification(src, src')
      BY <2>0, <3>1, FailuresAreBoolean, HandleCharacteristicChangedContract
    <3> QED
      BY <2>8, <3>2 DEF OnCharacteristicChanged, KeptThroughNotification, NeverStranded
  <2>9. CASE PeerVanishes
    BY <2>0, <2>9 DEF PeerVanishes, Stack
  <2>10. CASE ServesOther
    BY <2>a, <2>10 DEF ServesOther, OneLink
  <2>11. CASE UNCHANGED bleVars
    BY <2>11 DEF bleVars, NeverStranded
  <2> QED
    BY <2>1, <2>2, <2>3, <2>4, <2>5, <2>6, <2>7, <2>8, <2>9, <2>10, <2>11
       DEF BleNext, LinkCallback
<1> QED
  BY <1>1, <1>2, LinkInvariantHolds, NothingPassedOver, PTL DEF BleSpec
=============================================================================
