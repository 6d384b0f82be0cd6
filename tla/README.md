# SKYSHIELD verification

TLA+ models of SKYSHIELD, the TLC configurations that check them and the proofs
TLAPS checks. SKYSHIELD warns a wearer of drones: a detector reports over a
serial line to an ESP32 bridge, the bridge encodes an alert in CBOR and notifies
it over BLE, and a Garmin watch decodes, ranks, shows and vibrates it. The bridge
is C++ (`esp32-bridge/`), the watch app Monkey C (`garmin-app/source/`). Paths
below are relative to the repository.

## 1. Inventory

### Components, their state, their operations

| component | source | state | operations |
|---|---|---|---|
| BLE client | `BleAlertSource.mc` | lifecycle flags, `hasEver*` latches, device, characteristic, `_devicePendingUnpair`, backoff, stage timer, activity age, last parse result | `start`, `tick`, and the stack's callbacks: scan results, scan state, connected state, descriptor write, characteristic changed |
| operator state machine | `SkyShieldView.mc` | `_operationalState` (LIVE, MONITOR, LINK LOST), last valid alert, splash, display cycle, track | 250 ms timer, redraw, hide and show |
| link-state haptics | `VibrationEngine.mc` 87-214 | last system event, stability window | trigger LOST, arm, cancel and service RESTORED |
| threat haptics | `VibrationEngine.mc` 216-412 | last alert, cooldown, busy time | `triggerForAlert`, immediate pulse |
| alert priority | `AlertEngine.mc` | priority alert, held alert, hold times | `startBle`, `tick`, `getActiveAlert` |
| CBOR decoder | `CborAlertDecoder.mc` | none | decode |
| latency monitor | `LatencyMonitor.mc` | last sequence, baseline, packet being timed, counters | record received, rendered |
| resource ledger | `BleResourceLog.mc` | counters, crash flag | disabled in this build |
| DW01 direct source | `Dw01BleSource.mc`, `DW01Parser.mc` | receive buffer | dormant: `start()` refuses |
| helpers | `AlertHistory.mc`, `ConnectionStateService.mc`, ... | small | small |
| bridge BLE server | `esp32-bridge/src/main.cpp` | connected, subscribed, connection handle, MTU seen, moment of subscription, sequence | host-task callbacks, `publishAlert` on the loop task |
| codec and tables | `SkyShieldCodec.h`, `SkyShieldProtocol.h` | none | encode, decode |
| adapters and parsers | `TTSKW07*.h`, `DW01*.h`, `SerialInjectAdapter.h`, `RawSerialCapture.h`, `MockAlertProvider.h` | line buffers | `poll` |

### Interactions

* The watch is single-threaded. The Connect IQ BLE stack calls the client back;
  the view's timer calls `AlertEngine.tick()`, which calls the client's `tick()`
  and takes its latest alert; a redraw resolves the operator state and drives the
  rhythms. These three interleave in every order.
* The client keeps a device handle for each workarea slot the stack holds. It
  unpairs a dead one on a later tick, never inside a callback.
* The bridge has two tasks without a lock: NimBLE's host task writes the
  connection globals, the loop task reads them while it publishes.
* Bridge and watch share the sequence number, the timestamp and the CBOR map.

### What is hard here

Disconnects are normal operation: recovery has to be automatic, unlimited and
visible. The hard behaviours are duplicate and missing callbacks (two CONNECTED
without a disconnect, a peer that vanishes unreported), callbacks that arrive
after the disconnect, calls into the stack that throw, a view that is hidden while
time runs on, and the bridge's data races. `PROJECT.json` lists each as a hazard at
its line, with the properties that look for it.

### What makes each component correct

* BLE client: it can always name the slot the stack holds; its flags agree with
  the radio and the link; a drop always leads to a new subscription; the backoff
  shortens only with a decoded alert. The code swallows two exceptions on which the
  first two rest, of `setScanState(OFF)` and of `unpairDevice()`.
* Operator state: a drop that lasts is shown, a link that holds is not shown as
  lost, silence is not loss.
* Link rhythms: LOST and RESTORED alternate, RESTORED needs an unbroken link for
  the whole window, a drop the wearer was not told of is felt.
* Bridge: nothing of a connection survives into the next; no notification before
  the MTU is settled, and none withheld for ever; consecutive numbers.
* Alert engine: no lower alert displaces a held higher one, and nothing that may
  take its place waits for ever.
* Screen and threat haptics: what is kept comes to be shown, what is shown is felt,
  and silence clears the screen; nothing of an old session comes back.
* Adapters and parsers: an alert is made of a line exactly when the line has all it
  needs, and says what the line said, whatever was in the storage before.
* Codec and decoder: what one encodes the other decodes, and skips what a newer bridge
  adds; a packet that was cut or is of another version becomes no alert, of either decoder.
* Line capture: every whole line once, in order, however the bytes arrive.
* Latency monitor: what it reports as missed was not received.

## 2. Modules

| module | models | notes |
|---|---|---|
| `BleAlertSource` | the BLE client and, as external, the stack | the object is a record; each method an operator from record to record with the method's name; a callback composes the calls it makes, in their order |
| `LinkHaptics` | link half of `VibrationEngine` | operators on a record |
| `WatchLink` | client, view and link rhythms together | extends the two above; actions are the timer, the redraw, hide, show and the callbacks |
| `LinkEpisode` | abstract: what the rhythms promise | `WatchLink` implements it (`EpisodeSpec`) |
| `Bridge` | BLE server and `publishAlert` | one step per access to a shared global |
| `BridgeToWatch` | the numbers of the alerts from the bridge to the watch | composes `Bridge` and `LatencyMonitor` |
| `LatencyMonitor` | the watch's latency log | operators on a record |
| `LatencyClocks` | the two clocks the monitor is fed from | |
| `LineQueue` | abstract: a queue of lines | `RawSerialCapture` implements it (`CaptureDelivers`) |
| `RawSerialCapture` | the line capture, a byte a step | |
| `SkyShieldProtocol` | the fields of an alert, their limits and defaults | pure |
| `TTSKW07Parser`, `DW01Parser` | the two line formats, their tables | pure, recursive functions |
| `DetectorAdapters` | `poll()` of the three adapters and the mock provider | storage that `poll()` does not fill keeps what it held |
| `SkyShieldCodec` | `encodeAlert()`, `decodeAlert()` | packets are sequences of data items with their bytes counted |
| `CborAlertDecoder` | the decoder of the watch | over the same items |
| `AlertPipeline` | detector, bridge, radio, watch: one alert from its line to the watch's model | composes the five above |
| `AlertHold` | abstract: what is promised of the alert that is kept | `AlertEngine` implements it (`PriorityIsHeld`) |
| `AlertEngine`, `ThreatHaptics` | priorities and holds; the threat half of `VibrationEngine` | operators on records |
| `AlertScreen` | engine, RF session, display cycle and threat pulses together | actions are a notification, the timer, the redraw, a link rhythm |
| `StaleAlerts` | `AlertScreen` with a history of what a session received | |
| `BleAlertSource_proofs` | the theorems about the client | first a contract for each method, one lemma per method; the steps use the contracts only |
| `WatchLink_proofs` | the theorems about the watch's link view | uses `BleAlertSource_proofs` |
| `BridgeToWatch_proofs` | the theorems about the bridge, and about the numbers between bridge and watch | one lemma per part of `BridgeInvariant` |
| `AlertScreen_proofs` | the theorems about the screen and its engine | |
| `Indices` | lemmas: induction over the naturals for sets, minima and maxima, pieces of sequences | no model of its own |
| `RawSerialCapture_proofs` | the theorems about the line capture | uses `Indices` |
| `AlertPipeline_proofs` | the theorems about an alert on its way to the radio | uses `Indices` |
| `AlertLink_proofs` | the theorems about its packet and the two decoders | uses `AlertPipeline_proofs` |
| `MCBle`, `MCWatch`, `MCBridge`, `MCCapture`, `MCPipeline`, `MCScreen`, `MCStale`, `MCLatency` | TLC instances | `MCPipeline` also holds the lines and what each says |

Operators under the words "Fault variant" belong to no specification: each is a
plausible mistake in the code, and `PROJECT.json` ("mutants") says which property
fails when it replaces the real definition.

### State and code

`BleAlertSource.src` has the fields of the class. `phase` stands for the lifecycle
flags (`setLifecycleFlags()` is called with five combinations only), `latches` for
the `hasEver*` flags. `_uptimeMs` occurs only in differences, so ages and
countdowns are kept in its place; each saturates one past the largest value the
code compares it with. `_bleStatus` follows from `diagState`. `stack` is the part
of the BLE stack the code can observe: link, paired slots, radio, and the CCCD
write with its answer. Which calls fail is the constant `Faults`: `scan` and `stop`
are `setScanState()` to on and off, `pair` and `unpair` the two device calls,
`discover` a step of the discovery or the request to write, `write` the answer to it,
`parse` an alert that does not decode, `vanish` a peer that is gone unreported. Which
callbacks may arrive after a disconnect is `Late`.

Two failures are passed over by the code and remembered only by the history
`stack.failed`. A throwing `unpairDevice()` comes after the reference to the device is
cleared: the slot stays and nothing names it, and with every slot taken `pairDevice()`
fails. After a throwing `setScanState(OFF)` the radio goes on, so that the next scan
result pairs a second device; `stack.rivals` are the links of the first ones, and
`ServesOther` lets the stack speak of one of them next.

`WatchLink.view` keeps of the alert engine whether it holds an alert, whether a
fresh one or a held one is waiting, and how old the last activity is. Which alert
it prefers is left open.
While the view is hidden its timer is stopped and the clock is not (`HiddenTime`).
`upFor` is a history variable that nothing reads but the refinement.

`Bridge.host` and `Bridge.loop` are program counters. The host task runs one
callback at a time, and both overloads of `onConnect` and `onDisconnect`;
`publishAlert` reads the connected flag, the subscribed flag, the MTU flag, the
handle and (twice) the moment of subscription, each in a step. `unbroken`,
`counting` and `subscribedFor` only serve the properties. A request for an MTU
exchange changes nothing here but that an MTU event may come. NimBLE-Arduino may
re-advertise by itself after the disconnect callback; the model does not count on
it. `BridgeToWatch` lets any notification be lost, because the code ignores what
`notify()` says, and reads numbers on the watch as the signed ones they are there.

`RawSerialCapture` reads one byte a step, because bytes arrive while `poll()` reads.
CR and LF are one byte here, as the code treats them alike, and a tab is `Junk`.

In `AlertPipeline` a line is a sequence of tokens (`TTSKW07Parser`: labels, runs of
digits, words, blanks, each with its length in bytes) or of characters
(`DW01Parser`), and a text is what it is made of with its length in bytes: that is
what the parsers scan and the limits count. A packet is a sequence of CBOR items;
`got` of an item is how many of its bytes have arrived, so that a packet can be cut
at any byte. A field that is absent is `Absent`, never 0. `alert` is the storage
that is handed to `poll()`: it starts each poll with whatever the previous one
left, which stands for the uninitialised local of `pollDetector()`. The clock wraps
at `WordLimit`, 131,072 instead of 2^32 (TLC's integers have 32 bits), which is
above every number the parsers and limits compare with; the sequence and the
timestamp are negative on the watch from half of it on. A number at or above it takes
an argument of eight bytes, which only an entry of a newer bridge can hold: the reader
of the bridge takes it and that of the watch does not (`Readable`), so the two skip an
unknown entry each in its own way (`SkipUnknown`, `WatchSkipsUnknown`). Such an entry
may stand before any other and at the end (`EntryStarts`).

In `AlertEngine` and `AlertScreen` the moments the code stores are ages, each
saturating where the code stops telling them apart. `fresh` and `changed` stand for
the object identities that the engine and the view compare. `AlertScreen` leaves out
the link state and hiding, which are in `WatchLink`; `WatchLink` in turn leaves open
which alert is preferred, so what holds there holds for every order of priorities.

## 3. Runs

One tick is one second in `ble_recovery` and `ble_pair_fault`, and their times are the
code's (backoff 1 to 8 s, stage timeout 20 s, LINK LOST after 15 s). `ble_faults`, whose
faults take it far afield, has a backoff of 1, 2 and 4, LINK LOST after 5 and a stage
timeout of 6, which keeps their order and lets every backoff be doubled, reached and
capped; it counts states that differ only in the names of the two devices once
(symmetry; it checks safety only). The watch and bridge runs scale
times down and keep their order, which is all the code compares: LIVE 2 ticks,
stability 3, LINK LOST 4, stage timeout 5; MTU wait 2. Two device handles, because
one device is dead and one is new; two connection handles likewise, and either may
be given twice in a row. The sequence number wraps at 4 instead of 2^32, so that the
wrap and the change of sign happen. In the screen runs a tick is 2.5 s, rounded up:
holds of 4, 3, 2 and 1 ticks (`CRITICAL` to `LOW`), cooldown 2, repeat 4, session and
display cycle 2.

| run | states | checks |
|---|---|---|
| `ble_faults` | 1,679,461 | every fault, two of them swallowed, a vanishing peer, notifications in flight: `BleTypeOK`, `LinkInvariant`, `NoWorkareaLeak`, `ScanningMatchesRadio`, `AliveMeansLink`, `SubscribedHasCharacteristic`, `BackoffResetNeedsAlert` |
| `ble_recovery` | 3,592 | calls succeed, alerts may be undecodable: `NeverStranded`, and `ResubscribedAfterDrop` (every drop is followed by a subscription) |
| `watch_episode` | 81,661 | view on screen, faults: `EpisodeSpec` (the refinement), `UntoldDropIsFelt`, `WatchTypeOK` |
| `watch_shown` | 132,008 | hidden and shown at any time: `DropIsShown`, `RecoveryIsShown` |
| `bridge_publish` | 468,804 | the races: `GlobalsMatchLink`, `NoNotifyBeforeMtu`, `AdvertisesAgain`, `SubscriberIsNotified`, `BridgeTypeOK`; and on the watch `MissedIsWhatWasSkipped` |
| `capture_lines` | 68,973 | every stream of up to 5 bytes (two letters, blank, line end, junk) with every moment of arrival, a line of 2: `CaptureDelivers` (the refinement), `CaptureTypeOK` |
| `pipeline_alerts` | 6,638 | 62 MTUs, which cut the packets at every byte of the shorter ones and of the ends of the longest; values at both sides of every threshold; two moments of the clock and of the sequence, one before the wrap; entries of a newer bridge that are long, wide and nested, at every place, with numbers of 1 to 8 bytes; lines whose description holds the label of a missing field: `AlertSaysWhatTheLineSaid`, `ModelTextMatchesThreat`, `LatencyIsMeasured`, `EveryAlertIsSent`, `WatchShowsTheAlert`, `OnlyWholePacketsAreAccepted`, `DecodersAgree`, `PipelineTypeOK` |
| `screen_alerts` | 44,139 | three alerts, one CRITICAL and UNKNOWN, two HIGH and FPV that differ in class, so of equal rank: `PriorityIsHeld` (the refinement), `NoHigherAlertWaits`, `KeptAlertIsShown`, `ShownAlertIsFelt`, `SilenceClearsTheScreen`, `ScreenTypeOK` |

`MissedIsWhatWasSkipped` relates both ends of the link: over any sequence of
subscriptions, deferred, refused and lost notifications, the watch counts exactly
the alerts it did not receive. It does so across the wrap at 2^32, since the number
it expects next wraps too; only a gap at 2^31, where the number turns negative, is
not counted. What it counts is not packet loss alone, as
`docs/latency-measurement.md:175` and `LatencyMonitor.mc:103` have it: alerts that
were published while nobody was subscribed take numbers as well (`main.cpp:692`).

The invariants of `ble_faults` and `BackoffResetNeedsAlert` are asked for until a
`setScanState(OFF)` throws (`ScanStops`); what they say of slots also until an
`unpairDevice()` does (`SlotsFreed`). The run goes on after that, and without the two
conditions TLC refutes `ScanningMatchesRadio` in 4 steps (connecting, and the radio
scans), `NoWorkareaLeak` in 5 (a second device is paired), `AliveMeansLink` in 6 and
`SubscribedHasCharacteristic` in 7 (the flags are of one link, the callbacks of
another). Types and the bounds of the backoff hold throughout.

`UntoldDropIsFelt` is about a drop that comes when LINK LOST is not the last rhythm
that was felt. VibrationEngine.mc:40-41 promises more, a drop "announced immediately,
every time"; after a recovery that was not announced the next drop is taken for a
repeat, which is what `watch_no_restore` leads to.

`WatchShowsTheAlert` is about packets whose numbers need no more than four bytes, and
`DecodersAgree` says where the two decoders part: at an eight-byte argument.

The other runs show where the code does not do what the repository says of it; TLC
finds each of them violated, and the finding in `PROJECT.json` quotes the line.

| run | shows |
|---|---|
| `ble_pair_fault` | `pairDevice()` fails once: the scan is off, no reconnect is armed, recovery ends |
| `watch_no_restore` | drop, reconnect and hold without LINK RESTORED: the window is armed while CONNECTING, cancelled, and never armed again; the next drop's LOST is then suppressed as a repeat |
| `screen_stale` | a session that begins after another one ended shows and vibrates the old session's alert for its first cycle: the activity is noted before the new alert is stored |
| `latency_render` | the time from packet to screen is the difference of two clocks: `_uptimeMs` of the client and `System.getTimer()` |

Smaller observations, which no run is kept for.

* Recovery. An answer to the CCCD write that arrived after the disconnect would set
  the connected and subscribed flags of a link that is gone, and the rescan would be
  declined (`BleAlertSource.mc:906`; `ble_recovery` fails with `Late = {"write"}`).
  Whether Connect IQ delivers one is not known. A discovery step that fails once
  leaves the client connected and not subscribed as long as the link lasts (814). A
  scan that fails in a due reconnect is not retried (539). After a swallowed
  `setScanState(OFF)` (1200) the watch may also come to believe it scans with the radio
  off. `docs/ble-reconnect.md:91-110`
  describes a read of the last alert after a reconnect that `BleAlertSource.mc:918-926`
  no longer does.
* Link rhythms. The stability window runs while the view is hidden, so LINK RESTORED
  plays on the first tick after it is shown, for a link that may be one tick old
  (`SkyShieldView.mc:106`). A drop and recovery behind a LIVE alert is neither shown
  nor felt (502). A notification that cannot be decoded makes the error state, and
  LINK LOST plays (575). A drop while the view is hidden is not felt afterwards, since
  `onShow` starts from LINK LOST and no transition follows. A peer that vanishes
  unreported shows MONITOR; `docs/MVP-BASELINE.md:28-46` accepts this.
* Bridge. An alert deferred for the MTU is dropped before `setValue()`, so the
  readable value is not the most recent alert (`main.cpp:651` and 685). A client that
  unsubscribes and subscribes again on one link can be notified at once, because
  `bleSubscribedAtMs` is still the old one between lines 435 and 448 (the watch never
  unsubscribes). The sizes in the comments at `main.cpp:46` and 92 (56 and 69 bytes)
  are those of an older protocol: packets now exceed 100 bytes (`SkyShieldProtocol.h`).
* Parsers. `TTSKW07Parser.h:414` says a description that is too long is dropped; it is
  cut to 63 bytes, as `docs/ttskw07-format.md:218` says. When the `R:` or `T:` of a line is missing,
  one in the description is taken for it, although `TTSKW07Parser.h:340-341` and
  `docs/ttskw07-format.md:59-60` say it "cannot be mistaken for a field". A `T` with one digit
  in a DW01 record reads the `C` of the next field as its second. The typed `AUTEL`
  gives an UNKNOWN threat (`SerialInjectAdapter.h:137`) where the parsers give AUTEL.
* Decoder. `CborAlertDecoder.mc:261-262` skips the value of an unknown key "so framing
  survives rather than failing the whole packet"; with a number of 2^32 or more anywhere
  in it the whole packet fails (474-477), on the watch only (`SkyShieldCodec.h:254`).
* Screen. An equal HIGH alert does not refresh the hold, and of two equal alerts only
  band and class are compared, so AUTEL after DJI is not taken as an update. The
  cooldown of the pulses is forgotten when a session ends. `compactBand()` gives MULTI
  and UNKNOWN the same key.

### Fairness

* The watch's timer ticks, and each tick's redraw happens while the view is
  visible: weak fairness of `SplashTick`, `TimerTick`, `OnUpdate`. Connect IQ repeats
  the timer, and `onTimerTick` requests the update. Hidden, nothing is assumed.
* The bridge is in range: a running scan finds it (weak), and it is paired in the end
  and its CCCD write answered (strong, because a drop may disable either again and
  again). Nothing makes a link drop, and nothing makes an alert arrive.
* On the bridge both tasks are scheduled, the clock runs, the stack reports a drop,
  and the detector keeps reporting (weak). No fairness makes a central connect,
  subscribe or exchange the MTU.
* The adapters poll in every iteration of the bridge's loop (weak fairness of
  `Poll`); nothing makes a byte arrive.
* For the screen, the timer ticks and its redraw happens (weak fairness of
  `TimerTick` and `OnUpdate`); nothing makes a notification arrive.
  `KeptAlertIsShown`, `ShownAlertIsFelt` and `SilenceClearsTheScreen` are about the
  behaviours from some moment on, which their premises name, since the code promises
  nothing to an alert that is replaced meanwhile.

## 4. Proofs

`BleAlertSource_proofs`, for any set of devices, any times with
`ReconnectMin <= ReconnectMax` and any `Faults`:

| theorem | assumes of the environment | establishes |
|---|---|---|
| `BleTypeCorrect` | nothing | `[]BleTypeOK` |
| `LinkInvariantHolds` | `"write" \notin Late` | `[]LinkInvariant`, which speaks of the link until a scan cannot be stopped |
| `NoWorkareaLeakHolds`, `ScanningMatchesRadioHolds`, `AliveMeansLinkHolds`, `SubscribedHasCharacteristicHolds` | the same | the invariants of `ble_faults`, with their conditions |
| `BackoffResetNeedsAlertHolds` | the same | the action property of `ble_faults` |
| `NeverStrandedHolds` | also `"pair", "unpair", "scan", "stop" \notin Faults` | `[]NeverStranded` |

The safety properties are not inductive alone. `NoWorkareaLeak` needs to know that no
slot is held when a scan result arrives, which needs the scan to run only on an idle
link, which needs a pending reconnect to exclude a link; all of it needs every scan to
have stopped when it was told to (`ScanStops`). `LinkInvariant` says, for each
state of the link, what phase, handles and flags the client has then: `IdleLink`,
`HeldLink`, `PairingLink`, `LiveLink`, and across them `Scanning` and `Waiting`, together
`OneLink`; and `NotStarted`. `LinkStep` has one lemma per action of `BleNext`, each from the contracts
of the methods it calls. The one step that needs the assumption is the disconnect: an
answer to the CCCD write still in flight would set the phase of an idle link, and
recovery would fail. The other assumptions of `NeverStranded` are needed likewise
(`ble_pair_fault`; a slot that is not freed makes `pairDevice()` fail as well).

`NeverStranded` also carries the part of recovery that is safety.

`BridgeToWatch_proofs` about the bridge, for any set of connection handles, any MTU wait
and any sequence limit, whatever the central does:

| theorem | establishes |
|---|---|
| `BridgeTypeCorrect` | `[]BridgeTypeOK` |
| `GlobalsMatchLinkHolds` | `[]GlobalsMatchLink` |
| `NoNotifyBeforeMtuHolds` | `[]NoNotifyBeforeMtu` |

`GlobalsMatchLink` speaks only of the host task at rest. `HostInvariant` says for
each statement of each callback what the globals hold there, given what the stack
has done since the callback was queued (`StackInvariant`). `NoNotifyBeforeMtu` needs
two facts more: while a moment of subscription is stored and its link is up, no
more time has passed for the bridge than for the central (`WaitInvariant`), and
what the loop task has read of an unbroken subscription still holds when it
notifies (`LoopInvariant`), although a callback may run between any two reads.

The same module about the numbers, for any even number of sequence numbers (`NumberAssumption`;
2^32 in the code):

| theorem | establishes |
|---|---|
| `BridgeIsImplemented` | `SystemSpec => BridgeSpec`: the theorems above hold with the watch at the other end |
| `MissedIsWhatWasSkippedHolds` | `MissedIsWhatWasSkipped` |

`NumberInvariant` says that the number of the next alert is the one received last,
read as unsigned, plus one and the numbers skipped, modulo the limit.
`CountedIsSkipped` is then arithmetic, by the signs of the last number and of this
one; `Remainder` replaces each `%` by a case distinction first.

`AlertScreen_proofs`, for any alerts with a known severity and threat
(`AlertAssumption`, which is what the decoder leaves), any holds and any times:

| theorem | establishes |
|---|---|
| `ScreenTypeCorrect` | `[]ScreenTypeOK` |
| `NoHigherAlertWaitsHolds` | `[]NoHigherAlertWaits` |
| `PriorityIsHeldSafely` | the initial states and the steps are those of `AlertHold`: the safety half of `PriorityIsHeld` |

`NoHigherAlertWaits` needs to know too that an alert the engine has seen leaves it
with one (`Settled`): the engine is only ever empty before the first alert.
`UpdateKeepsOrTakes` is the contract of `updatePriorityAlert()` that the redraw and
the tick both use; in the tick, time passes first, so the tick that ends a hold may
also use it (`HoldEndsNow`).

`WatchLink_proofs`, for any devices, intervals, splash and window, and any `Faults` and
`Late`:

| theorem | assumes of the environment | establishes |
|---|---|---|
| `WatchRunsTheClient` | nothing | `WatchSpec => BleSpec`: the theorems about the client hold on the watch |
| `WatchTypeCorrect` | nothing | `[]WatchTypeOK` |
| `RhythmsComeInEpisodes` | `MayHide = FALSE`, `"stop" \notin Faults` | `EpisodeSpec`: the watch implements `LinkEpisode` |

`EpisodeInvariant` adds two stories to the types. `LinkStory` says what the view has
noticed of the link (`upFor`, LIVE or MONITOR against the client's link), `WindowStory`
that a pending window is no longer than the link has been up, unless a disconnect is
still to be noticed by the next tick. Without `MayHide = FALSE` the refinement is false:
a hidden view misses a loss, which a variant of `watch_episode` with the view hidden shows;
and with `"stop"` two links at once lose and restore it in an order of their own.

`RawSerialCapture_proofs`, for any alphabet, buffer and stream:

| theorem | establishes |
|---|---|
| `CaptureTypeCorrect` | `[]CaptureTypeOK` |
| `CaptureImplementsQueue` | `LineQueueSafety`, the safety half of `CaptureDelivers` |

`CaptureInvariant` says that the buffer is the open line as far as the capture has read
(`BufferIsTheOpenLine`) and that what was delivered is the lines taken so far
(`LinesAreTaken`). The abstract lines are a recursive function of the stream; what it is
for a longer stream is proved by induction (`Indices`): a set of naturals that holds 0
and the successor of each of its elements holds all, because a set of naturals that is
not empty has a least element, which the library proves of well-founded relations. The
library's own induction theorem cannot be used here, since it takes an operator.

`AlertPipeline_proofs`, for any lines made of tokens, any moments and any clock of
at least 17 bits (`AdaptersAssumption`, `WordAssumption`); of the value of an absent field it is
assumed that it is no text of the DW01's table (`ModelTextAssumption`):

| theorem | establishes |
|---|---|
| `PipelineTypeCorrect` | `[]PipelineTypeOK` |
| `ModelTextAlwaysMatches` | `[]ModelTextMatchesThreat` |
| `LatencyIsAlwaysMeasured` | `[]LatencyIsMeasured` |
| `AlertsAreAlwaysSent` | `EveryAlertIsSent` |

One lemma for each parser and adapter says that it leaves a whole alert, whatever the
line (`ParsedLineIsWhole`, `ParsedRecordIsWhole`, `BuiltIsWhole`, `MockIsWhole`, `PollIs`);
`PipelineInvariant` only has to add that the alert has all its fields. `Total`, the sum
behind the bytes of a packet, is a recursive function again: its total over two packets
is the sum of the two (`TotalOfBoth`), so `AlertFits` adds up what each entry takes at
most, fewer than 140 bytes of 180.

`AlertLink_proofs`, for any alert of any adapter, any packet made of one, any MTU and any
entry of a newer bridge:

| theorem | establishes |
|---|---|
| `WatchAlwaysShowsTheAlert` | `[]WatchShowsTheAlert` |
| `OnlyWholePacketsBecomeAlerts` | `[]OnlyWholePacketsAreAccepted` |
| `DecodersAlwaysAgree` | `[]DecodersAgree` |

Besides what `AlertPipeline_proofs` assumes, they need that no line takes half a word of
milliseconds, which is 24 days (the watch reads a longer one as a negative number), and that
an entry of a newer bridge is one data item, nested no deeper than a reader follows
(`PipelineAssumption`); that half a word holds every 16-bit code (`WordAssumption`);
that such an entry is shorter than half a word of bytes, whatever its numbers are; and
that null is none of the values it is told apart from (`NullAssumption`,
`SourceAssumption`). The argument has five steps.

* A packet is a header and its entries one after another: `IsPacket` says at which item
  each begins, and `PacketIsLaid` that `encodeAlert` makes one.
* Both decoders are a recursive function over the entries. `Standing` is what a reader has
  found after some of them, and `EntryIsRead` that the next entry takes it to the next
  place; `PathIsRead` follows a whole packet, for both readers at once, in the order of any
  path through the entries.
* A cut packet lacks the bytes of some item. Up to the entry of that item it is read as the
  whole one is; `CutFails` says that the entry fails then, and that a reader that has failed
  stays so. `OtherFails` says the same of the version.
* An entry more is skipped. `skipItem` keeps a stack of open items, and what is on it
  depends only on the items it has passed (`StacksAgree`), so the entry ends at the same item
  in a packet as alone. `StartsAre` says that wherever `EntryStarts` puts it, an entry of the
  packet begins or the packet ends; `NewerIsRead` gives the path around it. At an entry with
  an eight-byte argument the path of the watch ends, and that of the bridge does not.
* `CoreGivesBack` and `WatchShows` compare what was found with the alert, field by field and
  table by table.

`LinkInvariant` then carries what the steps need from one another: what is polled can be
shown (`CanBeShown`: its fields are whole, it has a source, and its latency is a number on
the watch too), and what is on the air is its packet (`Carries`). Without them the three
properties, which only speak of what has arrived, are not inductive.

Model-checked only: all liveness, since fairness is beyond the prover, and with it the other
halves of `PriorityIsHeld` and `CaptureDelivers`; and `AlertSaysWhatTheLineSaid`, which
compares the parsers with what the instance says each of its lines means, and says nothing
of other lines. Every invariant that a passing run checks is also proved.

## 5. Not modelled

* `stop()` and `stopScan()` of the client, which nothing calls; the log, the payload
  previews and all text that is only shown; drawing; `BleResourceLog`, which is
  disabled; `PRIORITY_TEST_MODE` of the bridge, which is off; the test and replay
  tools.
* The watch's `Dw01BleSource` and `DW01Parser.mc`: dormant, nothing constructs them.
* `AlertHistory`, the settings, the mock source of the watch (`USE_MOCK_FALLBACK` is
  false), the track stability: helpers that nothing here depends on.
* Time inside a callback: a callback is one step on the watch, as Connect IQ runs it.
* A restart of the bridge under a running watch: its numbers begin again at 1, which
  the monitor takes for no gap.

## 6. Plan

Proofs that are left: an independent definition of what a line says, for any line, to take
the place of the meanings that `MCPipeline` lists, and the parsers shown to implement it.

Models that are left: a restart of the bridge under a running watch; one model of an
alert from the line to the wrist while links come and go, which now is two
(`AlertPipeline` follows one alert, `AlertScreen` starts at the notification); the
DW01 sources of the watch, if they are ever switched on.
