------------------------------- MODULE Bridge -------------------------------
(***************************************************************************)
(* The bridge's BLE server and publishing path, esp32-bridge/src/main.cpp. *)
(*                                                                         *)
(* Two tasks share the globals in the record bridge without a lock: the    *)
(* NimBLE host task, which runs the callbacks one after the other, and the *)
(* Arduino loop task, which publishes.  Each access to a global that the   *)
(* other task can tell apart from the next one is a step of its own: host  *)
(* is where the host task stands in a callback, loop where publishAlert()  *)
(* stands.  stack is external: NimBLE, and the central it is connected to. *)
(*                                                                         *)
(* An alert is its sequence number.  Every alert the parsers produce fits  *)
(* the payload buffer, so encodeAlert() succeeds, and exceeds the 20 bytes *)
(* the default MTU carries.  The log is left out, and with it the counters *)
(* only the log shows.                                                     *)
(***************************************************************************)
EXTENDS Naturals

CONSTANTS
    Handles,              \* connection handles the stack gives out
    InvalidHandle,        \* BLE_CONN_HANDLE_INVALID
    SettleWait,           \* MTU_SETTLE_WAIT_MS, in ticks
    SequenceLimit,        \* 2^32, where sequence wraps
    AdvertisingFailures   \* how many calls of startAdvertising() in a row may fail

ASSUME BridgeAssumption ==
    /\ InvalidHandle \notin Handles
    /\ SettleWait \in Nat \ {0}
    /\ SequenceLimit \in Nat \ {0}
    /\ AdvertisingFailures \in 0..2

VARIABLES
    bridge,     \* the globals both tasks use, and sequence
    host,       \* the next step of the host task
    loop,       \* the next step of the loop task and what it holds
    stack       \* the NimBLE stack and the central

bridgeVars == <<bridge, host, loop, stack>>

HostSteps == {"idle", "connect", "connectHandle", "mtuHandle", "mtuObserved",
              "subscribe", "subscribeStamp", "unsubscribe",
              "disconnect", "clearSubscribed", "clearHandle", "clearObserved",
              "clearStamp", "advertise", "retry", "disconnectAgain"}
LoopSteps == {"idle", "connected", "subscribed", "observed", "mtu", "stamped", "waited",
              "setValue", "notify"}

Globals == [
    connected: BOOLEAN,                     \* bleClientConnected
    subscribed: BOOLEAN,                    \* bleClientSubscribed
    handle: Handles \cup {InvalidHandle},   \* bleConnHandle
    mtuObserved: BOOLEAN,                   \* mtuExchangeObserved
    stamped: BOOLEAN,                       \* bleSubscribedAtMs # 0
    waited: 0..SettleWait,                  \* millis() - bleSubscribedAtMs, if stamped
    sequence: 0..(SequenceLimit - 1)]

\* possible is notifyPossible.  unbroken, for the properties: one subscription has
\* lasted since the alert was polled.
Loop == [at: LoopSteps, possible: BOOLEAN, unbroken: BOOLEAN]

NimBLE == [
    advertising: BOOLEAN,
    link: {"down", "up", "lost"},           \* lost: the disconnect is not reported yet
    reported: BOOLEAN,                      \* the CONNECT event has been delivered
    handle: Handles \cup {InvalidHandle},
    large: BOOLEAN,                         \* the MTU is above the default
    exchanged: BOOLEAN,                     \* an exchange took place on this link
    counting: BOOLEAN,                      \* the CCCD has been written on this link
    subscribed: BOOLEAN,                    \* the CCCD
    subscribedFor: 0..SettleWait]           \* ticks since the first CCCD write

InitialGlobals == [
    connected |-> FALSE, subscribed |-> FALSE, handle |-> InvalidHandle,
    mtuObserved |-> FALSE, stamped |-> FALSE, waited |-> 0,
    sequence |-> 1 % SequenceLimit]

DownLink == [
    advertising |-> FALSE, link |-> "down", reported |-> FALSE, handle |-> InvalidHandle,
    large |-> FALSE, exchanged |-> FALSE, counting |-> FALSE, subscribed |-> FALSE,
    subscribedFor |-> 0]

\* setup() has returned: initBle() advertises.
BridgeInit ==
    /\ bridge = InitialGlobals
    /\ host = "idle"
    /\ loop = [at |-> "idle", possible |-> FALSE, unbroken |-> FALSE]
    /\ stack = [DownLink EXCEPT !.advertising = TRUE]

-----------------------------------------------------------------------------
(* The central and the stack.                                               *)

\* A connection ends the advertising.  It may come as soon as the advertising is
\* up, while the host task is still in the disconnect callback.
CentralConnects ==
    /\ stack.advertising
    /\ stack.link = "down"
    /\ \E h \in Handles : stack' = [DownLink EXCEPT !.link = "up", !.handle = h]
    /\ UNCHANGED <<bridge, host, loop>>

LinkLost ==
    /\ stack.link = "up"
    /\ stack' = [stack EXCEPT !.link = "lost", !.subscribed = FALSE, !.large = FALSE]
    /\ loop' = [loop EXCEPT !.unbroken = FALSE]
    /\ UNCHANGED <<bridge, host>>

\* The host task takes the next event.  An MTU event may precede the CONNECT.
HostTakesEvent ==
    /\ host = "idle"
    /\ \/ /\ stack.link # "down" /\ ~stack.reported
          /\ host' = "connect"
          /\ stack' = [stack EXCEPT !.reported = TRUE]
          /\ UNCHANGED loop
       \/ /\ stack.link = "up" /\ ~stack.exchanged
          /\ host' = "mtuHandle"
          /\ \E large \in BOOLEAN :
                stack' = [stack EXCEPT !.exchanged = TRUE, !.large = large]
          /\ UNCHANGED loop
       \/ /\ stack.link = "up" /\ stack.reported /\ ~stack.subscribed
          /\ host' = "subscribe"
          /\ stack' = [stack EXCEPT !.subscribed = TRUE, !.counting = TRUE]
          /\ UNCHANGED loop
       \/ /\ stack.link = "up" /\ stack.subscribed
          /\ host' = "unsubscribe"
          /\ stack' = [stack EXCEPT !.subscribed = FALSE]
          /\ loop' = [loop EXCEPT !.unbroken = FALSE]
       \/ /\ stack.link = "lost" /\ stack.reported
          /\ host' = "disconnect"
          /\ stack' = DownLink
          /\ UNCHANGED loop
    /\ UNCHANGED bridge

-----------------------------------------------------------------------------
(* The host task inside a callback.                                         *)

HostStep(from, to) == host = from /\ host' = to /\ UNCHANGED loop

MarkConnected(b) == [b EXCEPT !.connected = TRUE, !.subscribed = FALSE,
                              !.stamped = FALSE, !.waited = 0]

\* The overload of onConnect() without a descriptor, then the one with it.
OnConnect ==
    /\ \/ /\ HostStep("connect", "connectHandle")
          /\ bridge' = MarkConnected(bridge)
       \/ /\ HostStep("connectHandle", "idle")
          /\ bridge' = [MarkConnected(bridge) EXCEPT !.handle = stack.handle]
    /\ UNCHANGED stack

OnMTUChange ==
    /\ \/ /\ HostStep("mtuHandle", "mtuObserved")
          /\ bridge' = [bridge EXCEPT !.handle = stack.handle]
       \/ /\ HostStep("mtuObserved", "idle")
          /\ bridge' = [bridge EXCEPT !.mtuObserved = TRUE]
    /\ UNCHANGED stack

\* The subscribed flag is set some time before the moment of subscription.
OnSubscribe ==
    /\ \/ /\ HostStep("subscribe", "subscribeStamp")
          /\ bridge' = [bridge EXCEPT !.subscribed = TRUE,
                            !.handle = IF @ = InvalidHandle THEN stack.handle ELSE @]
       \/ /\ HostStep("subscribeStamp", "idle")
          /\ bridge' = [bridge EXCEPT !.stamped = TRUE, !.waited = 0]
       \/ /\ HostStep("unsubscribe", "idle")
          /\ bridge' = [bridge EXCEPT !.subscribed = FALSE,
                            !.handle = IF @ = InvalidHandle THEN stack.handle ELSE @]
    /\ UNCHANGED stack

\* Fault variants: a field that is not reset for the next connection.
KeepsObserved(b) == b

ClearObserved(b) == [b EXCEPT !.mtuObserved = FALSE]

KeepsSubscribed(b) == b

ClearSubscribed(b) == [b EXCEPT !.subscribed = FALSE]

AlreadyDisconnected(b) == ~b.connected /\ b.handle = InvalidHandle

\* Both overloads of onDisconnect() end here; the second finds nothing to do.
HandleDisconnect ==
    /\ \/ /\ AlreadyDisconnected(bridge)
          /\ \/ HostStep("disconnect", "disconnectAgain")
             \/ HostStep("disconnectAgain", "idle")
          /\ UNCHANGED bridge
       \/ /\ ~AlreadyDisconnected(bridge)
          /\ \/ HostStep("disconnect", "clearSubscribed")
             \/ HostStep("disconnectAgain", "clearSubscribed")
          /\ bridge' = [bridge EXCEPT !.connected = FALSE]
       \/ /\ HostStep("clearSubscribed", "clearHandle")
          /\ bridge' = ClearSubscribed(bridge)
       \/ /\ HostStep("clearHandle", "clearObserved")
          /\ bridge' = [bridge EXCEPT !.handle = InvalidHandle]
       \/ /\ HostStep("clearObserved", "clearStamp")
          /\ bridge' = ClearObserved(bridge)
       \/ /\ HostStep("clearStamp", "advertise")
          /\ bridge' = [bridge EXCEPT !.stamped = FALSE, !.waited = 0]
    /\ UNCHANGED stack

\* Fault variant: the first failure is the last attempt.
NoRetry(ok) == "disconnectAgain"

AfterAdvertising(ok) == IF ok THEN "disconnectAgain" ELSE "retry"

MayWork(attempt) == IF attempt <= AdvertisingFailures THEN BOOLEAN ELSE {TRUE}

RestartAdvertising ==
    /\ \/ \E ok \in MayWork(1) :
            /\ HostStep("advertise", AfterAdvertising(ok))
            /\ stack' = [stack EXCEPT !.advertising = ok]
       \/ \E ok \in MayWork(2) :
            /\ HostStep("retry", "disconnectAgain")
            /\ stack' = [stack EXCEPT !.advertising = ok]
    /\ UNCHANGED bridge

-----------------------------------------------------------------------------
(* The loop task: pollDetector() and publishAlert().                        *)

\* getPeerMTU() knows no MTU of a handle whose link is gone.
CurrentMtuIsLarge ==
    bridge.handle # InvalidHandle /\ bridge.handle = stack.handle /\ stack.large

LoopStep(from, to) ==
    /\ loop.at = from
    /\ loop' = [loop EXCEPT !.at = to]
    /\ UNCHANGED <<bridge, host, stack>>

PollDetector ==
    /\ loop.at = "idle"
    /\ loop' = [at |-> "connected", possible |-> FALSE, unbroken |-> stack.subscribed]
    /\ UNCHANGED <<bridge, host, stack>>

NotifyPossible ==
    \/ LoopStep("connected", IF bridge.connected THEN "subscribed" ELSE "setValue")
    \/ /\ loop.at = "subscribed"
       /\ loop' = [loop EXCEPT !.possible = bridge.subscribed,
                               !.at = IF bridge.subscribed THEN "observed" ELSE "setValue"]
       /\ UNCHANGED <<bridge, host, stack>>

\* Fault variant: the wait never times out.
NeverWaited(b) == FALSE

\* bleSubscribedAtMs is read again: if the link dropped since it was found set,
\* the difference is the uptime, which is longer than the wait.
Waited(b) == ~b.stamped \/ b.waited = SettleWait

\* A deferred alert is dropped: the loop is idle again.
MtuSettledOrTimedOut ==
    \/ LoopStep("observed", IF bridge.mtuObserved THEN "setValue" ELSE "mtu")
    \/ LoopStep("mtu", IF CurrentMtuIsLarge THEN "setValue" ELSE "stamped")
    \/ LoopStep("stamped", IF bridge.stamped THEN "waited" ELSE "idle")
    \/ LoopStep("waited", IF Waited(bridge) THEN "setValue" ELSE "idle")

\* Fault variant: an alert that is notified keeps its number for the next one.
SameSequence(n) == IF loop.possible THEN n ELSE (n + 1) % SequenceLimit

NextSequence(n) == (n + 1) % SequenceLimit

\* The alert becomes readable; without a subscriber that is all.
SetValue ==
    /\ loop.at = "setValue"
    /\ loop' = [loop EXCEPT !.at = IF loop.possible THEN "notify" ELSE "idle"]
    /\ bridge' = [bridge EXCEPT !.sequence = IF loop.possible THEN @ ELSE NextSequence(@)]
    /\ UNCHANGED <<host, stack>>

\* notify() reaches whoever is subscribed by now, if anyone (BridgeToWatch).
Notify ==
    /\ loop.at = "notify"
    /\ loop' = [loop EXCEPT !.at = "idle"]
    /\ bridge' = [bridge EXCEPT !.sequence = NextSequence(@)]
    /\ UNCHANGED <<host, stack>>

PublishAlert == NotifyPossible \/ MtuSettledOrTimedOut \/ SetValue \/ Notify

-----------------------------------------------------------------------------
\* Fault variant: the ceiling is missing.
OneMore(n) == n + 1

UpToWait(n) == IF n < SettleWait THEN n + 1 ELSE n

Tick ==
    /\ bridge' = [bridge EXCEPT !.waited = IF bridge.stamped THEN UpToWait(@) ELSE @]
    /\ stack' = [stack EXCEPT !.subscribedFor = IF stack.counting THEN UpToWait(@) ELSE @]
    /\ UNCHANGED <<host, loop>>

HostCallback ==
    OnConnect \/ OnMTUChange \/ OnSubscribe \/ HandleDisconnect \/ RestartAdvertising

BridgeNext ==
    \/ CentralConnects \/ LinkLost
    \/ HostTakesEvent \/ HostCallback
    \/ PollDetector \/ PublishAlert
    \/ Tick

BridgeSpec == BridgeInit /\ [][BridgeNext]_bridgeVars

\* Both tasks are scheduled, the clock runs, and the stack reports a drop.  That
\* alerts keep coming is what a detector in a threat does.
ReportsDrop == HostTakesEvent /\ stack.link = "lost"

BridgeFairness ==
    /\ WF_bridgeVars(HostCallback)
    /\ WF_bridgeVars(ReportsDrop)
    /\ WF_bridgeVars(PollDetector)
    /\ WF_bridgeVars(PublishAlert)
    /\ WF_bridgeVars(Tick)

BridgeFairSpec == BridgeSpec /\ BridgeFairness

-----------------------------------------------------------------------------
(* Properties.                                                              *)

\* Every global stays in the range the code gives it.
BridgeTypeOK ==
    /\ bridge \in Globals
    /\ host \in HostSteps
    /\ loop \in Loop
    /\ stack \in NimBLE

\* Between two callbacks the globals say of the link what the stack would: no
\* flag and no handle of a connection survives into the next, whichever of the
\* events came first and however fast the central came back.
GlobalsMatchLink ==
    host = "idle" =>
        /\ bridge.connected <=> stack.reported
        /\ bridge.handle = IF stack.reported \/ stack.exchanged
                           THEN stack.handle ELSE InvalidHandle
        /\ bridge.mtuObserved <=> stack.exchanged
        /\ stack.subscribed => bridge.subscribed /\ bridge.stamped
        /\ bridge.subscribed => stack.subscribed \/ stack.link = "lost"

\* publishAlert() never sends a notification at the default MTU ahead of the MTU
\* exchange: one published within a subscription goes out after an exchange, or
\* after the whole wait from the first subscription of the link, wherever the
\* callbacks of the other task fall.
NoNotifyBeforeMtu ==
    loop.at = "notify" /\ loop.unbroken =>
        stack.exchanged \/ stack.subscribedFor = SettleWait

\* A drop is always followed by advertising, without which the bridge is
\* invisible for ever.
AdvertisesAgain == stack.link = "lost" ~> stack.advertising

\* A central that stays subscribed is notified again and again even if no MTU
\* exchange ever happens: the wait ends.
SubscriberIsNotified == <>[](stack.subscribed) => []<>(loop.at = "notify" /\ loop.possible)
=============================================================================
