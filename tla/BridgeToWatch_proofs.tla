------------------------- MODULE BridgeToWatch_proofs -------------------------
(***************************************************************************)
(* Theorems about the BLE server of the bridge, and about the numbers its  *)
(* alerts have on the watch.                                               *)
(*                                                                         *)
(* HostInvariant says for each place of the host task in a callback which  *)
(* globals it has written already.  LoopInvariant says that an alert that  *)
(* is about to be notified within the subscription it was polled in comes  *)
(* after an MTU exchange or after the whole wait.                          *)
(*                                                                         *)
(* The numbers are for any even number of sequence numbers (2^32 in the    *)
(* code), any handles and any wait.                                        *)
(***************************************************************************)
EXTENDS BridgeToWatch, TLAPS

Disconnecting == {"disconnect", "clearSubscribed", "clearHandle", "clearObserved",
                  "clearStamp", "advertise", "retry"}

Unsubscribed == {"connect", "connectHandle", "unsubscribe", "disconnectAgain"}
                    \cup Disconnecting

\* What the stack keeps of a link fits together.
StackInvariant ==
    /\ stack.link = "down" => stack = [DownLink EXCEPT !.advertising = stack.advertising]
    /\ stack.link # "down" => stack.handle \in Handles
    /\ stack.subscribed => stack.link = "up" /\ stack.counting
    /\ stack.counting => stack.reported
    /\ stack.large => stack.exchanged
    /\ stack.reported => stack.link # "down"
    /\ host \in Disconnecting => stack.link = "down" /\ ~stack.advertising
    /\ host = "disconnectAgain" => ~stack.reported /\ ~stack.exchanged
    /\ host \in Unsubscribed => ~stack.subscribed

\* The handle is known once one of the two events that bring it was handled.
HandleKnown ==
    bridge.handle = IF stack.reported \/ stack.exchanged THEN stack.handle ELSE InvalidHandle

\* What the globals say of subscriptions while a link is in use.
SubscriptionKnown ==
    /\ bridge.stamped => stack.counting
    /\ stack.subscribed => bridge.subscribed /\ bridge.stamped
    /\ bridge.subscribed => stack.reported /\ (stack.subscribed \/ stack.link = "lost")

Idle ==
    /\ bridge.connected = stack.reported
    /\ HandleKnown
    /\ bridge.mtuObserved = stack.exchanged
    /\ SubscriptionKnown

\* The CONNECT event is handled in two steps, the second repeats the first.
Connecting ==
    /\ stack.reported /\ ~stack.counting
    /\ bridge.handle = IF stack.exchanged THEN stack.handle ELSE InvalidHandle
    /\ bridge.mtuObserved = stack.exchanged
    /\ ~bridge.subscribed /\ ~bridge.stamped
    /\ bridge.connected = (host = "connectHandle")

Exchanging ==
    /\ stack.link # "down"
    /\ stack.exchanged
    /\ bridge.connected = stack.reported
    /\ bridge.handle =
           IF stack.reported \/ host = "mtuObserved" THEN stack.handle ELSE InvalidHandle
    /\ ~bridge.mtuObserved
    /\ SubscriptionKnown

Subscribing ==
    /\ stack.reported /\ stack.counting
    /\ bridge.connected
    /\ HandleKnown
    /\ bridge.mtuObserved = stack.exchanged
    /\ stack.subscribed \/ stack.link = "lost"
    /\ bridge.subscribed = (host = "subscribeStamp")

Unsubscribing ==
    /\ stack.reported
    /\ bridge.connected
    /\ HandleKnown
    /\ bridge.mtuObserved = stack.exchanged
    /\ bridge.stamped => stack.counting

\* Cleared one global after the other.
Clearing ==
    /\ bridge.connected = (host = "disconnect")
    /\ host \notin {"disconnect", "clearSubscribed"} => ~bridge.subscribed
    /\ host \notin {"disconnect", "clearSubscribed", "clearHandle"} =>
           bridge.handle = InvalidHandle
    /\ host \in {"clearStamp", "advertise", "retry", "disconnectAgain"} => ~bridge.mtuObserved
    /\ host \in {"advertise", "retry", "disconnectAgain"} => ~bridge.stamped

HostInvariant ==
    /\ host = "idle" => Idle
    /\ host \in {"connect", "connectHandle"} => Connecting
    /\ host \in {"mtuHandle", "mtuObserved"} => Exchanging
    /\ host \in {"subscribe", "subscribeStamp"} => Subscribing
    /\ host = "unsubscribe" => Unsubscribing
    /\ host \in Disconnecting \cup {"disconnectAgain"} => Clearing

\* The wait the bridge measures is not longer than the link has been subscribed.
WaitInvariant ==
    stack.counting /\ bridge.stamped => bridge.waited <= stack.subscribedFor

Settled == stack.exchanged \/ stack.subscribedFor = SettleWait

LoopInvariant ==
    /\ loop.unbroken => stack.subscribed
    /\ loop.at \in {"connected", "subscribed"} => ~loop.possible
    /\ loop.at = "notify" => loop.possible
    /\ loop.at = "waited" /\ loop.unbroken => bridge.stamped
    /\ loop.at \in {"setValue", "notify"} /\ loop.unbroken /\ loop.possible => Settled

BridgeInvariant ==
    /\ BridgeTypeOK
    /\ StackInvariant
    /\ HostInvariant
    /\ WaitInvariant
    /\ LoopInvariant

-----------------------------------------------------------------------------
LEMMA Zero == 0 \in 0..SettleWait /\ 0..SettleWait \subseteq Nat
BY BridgeAssumption

\* A number is followed by a number.
LEMMA Numbers == \A n \in 0..(SequenceLimit - 1) : NextSequence(n) \in 0..(SequenceLimit - 1)
<1> SUFFICES ASSUME NEW n \in 0..(SequenceLimit - 1)
             PROVE  (n + 1) % SequenceLimit \in 0..(SequenceLimit - 1)
  BY DEF NextSequence
<1> QED BY BridgeAssumption

LEMMA Waits == \A n \in 0..SettleWait : UpToWait(n) \in 0..SettleWait
BY BridgeAssumption DEF UpToWait

-----------------------------------------------------------------------------
(* Types.                                                                   *)

LEMMA DownLinkType == DownLink \in NimBLE
BY Zero DEF DownLink, NimBLE

LEMMA InitialType == BridgeInit => BridgeTypeOK
<1>1. 1 % SequenceLimit \in 0..(SequenceLimit - 1)
  BY BridgeAssumption
<1> SUFFICES ASSUME BridgeInit PROVE BridgeTypeOK
  OBVIOUS
<1>2. bridge \in Globals
  BY <1>1, Zero DEF BridgeInit, InitialGlobals, Globals
<1>3. host \in HostSteps /\ loop \in Loop
  BY DEF BridgeInit, HostSteps, Loop, LoopSteps
<1>4. stack \in NimBLE
  BY Zero DEF BridgeInit, DownLink, NimBLE
<1> QED BY <1>2, <1>3, <1>4 DEF BridgeTypeOK

LEMMA TypeStep == BridgeTypeOK /\ [BridgeNext]_bridgeVars => BridgeTypeOK'
<1> SUFFICES ASSUME BridgeTypeOK, [BridgeNext]_bridgeVars PROVE BridgeTypeOK'
  OBVIOUS
<1> USE DEF BridgeTypeOK
<1>1. CASE CentralConnects
  BY <1>1, Zero DEF CentralConnects, DownLink, NimBLE
<1>2. CASE LinkLost
  BY <1>2 DEF LinkLost, NimBLE, Loop
<1>3. CASE HostTakesEvent
  <2>1. host' \in HostSteps /\ loop' \in Loop /\ UNCHANGED bridge
    BY <1>3 DEF HostTakesEvent, Loop, HostSteps
  <2>2. stack' \in NimBLE
    BY <1>3, DownLinkType DEF HostTakesEvent, NimBLE
  <2> QED BY <2>1, <2>2
<1>4. CASE OnConnect
  BY <1>4, Zero DEF OnConnect, HostStep, MarkConnected, Globals, HostSteps, NimBLE
<1>5. CASE OnMTUChange
  BY <1>5, Zero DEF OnMTUChange, HostStep, Globals, HostSteps, NimBLE
<1>6. CASE OnSubscribe
  <2>1. host' \in HostSteps /\ UNCHANGED <<loop, stack>>
    BY <1>6 DEF OnSubscribe, HostStep, HostSteps
  <2>2. stack.handle \in Handles \cup {InvalidHandle}
    BY DEF NimBLE
  <2>3. bridge' \in Globals
    BY <1>6, <2>2, Zero DEF OnSubscribe, Globals
  <2> QED BY <2>1, <2>3
<1>7. CASE HandleDisconnect
  BY <1>7, Zero DEF HandleDisconnect, HostStep, ClearObserved, ClearSubscribed, Globals, HostSteps
<1>8. CASE RestartAdvertising
  BY <1>8 DEF RestartAdvertising, HostStep, AfterAdvertising, MayWork, HostSteps, NimBLE
<1>9. CASE PollDetector
  BY <1>9 DEF PollDetector, Loop, LoopSteps, NimBLE
<1>10. CASE NotifyPossible
  BY <1>10 DEF NotifyPossible, LoopStep, Loop, LoopSteps, Globals
<1>11. CASE MtuSettledOrTimedOut
  BY <1>11 DEF MtuSettledOrTimedOut, LoopStep, Loop, LoopSteps
<1>12. CASE SetValue
  BY <1>12, Numbers DEF SetValue, Loop, LoopSteps, Globals
<1>13. CASE Notify
  BY <1>13, Numbers DEF Notify, Loop, LoopSteps, Globals
<1>14. CASE Tick
  BY <1>14, Waits DEF Tick, Globals, NimBLE
<1>15. CASE UNCHANGED bridgeVars
  BY <1>15 DEF bridgeVars
<1> QED BY <1>1, <1>2, <1>3, <1>4, <1>5, <1>6, <1>7, <1>8, <1>9, <1>10, <1>11, <1>12, <1>13,
           <1>14, <1>15 DEF BridgeNext, HostCallback, PublishAlert

\* Every variable keeps the type the code gives it (main.cpp).
THEOREM BridgeTypeCorrect == BridgeSpec => []BridgeTypeOK
BY InitialType, TypeStep, PTL DEF BridgeSpec

-----------------------------------------------------------------------------
(* The stack and the callbacks.                                             *)

\* The events the host task takes.
TakesConnect ==
    /\ stack.link # "down" /\ ~stack.reported
    /\ host' = "connect"
    /\ stack' = [stack EXCEPT !.reported = TRUE]
    /\ UNCHANGED loop

TakesMtu ==
    /\ stack.link = "up" /\ ~stack.exchanged
    /\ host' = "mtuHandle"
    /\ \E large \in BOOLEAN : stack' = [stack EXCEPT !.exchanged = TRUE, !.large = large]
    /\ UNCHANGED loop

TakesSubscribe ==
    /\ stack.link = "up" /\ stack.reported /\ ~stack.subscribed
    /\ host' = "subscribe"
    /\ stack' = [stack EXCEPT !.subscribed = TRUE, !.counting = TRUE]
    /\ UNCHANGED loop

TakesUnsubscribe ==
    /\ stack.link = "up" /\ stack.subscribed
    /\ host' = "unsubscribe"
    /\ stack' = [stack EXCEPT !.subscribed = FALSE]
    /\ loop' = [loop EXCEPT !.unbroken = FALSE]

TakesDisconnect ==
    /\ stack.link = "lost" /\ stack.reported
    /\ host' = "disconnect"
    /\ stack' = DownLink
    /\ UNCHANGED loop

LEMMA EventCases ==
    HostTakesEvent => \/ TakesConnect \/ TakesMtu \/ TakesSubscribe
                      \/ TakesUnsubscribe \/ TakesDisconnect
BY DEF HostTakesEvent, TakesConnect, TakesMtu, TakesSubscribe, TakesUnsubscribe, TakesDisconnect

LEMMA StackStep ==
    ASSUME BridgeTypeOK, StackInvariant, HostInvariant, [BridgeNext]_bridgeVars
    PROVE  StackInvariant'
<1> USE DEF BridgeTypeOK, StackInvariant, Disconnecting, Unsubscribed
<1>1. CASE CentralConnects
  BY <1>1 DEF CentralConnects, DownLink, NimBLE
<1>2. CASE LinkLost
  BY <1>2 DEF LinkLost, NimBLE
<1>3. CASE HostTakesEvent
  <2> host = "idle" /\ UNCHANGED bridge
    BY <1>3 DEF HostTakesEvent
  <2>1. CASE TakesConnect
    BY <2>1 DEF TakesConnect, NimBLE
  <2>2. CASE TakesMtu
    BY <2>2 DEF TakesMtu, NimBLE
  <2>3. CASE TakesSubscribe
    BY <2>3 DEF TakesSubscribe, NimBLE
  <2>4. CASE TakesUnsubscribe
    BY <2>4 DEF TakesUnsubscribe, NimBLE
  <2>5. CASE TakesDisconnect
    BY <2>5 DEF TakesDisconnect, DownLink
  <2> QED BY <1>3, <2>1, <2>2, <2>3, <2>4, <2>5, EventCases
<1>4. CASE OnConnect \/ OnMTUChange \/ OnSubscribe
  BY <1>4 DEF OnConnect, OnMTUChange, OnSubscribe, HostStep
<1>7. CASE HandleDisconnect
  <2>1. host = "disconnectAgain" => AlreadyDisconnected(bridge)
    BY DEF HostInvariant, Clearing, AlreadyDisconnected
  <2>2. host \in Disconnecting => ~stack.reported /\ ~stack.exchanged /\ ~stack.subscribed
    BY DEF DownLink
  <2> QED BY <1>7, <2>1, <2>2 DEF HandleDisconnect, HostStep
<1>8. CASE RestartAdvertising
  BY <1>8 DEF RestartAdvertising, HostStep, AfterAdvertising, MayWork, DownLink, NimBLE
<1>9. CASE PollDetector \/ PublishAlert
  BY <1>9 DEF PollDetector, PublishAlert, NotifyPossible, MtuSettledOrTimedOut, LoopStep,
              SetValue, Notify
<1>14. CASE Tick
  BY <1>14 DEF Tick, DownLink, NimBLE
<1>15. CASE UNCHANGED bridgeVars
  BY <1>15 DEF bridgeVars
<1> QED BY <1>1, <1>2, <1>3, <1>4, <1>7, <1>8, <1>9, <1>14, <1>15 DEF BridgeNext, HostCallback

LEMMA HostStepHolds ==
    ASSUME BridgeTypeOK, StackInvariant, HostInvariant, [BridgeNext]_bridgeVars
    PROVE  HostInvariant'
<1> USE DEF BridgeTypeOK, StackInvariant, HostInvariant, Disconnecting, Unsubscribed
<1>1. CASE CentralConnects
  <2> /\ host' = host /\ bridge' = bridge /\ stack.link = "down" /\ stack.advertising
      /\ \E h \in Handles : stack' = [DownLink EXCEPT !.link = "up", !.handle = h]
    BY <1>1 DEF CentralConnects
  <2>1. /\ stack.reported = FALSE /\ stack.exchanged = FALSE
        /\ stack.counting = FALSE /\ stack.subscribed = FALSE
        /\ stack'.reported = FALSE /\ stack'.exchanged = FALSE
        /\ stack'.counting = FALSE /\ stack'.subscribed = FALSE
    BY DEF DownLink
  <2>2. Idle => Idle'
    BY <2>1 DEF Idle, HandleKnown, SubscriptionKnown, Globals
  <2>3. Clearing => Clearing'
    BY DEF Clearing
  <2>4. host \in {"idle", "disconnectAgain"}
    BY <2>1 DEF HostSteps, Connecting, Exchanging, Subscribing, Unsubscribing
  <2> QED BY <2>2, <2>3, <2>4
<1>2. CASE LinkLost
  <2> host' = host /\ bridge' = bridge
    BY <1>2 DEF LinkLost
  <2> stack' = [stack EXCEPT !.link = "lost", !.subscribed = FALSE, !.large = FALSE]
    BY <1>2 DEF LinkLost
  <2> USE DEF NimBLE
  <2>1. Idle => Idle'
    BY DEF Idle, HandleKnown, SubscriptionKnown
  <2>2. Connecting => Connecting'
    BY DEF Connecting
  <2>3. Exchanging => Exchanging'
    BY DEF Exchanging, SubscriptionKnown
  <2>4. Subscribing => Subscribing'
    BY DEF Subscribing, HandleKnown
  <2>5. Unsubscribing => Unsubscribing'
    BY DEF Unsubscribing, HandleKnown
  <2>6. Clearing => Clearing'
    BY DEF Clearing
  <2> QED BY <2>1, <2>2, <2>3, <2>4, <2>5, <2>6
<1>3. CASE HostTakesEvent
  <2> host = "idle" /\ UNCHANGED bridge
    BY <1>3 DEF HostTakesEvent
  <2> Idle
    OBVIOUS
  <2> USE DEF Idle, HandleKnown, SubscriptionKnown
  <2>1. CASE TakesConnect
    BY <2>1 DEF TakesConnect, NimBLE, Connecting
  <2>2. CASE TakesMtu
    BY <2>2 DEF TakesMtu, NimBLE, Exchanging
  <2>3. CASE TakesSubscribe
    BY <2>3 DEF TakesSubscribe, NimBLE, Globals, Subscribing
  <2>4. CASE TakesUnsubscribe
    BY <2>4 DEF TakesUnsubscribe, NimBLE, Unsubscribing
  <2>5. CASE TakesDisconnect
    BY <2>5 DEF TakesDisconnect, Clearing
  <2> QED BY <1>3, <2>1, <2>2, <2>3, <2>4, <2>5, EventCases
<1>4. CASE OnConnect
  BY <1>4 DEF OnConnect, HostStep, MarkConnected, Globals, Connecting, Idle, HandleKnown,
              SubscriptionKnown
<1>5. CASE OnMTUChange
  BY <1>5 DEF OnMTUChange, HostStep, Globals, Exchanging, Idle, HandleKnown, SubscriptionKnown
<1>6. CASE OnSubscribe
  BY <1>6 DEF OnSubscribe, HostStep, Globals, Subscribing, Unsubscribing, Idle, HandleKnown,
              SubscriptionKnown
<1>7. CASE HandleDisconnect
  <2> Clearing /\ UNCHANGED stack
    BY <1>7 DEF HandleDisconnect, HostStep
  <2> USE DEF HandleDisconnect, HostStep, Clearing, Globals
  <2>1. CASE host = "disconnect"
    BY <1>7, <2>1 DEF AlreadyDisconnected
  <2>2. CASE host = "clearSubscribed"
    BY <1>7, <2>2 DEF ClearSubscribed
  <2>3. CASE host = "clearHandle"
    BY <1>7, <2>3
  <2>4. CASE host = "clearObserved"
    BY <1>7, <2>4 DEF ClearObserved
  <2>5. CASE host = "clearStamp"
    BY <1>7, <2>5
  <2>6. CASE host = "disconnectAgain"
    <3>1. AlreadyDisconnected(bridge)
      BY <2>6 DEF AlreadyDisconnected
    <3>2. host' = "idle" /\ UNCHANGED bridge
      BY <1>7, <2>6, <3>1
    <3>3. Idle
      BY <2>6 DEF Idle, HandleKnown, SubscriptionKnown, NimBLE
    <3> QED BY <3>2, <3>3 DEF Idle, HandleKnown, SubscriptionKnown
  <2> QED BY <1>7, <2>1, <2>2, <2>3, <2>4, <2>5, <2>6
<1>8. CASE RestartAdvertising
  BY <1>8 DEF RestartAdvertising, HostStep, AfterAdvertising, Clearing
<1>9. CASE PollDetector \/ PublishAlert \/ Tick \/ UNCHANGED bridgeVars
  <2>1. /\ host' = host
        /\ bridge'.connected = bridge.connected
        /\ bridge'.subscribed = bridge.subscribed
        /\ bridge'.handle = bridge.handle
        /\ bridge'.mtuObserved = bridge.mtuObserved
        /\ bridge'.stamped = bridge.stamped
    BY <1>9 DEF PollDetector, PublishAlert, NotifyPossible, MtuSettledOrTimedOut, LoopStep,
                SetValue, Notify, Tick, bridgeVars, Globals
  <2>2. /\ stack'.link = stack.link
        /\ stack'.reported = stack.reported
        /\ stack'.handle = stack.handle
        /\ stack'.exchanged = stack.exchanged
        /\ stack'.counting = stack.counting
        /\ stack'.subscribed = stack.subscribed
    BY <1>9 DEF PollDetector, PublishAlert, NotifyPossible, MtuSettledOrTimedOut, LoopStep,
                SetValue, Notify, Tick, bridgeVars, NimBLE
  <2> QED BY <2>1, <2>2 DEF Idle, HandleKnown, SubscriptionKnown, Connecting, Exchanging,
                            Subscribing, Unsubscribing, Clearing
<1> QED BY <1>1, <1>2, <1>3, <1>4, <1>5, <1>6, <1>7, <1>8, <1>9 DEF BridgeNext, HostCallback

-----------------------------------------------------------------------------
(* The wait and the loop.                                                   *)

\* While a link is subscribed the host task is in no callback that ends one.
LEMMA SubscribedHost ==
    ASSUME BridgeTypeOK, StackInvariant, HostInvariant, stack.subscribed
    PROVE  /\ host \in {"idle", "mtuHandle", "mtuObserved", "subscribe", "subscribeStamp"}
           /\ stack.link = "up" /\ stack.counting
           /\ bridge.mtuObserved => stack.exchanged
           /\ bridge.subscribed /\ host # "subscribeStamp" => bridge.stamped
BY DEF BridgeTypeOK, StackInvariant, HostInvariant, Connecting, Exchanging, Subscribing, Idle,
       SubscriptionKnown, HostSteps, Unsubscribed, Disconnecting, NimBLE, Globals

LEMMA WaitStep ==
    ASSUME BridgeTypeOK, StackInvariant, HostInvariant, WaitInvariant, [BridgeNext]_bridgeVars
    PROVE  WaitInvariant'
<1> USE DEF BridgeTypeOK, WaitInvariant
<1>1. CASE CentralConnects
  BY <1>1 DEF CentralConnects, DownLink
<1>2. CASE LinkLost
  BY <1>2 DEF LinkLost, NimBLE
<1>3. CASE HostTakesEvent
  <2> host = "idle" /\ UNCHANGED bridge
    BY <1>3 DEF HostTakesEvent
  <2>1. bridge.stamped => stack.counting
    BY DEF HostInvariant, Idle, SubscriptionKnown
  <2>2. TakesDisconnect => ~stack'.counting
    BY DEF TakesDisconnect, DownLink
  <2>3. ~TakesDisconnect => stack'.subscribedFor = stack.subscribedFor
    BY <1>3, EventCases DEF TakesConnect, TakesMtu, TakesSubscribe, TakesUnsubscribe, NimBLE
  <2> QED BY <2>1, <2>2, <2>3
<1>4. CASE OnConnect
  BY <1>4 DEF OnConnect, HostStep, MarkConnected, Globals
<1>5. CASE OnMTUChange
  BY <1>5 DEF OnMTUChange, HostStep, Globals
<1>6. CASE OnSubscribe
  <2> UNCHANGED stack
    BY <1>6 DEF OnSubscribe
  <2>1. stack.subscribedFor \in Nat
    BY BridgeAssumption DEF NimBLE
  <2>2. bridge'.waited = 0 \/ (bridge'.waited = bridge.waited /\ bridge'.stamped = bridge.stamped)
    BY <1>6 DEF OnSubscribe, Globals
  <2>3. CASE bridge'.waited = 0
    <3>1. 0 <= stack.subscribedFor
      BY <2>1
    <3> QED BY <3>1, <2>3, Zenon
  <2>4. CASE bridge'.waited = bridge.waited /\ bridge'.stamped = bridge.stamped
    BY <2>4, Zenon
  <2> QED BY <2>2, <2>3, <2>4
<1>7. CASE HandleDisconnect
  BY <1>7, Zero DEF HandleDisconnect, HostStep, ClearObserved, ClearSubscribed, Globals, NimBLE
<1>8. CASE RestartAdvertising
  BY <1>8 DEF RestartAdvertising, HostStep, NimBLE
<1>9. CASE PollDetector \/ PublishAlert
  BY <1>9 DEF PollDetector, PublishAlert, NotifyPossible, MtuSettledOrTimedOut, LoopStep,
              SetValue, Notify, Globals
<1>14. CASE Tick
  BY <1>14, BridgeAssumption DEF Tick, UpToWait, Globals, NimBLE
<1>15. CASE UNCHANGED bridgeVars
  BY <1>15 DEF bridgeVars
<1> QED BY <1>1, <1>2, <1>3, <1>4, <1>5, <1>6, <1>7, <1>8, <1>9, <1>14, <1>15 DEF BridgeNext, HostCallback

LEMMA LoopStepHolds ==
    ASSUME BridgeInvariant, [BridgeNext]_bridgeVars
    PROVE  LoopInvariant'
<1> USE DEF BridgeInvariant, BridgeTypeOK, LoopInvariant
<1>1. CASE CentralConnects
  BY <1>1 DEF CentralConnects, StackInvariant
<1>2. CASE LinkLost
  BY <1>2 DEF LinkLost, Loop
<1>3. CASE HostTakesEvent
  <2> host = "idle" /\ UNCHANGED bridge
    BY <1>3 DEF HostTakesEvent
  <2>1. CASE TakesUnsubscribe
    BY <2>1 DEF TakesUnsubscribe, Loop
  <2>2. CASE TakesDisconnect
    BY <2>2 DEF TakesDisconnect, StackInvariant
  <2>3. CASE TakesConnect \/ TakesMtu \/ TakesSubscribe
    BY <2>3 DEF TakesConnect, TakesMtu, TakesSubscribe, Settled, NimBLE
  <2> QED BY <1>3, <2>1, <2>2, <2>3, EventCases
<1>4. CASE HostCallback
  <2>1. /\ UNCHANGED loop
        /\ stack'.subscribed = stack.subscribed
        /\ stack'.exchanged = stack.exchanged
        /\ stack'.subscribedFor = stack.subscribedFor
    BY <1>4 DEF HostCallback, OnConnect, OnMTUChange, OnSubscribe, HandleDisconnect,
                RestartAdvertising, HostStep, NimBLE
  <2>2. stack.subscribed /\ bridge.stamped => bridge'.stamped
    <3> SUFFICES ASSUME stack.subscribed, bridge.stamped PROVE bridge'.stamped
      OBVIOUS
    <3>1. host \in {"idle", "mtuHandle", "mtuObserved", "subscribe", "subscribeStamp"}
      BY SubscribedHost
    <3> QED BY <1>4, <3>1 DEF HostCallback, OnConnect, OnMTUChange, OnSubscribe,
                              HandleDisconnect, RestartAdvertising, HostStep, Globals
  <2> QED BY <2>1, <2>2 DEF Settled
<1>5. CASE PollDetector
  BY <1>5 DEF PollDetector
<1>6. CASE NotifyPossible
  BY <1>6 DEF NotifyPossible, LoopStep, Loop, Globals
<1>7. CASE MtuSettledOrTimedOut
  <2> USE DEF MtuSettledOrTimedOut, LoopStep, Loop
  <2> UNCHANGED <<bridge, host, stack>> /\ loop'.unbroken = loop.unbroken
      /\ loop'.possible = loop.possible
    BY <1>7
  <2>1. CASE loop.at = "observed"
    BY <1>7, <2>1, SubscribedHost DEF Settled
  <2>2. CASE loop.at = "mtu"
    BY <1>7, <2>2 DEF Settled, CurrentMtuIsLarge, StackInvariant
  <2>3. CASE loop.at = "stamped"
    BY <1>7, <2>3
  <2>4. CASE loop.at = "waited"
    <3>1. loop.unbroken /\ Waited(bridge) => Settled
      BY <2>4, SubscribedHost, BridgeAssumption DEF Waited, Settled, WaitInvariant, NimBLE, Globals
    <3> QED BY <1>7, <2>4, <3>1 DEF Settled
  <2> QED BY <1>7, <2>1, <2>2, <2>3, <2>4
<1>8. CASE SetValue \/ Notify
  BY <1>8 DEF SetValue, Notify, Loop, Settled
<1>9. CASE Tick
  BY <1>9, BridgeAssumption DEF Tick, UpToWait, Settled, Globals, NimBLE
<1>10. CASE UNCHANGED bridgeVars
  BY <1>10 DEF bridgeVars, Settled
<1> QED BY <1>1, <1>2, <1>3, <1>4, <1>5, <1>6, <1>7, <1>8, <1>9, <1>10 DEF BridgeNext, PublishAlert

-----------------------------------------------------------------------------
(* The theorems.                                                            *)

LEMMA InvariantHolds == BridgeSpec => []BridgeInvariant
<1>1. BridgeInit => BridgeInvariant
  <2> SUFFICES ASSUME BridgeInit PROVE BridgeInvariant
    OBVIOUS
  <2>1. BridgeTypeOK
    BY InitialType
  <2>2. StackInvariant
    BY DEF BridgeInit, DownLink, StackInvariant, Unsubscribed, Disconnecting
  <2>3. HostInvariant
    BY DEF BridgeInit, InitialGlobals, DownLink, HostInvariant, Idle, HandleKnown,
           SubscriptionKnown, Disconnecting
  <2>4. WaitInvariant /\ LoopInvariant
    BY DEF BridgeInit, DownLink, WaitInvariant, LoopInvariant
  <2> QED BY <2>1, <2>2, <2>3, <2>4 DEF BridgeInvariant
<1>2. BridgeInvariant /\ [BridgeNext]_bridgeVars => BridgeInvariant'
  BY TypeStep, StackStep, HostStepHolds, WaitStep, LoopStepHolds DEF BridgeInvariant
<1> QED BY <1>1, <1>2, PTL DEF BridgeSpec

\* Whatever the central does, however many links come and go and wherever the
\* loop task stands, between two callbacks the globals say of the link what the
\* stack would (SkyShieldServerCallbacks, SkyShieldAlertCallbacks).
THEOREM GlobalsMatchLinkHolds == BridgeSpec => []GlobalsMatchLink
<1>1. BridgeInvariant => GlobalsMatchLink
  BY DEF BridgeInvariant, BridgeTypeOK, HostInvariant, Idle, HandleKnown, SubscriptionKnown,
         GlobalsMatchLink
<1> QED BY <1>1, InvariantHolds, PTL

\* For every wait and every interleaving, an alert published within one
\* subscription is notified after an MTU exchange or after the whole wait
\* (publishAlert, mtuSettledOrTimedOut).
THEOREM NoNotifyBeforeMtuHolds == BridgeSpec => []NoNotifyBeforeMtu
<1>1. BridgeInvariant => NoNotifyBeforeMtu
  BY DEF BridgeInvariant, LoopInvariant, Settled, NoNotifyBeforeMtu
<1> QED BY <1>1, InvariantHolds, PTL

-----------------------------------------------------------------------------
(* The numbers of the alerts on the watch.                                  *)

Half == NumberLimit \div 2

LEMMA Limits ==
    /\ Half \in Nat /\ Half > 0
    /\ SequenceLimit \in Nat /\ SequenceLimit = 2 * Half
    /\ NumberLimit \in Nat /\ NumberLimit = 2 * Half
<1>1. SequenceLimit \in Nat /\ NumberLimit \in Nat /\ SequenceLimit = NumberLimit
  BY BridgeAssumption, NumberAssumption
<1>2. Half \in Nat /\ Half > 0
  BY MonitorAssumption DEF Half
<1> QED BY <1>1, <1>2, NumberAssumption DEF Half

LEMMA Remainder ==
    ASSUME NEW m \in Nat \ {0}, NEW n \in 0..(2 * m - 1)
    PROVE  n % m = IF n < m THEN n ELSE n - m
OBVIOUS

LEMMA NextSequenceIs ==
    ASSUME NEW n \in 0..(SequenceLimit - 1)
    PROVE  NextSequence(n) = IF n = SequenceLimit - 1 THEN 0 ELSE n + 1
<1> DEFINE m == SequenceLimit
           k == n + 1
<1>1. m \in Nat \ {0} /\ k \in 0..(2 * m - 1)
  BY Limits
<1>2. NextSequence(n) = k % m
  BY DEF NextSequence
<1>3. k % m = IF k < m THEN k ELSE k - m
  <2> HIDE DEF k, m
  <2> QED BY <1>1, Remainder, Zenon
<1> QED BY <1>1, <1>2, <1>3

\* What the watch makes of a number of the bridge, and of one past its largest.
LEMMA NumberIs ==
    ASSUME NEW n \in (-Half)..(2 * Half - 1)
    PROVE  Number(n) = IF n < Half THEN n ELSE n - 2 * Half
<1> DEFINE m == NumberLimit
           k == n + Half
<1>1. m \in Nat \ {0} /\ k \in 0..(2 * m - 1)
  BY Limits
<1>2. Number(n) = (k % m) - Half
  BY DEF Number, Half
<1>3. k % m = IF k < m THEN k ELSE k - m
  <2> HIDE DEF k, m
  <2> QED BY <1>1, Remainder, Zenon
<1> QED BY <1>1, <1>2, <1>3, Limits

-----------------------------------------------------------------------------
(* The bridge is the one of Bridge.                                         *)

\* Every step of the whole is a step of the bridge or leaves it alone.
LEMMA BridgeStep == [SystemNext]_systemVars => [BridgeNext]_bridgeVars
BY DEF SystemNext, systemVars, Received, Unheard, SetValueOnly, Unnumbered, BridgeNext, PublishAlert

\* With the watch at the other end the bridge does what Bridge says of it, so
\* every theorem about Bridge holds here (publishAlert).
THEOREM BridgeIsImplemented == SystemSpec => BridgeSpec
<1>1. SystemInit => BridgeInit
  BY DEF SystemInit
<1> QED BY <1>1, BridgeStep, PTL DEF SystemSpec, BridgeSpec

-----------------------------------------------------------------------------
(* The numbers.                                                             *)

\* A number of the watch as the bridge counts it.
Unsigned(n) == IF n < 0 THEN n + SequenceLimit ELSE n

WatchNumbers == (-Half)..(Half - 1)

\* The clocks of the monitor stand at 0 here.
Monitor == [
    lastSequence: WatchNumbers \cup {Null},
    dropped: 0..CountLimit,
    baseline: {Null, 0},
    excess: {Null, 0},
    rxMs: {Null, 0},
    rxSequence: WatchNumbers \cup {Null},
    renderedSequence: {Null},
    renderMs: {Null}]

MonitorTypeOK == skipped \in 0..Half /\ monitor \in Monitor

\* n numbers past the one received last.
Past(n) ==
    LET sum == Unsigned(monitor.lastSequence) + n
    IN  IF sum < SequenceLimit THEN sum ELSE sum - SequenceLimit

\* The number of the next alert tells how many were skipped.
NumberInvariant ==
    monitor.lastSequence # Null /\ skipped < Half => bridge.sequence = Past(skipped + 1)

SystemInvariant == BridgeTypeOK /\ MonitorTypeOK /\ NumberInvariant

LEMMA SequenceType ==
    ASSUME BridgeTypeOK
    PROVE  bridge.sequence \in 0..(SequenceLimit - 1) /\ bridge.sequence \in Nat
BY Limits DEF BridgeTypeOK, Globals

LEMMA CountIs ==
    /\ \A n \in Nat : UpToCount(n) \in 0..CountLimit
    /\ \A n \in 0..CountLimit : UpToCount(n) = n
BY MonitorAssumption DEF UpToCount

LEMMA DecodedIs ==
    ASSUME BridgeTypeOK
    PROVE  LET number == Decoded(bridge.sequence)
           IN  /\ number = IF bridge.sequence < Half THEN bridge.sequence
                           ELSE bridge.sequence - SequenceLimit
               /\ number \in WatchNumbers
               /\ Unsigned(number) = bridge.sequence
<1>1. bridge.sequence \in (-Half)..(2 * Half - 1)
  BY SequenceType, Limits
<1>2. Decoded(bridge.sequence) = IF bridge.sequence < Half THEN bridge.sequence
                                 ELSE bridge.sequence - 2 * Half
  BY <1>1, NumberIs DEF Decoded
<1> QED BY <1>1, <1>2, SequenceType, Limits DEF WatchNumbers, Unsigned

LEMMA ExpectedIs ==
    ASSUME MonitorTypeOK, monitor.lastSequence # Null
    PROVE  /\ monitor.lastSequence \in WatchNumbers
           /\ Expected(monitor) = IF monitor.lastSequence = Half - 1 THEN -Half
                                  ELSE monitor.lastSequence + 1
           /\ Expected(monitor) \in WatchNumbers
<1>1. monitor.lastSequence \in WatchNumbers
  BY DEF MonitorTypeOK, Monitor
<1> DEFINE next == monitor.lastSequence + 1
<1>2. next \in (-Half)..(2 * Half - 1)
  BY <1>1, Limits DEF WatchNumbers
<1>3. Expected(monitor) = Number(next)
  BY DEF Expected
<1>4. Number(next) = IF next < Half THEN next ELSE next - 2 * Half
  <2> HIDE DEF next
  <2> QED BY <1>2, NumberIs
<1> QED BY <1>1, <1>3, <1>4, Limits DEF WatchNumbers

\* What the monitor makes of a packet.
LEMMA RecordedIs ==
    ASSUME MonitorTypeOK, NEW number \in WatchNumbers
    PROVE  LET gap == monitor.lastSequence # Null /\ number > Expected(monitor)
               recorded == recordPacket(monitor, 0, 0, number)
           IN  /\ recorded.lastSequence = number
               /\ recorded.dropped =
                    IF gap THEN UpToCount(monitor.dropped + number - Expected(monitor))
                    ELSE monitor.dropped
               /\ recorded \in Monitor
<1> DEFINE gap == monitor.lastSequence # Null /\ number > Expected(monitor)
           dropped == IF gap THEN UpToCount(monitor.dropped + number - Expected(monitor))
                      ELSE monitor.dropped
           tracked == [monitor EXCEPT !.dropped = dropped, !.lastSequence = number]
           fastest == monitor.baseline = Null \/ 0 < monitor.baseline
           baseline == IF fastest THEN 0 ELSE monitor.baseline
           excess == IF fastest THEN 0 ELSE 0 - monitor.baseline
<1>1. dropped \in 0..CountLimit
  <2>1. monitor.dropped \in 0..CountLimit
    BY DEF MonitorTypeOK, Monitor
  <2>2. CASE gap
    <3>1. monitor.dropped + number - Expected(monitor) \in Nat
      BY <2>1, <2>2, ExpectedIs, Limits, MonitorAssumption DEF WatchNumbers
    <3> QED BY <2>2, <3>1, CountIs
  <2> QED BY <2>1, <2>2
<1>2. baseline \in {Null, 0} /\ excess \in {Null, 0}
  BY DEF MonitorTypeOK, Monitor
<1>3. trackSequenceGap(monitor, number) = tracked
  BY DEF trackSequenceGap
<1>4. recordPacket(monitor, 0, 0, number) =
        [tracked EXCEPT !.rxMs = 0, !.rxSequence = number, !.baseline = baseline,
                        !.excess = excess]
  <2>1. tracked.baseline = monitor.baseline
    BY DEF MonitorTypeOK, Monitor
  <2> HIDE DEF tracked
  <2> QED BY <1>3, <2>1 DEF recordPacket
<1> HIDE DEF dropped, baseline, excess
<1>5. recordPacket(monitor, 0, 0, number) =
        [monitor EXCEPT !.dropped = dropped, !.lastSequence = number,
                        !.rxMs = 0, !.rxSequence = number, !.baseline = baseline,
                        !.excess = excess]
  BY <1>4
<1> QED BY <1>1, <1>2, <1>5 DEF MonitorTypeOK, Monitor, dropped

LEMMA UnsignedIs ==
    ASSUME NEW n \in WatchNumbers
    PROVE  Unsigned(n) \in 0..(SequenceLimit - 1)
BY Limits DEF WatchNumbers, Unsigned

LEMMA ReceivedStep ==
    ASSUME SystemInvariant, Received
    PROVE  MonitorTypeOK' /\ NumberInvariant'
<1> DEFINE number == Decoded(bridge.sequence)
<1>1. number \in WatchNumbers /\ Unsigned(number) = bridge.sequence
  BY DecodedIs DEF SystemInvariant
<1>2. monitor' = recordPacket(monitor, 0, 0, number) /\ skipped' = 0
  BY DEF Received
<1>3. monitor' \in Monitor /\ monitor'.lastSequence = number
  BY <1>1, <1>2, RecordedIs DEF SystemInvariant
<1>4. bridge'.sequence = NextSequence(bridge.sequence)
  BY DEF Received, Notify, SystemInvariant, BridgeTypeOK, Globals
<1>5. MonitorTypeOK'
  BY <1>2, <1>3, Limits DEF MonitorTypeOK
<1>6. bridge'.sequence = IF bridge.sequence = SequenceLimit - 1 THEN 0 ELSE bridge.sequence + 1
  BY <1>4, SequenceType, NextSequenceIs DEF SystemInvariant
<1>7. Unsigned(monitor'.lastSequence) = bridge.sequence
  BY <1>1, <1>3
<1>8. NumberInvariant'
  BY <1>2, <1>6, <1>7, SequenceType, Limits DEF NumberInvariant, Past, SystemInvariant
<1> QED BY <1>5, <1>8

LEMMA UnheardStep ==
    ASSUME SystemInvariant, Unheard
    PROVE  MonitorTypeOK' /\ NumberInvariant'
<1>1. skipped \in 0..Half /\ skipped' = IF skipped < Half THEN skipped + 1 ELSE skipped
  BY DEF Unheard, SystemInvariant, MonitorTypeOK, Half
<1>2. monitor' = monitor
  BY DEF Unheard
<1>3. MonitorTypeOK'
  BY <1>1, <1>2, Limits DEF SystemInvariant, MonitorTypeOK
<1>4. bridge'.sequence = NextSequence(bridge.sequence)
  BY DEF Unheard, SetValueOnly, SetValue, Notify, SystemInvariant, BridgeTypeOK, Globals
<1>5. bridge'.sequence = IF bridge.sequence = SequenceLimit - 1 THEN 0 ELSE bridge.sequence + 1
  BY <1>4, SequenceType, NextSequenceIs DEF SystemInvariant
<1>6. ASSUME monitor.lastSequence # Null, skipped + 1 < Half
      PROVE  bridge'.sequence = Past(skipped + 2)
  <2>1. Unsigned(monitor.lastSequence) \in 0..(SequenceLimit - 1)
    BY <1>6, UnsignedIs DEF SystemInvariant, MonitorTypeOK, Monitor
  <2>2. bridge.sequence = Past(skipped + 1)
    BY <1>1, <1>6, Limits DEF SystemInvariant, NumberInvariant
  <2> QED BY <1>1, <1>5, <1>6, <2>1, <2>2, Limits DEF Past
<1>7. NumberInvariant'
  BY <1>1, <1>2, <1>6, Limits DEF NumberInvariant, Past
<1> QED BY <1>3, <1>7

LEMMA UnnumberedStep ==
    ASSUME SystemInvariant,
           bridge'.sequence = bridge.sequence, UNCHANGED <<monitor, skipped>>
    PROVE  MonitorTypeOK' /\ NumberInvariant'
BY DEF SystemInvariant, MonitorTypeOK, NumberInvariant, Past

LEMMA SystemStep == SystemInvariant /\ [SystemNext]_systemVars => SystemInvariant'
<1> SUFFICES ASSUME SystemInvariant, [SystemNext]_systemVars PROVE SystemInvariant'
  OBVIOUS
<1>1. BridgeTypeOK'
  BY BridgeStep, TypeStep DEF SystemInvariant
<1>2. CASE Received
  BY <1>1, <1>2, ReceivedStep DEF SystemInvariant
<1>3. CASE Unheard
  BY <1>1, <1>3, UnheardStep DEF SystemInvariant
<1>4. CASE Unnumbered \/ UNCHANGED systemVars
  BY <1>1, <1>4, UnnumberedStep DEF SystemInvariant, Unnumbered, systemVars, bridgeVars
<1> QED BY <1>2, <1>3, <1>4 DEF SystemNext

LEMMA SystemInitially == SystemInit => SystemInvariant
<1>1. SystemInit => MonitorTypeOK /\ NumberInvariant
  BY Limits, MonitorAssumption
     DEF SystemInit, ResetMonitor, MonitorTypeOK, Monitor, NumberInvariant
<1> QED BY <1>1, InitialType DEF SystemInit, SystemInvariant

\* The arithmetic of one packet, by the sign of the last number and of this one.
LEMMA CountedIsSkipped ==
    ASSUME SystemInvariant, Received, monitor.lastSequence # Null, skipped < Half
    PROVE  monitor'.dropped = IF TurnsNegative THEN monitor.dropped
                              ELSE UpToCount(monitor.dropped + skipped)
<1> DEFINE number == Decoded(bridge.sequence)
           last == monitor.lastSequence
           expected == Expected(monitor)
<1>1. /\ number \in WatchNumbers
      /\ number = IF bridge.sequence < Half THEN bridge.sequence
                  ELSE bridge.sequence - SequenceLimit
  BY DecodedIs DEF SystemInvariant
<1>2. /\ last \in WatchNumbers
      /\ expected = IF last = Half - 1 THEN -Half ELSE last + 1
  BY ExpectedIs DEF SystemInvariant
<1>3. /\ skipped \in 0..Half
      /\ monitor.dropped \in 0..CountLimit
      /\ bridge.sequence = Past(skipped + 1)
  BY DEF SystemInvariant, MonitorTypeOK, Monitor, NumberInvariant
<1>4. /\ monitor'.lastSequence = number
      /\ monitor'.dropped = IF number > expected
                            THEN UpToCount(monitor.dropped + number - expected)
                            ELSE monitor.dropped
  <2>1. monitor' = recordPacket(monitor, 0, 0, number)
    BY DEF Received
  <2> HIDE DEF number
  <2> QED BY <1>1, <2>1, RecordedIs DEF SystemInvariant
<1>5. TurnsNegative <=> last \in 0..(Half - 2) /\ number < 0
  BY <1>4 DEF TurnsNegative, Half
<1>6. CASE TurnsNegative
  BY <1>1, <1>2, <1>4, <1>5, <1>6, Limits DEF WatchNumbers
<1>7. CASE ~TurnsNegative
  <2>1. number - expected = skipped
    BY <1>1, <1>2, <1>3, <1>5, <1>7, Limits DEF WatchNumbers, Past, Unsigned
  <2>2. CASE skipped = 0
    BY <1>1, <1>2, <1>3, <1>4, <1>7, <2>1, <2>2, CountIs, Limits, MonitorAssumption DEF WatchNumbers
  <2>3. CASE skipped > 0
    <3>1. /\ number > expected
          /\ monitor.dropped + number - expected = monitor.dropped + skipped
      BY <1>1, <1>2, <1>3, <2>1, <2>3, Limits, MonitorAssumption DEF WatchNumbers
    <3> QED BY <1>4, <1>7, <3>1
  <2> QED BY <1>3, <2>2, <2>3
<1> QED BY <1>6, <1>7

\* Over any number of links and subscriptions, deferred and lost alerts and turns
\* of the number, the watch counts as missed what it missed (publishAlert,
\* trackSequenceGap).
THEOREM MissedIsWhatWasSkippedHolds == SystemSpec => MissedIsWhatWasSkipped
<1>1. SystemInvariant /\ [SystemNext]_systemVars
      => [Received /\ monitor.lastSequence # Null /\ skipped < NumberLimit \div 2
            => monitor'.dropped = IF TurnsNegative THEN monitor.dropped
                                  ELSE UpToCount(monitor.dropped + skipped)]_systemVars
  BY CountedIsSkipped DEF Half
<1> QED BY <1>1, SystemInitially, SystemStep, PTL DEF SystemSpec, MissedIsWhatWasSkipped
=============================================================================
