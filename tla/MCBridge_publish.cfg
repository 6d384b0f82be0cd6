SPECIFICATION SystemFairSpec
CONSTANTS
    h1 = h1
    h2 = h2
    Handles = {h1, h2}
    InvalidHandle = InvalidHandle
    SettleWait = 2
    SequenceLimit = 4
    NumberLimit = 4
    AdvertisingFailures = 1
    Null = Null
    CountLimit = 1
INVARIANTS
    BridgeTypeOK
    GlobalsMatchLink
    NoNotifyBeforeMtu
PROPERTIES
    MissedIsWhatWasSkipped
    AdvertisesAgain
    SubscriberIsNotified
