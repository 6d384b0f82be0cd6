SPECIFICATION WatchTimerSpec
CONSTANTS
    d1 = d1
    d2 = d2
    Devices = {d1, d2}
    NoDevice = NoDevice
    ReconnectMin = 1
    ReconnectMax = 2
    StageTimeout = 5
    LinkLostAfter = 4
    LiveAlert = 2
    LinkStable = 3
    SplashTicks = 1
    MayHide = FALSE
    Faults = {"discover", "write", "parse", "vanish"}
    Late = {"notify"}
INVARIANT WatchTypeOK
PROPERTIES
    EpisodeSpec
    UntoldDropIsFelt
