SPECIFICATION BleSpec
SYMMETRY Interchangeable
CONSTANTS
    d1 = d1
    d2 = d2
    Devices = {d1, d2}
    NoDevice = NoDevice
    ReconnectMin = 1
    ReconnectMax = 4
    StageTimeout = 6
    LinkLostAfter = 5
    Faults = {"scan", "stop", "pair", "unpair", "discover", "write", "parse", "vanish"}
    Late = {"notify"}
INVARIANTS
    BleTypeOK
    LinkInvariant
    NoWorkareaLeak
    ScanningMatchesRadio
    AliveMeansLink
    SubscribedHasCharacteristic
PROPERTY BackoffResetNeedsAlert
