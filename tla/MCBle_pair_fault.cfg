SPECIFICATION BleFairSpec
CONSTANTS
    d1 = d1
    d2 = d2
    Devices = {d1, d2}
    NoDevice = NoDevice
    ReconnectMin = 1
    ReconnectMax = 8
    StageTimeout = 20
    LinkLostAfter = 15
    Faults = {"pair"}
    Late = {}
PROPERTY ResubscribedAfterDrop
