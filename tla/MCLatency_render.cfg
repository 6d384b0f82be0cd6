SPECIFICATION ClocksSpec
CONSTANTS
    Null = Null
    NumberLimit = 16
    CountLimit = 1
    Period = 2
    TimerLimit = 8
PROPERTIES
    RenderLatencyIsMeasured
