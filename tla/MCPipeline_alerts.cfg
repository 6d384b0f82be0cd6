SPECIFICATION PipelineSpec
CONSTANTS
    Absent = Absent
    WordLimit = 131072
    Lines <- MCLines
    Moments <- MCMoments
    Durations <- MCDurations
    Sequences <- MCSequences
    Mtus <- MCMtus
    NewValues <- MCNewValues
INVARIANTS
    PipelineTypeOK
    ModelTextMatchesThreat
    LatencyIsMeasured
    WatchShowsTheAlert
    OnlyWholePacketsAreAccepted
    DecodersAgree
PROPERTIES
    AlertSaysWhatTheLineSaid
    EveryAlertIsSent
