SPECIFICATION StaleSpec
CONSTANTS
    Alerts <- MCAlerts
    NoAlert = NoAlert
    HoldTicks <- MCHoldTicks
    Cooldown = 2
    Repeat = 4
    MonitorTimeout = 2
    Cycle = 2
    Played = {TRUE}
PROPERTIES
    StaleAlertsStayCleared
