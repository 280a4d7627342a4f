\* One service and one source; the ring holds two events; time passes in steps of 1 to 6 units.
SPECIFICATION FairSpec
CONSTANTS
    Services = {s1}
    Times = {1, 2, 4, 7}
    Cap = 2
    Gap = 2
    DefaultLimit = 2
    MaxLimit = 2
    Fresh = 1
    Second = 2
    Interval <- MCInterval
    MaxBeats = 3
    MaxCalls = 2
    MaxFaults = 1
INVARIANTS
    Safety
    Throttled
    HealthyHasBeaten
    FeedFollows
    BadgeJustified
    BadgeIsGauge
PROPERTIES
    ImplementsHistory
    SilenceAlerts
CHECK_DEADLOCK FALSE
