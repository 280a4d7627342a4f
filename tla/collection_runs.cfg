\* Two sources, edited, polled and asked for, by a collector that may fail or stop.
SPECIFICATION Spec
CONSTANTS
    NumSources = 2
    Lines = {1, 2}
    NoRow = NoRow
    MaxTime = 2
    MaxEdits = 2
    MaxRequests = 1
    MaxFaults = 1
INVARIANTS
    Safety
    NoTimeSkipped
PROPERTIES
    DueIsServed
    RunNowRuns
CHECK_DEADLOCK FALSE
