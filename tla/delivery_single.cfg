\* One persister-mysql replica.
SPECIFICATION FairSpec
CONSTANTS
    Replicas = {p1}
    N = 4
    Key <- MCKey
    Fields <- MCFields
    Malformed = {2}
    MaxFaults = 2
    MaxDbErrors = 1
    MaxStops = 0
INVARIANTS
    AckedNotRegressed
    NoNeedlessDrop
PROPERTIES
    Settles
CHECK_DEADLOCK FALSE
