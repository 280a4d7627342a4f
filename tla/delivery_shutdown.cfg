\* One replica on a healthy sink is stopped gracefully: what it buffered is dropped.
SPECIFICATION Spec
CONSTANTS
    Replicas = {p1}
    N = 3
    Key <- MCKeyPair
    Fields <- MCFieldsPair
    Malformed = {}
    MaxFaults = 0
    MaxDbErrors = 0
    MaxStops = 1
INVARIANTS
    NoNeedlessDrop
CHECK_DEADLOCK FALSE
