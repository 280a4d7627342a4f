\* Two persister-mysql replicas on one queue, with crashes and a graceful shutdown.
SPECIFICATION Spec
CONSTANTS
    Replicas = {p1, p2}
    N = 3
    Key <- MCKeyPair
    Fields <- MCFieldsPair
    Malformed = {}
    MaxFaults = 1
    MaxDbErrors = 0
    MaxStops = 1
INVARIANTS
    Safety
PROPERTIES
    ImplementsAtLeastOnce
CHECK_DEADLOCK FALSE
