\* The controller's two consumers after a single fault: see findings.
SPECIFICATION FairSpec
CONSTANTS
    Consumers = {heartbeats, schemas}
    ConnIds = {c1, c2}
    NoConn = NoConn
    MaxFaults = 1
PROPERTIES
    ConsumersResume
