\* The controller: the heartbeat and the source-schema consumers share one client.  One of
\* them may be lost in its set-up, which leaves the other alone, as in the other services.
SPECIFICATION FairSpec
CONSTANTS
    Consumers = {heartbeats, schemas}
    ConnIds = {c1, c2}
    NoConn = NoConn
    MaxFaults = 3
INVARIANTS
    Safety
PROPERTIES
    PublishErrorBlamed
    PublishReturns
    LoneConsumerResumes
    ShutdownQuiesces
