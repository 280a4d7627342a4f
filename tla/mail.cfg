\* Two threads with room for one, a request beside the polls, two moves, a move and a fault, or two faults.
SPECIFICATION FairSpec
CONSTANTS
    m1 = m1
    m2 = m2
    m3 = m3
    t1 = t1
    t2 = t2
    Mails <- MCMails
    ThreadOf <- MCThreadOf
    Limit = 1
    MaxChanges = 2
    MaxRequests = 1
INVARIANTS
    Safety
PROPERTIES
    NoRollback
    SinkConverges
    RequestsSettle
CHECK_DEADLOCK FALSE
