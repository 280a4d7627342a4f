\* The poll loop and the request consumer share one repository's cache file; a listing may hold
\* every issue, or be cut short by the cap.
SPECIFICATION FairSpec
CONSTANTS
    Collectors = {poll, request}
    N = 2
    Overlap = 1
    Caps = {1, 2}
    Absent = Absent
    Empty = Empty
    Damaged = Damaged
    MaxTouches = 2
    MaxFaults = 1
INVARIANTS
    Safety
PROPERTIES
    NewestPublished
CHECK_DEADLOCK FALSE
