\* The poll loop with one failing publish.
SPECIFICATION Spec
CONSTANTS
    Collectors = {poll}
    N = 2
    Overlap = 1
    Caps = {2}
    Absent = Absent
    Empty = Empty
    Damaged = Damaged
    MaxTouches = 3
    MaxFaults = 1
INVARIANTS
    SuppressedIsPublished
CHECK_DEADLOCK FALSE
