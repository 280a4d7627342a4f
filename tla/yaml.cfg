\* Two files, two entities, two faults and a stop, with and without commits and pushes.
SPECIFICATION FairSpec
CONSTANTS
    Files = {f1, f2}
    MaxEntities = 2
    MaxFaults = 2
    MaxStops = 1
INVARIANTS
    Safety
    AckedOnDisk
    StagedUnlessFault
PROPERTIES
    FilesTracked
    QueueDrains
    StopEnds
CHECK_DEADLOCK FALSE
