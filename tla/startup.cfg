\* A collector and a persister come up with the controller.
SPECIFICATION FairSpec
CONSTANTS
    Workers = {collector, persister}
    Persisters = {persister}
    Last = 2
    Absent = Absent
    MaxEdits = 2
    MaxFaults = 1
    MaxStops = 1
INVARIANTS
    Safety
PROPERTIES
    SettingKept
    ControllerServes
    WorkersRun
    SchemasStored
    StopEnds
CHECK_DEADLOCK FALSE
