CONSTANTS
    Job = {j1, j2}
    Volume = {d1, d2}
    Day = 6
    Window = 3
    Hour = 4
    Offset = 0
    Starts = {0, 5}
    DaySets = {{0, 1, 2, 3, 4, 5, 6}, {0, 2}}
    Retentions = {{1}}
    MaxDay = 3
    Fault = {"crash", "kill", "broker", "rm"}
    NoJob = NoJob
SYMMETRY Symmetry
SPECIFICATION Spec
INVARIANTS LocksLeftByTheDead NoneOutlives
PROPERTIES OnceEach
CHECK_DEADLOCK FALSE
