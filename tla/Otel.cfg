SPECIFICATION FairSpec
CONSTANTS
    Events = {e1, e2, e3}
    Ticks = {t1, t2}
    BatchSize = 2
    MaxTime = 3
CHECK_DEADLOCK FALSE
INVARIANTS
    CursorSound
PROPERTIES
    ExportedWhileOrdered
