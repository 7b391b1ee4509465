SPECIFICATION Spec
CONSTANTS
    Fresh = {w1}
    Resumers = {w2, w3}
    Binders = {b1, b2}
    Tools <- MCTools
    Snapshots = {1, 2}
    Digests = {1, 2}
    Timeout = 2
    MaxTime = 2
    MaxFaults = 1
    None = None
SYMMETRY Symmetric
CHECK_DEADLOCK FALSE
INVARIANTS
    RecordTellsEffect
    OneExecutionPerGrant
    FirstWriterWins
    NoneLeftOpen
