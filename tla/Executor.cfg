SPECIFICATION FairSpec
CONSTANTS
    read = read
    send = send
    wipe = wipe
    ghost = ghost
    Runs = {r1}
    Deciders = {d1, d2}
    Tools = {read, send, wipe, ghost}
    AllowedTools = {read, send, wipe, ghost}
    BlockedTools = {}
    RegisteredTools = {read, send, wipe}
    RiskOf <- MCRiskOf
    MaxIterations = 2
    MaxFaults = 1
    None = None
CHECK_DEADLOCK FALSE
INVARIANTS
    ToolsRunWhenPermitted
    SerialApprovalsSpentOnce
PROPERTIES
    RunsSettle
