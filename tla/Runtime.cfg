SPECIFICATION FairSpec
CONSTANTS
    look = look
    mail = mail
    wipe = wipe
    Runs = {r1}
    MaxDecisions = 2
    Recorders = {c1}
    Tools = {look, mail, wipe}
    RiskOf <- MCRiskOf
    Policies <- MCPolicies
    EngineAnswers = {"throws", "block", "approve"}
    MaxIterations = 3
    MaxToolCalls = 2
    MaxRetries = 1
    JitterThreshold = 2
    MaxEdits = 1
    MaxHitches = 1
    None = None
CHECK_DEADLOCK FALSE
INVARIANTS
    ToolsRunWhenPermitted
    PausedIsDecidable
    LastEventTellsStatus
    SerialApprovalsSpentOnce
PROPERTIES
    RunsSettle
