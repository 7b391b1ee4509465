SPECIFICATION FairSpec
CONSTANTS
    Calls = {c1}
    Deciders = {d1, d2}
    Lookups = {l1}
    None = None
    Tools <- MCTools
    AllowedTools <- MCAllowedTools
    UpstreamTools <- MCUpstreamTools
    RiskOf <- MCRiskOf
    MaxFaults = 2
INVARIANTS
    RunsOnlyWhenGrantedOrPresumed
    AuditPrecedesEffect
    OutcomesAgree
    OutcomePublishedOnce
PROPERTIES
    UnpausedCallsFinish
    ImplementsGovernedCall
CHECK_DEADLOCK FALSE
