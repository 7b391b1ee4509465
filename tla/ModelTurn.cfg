SPECIFICATION Spec
CONSTANTS
    MaxTokens = 60
    MaxStepTokens = 25
    MaxOutputTokensPerStep = 12
    MaxReActIterations = 6
    MaxToolCalls = 4
    MinimumUsefulOutputTokens = 2
    Sizes <- MCSizes
    SystemBudgets <- MCSystemBudgets
    Overrun = 3
    GenerationTokens = 20
    Tools = {lookup, send}
    MaxResumes = 2
    None = None
CHECK_DEADLOCK FALSE
INVARIANTS
    SpendBounded
    UsageRecorded
    OnlyAnswersShown
