SPECIFICATION MCSpec
CONSTANTS
    Requests = {q1, q2, q3}
    Users <- MCUsers
    WorkspaceOf <- MCWorkspaceOf
    RoleOf <- MCRoleOf
    Home = "home"
    ServiceRole = "operator"
    ApiNames = {"followup", "assistant"}
    SeededName = "followup"
    Tools <- MCTools
    Objects = {"Task", "Contact"}
    OperationOf <- MCOperationOf
    Matches <- MCMatches
    CallerTraces = {t1}
    Inputs <- MCInputs
    MaxAgents = 2
    None = None
    SourceFiles <- MCFiles
    Databases <- MCDatabases
    MaxFiles = 0
    Absent = Absent
    Undefined = Undefined
    Evaluators = {e1, e2}
    RuleIds = {"r1", "r2", "r3"}
    Tables <- MCTables
    Scopes <- MCScopes
    ToolInputs <- MCToolInputs
    TTL = 1
    MaxTime = 3
    MaxRuleEdits = 1
SYMMETRY RequestSymmetry
CHECK_DEADLOCK FALSE
INVARIANTS
    ApprovedCallsRun
