SPECIFICATION FairSpec
CONSTANTS
    agent = agent
    governed = governed
    process = process
    alice = alice
    bob = bob
    eve = eve
    Instances = {agent, governed}
    KindOf <- MCKindOf
    PolicyOK = {governed}
    Users = {alice, bob}
    InitSteps <- MCInitSteps
    Plans <- MCPlans
    Deciders = {d1, d2}
    Timers = {t1}
    Admins = {}
    MaxFaults = 1
    None = None
CHECK_DEADLOCK FALSE
INVARIANTS
    AgentResumedOnce
PROPERTIES
    ApprovedAgentResumes
