SPECIFICATION Spec
CONSTANTS
    agent = agent
    governed = governed
    process = process
    alice = alice
    bob = bob
    eve = eve
    Instances = {process}
    KindOf <- MCKindOf
    PolicyOK = {}
    Users = {alice, bob}
    InitSteps <- MCInitSteps
    Plans <- MCPlans
    Deciders = {d1, d2, d3}
    Timers = {t1}
    Admins = {a1}
    MaxFaults = 1
    None = None
CHECK_DEADLOCK FALSE
INVARIANTS
    StepsDealtWith
PROPERTIES
    DecisionsKeptUnlessStale
SYMMETRY CallSymmetry
