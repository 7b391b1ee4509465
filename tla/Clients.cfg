SPECIFICATION MCSpec
CONSTANTS
    e1 = e1
    e2 = e2
    Tokens = {t1, t2}
    Executions = {e1, e2}
    Agents = {a1, a2}
    Slots = {1, 2}
    Visits <- MCVisits
    MaxFaults = 1
    Null = Null
    Tasks = {x1, x2}
    Polls = {1, 2}
    Loads = {1}
    Decisions = {1}
    MaxActs = 3
    MaxLosses = 1
    Nothing = Nothing
CHECK_DEADLOCK FALSE
INVARIANTS
    PageFollowsRoute
PROPERTIES
    FeedCatchesUp
    PanelCatchesUp
    PagesCatchUp
