SPECIFICATION MCSpec
CONSTANTS
    v1 = v1
    v2 = v2
    ip = ip
    Sessions = {v1, v2}
    IpOf <- MCIpOf
    sessionsPerIpPerHour = 1
    executionsPerIpPerHour = 1
    executionsPerSession = 1
    maxConcurrentSessions = 1
    Ttl = 1
    Hour = 2
    MaxFaults = 2
    None = None
CHECK_DEADLOCK FALSE
INVARIANTS
    LimitsHold
    NoTrace
PROPERTIES
    SessionsRecycled
