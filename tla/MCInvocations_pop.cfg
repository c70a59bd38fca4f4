SPECIFICATION Spec
CONSTANTS
    full = full
    brief = brief
    ahead = ahead
    Invocation = {full, brief}
    Iat <- MCIat
    Exp <- MCExp
    Requests = {v1, v2}
    TicksPerSecond = 2
    Freshness = 1
    ClockSkew = 1
    Lifetime = 3
    MaxPause = 2
    MaxClock = 9
    MaxRestarts = 1
SYMMETRY Symmetry
INVARIANTS
    TypeOK
    SpentOnce
    RestartDefence
CHECK_DEADLOCK FALSE
