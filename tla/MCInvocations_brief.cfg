SPECIFICATION Spec
CONSTANTS
    full = full
    brief = brief
    ahead = ahead
    Invocation = {brief}
    Iat <- MCIat
    Exp <- MCExp
    Requests = {v1}
    TicksPerSecond = 2
    Freshness = 1
    ClockSkew = 1
    Lifetime = 3
    MaxPause = 0
    MaxClock = 10
    MaxRestarts = 0
INVARIANTS
    NeverTwice
CHECK_DEADLOCK FALSE
