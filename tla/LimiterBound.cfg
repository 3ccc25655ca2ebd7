SPECIFICATION LimiterSpec
CONSTANTS
    Callers = {c1, c2, c3}
    c1 = c1
    c2 = c2
    c3 = c3
    Rate = 2
    Burst = 3
    Sizes = {0, 1, 4}
    MaxTime = 6
    MaxBytes = 14
    Awake = Awake
INVARIANT RateHolds
INVARIANT SleepsAreRight
CHECK_DEADLOCK FALSE
