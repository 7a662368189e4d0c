SPECIFICATION TimedSpec
CONSTANTS
    f1 = f1
    NULL = NULL
    Forever = Forever
    TimerNode = {t1, t2}
    EventNode = {}
    Flag = {f1}
    Mask <- MCMask
    MaxDepth = 2
    Modulus = 8
    Interval = {1, 2}
    Limit = {3}
INVARIANTS SleepBounded DueExact NoOversleep
PROPERTY NeverEarly
SYMMETRY Symmetry
