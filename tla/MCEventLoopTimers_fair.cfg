SPECIFICATION TimedFairSpec
CONSTANTS
    f1 = f1
    NULL = NULL
    Forever = Forever
    TimerNode = {t1, t2}
    EventNode = {}
    Flag = {f1}
    Mask <- MCMask
    MaxDepth = 1
    Modulus = 8
    Interval = {1}
    Limit = {3}
PROPERTY OverdueServed
