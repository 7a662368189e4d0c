SPECIFICATION FairSpec
CONSTANTS
    e1 = e1
    e2 = e2
    f1 = f1
    f2 = f2
    NULL = NULL
    TimerNode = {t1}
    EventNode <- MCEventNode
    Flag <- MCFlag
    Mask <- MCMask
    MaxDepth = 2
INVARIANTS LinkedOnce CursorLinked
PROPERTIES PassAdvances KeepsPromise FlagDelivered
