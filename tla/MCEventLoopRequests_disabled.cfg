SPECIFICATION RequestSpec
CONSTANTS
    e1 = e1
    f1 = f1
    NULL = NULL
    TimerNode = {t1}
    EventNode = {e1}
    Flag = {f1}
    Mask <- MCMask
    MaxDepth = 1
PROPERTY DisabledIsQuiet
