SPECIFICATION WorkerFairSpec
CONSTANTS
    w1 = w1
    w2 = w2
    t1 = t1
    t2 = t2
    e1 = e1
    e2 = e2
    ec = ec
    f1 = f1
    f2 = f2
    fc = fc
    NULL = NULL
    TimerNode <- MCTimerNode
    EventNode <- MCEventNode
    Flag <- MCFlag
    Mask <- MCMask
    Worker <- MCWorker
    timer_node <- MCtimer_node
    event_node <- MCevent_node
    event_flag <- MCevent_flag
    ClientEvent <- MCClientEvent
    Remote <- MCRemote
    MaxDepth = 2
    QueueSize = 1
INVARIANTS
    CycleKept
    OneBaton
PROPERTY SampleCompletes
