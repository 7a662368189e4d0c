SPECIFICATION MCSpec
CONSTANTS
    con = con
    pub = pub
    sub = sub
    discon = discon
    net = net
    app = app
    fcon = fcon
    fpub = fpub
    fsub = fsub
    fdiscon = fdiscon
    fnet = fnet
    fapp = fapp
    NULL = NULL
    retry_timer_node = retry
    start_timer_node = start
    TimerNode = {retry, start}
    EventNode <- MCEventNode
    Flag <- MCFlag
    Mask <- MCMask
    mqtt_event_node <- MCmqtt_event_node
    mqtt_flag <- MCmqtt_flag
    AppEvent <- MCAppEvent
    MaxDepth = 3
    Request = {"PUBLISHED"}
INVARIANTS NeverGivesUp ReportedIsCurrent MainKeepsRunning OnlyInnermostWaits
