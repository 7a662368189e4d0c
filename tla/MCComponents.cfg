SPECIFICATION MCSpec
CONSTANTS
    Led = {server_g, server_r, wifi_g, wifi_r}
    PwmLevel = {0, 7, 50, 100}
    total_step = 50
    NULL = NULL
    Button = {b1, b2}
    Object = {s1, s2}
    RingSize = 2
    MaxBytes = 8
    ImageSize = 2
    SlotSize = 3
    MaxSize = 4
    MAX_FAULT_PORT = 1
    RpcParam = {0, 30}
    Doc <- MCDoc
    Gap <- MCGap
    Char <- MCChar
    Message <- MCMessage
    entry_max = 6
INVARIANTS ComponentsTypeOK TimerWhileBlinking PinsShowModes OnItsWay LastStateOnItsWay BytesInOrder BootsVerified Released AloneShowsState InPlace FindsMembers
PROPERTIES NeverAway Settles StateIsTold BytesDelivered ExampleStarts
CHECK_DEADLOCK FALSE
