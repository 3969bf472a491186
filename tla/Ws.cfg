SPECIFICATION ConnFairSpec
CONSTANTS
    QueueSize = 3
    MaxEmits = 4
    Ping = Ping
    CloseFrame = CloseFrame
    None = None
INVARIANT WireSound
PROPERTY ConnectionLive
CHECK_DEADLOCK FALSE
