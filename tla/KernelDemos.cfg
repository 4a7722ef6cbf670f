SPECIFICATION DemoSpec
CONSTANTS
    Proc = {1, 2}
    BUF_SIZE = 3
    Default = 2
    Slot = {1, 2}
    SockBuf = 1
    PoolSize = 2
    Cpus = 2
    MaxLen = 1
    MaxFrames = 2
INVARIANTS
    StaysInBuffer
    UndisturbedReadWhole
    OneMorePacket
    NothingLeftBehind
    FreedOnlyIdle
    StatsBetween
PROPERTIES
    QueuedDecided
