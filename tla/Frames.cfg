\* snull: one direction, regular interrupts, every second transmit interrupt lost.
SPECIFICATION FramesSpec
CONSTANTS
    sn0 = sn0
    sn1 = sn1
    NoCtx = NoCtx
    PoolSize = 2
    SetupSizes = {1, 2}
    Lockup = 2
    UseNapi = FALSE
    SkbAlloc = {TRUE, FALSE}
    Senders = {sn0}
    WaitForTwin = FALSE
    MaxTx = 5
    MaxCloses = 0
    Net = {0, 1, 4, 255}
    Host = {1, 2, 3, 254}
    W = 16
    Length = {60, 98}
    Ip <- Subnet
    OwnIp <- Own
    OwnMac <- Hardware
    Payload <- Payloads
INVARIANTS
    SkbsAccounted
    TimeoutsAreLockups
    EchoAccepted
PROPERTIES
    StoppedQueueRecovers
    FramesArrive
    TwinAnswers
    PingsAnswered
