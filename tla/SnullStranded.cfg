SPECIFICATION FairSpec
CONSTANTS
    sn0 = sn0
    sn1 = sn1
    NoCtx = NoCtx
    PoolSize = 2
    SetupSizes = {2}
    Lockup = 0
    UseNapi = TRUE
    SkbAlloc = {TRUE}
    Senders = {sn0}
    WaitForTwin = TRUE
    MaxTx = 2
    MaxCloses = 0
PROPERTY FramesArrive
