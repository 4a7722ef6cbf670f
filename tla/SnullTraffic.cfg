SPECIFICATION TrafficSpec
CONSTANTS
    sn0 = sn0
    sn1 = sn1
    NoCtx = NoCtx
    PoolSize = 2
    SetupSizes = {1, 2}
    Lockup = 2
    UseNapi = FALSE
    SkbAlloc = {TRUE}
    Senders = {sn0, sn1}
    WaitForTwin = FALSE
    MaxTx = 2
    MaxCloses = 1
INVARIANTS
    BuffersConserved
    DeliveredOnce
    IntsOffMeansPoll
    ExhaustedOnlyAfterRestart
