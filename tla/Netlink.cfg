SPECIFICATION NetlinkSpec
CONSTANTS
    W = 1
    Backlog = 2
    MaxExpired = 2
    Route = {r1, r2}
    MonitorBuf = 2
    Links = 2
    Routes = 2
    Main = {2}
    ShowBuf = 3
    MaxChanges = 3
    User = {u1, u2}
INVARIANTS
    DescriptorsOwn
    CountsExact
    OutputHasNoGap
    SectionComplete
    SocketOutlivesSenders
    RepliesReachSenders
PROPERTIES
    QuitSignalsEnd
    SignalStops
    ShowEnds
\* The programs end.
CHECK_DEADLOCK FALSE
