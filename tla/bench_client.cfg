\* The client with three threads and one session, all faults at any point.
SPECIFICATION BSpec
CONSTANTS
    BlockSize = 2
    Window = 1
    ReadHandlerSize = 1025
    WriteHandlerSize = 1024
    ServerBufSize = 1
    Faults = {"refused", "option", "stop", "reset"}
    Workers = {w1, w2}
INVARIANTS
    NoHeapFallback
    DeletedOnce
    NoneLeftBehind
    StatsWithinABlock
PROPERTIES
    EchoKeepsGoing
    ServerCleansUp
    ClientReports
CHECK_DEADLOCK FALSE
