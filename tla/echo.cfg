\* One connection, and a block that just does not fit: two bytes in the kernels'
\* buffers each way, two in the server's, and one too many.  Shorter parts of it
\* show their order as well.  The client may be stopped and the connection reset.
SPECIFICATION Spec
CONSTANTS
    BlockSize = 7
    Window = 2
    ReadHandlerSize = 1024
    WriteHandlerSize = 1024
    ServerBufSize = 2
    Faults = {"stop", "reset"}
INVARIANTS
    BuffersOwned
    NothingLost
    CountersExact
    RestsWhenOver
PROPERTIES
    EchoKeepsGoing
CHECK_DEADLOCK FALSE
