\* Two clients, one or two threads, and at most one error of async_accept.
SPECIFICATION Spec
CONSTANTS
    c1 = c1
    c2 = c2
    Conns <- MCConns
    NoConn = NoConn
    BufSize = 2
    Bytes <- MCBytes
    Servers = {"myserver", "easy", "hard1", "hard2"}
    ThreadCounts = {1, 2}
    Faults = {"option", "reset"}
    MaxAcceptErrors = 1
INVARIANTS
    EchoesInOrder
    IdleWhenServed
PROPERTIES
    ImplementsMyserver
    Served
    FramesFreed
CHECK_DEADLOCK FALSE
