\* sync = 0: every completion comes through the thread pool.
\* Connections may be reset, and run() may give up.
SPECIFICATION Spec
CONSTANTS
    Readers = {r1, r2}
    Bytes = 3
    ReaderSize = 2
    WriterSize = 2
    Window = 3
    Modes = {FALSE}
    Faults = {"reset", "timeout", "at once"}
INVARIANTS
    DoneMeansServed
    NeverStuck
    ReceivedIsCounted
PROPERTY
    EndsByItself
CHECK_DEADLOCK FALSE
