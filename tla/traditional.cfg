\* Both modes, with connections that are reset and a run that ends early.
SPECIFICATION TSpec
CONSTANTS
    Readers = {r1, r2}
    Bytes = 2
    ReaderSize = 1
    WriterSize = 1
    Window = 1
    Modes = {TRUE}
    Faults = {"reset", "timeout", "at once"}
INVARIANTS
    OneOwner
    HandlersLive
PROPERTY
    ImplementsImproved
CHECK_DEADLOCK FALSE
