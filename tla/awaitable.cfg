\* Both modes, with connections that are reset and a run that ends early.
SPECIFICATION Spec
CONSTANTS
    Readers = {r1, r2}
    NoReader = NoReader
    Bytes = 3
    ReaderSize = 2
    WriterSize = 2
    Window = 2
    Modes = {FALSE, TRUE}
    Faults = {"reset", "timeout", "at once"}
INVARIANTS
    RestsWhenFreed
    OneOwner
    CountsReads
PROPERTIES
    EveryReaderEnds
    WritersDestroyed
CHECK_DEADLOCK FALSE
