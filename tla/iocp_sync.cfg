\* sync = 1: what becomes of the bytes of an inline completion.
SPECIFICATION Spec
CONSTANTS
    Readers = {r1}
    Bytes = 3
    ReaderSize = 2
    WriterSize = 2
    Window = 3
    Modes = {TRUE}
    Faults = {}
INVARIANT
    ReceivedIsCounted
CHECK_DEADLOCK FALSE
