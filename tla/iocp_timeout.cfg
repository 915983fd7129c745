\* run() returns before its readers have their bytes.
SPECIFICATION Spec
CONSTANTS
    Readers = {r1}
    Bytes = 3
    ReaderSize = 2
    WriterSize = 2
    Window = 3
    Modes = {FALSE}
    Faults = {"timeout"}
INVARIANT
    NoPanic
CHECK_DEADLOCK FALSE
