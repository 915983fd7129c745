\* Waits of one or two units of time, stopped after one to three.
SPECIFICATION Spec
CONSTANTS
    Intervals = {1, 2}
    StopAfter = {1, 2, 3}
    MaxTime = 3
    MaxMoves = 2
INVARIANT
    ResumedOnce
PROPERTY
    FrameGoes
CHECK_DEADLOCK FALSE
