\* Rings of 4 slots, streams below that: the calls nanotest makes with fewer
\* than 256 streams.
SPECIFICATION Spec
CONSTANTS
    N = 4
    UIntMax = 15
    Null = Null
    Dangling = Dangling
    Arrays <- MCArrays
    LookupLists <- MCLookupLists
    StreamCounts = {1, 2, 3}
INVARIANTS
    FoundIsNaive
    RingHoldsSuspended
    NoDeadResume
    AllAnswered
    AllocsBounded
PROPERTY
    MultiLookupSpec
CHECK_DEADLOCK FALSE
