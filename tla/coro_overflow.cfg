\* As many streams as the ring has slots.
SPECIFICATION Spec
CONSTANTS
    N = 4
    UIntMax = 15
    Null = Null
    Dangling = Dangling
    Arrays <- MCArrays
    LookupLists <- MCLookupLists
    StreamCounts = {4}
INVARIANT
    AllAnswered
CHECK_DEADLOCK FALSE
