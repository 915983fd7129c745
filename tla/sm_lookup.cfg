\* Up to three state machines over short vectors.
SPECIFICATION Spec
CONSTANTS
    Arrays <- MCArrays
    LookupLists <- MCLookupLists
    StreamCounts = {1, 2, 3}
INVARIANTS
    NoStrayRun
    ResultIsNaive
PROPERTY
    MultiLookupSpec
CHECK_DEADLOCK FALSE
