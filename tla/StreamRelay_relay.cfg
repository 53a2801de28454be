SPECIFICATION FairSpec
CONSTANTS
    Streams = {s1}
    Others = {o1}
    Surfaces = {"chat", "completions", "responses", "messages"}
    OrdinaryCap = 3
    LargeCap = 7
    Sizes = {1, 4}
    Overhead = 1
    Pool = 1
    MaxLines = 5
INVARIANTS
    SuccessIsWhole
    ClosedOnce
PROPERTIES
    SlotsImplemented
    LargeSlotIsReturned
CHECK_DEADLOCK FALSE
