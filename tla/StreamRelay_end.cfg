SPECIFICATION Spec
CONSTANTS
    Streams = {s1}
    Others = {o1}
    Surfaces = {"chat", "completions", "responses", "messages"}
    OrdinaryCap = 3
    LargeCap = 7
    Sizes = {1, 4}
    Overhead = 1
    Pool = 1
    MaxLines = 5
CHECK_DEADLOCK FALSE
INVARIANT UnreadableReachedItsEnd
