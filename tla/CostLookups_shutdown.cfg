SPECIFICATION FairSpec
CONSTANTS
    Streams = {s1, s2}
    Passthroughs = {p1}
    StreamSlots = 1
    PassthroughSlots = 1
    Reads = 2
CHECK_DEADLOCK FALSE
INVARIANT CountersAreExact
INVARIANT LookupsLandBeforeClose
INVARIANT OnlyOutlivingHandlersLose
PROPERTY NoWorkWhileWaiting
PROPERTY ShutdownEnds
