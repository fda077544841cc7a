\* Half duplex: a refusal that nothing ends.
SPECIFICATION MCFairSpec
CONSTANTS
    RingStart = 0
    RingEnd = 8191
    Lengths <- LongLengths
    Modes <- HalfModes
    MaxFrames = 2
    MaxPauses = 1
    MaxFlaps = 0
PROPERTIES
    RefusalIsTemporary
\* The frames run out.
CHECK_DEADLOCK FALSE
