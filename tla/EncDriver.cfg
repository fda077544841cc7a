\* enc624j600_init with a link that may be lost, and two loads in both duplex modes: every limit of the length, and the longest
\* frames round the area; a peer that pauses or uses the medium at any moment.
SPECIFICATION MCFairSpec
CONSTANTS
    RingStart = 0
    RingEnd = 8191
    Lengths <- MCLengths
    Modes <- MCModes
    MaxFrames = 7
    MaxPauses = 2
    MaxFlaps = 2
INVARIANTS
    ConfigurationSurvives
    DuplexAgrees
    SuccessIsHonest
    WireIntegrity
PROPERTIES
    EveryCallReturns
    InitReturns
    NothingDisturbed
\* The frames run out; the model of enc624j600_init ends where it returns.
CHECK_DEADLOCK FALSE
