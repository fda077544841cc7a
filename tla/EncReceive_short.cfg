\* A short ring, three sizes of frames: every alignment of a frame with the
\* end of the ring, full and empty rings, arrivals between all transactions;
\* weak fairness of the driver and none of the hardware.
SPECIFICATION MCFairSpec
CONSTANTS
    RingStart = 16
    RingEnd = 239
    FrameLens <- ShortLens
    MaxFrames = 6
    PktMax = 255
    GarbageNext <- ShortGarbageNext
    GarbageLen <- MCGarbageLen
INVARIANTS
    UnreadIntact
    DriverInStep
PROPERTIES
    EveryFrameDelivered
    ImplementsFifo
\* MaxFrames bounds the arrivals; the driver can always be called.
