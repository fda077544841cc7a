\* The real ring, frames of 1024 bytes: the sixteenth ends where the ring ends.
SPECIFICATION Spec
CONSTANTS
    RingStart = 8192
    RingEnd = 24575
    FrameLens <- EvenLens
    MaxFrames = 17
    PktMax = 255
    GarbageNext <- RealGarbageNext
    GarbageLen <- MCGarbageLen
INVARIANTS
    TailBehindNextFrame
