SPECIFICATION FairQueueSpec
CONSTANTS
    Buffers = {b0, b1, b2, b3}
    NoBuffer = NoBuffer
    StopCamera = TRUE
    Events = {}
INVARIANTS NeverStarved
PROPERTIES PicturesFlow
