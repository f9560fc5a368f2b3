SPECIFICATION Spec
CONSTANTS
    Clients = {c1}
    Frames = {f1}
    Requests = {"snapshot", "stream", "take"}
    StopCamera = TRUE
    Every = 1
    FileOutput = TRUE
    LongDelay = FALSE
    MjpgFile = FALSE
    Signals = TRUE
    SpuriousWakeups = TRUE
    Faults = {"device", "memory"}
    MaxOuts = 4
    NoFrame = NoFrame
    Freed = Freed
    Cam = Cam
    Worker = Worker
    NoThread = NoThread
SYMMETRY Symmetry
INVARIANTS IInv
