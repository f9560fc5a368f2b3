SPECIFICATION FairSpec
CONSTANTS
    Clients = {c1}
    Frames = {f1}
    Requests = {"stream", "take"}
    StopCamera = TRUE
    Every = 2
    FileOutput = TRUE
    LongDelay = TRUE
    MjpgFile = FALSE
    Signals = FALSE
    SpuriousWakeups = FALSE
    Faults = {"file"}
    MaxOuts = 4
    NoFrame = NoFrame
    Freed = Freed
    Cam = Cam
    Worker = Worker
    NoThread = NoThread
INVARIANTS IdleWorkerNotCounted
PROPERTIES AllServed
