SPECIFICATION FairSpec
CONSTANTS
    Clients = {c1, c2}
    Frames = {f1, f2}
    Requests = {"snapshot"}
    StopCamera = TRUE
    Every = 1
    FileOutput = FALSE
    LongDelay = FALSE
    MjpgFile = FALSE
    Signals = FALSE
    SpuriousWakeups = FALSE
    Faults = {}
    MaxOuts = 5
    NoFrame = NoFrame
    Freed = Freed
    Cam = Cam
    Worker = Worker
    NoThread = NoThread
INVARIANTS NoMixedFrame NoLostWakeup FreshFrame
PROPERTIES NeverOffUnderViewer FeedRefinement ViewerServed CameraSleeps
