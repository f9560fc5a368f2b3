SPECIFICATION WorkSpec
CONSTANTS
    Pictures = {p1, p2}
    Readers = {"udp", "viewer"}
    InKinds = {"file", "existing", "test", "ptp2", "opencv"}
    NoPicture = NoPicture
    Garbage = Garbage
    Source = Source
    Nobody = Nobody
    Wanted = {p1}
    Folder <- MCFolder
    MaxEvents = 2
    RestartLimit = 0
    WFaults = {"file", "memory", "camera", "empty", "overflow", "disk"}
INVARIANTS WorkersSafe
PROPERTIES  ReaderWoken
