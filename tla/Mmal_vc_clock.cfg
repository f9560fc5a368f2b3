SPECIFICATION VcClockSpec
CONSTANTS
    VcThreads = {t1, t2}
    WaitPool = {w1}
    NoWaiter = NoWaiter
    SyncFlush = TRUE
    MaxCalls = 2
    VcFaults = {"init", "queue"}
    Requests = {r1, r2}
    Ctl = ctl
    Worker = worker
    Unset = unset
    Times = {0, 2}
    Reverse = FALSE
    MaxMedia = 2
    MaxIdle = 1
    MaxOps = 1
    MaxAdding = 1
    Slots = 2
    MinDelay = 0
    TargetOffset = 0
    WaitTime = 1
    Lower = 0
    Upper = 1
    Discont = 0
    DiscontTime = 1
    RequestLimit = 1
INVARIANTS  RequestsKept
PROPERTIES  RequestServed
CHECK_DEADLOCK FALSE
