SPECIFICATION MmalSpec
CONSTANTS
    Headers = {b1, b2}
    NULL = NULL
    Putters = {p1, p2}
    Getters = {g1}
    Waiters = {w1, w2}
    Callers = {main}
    Pools = {{b1}, {b1, b2}}
    PauseMax = 1
    MaxStale = 0
    PortFaults = {"enable", "send", "flush"}
    Comps = {c1, c2}
    Refs = {r1, r2}
    CompThreads = {t1, t2}
    NoComp = NoComp
    CompFaults = {"alloc", "construct", "destroy", "disable"}
INVARIANTS PortSafe DestructionSafe
PROPERTIES QueueKeepsPromise PortLive DestroyedInTheEnd
