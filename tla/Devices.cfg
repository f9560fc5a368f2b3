SPECIFICATION DevicesSpec
CONSTANTS
    Buffers = {b0, b1, b2}
    NoBuffer = NoBuffer
    StopCamera = TRUE
    Events = {"empty", "resolution", "device"}
    RingSize = 4
    BulkOut = 2
    MaxBytes = 6
    MaxOpens = 2
    ChFaults = {"submit", "status", "read"}
    Tasks = {t1, t2}
    Watched = {"CTS", "DCD"}
    MaxReports = 1
    HUPCL = TRUE
    Requests <- MCRequests
    PowerLines <- MCLines
    Junk = {0, 65535}
    CpFaults = {"enable", "readLine", "writeTest", "readTest", "writeBack", "getBaud", "getData", "setData", "getParity", "setParity", "getStop", "setStop", "getFlow", "setFlow", "setBaud", "generic"}
INVARIANTS RestartSound WriteSafe  TermiosReflected
PROPERTIES BufferDrains SettingsKept
CHECK_DEADLOCK FALSE
