SPECIFICATION PluginsSpec
CONSTANTS
    Sockets = {1, 2}
    Conns = {c1, c2}
    Cells = {a1, a2, a3}
    None = None
    Actions = {"take", "output_json", "file"}
    Digits = {0, 1}
    Plugins = 1
    MaxLines = 1
    Events = {"nothread"}
    StreamPics <- MCPics
    MaxParts = 2
    MaxLinks = 2
    NoShown = NoShown
    Size = 2
    Exceed = 2
    MaxTime = 3
    MaxCounter = 4
    Leftover = 4
    RingEvents = {"restart", "nofile", "nodelete", "dst"}
    CommandLines <- MCCommandLines
    PerInstance = {"uvc", "http"}
SYMMETRY ConnSymmetry
INVARIANTS  PartsExtracted  ShutdownSafe
CHECK_DEADLOCK FALSE
