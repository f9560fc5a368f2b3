SPECIFICATION FairServerSpec
CONSTANTS
    Sockets = {1}
    Conns = {c1, c2}
    Cells = {a1, a2, a3}
    None = None
    Actions = {"take"}
    Digits = {0}
    Plugins = 1
    MaxLines = 1
    Events = {"nothread"}
INVARIANTS ThreadPerConnection
PROPERTIES ConnectionReached
CHECK_DEADLOCK FALSE
