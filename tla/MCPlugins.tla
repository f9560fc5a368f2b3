----------------------------- MODULE MCPlugins -----------------------------
(* The HTTP server, the HTTP input, the ring buffer and the loading of      *)
(* plugins for TLC.  They share no variable: a behaviour is one of its      *)
(* subject, while the others stay in an initial state, so one run explores  *)
(* the sum of the four state spaces.                                        *)
EXTENDS HttpServer, HttpInput, RingBuffer, Plugins, TLC

VARIABLE subject

About(c) == subject = c

(* Connections and heap cells are interchangeable.                          *)
ConnSymmetry == Permutations(Conns) \cup Permutations(Cells)

MCPics == UNION {[1 .. n -> {"-", "b", "CR"}] : n \in 0 .. 3} \ {BOUNDARY}

MCLibs(m, s) == UNION {[1 .. n -> s] : n \in 1 .. m}
MCCommandLines == [ins : MCLibs(2, {"uvc", "file"}), outs : MCLibs(2, {"http", "udp"})]

PluginsInit ==
    /\ subject \in {"server", "proxy", "ring", "loader"}
    /\ ServerInit /\ InputInit /\ RingInit /\ PluginInit
    /\ ~About("server") => sock = [c \in Conns |-> CHOOSE s \in Sockets : TRUE]
    /\ ~About("ring") => files = {}
    /\ ~About("loader") => cmdline = CHOOSE c \in CommandLines : TRUE

PluginsNext ==
    /\ subject' = subject
    /\ \/ About("server") /\ ServerNext /\ UNCHANGED <<inputVars, ringVars, pluginVars>>
       \/ About("proxy") /\ InputNext /\ UNCHANGED <<vars, ringVars, pluginVars>>
       \/ About("ring") /\ RingNext /\ UNCHANGED <<vars, inputVars, pluginVars>>
       \/ About("loader") /\ PluginNext /\ UNCHANGED <<vars, inputVars, ringVars>>

PluginsSpec == PluginsInit /\ [][PluginsNext]_<<vars, inputVars, ringVars, pluginVars, subject>>
=============================================================================
