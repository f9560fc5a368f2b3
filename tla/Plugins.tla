------------------------------ MODULE Plugins ------------------------------
(***************************************************************************)
(* Start and end of mjpg_streamer (mjpg_streamer.c): main initialises the  *)
(* mutexes of every input, loads, initialises and runs the plugins and     *)
(* waits; SIGINT runs signal_handler in the middle of whatever main does:  *)
(* it stops every plugin, destroys mutexes, closes the libraries and       *)
(* exits.  Most libraries keep the thread they started in one static       *)
(* variable `worker'; output_http and input_uvc keep one per instance.     *)
(* Threads end some time after they are cancelled or have seen             *)
(* global.stop; the two sleeps of the handler give them time for it but    *)
(* promise nothing.  Command lines have at least one -i.                   *)
(***************************************************************************)
EXTENDS Naturals, Sequences

CONSTANTS
    CommandLines,  \* [ins |-> libraries of -i, outs |-> libraries of -o] a user may give
    PerInstance    \* libraries that keep a thread id per instance

ASSUME PluginAssumption ==
    \A c \in CommandLines : \A libs \in {c.ins, c.outs} :
        Len(libs) \in Nat \ {0} /\ DOMAIN libs = 1 .. Len(libs)

VARIABLES
    cmdline,
    mainPc, nthPlugin,     \* where main or its handler is, the index of its loop
    early,                 \* the signal came before main had reached pause
    synced, destroyed,     \* inputs whose mutexes were initialised, destroyed
    stopFn,                \* plugins whose stop pointer is set
    maps,                  \* how often each library is open
    worker,                \* the thread id variables
    living, cancelled,     \* plugins whose thread runs, was cancelled
    stopCalls,             \* how often each stop function was called
    wild                   \* uses of a null stop pointer, of an unset thread id

pluginVars == <<cmdline, mainPc, nthPlugin, early, synced, destroyed, stopFn, maps, worker,
                living, cancelled, stopCalls, wild>>

Plugged(c) == ({"in"} \X DOMAIN c.ins) \cup ({"out"} \X DOMAIN c.outs)
LibOf(c, p) == IF p[1] = "in" THEN c.ins[p[2]] ELSE c.outs[p[2]]
Lib(p) == LibOf(cmdline, p)
NoThread == <<"none", 0>>
IdOf(c, p) == <<LibOf(c, p), IF LibOf(c, p) \in PerInstance THEN p ELSE NoThread>>

Starting == {"mutexes", "inopen", "ininit", "outopen", "outinit", "runin", "runout"}
Ending == {"stopin", "stopout", "closein", "closeout"}

(* Indices, counts and ids are in range: a stop function is called at most *)
(* once, a library closed no more often than it was opened.                *)
PluginTypeOK ==
    /\ mainPc \in Starting \cup Ending \cup {"pause", "exited"}
    /\ \A l \in DOMAIN maps : maps[l] \in 0 .. Len(cmdline.ins) + Len(cmdline.outs)
    /\ \A v \in DOMAIN worker : worker[v] \in Plugged(cmdline) \cup {NoThread}
    /\ stopFn \cup living \cup cancelled \subseteq Plugged(cmdline)
    /\ stopCalls \in [Plugged(cmdline) -> 0 .. 1]
    /\ wild \subseteq {"stop", "cancel"}

-----------------------------------------------------------------------------
PluginInit ==
    /\ cmdline \in CommandLines
    /\ mainPc = "mutexes" /\ nthPlugin = 1 /\ early = FALSE
    /\ synced = {} /\ destroyed = {} /\ stopFn = {} /\ living = {} /\ cancelled = {}
    /\ maps = [l \in {Lib(p) : p \in Plugged(cmdline)} |-> 0]
    /\ worker = [v \in {IdOf(cmdline, p) : p \in Plugged(cmdline)} |-> NoThread]
    /\ stopCalls = [p \in Plugged(cmdline) |-> 0]
    /\ wild = {}

(* The loop over `list' goes on at `again', after its last plugin at `then'. *)
Loop(list, again, then) ==
    IF nthPlugin < Len(list) THEN mainPc' = again /\ nthPlugin' = nthPlugin + 1
    ELSE mainPc' = then /\ nthPlugin' = 1
Quit == mainPc' = "exited" /\ UNCHANGED nthPlugin

(* pthread_mutex_init and pthread_cond_init of one input.                  *)
InitMutexes ==
    /\ mainPc = "mutexes"
    /\ synced' = synced \cup {nthPlugin}
    /\ mainPc' = "inopen"
    /\ UNCHANGED <<cmdline, nthPlugin, early, destroyed, stopFn, maps, worker, living,
                   cancelled, stopCalls, wild>>

(* dlopen and the look-up of the functions; a missing one ends the program.*)
Load(p, then) ==
    /\ \/ /\ maps' = [maps EXCEPT ![Lib(p)] = @ + 1]
          /\ stopFn' = stopFn \cup {p}
          /\ mainPc' = then /\ UNCHANGED nthPlugin
       \/ Quit /\ UNCHANGED <<maps, stopFn>>
    /\ UNCHANGED <<cmdline, early, synced, destroyed, worker, living, cancelled, stopCalls, wild>>
LoadInput == mainPc = "inopen" /\ Load(<<"in", nthPlugin>>, "ininit")
LoadOutput == mainPc = "outopen" /\ Load(<<"out", nthPlugin>>, "outinit")

(* init may ask the program to exit.                                       *)
InitPlugin ==
    /\ \/ mainPc = "ininit" /\ Loop(cmdline.ins, "mutexes", "outopen")
       \/ mainPc = "outinit" /\ Loop(cmdline.outs, "outopen", "runin")
       \/ mainPc \in {"ininit", "outinit"} /\ Quit
    /\ UNCHANGED <<cmdline, early, synced, destroyed, stopFn, maps, worker, living, cancelled,
                   stopCalls, wild>>

(* run starts the detached thread of a plugin and stores its id; main      *)
(* gives up when an input cannot run, and looks at no output's result.     *)
Run(p) ==
    /\ living' = living \cup {p}
    /\ worker' = [worker EXCEPT ![IdOf(cmdline, p)] = p]
RunPlugin ==
    /\ \/ /\ mainPc = "runin" /\ Run(<<"in", nthPlugin>>)
          /\ Loop(cmdline.ins, "runin", "runout")
       \/ mainPc = "runin" /\ Quit /\ UNCHANGED <<worker, living>>
       \/ /\ mainPc = "runout" /\ Run(<<"out", nthPlugin>>)
          /\ Loop(cmdline.outs, "runout", "pause")
    /\ UNCHANGED <<cmdline, early, synced, destroyed, stopFn, maps, cancelled, stopCalls, wild>>

-----------------------------------------------------------------------------
(* Ctrl-C, at any time after main has registered the handler.              *)
Interrupt ==
    /\ mainPc \in Starting \cup {"pause"}
    /\ mainPc' = "stopin" /\ nthPlugin' = 1
    /\ early' = (mainPc \in Starting)
    /\ UNCHANGED <<cmdline, synced, destroyed, stopFn, maps, worker, living, cancelled,
                   stopCalls, wild>>

(* The call of a plugin's stop, which cancels the thread of its variable:  *)
(* a null pointer ends the process, an id never stored may end it.         *)
Stop(p, goOn) ==
    LET t == worker[IdOf(cmdline, p)]
    IN  IF p \notin stopFn
        THEN Quit /\ wild' = wild \cup {"stop"} /\ UNCHANGED <<cancelled, stopCalls, destroyed>>
        ELSE /\ stopCalls' = [stopCalls EXCEPT ![p] = @ + 1]
             /\ cancelled' = IF t = NoThread THEN cancelled ELSE cancelled \cup {t}
             /\ IF t = NoThread
                THEN /\ wild' = wild \cup {"cancel"}
                     /\ (Quit /\ UNCHANGED destroyed) \/ goOn
                ELSE goOn /\ UNCHANGED wild

(* Mutant: only the first input is stopped.                                *)
MutStopInput ==
    /\ mainPc = "stopin"
    /\ Stop(<<"in", nthPlugin>>,
            mainPc' = "stopout" /\ nthPlugin' = 1 /\ UNCHANGED destroyed)
    /\ UNCHANGED <<cmdline, early, synced, stopFn, maps, worker, living>>
StopInput ==
    /\ mainPc = "stopin"
    /\ Stop(<<"in", nthPlugin>>,
            Loop(cmdline.ins, "stopin", "stopout") /\ UNCHANGED destroyed)
    /\ UNCHANGED <<cmdline, early, synced, stopFn, maps, worker, living>>

(* The stop of an output is followed by the destruction of the mutexes of  *)
(* the input with the same number.                                         *)
StopOutput ==
    /\ mainPc = "stopout"
    /\ Stop(<<"out", nthPlugin>>,
            Loop(cmdline.outs, "stopout", "closein") /\ destroyed' = destroyed \cup {nthPlugin})
    /\ UNCHANGED <<cmdline, early, synced, stopFn, maps, worker, living>>

(* dlclose of every input; of every output but those whose handle a later  *)
(* output shares, and exit.                                                *)
CloseInput ==
    /\ mainPc = "closein"
    /\ maps' = [maps EXCEPT ![cmdline.ins[nthPlugin]] = @ - 1]
    /\ Loop(cmdline.ins, "closein", "closeout")
    /\ UNCHANGED <<cmdline, early, synced, destroyed, stopFn, worker, living, cancelled,
                   stopCalls, wild>>
Shared(i) == \E j \in i + 1 .. Len(cmdline.outs) : cmdline.outs[j] = cmdline.outs[i]
CloseOutput ==
    /\ mainPc = "closeout"
    /\ maps' = IF Shared(nthPlugin) THEN maps
               ELSE [maps EXCEPT ![cmdline.outs[nthPlugin]] = @ - 1]
    /\ Loop(cmdline.outs, "closeout", "exited")
    /\ UNCHANGED <<cmdline, early, synced, destroyed, stopFn, worker, living, cancelled,
                   stopCalls, wild>>

ThreadEnds ==
    /\ mainPc \in Ending
    /\ \E p \in living : living' = living \ {p}
    /\ UNCHANGED <<cmdline, mainPc, nthPlugin, early, synced, destroyed, stopFn, maps, worker,
                   cancelled, stopCalls, wild>>

PluginNext ==
    \/ InitMutexes \/ LoadInput \/ LoadOutput \/ InitPlugin \/ RunPlugin \/ Interrupt
    \/ StopInput \/ StopOutput \/ CloseInput \/ CloseOutput \/ ThreadEnds
PluginSpec == PluginInit /\ [][PluginNext]_pluginVars

-----------------------------------------------------------------------------
Distinct == \A p, q \in Plugged(cmdline) : IdOf(cmdline, p) = IdOf(cmdline, q) => p = q

(* signal_handler calls through a null stop pointer or cancels a thread    *)
(* that was never started only when Ctrl-C came while main was starting.   *)
WildOnlyEarly == wild # {} => early

(* Once the libraries are being closed every thread has been cancelled,    *)
(* provided main had finished starting and no two plugins share a `worker' *)
(* variable.                                                               *)
DistinctCancelled ==
    mainPc \in {"closein", "closeout"} /\ ~early /\ Distinct => living \subseteq cancelled

(* The code of an output's thread that nobody cancelled stays mapped: the  *)
(* first of two instances of a library is never cancelled, but the handler *)
(* skips one dlclose for handles that are equal.                           *)
UncancelledOutputMapped ==
    \A p \in living \ cancelled : p[1] = "out" /\ ~early => maps[Lib(p)] > 0

(* As many inputs as outputs: exactly the mutexes main initialised are     *)
(* destroyed, although the handler counts outputs.                         *)
DestroysWhatMainMade ==
    mainPc \in {"closein", "closeout"} /\ ~early /\ Len(cmdline.ins) = Len(cmdline.outs)
        => destroyed = synced

(* What the comment on signal_handler says: plugins shut down tidily.      *)
TidyShutdown == wild = {} /\ destroyed \subseteq synced

(* What the handler logs: it forces the cancellation of the threads.       *)
ThreadsCancelled == mainPc \in {"closein", "closeout"} => living \subseteq cancelled

(* A running thread's code is mapped.                                      *)
CodeMapped == mainPc \in Ending => \A p \in living : maps[Lib(p)] > 0

(* What signal_handler achieves, and under which condition on the command  *)
(* line and the moment of Ctrl-C.                                          *)
ShutdownSafe ==
    /\ PluginTypeOK /\ WildOnlyEarly /\ DistinctCancelled
    /\ UncancelledOutputMapped /\ DestroysWhatMainMade
=============================================================================
