------------------------------- MODULE Streamer -------------------------------
(***************************************************************************)
(* mjpg_streamer with one camera (input_uvc), the HTTP server's client     *)
(* threads (output_http), optionally the file plugin (output_file), and    *)
(* the main thread, which sleeps until a signal tells it to shut down.     *)
(* All threads interleave at the granularity of their accesses to shared   *)
(* state.                                                                  *)
(***************************************************************************)
EXTENDS CamThread, HttpClient

VARIABLE mainPc

vars == <<exchangeVars, camVars, fileVars, cliVars, mainPc>>

Init ==
    /\ ExchangeInit /\ CamInit /\ FileInit /\ CliInit
    /\ mainPc = "pause"

-----------------------------------------------------------------------------
(* signal_handler, in the main thread: set the stop flag, ask the input    *)
(* and then the output plugins to stop, and exit, with pauses between.     *)
SignalHandler ==
    /\ mainPc = "pause" /\ Signals
    /\ stop' = TRUE
    /\ mainPc' = "stop_in"
    /\ UNCHANGED <<picture, outVars, dbVars, cancelled, exited>>

StopInputs ==
    /\ mainPc = "stop_in"
    /\ cancelled' = cancelled \cup {Cam}
    /\ mainPc' = "stop_out"
    /\ UNCHANGED <<picture, outVars, dbVars, stop, exited>>

StopOutputs ==
    /\ mainPc = "stop_out"
    /\ cancelled' = cancelled \cup {Worker}
    /\ mainPc' = "finish"
    /\ UNCHANGED <<picture, outVars, dbVars, stop, exited>>

Exit ==
    /\ mainPc = "finish"
    /\ exited' = TRUE
    /\ mainPc' = "done"
    /\ UNCHANGED <<picture, outVars, dbVars, stop, cancelled>>

MainNext == SignalHandler \/ StopInputs \/ StopOutputs \/ Exit

CamStep == CamNext /\ UNCHANGED <<fileVars, cliVars, mainPc>>
FileStep == FileNext /\ UNCHANGED <<camVars, cliVars, mainPc>>
ClientStep(c) == ClientNext(c) /\ UNCHANGED <<camVars, mainPc>>
MainStep == MainNext /\ UNCHANGED <<camVars, fileVars, cliVars>>
WakeupStep == SpuriousWakeup /\ UNCHANGED <<camVars, fileVars, cliVars, mainPc>>

Running ==
    /\ ~exited
    /\ \/ CamStep \/ FileStep \/ MainStep \/ WakeupStep
       \/ \E c \in Clients : ClientStep(c)

(* After exit() nothing runs any more.                                     *)
Terminated == exited /\ UNCHANGED vars

Next == Running \/ Terminated

Spec == Init /\ [][Next]_vars

(***************************************************************************)
(* Fairness.  A thread that can run does run.  A thread that waits for a   *)
(* mutex gets it if the mutex is free again and again: the critical        *)
(* sections are a copy of a picture or a few assignments long, and between *)
(* two of them the camera thread blocks in the driver until the next       *)
(* picture.  The camera keeps delivering pictures that pass the filters.   *)
(* Nothing is assumed of the peers: no client has to make a request, and a *)
(* peer that stops reading blocks its own thread in write.                 *)
(***************************************************************************)
CamProgress ==
    /\ SF_vars(~exited /\ CamStep)
    /\ SF_vars(~exited /\ CamKeep /\ UNCHANGED <<fileVars, cliVars, mainPc>>)

FileProgress == SF_vars(~exited /\ FileStep)

ClientProgress(c) ==
    SF_vars(~exited /\ Serve(c) /\ UNCHANGED <<camVars, mainPc>>)

FairSpec ==
    /\ Spec
    /\ CamProgress /\ FileProgress
    /\ \A c \in Clients : ClientProgress(c)

-----------------------------------------------------------------------------
(* The type invariant of the composed state.                               *)
TypeOK ==
    /\ ExchangeTypeOK /\ CamTypeOK /\ FileTypeOK /\ CliTypeOK
    /\ mainPc \in {"pause", "stop_in", "stop_out", "finish", "done"}

(* The clients that count as active outputs: registered by the first       *)
(* critical section of client_thread and not yet taken away by the second. *)
Viewers ==
    {c \in Clients : /\ kind[c] # "take"
                     /\ cliPc[c] \in {"header", "loop", "wait", "waiting",
                                      "copy", "send", "dec_lock", "dec"}}

(* The worker of output_file between its ouput_inc and its ouput_dec.      *)
WorkerActive ==
    filePc \in {"wait", "waiting", "copy", "write", "dec_lock", "dec"}
               \cup IF LongDelay THEN {} ELSE {"loop", "sleep"}

(***************************************************************************)
(* Safety.                                                                 *)
(***************************************************************************)
(* The picture a client sends is one picture: the length, the bytes and    *)
(* the timestamp that send_snapshot or send_stream copied belong to the    *)
(* same frame, although cam_thread stores them in several steps, republishes*)
(* old frames and may publish a size of 0.  Memory that was freed under    *)
(* the reader is not covered here.                                         *)
NoMixedFrame ==
    \A c \in Clients :
        cliPc[c] = "send" /\ copy[c].size # NoFrame /\ copy[c].data # Freed
        => copy[c].data = copy[c].size /\ copy[c].ts = copy[c].size

(* cam_thread never sleeps on out_update, with the camera switched off,    *)
(* while an output is counted: the test of num_outs and the wait are not   *)
(* separated by a registration whose broadcast would be lost.              *)
NoLostWakeup == Cam \in outWait => num_outs = 0

(* num_outs never falls below the number of outputs that are being served, *)
(* through failed writes, failed allocations, dead workers and shutdown:   *)
(* the "if(num_outs > 0)" of the decrement hides no missing increment.     *)
NoUndercount ==
    num_outs >= Cardinality(Viewers) + (IF WorkerActive THEN 1 ELSE 0)

(* "Wait for a fresh frame": a client only sends a picture that was in the *)
(* buffer after a broadcast that came after its request.                   *)
FreshFrame == \A c \in Clients : cliPc[c] = "send" => c \in fresh

(* cam_thread switches the camera off only while no client is being served *)
(* (or when it ends).                                                      *)
NeverOffUnderViewer ==
    [][streaming = "ON" /\ streaming' = "OFF"
       => Viewers = {} \/ camPc = "cleanup"]_vars

(***************************************************************************)
(* Liveness.                                                               *)
(***************************************************************************)
(* A snapshot or stream client that waits for a picture gets one.          *)
ViewerServed ==
    \A c \in Clients :
        cliPc[c] = "waiting" /\ kind[c] # "take" ~> cliPc[c] = "send"

(* "Stop camera when no active outputs": if from some time on no client is *)
(* served and no file worker runs, the camera is switched off for good.    *)
CameraSleeps ==
    <>[](Viewers = {} /\ filePc = "done") => <>[](streaming = "OFF")

(***************************************************************************)
(* What comments and help texts say beyond this.                           *)
(***************************************************************************)
(* mjpg_streamer.c says that the mutex and the condition variable          *)
(* "synchronize access to the global picture buffer": no client copies     *)
(* from a buffer that cam_cleanup has freed in the meantime.               *)
BufferAliveWhileRead ==
    \A c \in Clients :
        cliPc[c] = "send" /\ copy[c].size # NoFrame => copy[c].data # Freed

(* httpd.c on "take": "if the file could not be saved then we won't        *)
(* transmit the frame".                                                    *)
TakeSavesFirst ==
    \A c \in Clients :
        cliPc[c] = "send" /\ kind[c] = "take" => saved[c].done

(* httpd.c on "take": "save the current image to file before we transmit   *)
(* it to the user" - the picture transmitted is the picture saved.         *)
TakeSendsWhatItSaved ==
    \A c \in Clients :
        cliPc[c] = "send" /\ kind[c] = "take" /\ saved[c].done
        => saved[c].file.size = copy[c].size

(* output_file.c: "if delay is large enough, output_file is not active     *)
(* output".  While the worker pauses and no client is served or about to   *)
(* be, no active output is counted.                                        *)
IdleWorkerNotCounted ==
    LongDelay /\ filePc = "sleep" /\ Viewers = {} => num_outs = 0

(* output_file.c: "copy frame to our local buffer now".  What worker_thread*)
(* and the take command write after they released the mutex is the picture *)
(* each of them copied while it held it.                                   *)
FilesIntact ==
    LET Intact(f) == f.size # NoFrame /\ f.data # Freed => f.data = f.size
    IN  Intact(fileSaved) /\ \A c \in Clients : Intact(saved[c].file)

(* A client of "take" is not counted as an active output, so its wait does *)
(* not switch the camera on; it is served all the same, since the worker   *)
(* of output_file runs or was counted when it died.                        *)
TakeServed ==
    \A c \in Clients :
        cliPc[c] = "waiting" /\ kind[c] = "take" ~> cliPc[c] = "send"

(* Under a fair scheduler every request that waits for a picture gets one, *)
(* a snapshot, a stream or "take", counted as an active output or not.     *)
AllServed == ViewerServed /\ TakeServed
=============================================================================
