----------------------------- MODULE StreamerInv -----------------------------
(***************************************************************************)
(* The inductive invariant behind the safety properties of Streamer.       *)
(***************************************************************************)
EXTENDS Streamer

(* Who is inside a critical section of in[i].db owns it.  The converse     *)
(* fails only for a file worker that was cancelled in its wait.            *)
DbHeld ==
    /\ db = Cam <=> camPc \in {"stamp", "publish"}
    /\ \A c \in Clients : db = c <=> cliPc[c] \in {"copy", "take_copy"}
    /\ filePc = "copy" => db = Worker

(* Who is inside a critical section of in[i].out owns it.  A camera thread *)
(* that is cancelled keeps it for ever.                                    *)
OutHeld ==
    /\ camPc \in {"check_outs", "park"} => out = Cam
    /\ \A c \in Clients : cliPc[c] \in {"inc", "dec"} => out = c
    /\ filePc \in {"inc", "dec"} => out = Worker

(* A picture in the buffer is whole, except that its timestamp is old      *)
(* between the two stores of cam_thread.                                   *)
BufferWhole ==
    bufSize # NoFrame =>
        /\ bufData = bufSize
        /\ IF camPc = "stamp" THEN tmp = bufSize ELSE bufTs = bufSize

(* The size a client has read is still the size in the buffer when it goes *)
(* on to copy the bytes, unless cam_cleanup came between.                  *)
CopyCurrent ==
    \A c \in Clients :
        cliPc[c] = "copy" => copy[c].size = bufSize \/ bufData = Freed

(* Only outputs that registered are taken away again.                      *)
DecMatchesInc ==
    /\ \A c \in Clients :
          /\ cliPc[c] \in {"inc_lock", "inc", "header", "loop", "dec_lock", "dec"}
             => kind[c] # "take"
          /\ cliPc[c] \in {"take_lock", "take_copy", "take_write"}
             => kind[c] = "take"
    /\ filePc \in {"dec_lock", "dec"} => LongDelay

(* No output is counted when cam_thread sleeps or is about to.             *)
AsleepUncounted == Cam \in outWait \/ camPc = "park" => num_outs = 0

(* Waiters are only released by a broadcast.                               *)
ReleasedByPublication ==
    SpuriousWakeups \/
    \A c \in Clients :
        /\ cliPc[c] = "waiting" => c \in dbWait \cup fresh
        /\ cliPc[c] \in {"copy", "send"} => c \in fresh

(* Without a signal nothing is shut down.                                  *)
NoShutdown ==
    Signals \/ (/\ ~stop /\ cancelled = {} /\ mainPc = "pause"
                /\ camPc \notin {"cleanup", "done"}
                /\ bufData # Freed)

(* What the threads of mjpg_streamer maintain together: the mutexes are    *)
(* held where the code assumes it, the buffer and the copies of it are     *)
(* whole, and the count of active outputs covers everyone being served.    *)
IInv ==
    /\ TypeOK
    /\ DbHeld /\ OutHeld
    /\ BufferWhole /\ CopyCurrent /\ NoMixedFrame
    /\ DecMatchesInc /\ AsleepUncounted /\ NoUndercount
    /\ ReleasedByPublication /\ NoShutdown
=============================================================================
