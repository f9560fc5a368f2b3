------------------------------ MODULE CamThread ------------------------------
(***************************************************************************)
(* cam_thread of the input_uvc plugin: it grabs pictures from the camera,  *)
(* drops the ones it is told to drop, and publishes the others in the      *)
(* global buffer.  With -s it switches the camera off and sleeps while no  *)
(* output is active.                                                       *)
(*                                                                         *)
(* camPc names the next step of the loop.  The driver's buffer queue and   *)
(* the resolution command, which pauses the loop, are not part of this     *)
(* module.                                                                 *)
(***************************************************************************)
EXTENDS Exchange

CONSTANTS
    StopCamera,  \* option -s: stop_camera == 1
    Every        \* option -e: keep one picture out of Every

ASSUME CameraOptions == StopCamera \in BOOLEAN /\ Every \in Nat \ {0}

VARIABLES
    camPc,
    streaming,    \* videoIn->streamingState
    tmp,          \* the picture in videoIn->tmpbuffer
    every_count

camVars == <<camPc, streaming, tmp, every_count>>

CamPcs == {"loop", "lock_out", "check_outs", "park", "parked", "grab",
           "filter", "lock_db", "stamp", "publish", "cleanup", "done"}

CamTypeOK ==
    /\ camPc \in CamPcs
    /\ streaming \in {"ON", "OFF"}
    /\ tmp \in Frames \cup {NoFrame}
    /\ every_count \in Nat /\ every_count < Every

CamInit ==
    /\ camPc = "loop" /\ streaming = "OFF" /\ tmp = NoFrame
    /\ every_count = 0

-----------------------------------------------------------------------------
CamLoop ==
    /\ camPc = "loop"
    /\ camPc' = IF stop THEN "cleanup"
                ELSE IF StopCamera THEN "lock_out" ELSE "grab"
    /\ UNCHANGED <<streaming, tmp, every_count, exchangeVars>>

CamLockOut ==
    /\ camPc = "lock_out"
    /\ LockOut(Cam)
    /\ camPc' = "check_outs"
    /\ UNCHANGED <<streaming, tmp, every_count, picture, outWait, num_outs,
                   dbVars, runVars>>

(* Mutant of uvcStopGrab: the camera is left on.                           *)
uvcStopGrabForgotten == UNCHANGED streaming

(* uvcStopGrab: STREAMOFF, and streamingState changes only if it worked.   *)
uvcStopGrab ==
    \/ streaming' = "OFF"
    \/ "device" \in Faults /\ UNCHANGED streaming

(* Mutant of CamCheckOuts: the camera is stopped before the test.          *)
CamCheckOutsStopsFirst ==
    /\ camPc = "check_outs"
    /\ uvcStopGrab
    /\ \/ num_outs = 0 /\ camPc' = "park" /\ UNCHANGED out
       \/ num_outs # 0 /\ UnlockOut /\ camPc' = "grab"
    /\ UNCHANGED <<tmp, every_count, picture, outWait, num_outs, dbVars, runVars>>

CamCheckOuts ==
    /\ camPc = "check_outs"
    /\ \/ /\ num_outs = 0
          /\ uvcStopGrab
          /\ camPc' = "park"
          /\ UNCHANGED out
       \/ /\ num_outs # 0
          /\ UnlockOut
          /\ camPc' = "grab"
          /\ UNCHANGED streaming
    /\ UNCHANGED <<tmp, every_count, picture, outWait, num_outs, dbVars, runVars>>

(* Mutant of CamPark: the mutex is released before the wait is entered.    *)
CamParkUnlocked ==
    /\ camPc = "park"
    /\ \/ out = Cam /\ UnlockOut /\ UNCHANGED <<outWait, camPc>>
       \/ out # Cam /\ outWait' = outWait \cup {Cam} /\ camPc' = "parked"
          /\ UNCHANGED out
    /\ UNCHANGED <<streaming, tmp, every_count, picture, num_outs, dbVars, runVars>>

(* pthread_cond_wait(&out_update, &out): called with the mutex held.       *)
CamPark ==
    /\ camPc = "park"
    /\ outWait' = outWait \cup {Cam}
    /\ UnlockOut
    /\ camPc' = "parked"
    /\ UNCHANGED <<streaming, tmp, every_count, picture, num_outs, dbVars, runVars>>

(* The wait returns with the mutex, which is released at once.  The        *)
(* condition is not tested again.                                          *)
CamUnpark ==
    /\ camPc = "parked"
    /\ Cam \notin outWait
    /\ out = NoThread
    /\ camPc' = "grab"
    /\ UNCHANGED <<streaming, tmp, every_count, exchangeVars>>

(* pthread_cancel from input_stop takes effect where the thread may block: *)
(* in the wait, which is left with the mutex locked, and in the ioctls of  *)
(* uvcStopGrab (with the mutex locked) and of uvcGrab.  cam_cleanup runs,  *)
(* and nobody unlocks the mutex.                                           *)
CamCancelled ==
    /\ Cam \in cancelled
    /\ \/ /\ camPc = "parked" /\ Cam \in outWait
          /\ LockOut(Cam)
          /\ outWait' = outWait \ {Cam}
       \/ /\ camPc = "check_outs" /\ num_outs = 0 /\ streaming = "ON"
          /\ UNCHANGED <<out, outWait>>
       \/ /\ camPc = "grab"
          /\ UNCHANGED <<out, outWait>>
    /\ camPc' = "cleanup"
    /\ UNCHANGED <<streaming, tmp, every_count, picture, num_outs, dbVars, runVars>>

(* uvcGrab: start the stream if it is off and dequeue a picture.  An empty *)
(* image leaves the previous picture in tmpbuffer and still counts as      *)
(* success.  Then one picture out of Every is kept.                        *)
CamGrab ==
    /\ camPc = "grab"
    /\ streaming' = "ON"
    /\ tmp' \in Frames \cup {tmp}
    /\ IF every_count < Every - 1
       THEN every_count' = every_count + 1 /\ camPc' = "loop"
       ELSE every_count' = 0 /\ camPc' = "filter"
    /\ UNCHANGED exchangeVars

(* uvcGrab failed: exit(EXIT_FAILURE).                                     *)
CamGrabFails ==
    /\ camPc = "grab"
    /\ "device" \in Faults
    /\ exited' = TRUE
    /\ UNCHANGED <<camVars, picture, outVars, dbVars, stop, cancelled>>

(* A picture smaller than minimum_size, or (with soft_framedrop) sooner    *)
(* after the last one than the frame period, is dropped.                   *)
CamDrop ==
    /\ camPc = "filter"
    /\ camPc' = "loop"
    /\ UNCHANGED <<streaming, tmp, every_count, exchangeVars>>

CamKeep ==
    /\ camPc = "filter"
    /\ camPc' = "lock_db"
    /\ UNCHANGED <<streaming, tmp, every_count, exchangeVars>>

(* memcpy_picture: it copies the picture and returns its size, or copies   *)
(* nothing and returns 0 (nothing grabbed yet, or no place found for the   *)
(* Huffman table).                                                         *)
memcpy_picture ==
    \/ tmp # NoFrame /\ bufData' = tmp /\ bufSize' = tmp
    \/ bufSize' = NoFrame /\ UNCHANGED bufData

(* Mutant of CamCopy: the picture is written before the mutex is taken.    *)
CamCopyUnlocked ==
    /\ camPc = "lock_db"
    /\ memcpy_picture
    /\ camPc' = "stamp"
    /\ UNCHANGED <<streaming, tmp, every_count, bufTs, dbVars, outVars, runVars>>

CamCopy ==
    /\ camPc = "lock_db"
    /\ LockDb(Cam)
    /\ memcpy_picture
    /\ camPc' = "stamp"
    /\ UNCHANGED <<streaming, tmp, every_count, bufTs, dbWait, fresh, outVars, runVars>>

CamStamp ==
    /\ camPc = "stamp"
    /\ bufTs' = tmp
    /\ camPc' = "publish"
    /\ UNCHANGED <<streaming, tmp, every_count, bufData, bufSize, dbVars, outVars, runVars>>

CamPublish ==
    /\ camPc = "publish"
    /\ BroadcastFrame
    /\ UnlockDb
    /\ camPc' = "loop"
    /\ UNCHANGED <<streaming, tmp, every_count, picture, outVars, runVars>>

(* cam_cleanup: switch the camera off and free the picture buffer.  The    *)
(* mutex of the buffer is not taken.                                       *)
CamCleanup ==
    /\ camPc = "cleanup"
    /\ uvcStopGrab
    /\ tmp' = NoFrame
    /\ bufData' = Freed /\ bufSize' = NoFrame
    /\ camPc' = "done"
    /\ UNCHANGED <<every_count, bufTs, dbVars, outVars, runVars>>

CamNext ==
    \/ CamLoop \/ CamLockOut \/ CamCheckOuts \/ CamPark \/ CamUnpark
    \/ CamCancelled \/ CamGrab \/ CamGrabFails \/ CamDrop \/ CamKeep
    \/ CamCopy \/ CamStamp \/ CamPublish \/ CamCleanup
=============================================================================
