------------------------------ MODULE UvcQueue ------------------------------
(***************************************************************************)
(* The capture queue of one V4L2 camera (plugins/input_uvc/v4l2uvc.c) and  *)
(* the two threads that drive it: cam_thread, which grabs pictures and     *)
(* switches the camera off while no output is active, and an HTTP client   *)
(* whose command changes the resolution through input_cmd.  CamThread sees *)
(* uvcGrab as one step; here it is taken apart into its ioctls.            *)
(*                                                                         *)
(* The driver is external: it owns the buffers that were queued, fills     *)
(* them while it streams, and forgets all of them when streaming stops.    *)
(***************************************************************************)
EXTENDS Naturals

CONSTANTS
    Buffers,      \* 0 .. NB_BUFFER - 1
    NoBuffer,
    StopCamera,   \* option -s
    Events        \* "empty": the camera delivers empty MJPEG frames;
                  \* "resolution": a client changes the resolution;
                  \* "device": an ioctl fails

ASSUME QueueAssumption ==
    /\ Buffers # {} /\ NoBuffer \notin Buffers
    /\ StopCamera \in BOOLEAN
    /\ Events \subseteq {"empty", "resolution", "device"}

VARIABLES
    \* the driver
    open,     \* the device is open and its buffers are requested
    mapped,   \* the buffers are mapped into the process
    devOn,    \* the driver streams
    queued,   \* buffers the driver may fill
    done,     \* buffers it has filled with a picture
    empty,    \* buffers it has returned without one
    \* struct vdIn and the threads
    streamingState,
    grabPc, held,   \* cam_thread and vd->buf.index
    resPc, resResult,  \* the client in setResolution, and what it returned
    active,         \* num_outs > 0
    dead            \* exit(EXIT_FAILURE) or a signal ended the process

driverVars == <<open, mapped, devOn, queued, done, empty>>
camVars == <<grabPc, held>>
resVars == <<resPc, resResult>>
uvcVars == <<driverVars, camVars, streamingState, resVars, active, dead>>

GrabPcs == {"loop", "check", "stop", "stopped", "parked", "woken", "grab",
            "queue", "enable", "enabled", "wait", "got", "requeue", "publish"}
ResPcs == {"idle", "off", "unmap", "close", "init", "enable", "enabled"}

QueueTypeOK ==
    /\ open \in BOOLEAN /\ mapped \in BOOLEAN /\ devOn \in BOOLEAN
    /\ queued \subseteq Buffers /\ done \subseteq Buffers /\ empty \subseteq Buffers
    /\ streamingState \in {"off", "on", "paused"}
    /\ grabPc \in GrabPcs /\ held \in Buffers \cup {NoBuffer}
    /\ resPc \in ResPcs /\ resResult \in {"none", "ok", "failed"}
    /\ active \in BOOLEAN /\ dead \in BOOLEAN

(* init_videoIn has opened the device and mapped its buffers.              *)
QueueInit ==
    /\ open = TRUE /\ mapped = TRUE /\ devOn = FALSE
    /\ queued = {} /\ done = {} /\ empty = {}
    /\ streamingState = "off"
    /\ grabPc = "loop" /\ held = NoBuffer
    /\ resPc = "idle" /\ resResult = "none" /\ active = FALSE /\ dead = FALSE

Out == queued \cup done \cup empty  \* what the driver owns

-----------------------------------------------------------------------------
(* VIDIOC_STREAMOFF: the driver gives all buffers back; it is not an error *)
(* when it does not stream.                                                *)
StreamOff == devOn' = FALSE /\ queued' = {} /\ done' = {} /\ empty' = {}

DriverFills ==
    /\ devOn
    /\ \E b \in queued :
          /\ queued' = queued \ {b}
          /\ \/ done' = done \cup {b} /\ UNCHANGED empty
             \/ "empty" \in Events /\ empty' = empty \cup {b} /\ UNCHANGED done
    /\ UNCHANGED <<open, mapped, devOn, camVars, streamingState, resVars, active, dead>>

(* The first output comes and wakes cam_thread, or the last one goes.      *)
(* cam_thread holds the mutex of num_outs while it stops the camera.       *)
OutputsChange ==
    /\ grabPc \notin {"stop", "stopped"}
    /\ active' = ~active
    /\ grabPc' = IF grabPc = "parked" THEN "woken" ELSE grabPc
    /\ UNCHANGED <<driverVars, held, streamingState, resVars, dead>>

-----------------------------------------------------------------------------
(* Mutant of GrabLoop: the wait is for the wrong state.                    *)
GrabLoopWhileOn ==
    /\ grabPc = "loop"
    /\ streamingState # "on"
    /\ grabPc' = IF StopCamera THEN "check" ELSE "grab"
    /\ UNCHANGED <<held, driverVars, streamingState, resVars, active, dead>>

(* The loop head of cam_thread: it is delayed while the resolution changes.*)
GrabLoop ==
    /\ grabPc = "loop"
    /\ streamingState # "paused"
    /\ grabPc' = IF StopCamera THEN "check" ELSE "grab"
    /\ UNCHANGED <<held, driverVars, streamingState, resVars, active, dead>>

(* Under the mutex of num_outs: uvcStopGrab when no output is active.      *)
GrabCheck ==
    /\ grabPc = "check"
    /\ grabPc' = IF active THEN "grab"
                 ELSE IF streamingState = "on" THEN "stop" ELSE "parked"
    /\ UNCHANGED <<held, driverVars, streamingState, resVars, active, dead>>

(* video_disable: the ioctl, and the assignment only if it succeeded.      *)
GrabStop ==
    /\ grabPc = "stop"
    /\ \/ open /\ StreamOff /\ grabPc' = "stopped"
       \/ /\ ~open \/ "device" \in Events
          /\ grabPc' = "parked"
          /\ UNCHANGED <<devOn, queued, done, empty>>
    /\ UNCHANGED <<held, open, mapped, streamingState, resVars, active, dead>>

GrabStopped ==
    /\ grabPc = "stopped"
    /\ streamingState' = "off"
    /\ grabPc' = "parked"
    /\ UNCHANGED <<held, driverVars, resVars, active, dead>>

(* pthread_cond_wait on out_update returns; the thread goes on to uvcGrab  *)
(* without looking at num_outs or at the loop head again.                  *)
GrabUnpark ==
    /\ grabPc = "woken"
    /\ grabPc' = "grab"
    /\ UNCHANGED <<held, driverVars, streamingState, resVars, active, dead>>

GrabStart ==
    /\ grabPc = "grab"
    /\ grabPc' = IF streamingState = "off" THEN "queue" ELSE "wait"
    /\ UNCHANGED <<held, driverVars, streamingState, resVars, active, dead>>

(* VIDIOC_QBUF for every buffer: an error for one the driver owns already. *)
GrabQueue ==
    /\ grabPc = "queue"
    /\ \/ /\ open /\ Out = {}
          /\ queued' = Buffers /\ grabPc' = "enable" /\ UNCHANGED dead
       \/ /\ ~open \/ Out # {} \/ "device" \in Events
          /\ dead' = TRUE /\ UNCHANGED <<queued, grabPc>>
    /\ UNCHANGED <<held, open, mapped, devOn, done, empty, streamingState, resVars,
                   active>>

(* video_enable: the ioctl, then the assignment.                           *)
GrabEnable ==
    /\ grabPc = "enable"
    /\ \/ open /\ devOn' = TRUE /\ grabPc' = "enabled" /\ UNCHANGED dead
       \/ /\ ~open \/ "device" \in Events
          /\ dead' = TRUE /\ UNCHANGED <<devOn, grabPc>>
    /\ UNCHANGED <<held, open, mapped, queued, done, empty, streamingState, resVars,
                   active>>

GrabEnabled ==
    /\ grabPc = "enabled"
    /\ streamingState' = "on"
    /\ grabPc' = "wait"
    /\ UNCHANGED <<held, driverVars, resVars, active, dead>>

(* VIDIOC_DQBUF waits for a buffer.  An empty one is not given back:       *)
(* uvcGrab returns 0 and cam_thread publishes the previous picture again.  *)
(* The call fails when the driver does not stream or stops to.             *)
GrabDequeue ==
    /\ grabPc = "wait"
    /\ \/ \E b \in done :
             /\ open /\ done' = done \ {b} /\ held' = b
             /\ grabPc' = "got" /\ UNCHANGED <<empty, dead>>
       \/ \E b \in empty :
             /\ open /\ empty' = empty \ {b} /\ held' = b
             /\ grabPc' = "publish" /\ UNCHANGED <<done, dead>>
       \/ /\ ~open \/ ~devOn \/ "device" \in Events
          /\ dead' = TRUE /\ UNCHANGED <<done, empty, held, grabPc>>
    /\ UNCHANGED <<open, mapped, devOn, queued, streamingState, resVars, active>>

(* memcpy from the mapped buffer.                                          *)
GrabCopy ==
    /\ grabPc = "got"
    /\ \/ mapped /\ grabPc' = "requeue" /\ UNCHANGED dead
       \/ ~mapped /\ dead' = TRUE /\ UNCHANGED grabPc
    /\ UNCHANGED <<held, driverVars, streamingState, resVars, active>>

(* Mutant of GrabRequeue: the buffer stays with the process.               *)
GrabRequeueForgotten ==
    /\ grabPc = "requeue"
    /\ grabPc' = "publish"
    /\ UNCHANGED <<queued, dead>>
    /\ UNCHANGED <<held, open, mapped, devOn, done, empty, streamingState, resVars,
                   active>>

GrabRequeue ==
    /\ grabPc = "requeue"
    /\ \/ /\ open /\ held \notin Out
          /\ queued' = queued \cup {held} /\ grabPc' = "publish" /\ UNCHANGED dead
       \/ /\ ~open \/ held \in Out \/ "device" \in Events
          /\ dead' = TRUE /\ UNCHANGED <<queued, grabPc>>
    /\ UNCHANGED <<held, open, mapped, devOn, done, empty, streamingState, resVars,
                   active>>

(* The picture goes to the global buffer (see CamThread).                  *)
GrabPublish ==
    /\ grabPc = "publish"
    /\ grabPc' = "loop"
    /\ UNCHANGED <<held, driverVars, streamingState, resVars, active, dead>>

GrabStep ==
    \/ GrabLoop \/ GrabCheck \/ GrabStop \/ GrabStopped \/ GrabUnpark
    \/ GrabStart \/ GrabQueue \/ GrabEnable \/ GrabEnabled \/ GrabDequeue
    \/ GrabCopy \/ GrabRequeue \/ GrabPublish

-----------------------------------------------------------------------------
(* setResolution, called by a client thread with no mutex held.            *)
ResolutionPause ==
    /\ "resolution" \in Events
    /\ resPc = "idle"
    /\ streamingState' = "paused"
    /\ resPc' = "off" /\ resResult' = "none"
    /\ UNCHANGED <<driverVars, camVars, active, dead>>

ResolutionOff ==
    /\ resPc = "off"
    /\ \/ /\ open /\ StreamOff
          /\ streamingState' = "paused"
          /\ resPc' = "unmap" /\ UNCHANGED resResult
       \/ /\ ~open \/ "device" \in Events
          /\ resPc' = "idle" /\ resResult' = "failed"
          /\ UNCHANGED <<devOn, queued, done, empty, streamingState>>
    /\ UNCHANGED <<open, mapped, camVars, active, dead>>

ResolutionUnmap ==
    /\ resPc = "unmap"
    /\ mapped' = FALSE
    /\ resPc' = "close"
    /\ UNCHANGED <<open, devOn, queued, done, empty, camVars, streamingState,
                   resResult, active, dead>>

(* The driver of a closed device owns nothing.                             *)
ResolutionClose ==
    /\ resPc = "close"
    /\ open' = FALSE
    /\ StreamOff
    /\ resPc' = "init"
    /\ UNCHANGED <<mapped, camVars, streamingState, resResult, active, dead>>

(* init_v4l2 opens the device, requests the buffers and maps them; the     *)
(* code that queues them is compiled out.                                  *)
init_v4l2 ==
    /\ resPc = "init"
    /\ \/ /\ open' = TRUE /\ mapped' = TRUE
          /\ resPc' = "enable" /\ UNCHANGED resResult
       \/ /\ "device" \in Events
          /\ open' \in BOOLEAN
          /\ resPc' = "idle" /\ resResult' = "failed"
          /\ UNCHANGED mapped
    /\ UNCHANGED <<devOn, queued, done, empty, camVars, streamingState, active, dead>>

(* video_enable; setResolution does not look at what it returns.           *)
ResolutionEnable ==
    /\ resPc = "enable"
    /\ \/ devOn' = TRUE /\ resPc' = "enabled" /\ UNCHANGED resResult
       \/ /\ "device" \in Events
          /\ resPc' = "idle" /\ resResult' = "ok"
          /\ UNCHANGED devOn
    /\ UNCHANGED <<open, mapped, queued, done, empty, camVars, streamingState,
                   active, dead>>

(* Mutant of ResolutionEnabled: the state is not set again.                *)
ResolutionStaysPaused ==
    /\ resPc = "enabled"
    /\ resPc' = "idle" /\ resResult' = "ok"
    /\ UNCHANGED <<driverVars, camVars, streamingState, active, dead>>

ResolutionEnabled ==
    /\ resPc = "enabled"
    /\ streamingState' = "on"
    /\ resPc' = "idle" /\ resResult' = "ok"
    /\ UNCHANGED <<driverVars, camVars, active, dead>>

setResolution ==
    \/ ResolutionPause \/ ResolutionOff \/ ResolutionUnmap \/ ResolutionClose
    \/ init_v4l2 \/ ResolutionEnable \/ ResolutionEnabled

-----------------------------------------------------------------------------
QueueNext == ~dead /\ (DriverFills \/ OutputsChange \/ GrabStep \/ setResolution)

QueueSpec == QueueInit /\ [][QueueNext]_uvcVars

(* A camera that streams fills the buffers it was given, and the camera    *)
(* thread is scheduled.  Outputs come and go as they like.                 *)
FairQueueSpec ==
    QueueSpec /\ WF_uvcVars(~dead /\ DriverFills) /\ WF_uvcVars(~dead /\ GrabStep)

-----------------------------------------------------------------------------
(* Outside a change of the resolution cam_thread never waits in            *)
(* VIDIOC_DQBUF for a driver that has no buffer to fill or to hand out.    *)
NeverStarved == ~dead /\ resPc = "idle" /\ grabPc = "wait" => Out # {}

(* Between grabs streamingState tells what the driver does, so that        *)
(* uvcStopGrab stops a camera that streams and uvcGrab starts one that     *)
(* does not.                                                               *)
StateMatchesDriver ==
    grabPc \in {"loop", "check", "parked", "woken", "grab", "wait", "publish"}
    => (streamingState = "on" <=> devOn)

(* As long as nobody has changed the resolution, starting the camera hands *)
(* every buffer to the driver, whatever happened to them before the camera *)
(* was switched off.                                                       *)
RestartQueuesAll ==
    grabPc = "enable" /\ resPc = "idle" /\ resResult = "none" => queued = Buffers

(* STREAMING_PAUSED, which holds cam_thread in a loop of usleep, outlives  *)
(* a change of the resolution only when the change failed or the camera    *)
(* could not be started again (or cam_thread is just starting it).         *)
PauseExplained ==
    ~dead /\ resPc = "idle" /\ streamingState = "paused"
    => resResult = "failed" \/ ~devOn \/ grabPc = "enabled"

(* input_cmd: "0 means no errors and -1 signals an error".  A client whose *)
(* change of the resolution went wrong is told so.                         *)
FailureReported ==
    ~dead /\ resPc = "idle" /\ streamingState = "paused" => resResult = "failed"

(* With an output active for long enough a picture is published again and  *)
(* again.                                                                  *)
PicturesFlow == <>[]active => []<>(grabPc = "publish")

(* A change of the resolution does not end the process.                    *)
SurvivesResolution == ~dead

-----------------------------------------------------------------------------
(* What cam_thread maintains when nobody changes the resolution: which     *)
(* buffers the driver owns follows from where the thread is.  Without      *)
(* empty frames no buffer gets lost.                                       *)
QInv ==
    /\ QueueTypeOK
    /\ open /\ mapped /\ resPc = "idle"
    /\ streamingState = "on" <=>
          grabPc \in {"stop", "stopped", "wait", "got", "requeue", "publish"}
          \/ (grabPc \in {"loop", "check", "parked", "woken", "grab"} /\ devOn)
    /\ grabPc \in {"stop", "enabled", "wait", "got", "requeue", "publish"} => devOn
    /\ grabPc \in {"stopped", "queue", "enable"} => ~devOn
    /\ streamingState # "paused"
    /\ ~devOn => Out = IF grabPc = "enable" THEN queued ELSE {}
    /\ grabPc = "enable" => queued = Buffers
    /\ grabPc \in {"got", "requeue"} => held \in Buffers \ Out
    /\ "empty" \notin Events /\ devOn =>
          Out = Buffers \ (IF grabPc \in {"got", "requeue"} THEN {held} ELSE {})
    /\ "empty" \notin Events => empty = {}
    /\ queued \cap done = {} /\ queued \cap empty = {} /\ done \cap empty = {}

(* After any failure or change of the resolution, a restart of the camera  *)
(* is complete, and cam_thread is paused for a reason.                     *)
RestartSound == RestartQueuesAll /\ PauseExplained
=============================================================================
