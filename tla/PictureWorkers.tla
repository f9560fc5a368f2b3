--------------------------- MODULE PictureWorkers ----------------------------
(***************************************************************************)
(* The small plugins of mjpg_streamer: the thread of an input plugin that  *)
(* puts pictures into the global buffer (input_file, input_testpicture,    *)
(* input_http, input_ptp2, input_opencv) and the threads of output plugins *)
(* that copy them from there (output_udp and output_rtsp, which share      *)
(* their code, output_viewer, output_autofocus), from main's input_run and *)
(* output_run to its signal handler.                                       *)
(*                                                                         *)
(* A picture is an element of Pictures.  inBuf is the memory behind        *)
(* in[i].buf and inSize is in[i].size, both tagged with the picture they   *)
(* belong to.                                                              *)
(***************************************************************************)
EXTENDS Naturals, Sequences

CONSTANTS Pictures,
          Readers,     \* the output plugins that are loaded
          InKinds,     \* the input plugins to consider
          NoPicture,   \* in[i].buf is NULL, or in[i].size is 0
          Garbage,     \* in[i].buf was freed, or was allocated and not filled
          Source,      \* the thread of the input plugin
          Nobody,
          Wanted,      \* input_file: the files that -n lets through
          Folder,      \* input_file -e: is the i-th directory entry a .jpg?
          MaxEvents,   \* bound of the inotify queue
          RestartLimit, \* input_ptp2's limit of restarts in a row, 3
          WFaults      \* "file": open, fstat or read of a picture fails;
                       \* "memory": malloc fails; "camera": the camera
                       \* library reports an error; "empty": a preview of
                       \* 0 bytes; "overflow": the inotify queue overflows;
                       \* "disk": the file to save cannot be written

ASSUME WorkersAssumption ==
    /\ InKinds \subseteq {"file", "existing", "test", "http", "ptp2", "opencv"}
    /\ Readers \subseteq {"udp", "rtsp", "viewer", "autofocus"}
    /\ Folder \in Seq(BOOLEAN) /\ Folder # <<>> /\ MaxEvents \in Nat /\ RestartLimit \in Nat
    /\ Wanted \subseteq Pictures
    /\ NoPicture \notin Pictures /\ Garbage \notin Pictures
    /\ Source \notin Readers /\ Nobody \notin Readers /\ Source # Nobody

VARIABLES inKind,            \* the input plugin of this process
          inBuf, inSize,
          dbOwner, dbWaiting, \* mutex db and condition variable db_update
          ctlOwner,          \* input_ptp2's control_mutex
          halt,              \* global.stop
          killed,            \* pthread_cancel was called for every thread
          mainPc,
          srcPc, srcPic, srcFile, restarts,
          events,            \* inotify: new files, not read yet
          rdPc, rdCopy

srcVars == <<srcPc, srcPic, srcFile, restarts, events>>
bufVars == <<inBuf, inSize, dbOwner, dbWaiting, ctlOwner>>
mainVars == <<inKind, halt, killed, mainPc>>
rdVars == <<rdPc, rdCopy>>
workVars == <<srcVars, bufVars, mainVars, rdVars>>

(* Types, as the C declarations and the states of the threads give them. *)
WorkTypeOK ==
    /\ inBuf \in Pictures \cup {NoPicture, Garbage} /\ inSize \in Pictures \cup {NoPicture}
    /\ dbOwner \in Readers \cup {Source, Nobody} /\ ctlOwner \in {Source, Nobody}
    /\ dbWaiting \subseteq Readers /\ killed \in BOOLEAN
    /\ halt \in BOOLEAN /\ mainPc \in {"run", "stop", "cancel", "exit"}
    /\ srcPc \in {"loop", "fetch", "lock", "copy", "publish", "remove", "cleanup", "ended"}
    /\ rdPc \in [Readers -> {"loop", "recv", "enter", "wait", "save", "cleanup", "ended"}]
    /\ Len(events) <= MaxEvents /\ restarts \in 0 .. RestartLimit + 2

(* input_run: the buffer is allocated here, or with every picture. *)
Allocated(kind) == kind \in {"test", "http", "ptp2"}

WorkInit ==
    /\ inKind \in InKinds
    /\ inBuf = IF Allocated(inKind) THEN Garbage ELSE NoPicture
    /\ inSize = NoPicture
    /\ dbOwner = Nobody /\ dbWaiting = {} /\ ctlOwner = Nobody
    /\ halt = FALSE /\ killed = FALSE /\ mainPc = "run"
    /\ srcPc = "loop" /\ srcPic = NoPicture /\ srcFile = 1 /\ restarts = 0
    /\ events = <<>>
    /\ rdPc = [r \in Readers |-> "loop"] /\ rdCopy = [r \in Readers |-> NoPicture]

-----------------------------------------------------------------------------
(* The input thread *)

SrcTo(from, to) == srcPc = from /\ srcPc' = to

SrcLoop ==
    /\ srcPc = "loop" /\ srcPc' = IF halt THEN "cleanup" ELSE "fetch"
    /\ UNCHANGED <<srcPic, srcFile, restarts, events, bufVars, mainVars, rdVars>>

(* A file is closed or moved into the folder. *)
NewFile ==
    /\ inKind = "file" /\ Len(events) < MaxEvents
    /\ \E p \in Pictures : events' = Append(events, p)
    /\ UNCHANGED <<srcPc, srcPic, srcFile, restarts, bufVars, mainVars, rdVars>>

(* input_file: read() returns every queued event and the thread looks at   *)
(* the first.  A name that is not asked for (-n) is passed over; a mask    *)
(* that suggests to stop ends the thread, as does open() or fstat().       *)
FetchEvent ==
    /\ inKind = "file" /\ srcPc = "fetch" /\ events # <<>>
    /\ events' = <<>>
    /\ \/ Head(events) \in Wanted /\ srcPc' = "lock" /\ srcPic' = Head(events)
       \/ Head(events) \notin Wanted /\ srcPc' = "loop" /\ UNCHANGED srcPic
       \/ WFaults \cap {"overflow", "file"} # {} /\ srcPc' = "cleanup" /\ UNCHANGED srcPic
    /\ UNCHANGED <<srcFile, restarts, bufVars, mainVars, rdVars>>

(* input_file -e: past a picture the index starts again at the end of the  *)
(* list; past another entry it does not.                                   *)
NextEntry(i) == IF Folder[i] /\ i = Len(Folder) THEN 1 ELSE i + 1

FetchEntry ==
    /\ inKind = "existing" /\ srcPc = "fetch" /\ srcFile <= Len(Folder)
    /\ srcFile' = NextEntry(srcFile)
    /\ IF Folder[srcFile]
       THEN /\ srcPic' \in Pictures
            /\ \/ srcPc' = "lock"
               \/ "file" \in WFaults /\ srcPc' = "cleanup"
       ELSE /\ UNCHANGED srcPic
            /\ srcPc' = IF srcFile = Len(Folder) /\ \A i \in DOMAIN Folder : ~Folder[i]
                        THEN "cleanup" ELSE "loop"
    /\ UNCHANGED <<restarts, events, bufVars, mainVars, rdVars>>

(* input_testpicture, input_http (the proxy delivers a picture) and        *)
(* input_opencv (capture.read, the filter).                                *)
FetchFrame ==
    /\ inKind \in {"test", "http", "opencv"} /\ srcPc = "fetch"
    /\ srcPic' \in Pictures
    /\ \/ srcPc' = "lock"
       \/ inKind = "opencv" /\ "camera" \in WFaults /\ srcPc' = "cleanup"
    /\ UNCHANGED <<srcFile, restarts, events, bufVars, mainVars, rdVars>>

(* input_ptp2: the preview is taken with control_mutex held; an error      *)
(* returns from the thread there and then (CAMERA_CHECK_GP).               *)
FetchPreview ==
    /\ inKind = "ptp2" /\ srcPc = "fetch" /\ ctlOwner = Nobody
    /\ ctlOwner' = Source
    /\ srcPic' \in Pictures \cup {p \in {NoPicture} : "empty" \in WFaults}
    /\ \/ srcPc' = "lock"
       \/ "camera" \in WFaults /\ srcPc' = "ended"
    /\ UNCHANGED <<srcFile, restarts, events, inBuf, inSize, dbOwner, dbWaiting,
                   mainVars, rdVars>>

MutSrcLock ==
    /\ SrcTo("lock", "copy") /\ dbOwner = Nobody
    /\ UNCHANGED <<srcPic, srcFile, restarts, events, bufVars, mainVars, rdVars>>

SrcLock ==
    /\ SrcTo("lock", "copy") /\ dbOwner = Nobody
    /\ dbOwner' = Source
    /\ UNCHANGED <<srcPic, srcFile, restarts, events, inBuf, inSize, dbWaiting,
                   ctlOwner, mainVars, rdVars>>

MutCopyFile ==
    /\ inKind \in {"file", "existing"} /\ srcPc = "copy"
    /\ \/ inBuf' = Garbage /\ srcPc' = "publish" /\ UNCHANGED <<inSize, dbOwner>>
       \/ inBuf' = NoPicture /\ inSize' = NoPicture /\ dbOwner' = Nobody /\ srcPc' = "remove"
    /\ UNCHANGED restarts

(* free and malloc, then read: the read may fail, and unlocks then. *)
CopyFile ==
    /\ inKind \in {"file", "existing"} /\ srcPc = "copy"
    /\ \/ inBuf' = Garbage /\ srcPc' = "publish" /\ UNCHANGED <<inSize, dbOwner>>
       \/ /\ "memory" \in WFaults /\ inBuf' = NoPicture /\ srcPc' = "cleanup"
          /\ UNCHANGED <<inSize, dbOwner>>
       \/ /\ "file" \in WFaults /\ inBuf' = NoPicture /\ inSize' = NoPicture
          /\ dbOwner' = Nobody /\ srcPc' = "cleanup"
    /\ UNCHANGED restarts

(* The size is set before the picture is copied, or the vector behind the  *)
(* buffer is written anew.                                                 *)
CopyFrame ==
    /\ inKind \in {"test", "http", "opencv"} /\ SrcTo("copy", "publish")
    /\ IF inKind = "opencv" THEN inBuf' = Garbage /\ UNCHANGED inSize
                            ELSE inSize' = srcPic /\ UNCHANGED inBuf
    /\ UNCHANGED <<restarts, dbOwner>>

(* An empty preview restarts the camera and is published nevertheless;     *)
(* when restarts reaches its limit the thread returns.                     *)
CopyPreview ==
    /\ inKind = "ptp2" /\ srcPc = "copy"
    /\ restarts' = IF srcPic = NoPicture THEN restarts + 1 ELSE 0
    /\ \/ srcPic = NoPicture /\ restarts > RestartLimit /\ srcPc' = "ended" /\ UNCHANGED inBuf
       \/ /\ ~(srcPic = NoPicture /\ restarts > RestartLimit)
          /\ srcPc' = "publish" /\ inBuf' = IF srcPic = NoPicture THEN inBuf ELSE srcPic
       \/ "camera" \in WFaults /\ srcPc' = "ended" /\ UNCHANGED inBuf
    /\ UNCHANGED <<inSize, dbOwner>>

Copy ==
    /\ CopyFile \/ CopyFrame \/ CopyPreview
    /\ UNCHANGED <<srcPic, srcFile, events, dbWaiting, ctlOwner, mainVars, rdVars>>

MutWake(waiting) == {r \in waiting : waiting # {r}}

(* pthread_cond_broadcast *)
Wake(waiting) == {}

(* The picture is in the buffer: broadcast, unlock.  input_ptp2 unlocks    *)
(* control_mutex first and may find an error after that.                   *)
Publish ==
    /\ srcPc = "publish"
    /\ ctlOwner' = Nobody
    /\ \/ /\ inBuf' = (IF srcPic = NoPicture THEN inBuf ELSE srcPic) /\ inSize' = srcPic
          /\ dbWaiting' = Wake(dbWaiting) /\ dbOwner' = Nobody
          /\ IF inKind \in {"file", "existing"}
             THEN srcPc' = "remove" /\ UNCHANGED srcPic
             ELSE srcPc' = "loop" /\ srcPic' = NoPicture
       \/ /\ inKind = "ptp2" /\ "camera" \in WFaults /\ srcPc' = "ended"
          /\ UNCHANGED <<inBuf, inSize, dbWaiting, dbOwner, srcPic>>
    /\ UNCHANGED <<srcFile, restarts, events, mainVars, rdVars>>

(* unlink (-r) *)
RemoveFile ==
    /\ SrcTo("remove", "loop")
    /\ srcPic' = NoPicture
    /\ UNCHANGED <<srcFile, restarts, events, bufVars, mainVars, rdVars>>

(* worker_cleanup, cleanup; input_opencv's buffer goes with the thread. *)
SrcCleanup ==
    /\ SrcTo("cleanup", "ended")
    /\ inBuf' = IF inBuf = NoPicture THEN NoPicture ELSE Garbage
    /\ srcPic' = NoPicture
    /\ UNCHANGED <<srcFile, restarts, events, inSize, dbOwner, dbWaiting,
                   ctlOwner, mainVars, rdVars>>

(* pthread_cancel acts in read(), recv(), usleep(), open(): before the     *)
(* picture is there, while a file or a preview is copied, or between two   *)
(* pictures.                                                               *)
SrcCancelled ==
    /\ killed /\ srcPc' = "cleanup"
    /\ \/ srcPc \in {"loop", "fetch", "remove"}
       \/ srcPc \in {"copy", "publish"} /\ inKind \in {"file", "existing", "ptp2"}
    /\ UNCHANGED <<srcPic, srcFile, restarts, events, bufVars, mainVars, rdVars>>

SrcStep ==
    \/ SrcLoop \/ FetchEvent \/ FetchEntry \/ FetchFrame \/ FetchPreview \/ SrcLock
    \/ Copy \/ Publish \/ RemoveFile \/ SrcCleanup \/ SrcCancelled

-----------------------------------------------------------------------------
(* The output threads *)

RdTo(r, from, to) == rdPc[r] = from /\ rdPc' = [rdPc EXCEPT ![r] = to]

RdLoop(r) ==
    /\ RdTo(r, "loop", IF halt THEN "cleanup" ELSE IF r \in {"udp", "rtsp"} THEN "recv" ELSE "enter")
    /\ UNCHANGED <<rdCopy, dbOwner, dbWaiting>>

(* output_udp, output_rtsp: recvfrom, which names the file to save. *)
RdReceive(r) ==
    /\ RdTo(r, "recv", "enter")
    /\ UNCHANGED <<rdCopy, dbOwner, dbWaiting>>

(* Lock db and wait for db_update. *)
RdWait(r) ==
    /\ RdTo(r, "enter", "wait") /\ dbOwner = Nobody
    /\ dbWaiting' = dbWaiting \cup {r}
    /\ UNCHANGED <<rdCopy, dbOwner>>

(* Wakes up with db locked, copies size bytes of the buffer and unlocks.   *)
(* output_udp and output_rtsp return when they cannot enlarge their frame. *)
RdTake(r) ==
    /\ rdPc[r] = "wait" /\ r \notin dbWaiting /\ dbOwner = Nobody
    /\ \/ /\ rdCopy' = [rdCopy EXCEPT ![r] =
                 IF inSize = NoPicture THEN NoPicture ELSE [data |-> inBuf, size |-> inSize]]
          /\ RdTo(r, "wait", "save")
       \/ /\ r \in {"udp", "rtsp"} /\ "memory" \in WFaults
          /\ RdTo(r, "wait", "ended") /\ UNCHANGED rdCopy
    /\ UNCHANGED <<dbOwner, dbWaiting>>

(* The file and the answer, the window, the sharpness. *)
RdUse(r) ==
    /\ \/ RdTo(r, "save", "loop")
       \/ r \in {"udp", "rtsp"} /\ "disk" \in WFaults /\ RdTo(r, "save", "ended")
    /\ rdCopy' = [rdCopy EXCEPT ![r] = NoPicture]
    /\ UNCHANGED <<dbOwner, dbWaiting>>

RdCleanup(r) ==
    /\ RdTo(r, "cleanup", "ended")
    /\ UNCHANGED <<rdCopy, dbOwner, dbWaiting>>

(* pthread_cancel acts in recvfrom(), write(), usleep() and, with db       *)
(* locked again, in pthread_cond_wait().                                   *)
RdCancelled(r) ==
    /\ killed /\ rdPc' = [rdPc EXCEPT ![r] = "cleanup"]
    /\ \/ rdPc[r] \in {"recv", "save"} /\ UNCHANGED <<dbOwner, dbWaiting>>
       \/ /\ rdPc[r] = "wait" /\ dbOwner = Nobody
          /\ dbOwner' = r /\ dbWaiting' = dbWaiting \ {r}
    /\ rdCopy' = [rdCopy EXCEPT ![r] = NoPicture]

RdStep(r) ==
    /\ RdLoop(r) \/ RdReceive(r) \/ RdWait(r) \/ RdTake(r) \/ RdUse(r) \/ RdCleanup(r)
       \/ RdCancelled(r)
    /\ UNCHANGED <<inBuf, inSize, ctlOwner, mainVars, srcVars>>

(* POSIX lets pthread_cond_wait return without a broadcast. *)
RdSpurious ==
    /\ \E r \in dbWaiting : dbWaiting' = dbWaiting \ {r}
    /\ UNCHANGED <<inBuf, inSize, dbOwner, ctlOwner, mainVars, srcVars, rdVars>>

-----------------------------------------------------------------------------
(* signal_handler: global.stop, a second later input_stop and output_stop, *)
(* a second later exit.                                                    *)

Signal ==
    /\ mainPc = "run" /\ mainPc' = "stop" /\ halt' = TRUE
    /\ UNCHANGED <<inKind, killed, srcVars, bufVars, rdVars>>

CancelAll ==
    /\ mainPc = "stop" /\ mainPc' = "cancel" /\ killed' = TRUE
    /\ UNCHANGED <<inKind, halt, srcVars, bufVars, rdVars>>

Exit ==
    /\ mainPc = "cancel" /\ mainPc' = "exit"
    /\ UNCHANGED <<inKind, halt, killed, srcVars, bufVars, rdVars>>

WorkNext ==
    \/ mainPc # "exit" /\ (SrcStep \/ NewFile \/ RdSpurious \/ \E r \in Readers : RdStep(r))
    \/ Signal \/ CancelAll \/ Exit
    \/ mainPc = "exit" /\ UNCHANGED workVars

(* The kernel schedules every thread; the source's folder, camera or       *)
(* server goes on delivering, except for input_file's new files.  Nobody   *)
(* has to send a datagram or the signal.                                   *)
WorkFairness ==
    /\ WF_workVars(mainPc # "exit" /\ SrcStep)
    /\ \A r \in Readers : WF_workVars(mainPc # "exit" /\ rdPc[r] # "recv" /\ RdStep(r))
    /\ WF_workVars(CancelAll) /\ WF_workVars(Exit)

WorkSpec == WorkInit /\ [][WorkNext]_workVars /\ WorkFairness

-----------------------------------------------------------------------------
(* As long as the input thread has not ended, what an output thread copied *)
(* is one picture: data and size belong together, and the memory was       *)
(* neither freed nor unfilled, however often input_file or input_opencv    *)
(* replace the buffer.                                                     *)
CopyIsOnePicture ==
    srcPc # "ended" =>
        \A r \in Readers : rdCopy[r] # NoPicture =>
            rdCopy[r].data = rdCopy[r].size /\ rdCopy[r].data \in Pictures

(* input_file -r deletes a file only when its picture is in the buffer:    *)
(* what could not be read is not lost.                                     *)
RemovedWasServed ==
    [][(srcPc = "remove" /\ srcPc' = "loop") => inBuf = srcPic /\ inSize = srcPic]_workVars

(* input_file -e: the index into the directory listing stays inside it. *)
FolderIndexValid == inKind = "existing" => srcFile \in DOMAIN Folder

(* An input thread that ended by itself left db locked only where          *)
(* input_file found no memory or input_ptp2 gave up, and no other plugin's *)
(* end stops the output threads for good.                                  *)
StuckExplained ==
    (srcPc = "ended" /\ ~killed /\ dbOwner = Source) =>
        \/ inKind = "ptp2" /\ WFaults \cap {"camera", "empty"} # {}
        \/ inKind \in {"file", "existing"} /\ inBuf = NoPicture /\ "memory" \in WFaults

(* An input that can always deliver (not input_file's new files) wakes     *)
(* every output thread that waits: no broadcast is missed for good.        *)
ReaderWoken ==
    \A r \in Readers :
        (inKind # "file" /\ r \in dbWaiting) ~> (r \notin dbWaiting \/ srcPc = "ended" \/ mainPc = "exit")

(* "folder to watch for new JPEG files": every new file is served. *)
EveryNewFileServed ==
    \A p \in Pictures :
        (p \in {events[i] : i \in DOMAIN events}) ~> (inBuf = p \/ halt)

(* "remove/delete JPEG file after reading", output threads "loop forever": *)
(* the end of the input never leaves db locked.                            *)
NeverStuck == srcPc = "ended" /\ ~killed => dbOwner # Source

(* The inputs and outputs on the picture exchange: pictures are whole, the *)
(* folder listing is read inside its bounds, and only the known exits      *)
(* leave the exchange locked.                                              *)
WorkersSafe == WorkTypeOK /\ CopyIsOnePicture /\ FolderIndexValid /\ StuckExplained
=============================================================================
