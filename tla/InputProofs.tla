----------------------------- MODULE InputProofs -----------------------------
(***************************************************************************)
(* Proofs about where pictures come from.  UvcQueue, for any number of     *)
(* buffers: what cam_thread alone guarantees, and what is left of it when  *)
(* a client changes the resolution at any moment and ioctls fail.          *)
(* PictureWorkers: the small input and output plugins, for any pictures,   *)
(* any set of output plugins, any folder and every fault.                  *)
(***************************************************************************)
EXTENDS UvcQueue, PictureWorkers, TLAPS

(* A step of cam_thread in which it talks to the driver keeps QInv.        *)
LEMMA GrabIoctls ==
    ASSUME QInv,
           \/ GrabStop \/ GrabQueue \/ GrabEnable \/ GrabDequeue \/ GrabCopy
           \/ GrabRequeue
    PROVE  QInv'
<1> USE QueueAssumption
        DEF QInv, QueueTypeOK, GrabPcs, ResPcs, Out, resVars, driverVars
<1>1. CASE GrabStop  BY <1>1, ZenonT(30) DEF GrabStop, StreamOff
<1>2. CASE GrabQueue  BY <1>2, Zenon DEF GrabQueue
<1>3. CASE GrabEnable
  <2>1. Out = Buffers /\ Out' = Out  BY <1>3, Zenon DEF GrabEnable
  <2> HIDE DEF Out
  <2>2. CASE devOn' = TRUE /\ grabPc' = "enabled" /\ UNCHANGED dead
    <3>1. Out' = Buffers \ {}  BY <2>1, Zenon
    <3> QED  BY <1>3, <2>2, <3>1, Zenon DEF GrabEnable
  <2>3. CASE dead' = TRUE /\ UNCHANGED <<devOn, grabPc>>
    BY <1>3, <2>1, <2>3, Zenon DEF GrabEnable
  <2> QED  BY <1>3, <2>2, <2>3, Zenon DEF GrabEnable
<1>4. CASE GrabDequeue
  <2>1. ASSUME NEW b \in done, open, done' = done \ {b}, held' = b,
               grabPc = "wait", grabPc' = "got", UNCHANGED <<empty, dead>>,
               UNCHANGED <<open, mapped, devOn, queued, streamingState, resVars, active>>
        PROVE  QInv'
    <3>1. Out' = Out \ {b}  BY <2>1, Zenon
    <3>2. b \in Buffers  BY <2>1, Zenon
    <3> HIDE DEF Out
    <3> QED  BY <2>1, <3>1, <3>2, Zenon
  <2>2. ASSUME NEW b \in empty, open, empty' = empty \ {b}, held' = b,
               grabPc = "wait", grabPc' = "publish", UNCHANGED <<done, dead>>,
               UNCHANGED <<open, mapped, devOn, queued, streamingState, resVars, active>>
        PROVE  QInv'
    <3>1. "empty" \in Events  BY Zenon
    <3> QED  BY <2>2, <3>1, Zenon
  <2> QED  BY <1>4, <2>1, <2>2, Zenon DEF GrabDequeue
<1>5. CASE GrabCopy  BY <1>5, Zenon DEF GrabCopy
<1>6. CASE GrabRequeue
  <2>1. CASE queued' = queued \cup {held} /\ held \notin Out
    <3>1. Out' = Out \cup {held} /\ held \in Buffers
      BY <1>6, <2>1, Zenon DEF GrabRequeue
    <3>2. devOn /\ grabPc = "requeue" /\ grabPc' = "publish"
      BY <1>6, <2>1, Zenon DEF GrabRequeue
    <3> QED  BY <1>6, <2>1, <3>1, <3>2 DEF GrabRequeue
  <2>2. CASE UNCHANGED <<queued, grabPc>>  BY <1>6, <2>2, Zenon DEF GrabRequeue
  <2> QED  BY <1>6, <2>1, <2>2, Zenon DEF GrabRequeue
<1> QED  BY <1>1, <1>2, <1>3, <1>4, <1>5, <1>6, Zenon

(* A step of cam_thread on its own state keeps QInv.                       *)
LEMMA GrabControl ==
    ASSUME QInv,
           \/ GrabLoop \/ GrabCheck \/ GrabStopped \/ GrabUnpark \/ GrabStart
           \/ GrabEnabled \/ GrabPublish
    PROVE  QInv'
<1> USE DEF QInv, QueueTypeOK, GrabPcs, ResPcs, Out, resVars, driverVars
<1>1. CASE GrabLoop  BY <1>1, Zenon DEF GrabLoop
<1>2. CASE GrabCheck  BY <1>2, Zenon DEF GrabCheck
<1>3. CASE GrabStopped  BY <1>3, Zenon DEF GrabStopped
<1>4. CASE GrabUnpark  BY <1>4, Zenon DEF GrabUnpark
<1>5. CASE GrabStart  BY <1>5, Zenon DEF GrabStart
<1>6. CASE GrabEnabled  BY <1>6, Zenon DEF GrabEnabled
<1>7. CASE GrabPublish  BY <1>7, Zenon DEF GrabPublish
<1> QED  BY <1>1, <1>2, <1>3, <1>4, <1>5, <1>6, <1>7, Zenon

(* Where cam_thread is determines which buffers the driver owns.           *)
THEOREM QueueInvariance ==
    ASSUME "resolution" \notin Events
    PROVE  QueueSpec => []QInv
<1>1. QueueInit => QInv
  BY Zenon DEF QueueInit, QInv, QueueTypeOK, GrabPcs, ResPcs, Out
<1>2. QInv /\ [QueueNext]_uvcVars => QInv'
  <2> SUFFICES ASSUME QInv, [QueueNext]_uvcVars  PROVE QInv'
    BY Zenon
  <2>1. CASE DriverFills
    BY <2>1 DEF DriverFills, QInv, QueueTypeOK, Out, camVars, resVars
  <2>2. CASE OutputsChange
    BY <2>2 DEF OutputsChange, QInv, QueueTypeOK, GrabPcs, Out, resVars,
                driverVars
  <2>3. CASE GrabStep  BY <2>3, GrabIoctls, GrabControl, Zenon DEF GrabStep
  <2>4. ~setResolution
    BY Zenon DEF QInv, setResolution, ResolutionPause, ResolutionOff,
           ResolutionUnmap, ResolutionClose, init_v4l2, ResolutionEnable,
           ResolutionEnabled
  <2>5. CASE UNCHANGED uvcVars
    BY <2>5 DEF uvcVars, QInv, QueueTypeOK, Out, camVars, resVars, driverVars
  <2> QED  BY <2>1, <2>2, <2>3, <2>4, <2>5, Zenon DEF QueueNext
<1> QED  BY <1>1, <1>2, PTL DEF QueueSpec

(* uvcGrab and uvcStopGrab always know whether the driver streams.         *)
THEOREM DriverStateKnown ==
    ASSUME "resolution" \notin Events
    PROVE  QueueSpec => []StateMatchesDriver
<1>1. QInv => StateMatchesDriver  BY Zenon DEF QInv, StateMatchesDriver
<1> QED  BY <1>1, QueueInvariance, PTL

(* Switching the camera off and on again gives the driver every buffer.    *)
THEOREM RestartComplete ==
    ASSUME "resolution" \notin Events
    PROVE  QueueSpec => []RestartQueuesAll
<1>1. QInv => RestartQueuesAll  BY Zenon DEF QInv, RestartQueuesAll
<1> QED  BY <1>1, QueueInvariance, PTL

(* A camera that delivers no empty frames always has a buffer to fill when *)
(* uvcGrab waits for it.                                                   *)
THEOREM DriverNeverStarved ==
    ASSUME "resolution" \notin Events, "empty" \notin Events
    PROVE  QueueSpec => []NeverStarved
<1>1. QInv => NeverStarved
  BY QueueAssumption, Zenon DEF QInv, NeverStarved
<1> QED  BY <1>1, QueueInvariance, PTL
-----------------------------------------------------------------------------
(* resResult is "none" and no change runs only until the first change of   *)
(* the resolution; until then cam_thread is alone with the driver.         *)
Untouched == resPc = "idle" /\ resResult = "none" => QInv

(* Once a change has stopped the driver it streams again only by a call    *)
(* that is about to say so: setResolution's own, or a concurrent uvcGrab   *)
(* between its ioctl and its assignment.                                   *)
PausedIsOff ==
    /\ streamingState = "paused"
    /\ resPc \in {"unmap", "close", "init", "enable"}
          \/ (resPc = "idle" /\ resResult # "failed")
    => ~devOn \/ grabPc = "enabled"

(* What cam_thread, the driver and the outputs do leaves setResolution     *)
(* where it is.                                                            *)
LEMMA ClientStays ==
    ASSUME DriverFills \/ OutputsChange \/ GrabStep
    PROVE  UNCHANGED <<resPc, resResult>>
BY Zenon DEF DriverFills, OutputsChange, GrabStep, GrabLoop, GrabCheck, GrabStop,
       GrabStopped, GrabUnpark, GrabStart, GrabQueue, GrabEnable, GrabEnabled,
       GrabDequeue, GrabCopy, GrabRequeue, GrabPublish, resVars

(* A step keeps QInv as long as no change of the resolution has begun.     *)
LEMMA UntouchedKept ==
    ASSUME Untouched, [QueueNext]_uvcVars
    PROVE  Untouched'
<1>1. CASE DriverFills
  BY <1>1, ClientStays
     DEF Untouched, DriverFills, QInv, QueueTypeOK, Out, camVars, resVars
<1>2. CASE OutputsChange
  BY <1>2, ClientStays, Zenon
     DEF Untouched, OutputsChange, QInv, QueueTypeOK, GrabPcs, Out, resVars, driverVars
<1>3. CASE GrabStep
  BY <1>3, ClientStays, GrabIoctls, GrabControl, Zenon DEF Untouched, GrabStep
<1>4. CASE setResolution
  <2>1. resPc' = "idle" => resResult' # "none"
    BY <1>4, Zenon DEF setResolution, ResolutionPause, ResolutionOff, ResolutionUnmap,
                ResolutionClose, init_v4l2, ResolutionEnable, ResolutionEnabled
  <2> QED  BY <2>1, Zenon DEF Untouched
<1>5. CASE UNCHANGED uvcVars
  BY <1>5, Zenon DEF Untouched, uvcVars, QInv, QueueTypeOK, Out, camVars, resVars, driverVars
<1> QED  BY <1>1, <1>2, <1>3, <1>4, <1>5, Zenon DEF QueueNext

(* A step keeps the pause explained.                                       *)
LEMMA PausedIsOffKept ==
    ASSUME PausedIsOff, [QueueNext]_uvcVars
    PROVE  PausedIsOff'
<1> USE DEF PausedIsOff, driverVars, camVars, resVars
<1>1. CASE DriverFills  BY <1>1, Zenon DEF DriverFills
<1>2. CASE OutputsChange  BY <1>2, Zenon DEF OutputsChange
<1>3. CASE GrabStep
  <2>1. CASE GrabStop  BY <1>3, <2>1, ClientStays, Zenon DEF GrabStop, StreamOff
  <2>2. CASE GrabEnable  BY <1>3, <2>2, ClientStays, Zenon DEF GrabEnable
  <2>3. CASE GrabEnabled \/ GrabStopped  BY <2>3, Zenon DEF GrabEnabled, GrabStopped
  <2>4. CASE GrabLoop \/ GrabCheck \/ GrabUnpark \/ GrabStart \/ GrabPublish
    BY <2>4, Zenon DEF GrabLoop, GrabCheck, GrabUnpark, GrabStart, GrabPublish
  <2>5. CASE GrabQueue \/ GrabDequeue \/ GrabCopy \/ GrabRequeue
    BY <2>5, Zenon DEF GrabQueue, GrabDequeue, GrabCopy, GrabRequeue
  <2> QED  BY <1>3, <2>1, <2>2, <2>3, <2>4, <2>5, Zenon DEF GrabStep
<1>4. CASE setResolution
  BY <1>4, Zenon DEF setResolution, ResolutionPause, ResolutionOff, ResolutionUnmap,
              ResolutionClose, init_v4l2, ResolutionEnable, ResolutionEnabled, StreamOff
<1>5. CASE UNCHANGED uvcVars  BY <1>5, Zenon DEF uvcVars
<1> QED  BY <1>1, <1>2, <1>3, <1>4, <1>5, Zenon DEF QueueNext

(* Whatever a client does to the resolution and whichever ioctl fails: the *)
(* first starts of the camera are complete, and STREAMING_PAUSED never     *)
(* outlives a change that succeeded on a camera that streams.              *)
THEOREM RestartsAndPauses ==
    QueueSpec => []RestartSound
<1>1. QueueInit => Untouched /\ PausedIsOff
  BY Zenon DEF QueueInit, Untouched, PausedIsOff, QInv, QueueTypeOK, GrabPcs, ResPcs, Out
<1>2. Untouched /\ PausedIsOff => RestartSound
  BY Zenon DEF Untouched, PausedIsOff, QInv, RestartSound, RestartQueuesAll, PauseExplained
<1> QED  BY <1>1, <1>2, UntouchedKept, PausedIsOffKept, PTL DEF QueueSpec

-----------------------------------------------------------------------------
(* The small plugins.                                                      *)
Copies == {NoPicture} \cup [data : Pictures \cup {NoPicture, Garbage},
                            size : Pictures \cup {NoPicture}]

(* The types WorkTypeOK leaves open.  The restarts of input_ptp2 pass      *)
(* their limit only with the step that ends the thread.                    *)
WorkTypes ==
    /\ WorkTypeOK
    /\ srcPic \in Pictures \cup {NoPicture}
    /\ events \in Seq(Pictures)
    /\ rdCopy \in [Readers -> Copies]
    /\ srcPc # "ended" => restarts <= RestartLimit + 1

(* The input thread holds db while it copies and publishes, and has        *)
(* released it before it looks for the next picture.                       *)
SourceHolds ==
    /\ srcPc \in {"copy", "publish"} => dbOwner = Source
    /\ srcPc \in {"loop", "fetch", "lock", "remove"} => dbOwner # Source

(* Whenever an output thread could take db, the buffer holds the picture   *)
(* its size belongs to, or no size.                                        *)
BufferWhole ==
    srcPc # "ended" /\ dbOwner # Source => inSize = NoPicture \/ inBuf = inSize

(* On its way into the buffer a picture is one, except input_ptp2's empty  *)
(* previews; when a file is about to be removed its picture is there.      *)
PictureOnItsWay ==
    /\ srcPc \in {"lock", "copy", "publish"} /\ srcPic = NoPicture =>
          inKind = "ptp2" /\ "empty" \in WFaults
    /\ srcPc = "remove" => inBuf = srcPic /\ inSize = srcPic

(* A thread on its way out with db still locked: input_file without memory.*)
LeavesLocked ==
    srcPc = "cleanup" /\ ~killed /\ dbOwner = Source =>
        inKind \in {"file", "existing"} /\ inBuf = NoPicture /\ "memory" \in WFaults

WorkInv ==
    /\ WorkTypes /\ SourceHolds /\ BufferWhole /\ PictureOnItsWay /\ LeavesLocked
    /\ CopyIsOnePicture /\ StuckExplained

-----------------------------------------------------------------------------
(* Looking for a picture and locking db leave buffer and copies alone.     *)
LEMMA FetchKeeps ==
    ASSUME WorkInv,
           \/ SrcLoop \/ FetchEvent \/ FetchEntry \/ FetchFrame \/ FetchPreview \/ SrcLock
    PROVE  WorkInv'
<1> USE WorkersAssumption
        DEF WorkInv, WorkTypes, WorkTypeOK, SourceHolds, BufferWhole, PictureOnItsWay,
            LeavesLocked, CopyIsOnePicture, StuckExplained, bufVars, mainVars, rdVars
<1>1. CASE SrcLoop  BY <1>1 DEF SrcLoop
<1>2. CASE FetchEvent
  <2>1. events' \in Seq(Pictures) /\ Len(events') <= MaxEvents  BY <1>2 DEF FetchEvent
  <2> QED  BY <1>2, <2>1 DEF FetchEvent
<1>3. CASE FetchEntry  BY <1>3 DEF FetchEntry
<1>4. CASE FetchFrame  BY <1>4 DEF FetchFrame
<1>5. CASE FetchPreview  BY <1>5 DEF FetchPreview
<1>6. CASE SrcLock  BY <1>6 DEF SrcLock, SrcTo
<1> QED  BY <1>1, <1>2, <1>3, <1>4, <1>5, <1>6, ZenonT(30)

(* Filling the buffer: nobody else can look at it before it is published.  *)
LEMMA CopyKeeps == ASSUME WorkInv, Copy PROVE WorkInv'
<1> USE WorkersAssumption
        DEF WorkInv, WorkTypes, WorkTypeOK, SourceHolds, BufferWhole, PictureOnItsWay,
            LeavesLocked, CopyIsOnePicture, StuckExplained, bufVars, mainVars, rdVars
<1>1. CASE CopyFile  BY <1>1 DEF Copy, CopyFile
<1>2. CASE CopyFrame  BY <1>2 DEF Copy, CopyFrame, SrcTo
<1>3. CASE CopyPreview
  <2>1. restarts' \in 0 .. RestartLimit + 2
        /\ (srcPc' # "ended" => restarts' <= RestartLimit + 1)
    BY <1>3 DEF CopyPreview
  <2> QED  BY <1>3, <2>1 DEF Copy, CopyPreview
<1> QED  BY <1>1, <1>2, <1>3, Zenon DEF Copy

(* Publishing, removing the file and the ends of the input thread.         *)
LEMMA PublishKeeps ==
    ASSUME WorkInv, Publish \/ RemoveFile \/ SrcCleanup \/ SrcCancelled
    PROVE  WorkInv'
<1> USE WorkersAssumption
        DEF WorkInv, WorkTypes, WorkTypeOK, SourceHolds, BufferWhole, PictureOnItsWay,
            LeavesLocked, CopyIsOnePicture, StuckExplained, bufVars, mainVars, rdVars
<1>1. CASE Publish
  <2>1. /\ srcPc = "publish" /\ dbOwner = Source /\ ctlOwner' = Nobody
        /\ UNCHANGED <<srcFile, restarts, events, mainVars, rdVars>>
    BY <1>1, Zenon DEF Publish
  <2>2. CASE srcPc' = "ended" /\ inKind = "ptp2" /\ "camera" \in WFaults
             /\ UNCHANGED <<inBuf, inSize, dbWaiting, dbOwner, srcPic>>
    BY <2>1, <2>2
  <2>3. CASE /\ inBuf' = (IF srcPic = NoPicture THEN inBuf ELSE srcPic) /\ inSize' = srcPic
             /\ dbWaiting' = Wake(dbWaiting) /\ dbOwner' = Nobody
             /\ IF inKind \in {"file", "existing"}
                THEN srcPc' = "remove" /\ UNCHANGED srcPic
                ELSE srcPc' = "loop" /\ srcPic' = NoPicture
    <3>1. WorkTypes'  BY <2>1, <2>3, Zenon DEF Wake
    <3>2. SourceHolds' /\ BufferWhole' /\ LeavesLocked' /\ StuckExplained' /\ CopyIsOnePicture'
      BY <2>1, <2>3, Zenon
    <3>3. PictureOnItsWay'  BY <2>1, <2>3, Zenon
    <3> QED  BY <3>1, <3>2, <3>3, Zenon
  <2> QED  BY <1>1, <2>1, <2>2, <2>3, Zenon DEF Publish
<1>2. CASE RemoveFile  BY <1>2 DEF RemoveFile, SrcTo
<1>3. CASE SrcCleanup  BY <1>3 DEF SrcCleanup, SrcTo
<1>4. CASE SrcCancelled  BY <1>4 DEF SrcCancelled
<1> QED  BY <1>1, <1>2, <1>3, <1>4, Zenon

(* An output thread copies only while nobody holds db.                     *)
LEMMA ReaderKeeps == ASSUME WorkInv, NEW r \in Readers, RdStep(r) PROVE WorkInv'
<1> USE WorkersAssumption
        DEF WorkInv, WorkTypes, WorkTypeOK, SourceHolds, BufferWhole, PictureOnItsWay,
            LeavesLocked, CopyIsOnePicture, StuckExplained, mainVars, srcVars, RdTo
<1>1. CASE RdLoop(r)  BY <1>1 DEF RdStep, RdLoop
<1>2. CASE RdReceive(r)  BY <1>2 DEF RdStep, RdReceive
<1>3. CASE RdWait(r)  BY <1>3 DEF RdStep, RdWait
<1>4. CASE RdTake(r)
  <2>1. /\ dbOwner = Nobody
        /\ rdPc' \in [Readers -> {"loop", "recv", "enter", "wait", "save", "cleanup", "ended"}]
        /\ UNCHANGED <<dbOwner, dbWaiting, inBuf, inSize, ctlOwner, mainVars, srcVars>>
    BY <1>4, Zenon DEF RdStep, RdTake
  <2> DEFINE got == IF inSize = NoPicture THEN NoPicture ELSE [data |-> inBuf, size |-> inSize]
  <2>2. got \in Copies  BY Zenon DEF Copies
  <2>3. srcPc # "ended" /\ got # NoPicture => got.data = got.size /\ got.data \in Pictures
    BY <2>1, Zenon
  <2>4. rdCopy' = rdCopy \/ rdCopy' = [rdCopy EXCEPT ![r] = got]
    BY <1>4, Zenon DEF RdTake
  <2> HIDE DEF got
  <2>5. rdCopy' \in [Readers -> Copies] /\ CopyIsOnePicture'
    BY <2>1, <2>2, <2>3, <2>4
  <2> QED  BY <2>1, <2>5
<1>5. CASE RdUse(r)  BY <1>5 DEF RdStep, RdUse, Copies
<1>6. CASE RdCleanup(r)  BY <1>6 DEF RdStep, RdCleanup
<1>7. CASE RdCancelled(r)
  <2>1. /\ killed
        /\ rdPc' \in [Readers -> {"loop", "recv", "enter", "wait", "save", "cleanup", "ended"}]
        /\ UNCHANGED <<inBuf, inSize, ctlOwner, mainVars, srcVars>>
    BY <1>7, Zenon DEF RdStep, RdCancelled
  <2>2. \/ dbOwner' = dbOwner /\ dbWaiting' = dbWaiting
        \/ dbOwner = Nobody /\ dbOwner' = r /\ dbWaiting' \subseteq dbWaiting
    BY <1>7, Zenon DEF RdCancelled
  <2>3. rdCopy' = [rdCopy EXCEPT ![r] = NoPicture]  BY <1>7, Zenon DEF RdCancelled
  <2>4. rdCopy' \in [Readers -> Copies] /\ CopyIsOnePicture'  BY <2>1, <2>3, Zenon DEF Copies
  <2>5. SourceHolds' /\ BufferWhole' /\ PictureOnItsWay' /\ LeavesLocked' /\ StuckExplained'
    BY <2>1, <2>2, Zenon
  <2>6. dbOwner' \in Readers \cup {Source, Nobody} /\ dbWaiting' \subseteq Readers
    BY <2>2, ZenonT(30)
  <2>7. WorkTypes'  BY <2>1, <2>4, <2>6
  <2> QED  BY <2>4, <2>5, <2>7, Zenon
<1> QED  BY <1>1, <1>2, <1>3, <1>4, <1>5, <1>6, <1>7, ZenonT(30) DEF RdStep

(* The folder, the signal handler and spurious wakeups.                    *)
LEMMA OthersKeep ==
    ASSUME WorkInv, NewFile \/ RdSpurious \/ Signal \/ CancelAll \/ Exit \/ UNCHANGED workVars
    PROVE  WorkInv'
<1> USE WorkersAssumption
        DEF WorkInv, WorkTypes, WorkTypeOK, SourceHolds, BufferWhole, PictureOnItsWay,
            LeavesLocked, CopyIsOnePicture, StuckExplained,
            bufVars, mainVars, rdVars, srcVars, workVars
<1>1. CASE NewFile
  <2>1. events' \in Seq(Pictures) /\ Len(events') <= MaxEvents  BY <1>1 DEF NewFile
  <2> QED  BY <1>1, <2>1, SMTT(60) DEF NewFile
<1>2. CASE RdSpurious  BY <1>2, SMTT(60) DEF RdSpurious
<1>3. CASE Signal  BY <1>3, SMTT(60) DEF Signal
<1>4. CASE CancelAll  BY <1>4, SMTT(60) DEF CancelAll
<1>5. CASE Exit  BY <1>5, SMTT(60) DEF Exit
<1>6. CASE UNCHANGED workVars  BY <1>6, SMTT(60)
<1> QED  BY <1>1, <1>2, <1>3, <1>4, <1>5, <1>6, ZenonT(30)

(* The invariant of the plugins' threads holds in every behaviour.         *)
THEOREM WorkersInvariance == WorkSpec => []WorkInv
<1>1. WorkInit => WorkInv
  <2> SUFFICES ASSUME WorkInit PROVE WorkInv  BY Zenon
  <2> USE WorkersAssumption DEF WorkInit
  <2>1. WorkTypes
    <3>1. events \in Seq(Pictures) /\ Len(events) <= MaxEvents  OBVIOUS
    <3>2. rdCopy \in [Readers -> Copies]  BY Zenon DEF Copies
    <3>3. halt \in BOOLEAN /\ killed \in BOOLEAN  BY Zenon
    <3>4. /\ inBuf \in Pictures \cup {NoPicture, Garbage} /\ inSize \in Pictures \cup {NoPicture}
          /\ dbOwner \in Readers \cup {Source, Nobody} /\ ctlOwner \in {Source, Nobody}
          /\ dbWaiting \subseteq Readers /\ srcPic \in Pictures \cup {NoPicture}
      BY Zenon
    <3>5. restarts \in 0 .. RestartLimit + 2 /\ restarts <= RestartLimit + 1  OBVIOUS
    <3>6. rdPc \in [Readers -> {"loop", "recv", "enter", "wait", "save", "cleanup", "ended"}]
      BY Zenon
    <3> QED  BY <3>1, <3>2, <3>3, <3>4, <3>5, <3>6, Zenon DEF WorkTypes, WorkTypeOK
  <2> QED
    BY <2>1, Zenon
    DEF WorkInv, SourceHolds, BufferWhole, PictureOnItsWay, LeavesLocked, CopyIsOnePicture,
        StuckExplained
<1>2. WorkInv /\ [WorkNext]_workVars => WorkInv'
  BY FetchKeeps, CopyKeeps, PublishKeeps, ReaderKeeps, OthersKeep, Zenon DEF WorkNext, SrcStep
<1> QED  BY <1>1, <1>2, PTL DEF WorkSpec

(* The index of input_file -e stays inside the listing, when the last name *)
(* of the listing is a picture: only past a picture does it start again.   *)
LEMMA IndexStays ==
    ASSUME Folder[Len(Folder)]
    PROVE  WorkSpec => []FolderIndexValid
<1>1. WorkInit => FolderIndexValid
  BY WorkersAssumption DEF WorkInit, FolderIndexValid
<1>2. FolderIndexValid /\ [WorkNext]_workVars => FolderIndexValid'
  <2> SUFFICES ASSUME FolderIndexValid, [WorkNext]_workVars, inKind' = "existing"
               PROVE  srcFile' \in DOMAIN Folder
    BY Zenon DEF FolderIndexValid
  <2>1. CASE FetchEntry
    BY <2>1, WorkersAssumption DEF FetchEntry, NextEntry, mainVars, FolderIndexValid
  <2>2. CASE ~FetchEntry
    <3>1. srcFile' = srcFile /\ inKind' = inKind
      BY <2>2, ZenonT(30)
         DEF WorkNext, SrcStep, SrcLoop, FetchEvent, FetchFrame, FetchPreview, SrcLock,
             Copy, Publish, RemoveFile, SrcCleanup, SrcCancelled, NewFile, RdSpurious, RdStep,
             Signal, CancelAll, Exit, workVars, srcVars, mainVars
    <3> QED  BY <3>1, Zenon DEF FolderIndexValid
  <2> QED  BY <2>1, <2>2, Zenon
<1> QED  BY <1>1, <1>2, PTL DEF WorkSpec

(* Pictures reach the output threads whole, the listing is read inside its *)
(* bounds and only the known exits leave db locked, for any plugins,       *)
(* pictures and faults.  The listing has to end with a picture: for one    *)
(* that does not, the code reads past its end.                             *)
THEOREM WorkersAreSafe ==
    ASSUME Folder[Len(Folder)]
    PROVE  WorkSpec => []WorkersSafe
<1>1. WorkInv /\ FolderIndexValid => WorkersSafe
  BY Zenon DEF WorkInv, WorkTypes, WorkersSafe
<1>2. WorkSpec => []FolderIndexValid  BY IndexStays, Zenon
<1> QED  BY <1>1, <1>2, WorkersInvariance, PTL

(* input_file -r removes a file only after its picture went into the       *)
(* buffer, and nothing has replaced it there.                              *)
THEOREM RemovedAfterServed == WorkSpec => RemovedWasServed
<1> DEFINE R == (srcPc = "remove" /\ srcPc' = "loop") => inBuf = srcPic /\ inSize = srcPic
<1>1. WorkInv /\ [WorkNext]_workVars => [R]_workVars  BY Zenon DEF WorkInv, PictureOnItsWay
<1>2. WorkSpec => [][R]_workVars  BY <1>1, WorkersInvariance, PTL DEF WorkSpec
<1> QED  BY <1>2, Zenon DEF RemovedWasServed
=============================================================================
