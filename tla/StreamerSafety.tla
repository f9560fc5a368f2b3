---------------------------- MODULE StreamerSafety ----------------------------
(***************************************************************************)
(* Proof that IInv is an invariant of Streamer, the safety properties that *)
(* follow from it, and that Streamer implements PictureFeed, for any       *)
(* number of clients and pictures and every option and fault.              *)
(***************************************************************************)
EXTENDS StreamerProofs, StreamerFeed, FiniteSetTheorems

USE DistinctThreads, DistinctFrames, Environment, CameraOptions, FileOptions,
    KnownRequests

-----------------------------------------------------------------------------
(* There are finitely many viewers, so they can be counted.                *)
LEMMA ViewersFinite ==
    IsFiniteSet(Viewers) /\ Cardinality(Viewers) \in Nat
<1>1. Viewers \subseteq Clients  BY Zenon DEF Viewers
<1> QED  BY <1>1, FS_Subset, FS_CardinalityType, Zenon

(* A step that makes nobody a viewer and leaves num_outs and the worker    *)
(* alone keeps num_outs large enough.                                      *)
LEMMA CountKept ==
    ASSUME NoUndercount, Viewers' \subseteq Viewers, num_outs \in Nat,
           num_outs' = num_outs, WorkerActive' => WorkerActive
    PROVE  NoUndercount'
<1>1. Cardinality(Viewers') <= Cardinality(Viewers)
  BY ViewersFinite, FS_Subset, Zenon
<1>2. Cardinality(Viewers') \in Nat /\ Cardinality(Viewers) \in Nat
  BY ViewersFinite, FS_Subset, FS_CardinalityType, Zenon
<1> QED  BY <1>1, <1>2 DEF NoUndercount

(* A step of cam_thread does not touch the count or anyone it counts.      *)
LEMMA CountCam ==
    ASSUME IInv, CamStep
    PROVE  NoUndercount'
<1>1. num_outs' = num_outs
  BY Zenon DEF CamStep, CamNext, CamLoop, CamLockOut, CamCheckOuts, CamPark,
         CamUnpark, CamCancelled, CamGrab, CamGrabFails, CamDrop, CamKeep,
         CamCopy, CamStamp, CamPublish, CamCleanup, exchangeVars, outVars
<1>2. Viewers' = Viewers /\ WorkerActive' = WorkerActive
  BY Zenon DEF CamStep, fileVars, cliVars, Viewers, WorkerActive
<1> QED
  BY <1>1, <1>2, CountKept, Zenon DEF IInv, TypeOK, ExchangeTypeOK

(* A step of the output_file worker: it registers before it becomes active *)
(* and stops being active when it takes its registration away; when it     *)
(* dies in between, the count stays too large, never too small.            *)
LEMMA CountFile ==
    ASSUME IInv, FileStep
    PROVE  NoUndercount'
<1> USE DEF FileStep, fileVars, exchangeVars, outVars
<1>1. Viewers' = Viewers  BY Zenon DEF cliVars, Viewers
<1>2. num_outs \in Nat /\ NoUndercount /\ Cardinality(Viewers) \in Nat
  BY ViewersFinite, Zenon DEF IInv, TypeOK, ExchangeTypeOK
<1>3. CASE ouput_inc
  <2>1. num_outs' = num_outs + 1 /\ ~WorkerActive
    BY <1>3, Zenon DEF ouput_inc, IncOuts, WorkerActive
  <2> QED  BY <1>1, <1>2, <2>1 DEF NoUndercount
<1>4. CASE ouput_dec
  <2>1. WorkerActive /\ ~WorkerActive'
    BY <1>4, Zenon DEF ouput_dec, WorkerActive, IInv, DecMatchesInc
  <2>2. num_outs' = IF num_outs > 0 THEN num_outs - 1 ELSE num_outs
    BY <1>4, Zenon DEF ouput_dec, DecOuts
  <2> QED  BY <1>1, <1>2, <2>1, <2>2 DEF NoUndercount
<1>5. CASE ~ouput_inc /\ ~ouput_dec
  <2>1. num_outs' = num_outs
    BY <1>5, Zenon DEF FileNext, FileStart, FileLoop, FileLockOut, FileWait,
         FileReadSize, FileCopy, FileNoMemory, FileWrite, FileWriteFails,
         FileSleep, FileCancelled, FileCleanup
  <2>2. WorkerActive' => WorkerActive
    BY <1>5, Zenon DEF FileNext, FileStart, FileLoop, FileLockOut, FileWait,
         FileReadSize, FileCopy, FileNoMemory, FileWrite, FileWriteFails,
         FileSleep, FileCancelled, FileCleanup, WorkerActive
  <2> QED  BY <1>1, <1>2, <2>1, <2>2, CountKept, Zenon
<1> QED  BY <1>3, <1>4, <1>5, Zenon

(* A step of a client thread: ClientInc makes it a viewer and counts it,   *)
(* ClientDec does the reverse, and no other step makes it a viewer.        *)
LEMMA CountClient ==
    ASSUME IInv, NEW c \in Clients, ClientStep(c)
    PROVE  NoUndercount'
<1> USE DEF ClientStep, exchangeVars, outVars, Goto
<1>1. /\ num_outs \in Nat /\ NoUndercount /\ Cardinality(Viewers) \in Nat
      /\ cliPc \in [Clients -> CliPcs]
      /\ kind \in [Clients -> {"none", "snapshot", "stream", "take"}]
  BY ViewersFinite, Zenon DEF IInv, TypeOK, ExchangeTypeOK, CliTypeOK
<1>2. CASE ClientInc(c)
  <2>1. num_outs' = num_outs + 1 /\ WorkerActive' = WorkerActive
    BY <1>2, Zenon DEF ClientInc, IncOuts, fileVars, WorkerActive
  <2>2. Viewers' \subseteq Viewers \cup {c}
    BY <1>1, <1>2, Zenon DEF ClientInc, Viewers
  <2>3. /\ IsFiniteSet(Viewers \cup {c})
        /\ Cardinality(Viewers \cup {c}) <= Cardinality(Viewers) + 1
    <3>1. /\ IsFiniteSet(Viewers \cup {c})
          /\ Cardinality(Viewers \cup {c})
               = IF c \in Viewers THEN Cardinality(Viewers)
                 ELSE Cardinality(Viewers) + 1
      BY ViewersFinite, FS_AddElement, Zenon
    <3> QED  BY <1>1, <3>1
  <2>4. /\ Cardinality(Viewers') <= Cardinality(Viewers) + 1
        /\ Cardinality(Viewers') \in Nat
    BY <1>1, <2>2, <2>3, FS_Subset, FS_CardinalityType
  <2> QED  BY <1>1, <2>1, <2>4 DEF NoUndercount
<1>3. CASE ClientDec(c)
  <2>1. /\ num_outs' = IF num_outs > 0 THEN num_outs - 1 ELSE num_outs
        /\ WorkerActive' = WorkerActive
    BY <1>3, Zenon DEF ClientDec, DecOuts, fileVars, WorkerActive
  <2>2. c \in Viewers
    BY <1>3, Zenon DEF ClientDec, Viewers, IInv, DecMatchesInc
  <2>3. Viewers' = Viewers \ {c}
    BY <1>1, <1>3, Zenon DEF ClientDec, EndRequest, Viewers
  <2>4. Cardinality(Viewers') = Cardinality(Viewers) - 1
    BY <2>2, <2>3, ViewersFinite, FS_RemoveElement, ZenonT(30)
  <2> QED  BY <1>1, <2>1, <2>4 DEF NoUndercount
<1>4. CASE ~ClientInc(c) /\ ~ClientDec(c)
  <2>1. num_outs' = num_outs
    BY <1>4, Zenon DEF ClientNext, Talk, Serve, ClientRequest, ClientLockOut,
         StreamHeader, StreamLoop, ClientWait, ClientReadSize, ClientCopy,
         ClientNoMemory, ClientSend, TakeReadSize, TakeCopy, TakeWrite,
         TakeFails
  <2>2. filePc' = filePc
    BY <1>4, Zenon DEF ClientNext, Talk, Serve, ClientRequest, ClientLockOut,
         StreamHeader, StreamLoop, ClientWait, ClientReadSize, ClientCopy,
         ClientNoMemory, ClientSend, TakeReadSize, TakeCopy, TakeWrite,
         TakeFails, fileVars
  <2>3. Viewers' \subseteq Viewers
    <3> USE <1>1 DEF Viewers
    <3>1. CASE ClientRequest(c)  BY <3>1 DEF ClientRequest
    <3>2. CASE ClientLockOut(c)
      BY <3>2, Zenon DEF ClientLockOut
    <3>3. CASE StreamHeader(c) \/ StreamLoop(c) \/ ClientWait(c)
      BY <3>3, Zenon DEF StreamHeader, StreamLoop, ClientWait
    <3>4. CASE ClientReadSize(c) \/ ClientCopy(c)
      BY <3>4, Zenon DEF ClientReadSize, ClientCopy
    <3>5. CASE ClientNoMemory(c)
      BY <3>5, Zenon DEF ClientNoMemory, AfterSend, EndRequest
    <3>6. CASE ClientSend(c)  BY <3>6 DEF ClientSend, AfterSend, EndRequest
    <3>7. CASE TakeReadSize(c) \/ TakeCopy(c)
      BY <3>7 DEF TakeReadSize, TakeCopy
    <3>8. CASE TakeWrite(c)  BY <3>8, Zenon DEF TakeWrite, IInv, DecMatchesInc
    <3>9. CASE TakeFails(c)  BY <3>9, Zenon DEF TakeFails, EndRequest
    <3> QED
      BY <1>4, <3>1, <3>2, <3>3, <3>4, <3>5, <3>6, <3>7, <3>8, <3>9, Zenon
      DEF ClientNext, Talk, Serve
  <2> QED  BY <1>1, <2>1, <2>2, <2>3, CountKept, Zenon DEF WorkerActive
<1> QED  BY <1>2, <1>3, <1>4, Zenon

-----------------------------------------------------------------------------
(* A step of the main thread or a spurious wakeup keeps IInv.              *)
LEMMA InvOther ==
    ASSUME IInv, MainStep \/ WakeupStep
    PROVE  IInv'
<1>1. TypeOK'  BY TypeOther, Zenon DEF IInv
<1>2. UNCHANGED <<picture, num_outs, db, out, fresh, camVars, fileVars, cliVars>>
  BY Zenon DEF MainStep, MainNext, SignalHandler, StopInputs, StopOutputs, Exit,
         WakeupStep, SpuriousWakeup, outVars, dbVars
<1>3. /\ DbHeld' /\ OutHeld' /\ BufferWhole' /\ CopyCurrent' /\ NoMixedFrame'
      /\ DecMatchesInc'
  BY <1>2, Zenon DEF IInv, DbHeld, OutHeld, BufferWhole, CopyCurrent, NoMixedFrame,
              DecMatchesInc, picture, camVars, fileVars, cliVars
<1>4. NoUndercount'
  <2>1. Viewers' = Viewers /\ WorkerActive' = WorkerActive
    BY <1>2, Zenon DEF fileVars, cliVars, Viewers, WorkerActive
  <2> QED  BY <1>2, <2>1, Zenon DEF IInv, NoUndercount
<1>5. AsleepUncounted'
  <2>1. outWait' \subseteq outWait
    BY Zenon DEF MainStep, MainNext, SignalHandler, StopInputs, StopOutputs, Exit,
           WakeupStep, SpuriousWakeup, outVars
  <2> QED  BY <1>2, <2>1, Zenon DEF IInv, AsleepUncounted, camVars
<1>6. ReleasedByPublication'
  <2>1. SpuriousWakeups \/ dbWait' = dbWait
    BY Zenon DEF MainStep, MainNext, SignalHandler, StopInputs, StopOutputs, Exit,
           WakeupStep, SpuriousWakeup, dbVars
  <2> QED  BY <1>2, <2>1, Zenon DEF IInv, ReleasedByPublication, cliVars
<1>7. NoShutdown'
  <2>1. CASE MainStep
    BY <1>2, <2>1, Zenon DEF MainStep, MainNext, SignalHandler, StopInputs,
         StopOutputs, Exit, IInv, NoShutdown, camVars, picture
  <2>2. CASE WakeupStep
    BY <1>2, <2>2, Zenon DEF WakeupStep, SpuriousWakeup, runVars, IInv, NoShutdown,
         camVars, picture
  <2> QED  BY <2>1, <2>2, Zenon
<1> QED  BY <1>1, <1>3, <1>4, <1>5, <1>6, <1>7, Zenon DEF IInv

(* The threads of mjpg_streamer maintain IInv.                             *)
THEOREM Invariance == Spec => []IInv
<1>1. Init => IInv
  <2> SUFFICES ASSUME Init PROVE IInv  BY Zenon
  <2> USE DEF Init, ExchangeInit, CamInit, FileInit, CliInit
  <2>1. TypeOK  BY InitTypeOK, Zenon
  <2>2. DbHeld /\ OutHeld  BY Zenon DEF DbHeld, OutHeld, Threads
  <2>3. BufferWhole /\ CopyCurrent /\ NoMixedFrame
    BY Zenon DEF BufferWhole, CopyCurrent, NoMixedFrame
  <2>4. DecMatchesInc /\ AsleepUncounted /\ ReleasedByPublication /\ NoShutdown
    BY Zenon DEF DecMatchesInc, AsleepUncounted, ReleasedByPublication, NoShutdown
  <2>5. NoUndercount
    <3>1. Viewers = {} /\ ~WorkerActive  BY Zenon DEF Viewers, WorkerActive
    <3>2. Cardinality(Viewers) = 0 /\ num_outs = 0  BY <3>1, FS_EmptySet, Zenon
    <3> QED  BY ONLY <3>1, <3>2 DEF NoUndercount
  <2> QED  BY <2>1, <2>2, <2>3, <2>4, <2>5, Zenon DEF IInv
<1>2. IInv /\ [Next]_vars => IInv'
  <2>1. ASSUME IInv, UNCHANGED vars  PROVE IInv'
    <3> USE <2>1 DEF vars, exchangeVars, picture, outVars, dbVars, runVars,
                     camVars, fileVars, cliVars
    <3>1. TypeOK'
      <4>1. ExchangeTypeOK'  BY Zenon DEF IInv, TypeOK, ExchangeTypeOK
      <4>2. CamTypeOK' /\ FileTypeOK'  BY Zenon DEF IInv, TypeOK, CamTypeOK, FileTypeOK
      <4>3. CliTypeOK'  BY Zenon DEF IInv, TypeOK, CliTypeOK
      <4>4. mainPc' = mainPc  BY SMTT(30)
      <4> QED  BY <4>1, <4>2, <4>3, <4>4, Zenon DEF IInv, TypeOK
    <3>2. /\ DbHeld' /\ OutHeld' /\ BufferWhole' /\ CopyCurrent'
          /\ NoMixedFrame' /\ DecMatchesInc' /\ AsleepUncounted'
          /\ ReleasedByPublication' /\ NoShutdown'
      BY DEF IInv, DbHeld, OutHeld, BufferWhole, CopyCurrent, NoMixedFrame,
             DecMatchesInc, AsleepUncounted, ReleasedByPublication, NoShutdown
    <3>3. NoUndercount'  BY Zenon DEF IInv, NoUndercount, Viewers, WorkerActive
    <3> QED  BY <3>1, <3>2, <3>3, Zenon DEF IInv
  <2>2. ASSUME IInv, CamStep  PROVE IInv'
    BY <2>2, TypeCam, LocksCam, WholeCam, WaitsCam, CountCam, Zenon DEF IInv
  <2>3. ASSUME IInv, FileStep  PROVE IInv'
    BY <2>3, TypeFile, LocksFile, WholeFile, WaitsFile, CountFile, Zenon DEF IInv
  <2>4. ASSUME IInv, NEW c \in Clients, ClientStep(c)  PROVE IInv'
    BY <2>4, TypeClient, LocksClient, WholeClient, WaitsClient, CountClient, Zenon
    DEF IInv
  <2>5. ASSUME IInv, MainStep \/ WakeupStep  PROVE IInv'
    BY <2>5, InvOther, Zenon
  <2> QED
    BY <2>1, <2>2, <2>3, <2>4, <2>5, Zenon DEF Next, Running, Terminated
<1> QED  BY <1>1, <1>2, PTL DEF Spec

(* A client sends one picture: length, bytes and timestamp belong together.*)
THEOREM WholePictures == Spec => []NoMixedFrame
<1>1. IInv => NoMixedFrame  BY Zenon DEF IInv
<1> QED  BY <1>1, Invariance, PTL

(* cam_thread never sleeps while an output is counted.                     *)
THEOREM WakeupsNotLost == Spec => []NoLostWakeup
<1>1. IInv => NoLostWakeup  BY Zenon DEF IInv, AsleepUncounted, NoLostWakeup
<1> QED  BY <1>1, Invariance, PTL

(* Every output being served is counted.                                   *)
THEOREM OutputsCounted == Spec => []NoUndercount
<1>1. IInv => NoUndercount  BY Zenon DEF IInv
<1> QED  BY <1>1, Invariance, PTL

(* Where condition variables do not wake up by themselves, a client only   *)
(* sends a picture published after it asked.                               *)
THEOREM PicturesFresh ==
    ASSUME SpuriousWakeups = FALSE
    PROVE  Spec => []FreshFrame
<1>1. IInv => FreshFrame  BY Zenon DEF IInv, ReleasedByPublication, FreshFrame
<1> QED  BY <1>1, Invariance, PTL

(* The camera is switched off only while nobody is served: num_outs = 0    *)
(* where cam_thread tests it means that there is no viewer.                *)
THEOREM CameraStaysOn == Spec => NeverOffUnderViewer
<1> DEFINE Off == streaming = "ON" /\ streaming' = "OFF"
                  => Viewers = {} \/ camPc = "cleanup"
<1>1. IInv /\ [Next]_vars => [Off]_vars
  <2> SUFFICES ASSUME IInv, [Next]_vars, streaming = "ON", streaming' = "OFF",
                      camPc # "cleanup"
               PROVE  Viewers = {}
    BY Zenon
  <2>1. CamStep
    BY Zenon DEF Next, Running, Terminated, vars, FileStep, MainStep, WakeupStep,
           ClientStep, camVars
  <2>2. CamCheckOuts /\ num_outs = 0
    BY <2>1, Zenon DEF CamStep, CamNext, CamLoop, CamLockOut, CamCheckOuts, CamPark,
         CamUnpark, CamCancelled, CamGrab, CamGrabFails, CamDrop, CamKeep,
         CamCopy, CamStamp, CamPublish, CamCleanup, camVars
  <2>3. Cardinality(Viewers) = 0
    BY <2>2, ViewersFinite DEF IInv, NoUndercount
  <2> QED  BY <2>3, ViewersFinite, FS_EmptySet, Zenon
<1> QED  BY <1>1, Invariance, PTL DEF Spec, NeverOffUnderViewer

-----------------------------------------------------------------------------
(* The count is not too large either, as long as the worker lives: with a  *)
(* single file per picture every registration is taken away again.         *)
NoOvercount ==
    filePc \notin {"cleanup", "done"} =>
        num_outs <= Cardinality(Viewers) + (IF WorkerActive THEN 1 ELSE 0)

(* A step of the worker takes away what it registered, or ends it.         *)
LEMMA OvercountFile ==
    ASSUME ~MjpgFile, IInv, NoOvercount, FileStep
    PROVE  NoOvercount'
<1> USE DEF FileStep, fileVars, exchangeVars, outVars
<1>1. Viewers' = Viewers  BY Zenon DEF cliVars, Viewers
<1>2. num_outs \in Nat /\ NoUndercount /\ Cardinality(Viewers) \in Nat
  BY ViewersFinite, Zenon DEF IInv, TypeOK, ExchangeTypeOK
<1>3. CASE ouput_inc
  <2>1. num_outs' = num_outs + 1 /\ ~WorkerActive /\ WorkerActive' /\ filePc = "inc"
    BY <1>3, Zenon DEF ouput_inc, IncOuts, WorkerActive
  <2> QED  BY <1>1, <1>2, <2>1 DEF NoOvercount
<1>4. CASE ouput_dec
  <2>1. WorkerActive /\ ~WorkerActive' /\ filePc = "dec"
    BY <1>4, Zenon DEF ouput_dec, WorkerActive, IInv, DecMatchesInc
  <2>2. num_outs' = IF num_outs > 0 THEN num_outs - 1 ELSE num_outs
    BY <1>4, Zenon DEF ouput_dec, DecOuts
  <2> QED  BY <1>1, <1>2, <2>1, <2>2 DEF NoOvercount, NoUndercount
<1>5. CASE ~ouput_inc /\ ~ouput_dec
  <2>1. num_outs' = num_outs
    BY <1>5, Zenon DEF FileNext, FileStart, FileLoop, FileLockOut, FileWait,
         FileReadSize, FileCopy, FileNoMemory, FileWrite, FileWriteFails,
         FileSleep, FileCancelled, FileCleanup
  <2>2. filePc' \notin {"cleanup", "done"} =>
           filePc \notin {"cleanup", "done"} /\ (WorkerActive => WorkerActive')
    BY <1>5, Zenon DEF FileNext, FileStart, FileLoop, FileLockOut, FileWait,
         FileReadSize, FileCopy, FileNoMemory, FileWrite, FileWriteFails,
         FileSleep, FileCancelled, FileCleanup, WorkerActive
  <2> QED  BY <1>1, <1>2, <2>1, <2>2 DEF NoOvercount
<1> QED  BY <1>3, <1>4, <1>5, Zenon

(* A step of a client: nobody stops being a viewer but by ClientDec.       *)
LEMMA OvercountClient ==
    ASSUME IInv, NoOvercount, NEW c \in Clients, ClientStep(c)
    PROVE  NoOvercount'
<1> USE DEF ClientStep, exchangeVars, outVars, Goto
<1>1. /\ num_outs \in Nat /\ NoUndercount /\ Cardinality(Viewers) \in Nat
      /\ cliPc \in [Clients -> CliPcs]
      /\ kind \in [Clients -> {"none", "snapshot", "stream", "take"}]
  BY ViewersFinite, Zenon DEF IInv, TypeOK, ExchangeTypeOK, CliTypeOK
<1>2. filePc' = filePc
  BY Zenon DEF ClientNext, Talk, Serve, ClientRequest, ClientLockOut, ClientInc, ClientDec,
         StreamHeader, StreamLoop, ClientWait, ClientReadSize, ClientCopy,
         ClientNoMemory, ClientSend, TakeReadSize, TakeCopy, TakeWrite,
         TakeFails, fileVars
<1>3. CASE ClientInc(c)
  <2>1. num_outs' = num_outs + 1
    BY <1>3, Zenon DEF ClientInc, IncOuts
  <2>2. c \notin Viewers /\ Viewers' = Viewers \cup {c}
    BY <1>1, <1>3, Zenon DEF ClientInc, Viewers, IInv, DecMatchesInc
  <2>3. Cardinality(Viewers') = Cardinality(Viewers) + 1
    BY <2>2, ViewersFinite, FS_AddElement, Zenon
  <2> QED  BY <1>1, <1>2, <2>1, <2>3 DEF NoOvercount, WorkerActive
<1>4. CASE ClientDec(c)
  <2>1. num_outs' = IF num_outs > 0 THEN num_outs - 1 ELSE num_outs
    BY <1>4, Zenon DEF ClientDec, DecOuts
  <2>2. c \in Viewers
    BY <1>4, ZenonT(30) DEF ClientDec, Viewers, IInv, DecMatchesInc
  <2>3. Viewers' = Viewers \ {c}
    BY <1>1, <1>4, Zenon DEF ClientDec, EndRequest, Viewers
  <2>4. Cardinality(Viewers') = Cardinality(Viewers) - 1 /\ IsFiniteSet(Viewers')
    BY <2>2, <2>3, ViewersFinite, FS_RemoveElement, Zenon
  <2>5. Cardinality(Viewers') \in Nat  BY <2>4, FS_CardinalityType, Zenon
  <2> QED  BY <1>1, <1>2, <2>1, <2>4, <2>5 DEF NoOvercount, NoUndercount, WorkerActive
<1>5. CASE ~ClientInc(c) /\ ~ClientDec(c)
  <2>1. num_outs' = num_outs
    BY <1>5, Zenon DEF ClientNext, Talk, Serve, ClientRequest, ClientLockOut,
         StreamHeader, StreamLoop, ClientWait, ClientReadSize, ClientCopy,
         ClientNoMemory, ClientSend, TakeReadSize, TakeCopy, TakeWrite,
         TakeFails
  <2>2. Viewers' = Viewers
    <3> USE <1>1 DEF Viewers
    <3>1. CASE ClientRequest(c)  BY <3>1 DEF ClientRequest
    <3>2. CASE ClientLockOut(c)  BY <3>2, Zenon DEF ClientLockOut
    <3>3. CASE StreamHeader(c) \/ StreamLoop(c) \/ ClientWait(c)
      BY <3>3, Zenon DEF StreamHeader, StreamLoop, ClientWait
    <3>4. CASE ClientReadSize(c) \/ ClientCopy(c)
      BY <3>4, Zenon DEF ClientReadSize, ClientCopy
    <3>5. CASE ClientNoMemory(c)
      BY <3>5, Zenon DEF ClientNoMemory, AfterSend, EndRequest
    <3>6. CASE ClientSend(c)  BY <3>6, Zenon DEF ClientSend, AfterSend, EndRequest
    <3>7. CASE TakeReadSize(c) \/ TakeCopy(c)
      BY <3>7, Zenon DEF TakeReadSize, TakeCopy
    <3>8. CASE TakeWrite(c)  BY <3>8, Zenon DEF TakeWrite, IInv, DecMatchesInc
    <3>9. CASE TakeFails(c)  BY <3>9, Zenon DEF TakeFails, EndRequest
    <3> QED
      BY <1>5, <3>1, <3>2, <3>3, <3>4, <3>5, <3>6, <3>7, <3>8, <3>9, ZenonT(30)
      DEF ClientNext, Talk, Serve
  <2> QED  BY <1>1, <1>2, <2>1, <2>2, Zenon DEF NoOvercount, WorkerActive
<1> QED  BY <1>3, <1>4, <1>5, Zenon

(* While the worker of output_file pauses for its long delay, it is not an *)
(* active output: with a file per picture, and whatever fails.  With one   *)
(* mjpg file for all pictures the code never takes the output away.        *)
THEOREM PausingWorkerNotCounted ==
    ASSUME ~MjpgFile
    PROVE  Spec => []IdleWorkerNotCounted
<1>1. Init => NoOvercount
  <2> SUFFICES ASSUME Init PROVE num_outs <= Cardinality(Viewers) + 0
    BY Zenon DEF NoOvercount, WorkerActive, Init, FileInit
  <2> QED  BY ViewersFinite DEF Init, ExchangeInit
<1>2. IInv /\ NoOvercount /\ [Next]_vars => NoOvercount'
  <2>1. ASSUME NoOvercount, UNCHANGED <<num_outs, filePc, cliPc, kind>>
        PROVE  NoOvercount'
    BY <2>1, Zenon DEF NoOvercount, Viewers, WorkerActive
  <2>2. CamStep \/ MainStep \/ WakeupStep \/ UNCHANGED vars
           => UNCHANGED <<num_outs, filePc, cliPc, kind>>
    BY ZenonT(30) DEF CamStep, CamNext, CamLoop, CamLockOut, CamCheckOuts, CamPark,
         CamUnpark, CamCancelled, CamGrab, CamGrabFails, CamDrop, CamKeep,
         CamCopy, CamStamp, CamPublish, CamCleanup, MainStep, MainNext, SignalHandler,
         StopInputs, StopOutputs, Exit, WakeupStep, SpuriousWakeup, vars, exchangeVars,
         outVars, fileVars, cliVars
  <2> QED
    BY <2>1, <2>2, OvercountFile, OvercountClient, Zenon DEF Next, Running, Terminated
<1>3. NoOvercount /\ IInv => IdleWorkerNotCounted
  <2> SUFFICES ASSUME NoOvercount, IInv, LongDelay, filePc = "sleep", Viewers = {}
               PROVE  num_outs = 0
    BY Zenon DEF IdleWorkerNotCounted
  <2>1. Cardinality(Viewers) = 0 /\ ~WorkerActive  BY FS_EmptySet, Zenon DEF WorkerActive
  <2> QED  BY <2>1 DEF NoOvercount, IInv, TypeOK, ExchangeTypeOK
<1> QED  BY <1>1, <1>2, <1>3, Invariance, PTL DEF Spec

-----------------------------------------------------------------------------
(* The refinement, while no signal arrives and condition variables do not  *)
(* wake up by themselves.                                                  *)

(* A step that changes neither the size in the buffer nor, for the         *)
(* clients, who waits, who was released and who holds a picture, is not    *)
(* visible in the feed.                                                    *)
LEMMA FeedUnchanged ==
    ASSUME bufSize' = bufSize, Publishing' = Publishing,
           dbWait' \cap Clients = dbWait \cap Clients,
           fresh' \cap Clients = fresh \cap Clients,
           feedSeen' = feedSeen
    PROVE  UNCHANGED Feed!feedVars
<1>1. feedWanting' = feedWanting /\ feedReady' = feedReady
  BY Zenon DEF feedWanting, feedReady
<1> QED  BY <1>1, Zenon DEF Feed!feedVars

(* A step of cam_thread is a publication when it writes the buffer, and    *)
(* nothing otherwise.                                                      *)
LEMMA FeedCam ==
    ASSUME IInv, CamStep, SpuriousWakeups = FALSE, Signals = FALSE
    PROVE  [Feed!FeedNext]_(Feed!feedVars)
<1> USE DEF CamStep, exchangeVars, picture, dbVars, runVars
<1>1. feedSeen' = feedSeen  BY Zenon DEF feedSeen, cliVars
<1>2. CASE CamCopy
  <2>1. ~Publishing /\ Publishing' /\ dbWait' = dbWait /\ fresh' = fresh
    BY <1>2, Zenon DEF CamCopy, Publishing
  <2>2. bufSize' \in Frames \cup {NoFrame}
    BY <1>2, Zenon DEF CamCopy, memcpy_picture, IInv, TypeOK, CamTypeOK
  <2>3. feedWanting' = {} /\ feedReady' = feedReady \cup feedWanting
    BY <2>1, Zenon DEF feedWanting, feedReady
  <2>4. Feed!Publish(<<bufSize'>>)
    BY <1>1, <2>3, Zenon DEF Feed!Publish
  <2> QED  BY <2>2, <2>4, Zenon DEF Feed!FeedNext
<1>3. CASE CamStamp
  BY <1>1, <1>3, FeedUnchanged DEF CamStamp, Publishing
<1>4. CASE CamPublish
  <2>1. /\ Publishing /\ ~Publishing' /\ bufSize' = bufSize
        /\ dbWait' = {} /\ fresh' = fresh \cup dbWait
    BY <1>4, Zenon DEF CamPublish, BroadcastFrame, Publishing
  <2>2. feedWanting' = feedWanting /\ feedReady' = feedReady
    BY <2>1, Zenon DEF feedWanting, feedReady
  <2> QED  BY <1>1, <2>1, <2>2, Zenon DEF Feed!feedVars
<1>5. CASE CamLoop \/ CamLockOut \/ CamCheckOuts \/ CamPark \/ CamUnpark
  <2>1. UNCHANGED <<bufSize, dbWait, fresh, Publishing>>
    BY <1>5 DEF CamLoop, CamLockOut, CamCheckOuts, CamPark, CamUnpark,
                Publishing
  <2> QED  BY <1>1, <2>1, FeedUnchanged, Zenon
<1>6. CASE CamGrab \/ CamGrabFails \/ CamDrop \/ CamKeep
  <2>1. UNCHANGED <<bufSize, dbWait, fresh, Publishing>>
    BY <1>6 DEF CamGrab, CamGrabFails, CamDrop, CamKeep, Publishing, camVars
  <2> QED  BY <1>1, <2>1, FeedUnchanged, Zenon
<1>7. ~CamCancelled /\ ~CamCleanup
  BY Zenon DEF CamCancelled, CamCleanup, IInv, NoShutdown
<1> QED  BY <1>2, <1>3, <1>4, <1>5, <1>6, <1>7, Zenon DEF CamNext

(* A step of the output_file worker is not visible to the clients.         *)
LEMMA FeedFile ==
    ASSUME IInv, FileStep, SpuriousWakeups = FALSE, Signals = FALSE
    PROVE  [Feed!FeedNext]_(Feed!feedVars)
<1>1. feedSeen' = feedSeen /\ Publishing' = Publishing
  BY Zenon DEF FileStep, feedSeen, cliVars, camVars, Publishing
<1>2. /\ bufSize' = bufSize
      /\ dbWait' \cap Clients = dbWait \cap Clients
      /\ fresh' \cap Clients = fresh \cap Clients
  <2> USE DEF FileStep, exchangeVars, picture, dbVars
  <2>1. CASE FileWait
    BY <2>1, DistinctThreads, Zenon DEF FileWait, WaitForFrame
  <2>2. CASE FileCancelled
    BY <2>2, DistinctThreads, Zenon DEF FileCancelled
  <2>3. CASE ~FileWait /\ ~FileCancelled
    BY <2>3, ZenonT(30) DEF FileNext, FileStart, FileLoop, FileLockOut, ouput_inc,
         ouput_dec, FileReadSize, FileCopy, FileNoMemory, FileWrite,
         FileWriteFails, FileSleep, FileCleanup
  <2> QED  BY <2>1, <2>2, <2>3, Zenon
<1> QED  BY <1>1, <1>2, FeedUnchanged, Zenon

(* A step of a client thread: its wait is a question, the end of its copy  *)
(* the delivery of the latest picture, and its write the end of its use.   *)
LEMMA FeedClient ==
    ASSUME IInv, NEW c \in Clients, ClientStep(c), SpuriousWakeups = FALSE,
           Signals = FALSE
    PROVE  [Feed!FeedNext]_(Feed!feedVars)
<1> USE DEF ClientStep, exchangeVars, picture, dbVars, Goto
<1>1. Publishing' = Publishing  BY Zenon DEF camVars, Publishing
<1>2. cliPc \in [Clients -> CliPcs] /\ copy \in [Clients -> Copies]
  BY Zenon DEF IInv, TypeOK, CliTypeOK
<1>3. CASE ClientWait(c)
  <2>1. ~Publishing
    BY <1>3, DistinctThreads, Zenon
    DEF ClientWait, WaitForFrame, IInv, DbHeld, Publishing, Threads
  <2>2. feedSeen' = feedSeen
    BY <1>2, <1>3, Zenon DEF ClientWait, feedSeen
  <2>3. bufSize' = bufSize /\ dbWait' = dbWait \cup {c} /\ fresh' = fresh \ {c}
    BY <1>3, Zenon DEF ClientWait, WaitForFrame
  <2>4. feedWanting' = feedWanting \cup {c} /\ feedReady' = feedReady \ {c}
    BY <1>1, <2>1, <2>3, Zenon DEF feedWanting, feedReady
  <2>5. Feed!Ask(c)  BY <2>2, <2>3, <2>4, Zenon DEF Feed!Ask
  <2> QED  BY <2>5, Zenon DEF Feed!FeedNext
<1>4. CASE ClientCopy(c)
  <2>1. UNCHANGED <<bufSize, dbWait, fresh>>  BY <1>4, Zenon DEF ClientCopy
  <2>2. UNCHANGED <<feedWanting, feedReady>>
    BY <1>1, <2>1, Zenon DEF feedWanting, feedReady
  <2>3. c \in feedReady
    BY <1>4, Zenon DEF ClientCopy, IInv, ReleasedByPublication, feedReady
  <2>4. PictureOf(copy'[c]) = bufSize
    <3>1. NoMixedFrame' /\ cliPc'[c] = "send"
      BY <1>2, <1>4, WholeClient, Zenon DEF ClientCopy
    <3>2. copy[c].size = bufSize /\ bufData # Freed /\ Freed # NoFrame
      BY <1>4, DistinctFrames, Zenon DEF ClientCopy, IInv, CopyCurrent, NoShutdown
    <3> DEFINE data == IF copy[c].size = NoFrame THEN NoFrame ELSE bufData
    <3>3. copy'[c] = [copy[c] EXCEPT !.ts = bufTs, !.data = data]
      BY <1>2, <1>4, Zenon DEF ClientCopy
    <3>4. data # Freed  BY <3>2, Zenon
    <3> HIDE DEF data
    <3>5. copy[c] \in Copies  BY <1>2, Zenon
    <3>6. copy'[c].size = copy[c].size /\ copy'[c].data = data
      BY ONLY <3>3, <3>5, Zenon DEF Copies
    <3> QED  BY <3>1, <3>2, <3>4, <3>6, Zenon DEF NoMixedFrame, PictureOf
  <2>5. feedSeen' = [feedSeen EXCEPT ![c] = <<bufSize>>]
    BY <1>2, <1>4, <2>4, ZenonT(30) DEF ClientCopy, feedSeen
  <2>6. Feed!Deliver(c)  BY <2>1, <2>2, <2>3, <2>5, Zenon DEF Feed!Deliver
  <2> QED  BY <2>6, Zenon DEF Feed!FeedNext
<1>5. CASE ClientSend(c)
  <2>1. UNCHANGED <<bufSize, dbWait, fresh>>  BY <1>5, Zenon DEF ClientSend
  <2>2. UNCHANGED <<feedWanting, feedReady>>
    BY <1>1, <2>1, Zenon DEF feedWanting, feedReady
  <2>3. feedSeen' = [feedSeen EXCEPT ![c] = <<>>]
    BY <1>2, <1>5, Zenon DEF ClientSend, AfterSend, Forget, feedSeen
  <2>4. Feed!Drop(c)  BY <2>1, <2>2, <2>3, Zenon DEF Feed!Drop
  <2> QED  BY <2>4, Zenon DEF Feed!FeedNext
<1>6. CASE ~ClientWait(c) /\ ~ClientCopy(c) /\ ~ClientSend(c)
  <2>1. UNCHANGED <<bufSize, dbWait, fresh>>
    BY <1>6, Zenon DEF ClientNext, Talk, Serve, ClientRequest, ClientLockOut,
         ClientInc, ClientDec, StreamHeader, StreamLoop, ClientReadSize,
         ClientNoMemory, TakeReadSize, TakeCopy, TakeWrite, TakeFails
  <2>2. /\ cliPc[c] # "send" /\ cliPc'[c] # "send"
        /\ \A d \in Clients : d # c => cliPc'[d] = cliPc[d] /\ copy'[d] = copy[d]
    <3> USE <1>2
    <3>1. CASE ClientRequest(c)  BY <3>1, Zenon DEF ClientRequest
    <3>2. CASE ClientLockOut(c) \/ ClientInc(c) \/ ClientDec(c)
      BY <3>2, Zenon DEF ClientLockOut, ClientInc, ClientDec
    <3>3. CASE StreamHeader(c) \/ StreamLoop(c)
      BY <3>3, Zenon DEF StreamHeader, StreamLoop
    <3>4. CASE ClientReadSize(c)  BY <3>4, Zenon DEF ClientReadSize
    <3>5. CASE ClientNoMemory(c)
      BY <3>5, Zenon DEF ClientNoMemory, AfterSend, Forget
    <3>6. CASE TakeReadSize(c)  BY <3>6, Zenon DEF TakeReadSize
    <3>7. CASE TakeCopy(c) \/ TakeWrite(c) \/ TakeFails(c)
      BY <3>7, ZenonT(30) DEF TakeCopy, TakeWrite, TakeFails, Forget
    <3> QED
      BY <1>6, <3>1, <3>2, <3>3, <3>4, <3>5, <3>6, <3>7, ZenonT(30)
      DEF ClientNext, Talk, Serve
  <2>3. feedSeen' = feedSeen  BY <2>2, Zenon DEF feedSeen
  <2> QED  BY <1>1, <2>1, <2>3, FeedUnchanged, Zenon
<1> QED  BY <1>3, <1>4, <1>5, <1>6, Zenon

(* Streamer implements PictureFeed: what send_snapshot and send_stream     *)
(* hand out is a whole picture, the latest one, published after the client *)
(* began to wait.                                                          *)
THEOREM ImplementsFeed ==
    ASSUME SpuriousWakeups = FALSE, Signals = FALSE
    PROVE  Spec => FeedRefinement
<1>1. Init => Feed!FeedInit
  BY ZenonT(30) DEF Init, ExchangeInit, CamInit, CliInit, Feed!FeedInit, feedWanting,
         feedReady, feedSeen, Publishing
<1>2. IInv /\ [Next]_vars => [Feed!FeedNext]_(Feed!feedVars)
  <2>1. ASSUME IInv, UNCHANGED vars  PROVE UNCHANGED Feed!feedVars
    BY <2>1, ZenonT(30) DEF vars, exchangeVars, picture, dbVars, camVars, cliVars,
         Feed!feedVars, feedWanting, feedReady, feedSeen, Publishing
  <2>2. IInv => ~MainStep /\ ~WakeupStep
    BY Zenon DEF IInv, NoShutdown, MainStep, MainNext, SignalHandler, StopInputs,
           StopOutputs, Exit, WakeupStep, SpuriousWakeup
  <2>3. ASSUME IInv, Running  PROVE [Feed!FeedNext]_(Feed!feedVars)
    BY <2>2, <2>3, FeedCam, FeedFile, FeedClient, Zenon DEF Running
  <2> QED  BY <2>1, <2>3, Zenon DEF Next, Terminated
<1> QED  BY <1>1, <1>2, Invariance, PTL DEF Spec, FeedRefinement, Feed!FeedSpec
=============================================================================
