---------------------------- MODULE StreamerProofs ----------------------------
(***************************************************************************)
(* Proofs, for any number of clients and pictures and every option and     *)
(* fault, that the threads of Streamer keep their types and the part of    *)
(* IInv that does not count outputs.                                       *)
(***************************************************************************)
EXTENDS StreamerInv, TLAPS

USE DistinctThreads, DistinctFrames, Environment, CameraOptions, FileOptions,
    KnownRequests

(* A step of cam_thread keeps every variable in its type.                  *)
LEMMA TypeCam ==
    ASSUME TypeOK, CamStep
    PROVE  TypeOK'
<1> USE DEF TypeOK, ExchangeTypeOK, CamTypeOK, FileTypeOK, CliTypeOK, Threads,
            CamStep, exchangeVars, picture, outVars, dbVars, runVars, camVars,
            fileVars, cliVars
<1>1. CASE CamLoop  BY <1>1 DEF CamLoop, CamPcs
<1>2. CASE CamLockOut  BY <1>2 DEF CamLockOut, LockOut, CamPcs
<1>3. CASE CamCheckOuts
  BY <1>3 DEF CamCheckOuts, uvcStopGrab, UnlockOut, CamPcs
<1>4. CASE CamPark  BY <1>4 DEF CamPark, UnlockOut, CamPcs
<1>5. CASE CamUnpark  BY <1>5 DEF CamUnpark, CamPcs
<1>6. CASE CamCancelled  BY <1>6 DEF CamCancelled, LockOut, CamPcs
<1>7. CASE CamGrab  BY <1>7 DEF CamGrab, CamPcs
<1>8. CASE CamGrabFails  BY <1>8 DEF CamGrabFails
<1>9. CASE CamDrop  BY <1>9 DEF CamDrop, CamPcs
<1>10. CASE CamKeep  BY <1>10 DEF CamKeep, CamPcs
<1>11. CASE CamCopy  BY <1>11 DEF CamCopy, memcpy_picture, LockDb, CamPcs
<1>12. CASE CamStamp  BY <1>12 DEF CamStamp, CamPcs
<1>13. CASE CamPublish
  BY <1>13 DEF CamPublish, BroadcastFrame, UnlockDb, CamPcs
<1>14. CASE CamCleanup  BY <1>14 DEF CamCleanup, uvcStopGrab, CamPcs
<1> QED
  BY <1>1, <1>2, <1>3, <1>4, <1>5, <1>6, <1>7, <1>8, <1>9, <1>10, <1>11, ZenonT(30),
     <1>12, <1>13, <1>14 DEF CamNext

(* A step of the output_file worker keeps every variable in its type.      *)
LEMMA TypeFile ==
    ASSUME TypeOK, FileStep
    PROVE  TypeOK'
<1> USE DEF TypeOK, ExchangeTypeOK, CamTypeOK, FileTypeOK, CliTypeOK, Threads,
            FileStep, exchangeVars, picture, outVars, dbVars, runVars, camVars,
            fileVars, cliVars
<1>1. CASE FileStart  BY <1>1 DEF FileStart, FilePcs
<1>2. CASE FileLoop  BY <1>2 DEF FileLoop, FilePcs
<1>3. CASE FileLockOut  BY <1>3 DEF FileLockOut, LockOut, FilePcs
<1>4. CASE ouput_inc  BY <1>4 DEF ouput_inc, IncOuts, UnlockOut, FilePcs
<1>5. CASE ouput_dec  BY <1>5 DEF ouput_dec, DecOuts, UnlockOut, FilePcs
<1>6. CASE FileWait  BY <1>6 DEF FileWait, WaitForFrame, FilePcs
<1>7. CASE FileReadSize
  BY <1>7 DEF FileReadSize, ReturnFromFrameWait, LockDb, FilePcs
<1>8. CASE FileCopy  BY <1>8 DEF FileCopy, CopyToFrame, UnlockDb, FilePcs
<1>9. CASE FileNoMemory  BY <1>9 DEF FileNoMemory, UnlockDb, FilePcs
<1>10. CASE FileWrite
  BY <1>10 DEF FileWrite, WrittenFile, FileContents, FilePcs
<1>11. CASE FileWriteFails  BY <1>11 DEF FileWriteFails, FilePcs
<1>12. CASE FileSleep  BY <1>12 DEF FileSleep, EmptyFile, FileContents, FilePcs
<1>13. CASE FileCancelled  BY <1>13 DEF FileCancelled, LockDb, FilePcs
<1>14. CASE FileCleanup  BY <1>14 DEF FileCleanup, FilePcs
<1> QED
  BY <1>1, <1>2, <1>3, <1>4, <1>5, <1>6, <1>7, <1>8, <1>9, <1>10, <1>11, ZenonT(30),
     <1>12, <1>13, <1>14 DEF FileNext

(* The empty values have their types.                                      *)
LEMMA EmptyValues ==
    /\ EmptyFile \in FileContents
    /\ NoCopy \in Copies
    /\ NothingSaved \in [done : BOOLEAN, file : FileContents]
BY Zenon DEF EmptyFile, FileContents, NoCopy, Copies, NothingSaved

(* Storing frame_size keeps a client's copy a copy.                        *)
LEMMA SizeUpdate ==
    ASSUME NEW k \in Copies, NEW s \in Frames \cup {NoFrame}
    PROVE  /\ [k EXCEPT !.size = s] \in Copies
           /\ [k EXCEPT !.size = s].size = s
BY Zenon DEF Copies

(* Storing the timestamp and the bytes keeps a client's copy a copy.       *)
LEMMA BytesUpdate ==
    ASSUME NEW k \in Copies, NEW t \in Frames \cup {NoFrame},
           NEW d \in Frames \cup {NoFrame, Freed}
    PROVE  [k EXCEPT !.ts = t, !.data = d] \in Copies
BY Zenon DEF Copies

(* A step of a client thread keeps every variable in its type.             *)
LEMMA TypeClient ==
    ASSUME TypeOK, NEW c \in Clients, ClientStep(c)
    PROVE  TypeOK'
<1> USE DEF TypeOK, ExchangeTypeOK, CamTypeOK, FileTypeOK, CliTypeOK, Threads,
            ClientStep, exchangeVars, picture, outVars, dbVars, runVars, camVars,
            fileVars, Goto
<1>1. CASE ClientRequest(c)
  <2>1. PICK k \in Requests :
            /\ kind' = [kind EXCEPT ![c] = k]
            /\ Goto(c, "inc_lock") \/ Goto(c, "take_lock") \/ Goto(c, "wait")
    BY <1>1, Zenon DEF ClientRequest
  <2>2. kind' \in [Clients -> {"none", "snapshot", "stream", "take"}]
    BY <2>1, Zenon
  <2>3. cliPc' \in [Clients -> CliPcs]
    BY <2>1, Zenon DEF CliPcs
  <2> QED  BY <1>1, <2>2, <2>3 DEF ClientRequest
<1>2. CASE ClientLockOut(c)  BY <1>2 DEF ClientLockOut, LockOut, CliPcs
<1>3. CASE ClientInc(c)  BY <1>3 DEF ClientInc, IncOuts, UnlockOut, CliPcs
<1>4. CASE ClientDec(c)
  BY <1>4, EmptyValues DEF ClientDec, DecOuts, UnlockOut, EndRequest, CliPcs
<1>5. CASE StreamHeader(c)  BY <1>5 DEF StreamHeader, CliPcs
<1>6. CASE StreamLoop(c)  BY <1>6 DEF StreamLoop, CliPcs
<1>7. CASE ClientWait(c)  BY <1>7 DEF ClientWait, WaitForFrame, CliPcs
<1>8. CASE ClientReadSize(c)
  <2>1. [copy[c] EXCEPT !.size = bufSize] \in Copies  BY SizeUpdate
  <2>2. copy' \in [Clients -> Copies]  BY <1>8, <2>1, Zenon DEF ClientReadSize
  <2> QED
    BY <1>8, <2>2 DEF ClientReadSize, ReturnFromFrameWait, LockDb, CliPcs
<1>9. CASE ClientCopy(c)
  <2> DEFINE data == IF copy[c].size = NoFrame THEN NoFrame ELSE bufData
  <2>1. data \in Frames \cup {NoFrame, Freed} /\ copy[c] \in Copies
    BY Zenon
  <2>2. copy' = [copy EXCEPT ![c] = [copy[c] EXCEPT !.ts = bufTs, !.data = data]]
    BY <1>9, ZenonT(30) DEF ClientCopy
  <2> HIDE DEF data
  <2>3. [copy[c] EXCEPT !.ts = bufTs, !.data = data] \in Copies
    BY <2>1, BytesUpdate, ZenonT(30)
  <2>4. copy' \in [Clients -> Copies]  BY <2>2, <2>3, Zenon
  <2> QED  BY <1>9, <2>4 DEF ClientCopy, UnlockDb, CliPcs
<1>10. CASE ClientNoMemory(c)
  <2>1. cliPc' \in [Clients -> CliPcs]
    BY <1>10, Zenon DEF ClientNoMemory, AfterSend, CliPcs
  <2>2. /\ kind' \in [Clients -> {"none", "snapshot", "stream", "take"}]
        /\ saved' \in [Clients -> [done : BOOLEAN, file : FileContents]]
    BY <1>10, EmptyValues DEF ClientNoMemory, EndRequest
  <2> QED
    BY <1>10, <2>1, <2>2, EmptyValues DEF ClientNoMemory, UnlockDb, Forget
<1>11. CASE ClientSend(c)
  BY <1>11, EmptyValues DEF ClientSend, AfterSend, Forget, EndRequest, CliPcs
<1>12. CASE TakeReadSize(c)
  <2>1. [copy[c] EXCEPT !.size = bufSize] \in Copies  BY SizeUpdate
  <2>2. copy' \in [Clients -> Copies]  BY <1>12, <2>1, Zenon DEF TakeReadSize
  <2> QED  BY <1>12, <2>2 DEF TakeReadSize, LockDb, CliPcs
<1>13. CASE TakeCopy(c)  BY <1>13 DEF TakeCopy, CopyToFrame, UnlockDb, CliPcs
<1>14. CASE TakeWrite(c)
  <2>1. WrittenFile(copy[c].size) \in FileContents
    BY Zenon DEF WrittenFile, FileContents, Copies
  <2> QED  BY <1>14, <2>1, EmptyValues DEF TakeWrite, Forget, CliPcs
<1>15. CASE TakeFails(c)
  BY <1>15, EmptyValues DEF TakeFails, UnlockDb, Forget, EndRequest, CliPcs
<1> QED
  BY <1>1, <1>2, <1>3, <1>4, <1>5, <1>6, <1>7, <1>8, <1>9, <1>10, <1>11, ZenonT(30),
     <1>12, <1>13, <1>14, <1>15 DEF ClientNext, Talk, Serve

(* A step of the main thread, or a spurious wakeup, keeps every variable   *)
(* in its type.                                                            *)
LEMMA TypeOther ==
    ASSUME TypeOK, MainStep \/ WakeupStep
    PROVE  TypeOK'
<1> USE DEF TypeOK, ExchangeTypeOK, CamTypeOK, FileTypeOK, CliTypeOK, Threads,
            MainStep, WakeupStep, picture, outVars, dbVars, runVars,
            camVars, fileVars, cliVars
<1>1. CASE MainStep
  <2>1. CASE SignalHandler  BY <1>1, <2>1 DEF SignalHandler
  <2>2. CASE StopInputs  BY <1>1, <2>2 DEF StopInputs
  <2>3. CASE StopOutputs  BY <1>1, <2>3 DEF StopOutputs
  <2>4. CASE Exit  BY <1>1, <2>4 DEF Exit
  <2> QED  BY <1>1, <2>1, <2>2, <2>3, <2>4, Zenon DEF MainNext
<1>2. CASE WakeupStep  BY <1>2 DEF SpuriousWakeup
<1> QED  BY <1>1, <1>2, Zenon

(* The initial state has its types.                                        *)
LEMMA InitTypeOK == Init => TypeOK
  <1> SUFFICES ASSUME Init PROVE TypeOK  BY Zenon
  <1>1. ExchangeTypeOK  BY ZenonT(30) DEF Init, ExchangeInit, ExchangeTypeOK, Threads
  <1>2. CamTypeOK  BY DEF Init, CamInit, CamTypeOK, CamPcs
  <1>3. FileTypeOK
    BY EmptyValues, Zenon DEF Init, FileInit, FileTypeOK, FilePcs
  <1>4. CliTypeOK  BY EmptyValues, Zenon DEF Init, CliInit, CliTypeOK, CliPcs
  <1> QED  BY <1>1, <1>2, <1>3, <1>4, Zenon DEF TypeOK, Init

(* Every variable of the composed program stays in its type.               *)
THEOREM TypeCorrect == Spec => []TypeOK
<1>1. Init => TypeOK  BY InitTypeOK, Zenon
<1>2. TypeOK /\ [Next]_vars => TypeOK'
  <2>1. ASSUME TypeOK, UNCHANGED vars  PROVE TypeOK'
    BY <2>1 DEF vars, exchangeVars, picture, outVars, dbVars, runVars, camVars,
                fileVars, cliVars, TypeOK, ExchangeTypeOK, CamTypeOK,
                FileTypeOK, CliTypeOK
  <2>2. ASSUME TypeOK, Running  PROVE TypeOK'
    BY <2>2, TypeCam, TypeFile, TypeClient, TypeOther, Zenon DEF Running
  <2> QED  BY <2>1, <2>2, Zenon DEF Next, Terminated
<1> QED  BY <1>1, <1>2, PTL DEF Spec

-----------------------------------------------------------------------------
(* A step of cam_thread keeps the mutexes with the threads in their        *)
(* critical sections.                                                      *)
LEMMA LocksCam ==
    ASSUME IInv, CamStep
    PROVE  DbHeld' /\ OutHeld'
<1> USE DEF IInv, DbHeld, OutHeld, CamStep, Threads, exchangeVars, picture,
            outVars, dbVars, runVars, camVars, fileVars, cliVars
<1>1. CASE CamLoop  BY <1>1, Zenon DEF CamLoop
<1>2. CASE CamLockOut  BY <1>2, Zenon DEF CamLockOut, LockOut
<1>3. CASE CamCheckOuts  BY <1>3, Zenon DEF CamCheckOuts, UnlockOut
<1>4. CASE CamPark  BY <1>4, Zenon DEF CamPark, UnlockOut
<1>5. CASE CamUnpark  BY <1>5, Zenon DEF CamUnpark
<1>6. CASE CamCancelled  BY <1>6, Zenon DEF CamCancelled, LockOut
<1>7. CASE CamGrab  BY <1>7, Zenon DEF CamGrab
<1>8. CASE CamGrabFails  BY <1>8, Zenon DEF CamGrabFails
<1>9. CASE CamDrop  BY <1>9, Zenon DEF CamDrop
<1>10. CASE CamKeep  BY <1>10, Zenon DEF CamKeep
<1>11. CASE CamCopy  BY <1>11, Zenon DEF CamCopy, LockDb
<1>12. CASE CamStamp  BY <1>12, Zenon DEF CamStamp
<1>13. CASE CamPublish  BY <1>13, Zenon DEF CamPublish, UnlockDb
<1>14. CASE CamCleanup  BY <1>14, Zenon DEF CamCleanup
<1> QED
  BY <1>1, <1>2, <1>3, <1>4, <1>5, <1>6, <1>7, <1>8, <1>9, <1>10, <1>11,
     <1>12, <1>13, <1>14, Zenon DEF CamNext

(* A step of the output_file worker keeps the mutexes with the threads in  *)
(* their critical sections.                                                *)
LEMMA LocksFile ==
    ASSUME IInv, FileStep
    PROVE  DbHeld' /\ OutHeld'
<1> USE DEF IInv, DbHeld, OutHeld, FileStep, Threads, exchangeVars, picture,
            outVars, dbVars, runVars, camVars, fileVars, cliVars
<1>1. CASE FileStart \/ FileLoop  BY <1>1, Zenon DEF FileStart, FileLoop
<1>2. CASE FileLockOut  BY <1>2, Zenon DEF FileLockOut, LockOut
<1>3. CASE ouput_inc \/ ouput_dec
  BY <1>3, Zenon DEF ouput_inc, ouput_dec, IncOuts, DecOuts, UnlockOut
<1>4. CASE FileWait  BY <1>4, Zenon DEF FileWait, WaitForFrame
<1>5. CASE FileReadSize
  BY <1>5, Zenon DEF FileReadSize, ReturnFromFrameWait, LockDb
<1>6. CASE FileCopy \/ FileNoMemory  BY <1>6, Zenon DEF FileCopy, FileNoMemory, UnlockDb
<1>7. CASE FileWrite \/ FileWriteFails \/ FileSleep \/ FileCleanup
  BY <1>7, Zenon DEF FileWrite, FileWriteFails, FileSleep, FileCleanup
<1>8. CASE FileCancelled  BY <1>8, ZenonT(30) DEF FileCancelled, LockDb
<1> QED
  BY <1>1, <1>2, <1>3, <1>4, <1>5, <1>6, <1>7, <1>8, Zenon DEF FileNext

(* A step of a client thread keeps the mutexes with the threads in their   *)
(* critical sections.                                                      *)
LEMMA LocksClient ==
    ASSUME IInv, NEW c \in Clients, ClientStep(c)
    PROVE  DbHeld' /\ OutHeld'
<1> USE DEF IInv, TypeOK, CliTypeOK, DbHeld, OutHeld, ClientStep, Threads,
            exchangeVars, picture, outVars, dbVars, runVars, camVars, fileVars,
            Goto
<1>1. CASE ClientRequest(c)  BY <1>1 DEF ClientRequest
<1>2. CASE ClientLockOut(c)  BY <1>2 DEF ClientLockOut, LockOut
<1>3. CASE ClientInc(c)  BY <1>3, Zenon DEF ClientInc, IncOuts, UnlockOut
<1>4. CASE ClientDec(c)  BY <1>4, Zenon DEF ClientDec, DecOuts, UnlockOut
<1>5. CASE StreamHeader(c)  BY <1>5, Zenon DEF StreamHeader
<1>6. CASE StreamLoop(c)  BY <1>6, Zenon DEF StreamLoop
<1>7. CASE ClientWait(c)  BY <1>7, Zenon DEF ClientWait, WaitForFrame
<1>8. CASE ClientReadSize(c)
  BY <1>8, Zenon DEF ClientReadSize, ReturnFromFrameWait, LockDb
<1>9. CASE ClientCopy(c)  BY <1>9, Zenon DEF ClientCopy, UnlockDb
<1>10. CASE ClientNoMemory(c)  BY <1>10, Zenon DEF ClientNoMemory, UnlockDb, AfterSend
<1>11. CASE ClientSend(c)  BY <1>11, Zenon DEF ClientSend, AfterSend
<1>12. CASE TakeReadSize(c)  BY <1>12, Zenon DEF TakeReadSize, LockDb
<1>13. CASE TakeCopy(c)  BY <1>13, Zenon DEF TakeCopy, UnlockDb
<1>14. CASE TakeWrite(c)  BY <1>14, ZenonT(30) DEF TakeWrite
<1>15. CASE TakeFails(c)  BY <1>15, Zenon DEF TakeFails, UnlockDb
<1> QED
  BY <1>1, <1>2, <1>3, <1>4, <1>5, <1>6, <1>7, <1>8, <1>9, <1>10, <1>11, ZenonT(30),
     <1>12, <1>13, <1>14, <1>15 DEF ClientNext, Talk, Serve

-----------------------------------------------------------------------------
(* A step of cam_thread keeps the buffer and the copies of it whole: it    *)
(* writes the buffer only while it owns in[i].db, so that no client is     *)
(* between reading the size and copying the bytes; cam_cleanup, which does *)
(* not own it, leaves the buffer freed.                                    *)
LEMMA WholeCam ==
    ASSUME IInv, CamStep
    PROVE  BufferWhole' /\ CopyCurrent' /\ NoMixedFrame'
<1> USE DEF IInv, DbHeld, BufferWhole, CopyCurrent, NoMixedFrame, CamStep,
            exchangeVars, picture, outVars, dbVars, runVars, camVars, fileVars,
            cliVars
<1>1. CASE CamCopy
  <2>1. \A c \in Clients : cliPc[c] # "copy"
    BY <1>1, Zenon DEF CamCopy, LockDb, Threads
  <2>2. BufferWhole'  BY <1>1, Zenon DEF CamCopy, memcpy_picture
  <2> QED  BY <1>1, <2>1, <2>2, ZenonT(30) DEF CamCopy
<1>2. CASE CamStamp  BY <1>2, Zenon DEF CamStamp
<1>3. CASE CamPublish  BY <1>3, Zenon DEF CamPublish
<1>4. CASE CamCleanup  BY <1>4, Zenon DEF CamCleanup
<1>5. CASE CamLoop \/ CamLockOut \/ CamCheckOuts \/ CamPark \/ CamUnpark
  BY <1>5, ZenonT(30) DEF CamLoop, CamLockOut, CamCheckOuts, CamPark, CamUnpark
<1>6. CASE CamCancelled \/ CamGrab \/ CamGrabFails \/ CamDrop \/ CamKeep
  BY <1>6, Zenon DEF CamCancelled, CamGrab, CamGrabFails, CamDrop, CamKeep
<1> QED  BY <1>1, <1>2, <1>3, <1>4, <1>5, <1>6, ZenonT(30) DEF CamNext

(* The output_file worker never writes the picture buffer.                 *)
LEMMA WholeFile ==
    ASSUME IInv, FileStep
    PROVE  BufferWhole' /\ CopyCurrent' /\ NoMixedFrame'
<1>1. UNCHANGED <<picture, camVars, cliVars>>
  BY Zenon DEF FileStep, FileNext, FileStart, FileLoop, FileLockOut, ouput_inc,
         ouput_dec, FileWait, FileReadSize, FileCopy, FileNoMemory, FileWrite,
         FileWriteFails, FileSleep, FileCancelled, FileCleanup, exchangeVars
<1> QED
  BY <1>1, Zenon DEF IInv, BufferWhole, CopyCurrent, NoMixedFrame, picture, camVars,
              cliVars

(* A step of a client thread keeps the copies whole: it copies bytes and   *)
(* timestamp while it owns in[i].db, the size it read before is still the  *)
(* one in the buffer, and cam_thread is not between its stores.            *)
LEMMA WholeClient ==
    ASSUME IInv, NEW c \in Clients, ClientStep(c)
    PROVE  BufferWhole' /\ CopyCurrent' /\ NoMixedFrame'
<1>0. /\ ExchangeTypeOK /\ DbHeld
      /\ cliPc \in [Clients -> CliPcs] /\ copy \in [Clients -> Copies]
      /\ BufferWhole /\ CopyCurrent /\ NoMixedFrame
  BY Zenon DEF IInv, TypeOK, CliTypeOK
<1> USE <1>0 DEF BufferWhole, CopyCurrent, NoMixedFrame, ClientStep,
                 exchangeVars, picture, camVars, Goto
<1>1. CASE ClientRequest(c)  BY <1>1, ZenonT(30) DEF ClientRequest
<1>13. CASE ClientLockOut(c)  BY <1>13, ZenonT(30) DEF ClientLockOut
<1>2. CASE ClientInc(c) \/ ClientDec(c)
  BY <1>2, ZenonT(30) DEF ClientInc, ClientDec
<1>11. CASE StreamHeader(c) \/ StreamLoop(c)
  BY <1>11, ZenonT(30) DEF StreamHeader, StreamLoop
<1>12. CASE ClientWait(c)  BY <1>12, ZenonT(30) DEF ClientWait
<1>3. CASE ClientReadSize(c)
  <2>1. copy' = [copy EXCEPT ![c] = [copy[c] EXCEPT !.size = bufSize]]
    BY <1>3, Zenon DEF ClientReadSize
  <2>2. copy'[c].size = bufSize
    BY <2>1, SizeUpdate, Zenon DEF ExchangeTypeOK
  <2> QED  BY <1>3, <2>1, <2>2, Zenon DEF ClientReadSize
<1>4. CASE ClientCopy(c)
  <2> DEFINE data == IF copy[c].size = NoFrame THEN NoFrame ELSE bufData
  <2>1. copy' = [copy EXCEPT ![c] = [copy[c] EXCEPT !.ts = bufTs, !.data = data]]
    BY <1>4, Zenon DEF ClientCopy
  <2>2. data \in Frames \cup {NoFrame, Freed} /\ copy[c] \in Copies
    BY ZenonT(30) DEF ExchangeTypeOK
  <2>3. db = c /\ camPc # "stamp"
    BY <1>4, Zenon DEF ClientCopy, DbHeld
  <2>4. ASSUME copy[c].size # NoFrame, data # Freed
        PROVE  data = copy[c].size /\ bufTs = copy[c].size
    BY <1>4, <2>3, <2>4, Zenon DEF ClientCopy
  <2> HIDE DEF data
  <2>5. /\ copy'[c].size = copy[c].size
        /\ copy'[c].ts = bufTs /\ copy'[c].data = data
    <3>1. bufTs \in Frames \cup {NoFrame}  BY Zenon DEF ExchangeTypeOK
    <3> DEFINE k == [copy[c] EXCEPT !.ts = bufTs, !.data = data]
    <3>2. k.size = copy[c].size /\ k.ts = bufTs /\ k.data = data
      BY ONLY <2>2, <3>1, Zenon DEF Copies
    <3>3. copy'[c] = k  BY <2>1, Zenon
    <3> QED  BY <3>2, <3>3, Zenon
  <2>6. \A d \in Clients : d # c => copy'[d] = copy[d] /\ cliPc'[d] = cliPc[d]
    BY <1>4, <2>1, Zenon DEF ClientCopy
  <2>7. cliPc'[c] = "send" /\ UNCHANGED <<picture, camVars>>
    BY <1>4, Zenon DEF ClientCopy
  <2> QED  BY <2>4, <2>5, <2>6, <2>7, ZenonT(30)
<1>5. CASE ClientNoMemory(c)
  <2>1. cliPc'[c] \notin {"copy", "send"} /\ UNCHANGED <<picture, camVars>>
    BY <1>5, ZenonT(30) DEF ClientNoMemory, AfterSend
  <2>2. \A d \in Clients : d # c => copy'[d] = copy[d] /\ cliPc'[d] = cliPc[d]
    BY <1>5, ZenonT(30) DEF ClientNoMemory, Forget
  <2> QED  BY <2>1, <2>2, ZenonT(30)
<1>6. CASE ClientSend(c)
  <2>1. cliPc'[c] \notin {"copy", "send"} /\ UNCHANGED <<picture, camVars>>
    BY <1>6, ZenonT(30) DEF ClientSend, AfterSend
  <2>2. \A d \in Clients : d # c => copy'[d] = copy[d] /\ cliPc'[d] = cliPc[d]
    BY <1>6, ZenonT(30) DEF ClientSend, Forget
  <2> QED  BY <2>1, <2>2, Zenon
<1>7. CASE TakeReadSize(c)  BY <1>7, Zenon DEF TakeReadSize
<1>8. CASE TakeCopy(c)  BY <1>8, ZenonT(30) DEF TakeCopy
<1>9. CASE TakeWrite(c)
  <2>1. cliPc'[c] \notin {"copy", "send"} /\ UNCHANGED <<picture, camVars>>
    BY <1>9, ZenonT(30) DEF TakeWrite
  <2>2. \A d \in Clients : d # c => copy'[d] = copy[d] /\ cliPc'[d] = cliPc[d]
    BY <1>9, Zenon DEF TakeWrite, Forget
  <2> QED  BY <2>1, <2>2, Zenon
<1>10. CASE TakeFails(c)  BY <1>10, ZenonT(30) DEF TakeFails, Forget
<1> QED
  BY <1>1, <1>2, <1>3, <1>4, <1>5, <1>6, <1>7, <1>8, <1>9, <1>10, <1>11, ZenonT(30),
     <1>12, <1>13 DEF ClientNext, Talk, Serve

-----------------------------------------------------------------------------
(* A step of cam_thread keeps the rest of IInv but the count of outputs:   *)
(* it goes to sleep only when it has found num_outs to be 0 and has owned  *)
(* in[i].out ever since.                                                   *)
LEMMA WaitsCam ==
    ASSUME IInv, CamStep
    PROVE  /\ DecMatchesInc' /\ AsleepUncounted' /\ ReleasedByPublication'
           /\ NoShutdown'
<1>0. DecMatchesInc /\ AsleepUncounted /\ ReleasedByPublication /\ NoShutdown
  BY Zenon DEF IInv
<1> USE <1>0 DEF DecMatchesInc, AsleepUncounted, ReleasedByPublication,
                 NoShutdown, CamStep, exchangeVars, picture, outVars, dbVars,
                 runVars, camVars, fileVars, cliVars
<1>1. CASE CamLoop  BY <1>1, ZenonT(30) DEF CamLoop
<1>2. CASE CamLockOut  BY <1>2, Zenon DEF CamLockOut
<1>3. CASE CamCheckOuts  BY <1>3, Zenon DEF CamCheckOuts
<1>4. CASE CamPark  BY <1>4, Zenon DEF CamPark
<1>5. CASE CamUnpark  BY <1>5, Zenon DEF CamUnpark
<1>6. CASE CamCancelled  BY <1>6, Zenon DEF CamCancelled
<1>7. CASE CamGrab  BY <1>7, Zenon DEF CamGrab
<1>13. CASE CamGrabFails  BY <1>13, Zenon DEF CamGrabFails
<1>8. CASE CamDrop  BY <1>8, Zenon DEF CamDrop
<1>14. CASE CamKeep  BY <1>14, Zenon DEF CamKeep
<1>9. CASE CamCopy
  BY <1>9, Zenon DEF CamCopy, memcpy_picture, IInv, TypeOK, CamTypeOK
<1>10. CASE CamStamp  BY <1>10, ZenonT(30) DEF CamStamp
<1>11. CASE CamPublish  BY <1>11, ZenonT(30) DEF CamPublish, BroadcastFrame
<1>12. CASE CamCleanup  BY <1>12, Zenon DEF CamCleanup
<1> QED
  BY <1>1, <1>2, <1>3, <1>4, <1>5, <1>6, <1>7, <1>8, <1>9, <1>10, <1>11, ZenonT(30),
     <1>12, <1>13, <1>14 DEF CamNext

(* A step of the output_file worker keeps them: ouput_inc empties the wait *)
(* set of out_update when it makes num_outs positive.                      *)
LEMMA WaitsFile ==
    ASSUME IInv, FileStep
    PROVE  /\ DecMatchesInc' /\ AsleepUncounted' /\ ReleasedByPublication'
           /\ NoShutdown'
<1> USE DEF FileStep, exchangeVars, picture, outVars, dbVars, runVars
<1>1. UNCHANGED <<picture, runVars, camVars, cliVars, mainPc>>
  BY ZenonT(30) DEF FileNext, FileStart, FileLoop, FileLockOut, ouput_inc, ouput_dec,
         FileWait, FileReadSize, FileCopy, FileNoMemory, FileWrite,
         FileWriteFails, FileSleep, FileCancelled, FileCleanup
<1>2. filePc' \in {"dec_lock", "dec"} => LongDelay
  <2>1. filePc \in {"dec_lock", "dec"} => LongDelay
    BY Zenon DEF IInv, DecMatchesInc
  <2> QED
    BY <2>1, ZenonT(30) DEF FileNext, FileStart, FileLoop, FileLockOut, ouput_inc,
         ouput_dec, FileWait, FileReadSize, FileCopy, FileNoMemory, FileWrite,
         FileWriteFails, FileSleep, FileCancelled, FileCleanup
<1>3. AsleepUncounted'
  <2>1. /\ num_outs \in Nat /\ AsleepUncounted
        /\ camPc = "park" => filePc # "inc"
    BY Zenon DEF IInv, TypeOK, ExchangeTypeOK, OutHeld, Threads
  <2> USE <1>1, <2>1 DEF AsleepUncounted, camVars
  <2>2. CASE ouput_inc  BY <2>2 DEF ouput_inc, IncOuts
  <2>3. CASE ouput_dec  BY <2>3 DEF ouput_dec, DecOuts
  <2>4. CASE ~ouput_inc /\ ~ouput_dec
    <3>1. UNCHANGED <<num_outs, outWait>>
      BY <2>4, ZenonT(30) DEF FileNext, FileStart, FileLoop, FileLockOut, FileWait,
           FileReadSize, FileCopy, FileNoMemory, FileWrite, FileWriteFails,
           FileSleep, FileCancelled, FileCleanup
    <3> QED  BY <3>1, Zenon
  <2> QED  BY <2>2, <2>3, <2>4, Zenon
<1>4. \A c \in Clients : /\ c \in dbWait' <=> c \in dbWait
                         /\ c \in fresh' <=> c \in fresh
  BY ZenonT(30) DEF FileNext, FileStart, FileLoop, FileLockOut, ouput_inc, ouput_dec,
         FileWait, WaitForFrame, FileReadSize, FileCopy, FileNoMemory,
         FileWrite, FileWriteFails, FileSleep, FileCancelled, FileCleanup
<1>5. ReleasedByPublication'
  BY <1>1, <1>4, Zenon DEF IInv, ReleasedByPublication, cliVars
<1> QED
  BY <1>1, <1>2, <1>3, <1>5, Zenon DEF IInv, DecMatchesInc, NoShutdown, camVars, cliVars

(* A step of a client thread keeps them: the same, for the critical        *)
(* sections in client_thread.                                              *)
LEMMA WaitsClient ==
    ASSUME IInv, NEW c \in Clients, ClientStep(c)
    PROVE  /\ DecMatchesInc' /\ AsleepUncounted' /\ ReleasedByPublication'
           /\ NoShutdown'
<1> USE DEF ClientStep, exchangeVars, picture, outVars, dbVars, runVars,
            fileVars, Goto
<1>0. /\ cliPc \in [Clients -> CliPcs]
      /\ kind \in [Clients -> {"none", "snapshot", "stream", "take"}]
      /\ num_outs \in Nat
      /\ DecMatchesInc /\ AsleepUncounted /\ ReleasedByPublication
      /\ camPc = "park" => cliPc[c] # "inc"
  BY Zenon DEF IInv, TypeOK, CliTypeOK, ExchangeTypeOK, OutHeld, Threads
<1>1. UNCHANGED <<picture, runVars, filePc, camVars, mainPc>>
  <2>1. CASE Talk(c)  BY <2>1, Zenon DEF Talk, ClientRequest, StreamHeader, ClientSend
  <2>2. CASE Serve(c)
    BY <2>2, Zenon DEF Serve, ClientLockOut, ClientInc, ClientDec, StreamLoop,
         ClientWait, ClientReadSize, ClientCopy, ClientNoMemory, TakeReadSize,
         TakeCopy, TakeWrite, TakeFails
  <2> QED  BY <2>1, <2>2, Zenon DEF ClientNext
<1>2. AsleepUncounted'
  <2> USE <1>0, <1>1 DEF AsleepUncounted, camVars
  <2>1. CASE ClientInc(c)  BY <2>1 DEF ClientInc, IncOuts
  <2>2. CASE ClientDec(c)  BY <2>2 DEF ClientDec, DecOuts
  <2>3. CASE ~ClientInc(c) /\ ~ClientDec(c)
    <3>1. UNCHANGED <<num_outs, outWait>>
      <4>1. CASE Talk(c)
        BY <4>1, Zenon DEF Talk, ClientRequest, StreamHeader, ClientSend
      <4>2. CASE Serve(c)
        BY <2>3, <4>2, Zenon DEF Serve, ClientLockOut, StreamLoop, ClientWait,
             ClientReadSize, ClientCopy, ClientNoMemory, TakeReadSize,
             TakeCopy, TakeWrite, TakeFails
      <4> QED  BY <4>1, <4>2, Zenon DEF ClientNext
    <3> QED  BY <3>1, Zenon
  <2> QED  BY <2>1, <2>2, <2>3, Zenon
<1> DEFINE Matched(pc, k) ==
               /\ pc \in {"inc_lock", "inc", "header", "loop", "dec_lock", "dec"}
                  => k # "take"
               /\ pc \in {"take_lock", "take_copy", "take_write"} => k = "take"
           Told(pc, waits, told) ==
               /\ pc = "waiting" => waits \/ told
               /\ pc \in {"copy", "send"} => told
<1>3. \A d \in Clients : d # c =>
          /\ cliPc'[d] = cliPc[d] /\ kind'[d] = kind[d]
          /\ d \in dbWait' <=> d \in dbWait
          /\ d \in fresh' <=> d \in fresh
  <2> USE <1>0
  <2>1. CASE Talk(c)
    BY <2>1, Zenon DEF Talk, ClientRequest, StreamHeader, ClientSend, EndRequest
  <2>2. CASE Serve(c)
    <3>1. CASE ClientLockOut(c) \/ ClientInc(c) \/ StreamLoop(c)
      BY <3>1, Zenon DEF ClientLockOut, ClientInc, StreamLoop
    <3>2. CASE ClientDec(c)  BY <3>2, Zenon DEF ClientDec, EndRequest
    <3>3. CASE ClientWait(c)  BY <3>3, Zenon DEF ClientWait, WaitForFrame
    <3>4. CASE ClientReadSize(c) \/ ClientCopy(c)
      BY <3>4, Zenon DEF ClientReadSize, ClientCopy
    <3>5. CASE ClientNoMemory(c)  BY <3>5, Zenon DEF ClientNoMemory, EndRequest
    <3>6. CASE TakeReadSize(c) \/ TakeCopy(c) \/ TakeWrite(c)
      BY <3>6, Zenon DEF TakeReadSize, TakeCopy, TakeWrite
    <3>7. CASE TakeFails(c)  BY <3>7, Zenon DEF TakeFails, EndRequest
    <3> QED  BY <2>2, <3>1, <3>2, <3>3, <3>4, <3>5, <3>6, <3>7, ZenonT(30) DEF Serve
  <2> QED  BY <2>1, <2>2, ZenonT(30) DEF ClientNext
<1>4. /\ Matched(cliPc'[c], kind'[c])
      /\ ~SpuriousWakeups => Told(cliPc'[c], c \in dbWait', c \in fresh')
  <2>1. /\ Matched(cliPc[c], kind[c])
        /\ ~SpuriousWakeups => Told(cliPc[c], c \in dbWait, c \in fresh)
    BY <1>0, Zenon DEF DecMatchesInc, ReleasedByPublication
  <2> USE <1>0, <2>1
  <2>2. CASE ClientRequest(c)  BY <2>2, Zenon DEF ClientRequest
  <2>3. CASE ClientLockOut(c) \/ ClientInc(c) \/ StreamLoop(c)
    BY <2>3, ZenonT(30) DEF ClientLockOut, ClientInc, StreamLoop
  <2>4. CASE ClientDec(c)  BY <2>4, Zenon DEF ClientDec
  <2>5. CASE StreamHeader(c)  BY <2>5, Zenon DEF StreamHeader
  <2>6. CASE ClientWait(c)  BY <2>6, Zenon DEF ClientWait, WaitForFrame
  <2>7. CASE ClientReadSize(c)  BY <2>7, Zenon DEF ClientReadSize, ReturnFromFrameWait
  <2>8. CASE ClientCopy(c)  BY <2>8, Zenon DEF ClientCopy
  <2>9. CASE ClientNoMemory(c)
    BY <2>9, Zenon DEF ClientNoMemory, AfterSend, EndRequest
  <2>10. CASE ClientSend(c)  BY <2>10, Zenon DEF ClientSend, AfterSend, EndRequest
  <2>11. CASE TakeReadSize(c) \/ TakeCopy(c) \/ TakeWrite(c)
    BY <2>11, Zenon DEF TakeReadSize, TakeCopy, TakeWrite
  <2>12. CASE TakeFails(c)  BY <2>12, Zenon DEF TakeFails
  <2> HIDE <1>0, <2>1 DEF Matched, Told
  <2> QED
    BY <2>2, <2>3, <2>4, <2>5, <2>6, <2>7, <2>8, <2>9, <2>10, <2>11, <2>12, ZenonT(30)
    DEF ClientNext, Talk, Serve
<1>5. DecMatchesInc'  BY <1>0, <1>1, <1>3, <1>4, ZenonT(30) DEF DecMatchesInc
<1>6. ReleasedByPublication'
  <2> SUFFICES ASSUME ~SpuriousWakeups, NEW d \in Clients
               PROVE  Told(cliPc'[d], d \in dbWait', d \in fresh')
    BY Zenon DEF ReleasedByPublication
  <2>1. CASE d = c  BY <1>4, <2>1, Zenon
  <2>2. CASE d # c  BY <1>0, <1>3, <2>2, Zenon DEF ReleasedByPublication
  <2> QED  BY <2>1, <2>2, Zenon
<1>7. NoShutdown'  BY <1>1, Zenon DEF IInv, NoShutdown, camVars
<1> QED  BY <1>2, <1>5, <1>6, <1>7, Zenon
=============================================================================
