------------------------------ MODULE HttpClient ------------------------------
(***************************************************************************)
(* client_thread of the output_http plugin, for the three requests that    *)
(* use the global picture buffer: a snapshot, a stream, and "take" (save   *)
(* through the output_file plugin, then transmit).                         *)
(*                                                                         *)
(* An element of Clients is one connection slot: a thread is created for   *)
(* each connection, serves one request and ends, and the slot can be used  *)
(* by the next connection.                                                 *)
(***************************************************************************)
EXTENDS OutputFile

CONSTANT Requests  \* the requests the peers make

ASSUME KnownRequests == Requests \subseteq {"snapshot", "stream", "take"}

VARIABLES
    cliPc,
    kind,    \* the request being served
    copy,    \* the client's own copy: frame_size, frame and timestamp
    saved    \* what "take" wrote to its file, and whether it did

cliVars == <<cliPc, kind, copy, saved>>

CliPcs == {"idle", "inc_lock", "inc", "header", "loop", "wait", "waiting",
           "copy", "send", "dec_lock", "dec",
           "take_lock", "take_copy", "take_write"}

Copies == [size : Frames \cup {NoFrame}, data : Frames \cup {NoFrame, Freed},
           ts : Frames \cup {NoFrame}]
NoCopy == [size |-> NoFrame, data |-> NoFrame, ts |-> NoFrame]
NothingSaved == [done |-> FALSE, file |-> EmptyFile]

CliTypeOK ==
    /\ cliPc \in [Clients -> CliPcs]
    /\ kind \in [Clients -> {"none", "snapshot", "stream", "take"}]
    /\ copy \in [Clients -> Copies]
    /\ saved \in [Clients -> [done : BOOLEAN, file : FileContents]]

CliInit ==
    /\ cliPc = [c \in Clients |-> "idle"]
    /\ kind = [c \in Clients |-> "none"]
    /\ copy = [c \in Clients |-> NoCopy]
    /\ saved = [c \in Clients |-> NothingSaved]

Goto(c, pc) == cliPc' = [cliPc EXCEPT ![c] = pc]

(* What the client thread does after send_snapshot or send_stream: take    *)
(* the output away again, except for "take", which never registered one.   *)
AfterSend(c) == IF kind[c] = "take" THEN "idle" ELSE "dec_lock"

(* The thread ends or the snapshot's local variables go out of scope.      *)
Forget(c) == copy' = [copy EXCEPT ![c] = NoCopy]

EndRequest(c) ==
    /\ kind' = [kind EXCEPT ![c] = "none"]
    /\ saved' = [saved EXCEPT ![c] = NothingSaved]

-----------------------------------------------------------------------------
(* The dispatch of a parsed request.  "take" without a filename gets an    *)
(* error answer and goes on to send_snapshot all the same; without the     *)
(* output_file plugin it gets an error answer and nothing more.            *)
ClientRequest(c) ==
    /\ cliPc[c] = "idle"
    /\ \E k \in Requests :
          /\ kind' = [kind EXCEPT ![c] = k]
          /\ \/ k \in {"snapshot", "stream"} /\ Goto(c, "inc_lock")
             \/ k = "take" /\ FileOutput /\ Goto(c, "take_lock")
             \/ k = "take" /\ FileOutput /\ Goto(c, "wait")
    /\ UNCHANGED <<copy, saved, fileVars, exchangeVars>>

ClientLockOut(c) ==
    /\ \/ cliPc[c] = "inc_lock" /\ Goto(c, "inc")
       \/ cliPc[c] = "dec_lock" /\ Goto(c, "dec")
    /\ LockOut(c)
    /\ UNCHANGED <<kind, copy, saved, fileVars, picture, outWait, num_outs,
                   dbVars, runVars>>

ClientInc(c) ==
    /\ cliPc[c] = "inc"
    /\ IncOuts
    /\ Goto(c, IF kind[c] = "stream" THEN "header" ELSE "wait")
    /\ UNCHANGED <<kind, copy, saved, fileVars, picture, dbVars, runVars>>

ClientDec(c) ==
    /\ cliPc[c] = "dec"
    /\ DecOuts
    /\ Goto(c, "idle")
    /\ EndRequest(c)
    /\ UNCHANGED <<copy, fileVars, picture, dbVars, runVars>>

(* send_stream writes the HTTP header; it returns if the peer is gone.     *)
StreamHeader(c) ==
    /\ cliPc[c] = "header"
    /\ Goto(c, "loop") \/ Goto(c, "dec_lock")
    /\ UNCHANGED <<kind, copy, saved, fileVars, exchangeVars>>

StreamLoop(c) ==
    /\ cliPc[c] = "loop"
    /\ Goto(c, IF stop THEN "dec_lock" ELSE "wait")
    /\ UNCHANGED <<kind, copy, saved, fileVars, exchangeVars>>

ClientWait(c) ==
    /\ cliPc[c] = "wait"
    /\ WaitForFrame(c)
    /\ Goto(c, "waiting")
    /\ UNCHANGED <<kind, copy, saved, fileVars, picture, outVars, runVars>>

(* Mutant of ClientReadSize: the mutex is released before the copy.        *)
ClientReadSizeUnlocked(c) ==
    /\ cliPc[c] = "waiting"
    /\ c \notin dbWait /\ db = NoThread
    /\ copy' = [copy EXCEPT ![c].size = bufSize]
    /\ Goto(c, "copy")
    /\ UNCHANGED <<kind, saved, fileVars, picture, dbVars, outVars, runVars>>

ClientReadSize(c) ==
    /\ cliPc[c] = "waiting"
    /\ ReturnFromFrameWait(c)
    /\ copy' = [copy EXCEPT ![c].size = bufSize]
    /\ Goto(c, "copy")
    /\ UNCHANGED <<kind, saved, fileVars, picture, dbWait, fresh, outVars, runVars>>

(* Timestamp and memcpy of frame_size bytes, then unlock.                  *)
ClientCopy(c) ==
    /\ cliPc[c] = "copy"
    /\ copy' = [copy EXCEPT ![c].ts = bufTs,
                            ![c].data = IF copy[c].size = NoFrame
                                        THEN NoFrame ELSE bufData]
    /\ UnlockDb
    /\ Goto(c, "send")
    /\ UNCHANGED <<kind, saved, fileVars, picture, dbWait, fresh, outVars, runVars>>

(* malloc or realloc failed: unlock, answer with an error and return.      *)
ClientNoMemory(c) ==
    /\ cliPc[c] = "copy"
    /\ "memory" \in Faults
    /\ UnlockDb
    /\ Goto(c, AfterSend(c))
    /\ Forget(c)
    /\ IF kind[c] = "take" THEN EndRequest(c) ELSE UNCHANGED <<kind, saved>>
    /\ UNCHANGED <<fileVars, picture, dbWait, fresh, outVars, runVars>>

(* The picture is written to the peer.  A stream goes on with the next     *)
(* picture unless the peer is gone.                                        *)
ClientSend(c) ==
    /\ cliPc[c] = "send"
    /\ \/ kind[c] = "stream" /\ Goto(c, "loop")
       \/ Goto(c, AfterSend(c))
    /\ Forget(c)
    /\ IF kind[c] = "take" THEN EndRequest(c) ELSE UNCHANGED <<kind, saved>>
    /\ UNCHANGED <<fileVars, exchangeVars>>

-----------------------------------------------------------------------------
(* output_cmd(OUT_FILE_CMD_TAKE) of output_file, run by the client thread: *)
(* it copies the picture that is in the buffer now, without waiting.       *)
TakeReadSize(c) ==
    /\ cliPc[c] = "take_lock"
    /\ LockDb(c)
    /\ copy' = [copy EXCEPT ![c].size = bufSize]
    /\ Goto(c, "take_copy")
    /\ UNCHANGED <<kind, saved, fileVars, picture, dbWait, fresh, outVars, runVars>>

TakeCopy(c) ==
    /\ cliPc[c] = "take_copy"
    /\ CopyToFrame(copy[c].size)
    /\ UnlockDb
    /\ Goto(c, "take_write")
    /\ UNCHANGED <<kind, copy, saved, filePc, fileSize, fileSaved, picture,
                   dbWait, fresh, outVars, runVars>>

TakeWrite(c) ==
    /\ cliPc[c] = "take_write"
    /\ saved' = [saved EXCEPT ![c] = [done |-> TRUE,
                                      file |-> WrittenFile(copy[c].size)]]
    /\ Forget(c)
    /\ Goto(c, "wait")
    /\ UNCHANGED <<kind, fileVars, exchangeVars>>

(* realloc, open or write failed: an error answer and no picture.          *)
TakeFails(c) ==
    /\ \/ cliPc[c] = "take_copy" /\ "memory" \in Faults /\ UnlockDb
       \/ cliPc[c] = "take_write" /\ "file" \in Faults /\ UNCHANGED db
    /\ Forget(c)
    /\ EndRequest(c)
    /\ Goto(c, "idle")
    /\ UNCHANGED <<fileVars, picture, dbWait, fresh, outVars, runVars>>

(* The steps that wait for the peer: for a request, or in write.           *)
Talk(c) == ClientRequest(c) \/ StreamHeader(c) \/ ClientSend(c)

(* The steps that the thread takes on its own.                             *)
Serve(c) ==
    \/ ClientLockOut(c) \/ ClientInc(c) \/ ClientDec(c) \/ StreamLoop(c)
    \/ ClientWait(c) \/ ClientReadSize(c) \/ ClientCopy(c)
    \/ ClientNoMemory(c) \/ TakeReadSize(c) \/ TakeCopy(c) \/ TakeWrite(c)
    \/ TakeFails(c)

ClientNext(c) == Talk(c) \/ Serve(c)
=============================================================================
