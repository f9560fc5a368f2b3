------------------------------ MODULE OutputFile ------------------------------
(***************************************************************************)
(* The output_file plugin: the worker thread that stores pictures, and the *)
(* "take" command that HTTP client threads run in it.  Both copy into the  *)
(* plugin's one static buffer, frame.                                      *)
(*                                                                         *)
(* The names of the files, the command run after a picture and the ring    *)
(* buffer of old files are left out.                                       *)
(***************************************************************************)
EXTENDS Exchange

CONSTANTS
    FileOutput,  \* whether the plugin is loaded
    LongDelay,   \* delay > stream_off_delay
    MjpgFile,    \* option -m: all pictures go to one file
    MaxOuts      \* bound: the worker stops registering at this count

ASSUME FileOptions ==
    /\ FileOutput \in BOOLEAN /\ LongDelay \in BOOLEAN /\ MjpgFile \in BOOLEAN
    /\ MaxOuts \in Nat

VARIABLES
    filePc,
    fileFrame,   \* the picture in the static buffer frame
    fileSize,    \* frame_size of worker_thread, tagged like bufSize
    fileSaved    \* what the last write of the worker put in its file

fileVars == <<filePc, fileFrame, fileSize, fileSaved>>

FilePcs == {"start", "loop", "inc_lock", "inc", "wait", "waiting", "copy",
            "write", "dec_lock", "dec", "sleep", "cleanup", "done"}

(* A file: the picture whose length was written, and the picture whose     *)
(* bytes were.                                                             *)
FileContents == [size : Frames \cup {NoFrame},
                 data : Frames \cup {NoFrame, Freed}]
EmptyFile == [size |-> NoFrame, data |-> NoFrame]

FileTypeOK ==
    /\ filePc \in FilePcs
    /\ fileFrame \in Frames \cup {NoFrame, Freed}
    /\ fileSize \in Frames \cup {NoFrame}
    /\ fileSaved \in FileContents

FileInit ==
    /\ filePc = IF FileOutput THEN "start" ELSE "done"
    /\ fileFrame = NoFrame /\ fileSize = NoFrame /\ fileSaved = EmptyFile

(* memcpy(frame, in[i].buf, frame_size) into the static buffer: nothing is *)
(* copied when frame_size is 0, and freed memory stays freed.              *)
CopyToFrame(size) ==
    fileFrame' = IF size = NoFrame \/ fileFrame = Freed
                 THEN fileFrame ELSE bufData

(* write(fd, frame, frame_size).                                           *)
WrittenFile(size) ==
    [size |-> size, data |-> IF size = NoFrame THEN NoFrame ELSE fileFrame]

-----------------------------------------------------------------------------
(* With a short delay the worker counts as an active output once and for   *)
(* all; with a long one it registers anew for each picture.                *)
FileStart ==
    /\ filePc = "start"
    /\ filePc' = IF LongDelay THEN "loop" ELSE "inc_lock"
    /\ UNCHANGED <<fileFrame, fileSize, fileSaved, exchangeVars>>

FileLoop ==
    /\ filePc = "loop"
    /\ filePc' = IF stop THEN "cleanup"
                 ELSE IF LongDelay THEN "inc_lock" ELSE "wait"
    /\ UNCHANGED <<fileFrame, fileSize, fileSaved, exchangeVars>>

FileLockOut ==
    /\ \/ filePc = "inc_lock" /\ num_outs < MaxOuts /\ filePc' = "inc"
       \/ filePc = "dec_lock" /\ filePc' = "dec"
    /\ LockOut(Worker)
    /\ UNCHANGED <<fileFrame, fileSize, fileSaved, picture, outWait, num_outs,
                   dbVars, runVars>>

ouput_inc ==
    /\ filePc = "inc"
    /\ IncOuts
    /\ filePc' = IF LongDelay THEN "wait" ELSE "loop"
    /\ UNCHANGED <<fileFrame, fileSize, fileSaved, picture, dbVars, runVars>>

ouput_dec ==
    /\ filePc = "dec"
    /\ DecOuts
    /\ filePc' = "sleep"
    /\ UNCHANGED <<fileFrame, fileSize, fileSaved, picture, dbVars, runVars>>

FileWait ==
    /\ filePc = "wait"
    /\ WaitForFrame(Worker)
    /\ filePc' = "waiting"
    /\ UNCHANGED <<fileFrame, fileSize, fileSaved, picture, outVars, runVars>>

FileReadSize ==
    /\ filePc = "waiting"
    /\ ReturnFromFrameWait(Worker)
    /\ fileSize' = bufSize
    /\ filePc' = "copy"
    /\ UNCHANGED <<fileFrame, fileSaved, picture, dbWait, fresh, outVars, runVars>>

FileCopy ==
    /\ filePc = "copy"
    /\ CopyToFrame(fileSize)
    /\ UnlockDb
    /\ filePc' = "write"
    /\ UNCHANGED <<fileSize, fileSaved, picture, dbWait, fresh, outVars, runVars>>

(* realloc failed: the thread returns from the middle of the loop.         *)
FileNoMemory ==
    /\ filePc = "copy"
    /\ "memory" \in Faults
    /\ UnlockDb
    /\ filePc' = "done"
    /\ UNCHANGED <<fileFrame, fileSize, fileSaved, picture, dbWait, fresh,
                   outVars, runVars>>

(* Mutant of FileWrite: the output is not taken away after the picture.    *)
FileWriteStaysActive ==
    /\ filePc = "write"
    /\ fileSaved' = WrittenFile(fileSize)
    /\ filePc' = "sleep"
    /\ UNCHANGED <<fileFrame, fileSize, exchangeVars>>

(* Only the single-file branch of the loop takes the output away again.    *)
FileWrite ==
    /\ filePc = "write"
    /\ fileSaved' = WrittenFile(fileSize)
    /\ filePc' = IF LongDelay /\ ~MjpgFile THEN "dec_lock" ELSE "sleep"
    /\ UNCHANGED <<fileFrame, fileSize, exchangeVars>>

(* open or write failed: the thread returns from the middle of the loop.   *)
FileWriteFails ==
    /\ filePc = "write"
    /\ "file" \in Faults
    /\ filePc' = "done"
    /\ UNCHANGED <<fileFrame, fileSize, fileSaved, exchangeVars>>

FileSleep ==
    /\ filePc = "sleep"
    /\ filePc' = "loop"
    /\ fileSize' = NoFrame /\ fileSaved' = EmptyFile
    /\ UNCHANGED <<fileFrame, exchangeVars>>

(* pthread_cancel from output_stop takes effect in pthread_cond_wait, which*)
(* is left with the mutex locked, and in the file operations and usleep.   *)
FileCancelled ==
    /\ Worker \in cancelled
    /\ \/ /\ filePc = "waiting" /\ Worker \in dbWait
          /\ LockDb(Worker)
          /\ dbWait' = dbWait \ {Worker}
       \/ /\ filePc \in {"write", "sleep"}
          /\ UNCHANGED <<db, dbWait>>
    /\ filePc' = "cleanup"
    /\ UNCHANGED <<fileFrame, fileSize, fileSaved, picture, fresh, outVars, runVars>>

(* worker_cleanup frees the static buffer.                                 *)
FileCleanup ==
    /\ filePc = "cleanup"
    /\ fileFrame' = Freed
    /\ filePc' = "done"
    /\ UNCHANGED <<fileSize, fileSaved, exchangeVars>>

FileNext ==
    \/ FileStart \/ FileLoop \/ FileLockOut \/ ouput_inc \/ ouput_dec
    \/ FileWait \/ FileReadSize \/ FileCopy \/ FileNoMemory \/ FileWrite
    \/ FileWriteFails \/ FileSleep \/ FileCancelled \/ FileCleanup
=============================================================================
