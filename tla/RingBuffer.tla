----------------------------- MODULE RingBuffer -----------------------------
(***************************************************************************)
(* The ring buffer of picture files kept by output_file                    *)
(* (plugins/output_file/output_file.c): after a picture is saved,          *)
(* maintain_ringbuffer removes the files that sort first by name.  A name  *)
(* is the local time to the second and a counter that starts at 0 with the *)
(* process; names of files that check_for_filename rejects do not matter.  *)
(***************************************************************************)
EXTENDS Integers, FiniteSets

CONSTANTS
    Size,        \* option -s, -1 when it was not given
    Exceed,      \* option -e
    MaxTime,     \* bound: the last second
    MaxCounter,  \* bound: pictures one process saves
    Leftover,    \* bound: files an earlier run with other options left
    RingEvents       \* "restart": the process dies and is started again;
                 \* "dst": the local time goes back, as at the end of summer;
                 \* "nofile": open or write fails; "nodelete": unlink or
                 \* scandir fails

ASSUME RingAssumption ==
    /\ Size \in Int /\ Exceed \in Int
    /\ MaxTime \in Nat /\ MaxCounter \in Nat /\ Leftover \in Nat
    /\ RingEvents \subseteq {"restart", "dst", "nofile", "nodelete"}

VARIABLES
    files,    \* names in the folder, pairs <<time, counter>>
    now,      \* localtime
    summer,   \* the clock change is still to come
    counter,
    pc,       \* where worker_thread is: "save", "maintain", "pause",
              \* or "ended" when it has returned
    saved,    \* the name of the picture saved last
    stuck     \* files the last maintenance could not delete

ringVars == <<files, now, summer, counter, pc, saved, stuck>>

NoName == <<-1, 0>>

RingInit ==
    /\ \E n \in 0 .. Leftover : files = {0} \X {c \in 0 .. MaxCounter : c < n}
    /\ now = 1 /\ summer = TRUE /\ counter = 0 /\ pc = "save" /\ saved = NoName
    /\ stuck = {}

-----------------------------------------------------------------------------
(* alphasort on names with fields of fixed width.                          *)
Before(f, g) == f[1] < g[1] \/ (f[1] = g[1] /\ f[2] < g[2])

(* The first n - size files are deleted.                                   *)
maintain_ringbuffer(fs) ==
    IF Size < 0 THEN fs
    ELSE {f \in fs : Cardinality({g \in fs : Before(g, f)}) >= Cardinality(fs) - Size}

(* A picture is written; the counter counts it.                            *)
Save ==
    /\ pc = "save" /\ counter < MaxCounter
    /\ files' = files \cup {<<now, counter>>}
    /\ saved' = <<now, counter>>
    /\ counter' = counter + 1
    /\ pc' = "maintain"
    /\ UNCHANGED <<now, summer, stuck>>

(* The file cannot be opened, or is created and cannot be written: the     *)
(* thread returns.                                                         *)
SaveFails ==
    /\ "nofile" \in RingEvents
    /\ pc = "save" /\ counter < MaxCounter
    /\ files' \in {files, files \cup {<<now, counter>>}}
    /\ counter' = counter + 1
    /\ pc' = "ended"
    /\ UNCHANGED <<now, summer, saved, stuck>>

(* Mutant of Due: the first picture of a process is not special.           *)
DueByCount == Exceed <= 0 \/ counter % (Exceed + 1) = 0

(* Maintenance is skipped for Exceed pictures out of Exceed + 1.           *)
Due == Exceed <= 0 \/ counter = 1 \/ counter % (Exceed + 1) = 0

(* Files that cannot be deleted stay, with a message.  Bound: one of them, *)
(* or all, as when the folder cannot be read.                              *)
Undeleted(doomed) ==
    {{}} \cup IF "nodelete" \in RingEvents THEN {{f} : f \in doomed} \cup {doomed} ELSE {}

Maintain ==
    /\ pc = "maintain"
    /\ IF Due
       THEN LET kept == maintain_ringbuffer(files)
            IN  /\ stuck' \in Undeleted(files \ kept)
                /\ files' = kept \cup stuck'
       ELSE UNCHANGED <<files, stuck>>
    /\ pc' = "pause"
    /\ UNCHANGED <<now, summer, counter, saved>>

(* usleep, then the next round.                                            *)
Pause ==
    /\ pc = "pause"
    /\ pc' = "save"
    /\ UNCHANGED <<files, now, summer, counter, saved, stuck>>

-----------------------------------------------------------------------------
Tick ==
    /\ now < MaxTime /\ now' = now + 1
    /\ UNCHANGED <<files, summer, counter, pc, saved, stuck>>

(* The clock change: the time is valid, and the local time is earlier.     *)
EndOfSummer ==
    /\ "dst" \in RingEvents /\ summer /\ now > 0
    /\ summer' = FALSE /\ now' = now - 1
    /\ UNCHANGED <<files, counter, pc, saved, stuck>>

(* The process dies at any point and is started again, a second later at   *)
(* the earliest (the camera has to be opened again).                       *)
Restart ==
    /\ "restart" \in RingEvents /\ now < MaxTime
    /\ now' = now + 1
    /\ counter' = 0 /\ pc' = "save" /\ saved' = NoName
    /\ UNCHANGED <<files, summer, stuck>>

RingNext == Save \/ SaveFails \/ Maintain \/ Pause \/ Tick \/ EndOfSummer \/ Restart

RingSpec == RingInit /\ [][RingNext]_ringVars

-----------------------------------------------------------------------------
(* The start-up message "ringbuffer size...: %d to %d": between two        *)
(* pictures the folder holds no more than size + exceed of them, whatever  *)
(* an earlier process left behind and wherever it died, and besides those  *)
(* that the last maintenance could not delete.                             *)
RingBounded ==
    pc = "pause" /\ Size >= 0
    => Cardinality(files) <= Size + (IF Exceed > 0 THEN Exceed ELSE 0) + Cardinality(stuck)

(* "delete oldest files, just keep "size" most recent files": the picture  *)
(* just saved is not the one that is deleted.                              *)
NewestKept == pc = "pause" /\ Size # 0 => saved \in files

(* NewestKept while the local time runs forward, also when the counter     *)
(* starts again at 0 in a new process.                                     *)
NewestKeptInSummer == summer => NewestKept

(* "do nothing if ringbuffer is not set or wrong value is set": without a  *)
(* ring buffer, as the start-up message calls a size of 0 or less, no      *)
(* picture is ever deleted.                                                *)
NoRingKeepsAll == [][Size <= 0 => files \subseteq files']_ringVars

(* The ring keeps what its options say: a bounded number of pictures, the  *)
(* newest among them.                                                      *)
RingKept == RingBounded /\ NewestKeptInSummer
=============================================================================
