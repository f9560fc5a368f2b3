------------------------------ MODULE Exchange ------------------------------
(***************************************************************************)
(* The state that the threads of mjpg_streamer share for one input plugin: *)
(* the fields of struct _input (plugins/input.h) and of struct _globals    *)
(* (mjpg_streamer.h) that more than one thread reads or writes, and the    *)
(* pthread operations on them.                                             *)
(*                                                                         *)
(* A picture is an element of Frames.  The three fields that describe the  *)
(* picture in the global buffer are tagged with the picture they belong    *)
(* to: bufData is the memory behind in[i].buf, bufSize is in[i].size and   *)
(* bufTs is in[i].timestamp.  NoFrame tags a size of 0, memory that was    *)
(* never written and a timestamp of 0; Freed tags memory after free().     *)
(***************************************************************************)
EXTENDS Naturals, FiniteSets

CONSTANTS
    Frames, NoFrame, Freed,
    Clients,          \* HTTP client threads (detached, one per connection)
    Cam,              \* cam_thread of the input_uvc plugin
    Worker,           \* worker_thread of the output_file plugin
    NoThread,
    SpuriousWakeups,  \* whether pthread_cond_wait may return unsignalled
    Faults,           \* which of FaultKinds the environment may cause
    Signals           \* whether SIGINT may arrive

Threads == Clients \cup {Cam, Worker}

ASSUME DistinctThreads ==
    /\ Cam \notin Clients /\ Worker \notin Clients /\ Cam # Worker
    /\ NoThread \notin Threads
    /\ IsFiniteSet(Clients)

ASSUME DistinctFrames ==
    NoFrame \notin Frames /\ Freed \notin Frames /\ NoFrame # Freed

(* "device": an ioctl on the camera fails; "memory": malloc or realloc     *)
(* fails; "file": open or write of a picture file fails.                   *)
FaultKinds == {"device", "memory", "file"}

ASSUME Environment ==
    /\ SpuriousWakeups \in BOOLEAN
    /\ Faults \subseteq FaultKinds
    /\ Signals \in BOOLEAN

VARIABLES
    db,         \* mutex in[i].db: its owner, or NoThread
    dbWait,     \* threads blocked on the condition variable in[i].db_update
    out,        \* mutex in[i].out
    outWait,    \* threads blocked on in[i].out_update
    num_outs,   \* in[i].num_outs, the number of active outputs
    bufData, bufSize, bufTs,
    stop,       \* global.stop
    cancelled,  \* threads with a pending pthread_cancel
    exited,     \* the process called exit()
    fresh       \* auxiliary: threads for which a frame was published since
                \* they began to wait for one

picture == <<bufData, bufSize, bufTs>>
outVars == <<out, outWait, num_outs>>
dbVars == <<db, dbWait, fresh>>
runVars == <<stop, cancelled, exited>>
exchangeVars == <<picture, outVars, dbVars, runVars>>

ExchangeTypeOK ==
    /\ db \in Threads \cup {NoThread} /\ out \in Threads \cup {NoThread}
    /\ dbWait \subseteq Threads /\ outWait \subseteq Threads
    /\ num_outs \in Nat
    /\ bufData \in Frames \cup {NoFrame, Freed}
    /\ bufSize \in Frames \cup {NoFrame} /\ bufTs \in Frames \cup {NoFrame}
    /\ stop \in BOOLEAN /\ exited \in BOOLEAN
    /\ cancelled \subseteq Threads /\ fresh \subseteq Threads

(* main() after it has initialised the mutexes and condition variables and *)
(* input_run() has allocated the picture buffer.                           *)
ExchangeInit ==
    /\ db = NoThread /\ out = NoThread
    /\ dbWait = {} /\ outWait = {}
    /\ num_outs = 0
    /\ bufData = NoFrame /\ bufSize = NoFrame /\ bufTs = NoFrame
    /\ stop = FALSE /\ cancelled = {} /\ exited = FALSE
    /\ fresh = {}

-----------------------------------------------------------------------------
(* pthread_mutex_lock and pthread_mutex_unlock on in[i].db and in[i].out.  *)
LockDb(t) == db = NoThread /\ db' = t
UnlockDb == db' = NoThread
LockOut(t) == out = NoThread /\ out' = t
UnlockOut == out' = NoThread

(* Mutant of WaitForFrame: no wait when the buffer already holds a picture.*)
WaitUnlessFilled(t) ==
    /\ db = NoThread
    /\ dbWait' = IF bufSize = NoFrame THEN dbWait \cup {t} ELSE dbWait
    /\ fresh' = fresh \ {t}
    /\ UNCHANGED db

(* pthread_mutex_lock(&db) followed at once by                             *)
(* pthread_cond_wait(&db_update, &db): nothing is read or written between  *)
(* the two calls, and the wait releases the mutex again.                   *)
WaitForFrame(t) ==
    /\ db = NoThread
    /\ dbWait' = dbWait \cup {t}
    /\ fresh' = fresh \ {t}
    /\ UNCHANGED db

(* Mutant of BroadcastFrame: pthread_cond_signal.                          *)
SignalFrame ==
    \/ dbWait = {} /\ UNCHANGED <<dbWait, fresh>>
    \/ \E t \in dbWait : dbWait' = dbWait \ {t} /\ fresh' = fresh \cup {t}

(* pthread_cond_broadcast(&db_update).                                     *)
BroadcastFrame ==
    /\ dbWait' = {}
    /\ fresh' = fresh \cup dbWait

(* The thread is out of the wait set of db_update; pthread_cond_wait       *)
(* returns once it owns the mutex again.                                   *)
ReturnFromFrameWait(t) == t \notin dbWait /\ LockDb(t)

(* POSIX lets pthread_cond_wait return without a signal.                   *)
SpuriousWakeup ==
    /\ SpuriousWakeups
    /\ \/ \E t \in dbWait : dbWait' = dbWait \ {t} /\ UNCHANGED outWait
       \/ \E t \in outWait : outWait' = outWait \ {t} /\ UNCHANGED dbWait
    /\ UNCHANGED <<picture, out, num_outs, db, fresh, runVars>>

(* Mutant of IncOuts: the camera thread is not woken.                      *)
IncOutsSilently ==
    /\ num_outs' = num_outs + 1
    /\ UnlockOut
    /\ UNCHANGED outWait

(* The body of the critical section that registers an active output        *)
(* (httpd.c: A_SNAPSHOT and A_STREAM, output_file.c: ouput_inc): count it, *)
(* and wake the camera thread when it is the first one.                    *)
IncOuts ==
    /\ num_outs' = num_outs + 1
    /\ outWait' = IF num_outs + 1 = 1 THEN {} ELSE outWait
    /\ UnlockOut

(* The body of the critical section that takes an active output away.      *)
DecOuts ==
    /\ num_outs' = IF num_outs > 0 THEN num_outs - 1 ELSE num_outs
    /\ UnlockOut
    /\ UNCHANGED outWait
=============================================================================
