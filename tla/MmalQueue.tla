------------------------------ MODULE MmalQueue -----------------------------
(***************************************************************************)
(* mmal_queue.c at work: threads that put headers into one queue, take     *)
(* them out without waiting, and wait for them.  The list is changed under *)
(* the lock of the queue; the semaphore counts the headers, and            *)
(* mmal_queue_wait uses it without the lock.                               *)
(***************************************************************************)
EXTENDS MmalList, Sequences

CONSTANTS Putters, Getters, Waiters

QueueUsers == Putters \cup Getters \cup Waiters

ASSUME UsersAssumption ==
    /\ Putters \cap Getters = {} /\ Putters \cap Waiters = {}
    /\ Getters \cap Waiters = {} /\ NULL \notin Headers \cup QueueUsers
    /\ Head0 \notin Headers

VARIABLES
    qmem,     \* the headers' next fields and the list "queue"
    qlen,     \* queue->length
    qsem,     \* queue->semaphore
    qlock,    \* the holder of queue->lock, or NULL
    qpc, qgot \* per thread: where it is, the header it has in its hands

qvars == <<qmem, qlen, qsem, qlock, qpc, qgot>>

QueueTypeOK ==
    /\ qmem.next \in [Headers -> Headers \cup {NULL}]
    /\ qlen \in 0 .. Cardinality(Headers) /\ qsem \in 0 .. Cardinality(Headers)
    /\ qlock \in QueueUsers \cup {NULL}
    /\ qpc \in [QueueUsers -> {"idle", "post", "get", "sem", "done"}]
    /\ qgot \in [QueueUsers -> SUBSET Headers]

(* mmal_queue_create, with the headers handed out to the putters.          *)
QueueInit ==
    /\ qmem = [next |-> [b \in Headers |-> NULL], q |-> [queue |-> EmptyList]]
    /\ qlen = 0 /\ qsem = 0 /\ qlock = NULL
    /\ qpc = [t \in QueueUsers |-> "idle"]
    /\ \E share \in [Headers -> Putters] :
          qgot = [t \in QueueUsers |-> {b \in Headers : share[b] = t}]

(* mmal_queue_put and mmal_queue_put_back *)
QueueAdd(t, back) ==
    \E b \in qgot[t] :
        /\ qlock = NULL
        /\ qmem' = IF back THEN PutBack(qmem, "queue", b) ELSE Put(qmem, "queue", b)
        /\ qlen' = qlen + 1 /\ qsem' = qsem + 1
        /\ qgot' = [qgot EXCEPT ![t] = @ \ {b}]
        /\ UNCHANGED <<qlock, qpc>>

(* The first half of mmal_queue_get: the lock is taken and, unless the     *)
(* queue is empty, kept across the wait for the semaphore.                 *)
QueueGet(t) ==
    /\ qpc[t] = IF t \in Getters THEN "idle" ELSE "get"
    /\ qlock = NULL
    /\ IF qmem.q["queue"].first = NULL
       THEN qpc' = [qpc EXCEPT ![t] = "done"] /\ UNCHANGED qlock
       ELSE qpc' = [qpc EXCEPT ![t] = "sem"] /\ qlock' = t
    /\ UNCHANGED <<qmem, qlen, qsem, qgot>>

(* Mutant: the last header is returned instead of the first.               *)
MutQueueTake(t) ==
    /\ qpc[t] = "sem" /\ qsem > 0
    /\ qsem' = qsem - 1
    /\ qmem' = Unlink(qmem, "queue")
    /\ qlen' = qlen - 1
    /\ qlock' = NULL
    /\ qgot' = [qgot EXCEPT ![t] = @ \cup {qmem.q["queue"].last}]
    /\ qpc' = [qpc EXCEPT ![t] = "done"]

(* The second half, after vcos_semaphore_wait.                             *)
QueueTake(t) ==
    /\ qpc[t] = "sem" /\ qsem > 0
    /\ qsem' = qsem - 1
    /\ qmem' = Unlink(qmem, "queue")
    /\ qlen' = qlen - 1
    /\ qlock' = NULL
    /\ qgot' = [qgot EXCEPT ![t] = @ \cup {qmem.q["queue"].first}]
    /\ qpc' = [qpc EXCEPT ![t] = "done"]

(* mmal_queue_wait: the semaphore is taken and posted again, then the      *)
(* header is fetched as by anyone else.                                    *)
QueueWait(t) ==
    /\ qpc[t] = "idle" /\ qsem > 0
    /\ qsem' = qsem - 1
    /\ qpc' = [qpc EXCEPT ![t] = "post"]
    /\ UNCHANGED <<qmem, qlen, qlock, qgot>>

QueuePost(t) ==
    /\ qpc[t] = "post"
    /\ qsem' = qsem + 1
    /\ qpc' = [qpc EXCEPT ![t] = "get"]
    /\ UNCHANGED <<qmem, qlen, qlock, qgot>>

(* The caller hands what it got to a putter and comes back.                *)
QueueDone(t, p) ==
    /\ qpc[t] = "done"
    /\ qpc' = [qpc EXCEPT ![t] = "idle"]
    /\ qgot' = [qgot EXCEPT ![t] = {}, ![p] = @ \cup qgot[t]]
    /\ UNCHANGED <<qmem, qlen, qsem, qlock>>

Taking(t) == QueueGet(t) \/ QueueTake(t) \/ \E p \in Putters : QueueDone(t, p)

QueueNext ==
    \/ \E t \in Putters : QueueAdd(t, FALSE) \/ QueueAdd(t, TRUE)
    \/ \E t \in Getters \cup Waiters : Taking(t)
    \/ \E t \in Waiters : QueueWait(t) \/ QueuePost(t)

(* A thread that is not blocked runs on; nobody is obliged to put.         *)
QueueFairness ==
    /\ \A t \in Getters \cup Waiters :
          WF_qvars(QueueTake(t)) /\ SF_qvars(QueueGet(t))
    /\ \A t \in Waiters : WF_qvars(QueuePost(t))

QueueSpec == QueueInit /\ [][QueueNext]_qvars /\ QueueFairness

(***************************************************************************)
(* Properties                                                              *)
(***************************************************************************)
InSem(t) == qpc[t] = "post"

(* The list is intact in every state, its length is queue->length, and the *)
(* semaphore lags behind it by exactly the waiters that are between their  *)
(* vcos_semaphore_wait and vcos_semaphore_post (mmal_queue.c 128, 129): so *)
(* a get that holds the lock and waits for the semaphore is waiting for    *)
(* such a waiter and never for a header that is not there.                 *)
QueueCounted ==
    /\ Linked(qmem, "queue")
    /\ Cardinality(Members(qmem, "queue")) = qlen
    /\ qsem + Cardinality({t \in Waiters : InSem(t)}) = qlen
    /\ \A t \in QueueUsers : qpc[t] = "sem" => qlen > 0

(* mmal_queue.c implements the queue that mmal_queue.h describes: "the     *)
(* buffer headers will be dequeued in the order they have been queued".    *)
Fifo == INSTANCE MmalFifo WITH
            queue <- Chain(qmem, qmem.q["queue"].first),
            held <- UNION {qgot[t] : t \in QueueUsers}

QueueIsFifo == Fifo!FifoSpec

(* A call that has begun comes back: a waiter that saw a header does not   *)
(* hang, whoever takes the header away from it in between.                 *)
QueueCallReturns ==
    \A t \in Getters \cup Waiters :
        qpc[t] \in {"post", "get", "sem"} ~> qpc[t] \in {"done", "idle"}

(* mmal_queue.h: mmal_queue_wait "will block until a buffer header is      *)
(* available", and returns a "pointer to the next MMAL_BUFFER_HEADER_T".   *)
WaitGetsHeader ==
    \A t \in Waiters : qpc[t] = "done" => qgot[t] # {}

(* mmal_queue.c keeps its promise to any mix of callers: the list is a     *)
(* FIFO, its length and semaphore agree with it, and every call returns    *)
(* when there is something to return.                                      *)
QueueKeepsPromise == [](QueueTypeOK /\ QueueCounted) /\ QueueIsFifo /\ QueueCallReturns
=============================================================================
