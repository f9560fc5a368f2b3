---------------------------- MODULE MmalVcClient ----------------------------
(***************************************************************************)
(* The connection to VideoCore: vc/mmal_vc_client.c, and of                *)
(* vc/mmal_vc_api.c the life of a component (create, destroy), a buffer    *)
(* sent and a port flushed.                                                *)
(*                                                                         *)
(* Every client thread has one component, with one port, once.  A call     *)
(* that needs an answer borrows one of the waiters; the answer carries the *)
(* pointer to the waiter, and the VCHIQ thread copies it to the place the  *)
(* waiter names and posts its semaphore.  Buffers travel as a message followed by *)
(* a bulk transfer.  Messages and bulk transfers are two FIFO channels;    *)
(* VideoCore (external) pairs the bulk transfers with the messages that    *)
(* announce one, in order.                                                 *)
(***************************************************************************)
EXTENDS Integers, Sequences, FiniteSets

CONSTANTS
    VcThreads,    \* client threads
    WaitPool,      \* the wait pool; MAX_WAITERS of them
    NoWaiter,
    SyncFlush,    \* VideoCore's major version is 15 or higher
    MaxCalls,     \* bound: calls of a thread in one component's life
    VcFaults      \* which of "init", "queue", "use" may fail

ASSUME VcAssumption ==
    IsFiniteSet(VcThreads) /\ IsFiniteSet(WaitPool) /\ NoWaiter \notin WaitPool

VARIABLES
    clientRefs, useCount, inited,  \* client.refcount, usecount, inited
    powered,                       \* VideoCore is kept awake for the service
    poolSem, inuse, wsem,          \* the wait pool
    reply,                         \* per waiter: whose answer it was given
    bulkLock,
    msgs, bulks, answers,          \* messages and bulks to VideoCore, messages back
    arriving, flushedEarly,        \* threads whose buffer VideoCore waits for
    vpc, vcall, vw, sentData, calls

countVars == <<clientRefs, useCount, inited, powered>>
waitVars == <<poolSem, inuse, wsem, reply>>
wireVars == <<msgs, bulks, answers, arriving, flushedEarly>>
vthreadVars == <<vpc, vcall, vw, sentData, calls>>
vcVars == <<countVars, waitVars, bulkLock, wireVars, vthreadVars>>

Free == "free"     \* the holder of a free bulk lock

VcPcs == {"out", "opened", "use", "in", "sem", "find", "useMsg", "queue", "bulk", "wait",
          "unuse", "give", "post", "send", "sendBulk", "leave", "deinit", "gone"}

VcTypeOK ==
    /\ clientRefs \in Nat /\ useCount \in Int /\ inited \in BOOLEAN /\ powered \in BOOLEAN
    /\ poolSem \in 0 .. Cardinality(WaitPool)
    /\ inuse \in [WaitPool -> BOOLEAN] /\ wsem \in [WaitPool -> Nat]
    /\ bulkLock \in VcThreads \cup {Free}
    /\ vpc \in [VcThreads -> VcPcs]
    /\ vw \in [VcThreads -> WaitPool \cup {NoWaiter}]

VcInit ==
    /\ clientRefs = 0 /\ useCount = 0 /\ inited = FALSE /\ powered = FALSE
    /\ poolSem = Cardinality(WaitPool)
    /\ inuse = [w \in WaitPool |-> FALSE] /\ wsem = [w \in WaitPool |-> 0]
    /\ reply = [w \in WaitPool |-> Free]
    /\ bulkLock = Free
    /\ msgs = << >> /\ bulks = << >> /\ answers = {}
    /\ arriving = << >> /\ flushedEarly = FALSE
    /\ vpc = [t \in VcThreads |-> "out"] /\ vcall = [t \in VcThreads |-> "none"]
    /\ vw = [t \in VcThreads |-> NoWaiter]
    /\ sentData = [t \in VcThreads |-> FALSE] /\ calls = [t \in VcThreads |-> 0]

Step(t, from, to) == vpc[t] = from /\ vpc' = [vpc EXCEPT ![t] = to]

(***************************************************************************)
(* mmal_vc_init, mmal_vc_use, mmal_vc_release, mmal_vc_deinit              *)
(***************************************************************************)
(* The first caller opens the service; a failure is undone under the lock. *)
Open(t) ==
    /\ vpc[t] = "out"
    /\ IF clientRefs > 0
       THEN /\ clientRefs' = clientRefs + 1
            /\ vpc' = [vpc EXCEPT ![t] = "use"]
            /\ UNCHANGED <<useCount, inited, powered>>
       ELSE \/ /\ clientRefs' = 1 /\ useCount' = 1 /\ powered' = TRUE /\ inited' = TRUE
               /\ vpc' = [vpc EXCEPT ![t] = "opened"]
            \/ "init" \in VcFaults /\ UNCHANGED <<countVars, vpc>>
    /\ UNCHANGED <<waitVars, bulkLock, wireVars, vcall, vw, sentData, calls>>

(* mmal_vc_use_internal, whose result no caller looks at.                  *)
UseService ==
    \/ useCount' = useCount + 1 /\ powered' = (powered \/ useCount = 0)
    \/ useCount = 0 /\ "use" \in VcFaults /\ UNCHANGED <<useCount, powered>>

(* mmal_vc_release_internal *)
ReleaseService ==
    useCount' = useCount - 1 /\ powered' = (powered /\ useCount' # 0)

Use(t) ==
    /\ \/ Step(t, "use", "in") \/ Step(t, "useMsg", "queue")
    /\ UseService
    /\ UNCHANGED <<clientRefs, inited, waitVars, bulkLock, wireVars, vcall, vw, sentData, calls>>

Unuse(t) ==
    /\ Step(t, "opened", "use") \/ Step(t, "unuse", "give") \/ Step(t, "leave", "deinit")
    /\ ReleaseService
    /\ UNCHANGED <<clientRefs, inited, waitVars, bulkLock, wireVars, vcall, vw, sentData, calls>>

Deinit(t) ==
    /\ Step(t, "deinit", "gone")
    /\ clientRefs' = clientRefs - 1
    /\ inited' = (clientRefs' # 0)
    /\ IF inited' THEN UNCHANGED <<msgs, bulks, arriving>>
       ELSE msgs' = << >> /\ bulks' = << >> /\ arriving' = << >>
    /\ UNCHANGED <<useCount, powered, waitVars, bulkLock, answers, flushedEarly, vcall, vw,
                   sentData, calls>>

(***************************************************************************)
(* mmal_vc_sendwait_message, for a control message, a flush of a port that *)
(* has sent data, and the destruction of the component                     *)
(***************************************************************************)
DummyBulk(call) == call = "syncFlush"

(* mmal_vc_port_flush picks the flush that cannot overtake data.           *)
FlushCall(t) == IF sentData[t] /\ SyncFlush THEN "syncFlush" ELSE "flush"

Call(t) ==
    /\ vpc[t] = "in"
    /\ \E call \in {"control", "destroy", FlushCall(t)} :
          /\ call = "destroy" \/ calls[t] < MaxCalls
          /\ vcall' = [vcall EXCEPT ![t] = call]
          /\ IF DummyBulk(call) THEN bulkLock = Free /\ bulkLock' = t ELSE UNCHANGED bulkLock
    /\ vpc' = [vpc EXCEPT ![t] = "sem"]
    /\ calls' = [calls EXCEPT ![t] = @ + 1]
    /\ UNCHANGED <<countVars, waitVars, wireVars, vw, sentData>>

(* get_waiter *)
PoolWait(t) ==
    /\ Step(t, "sem", "find") /\ poolSem > 0
    /\ poolSem' = poolSem - 1
    /\ UNCHANGED <<countVars, inuse, wsem, reply, bulkLock, wireVars, vcall, vw,
                   sentData, calls>>

FindWaiter(t) ==
    /\ Step(t, "find", "useMsg")
    /\ \E w \in WaitPool :
          /\ ~ inuse[w]
          /\ inuse' = [inuse EXCEPT ![w] = TRUE]
          /\ vw' = [vw EXCEPT ![t] = w]
    /\ UNCHANGED <<countVars, poolSem, wsem, reply, bulkLock, wireVars, vcall, sentData, calls>>

QueueMessage(t) ==
    /\ vpc[t] = "queue"
    /\ \/ /\ msgs' = Append(msgs, [from |-> t, call |-> vcall[t], waiter |-> vw[t]])
          /\ vpc' = [vpc EXCEPT ![t] = IF DummyBulk(vcall[t]) THEN "bulk" ELSE "wait"]
          /\ UNCHANGED bulkLock
       \/ /\ "queue" \in VcFaults
          /\ bulkLock' = IF DummyBulk(vcall[t]) THEN Free ELSE bulkLock
          /\ vpc' = [vpc EXCEPT ![t] = "unuse"] /\ UNCHANGED msgs
    /\ UNCHANGED <<countVars, waitVars, bulks, answers, arriving, flushedEarly, vcall, vw,
                   sentData, calls>>

(* The dummy transfer of a flush, or the payload of a buffer.              *)
QueueBulk(t) ==
    /\ Step(t, "bulk", "wait") \/ Step(t, "sendBulk", "in")
    /\ bulks' = Append(bulks, t)
    /\ bulkLock' = Free
    /\ UNCHANGED <<countVars, waitVars, msgs, answers, arriving, flushedEarly, vcall, vw,
                   sentData, calls>>

AwaitReply(t) ==
    /\ Step(t, "wait", "unuse") /\ wsem[vw[t]] > 0
    /\ wsem' = [wsem EXCEPT ![vw[t]] = @ - 1]
    /\ reply' = [reply EXCEPT ![vw[t]] = Free]
    /\ UNCHANGED <<countVars, poolSem, inuse, bulkLock, wireVars, vcall, vw,
                   sentData, calls>>

(* Mutant: the flag stays set.                                             *)
MutGiveWaiter(t) ==
    /\ Step(t, "give", "post")
    /\ vw' = [vw EXCEPT ![t] = NoWaiter]
    /\ UNCHANGED <<countVars, waitVars, bulkLock, wireVars, vcall, sentData, calls>>

(* release_waiter, which takes no lock: the flag first, then the semaphore *)
GiveWaiter(t) ==
    /\ Step(t, "give", "post")
    /\ inuse' = [inuse EXCEPT ![vw[t]] = FALSE]
    /\ vw' = [vw EXCEPT ![t] = NoWaiter]
    /\ UNCHANGED <<countVars, poolSem, wsem, reply, bulkLock, wireVars, vcall, sentData,
                   calls>>

PoolPost(t) ==
    /\ Step(t, "post", IF vcall[t] = "destroy" THEN "leave" ELSE "in")
    /\ poolSem' = poolSem + 1
    /\ vcall' = [vcall EXCEPT ![t] = "none"]
    /\ UNCHANGED <<countVars, inuse, wsem, reply, bulkLock, wireVars, vw,
                   sentData, calls>>

(***************************************************************************)
(* mmal_vc_send_message for a buffer with a payload                        *)
(***************************************************************************)
Send(t) ==
    /\ Step(t, "in", "send") /\ calls[t] < MaxCalls
    /\ bulkLock = Free /\ bulkLock' = t
    /\ sentData' = [sentData EXCEPT ![t] = TRUE]
    /\ calls' = [calls EXCEPT ![t] = @ + 1]
    /\ UNCHANGED <<countVars, waitVars, wireVars, vcall, vw>>

SendQueue(t) ==
    /\ vpc[t] = "send"
    /\ \/ /\ msgs' = Append(msgs, [from |-> t, call |-> "buffer", waiter |-> NoWaiter])
          /\ vpc' = [vpc EXCEPT ![t] = "sendBulk"] /\ UNCHANGED bulkLock
       \/ /\ "queue" \in VcFaults
          /\ bulkLock' = Free /\ vpc' = [vpc EXCEPT ![t] = "in"] /\ UNCHANGED msgs
    /\ UNCHANGED <<countVars, waitVars, bulks, answers, arriving, flushedEarly, vcall, vw,
                   sentData, calls>>

(***************************************************************************)
(* VideoCore and the VCHIQ thread                                          *)
(***************************************************************************)
Answer(m) == answers' = answers \cup {m}

(* VideoCore takes the next message.  One with a bulk transfer is acted on *)
(* when the transfer arrives, any other at once.                           *)
VcTake ==
    LET m == Head(msgs) IN
    /\ msgs # << >>
    /\ msgs' = Tail(msgs)
    /\ IF m.call \in {"buffer", "syncFlush"}
       THEN arriving' = Append(arriving, m) /\ UNCHANGED <<answers, flushedEarly>>
       ELSE /\ Answer(m)
            /\ flushedEarly' =
                 (\/ flushedEarly
                  \/ /\ m.call = "flush"
                     /\ \E i \in DOMAIN arriving : arriving[i].from = m.from)
            /\ UNCHANGED arriving
    /\ UNCHANGED <<countVars, waitVars, bulkLock, bulks, vthreadVars>>

VcBulk ==
    LET m == Head(arriving) IN
    /\ arriving # << >> /\ bulks # << >>
    /\ arriving' = Tail(arriving) /\ bulks' = Tail(bulks)
    /\ IF m.call = "syncFlush" THEN Answer(m) ELSE UNCHANGED answers
    /\ UNCHANGED <<countVars, waitVars, bulkLock, msgs, flushedEarly, vthreadVars>>

(* Mutant: the waiter is not woken.                                        *)
MutReplyArrives ==
    \E m \in answers :
        /\ answers' = answers \ {m}
        /\ reply' = [reply EXCEPT ![m.waiter] = m.from]
        /\ UNCHANGED <<countVars, poolSem, inuse, wsem, bulkLock, msgs, bulks, arriving,
                       flushedEarly, vthreadVars>>

(* mmal_vc_vchiq_callback, any other message than a buffer or an event     *)
ReplyArrives ==
    \E m \in answers :
        /\ answers' = answers \ {m}
        /\ reply' = [reply EXCEPT ![m.waiter] = m.from]
        /\ wsem' = [wsem EXCEPT ![m.waiter] = @ + 1]
        /\ UNCHANGED <<countVars, poolSem, inuse, bulkLock, msgs, bulks, arriving,
                       flushedEarly, vthreadVars>>

InCall(t) ==
    \/ Unuse(t) \/ Use(t) \/ Deinit(t) \/ PoolWait(t) \/ FindWaiter(t) \/ QueueMessage(t)
    \/ QueueBulk(t) \/ AwaitReply(t) \/ GiveWaiter(t) \/ PoolPost(t) \/ SendQueue(t)

VcNext ==
    \/ \E t \in VcThreads : Open(t) \/ Call(t) \/ Send(t) \/ InCall(t)
    \/ VcTake \/ VcBulk \/ ReplyArrives

(* A call goes on, a semaphore wakes who keeps waiting, and VideoCore      *)
(* answers; nobody has to begin a call.                                    *)
VcFairness ==
    /\ \A t \in VcThreads : SF_vcVars(InCall(t))
    /\ WF_vcVars(VcTake) /\ WF_vcVars(VcBulk) /\ WF_vcVars(ReplyArrives)

VcSpec == VcInit /\ [][VcNext]_vcVars /\ VcFairness

(***************************************************************************)
(* Properties                                                              *)
(***************************************************************************)
HasWaiter(t) == vpc[t] \in {"useMsg", "queue", "bulk", "wait", "unuse", "give"}

(* get_waiter finds a waiter whenever the semaphore let it in ("If this    *)
(* fails, the semaphore is not working"), though release_waiter clears the *)
(* flag without the lock, and no two calls share a waiter.                 *)
WaiterFound ==
    /\ poolSem + Cardinality({t \in VcThreads : vpc[t] = "find"})
          <= Cardinality({w \in WaitPool : ~ inuse[w]})
    /\ \A t, u \in VcThreads : HasWaiter(t) /\ HasWaiter(u) /\ vw[t] = vw[u] => t = u
    /\ \A t \in VcThreads : HasWaiter(t) => inuse[vw[t]]

(* An answer on its way is copied to the place waiter->dest names, which   *)
(* is on the stack of the caller: the caller is still in the call, with    *)
(* that waiter, and when it wakes the answer is the one to its message.    *)
AnswerHasReader ==
    /\ \A m \in answers : vpc[m.from] = "wait" /\ vw[m.from] = m.waiter
    /\ \A t \in VcThreads : vpc[t] = "wait" /\ wsem[vw[t]] > 0 => reply[vw[t]] = t

(* VideoCore pairs bulk transfers with messages by their order alone:      *)
(* under bulk_lock the transfers are queued in the order of the messages   *)
(* that announce them, and at most the last announced one is missing.      *)
Announced ==
    LET hasBulk(m) == m.call \in {"buffer", "syncFlush"}
        order == arriving \o SelectSeq(msgs, hasBulk)
    IN  [i \in DOMAIN order |-> order[i].from]

BulksInOrder ==
    \/ bulks = Announced
    \/ /\ Announced # << >>
       /\ bulks = SubSeq(Announced, 1, Len(Announced) - 1)
       /\ vpc[Announced[Len(Announced)]] \in {"bulk", "sendBulk"}

(* "A flush could be sent while one of these buffers is being copied" and  *)
(* "can arrive before the buffer" (mmal_vc_api.c 396): a flush is acted on *)
(* only when every buffer sent on the port before it has arrived.          *)
FlushAfterData == SyncFlush => ~ flushedEarly

(* The use count is the number of calls and components that use the        *)
(* service, and VideoCore is awake whenever something is sent to it.       *)
Users(t) ==
    (IF vpc[t] \in {"out", "use", "deinit", "gone"} THEN 0 ELSE 1)
      + (IF vpc[t] \in {"queue", "bulk", "wait", "unuse"} THEN 1 ELSE 0)

UseCounted ==
    /\ useCount = Cardinality({t \in VcThreads : Users(t) >= 1})
                    + Cardinality({t \in VcThreads : Users(t) = 2})
    /\ powered <=> useCount > 0

(* The service is open while any thread has a component, and shut when the *)
(* last one is gone.                                                       *)
OpenWhileReferenced ==
    /\ clientRefs = Cardinality({t \in VcThreads : vpc[t] \notin {"out", "gone"}})
    /\ inited <=> clientRefs > 0

(* A call for which VideoCore has a message or an answer comes back.       *)
VcCallReturns ==
    \A t \in VcThreads : vpc[t] \notin {"in", "out"} ~> vpc[t] \in {"in", "gone"}

(* "vchiq_use/release_service calls aren't required (dealt with at higher  *)
(* level)" (mmal_vc_client.c 612): VideoCore is awake when a buffer is     *)
(* sent.                                                                   *)
SentAwake == \A t \in VcThreads : vpc[t] = "send" => powered

(* Calls of several threads over one service: replies find their callers,  *)
(* bulk data its message, and the service is open and awake as counted.    *)
CallsMatched ==
    /\ VcTypeOK /\ WaiterFound /\ AnswerHasReader /\ BulksInOrder
    /\ FlushAfterData /\ UseCounted /\ OpenWhileReferenced
=============================================================================
