------------------------------ MODULE MmalPort ------------------------------
(***************************************************************************)
(* One output port of a VideoCore component, as input_raspicam.c uses the  *)
(* encoder's: core/mmal_port.c with the driver functions of                *)
(* vc/mmal_vc_api.c below it, the pool of core/mmal_pool.c beside it, and  *)
(* encoder_buffer_callback above it.                                       *)
(*                                                                         *)
(* Threads: the clients' (Callers), the action thread of the component     *)
(* ("act"), which delivers the callbacks, and the VCHIQ thread, whose one  *)
(* step is VcReturn.  A header goes from the pool to a thread's hands, by  *)
(* mmal_port_send_buffer to VideoCore or (on a paused port) to the port's  *)
(* own queue, from VideoCore to the callback queue, and by the client's    *)
(* callback back to the pool.  The pool, the callback queue and the port's *)
(* own queue are lists over the same next fields (MmalList).               *)
(***************************************************************************)
EXTENDS MmalList, Integers, Sequences, FiniteSetsExt

CONSTANTS
    Callers,       \* client threads
    Pools,         \* the sets of headers a pool may be created with
    PauseMax,      \* largest pool with which the clients disable the component
    MaxStale,      \* bound: posts of action_sema left over when a port is enabled
    PortFaults     \* which of "enable", "disable", "send", "flush" may fail

PortThreads == Callers \cup {"act"}

ASSUME PortAssumption ==
    /\ NULL \notin Headers \cup PortThreads /\ Head0 \notin Headers
    /\ Pools \subseteq SUBSET Headers \ {{}}
    /\ "act" \notin Callers /\ PauseMax \in Nat /\ MaxStale \in Nat

VARIABLES
    ppool,                   \* the headers the pool was created with
    pmem,                    \* next fields; lists "pool", "callback", "own"
    enabled, paused, compOn, \* is_enabled, is_paused, component->is_enabled
    cbSet, hasPool,          \* buffer_header_callback set, module->has_pool
    transit, tsema,          \* transit_buffer_headers, transit_sema
    asema,                   \* action_sema
    remote,                  \* headers VideoCore has
    lost,                    \* headers the client failed to send and dropped
    portLock, sendLock, actLock, compLock,
    ppc, pbuf, pnxt, pret    \* per thread: position, header, next, return

memVars == <<pmem, remote, lost>>
transitVars == <<transit, tsema>>
flagVars == <<enabled, paused, compOn, cbSet, hasPool>>
plockVars == <<portLock, sendLock, actLock, compLock>>
pthreadVars == <<ppc, pbuf, pnxt, pret>>
portVars == <<ppool, memVars, transitVars, flagVars, asema, plockVars, pthreadVars>>

PortPcs == {"idle", "cb", "resend", "send", "dec",
            "e_on", "d_off", "d_act", "d_vc", "d_drain", "d_undo", "d_on", "d_flush", "d_wait",
            "f_send", "f_vc", "f_loop", "p_pause", "p_resume", "a_lock", "a_end"}

PortTypeOK ==
    /\ pmem.next \in [Headers -> Headers \cup {NULL}]
    /\ remote \subseteq ppool /\ lost \subseteq ppool
    /\ {enabled, paused, compOn, cbSet, hasPool} \subseteq BOOLEAN
    /\ transit \in Nat /\ tsema \in 0 .. 1 /\ asema \in Nat
    /\ ppc \in [PortThreads -> PortPcs]
    /\ pbuf \in [PortThreads -> Headers \cup {NULL}]

(* The pool as mmal_pool_create leaves it: every header queued, in order.  *)
Filled(m, S) == FoldSet(LAMBDA b, n : Put(n, "pool", b), m, S)

PortInit ==
    /\ ppool \in Pools
    /\ pmem = Filled([next |-> [b \in Headers |-> NULL],
                      q |-> [k \in {"pool", "callback", "own"} |-> EmptyList]], ppool)
    /\ enabled = FALSE /\ paused = FALSE /\ compOn = TRUE
    /\ cbSet = FALSE /\ hasPool = FALSE
    /\ transit = 0 /\ tsema = 1 /\ asema = 0
    /\ remote = {} /\ lost = {}
    /\ portLock = NULL /\ sendLock = NULL /\ actLock = NULL /\ compLock = NULL
    /\ ppc = [t \in PortThreads |-> "idle"]
    /\ pbuf = [t \in PortThreads |-> NULL]
    /\ pnxt = [t \in PortThreads |-> NULL]
    /\ pret = [t \in PortThreads |-> "idle"]

Goto(t, pc) == ppc' = [ppc EXCEPT ![t] = pc]

(* Thread t calls mmal_port_buffer_header_callback with b, and goes on at  *)
(* pc when it returns.                                                     *)
CallBack(t, b, pc) ==
    /\ pbuf' = [pbuf EXCEPT ![t] = b]
    /\ pret' = [pret EXCEPT ![t] = pc]
    /\ Goto(t, "cb")

(***************************************************************************)
(* mmal_port_buffer_header_callback and, in it, encoder_buffer_callback    *)
(***************************************************************************)
(* mmal_buffer_header_release: the header goes back to the pool.           *)
CbRelease(t) ==
    /\ ppc[t] = "cb" /\ cbSet
    /\ pmem' = Put(pmem, "pool", pbuf[t])
    /\ Goto(t, "resend")
    /\ UNCHANGED <<ppool, remote, lost, transitVars, flagVars, asema, plockVars,
                   pbuf, pnxt, pret>>

(* is_enabled is read without a lock; then one header is fetched.          *)
CbFetch(t) ==
    /\ ppc[t] = "resend"
    /\ LET b == pmem.q["pool"].first IN
       IF enabled /\ b # NULL
       THEN /\ pmem' = Unlink(pmem, "pool")
            /\ pbuf' = [pbuf EXCEPT ![t] = b]
            /\ Goto(t, "send")
       ELSE Goto(t, "dec") /\ UNCHANGED <<pmem, pbuf>>
    /\ UNCHANGED <<ppool, remote, lost, transitVars, flagVars, asema, plockVars,
                   pnxt, pret>>

(* IN_TRANSIT_DECREMENT after the callback.                                *)
CbEnd(t) ==
    /\ ppc[t] = "dec"
    /\ transit' = transit - 1
    /\ tsema' = IF transit' = 0 THEN tsema + 1 ELSE tsema
    /\ pbuf' = [pbuf EXCEPT ![t] = NULL]
    /\ Goto(t, pret[t])
    /\ UNCHANGED <<ppool, memVars, flagVars, asema, plockVars, pnxt, pret>>

(***************************************************************************)
(* mmal_port_send_buffer, with mmal_vc_port_send below it                  *)
(***************************************************************************)
(* In a callback the thread goes on to CbEnd, else the call is over.       *)
AfterSend(t) ==
    /\ pbuf' = [pbuf EXCEPT ![t] = NULL]
    /\ Goto(t, IF pret[t] = "idle" THEN "idle" ELSE "dec")

SendFails(t) ==
    /\ ppc[t] = "send" /\ sendLock = NULL
    /\ \/ ~ enabled
       \/ ~ paused /\ (~ hasPool \/ "send" \in PortFaults)
    /\ lost' = lost \cup {pbuf[t]}
    /\ AfterSend(t)
    /\ UNCHANGED <<ppool, pmem, remote, transitVars, flagVars, asema, plockVars,
                   pnxt, pret>>

SendQueued(t) ==
    /\ ppc[t] = "send" /\ sendLock = NULL /\ enabled
    /\ transit > 0 \/ tsema = 1
    /\ \/ paused /\ pmem' = ChainIn(pmem, "own", pbuf[t]) /\ UNCHANGED remote
       \/ ~ paused /\ hasPool /\ remote' = remote \cup {pbuf[t]} /\ UNCHANGED pmem
    /\ transit' = transit + 1
    /\ tsema' = IF transit = 0 THEN 0 ELSE tsema
    /\ AfterSend(t)
    /\ UNCHANGED <<ppool, lost, flagVars, asema, plockVars, pnxt, pret>>

(* The client sends a header of the pool to the port it has enabled.       *)
Fill(t) ==
    /\ ppc[t] = "idle" /\ enabled /\ pmem.q["pool"].first # NULL
    /\ pbuf' = [pbuf EXCEPT ![t] = pmem.q["pool"].first]
    /\ pmem' = Unlink(pmem, "pool")
    /\ pret' = [pret EXCEPT ![t] = "idle"]
    /\ Goto(t, "send")
    /\ UNCHANGED <<ppool, remote, lost, transitVars, flagVars, asema, plockVars, pnxt>>

(***************************************************************************)
(* mmal_port_enable and mmal_port_disable of an unconnected port.  Both    *)
(* hold the connection lock and the port's lock from end to end: portLock. *)
(***************************************************************************)
(* mmal_vc_port_enable creates the contexts of the headers; a failure of   *)
(* VideoCore deletes them, leaving has_pool and the callback set.          *)
Enable(t) ==
    /\ ppc[t] = "idle" /\ portLock = NULL /\ ~ enabled /\ asema <= MaxStale
    /\ cbSet' = TRUE /\ hasPool' = TRUE
    /\ \/ portLock' = t /\ Goto(t, "e_on")
       \/ "enable" \in PortFaults /\ UNCHANGED <<portLock, ppc>>
    /\ UNCHANGED <<ppool, memVars, transitVars, enabled, paused, compOn, asema,
                   sendLock, actLock, compLock, pbuf, pnxt, pret>>

EnableEnd(t) ==
    /\ ppc[t] = "e_on" /\ sendLock = NULL
    /\ enabled' = TRUE /\ portLock' = NULL
    /\ Goto(t, "idle")
    /\ UNCHANGED <<ppool, memVars, transitVars, paused, compOn, cbSet, hasPool, asema,
                   sendLock, actLock, compLock, pbuf, pnxt, pret>>

Disable(t) ==
    /\ ppc[t] = "idle" /\ portLock = NULL /\ enabled
    /\ portLock' = t
    /\ Goto(t, "d_off")
    /\ UNCHANGED <<ppool, memVars, transitVars, flagVars, asema,
                   sendLock, actLock, compLock, pbuf, pnxt, pret>>

DisableOff(t) ==
    /\ ppc[t] = "d_off" /\ sendLock = NULL
    /\ enabled' = FALSE
    /\ Goto(t, "d_act")
    /\ UNCHANGED <<ppool, memVars, transitVars, paused, compOn, cbSet, hasPool, asema,
                   plockVars, pbuf, pnxt, pret>>

DisableAct(t) ==
    /\ ppc[t] = "d_act" /\ actLock = NULL
    /\ actLock' = t
    /\ Goto(t, "d_vc")
    /\ UNCHANGED <<ppool, memVars, transitVars, flagVars, asema,
                   portLock, sendLock, compLock, pbuf, pnxt, pret>>

(* mmal_vc_port_disable: VideoCore, which sends all the headers back       *)
(* before it disables the port, answers; the contexts are deleted whatever *)
(* the answer.                                                             *)
DisableVc(t) ==
    /\ ppc[t] = "d_vc"
    /\ \/ remote = {} /\ Goto(t, "d_drain")
       \/ "disable" \in PortFaults /\ Goto(t, "d_undo")
    /\ hasPool' = FALSE
    /\ UNCHANGED <<ppool, memVars, transitVars, enabled, paused, compOn, cbSet, asema,
                   plockVars, pbuf, pnxt, pret>>

(* ... makes the queued callbacks itself, one mmal_vc_do_callback each, ... *)
DisableDrain(t) ==
    /\ ppc[t] \in {"d_drain", "d_undo"} /\ pmem.q["callback"].first # NULL
    /\ CallBack(t, pmem.q["callback"].first, ppc[t])
    /\ pmem' = Unlink(pmem, "callback")
    /\ UNCHANGED <<ppool, remote, lost, transitVars, flagVars, asema, plockVars, pnxt>>

(* ... and returns to mmal_port_disable_internal.                          *)
DisableDrained(t) ==
    /\ ppc[t] \in {"d_drain", "d_undo"} /\ pmem.q["callback"].first = NULL
    /\ actLock' = NULL
    /\ pnxt' = [pnxt EXCEPT ![t] = pmem.q["own"].first]
    /\ Goto(t, IF ppc[t] = "d_drain" THEN "d_flush" ELSE "d_on")
    /\ UNCHANGED <<ppool, memVars, transitVars, flagVars, asema,
                   portLock, sendLock, compLock, pbuf, pret>>

DisableUndone(t) ==
    /\ ppc[t] = "d_on" /\ sendLock = NULL
    /\ enabled' = TRUE /\ portLock' = NULL
    /\ Goto(t, "idle")
    /\ UNCHANGED <<ppool, memVars, transitVars, paused, compOn, cbSet, hasPool, asema,
                   sendLock, actLock, compLock, pbuf, pnxt, pret>>

(* The port's own queue is called back in place, without a lock, and only  *)
(* then emptied.                                                           *)
DisableFlush(t) ==
    /\ ppc[t] = "d_flush"
    /\ IF pnxt[t] # NULL
       THEN /\ CallBack(t, pnxt[t], "d_flush")
            /\ pnxt' = [pnxt EXCEPT ![t] = pmem.next[pnxt[t]]]
            /\ UNCHANGED pmem
       ELSE /\ pmem' = Drop(pmem, "own")
            /\ Goto(t, "d_wait")
            /\ UNCHANGED <<pbuf, pnxt, pret>>
    /\ UNCHANGED <<ppool, remote, lost, transitVars, flagVars, asema, plockVars>>

(* IN_TRANSIT_WAIT *)
DisableEnd(t) ==
    /\ ppc[t] = "d_wait" /\ tsema > 0
    /\ cbSet' = FALSE /\ portLock' = NULL
    /\ Goto(t, "idle")
    /\ UNCHANGED <<ppool, memVars, transitVars, enabled, paused, compOn, hasPool, asema,
                   sendLock, actLock, compLock, pbuf, pnxt, pret>>

Disabling(t) ==
    \/ Disable(t) \/ DisableOff(t) \/ DisableAct(t) \/ DisableVc(t) \/ DisableDrain(t)
    \/ DisableDrained(t) \/ DisableUndone(t) \/ DisableFlush(t) \/ DisableEnd(t)

(***************************************************************************)
(* mmal_port_flush                                                         *)
(***************************************************************************)
Flush(t) ==
    /\ ppc[t] = "idle" /\ actLock = NULL
    /\ actLock' = t
    /\ Goto(t, "f_send")
    /\ UNCHANGED <<ppool, memVars, transitVars, flagVars, asema,
                   portLock, sendLock, compLock, pbuf, pnxt, pret>>

FlushSend(t) ==
    /\ ppc[t] = "f_send" /\ sendLock = NULL
    /\ sendLock' = t
    /\ Goto(t, "f_vc")
    /\ UNCHANGED <<ppool, memVars, transitVars, flagVars, asema,
                   portLock, actLock, compLock, pbuf, pnxt, pret>>

(* Mutant: the own queue keeps the headers that are called back.           *)
MutFlushVc(t) ==
    /\ ppc[t] = "f_vc"
    /\ sendLock' = NULL /\ actLock' = NULL
    /\ pnxt' = [pnxt EXCEPT ![t] = pmem.q["own"].first]
    /\ Goto(t, "f_loop")
    /\ UNCHANGED <<ppool, pmem, remote, lost, transitVars, flagVars, asema,
                   portLock, compLock, pbuf, pret>>

(* VideoCore answers; the own queue is taken over for the callbacks.       *)
FlushVc(t) ==
    /\ ppc[t] = "f_vc"
    /\ sendLock' = NULL /\ actLock' = NULL
    /\ \/ /\ pnxt' = [pnxt EXCEPT ![t] = pmem.q["own"].first]
          /\ pmem' = Drop(pmem, "own")
          /\ Goto(t, "f_loop")
       \/ "flush" \in PortFaults /\ Goto(t, "idle") /\ UNCHANGED <<pmem, pnxt>>
    /\ UNCHANGED <<ppool, remote, lost, transitVars, flagVars, asema,
                   portLock, compLock, pbuf, pret>>

FlushLoop(t) ==
    /\ ppc[t] = "f_loop"
    /\ IF pnxt[t] # NULL
       THEN /\ CallBack(t, pnxt[t], "f_loop")
            /\ pnxt' = [pnxt EXCEPT ![t] = pmem.next[pnxt[t]]]
       ELSE Goto(t, "idle") /\ UNCHANGED <<pbuf, pnxt, pret>>
    /\ UNCHANGED <<ppool, memVars, transitVars, flagVars, asema, plockVars>>

Flushing(t) == Flush(t) \/ FlushSend(t) \/ FlushVc(t) \/ FlushLoop(t)

(***************************************************************************)
(* mmal_component_disable and mmal_component_enable: VideoCore is told,    *)
(* then mmal_port_pause is called for the port.                            *)
(***************************************************************************)
CompCall(t) ==
    /\ ppc[t] = "idle" /\ compLock = NULL /\ Cardinality(ppool) <= PauseMax
    /\ compLock' = t
    /\ Goto(t, IF compOn THEN "p_pause" ELSE "p_resume")
    /\ UNCHANGED <<ppool, memVars, transitVars, flagVars, asema,
                   portLock, sendLock, actLock, pbuf, pnxt, pret>>

Pause(t) ==
    /\ ppc[t] = "p_pause" /\ sendLock = NULL
    /\ paused' = TRUE /\ compOn' = FALSE /\ compLock' = NULL
    /\ Goto(t, "idle")
    /\ UNCHANGED <<ppool, memVars, transitVars, enabled, cbSet, hasPool, asema,
                   portLock, sendLock, actLock, pbuf, pnxt, pret>>

(* An enabled port sends what it has queued, and stays paused when one of  *)
(* the sends fails: the k headers before that one are gone.                *)
Resume(t) ==
    LET own == Chain(pmem, pmem.q["own"].first) IN
    /\ ppc[t] = "p_resume" /\ sendLock = NULL
    /\ \E k \in IF enabled THEN 0 .. Len(own) ELSE {Len(own)} :
          LET all == k = Len(own) IN
          /\ ~ enabled \/ k = 0 \/ hasPool
          /\ all \/ ~ hasPool \/ "send" \in PortFaults
          /\ remote' = IF enabled THEN remote \cup {own[i] : i \in 1 .. k} ELSE remote
          /\ pmem' = IF ~ enabled THEN pmem
                     ELSE IF all THEN Drop(pmem, "own")
                     ELSE [pmem EXCEPT !.q["own"].first = own[k + 1]]
          /\ paused' = ~ all /\ compOn' = all
    /\ compLock' = NULL
    /\ Goto(t, "idle")
    /\ UNCHANGED <<ppool, lost, transitVars, enabled, cbSet, hasPool, asema,
                   portLock, sendLock, actLock, pbuf, pnxt, pret>>

(***************************************************************************)
(* The VCHIQ thread and the action thread                                  *)
(***************************************************************************)
(* VideoCore returns a header: mmal_vc_port_send_callback frees its        *)
(* context, queues it and triggers the action thread.                      *)
VcReturn(b) ==
    /\ b \in remote
    /\ remote' = remote \ {b}
    /\ pmem' = Put(pmem, "callback", b)
    /\ asema' = asema + 1
    /\ UNCHANGED <<ppool, lost, transitVars, flagVars, plockVars, pthreadVars>>

ActWait ==
    /\ ppc["act"] = "idle" /\ asema > 0
    /\ asema' = asema - 1
    /\ Goto("act", "a_lock")
    /\ UNCHANGED <<ppool, memVars, transitVars, flagVars, plockVars, pbuf, pnxt, pret>>

(* Mutant: the callbacks of a paused port are put off.                     *)
MutActRun ==
    /\ ppc["act"] = "a_lock" /\ actLock = NULL
    /\ IF pmem.q["callback"].first = NULL \/ paused
       THEN /\ Goto("act", "idle")
            /\ asema' = IF paused THEN asema + 1 ELSE asema
            /\ UNCHANGED <<pmem, actLock, pbuf, pret>>
       ELSE /\ actLock' = "act"
            /\ CallBack("act", pmem.q["callback"].first, "a_end")
            /\ pmem' = Unlink(pmem, "callback") /\ UNCHANGED asema
    /\ UNCHANGED <<ppool, remote, lost, transitVars, flagVars,
                   portLock, sendLock, compLock, pnxt>>

(* mmal_vc_do_callback under the action mutex; a disable may have made the *)
(* callback already.                                                       *)
ActRun ==
    /\ ppc["act"] = "a_lock" /\ actLock = NULL
    /\ IF pmem.q["callback"].first = NULL
       THEN Goto("act", "idle") /\ UNCHANGED <<pmem, actLock, pbuf, pret>>
       ELSE /\ actLock' = "act"
            /\ CallBack("act", pmem.q["callback"].first, "a_end")
            /\ pmem' = Unlink(pmem, "callback")
    /\ UNCHANGED <<ppool, remote, lost, transitVars, flagVars, asema,
                   portLock, sendLock, compLock, pnxt>>

ActEnd ==
    /\ ppc["act"] = "a_end"
    /\ actLock' = NULL
    /\ Goto("act", "idle")
    /\ UNCHANGED <<ppool, memVars, transitVars, flagVars, asema,
                   portLock, sendLock, compLock, pbuf, pnxt, pret>>

CallbackStep(t) == CbRelease(t) \/ CbFetch(t) \/ CbEnd(t) \/ SendFails(t) \/ SendQueued(t)

CallerStep(t) ==
    \/ CallbackStep(t) \/ Fill(t) \/ Enable(t) \/ EnableEnd(t)
    \/ Disabling(t) \/ Flushing(t) \/ CompCall(t) \/ Pause(t) \/ Resume(t)

ActStep == CallbackStep("act") \/ ActWait \/ ActRun \/ ActEnd

PortNext ==
    \/ \E t \in Callers : CallerStep(t)
    \/ ActStep
    \/ \E b \in Headers : VcReturn(b)

(* Threads that can run do run, a mutex is granted to who keeps asking for *)
(* it, and VideoCore returns what it was given.  No client is obliged to   *)
(* begin a call.                                                           *)
PortFairness ==
    /\ \A t \in Callers : SF_portVars(CallerStep(t) /\ ppc[t] # "idle")
    /\ SF_portVars(ActStep)
    /\ \A b \in Headers : WF_portVars(VcReturn(b))

PortSpec == PortInit /\ [][PortNext]_portVars /\ PortFairness

(***************************************************************************)
(* Properties                                                              *)
(***************************************************************************)
InCallback(t) ==
    \/ ppc[t] \in {"cb", "resend", "dec"}
    \/ ppc[t] = "send" /\ pret[t] # "idle"

(* Thread t is in the loop that calls back the own queue at pc.            *)
Looping(t, pc) == ppc[t] = pc \/ (InCallback(t) /\ pret[t] = pc)

(* What such a loop still has before it.                                   *)
Pending(t) ==
    IF Looping(t, "f_loop") \/ Looping(t, "d_flush") THEN Reach(pmem, pnxt[t]) ELSE {}

InHand(t) == IF ppc[t] \in {"cb", "send"} THEN {pbuf[t]} ELSE {}

Place ==
    [pool |-> Members(pmem, "pool"), callback |-> Members(pmem, "callback"),
     own |-> IF \E t \in Callers : Looping(t, "d_flush") THEN {} ELSE Members(pmem, "own"),
     remote |-> remote, lost |-> lost]

(* Every header of the pool is in one place: pooled, with VideoCore, in    *)
(* the callback queue, in the port's own queue, in a thread's hands, or    *)
(* dropped by the client after a failed send; never in two (chained        *)
(* through one next field), never in none.                                 *)
HeaderInOnePlace ==
    \A b \in ppool :
        Cardinality({k \in DOMAIN Place : b \in Place[k]})
          + Cardinality({t \in PortThreads : b \in InHand(t)})
          + Cardinality({t \in PortThreads : b \in Pending(t)}) = 1

(* The count mmal_port_disable waits for (IN_TRANSIT_WAIT) is the number   *)
(* of headers between mmal_port_send_buffer and the end of their callback, *)
(* and the semaphore is up exactly when it is zero.                        *)
TransitExact ==
    /\ transit = Cardinality(remote) + Cardinality(Place.callback) + Cardinality(Place.own)
                   + Cardinality(UNION {Pending(t) : t \in PortThreads})
                   + Cardinality({t \in PortThreads : InCallback(t)})
    /\ tsema = IF transit = 0 THEN 1 ELSE 0

(* Once mmal_port_disable has cleared the callback pointer, nothing is on  *)
(* its way that would call through it: no header at VideoCore, in a queue  *)
(* or in a callback in progress.                                           *)
DisabledIsDrained ==
    ~ cbSet => /\ ~ enabled /\ remote = {} /\ Place.callback = {} /\ Place.own = {}
               /\ \A t \in PortThreads : ~ InCallback(t)

(* A header of VideoCore's finds its context when it comes back: the       *)
(* contexts are deleted only when all headers are back ("MMAL server       *)
(* should make sure that all buffers are sent back before it disables the  *)
(* port", mmal_vc_api.c 309).                                              *)
ContextAlive == remote # {} => hasPool

(* No wakeup of the action thread is lost: the posts it has not consumed   *)
(* cover the callbacks still queued.                                       *)
CallbackWakes ==
    Cardinality(Place.callback)
       <= asema + (IF ppc["act"] = "a_lock" THEN 1 ELSE 0)

(* mmal_port_disable and mmal_port_flush return, with the action thread in *)
(* the middle of a callback or not.                                        *)
PortCallReturns ==
    \A t \in Callers : ppc[t] # "idle" ~> ppc[t] = "idle"

(* Every header VideoCore has comes back to the client.                    *)
HeaderComesBack ==
    \A b \in Headers : b \in remote ~> b \in Place.pool \cup lost \cup InHand("act")

(* mmal_port_buffer_header_callback verifies that the number of headers in *)
(* transit is not negative before it calls the client.                     *)
TransitNotNegative ==
    \A t \in PortThreads : ppc[t] = "cb" => transit > 0

(* What clients of a port rely on while they send, flush, pause and        *)
(* disable it: headers are neither lost nor duplicated, the count of those *)
(* in transit is exact, a disabled port is drained and no wakeup of the    *)
(* action thread is lost.                                                  *)
PortSafe ==
    /\ PortTypeOK /\ HeaderInOnePlace /\ TransitExact
    /\ DisabledIsDrained /\ ContextAlive /\ CallbackWakes

(* Calls return and headers come back (mmal_port_disable waits for them).  *)
PortLive == PortCallReturns /\ HeaderComesBack
=============================================================================
