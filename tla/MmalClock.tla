------------------------------ MODULE MmalClock ------------------------------
(***************************************************************************)
(* The media clock of MMAL (core/mmal_clock.c) and the list its requests   *)
(* wait in (util/mmal_list.c).  A client asks to be called back at a media *)
(* time; the clock's worker thread calls it from a list of pending         *)
(* requests, woken by a semaphore that the timer and every call post.      *)
(*                                                                         *)
(* There is no clock in the model: the time that has passed at an update   *)
(* of the local time is any, but at least the delay of a timer that has    *)
(* expired since the update before (age).  That covers the updates of two  *)
(* threads at once, which may count the same time twice: the function that *)
(* makes them, mmal_clock_update_local_time, takes no lock.  Media times   *)
(* outside 0..MaxMedia are clipped, being further than every request, and  *)
(* scales are -1, 0 and 1.                                                 *)
(***************************************************************************)
EXTENDS Integers, Sequences, FiniteSets

CONSTANTS Requests,      \* the requests clients add, one call each
          Ctl,           \* the thread that controls and destroys the clock
          Worker,        \* mmal_clock_worker_thread
          Unset,         \* no timer set, no discontinuity
          Times,         \* media times of requests and of references
          Reverse,       \* the clock may be given a negative scale
          MaxMedia,      \* bound of the media times told apart
          MaxIdle,       \* bound of the time that passes beside the timer
          MaxAdding,     \* bound of the requests being added at a time
          MaxOps,        \* bound of the calls of the control thread
          Slots,         \* CLOCK_REQUEST_SLOTS
          MinDelay,      \* MIN_TIMER_DELAY
          TargetOffset,  \* CLOCK_TARGET_OFFSET and the client's offset
          WaitTime,      \* CLOCK_WAIT_TIME
          Lower, Upper,  \* CLOCK_UPDATE_THRESHOLD_LOWER and _UPPER
          Discont,       \* CLOCK_DISCONT_THRESHOLD
          DiscontTime,   \* CLOCK_DISCONT_DURATION
          RequestLimit   \* request_threshold, when it is enabled

ASSUME ClockAssumption ==
    /\ Requests \cap {Ctl, Worker} = {} /\ Ctl # Worker
    /\ Times \subseteq 0..MaxMedia /\ Reverse \in BOOLEAN
    /\ {MaxMedia, MaxIdle, MaxAdding, Slots, WaitTime} \subseteq Nat \ {0}
    /\ {MaxOps, MinDelay, TargetOffset, Lower, Upper,
        Discont, DiscontTime, RequestLimit} \subseteq Nat

VARIABLES media,        \* media_time
          average,      \* average_ref_diff
          age,          \* at least vcos_getmicrosecs() - rtc_at_update
          scale, active, \* scale, is_active
          timer,        \* the delay the timer is set to, or Unset
          atTimer,      \* media_time_at_timer, 0 for none
          disc,         \* the discontinuity in effect, or Unset
          limitOn,      \* request_threshold_enable
          event,        \* the semaphore the worker waits for
          stopping,     \* stop_thread
          clockLock,    \* private->lock: the thread inside, or Unset
          pending,      \* list_pending
          freeSlots,    \* the length of list_free
          adj,          \* media_time_adj of each request
          called,       \* how often each request's callback was called
          kpc,          \* where each thread is
          kops          \* calls left to the control thread

clockVars == <<media, average, age, scale, active, timer, atTimer, disc, limitOn,
               event, stopping, clockLock, pending, freeSlots, adj, called,
               kpc, kops>>
timeVars == <<media, age, disc>>
listVars == <<pending, freeSlots, adj, called>>
setVars  == <<average, scale, active, limitOn, stopping>>

ClockThreads == Requests \cup {Ctl, Worker}

\* Every variable holds a value the clock can hold.
ClockTypeOK ==
    /\ media \in 0..MaxMedia /\ age \in 0..(MaxMedia + WaitTime + TargetOffset)
    /\ scale \in {-1, 0, 1} /\ active \in BOOLEAN
    /\ timer \in 0..(MaxMedia + WaitTime + TargetOffset) \cup {Unset} /\ atTimer \in 0..MaxMedia
    /\ event \in Nat /\ stopping \in BOOLEAN /\ limitOn \in BOOLEAN
    /\ clockLock \in ClockThreads \cup {Unset}
    /\ Len(pending) <= Slots /\ freeSlots \in 0..Slots
    /\ called \in [Requests -> Nat] /\ kops \in 0..MaxOps

(* A clock that was created and started, its worker asleep *)
ClockInit ==
    /\ media = 0 /\ average = 0 /\ age = 0 /\ scale = 1 /\ active = TRUE
    /\ timer = Unset /\ atTimer = 0 /\ disc = Unset /\ limitOn = FALSE
    /\ event = 0 /\ stopping = FALSE /\ clockLock = Unset
    /\ pending = <<>> /\ freeSlots = Slots
    /\ adj = [r \in Requests |-> 0] /\ called = [r \in Requests |-> 0]
    /\ kpc = [t \in ClockThreads |-> IF t = Worker THEN "sleep" ELSE "idle"]
    /\ kops = MaxOps

InState(t, p) == kpc[t] = p
Moves(t, p) == kpc' = [kpc EXCEPT ![t] = p]
Clip(m) == IF m < 0 THEN 0 ELSE IF m > MaxMedia THEN MaxMedia ELSE m
Magnitude(d) == IF d < 0 THEN -d ELSE d
LockFree(t) == clockLock \in {Unset, t}

-----------------------------------------------------------------------------
(* mmal_clock_update_local_time: the media time advances by Advance, what *)
(* the wall time leaves of a discontinuity is DiscAfter.                   *)
Elapsed == age..(age + MaxIdle)

Advance(diff) ==
    /\ age' = 0
    /\ media' = IF active THEN Clip(media + diff * scale) ELSE media

DiscAfter(diff) ==
    IF disc = Unset THEN Unset
    ELSE [disc EXCEPT !.left = IF @ < diff THEN -1 ELSE @ - diff]

UpdateLocalTime == \E diff \in Elapsed : Advance(diff) /\ disc' = DiscAfter(diff)

-----------------------------------------------------------------------------
(* Requests *)

Earlier(r, q) == IF scale >= 0 THEN adj[r] < adj[q] ELSE adj[r] > adj[q]

MutInsertedBack(r) == Append(pending, r)

(* mmal_clock_request_insert: at the back if that is in order, or else   *)
(* before the first request that is later (mmal_list_insert).            *)
Inserted(r) ==
    IF pending = <<>> \/ ~Earlier(r, pending[Len(pending)])
    THEN Append(pending, r)
    ELSE LET k == CHOOSE i \in DOMAIN pending :
                     /\ Earlier(r, pending[i])
                     /\ \A j \in 1..(i - 1) : ~Earlier(r, pending[j])
         IN  SubSeq(pending, 1, k - 1) \o <<r>> \o SubSeq(pending, k, Len(pending))

(* The callback is called, and the slot is free for another request. *)
Fired(rs) ==
    /\ called' = [r \in Requests |-> called[r] + (IF r \in rs THEN 1 ELSE 0)]
    /\ adj' = [r \in Requests |-> IF r \in rs THEN 0 ELSE adj[r]]

(* mmal_clock_request_flush_locked *)
FlushLocked ==
    /\ Fired({pending[i] : i \in DOMAIN pending})
    /\ freeSlots' = freeSlots + Len(pending)
    /\ pending' = <<>>
    /\ atTimer' = 0

Adding == {r \in Requests : kpc[r] \notin {"idle", "added", "refused"}}

(* mmal_clock_request_add, to the return of mmal_clock_media_time_get *)
AddTime(r) ==
    /\ InState(r, "idle") /\ ~stopping /\ Cardinality(Adding) < MaxAdding
    /\ UpdateLocalTime
    /\ \E time \in Times :
         /\ adj' = [adj EXCEPT ![r] = time]
         /\ Moves(r, IF time > media' + RequestLimit THEN "a_far" ELSE "a_near")
    /\ UNCHANGED <<pending, freeSlots, called, setVars, timer, atTimer, event, clockLock, kops>>

AddCheck(r) ==
    /\ kpc[r] \in {"a_near", "a_far"} /\ LockFree(r)
    /\ Moves(r, IF limitOn /\ InState(r, "a_far") THEN "refused" ELSE "a_slot")
    /\ UNCHANGED <<timeVars, listVars, setVars, timer, atTimer, event, clockLock, kops>>

(* mmal_list_pop_front on the free list, outside the clock's lock *)
AddSlot(r) ==
    /\ InState(r, "a_slot")
    /\ IF freeSlots = 0
       THEN Moves(r, "refused") /\ UNCHANGED <<freeSlots, adj>>
       ELSE /\ Moves(r, "a_insert")
            /\ freeSlots' = freeSlots - 1
            /\ adj' = [adj EXCEPT ![r] = @ - scale * TargetOffset]
    /\ UNCHANGED <<timeVars, pending, called, setVars, timer, atTimer, event, clockLock, kops>>

AddInsert(r) ==
    /\ InState(r, "a_insert") /\ LockFree(r)
    /\ IF stopping THEN Moves(r, "refused") /\ UNCHANGED pending
       ELSE Moves(r, "a_wake") /\ pending' = Inserted(r)
    /\ UNCHANGED <<timeVars, freeSlots, called, setVars, timer, atTimer, event, clockLock, adj, kops>>

MutAddNoWake(r) ==
    /\ InState(r, "a_wake")
    /\ event' = event /\ Moves(r, "added")
    /\ UNCHANGED <<timeVars, listVars, setVars, timer, atTimer, clockLock, kops>>

AddWake(r) ==
    /\ InState(r, "a_wake")
    /\ event' = event + 1 /\ Moves(r, "added")
    /\ UNCHANGED <<timeVars, listVars, setVars, timer, atTimer, clockLock, kops>>

AddStep(r) == AddTime(r) \/ AddCheck(r) \/ AddSlot(r) \/ AddInsert(r) \/ AddWake(r)

-----------------------------------------------------------------------------
(* The worker thread *)

(* mmal_clock_worker_thread, and mmal_clock_process_requests up to LOCK *)
Woken ==
    /\ InState(Worker, "sleep") /\ event > 0
    /\ event' = event - 1 /\ timer' = Unset
    /\ Moves(Worker, IF stopping THEN "exit"
                     ELSE IF pending = <<>> \/ ~active THEN "sleep" ELSE "w_lock")
    /\ UNCHANGED <<timeVars, listVars, setVars, atTimer, clockLock, kops>>

(* Once inside: if a timer was set, look for a discontinuity first. *)
WorkerLock ==
    /\ InState(Worker, "w_lock") /\ clockLock = Unset
    /\ clockLock' = Worker
    /\ IF atTimer = 0 THEN UNCHANGED <<timeVars, listVars, atTimer>>
       ELSE \E diff \in Elapsed :
              /\ Advance(diff)
              /\ IF scale > 0 /\ media' + Discont < atTimer
                 THEN /\ disc' = [left |-> DiscontTime, from |-> atTimer,
                                  to |-> atTimer + DiscontTime]
                      /\ FlushLocked
                 ELSE disc' = DiscAfter(diff) /\ UNCHANGED <<listVars, atTimer>>
    /\ Moves(Worker, "w_next")
    /\ UNCHANGED <<setVars, timer, event, kops>>

InDiscont(a, d) == d # Unset /\ a >= d.from /\ a < d.to

Due(a, now) ==
    \/ scale > 0 /\ now + MinDelay >= a
    \/ scale < 0 /\ now - MinDelay <= a

(* The loop: call the request at the front, or set the timer for it and *)
(* leave; leave when there is none.                                     *)
WorkerTest ==
    /\ InState(Worker, "w_next") /\ pending # <<>>
    /\ \E diff \in Elapsed :
         LET d == DiscAfter(diff)
             next == Head(pending)
         IN  /\ Advance(diff)
             /\ disc' = IF d # Unset /\ d.left < 0 THEN Unset ELSE d
             /\ IF InDiscont(adj[next], disc') \/ Due(adj[next], media')
                THEN /\ Fired({next})
                     /\ freeSlots' = freeSlots + 1
                     /\ pending' = Tail(pending)
                     /\ UNCHANGED <<timer, atTimer, clockLock, kpc>>
                ELSE /\ timer' = IF scale = 0 THEN WaitTime ELSE Magnitude(media' - adj[next])
                     /\ atTimer' = media'
                     /\ clockLock' = Unset /\ Moves(Worker, "sleep")
                     /\ UNCHANGED listVars
    /\ UNCHANGED <<setVars, event, kops>>

WorkerLeave ==
    /\ InState(Worker, "w_next") /\ pending = <<>>
    /\ clockLock' = Unset /\ Moves(Worker, "sleep")
    /\ UNCHANGED <<timeVars, listVars, setVars, timer, atTimer, event, kops>>

WorkerStep == Woken \/ WorkerLock \/ WorkerTest \/ WorkerLeave

-----------------------------------------------------------------------------
(* The control thread *)

CtlCalls == InState(Ctl, "idle") /\ kops > 0 /\ kops' = kops - 1

(* mmal_clock_start, mmal_clock_stop *)
SetActive ==
    /\ CtlCalls
    /\ active' = ~active
    /\ Moves(Ctl, IF active' THEN "c_wake" ELSE "idle")
    /\ UNCHANGED <<timeVars, listVars, average, scale, limitOn, stopping, timer, atTimer,
                   event, clockLock>>

(* mmal_clock_request_flush, mmal_clock_request_threshold_set *)
CtlFlush ==
    /\ CtlCalls /\ LockFree(Ctl)
    /\ FlushLocked
    /\ UNCHANGED <<timeVars, setVars, timer, event, clockLock, kpc>>

CtlLimit ==
    /\ CtlCalls /\ LockFree(Ctl)
    /\ limitOn' = ~limitOn
    /\ UNCHANGED <<timeVars, listVars, average, scale, active, stopping, timer, atTimer,
                   event, clockLock, kpc>>

(* mmal_clock_scale_set, mmal_clock_media_time_set: the local time first *)
CtlTime ==
    /\ CtlCalls
    /\ UpdateLocalTime
    /\ \E p \in {"c_scale", "c_media"} : Moves(Ctl, p)
    /\ UNCHANGED <<listVars, setVars, timer, atTimer, event, clockLock>>

SetScale ==
    /\ InState(Ctl, "c_scale") /\ LockFree(Ctl)
    /\ scale' \in IF Reverse THEN {-1, 0, 1} ELSE {0, 1}
    /\ Moves(Ctl, "c_wake")
    /\ UNCHANGED <<timeVars, listVars, average, active, limitOn, stopping, timer, atTimer,
                   event, clockLock, kops>>

(* The moving average of mmal_clock_media_time_set, rounded as >> rounds *)
SetMedia ==
    /\ InState(Ctl, "c_media")
    /\ \E ref \in Times :
         LET diff == media - ref
             ave  == (63 * average + diff) \div 64
         IN  CASE Magnitude(diff) > Upper ->
                    media' = ref /\ average' = 0 /\ Moves(Ctl, "c_wake")
               [] Magnitude(diff) <= Upper /\ Magnitude(ave) > Lower ->
                    media' = Clip(media - ave) /\ average' = 0 /\ Moves(Ctl, "c_wake")
               [] OTHER -> average' = ave /\ Moves(Ctl, "idle") /\ UNCHANGED media
    /\ UNCHANGED <<age, disc, listVars, scale, active, limitOn, stopping, timer, atTimer,
                   event, clockLock, kops>>

CtlWake ==
    /\ InState(Ctl, "c_wake")
    /\ event' = event + 1
    /\ Moves(Ctl, IF stopping THEN "c_join" ELSE "idle")
    /\ UNCHANGED <<timeVars, listVars, setVars, timer, atTimer, clockLock, kops>>

(* mmal_clock_destroy: mmal_clock_stop_thread, then the requests left *)
ClockDestroy ==
    /\ InState(Ctl, "idle")
    /\ stopping' = TRUE /\ Moves(Ctl, "c_wake")
    /\ UNCHANGED <<timeVars, listVars, average, scale, active, limitOn, timer, atTimer,
                   event, clockLock, kops>>

ClockJoin ==
    /\ InState(Ctl, "c_join") /\ InState(Worker, "exit") /\ LockFree(Ctl)
    /\ FlushLocked
    /\ Moves(Ctl, "destroyed")
    /\ UNCHANGED <<timeVars, setVars, timer, event, clockLock, kops>>

CtlStep == \/ SetActive \/ CtlFlush \/ CtlLimit \/ CtlTime \/ SetScale \/ SetMedia
           \/ CtlWake \/ ClockDestroy \/ ClockJoin

-----------------------------------------------------------------------------
(* The timer of the operating system (vcos_timer) *)

TimerFires ==
    /\ timer # Unset
    /\ timer' = Unset /\ event' = event + 1
    /\ age' = IF age > timer THEN age ELSE timer
    /\ UNCHANGED <<media, disc, listVars, setVars, atTimer, clockLock, kpc, kops>>

ClockNext ==
    \/ \E r \in Requests : AddStep(r)
    \/ WorkerStep \/ CtlStep \/ TimerFires

(* Threads run and a timer that is set expires; nobody has to call the *)
(* clock.                                                              *)
ClockFairness ==
    /\ WF_clockVars(WorkerStep) /\ WF_clockVars(TimerFires)
    /\ \A r \in Requests : WF_clockVars(AddStep(r) /\ ~InState(r, "idle"))
    /\ WF_clockVars(CtlStep /\ ~InState(Ctl, "idle"))

ClockSpec == ClockInit /\ [][ClockNext]_clockVars /\ ClockFairness

-----------------------------------------------------------------------------
(* Properties *)

(* A request slot is never lost while the clock runs: it is free, in the  *)
(* pending list, or in the hands of a call of mmal_clock_request_add.     *)
SlotsKept ==
    ~stopping => Len(pending) + freeSlots + Cardinality({r \in Requests : InState(r, "a_insert")}) = Slots

(* A request that mmal_clock_request_add accepted is called once: never   *)
(* twice, and by mmal_clock_destroy at the latest; one that was refused   *)
(* is not called.                                                         *)
CalledOnce ==
    /\ \A r \in Requests : called[r] <= (IF kpc[r] \in {"a_wake", "added"} THEN 1 ELSE 0)
    /\ InState(Ctl, "destroyed") =>
         \A r \in Requests : kpc[r] \in {"a_wake", "added"} => called[r] = 1

(* "Earliest request is always at the front" (mmal_clock_process_requests),*)
(* so the timer set for the front one is early enough for all.            *)
EarliestInFront ==
    \A i, j \in DOMAIN pending : i < j => ~Earlier(pending[j], pending[i])

(* No wakeup is lost: a request that waits in a running clock is called,  *)
(* unless the clock is stopped or paused.                                 *)
RequestServed ==
    \A r \in Requests :
      (\E i \in DOMAIN pending : pending[i] = r) ~> (called[r] = 1 \/ ~active \/ scale = 0)

(* Requests of the clock: no slot is lost, no callback is called twice, and *)
(* the earliest request is the next one served.                             *)
RequestsKept == ClockTypeOK /\ SlotsKept /\ CalledOnce /\ EarliestInFront
=============================================================================
