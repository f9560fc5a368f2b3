------------------------------- MODULE MCMmal -------------------------------
(* The MMAL core's queues, ports and components for TLC.  They share no     *)
(* variable: a behaviour is one of its subject, while the others stay in an *)
(* initial state, so one run explores the sum of the three state spaces.    *)
EXTENDS MmalQueue, MmalPort, MmalComponent

VARIABLE subject

mmalVars == <<qvars, portVars, compVars>>

About(c) == subject = c

MmalInit ==
    /\ subject \in {"queue", "port", "component"}
    /\ QueueInit /\ PortInit /\ CompInit
    /\ ~About("queue") => qgot[CHOOSE p \in Putters : TRUE] = Headers
    /\ ~About("port") => ppool = CHOOSE p \in Pools : TRUE

(* A component comes to its end; queues and ports must never get stuck.     *)
MmalRest == About("component") /\ UNCHANGED mmalVars

MmalNext ==
    /\ subject' = subject
    /\ \/ About("queue") /\ QueueNext /\ UNCHANGED <<portVars, compVars>>
       \/ About("port") /\ PortNext /\ UNCHANGED <<qvars, compVars>>
       \/ About("component") /\ CompNext /\ UNCHANGED <<qvars, portVars>>
       \/ MmalRest

(* The fairness of each component, while it is the subject.                 *)
MmalFairness ==
    /\ \A t \in Getters : WF_qvars(About("queue") /\ QueueTake(t))
    /\ \A t \in Waiters : WF_qvars(About("queue") /\ (QueueTake(t) \/ QueuePost(t)))
    /\ \A t \in Getters \cup Waiters : SF_qvars(About("queue") /\ QueueGet(t))
    /\ \A t \in Callers : SF_portVars(About("port") /\ CallerStep(t) /\ ppc[t] # "idle")
    /\ SF_portVars(About("port") /\ ActStep)
    /\ \A b \in Headers : WF_portVars(About("port") /\ VcReturn(b))
    /\ \A t \in CompThreads : WF_compVars(About("component") /\ CompStep(t) /\ cpc[t] # "idle")
    /\ \A c \in Comps, r \in Refs :
          WF_compVars(About("component") /\ \E t \in CompThreads : PayloadFree(t, c, r))

MmalSpec == MmalInit /\ [][MmalNext]_<<mmalVars, subject>> /\ MmalFairness
=============================================================================
