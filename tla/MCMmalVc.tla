------------------------------ MODULE MCMmalVc ------------------------------
(* The MMAL client of VideoCore and the MMAL clock for TLC.  They share no  *)
(* variable: a behaviour is one of its subject, while the other stays in    *)
(* its initial state, so one run explores the sum of the two state spaces.  *)
EXTENDS MmalVcClient, MmalClock

VARIABLE subject

About(c) == subject = c

VcClockInit == subject \in {"vc", "clock"} /\ VcInit /\ ClockInit

VcClockNext ==
    /\ subject' = subject
    /\ \/ About("vc") /\ VcNext /\ UNCHANGED clockVars
       \/ About("clock") /\ ClockNext /\ UNCHANGED vcVars

(* The fairness of each component, while it is the subject.                 *)
VcClockFairness ==
    /\ \A t \in VcThreads : SF_vcVars(About("vc") /\ InCall(t))
    /\ WF_vcVars(About("vc") /\ VcTake) /\ WF_vcVars(About("vc") /\ VcBulk)
    /\ WF_vcVars(About("vc") /\ ReplyArrives)
    /\ WF_clockVars(About("clock") /\ WorkerStep) /\ WF_clockVars(About("clock") /\ TimerFires)
    /\ \A r \in Requests : WF_clockVars(About("clock") /\ AddStep(r) /\ ~InState(r, "idle"))
    /\ WF_clockVars(About("clock") /\ CtlStep /\ ~InState(Ctl, "idle"))

VcClockSpec ==
    VcClockInit /\ [][VcClockNext]_<<vcVars, clockVars, subject>> /\ VcClockFairness
=============================================================================
