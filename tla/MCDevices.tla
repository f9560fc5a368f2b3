----------------------------- MODULE MCDevices -----------------------------
(* The UVC buffer queue and the two USB serial drivers for TLC.  They share *)
(* no variable: a behaviour is one of its subject, while the others stay in *)
(* an initial state, so one run explores the sum of the four state spaces.  *)
EXTENDS UvcQueue, Ch34xWrite, Ch34xLines, Cp210x

VARIABLE subject

About(c) == subject = c

Plain == [csize |-> 8, parenb |-> FALSE, parodd |-> FALSE, cmspar |-> FALSE,
          cstopb |-> FALSE, crtscts |-> FALSE, ospeed |-> 9600]
MCRequests ==
    {[Plain EXCEPT !.csize = 5, !.cstopb = TRUE],
     [Plain EXCEPT !.parenb = TRUE, !.parodd = TRUE, !.cmspar = TRUE],
     [Plain EXCEPT !.parenb = TRUE, !.crtscts = TRUE, !.ospeed = 4500]}
MCLines == {2048, 2304 + 16, 2048 + 80 + 1}

DevicesInit ==
    /\ subject \in {"uvc", "ch34x write", "ch34x lines", "cp210x"}
    /\ QueueInit /\ WriteInit /\ LinesInit /\ CpInit
    /\ ~About("cp210x") =>
          /\ ~swappedChip /\ devLine = CHOOSE l \in PowerLines : TRUE
          /\ devFlow.rts = 1

DevicesNext ==
    /\ subject' = subject
    /\ \/ About("uvc") /\ QueueNext /\ UNCHANGED <<writeVars, lineVars, cpVars>>
       \/ About("ch34x write") /\ WriteNext /\ UNCHANGED <<uvcVars, lineVars, cpVars>>
       \/ About("ch34x lines") /\ LinesNext /\ UNCHANGED <<uvcVars, writeVars, cpVars>>
       \/ About("cp210x") /\ CpNext /\ UNCHANGED <<uvcVars, writeVars, lineVars>>

(* WriteFairness, while the ch34x driver's output is the subject.           *)
DevicesFairness ==
    /\ \A s \in Sides : WF_writeVars(About("ch34x write") /\ (Send34(s) \/ Submit34(s)))
    /\ WF_writeVars(About("ch34x write") /\ WriteDone)
    /\ WF_writeVars(About("ch34x write") /\ HandlerClear)
    /\ WF_writeVars(About("ch34x write") /\ Closing)

DevicesSpec ==
    /\ DevicesInit /\ [][DevicesNext]_<<uvcVars, writeVars, lineVars, cpVars, subject>>
    /\ DevicesFairness
=============================================================================
