----------------------------- MODULE Ch34xLines ------------------------------
(***************************************************************************)
(* The modem lines of the CH34x driver: priv->line_control and             *)
(* priv->line_status, what set_termios, tiocmset and close send to the     *)
(* chip, what the completion handlers of the interrupt and the bulk read   *)
(* store, and TIOCMIWAIT, which waits for a change of a status line.       *)
(*                                                                         *)
(* A change of line_control happens with priv->lock held, the control      *)
(* message that makes it true on the wire after the lock is released.  The *)
(* tty layer runs one set_termios at a time, the ioctls of several tasks   *)
(* beside it, and close after all of them returned.                        *)
(***************************************************************************)
EXTENDS Naturals, FiniteSets

CONSTANTS Tasks,       \* tasks with the port open
          Watched,     \* status lines, of which TIOCMIWAIT watches one
          MaxReports,  \* bound: interrupt reports
          HUPCL        \* the port is set to drop the lines on close

CONTROL == {"DTR", "RTS"}

VARIABLES lineControl, \* CONTROL lines as priv->line_control has them
          lineStatus,  \* status lines that are on
          wireLines,   \* CONTROL lines as the chip drives them
          waitFlag,    \* the static wait_flag
          portOpen,
          taskPc, taskLines, taskPrev, taskArg,
          seenChange,  \* per task: a watched line changed since TIOCMIWAIT
          reportsLeft

lineVars == <<lineControl, lineStatus, wireLines, waitFlag, portOpen, taskPc, taskLines, taskPrev,
              taskArg, seenChange, reportsLeft>>

TaskTo(t, from, to) == taskPc[t] = from /\ taskPc' = [taskPc EXCEPT ![t] = to]

(* A line that the task's TIOCMIWAIT asks for differs. *)
Differs(t, before, after) == \E line \in taskArg[t] : (line \in before) # (line \in after)

AllIdle == \A t \in Tasks : taskPc[t] = "idle"

LinesInit ==
    /\ lineControl = {} /\ lineStatus = {} /\ wireLines = {} /\ waitFlag = FALSE
    /\ portOpen = FALSE /\ taskPc = [t \in Tasks |-> "idle"]
    /\ taskLines = [t \in Tasks |-> {}] /\ taskPrev = [t \in Tasks |-> {}]
    /\ taskArg = [t \in Tasks |-> {}] /\ seenChange = [t \in Tasks |-> FALSE]
    /\ reportsLeft = MaxReports

-----------------------------------------------------------------------------
(* The end of ch34x_set_termios: baud rate B0 drops the lines, another     *)
(* raises them; a message is sent if that is a change.  Before that the    *)
(* function returns when tty_termios_hw_change sees none.                  *)
ch34x_set_termios(t, B0) ==
    /\ portOpen /\ taskPc[t] = "idle" /\ \A u \in Tasks : taskPc[u] # "termios"
    /\ lineControl' = IF B0 THEN {} ELSE CONTROL
    /\ IF lineControl' # lineControl
       THEN taskLines' = [taskLines EXCEPT ![t] = lineControl'] /\ TaskTo(t, "idle", "termios")
       ELSE UNCHANGED <<taskLines, taskPc>>
    /\ UNCHANGED <<lineStatus, wireLines, waitFlag, portOpen, taskPrev, taskArg, seenChange, reportsLeft>>

(* ch34x_open calls set_termios before the reads are submitted.  The old   *)
(* settings it passes are never written: set_termios may take them for     *)
(* the new ones and return.                                                *)
OpenLines ==
    /\ ~portOpen /\ AllIdle /\ portOpen' = TRUE
    /\ \/ /\ lineControl' = CONTROL
          /\ wireLines' = IF lineControl # CONTROL THEN CONTROL ELSE wireLines
       \/ UNCHANGED <<lineControl, wireLines>>
    /\ UNCHANGED <<lineStatus, waitFlag, taskPc, taskLines, taskPrev, taskArg, seenChange, reportsLeft>>

(* ch34x_tiocmset *)
Tiocmset(t, set, clear) ==
    /\ portOpen /\ TaskTo(t, "idle", "message")
    /\ lineControl' = (lineControl \cup set) \ clear
    /\ taskLines' = [taskLines EXCEPT ![t] = lineControl']
    /\ UNCHANGED <<lineStatus, wireLines, waitFlag, portOpen, taskPrev, taskArg, seenChange, reportsLeft>>

(* set_control_lines *)
Message(t) ==
    /\ TaskTo(t, "message", "idle") \/ TaskTo(t, "termios", "idle")
    /\ wireLines' = taskLines[t] /\ taskLines' = [taskLines EXCEPT ![t] = {}]
    /\ UNCHANGED <<lineControl, lineStatus, waitFlag, portOpen, taskPrev, taskArg, seenChange,
                   reportsLeft>>

(* The end of ch34x_close, all URBs killed: HUPCL drops the lines. *)
CloseLines ==
    /\ portOpen /\ AllIdle /\ portOpen' = FALSE
    /\ IF HUPCL THEN lineControl' = {} /\ wireLines' = {}
                ELSE UNCHANGED <<lineControl, wireLines>>
    /\ UNCHANGED <<lineStatus, waitFlag, taskPc, taskLines, taskPrev, taskArg, seenChange, reportsLeft>>

(* What ch34x_update_line_status makes of line_control, the register of    *)
(* port B in the report, whatever the driver set before.                   *)
Stored(on) == SUBSET CONTROL

(* ch34x_update_line_status.  It wakes delta_msr_wait, where nobody waits. *)
Report ==
    /\ portOpen /\ reportsLeft > 0 /\ reportsLeft' = reportsLeft - 1
    /\ \E on \in SUBSET Watched :
           /\ lineStatus' = on /\ lineControl' \in Stored(on)
           /\ seenChange' = [t \in Tasks |-> taskPc[t] # "idle" /\
                  (seenChange[t] \/ Differs(t, on, lineStatus))]
    /\ waitFlag' = TRUE
    /\ UNCHANGED <<wireLines, portOpen, taskPc, taskLines, taskPrev, taskArg>>

(* ch34x_read_bulk_callback clears the transient errors of line_status,    *)
(* none of which is a line of Watched here, and sets the flag.             *)
BulkRead ==
    /\ portOpen /\ ~waitFlag /\ waitFlag' = TRUE
    /\ UNCHANGED <<lineControl, lineStatus, wireLines, portOpen, taskPc, taskLines, taskPrev, taskArg,
                   seenChange, reportsLeft>>

-----------------------------------------------------------------------------
(* wait_modem_info *)
Iwait(t, arg) ==
    /\ portOpen /\ TaskTo(t, "idle", "wait")
    /\ taskArg' = [taskArg EXCEPT ![t] = arg]
    /\ taskPrev' = [taskPrev EXCEPT ![t] = lineStatus]
    /\ seenChange' = [seenChange EXCEPT ![t] = FALSE]
    /\ UNCHANGED <<lineControl, lineStatus, wireLines, waitFlag, portOpen, taskLines, reportsLeft>>

(* wait_event_interruptible(wq, wait_flag != 0): the condition is tested   *)
(* on entry; asleep, the task is woken through wq alone, and no code wakes *)
(* wq.                                                                     *)
IwaitPass(t) ==
    /\ TaskTo(t, "wait", "look") /\ waitFlag
    /\ waitFlag' = FALSE
    /\ UNCHANGED <<lineControl, lineStatus, wireLines, portOpen, taskLines, taskPrev, taskArg, seenChange,
                   reportsLeft>>

IwaitSleep(t) ==
    /\ TaskTo(t, "wait", "asleep") /\ ~waitFlag
    /\ UNCHANGED <<lineControl, lineStatus, wireLines, waitFlag, portOpen, taskLines, taskPrev, taskArg,
                   seenChange, reportsLeft>>

Forget(t) ==
    /\ taskArg' = [taskArg EXCEPT ![t] = {}]
    /\ taskPrev' = [taskPrev EXCEPT ![t] = {}]
    /\ seenChange' = [seenChange EXCEPT ![t] = FALSE]

(* A signal ends the sleep, and the call with -ERESTARTSYS. *)
IwaitSignal(t) ==
    /\ TaskTo(t, "asleep", "idle") /\ waitFlag' = FALSE /\ Forget(t)
    /\ UNCHANGED <<lineControl, lineStatus, wireLines, portOpen, taskLines, reportsLeft>>

MutIwaitLook(t) ==
    /\ taskPc[t] = "look"
    /\ taskPc' = [taskPc EXCEPT ![t] = IF taskPrev[t] # lineStatus THEN "changed" ELSE "wait"]
    /\ taskPrev' = [taskPrev EXCEPT ![t] = lineStatus]
    /\ UNCHANGED <<lineControl, lineStatus, wireLines, waitFlag, portOpen, taskLines, taskArg, seenChange,
                   reportsLeft>>

(* Returns 0 when the watched line differs, else waits again. *)
IwaitLook(t) ==
    /\ taskPc[t] = "look"
    /\ taskPc' = [taskPc EXCEPT ![t] =
           IF Differs(t, taskPrev[t], lineStatus) THEN "changed" ELSE "wait"]
    /\ taskPrev' = [taskPrev EXCEPT ![t] = lineStatus]
    /\ UNCHANGED <<lineControl, lineStatus, wireLines, waitFlag, portOpen, taskLines, taskArg, seenChange,
                   reportsLeft>>

IwaitReturn(t) ==
    /\ TaskTo(t, "changed", "idle") /\ Forget(t)
    /\ UNCHANGED <<lineControl, lineStatus, wireLines, waitFlag, portOpen, taskLines, reportsLeft>>

TaskStep(t) == Message(t) \/ IwaitPass(t) \/ IwaitSleep(t) \/ IwaitLook(t) \/ IwaitReturn(t)

LinesNext ==
    \/ OpenLines \/ CloseLines \/ Report \/ BulkRead
    \/ \E t \in Tasks :
          \/ \E B0 \in BOOLEAN : ch34x_set_termios(t, B0)
          \/ \E set, clear \in SUBSET CONTROL : Tiocmset(t, set, clear)
          \/ (\E arg \in SUBSET Watched \ {{}} : Iwait(t, arg)) \/ IwaitSignal(t) \/ TaskStep(t)

LinesFairness == \A t \in Tasks : WF_lineVars(TaskStep(t))

LinesSpec == LinesInit /\ [][LinesNext]_lineVars /\ LinesFairness

-----------------------------------------------------------------------------
LinesTypeOK ==
    /\ lineControl \subseteq CONTROL /\ wireLines \subseteq CONTROL /\ lineStatus \subseteq Watched
    /\ waitFlag \in BOOLEAN /\ portOpen \in BOOLEAN
    /\ taskPc \in [Tasks -> {"idle", "message", "termios", "wait", "asleep", "look", "changed"}]

(* A closed port drives neither DTR nor RTS (HUPCL): no message of an      *)
(* earlier ioctl arrives after the one of ch34x_close.                     *)
ClosedLinesLow == ~portOpen => wireLines = {}

(* TIOCMIWAIT returns 0 only after the line it waits for has changed since *)
(* the call, not for another line or for received data.                    *)
ReturnedMeansChanged == \A t \in Tasks : taskPc[t] = "changed" => seenChange[t]

(* "change control lines if we are switching to or from B0": at rest the   *)
(* chip drives what line_control, which TIOCMGET returns, says.            *)
LinesSettle ==
    (portOpen /\ AllIdle) => wireLines = lineControl

(* TIOCMIWAIT: a task that waits is told of a change of its line. *)
WaiterTold ==
    \A t \in Tasks : (taskPc[t] \in {"wait", "asleep"} /\ seenChange[t]) ~> (taskPc[t] \in {"changed", "idle"})

(* The control lines fall with ch34x_close, and TIOCMIWAIT returns for a   *)
(* change of its own line only.                                            *)
LinesSafe == LinesTypeOK /\ ClosedLinesLow /\ ReturnedMeansChanged
=============================================================================
