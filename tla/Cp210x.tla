------------------------------- MODULE Cp210x -------------------------------
(***************************************************************************)
(* The line settings of contrib/packages/cp210x/src/cp210x.c: what the     *)
(* driver keeps in the termios of the terminal and what it writes into the *)
(* registers of the chip, across probe, open, set_termios, close and a     *)
(* replug.  The terminal layer serialises these calls, so each is one      *)
(* action; inside a call each control message of CpFaults may fail, at     *)
(* most one in a call (the bound of the model).  LINE_CTL keeps its 16     *)
(* bits, and the two byte orders in which chips return it.  Modem lines,   *)
(* break and GPIO are not modelled.                                        *)
(***************************************************************************)
EXTENDS Integers, Sequences

CONSTANTS
    Requests,    \* termios settings programs ask for
    PowerLines,  \* LINE_CTL values a chip may wake up with
    Junk,        \* what an uninitialised u16 of the stack may hold
    CpFaults     \* control messages that may fail

VARIABLES
    swappedChip,   \* the CP2108 bug: GET_LINE_CTL returns its bytes swapped
    devLine, devBaud, devFlow,          \* registers of the chip
    swappedFlag,                        \* has_swapped_line_ctl
    tios,                               \* tty->termios
    cpState,                            \* "plugged", "probed", "open"
    trusted                             \* settings whose last message went well

cpVars == <<swappedChip, devLine, devBaud, devFlow, swappedFlag, tios, cpState, trusted>>

Settings == {"baud", "line", "flow"}
Failing == {{}} \cup {{m} : m \in CpFaults}

-----------------------------------------------------------------------------
(* The fields of LINE_CTL: 0x0f00 data bits, 0x00f0 parity, 0x000f stop.   *)
Data(b) == (b \div 256) % 16
Parity(b) == (b \div 16) % 16
Stop(b) == b % 16
WithData(b, d) == b + 256 * (d - Data(b))
WithParity(b, p) == b + 16 * (p - Parity(b))
WithStop(b, s) == b + (s - Stop(b))
swab16(b) == 256 * (b % 256) + b \div 256

Word == {n \in Nat : n < 65536}  \* u16
Flow == [cts : BOOLEAN, rts : 0 .. 2, limits : BOOLEAN]
Termios == [csize : 5 .. 8, parenb : BOOLEAN, parodd : BOOLEAN, cmspar : BOOLEAN,
            cstopb : BOOLEAN, crtscts : BOOLEAN, ospeed : Nat]

ASSUME CpAssumption == Requests \subseteq Termios /\ PowerLines \subseteq Word /\ Junk \subseteq Word

(* The settings lie within their widths, and while the port is open the    *)
(* flag of the byte-order workaround says what kind of chip this is.       *)
CpTypeOK ==
    /\ devLine \in Word /\ devBaud \in Nat /\ devFlow \in Flow
    /\ tios \in Termios
    /\ cpState \in {"plugged", "probed", "open"}
    /\ trusted \subseteq Settings
    /\ cpState = "open" => swappedFlag = swappedChip

-----------------------------------------------------------------------------
(* Requested rates up to the first of a pair become the second.            *)
Table == << <<300, 300>>, <<600, 600>>, <<1200, 1200>>, <<1800, 1800>>, <<2400, 2400>>,
            <<4000, 4000>>, <<4803, 4800>>, <<7207, 7200>>, <<9612, 9600>>, <<14428, 14400>>,
            <<16062, 16000>>, <<19250, 19200>>, <<28912, 28800>>, <<38601, 38400>>,
            <<51558, 51200>>, <<56280, 56000>>, <<58053, 57600>>, <<64111, 64000>>,
            <<77608, 76800>>, <<117028, 115200>>, <<129347, 128000>>, <<156868, 153600>>,
            <<237832, 230400>>, <<254234, 250000>>, <<273066, 256000>>, <<491520, 460800>>,
            <<567138, 500000>>, <<670254, 576000>>, <<999999, 921600>> >>

(* Mutant: a rate equal to one of the table moves on to the next.          *)
MutQuantise(baud) ==
    LET rows == {i \in DOMAIN Table : baud < Table[i][2]}
    IN  IF rows # {} THEN Table[CHOOSE i \in rows : \A j \in rows : i <= j][2]
        ELSE IF baud > 2000000 THEN 2000000 ELSE baud
quantise_baudrate(baud) ==
    LET rows == {i \in DOMAIN Table : baud <= Table[i][1]}
    IN  IF rows # {} THEN Table[CHOOSE i \in rows : \A j \in rows : i <= j][2]
        ELSE IF baud > 2000000 THEN 2000000 ELSE baud

(* GET_LINE_CTL as the chip answers it, and with the workaround applied.   *)
ReadLine(line) == IF swappedChip THEN swab16(line) ELSE line
get_line_ctl(line) == IF swappedFlag THEN swab16(ReadLine(line)) ELSE ReadLine(line)

Written(line, need, ok, bits) == IF need /\ ok THEN bits ELSE line

-----------------------------------------------------------------------------
CpInit ==
    /\ swappedChip \in BOOLEAN
    /\ devLine \in PowerLines /\ devBaud = 9600
    /\ devFlow \in {f \in Flow : f.limits /\ f.rts # 0 /\ (f.cts <=> f.rts = 2)}
    /\ swappedFlag = FALSE
    /\ tios = [csize |-> 8, parenb |-> FALSE, parodd |-> FALSE, cmspar |-> FALSE,
               cstopb |-> FALSE, crtscts |-> FALSE, ospeed |-> 9600]
    /\ cpState = "plugged" /\ trusted = {}

(* The part number and the register are read, a known value is written and *)
(* read back; a failed message ends the probe where it is.                 *)
Sent(fails, upTo) ==
    \A i \in 1 .. upTo : <<"readLine", "writeTest", "readTest", "writeBack">>[i] \notin fails

Probe ==
    /\ cpState = "plugged"
    /\ \E fails \in Failing :
        LET swapped == Sent(fails, 3) /\ ReadLine(2048) = 8
            save == IF swapped THEN swab16(ReadLine(devLine)) ELSE ReadLine(devLine)
        IN  /\ swappedFlag' = swapped
            /\ devLine' = IF Sent(fails, 4) THEN save
                          ELSE Written(devLine, TRUE, Sent(fails, 2), 2048)
            /\ cpState' = IF Sent(fails, 4) THEN "probed" ELSE "plugged"
    /\ UNCHANGED <<swappedChip, devBaud, devFlow, tios, trusted>>

(* Mutant: a reserved stop-bit code is left in the chip.                   *)
MutCorrected(bits) ==
    LET b1 == IF Data(bits) \in 5 .. 8 THEN bits ELSE WithData(bits, 8)
        b2 == IF Parity(b1) \in 0 .. 4 THEN b1 ELSE WithParity(b1, 0)
    IN  <<b1, b2, b2>>

(* The termios of the chip's registers, unsupported fields first corrected *)
(* in the chip, field by field; CMSPAR is only ever set here.              *)
Corrected(bits) ==
    LET b1 == IF Data(bits) \in 5 .. 8 THEN bits ELSE WithData(bits, 8)
        b2 == IF Parity(b1) \in 0 .. 4 THEN b1 ELSE WithParity(b1, 0)
        b3 == IF Stop(b2) \in {0, 2} THEN b2 ELSE WithStop(b2, 0)
    IN  <<b1, b2, b3>>
FromLine(t, bits) ==
    LET c == Corrected(bits)
        p == Parity(c[2])
    IN  [t EXCEPT !.csize = Data(c[1]),
                  !.parenb = p # 0,
                  !.parodd = (p = 0 /\ @) \/ p \in {1, 3},
                  !.cmspar = @ \/ p \in {3, 4},
                  !.cstopb = Stop(c[3]) = 2]
LineAfter(line, bits, fails) ==
    LET c == Corrected(bits)
        l1 == Written(line, c[1] # bits, "setData" \notin fails, c[1])
        l2 == Written(l1, c[2] # c[1], "setParity" \notin fails, c[2])
    IN  Written(l2, c[3] # c[2], "setStop" \notin fails, c[3])

(* The rate asked for, quantised; a refused one gives way to the old rate. *)
change_speed(t, fails, old) ==
    IF "setBaud" \in fails THEN old ELSE quantise_baudrate(t.ospeed)

OpenWith(fails, junk) ==
    LET bits == IF "getData" \in fails THEN junk ELSE get_line_ctl(devLine)
        read == [FromLine(tios, bits) EXCEPT
                     !.crtscts = devFlow.cts /\ "getFlow" \notin fails,
                     !.ospeed = IF "getBaud" \in fails THEN 0 ELSE devBaud]
    IN  /\ "enable" \notin fails
        /\ devLine' = LineAfter(devLine, bits, fails)
        /\ tios' = [read EXCEPT !.ospeed = change_speed(read, fails, 9600)]
        /\ devBaud' = IF "setBaud" \in fails THEN devBaud ELSE tios'.ospeed
        /\ trusted' = {s \in Settings : fails \cap
               (CASE s = "baud" -> {"getBaud", "setBaud"}
                  [] s = "line" -> {"getData", "setData", "setParity", "setStop"}
                  [] OTHER -> {"getFlow"}) = {}}
        /\ cpState' = IF "generic" \in fails THEN "probed" ELSE "open"

OpenPort ==
    /\ cpState = "probed"
    /\ \E fails \in Failing, junk \in Junk : OpenWith(fails, junk)
    /\ UNCHANGED <<swappedChip, devFlow, swappedFlag>>

(* A read-modify-write of LINE_CTL.  r has the register and the variable   *)
(* `bits', which a failed read leaves as it was: as the update before left *)
(* it, or as it was on the stack.                                          *)
Fetched(r, get, fails) == IF get \in fails THEN r.bits ELSE get_line_ctl(r.line)
Modified(r, need, ok, bits) ==
    [line |-> Written(r.line, need, ok, bits), bits |-> IF need THEN bits ELSE r.bits]
ParityOf(t) == IF ~t.parenb THEN 0
               ELSE IF t.cmspar THEN (IF t.parodd THEN 3 ELSE 4)
               ELSE IF t.parodd THEN 1 ELSE 2
ParityBits(t) == <<t.parenb, t.parodd, t.cmspar>>

SetWith(t, fails, junk) ==
    LET newBaud == t.ospeed # tios.ospeed
        newData == t.csize # tios.csize
        newParity == ParityBits(t) # ParityBits(tios)
        newStop == t.cstopb # tios.cstopb
        newFlow == t.crtscts # tios.crtscts
        r0 == [line |-> devLine, bits |-> junk]
        r1 == Modified(r0, newData, "setData" \notin fails,
                       WithData(Fetched(r0, "getData", fails), t.csize))
        r2 == Modified(r1, newParity, "setParity" \notin fails,
                       WithParity(Fetched(r1, "getParity", fails), ParityOf(t)))
        r3 == Modified(r2, newStop, "setStop" \notin fails,
                       WithStop(Fetched(r2, "getStop", fails), IF t.cstopb THEN 2 ELSE 0))
        spoiled == (newData /\ fails \cap {"getData", "setData"} # {})
                   \/ (newParity /\ fails \cap {"getParity", "setParity"} # {})
                   \/ (newStop /\ fails \cap {"getStop", "setStop"} # {})
    IN  /\ tios' = [t EXCEPT !.ospeed =
                        IF newBaud THEN change_speed(t, fails, tios.ospeed) ELSE @]
        /\ devBaud' = IF newBaud /\ "setBaud" \notin fails THEN tios'.ospeed ELSE devBaud
        /\ devLine' = r3.line
        /\ devFlow' = IF newFlow /\ "setFlow" \notin fails
                      THEN [cts |-> t.crtscts, rts |-> IF t.crtscts THEN 2 ELSE 1,
                            limits |-> devFlow.limits /\ "getFlow" \notin fails]
                      ELSE devFlow
        /\ trusted' = (trusted \ ((IF spoiled THEN {"line"} ELSE {})
                                  \cup (IF newFlow /\ "setFlow" \in fails
                                        THEN {"flow"} ELSE {})))
                      \cup (IF newBaud /\ "setBaud" \notin fails THEN {"baud"} ELSE {})
                      \cup (IF newFlow /\ "setFlow" \notin fails THEN {"flow"} ELSE {})

cp210x_set_termios ==
    /\ cpState = "open"
    /\ \E t \in Requests, fails \in Failing, junk \in Junk : SetWith(t, fails, junk)
    /\ UNCHANGED <<swappedChip, swappedFlag, cpState>>

(* The registers keep their values while the port is closed.               *)
ClosePort ==
    /\ cpState = "open"
    /\ cpState' = "probed"
    /\ UNCHANGED <<swappedChip, devLine, devBaud, devFlow, swappedFlag, tios, trusted>>

(* Another chip takes the place of this one: the private data is new, the  *)
(* terminal layer still holds the termios of the device number.            *)
Replug ==
    /\ cpState \in {"plugged", "probed"}
    /\ swappedChip' \in BOOLEAN /\ devLine' \in PowerLines
    /\ devBaud' = 9600 /\ devFlow' = [cts |-> FALSE, rts |-> 1, limits |-> TRUE]
    /\ swappedFlag' = FALSE /\ cpState' = "plugged" /\ trusted' = {}
    /\ UNCHANGED tios

CpNext == Probe \/ OpenPort \/ cp210x_set_termios \/ ClosePort \/ Replug
CpSpec == CpInit /\ [][CpNext]_cpVars

-----------------------------------------------------------------------------
(* While every message about the framing went well, what the program reads *)
(* back from the termios is what the chip does on the line: data bits and  *)
(* stop bits exactly, and parity up to mark/space, whose flag CMSPAR       *)
(* get_termios never clears (see ParityReflected).                         *)
FramingReflected ==
    cpState = "open" /\ "line" \in trusted =>
        /\ Data(devLine) = tios.csize
        /\ Stop(devLine) = IF tios.cstopb THEN 2 ELSE 0
        /\ Parity(devLine) \in
               IF ~tios.parenb THEN {0} ELSE IF tios.parodd THEN {1, 3} ELSE {2, 4}

(* The rate and the flow control in the termios are those of the chip.     *)
(* This holds for the rate although a SET_BAUDRATE of set_termios is       *)
(* refused: change_speed then puts the old rate back.                      *)
RateReflected ==
    cpState = "open" =>
        /\ "baud" \in trusted => tios.ospeed = devBaud
        /\ "flow" \in trusted => tios.crtscts = devFlow.cts

(* detect_swapped_line_ctl disturbs nothing when it succeeds, whichever    *)
(* byte order the chip has ("Preserve the original register value").       *)
ProbePreserves ==
    [][cpState = "plugged" /\ cpState' = "probed" => devLine' = devLine]_cpVars

(* Closing and opening a port again never changes the rate it runs at:     *)
(* what quantise_baudrate once returned it returns unchanged.              *)
ReopenKeepsRate ==
    [][cpState = "probed" /\ cpState' = "open" /\ tios.ospeed = devBaud
       /\ trusted = Settings /\ trusted' = Settings
           => devBaud' = devBaud]_cpVars

(* What the comment on get_termios says: the parity too is the chip's.     *)
ParityReflected ==
    cpState = "open" /\ "line" \in trusted => Parity(devLine) = ParityOf(tios)

(* What the comments of the register readers say of a failed read: the     *)
(* caller gets consistent junk (zeroes), so no field nobody asked to       *)
(* change comes out of set_termios with a value of its own.                *)
ConsistentJunk ==
    [][cpState = "open" /\ cpState' = "open" /\ devLine' # devLine
           => Parity(devLine') \in 0 .. 4]_cpVars

(* The termios of an open port say what the chip does.                     *)
TermiosReflected == CpTypeOK /\ FramingReflected /\ RateReflected

(* Neither probing the chip nor opening its port again changes a setting.  *)
SettingsKept == ProbePreserves /\ ReopenKeepsRate
=============================================================================
