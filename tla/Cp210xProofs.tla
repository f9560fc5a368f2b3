---------------------------- MODULE Cp210xProofs ----------------------------
(***************************************************************************)
(* Proofs about the line settings of the CP210x driver, for every termios  *)
(* a program may ask for and every failure of a control message.           *)
(***************************************************************************)
EXTENDS Cp210x, WellFoundedInduction, TLAPS

-----------------------------------------------------------------------------
(* The line settings of the CP210x.  The three fields of LINE_CTL do not   *)
(* disturb each other.                                                     *)
Nibble == {n \in Nat : n < 16}
LEMMA FieldsApart ==
    ASSUME NEW b \in Word, NEW v \in Nibble
    PROVE  /\ WithData(b, v) \in Word /\ Data(WithData(b, v)) = v
           /\ Parity(WithData(b, v)) = Parity(b) /\ Stop(WithData(b, v)) = Stop(b)
           /\ WithParity(b, v) \in Word /\ Parity(WithParity(b, v)) = v
           /\ Data(WithParity(b, v)) = Data(b) /\ Stop(WithParity(b, v)) = Stop(b)
           /\ WithStop(b, v) \in Word /\ Stop(WithStop(b, v)) = v
           /\ Data(WithStop(b, v)) = Data(b) /\ Parity(WithStop(b, v)) = Parity(b)
<1> USE DEF Word, Nibble, Data, Parity, Stop
<1>1. /\ WithData(b, v) \in Word /\ Data(WithData(b, v)) = v
      /\ Parity(WithData(b, v)) = Parity(b) /\ Stop(WithData(b, v)) = Stop(b)
  BY DEF WithData
<1>2. /\ WithParity(b, v) \in Word /\ Parity(WithParity(b, v)) = v
      /\ Data(WithParity(b, v)) = Data(b) /\ Stop(WithParity(b, v)) = Stop(b)
  BY DEF WithParity
<1>3. /\ WithStop(b, v) \in Word /\ Stop(WithStop(b, v)) = v
      /\ Data(WithStop(b, v)) = Data(b) /\ Parity(WithStop(b, v)) = Parity(b)
  BY DEF WithStop
<1> QED  BY <1>1, <1>2, <1>3

(* Every field is a nibble.                                                *)
LEMMA FieldTypes ==
    ASSUME NEW b \in Word
    PROVE  Data(b) \in Nibble /\ Parity(b) \in Nibble /\ Stop(b) \in Nibble
BY DEF Word, Nibble, Data, Parity, Stop

(* Swapping the bytes twice changes nothing.                               *)
LEMMA SwabTwice ==
    ASSUME NEW b \in Word
    PROVE  swab16(b) \in Word /\ swab16(swab16(b)) = b
BY DEF Word, swab16

(* With the right flag get_line_ctl returns the register.                  *)
LEMMA GetLineCtl ==
    ASSUME swappedChip \in BOOLEAN, swappedFlag = swappedChip, NEW line \in Word
    PROVE  get_line_ctl(line) = line
BY SwabTwice, Zenon DEF get_line_ctl, ReadLine

(* A nonempty set of naturals has a least element.                         *)
LEMMA LeastOf ==
    ASSUME NEW S, S \subseteq Nat, S # {}
    PROVE  \E x \in S : \A y \in S : x <= y
<1>1. PICK x \in S : \A y \in S : <<y, x>> \notin OpToRel(<, Nat)
  BY NatLessThanWellFounded, WFMin, Zenon
<1>2. \A y \in S : ~(y < x)  BY <1>1, Zenon DEF OpToRel
<1> QED  BY <1>2

(* The table of rates: each row's rate lies within the row and above the   *)
(* row before it.                                                          *)
LEMMA TableIs ==
    /\ DOMAIN Table = 1 .. 29
    /\ \A i \in 1 .. 29 : /\ Table[i][1] \in Nat /\ Table[i][2] \in Nat
                          /\ Table[i][2] <= Table[i][1] /\ Table[i][1] <= 999999
BY DEF Table
LEMMA TableRises ==
    \A i, j \in 1 .. 29 : i < j => Table[i][1] < Table[j][2]
BY DEF Table

(* What quantise_baudrate does: the first row that reaches the rate, or    *)
(* the rate itself when no row does, up to the chip's limit.               *)
InRow(x, m) == x <= Table[m][1]
Capped(x) == IF x > 2000000 THEN 2000000 ELSE x
LEMMA QuantiseIs ==
    ASSUME NEW x \in Nat
    PROVE  \/ \E m \in 1 .. 29 : /\ InRow(x, m) /\ \A j \in 1 .. 29 : InRow(x, j) => m <= j
                                 /\ quantise_baudrate(x) = Table[m][2]
           \/ /\ \A j \in 1 .. 29 : ~InRow(x, j)
              /\ quantise_baudrate(x) = Capped(x)
<1> DEFINE rows == {i \in DOMAIN Table : x <= Table[i][1]}
           least == CHOOSE i \in rows : \A j \in rows : i <= j
<1>1. rows \subseteq 1 .. 29 /\ \A j \in 1 .. 29 : j \in rows <=> InRow(x, j)
  BY TableIs DEF InRow
<1>2. quantise_baudrate(x) = IF rows # {} THEN Table[least][2]
                             ELSE Capped(x)
  BY SMT DEF quantise_baudrate, Capped
<1>3. CASE rows # {}
  <2>1. \E i \in rows : \A j \in rows : i <= j
    <3> HIDE DEF rows
    <3>1. rows \subseteq Nat  BY <1>1
    <3> QED  BY <1>3, <3>1, LeastOf
  <2>2. least \in rows /\ \A j \in rows : least <= j  BY <2>1
  <2> HIDE DEF rows, least
  <2> QED  BY <1>1, <1>2, <1>3, <2>2
<1>4. CASE rows = {}
  <2> HIDE DEF rows, least
  <2> QED  BY <1>1, <1>2, <1>4
<1> QED  BY <1>3, <1>4

(* quantise_baudrate leaves a rate it has returned as it is.               *)
LEMMA QuantiseOnce ==
    ASSUME NEW baud \in Nat
    PROVE  /\ quantise_baudrate(baud) \in Nat
           /\ quantise_baudrate(quantise_baudrate(baud)) = quantise_baudrate(baud)
<1>1. CASE \E k \in 1 .. 29 : quantise_baudrate(baud) = Table[k][2]
  <2>1. PICK k \in 1 .. 29 : quantise_baudrate(baud) = Table[k][2]  BY <1>1
  <2>2. PICK q \in Nat : q = Table[k][2] /\ q <= Table[k][1]  BY TableIs
  <2>3. InRow(q, k)  BY <2>2 DEF InRow
  <2>4. PICK m \in 1 .. 29 : /\ InRow(q, m) /\ m <= k
                             /\ quantise_baudrate(q) = Table[m][2]
    BY <2>2, <2>3, QuantiseIs
  <2>5. q <= Table[m][1] /\ m <= k /\ quantise_baudrate(q) = Table[m][2]
    BY <2>4 DEF InRow
  <2>6. m = k
    <3> SUFFICES ASSUME m < k  PROVE FALSE
      BY <2>5
    <3>1. Table[m][1] < q  BY <2>2, TableRises
    <3> QED  BY <2>5, <3>1, TableIs
  <2> QED  BY <2>1, <2>2, <2>5, <2>6
<1>2. CASE /\ \A j \in 1 .. 29 : ~InRow(baud, j)
           /\ quantise_baudrate(baud) = Capped(baud)
  <2>1. PICK q \in Nat : q = quantise_baudrate(baud) /\ q <= 2000000 /\ q > 999999
    <3>1. baud > 999999
      <4>1. Table[29][1] = 999999  BY SMT DEF Table
      <4> QED  BY <1>2, <4>1, SMT DEF InRow
    <3> QED  BY <1>2, <3>1, SMT DEF Capped
  <2>2. \A j \in 1 .. 29 : ~InRow(q, j)  BY <2>1, TableIs, SMT DEF InRow
  <2>3. Capped(q) = q  BY <2>1, SMT DEF Capped
  <2>4. quantise_baudrate(q) = q  BY <2>2, <2>3, QuantiseIs
  <2> QED  BY <2>1, <2>4, SMT
<1> QED  BY <1>1, <1>2, QuantiseIs

(* What cp210x_get_termios_port makes of any LINE_CTL: supported fields.   *)
LEMMA CorrectedIs ==
    ASSUME NEW bits \in Word
    PROVE  LET c == Corrected(bits)
           IN  /\ c[1] \in Word /\ c[2] \in Word /\ c[3] \in Word
               /\ Data(c[1]) \in 5 .. 8 /\ Data(c[3]) = Data(c[1])
               /\ Parity(c[2]) \in 0 .. 4 /\ Parity(c[3]) = Parity(c[2])
               /\ Stop(c[3]) \in {0, 2}
<1> DEFINE b1 == IF Data(bits) \in 5 .. 8 THEN bits ELSE WithData(bits, 8)
           b2 == IF Parity(b1) \in 0 .. 4 THEN b1 ELSE WithParity(b1, 0)
           b3 == IF Stop(b2) \in {0, 2} THEN b2 ELSE WithStop(b2, 0)
<1>1. 8 \in Nibble /\ 0 \in Nibble  BY DEF Nibble
<1>2. b1 \in Word /\ Data(b1) \in 5 .. 8  BY <1>1, FieldsApart
<1>3. Corrected(bits) = <<b1, b2, b3>>  BY DEF Corrected
<1> HIDE DEF b1
<1>4. b2 \in Word /\ Data(b2) = Data(b1) /\ Parity(b2) \in 0 .. 4  BY <1>1, <1>2, FieldsApart
<1> HIDE DEF b2
<1>5. b3 \in Word /\ Data(b3) = Data(b2) /\ Parity(b3) = Parity(b2) /\ Stop(b3) \in {0, 2}
  BY <1>1, <1>4, FieldsApart
<1> HIDE DEF b3
<1> QED  BY <1>2, <1>3, <1>4, <1>5

(* Writing the corrections: a register of 16 bits, and when no message     *)
(* fails the corrected one.                                                *)
LEMMA LineAfterIs ==
    ASSUME NEW line \in Word, NEW bits \in Word, NEW fails
    PROVE  /\ LineAfter(line, bits, fails) \in Word
           /\ line = bits /\ fails \cap {"setData", "setParity", "setStop"} = {}
              => LineAfter(line, bits, fails) = Corrected(bits)[3]
<1> DEFINE c == Corrected(bits)
<1>1. c[1] \in Word /\ c[2] \in Word /\ c[3] \in Word  BY CorrectedIs
<1> HIDE DEF c
<1>2. LineAfter(line, bits, fails) =
         Written(Written(Written(line, c[1] # bits, "setData" \notin fails, c[1]),
                         c[2] # c[1], "setParity" \notin fails, c[2]),
                 c[3] # c[2], "setStop" \notin fails, c[3])
  BY DEF LineAfter, c
<1> QED  BY <1>1, <1>2 DEF Written, c

(* The settings cp210x_get_termios_port reads.                             *)
LEMMA FromLineIs ==
    ASSUME NEW t \in Termios, NEW bits \in Word
    PROVE  LET f == FromLine(t, bits)
               c == Corrected(bits)
           IN  /\ f \in Termios
               /\ f.csize = Data(c[3])
               /\ Stop(c[3]) = IF f.cstopb THEN 2 ELSE 0
               /\ Parity(c[3]) \in
                      IF ~f.parenb THEN {0} ELSE IF f.parodd THEN {1, 3} ELSE {2, 4}
<1> DEFINE c == Corrected(bits)
           p == Parity(c[2])
           f == FromLine(t, bits)
<1>1. /\ Data(c[1]) \in 5 .. 8 /\ Data(c[3]) = Data(c[1]) /\ p \in 0 .. 4
      /\ Parity(c[3]) = p /\ Stop(c[3]) \in {0, 2}
  BY CorrectedIs
<1>2. f = [t EXCEPT !.csize = Data(c[1]), !.parenb = p # 0,
                    !.parodd = (p = 0 /\ @) \/ p \in {1, 3},
                    !.cmspar = @ \/ p \in {3, 4}, !.cstopb = Stop(c[3]) = 2]
  BY DEF FromLine
<1> HIDE DEF c, p, f
<1>3. f \in Termios
  <2>1. /\ f.csize \in 5 .. 8 /\ f.parenb \in BOOLEAN /\ f.parodd \in BOOLEAN
        /\ f.cmspar \in BOOLEAN /\ f.cstopb \in BOOLEAN /\ f.crtscts \in BOOLEAN
        /\ f.ospeed \in Nat
    <3>1. f.csize \in 5 .. 8  BY <1>1, <1>2 DEF Termios
    <3>2. f.parenb \in BOOLEAN  BY <1>1, <1>2 DEF Termios
    <3>3. f.parodd \in BOOLEAN  BY <1>1, <1>2 DEF Termios
    <3>4. f.cmspar \in BOOLEAN  BY <1>1, <1>2 DEF Termios
    <3>5. f.cstopb \in BOOLEAN  BY <1>1, <1>2 DEF Termios
    <3>6. f.crtscts \in BOOLEAN /\ f.ospeed \in Nat  BY <1>1, <1>2 DEF Termios
    <3> QED  BY <3>1, <3>2, <3>3, <3>4, <3>5, <3>6
  <2>2. f = [csize |-> f.csize, parenb |-> f.parenb, parodd |-> f.parodd, cmspar |-> f.cmspar,
             cstopb |-> f.cstopb, crtscts |-> f.crtscts, ospeed |-> f.ospeed]
    BY <1>2 DEF Termios
  <2> QED  BY <2>1, <2>2 DEF Termios
<1>4. f.csize = Data(c[1]) /\ (f.cstopb <=> Stop(c[3]) = 2) /\ (f.parenb <=> p # 0)
  BY <1>1, <1>2 DEF Termios
<1>5. p # 0 => (f.parodd <=> p \in {1, 3})
  BY <1>1, <1>2 DEF Termios
<1>6. Stop(c[3]) = IF f.cstopb THEN 2 ELSE 0  BY <1>1, <1>4
<1>7. p \in IF ~f.parenb THEN {0} ELSE IF f.parodd THEN {1, 3} ELSE {2, 4}
  BY <1>1, <1>4, <1>5
<1> QED  BY <1>1, <1>3, <1>4, <1>6, <1>7 DEF c, f

(* Once probed, the flag of the workaround is right; a rate that the chip  *)
(* accepted is one that quantise_baudrate returns.                         *)
CInv ==
    /\ TermiosReflected
    /\ swappedChip \in BOOLEAN /\ swappedFlag \in BOOLEAN
    /\ cpState # "plugged" => swappedFlag = swappedChip
    /\ "baud" \in trusted => quantise_baudrate(devBaud) = devBaud

(* The rate change_speed leaves in the termios.                            *)
LEMMA SpeedIs ==
    ASSUME NEW t, NEW old \in Nat, NEW fails, t.ospeed \in Nat
    PROVE  /\ change_speed(t, fails, old) \in Nat
           /\ "setBaud" \in fails => change_speed(t, fails, old) = old
           /\ "setBaud" \notin fails =>
                 /\ change_speed(t, fails, old) = quantise_baudrate(t.ospeed)
                 /\ quantise_baudrate(change_speed(t, fails, old)) = change_speed(t, fails, old)
BY QuantiseOnce DEF change_speed

(* detect_swapped_line_ctl recognises the chips that swap, and leaves the  *)
(* register as it was when it succeeds.                                    *)
LEMMA ProbeKeeps ==
    ASSUME CInv, Probe
    PROVE  CInv' /\ (cpState' = "probed" => devLine' = devLine)
<1>1. PICK fails \in Failing :
        LET swapped == Sent(fails, 3) /\ ReadLine(2048) = 8
            save == IF swapped THEN swab16(ReadLine(devLine)) ELSE ReadLine(devLine)
        IN  /\ swappedFlag' = swapped
            /\ devLine' = IF Sent(fails, 4) THEN save
                          ELSE Written(devLine, TRUE, Sent(fails, 2), 2048)
            /\ cpState' = IF Sent(fails, 4) THEN "probed" ELSE "plugged"
  BY DEF Probe
<1>2. devLine \in Word /\ swappedChip \in BOOLEAN /\ 2048 \in Word
  BY DEF CInv, TermiosReflected, CpTypeOK, Word
<1>3. ReadLine(2048) = 8 <=> swappedChip
  <2>1. swab16(2048) = 8  BY SMT DEF swab16
  <2> QED  BY <1>2, <2>1, SMT DEF ReadLine
<1>4. Sent(fails, 4) => Sent(fails, 3)  BY DEF Sent
<1>5. swappedFlag' \in BOOLEAN  BY <1>1
<1>6. Sent(fails, 4) => devLine' = devLine /\ swappedFlag' = swappedChip
  <2> SUFFICES ASSUME Sent(fails, 4)  PROVE devLine' = devLine /\ swappedFlag' = swappedChip
    OBVIOUS
  <2>1. CASE swappedChip
    <3>1. swappedChip = TRUE  BY <1>2, <2>1
    <3>2. swappedFlag' = TRUE
      <4> DEFINE seen == Sent(fails, 3) /\ ReadLine(2048) = 8
      <4>1. seen  BY <1>3, <1>4, <2>1
      <4>2. swappedFlag' = seen /\ seen \in BOOLEAN  BY <1>1
      <4> HIDE DEF seen
      <4> QED  BY <4>1, <4>2
    <3>3. devLine' = swab16(swab16(devLine))  BY <1>1, <1>3, <1>4, <2>1 DEF ReadLine
    <3> QED  BY <1>2, <3>1, <3>2, <3>3, SwabTwice
  <2>2. CASE ~swappedChip
    BY <1>1, <1>2, <1>3, <1>4, <2>2 DEF ReadLine
  <2> QED  BY <2>1, <2>2
<1>7. ~Sent(fails, 4) => devLine' \in Word  BY <1>1, <1>2, SMT DEF Written
<1>8. UNCHANGED <<swappedChip, devBaud, devFlow, tios, trusted>> /\ cpState' \in {"probed", "plugged"}
  BY <1>1 DEF Probe
<1>9. cpState' = "probed" => Sent(fails, 4)  BY <1>1
<1> QED
  BY <1>2, <1>5, <1>6, <1>7, <1>8, <1>9
     DEF CInv, TermiosReflected, CpTypeOK, FramingReflected, RateReflected

(* cp210x_open reads the settings of the chip and keeps its rate.          *)
LEMMA OpenKeeps ==
    ASSUME CInv, OpenPort
    PROVE  CInv' /\ (/\ tios.ospeed = devBaud /\ trusted = Settings /\ trusted' = Settings
                     => devBaud' = devBaud)
<1>1. PICK fails \in Failing, junk \in Junk : OpenWith(fails, junk)
  BY DEF OpenPort
<1> DEFINE bits == IF "getData" \in fails THEN junk ELSE get_line_ctl(devLine)
           f == FromLine(tios, bits)
           cts == devFlow.cts /\ "getFlow" \notin fails
           rate == IF "getBaud" \in fails THEN 0 ELSE devBaud
           read == [f EXCEPT !.crtscts = cts, !.ospeed = rate]
           speed == change_speed(read, fails, 9600)
           c == Corrected(bits)
<1>2. /\ cpState = "probed" /\ UNCHANGED <<swappedChip, devFlow, swappedFlag>>
      /\ devLine \in Word /\ devBaud \in Nat /\ devFlow \in Flow /\ tios \in Termios
      /\ swappedChip \in BOOLEAN /\ swappedFlag = swappedChip
  BY DEF OpenPort, CInv, TermiosReflected, CpTypeOK
<1>3. bits \in Word /\ ("getData" \notin fails => bits = devLine)
  BY <1>2, GetLineCtl, CpAssumption
<1>4. /\ trusted' \subseteq Settings
      /\ "baud" \in trusted' => "getBaud" \notin fails /\ "setBaud" \notin fails
      /\ "line" \in trusted' => fails \cap {"getData", "setData", "setParity", "setStop"} = {}
      /\ "flow" \in trusted' => "getFlow" \notin fails
  <2>1. trusted' \subseteq Settings  BY <1>1 DEF OpenWith
  <2>2. "baud" \in trusted' => fails \cap {"getBaud", "setBaud"} = {}
    BY <1>1 DEF OpenWith, Settings
  <2>3. "line" \in trusted' => fails \cap {"getData", "setData", "setParity", "setStop"} = {}
    BY <1>1 DEF OpenWith, Settings
  <2>4. "flow" \in trusted' => fails \cap {"getFlow"} = {}  BY <1>1 DEF OpenWith, Settings
  <2> QED  BY <2>1, <2>2, <2>3, <2>4
<1>5. /\ devLine' = LineAfter(devLine, bits, fails) /\ tios' = [read EXCEPT !.ospeed = speed]
      /\ devBaud' = IF "setBaud" \in fails THEN devBaud ELSE tios'.ospeed
      /\ cpState' \in {"probed", "open"}
  BY <1>1 DEF OpenWith
<1> HIDE DEF bits
<1>6. /\ f \in Termios /\ f.csize = Data(c[3]) /\ Stop(c[3]) = IF f.cstopb THEN 2 ELSE 0
      /\ Parity(c[3]) \in IF ~f.parenb THEN {0} ELSE IF f.parodd THEN {1, 3} ELSE {2, 4}
  BY <1>2, <1>3, FromLineIs
<1>7. devLine' \in Word /\ ("line" \in trusted' => devLine' = c[3])
  BY <1>2, <1>3, <1>4, <1>5, LineAfterIs
<1> HIDE DEF f, c
<1>8. cts \in BOOLEAN /\ rate \in Nat
  BY <1>2 DEF Flow
<1>9. read.ospeed = rate  BY <1>6 DEF Termios
<1>10. /\ speed \in Nat
       /\ "setBaud" \notin fails => speed = quantise_baudrate(rate) /\ quantise_baudrate(speed) = speed
  <2>1. 9600 \in Nat  BY SMT
  <2> HIDE DEF read
  <2> QED  BY <1>8, <1>9, <2>1, SpeedIs, SMT
<1> HIDE DEF speed, cts, rate
<1>11. /\ tios' \in Termios /\ tios'.csize = f.csize /\ tios'.cstopb = f.cstopb
       /\ tios'.parenb = f.parenb /\ tios'.parodd = f.parodd
       /\ tios'.crtscts = cts /\ tios'.ospeed = speed
  BY <1>5, <1>6, <1>8, <1>10 DEF Termios
<1> HIDE DEF read
<1>12. CpTypeOK'
  BY <1>2, <1>4, <1>5, <1>7, <1>10, <1>11 DEF CpTypeOK
<1>13. FramingReflected'
  BY <1>6, <1>7, <1>11 DEF FramingReflected
<1>14. RateReflected' /\ ("baud" \in trusted' => quantise_baudrate(devBaud') = devBaud')
  <2>1. "baud" \in trusted' => devBaud' = speed /\ quantise_baudrate(speed) = speed
    BY <1>4, <1>5, <1>10, <1>11
  <2>2. "flow" \in trusted' => tios'.crtscts = devFlow'.cts
    <3>1. devFlow.cts \in BOOLEAN  BY <1>2 DEF Flow
    <3> QED  BY <1>2, <1>4, <1>11, <3>1 DEF cts
  <2> QED  BY <1>11, <2>1, <2>2 DEF RateReflected
<1>15. ASSUME trusted = Settings, trusted' = Settings  PROVE devBaud' = devBaud
  <2>1. "baud" \in trusted /\ "baud" \in trusted'  BY <1>15 DEF Settings
  <2>2. quantise_baudrate(devBaud) = devBaud  BY <2>1 DEF CInv
  <2> QED  BY <1>4, <1>5, <1>10, <1>11, <2>1, <2>2 DEF rate
<1> QED  BY <1>2, <1>12, <1>13, <1>14, <1>15 DEF CInv, TermiosReflected

(* The read of a read-modify-write returns 16 bits, and the register itself *)
(* when the message goes well: the workaround undoes the chip's byte order. *)
LEMMA FetchedIs ==
    ASSUME swappedChip \in BOOLEAN, swappedFlag = swappedChip,
           NEW r, r.line \in Word, r.bits \in Word, NEW get, NEW fails
    PROVE  /\ Fetched(r, get, fails) \in Word
           /\ get \notin fails => Fetched(r, get, fails) = r.line
BY GetLineCtl DEF Fetched

(* cp210x_set_termios, whichever message fails and whatever the stack      *)
(* holds: 16 bits in LINE_CTL, and the settings asked for where the        *)
(* messages went well.                                                     *)
LEMMA SetLineKeeps ==
    ASSUME CInv, NEW t \in Termios, NEW fails, NEW junk \in Word, SetWith(t, fails, junk),
           cpState = "open"
    PROVE  /\ devLine' \in Word
           /\ "line" \in trusted' =>
                 /\ Data(devLine') = t.csize
                 /\ Stop(devLine') = IF t.cstopb THEN 2 ELSE 0
                 /\ Parity(devLine') \in
                       IF ~t.parenb THEN {0} ELSE IF t.parodd THEN {1, 3} ELSE {2, 4}
<1> DEFINE newData == t.csize # tios.csize
           newParity == ParityBits(t) # ParityBits(tios)
           newStop == t.cstopb # tios.cstopb
           stop == IF t.cstopb THEN 2 ELSE 0
           r0 == [line |-> devLine, bits |-> junk]
           b1 == WithData(Fetched(r0, "getData", fails), t.csize)
           r1 == Modified(r0, newData, "setData" \notin fails, b1)
           b2 == WithParity(Fetched(r1, "getParity", fails), ParityOf(t))
           r2 == Modified(r1, newParity, "setParity" \notin fails, b2)
           b3 == WithStop(Fetched(r2, "getStop", fails), stop)
           r3 == Modified(r2, newStop, "setStop" \notin fails, b3)
<1>1. /\ swappedChip \in BOOLEAN /\ swappedFlag = swappedChip /\ devLine \in Word
      /\ tios \in Termios
  BY DEF CInv, TermiosReflected, CpTypeOK
<1>2. devLine' = r3.line  BY DEF SetWith
<1>3. "line" \in trusted' =>
         /\ "line" \in trusted
         /\ newData => "getData" \notin fails /\ "setData" \notin fails
         /\ newParity => "getParity" \notin fails /\ "setParity" \notin fails
         /\ newStop => "getStop" \notin fails /\ "setStop" \notin fails
  BY DEF SetWith
<1>4. t.csize \in Nibble /\ ParityOf(t) \in Nibble /\ stop \in Nibble
  BY DEF Termios, ParityOf, Nibble
<1> HIDE DEF stop
<1>6. r0.line = devLine /\ r0.bits \in Word  OBVIOUS
<1> HIDE DEF r0
<1>7. /\ b1 \in Word /\ r1.line \in Word /\ r1.bits \in Word
      /\ ~newData => r1.line = devLine
      /\ newData /\ "getData" \notin fails /\ "setData" \notin fails
         => r1.line = WithData(devLine, t.csize)
  <2>1. /\ Fetched(r0, "getData", fails) \in Word
        /\ "getData" \notin fails => Fetched(r0, "getData", fails) = devLine
    BY <1>1, <1>6, FetchedIs
  <2>2. b1 \in Word /\ ("getData" \notin fails => b1 = WithData(devLine, t.csize))
    BY <1>4, <2>1, FieldsApart
  <2> HIDE DEF b1
  <2> QED  BY <1>1, <1>6, <2>2 DEF Modified, Written
<1> HIDE DEF r1, b1
<1>8. /\ r2.line \in Word /\ r2.bits \in Word
      /\ ~newParity => r2.line = r1.line
      /\ newParity /\ "getParity" \notin fails /\ "setParity" \notin fails
         => r2.line = WithParity(r1.line, ParityOf(t))
  <2>1. /\ Fetched(r1, "getParity", fails) \in Word
        /\ "getParity" \notin fails => Fetched(r1, "getParity", fails) = r1.line
    BY <1>1, <1>7, FetchedIs
  <2>2. b2 \in Word /\ ("getParity" \notin fails => b2 = WithParity(r1.line, ParityOf(t)))
    BY <1>4, <2>1, FieldsApart
  <2> HIDE DEF b2
  <2> QED  BY <1>7, <2>2 DEF Modified, Written
<1> HIDE DEF r2, b2
<1>9. /\ r3.line \in Word
      /\ ~newStop => r3.line = r2.line
      /\ newStop /\ "getStop" \notin fails /\ "setStop" \notin fails
         => r3.line = WithStop(r2.line, stop)
  <2>1. /\ Fetched(r2, "getStop", fails) \in Word
        /\ "getStop" \notin fails => Fetched(r2, "getStop", fails) = r2.line
    BY <1>1, <1>8, FetchedIs
  <2>2. b3 \in Word /\ ("getStop" \notin fails => b3 = WithStop(r2.line, stop))
    BY <1>4, <2>1, FieldsApart
  <2> HIDE DEF b3
  <2> QED  BY <1>8, <2>2 DEF Modified, Written
<1> HIDE DEF r3, b3
<1>10. ASSUME "line" \in trusted'
       PROVE  /\ Data(devLine') = t.csize /\ Stop(devLine') = stop
              /\ Parity(devLine') \in
                    IF ~t.parenb THEN {0} ELSE IF t.parodd THEN {1, 3} ELSE {2, 4}
  <2>1. /\ Data(devLine) = tios.csize
        /\ Stop(devLine) = IF tios.cstopb THEN 2 ELSE 0
        /\ Parity(devLine) \in
              IF ~tios.parenb THEN {0} ELSE IF tios.parodd THEN {1, 3} ELSE {2, 4}
    BY <1>3, <1>10 DEF CInv, TermiosReflected, FramingReflected
  <2>2. Data(r1.line) = t.csize /\ Parity(r1.line) = Parity(devLine) /\ Stop(r1.line) = Stop(devLine)
    <3>1. CASE newData
      <4>1. r1.line = WithData(devLine, t.csize)  BY <1>3, <1>7, <1>10, <3>1
      <4> QED  BY <1>1, <1>4, <4>1, FieldsApart
    <3>2. CASE ~newData
      BY <1>7, <2>1, <3>2
    <3> QED  BY <3>1, <3>2
  <2>3. Data(r2.line) = t.csize /\ Stop(r2.line) = Stop(devLine)
    <3>1. CASE newParity
      <4>1. r2.line = WithParity(r1.line, ParityOf(t))  BY <1>3, <1>8, <1>10, <3>1
      <4> QED  BY <1>4, <1>7, <2>2, <4>1, FieldsApart
    <3>2. CASE ~newParity
      BY <1>8, <2>2, <3>2
    <3> QED  BY <3>1, <3>2
  <2>4. Parity(r2.line) \in IF ~t.parenb THEN {0} ELSE IF t.parodd THEN {1, 3} ELSE {2, 4}
    <3>1. CASE newParity
      <4>1. r2.line = WithParity(r1.line, ParityOf(t))  BY <1>3, <1>8, <1>10, <3>1
      <4>2. Parity(r2.line) = ParityOf(t)  BY <1>4, <1>7, <4>1, FieldsApart
      <4> QED  BY <4>2 DEF ParityOf
    <3>2. CASE ~newParity
      <4>1. t.parenb = tios.parenb /\ t.parodd = tios.parodd  BY <3>2 DEF ParityBits
      <4> QED  BY <1>8, <2>1, <2>2, <3>2, <4>1
    <3> QED  BY <3>1, <3>2
  <2>5. CASE newStop
    <3>1. devLine' = WithStop(r2.line, stop)  BY <1>2, <1>3, <1>9, <1>10, <2>5
    <3> QED  BY <1>4, <1>8, <2>3, <2>4, <3>1, FieldsApart
  <2>6. CASE ~newStop
    <3>1. devLine' = r2.line /\ stop = IF tios.cstopb THEN 2 ELSE 0
      BY <1>2, <1>9, <2>6 DEF stop
    <3> QED  BY <2>1, <2>3, <2>4, <3>1
  <2> QED  BY <2>5, <2>6
<1> QED  BY <1>2, <1>9, <1>10 DEF stop

(* cp210x_set_termios keeps the invariant: a refused rate gives way to the *)
(* old one, an accepted one is a rate quantise_baudrate leaves alone.      *)
LEMMA SetKeeps == ASSUME CInv, cp210x_set_termios PROVE CInv'
<1>1. PICK t \in Requests, fails \in Failing, junk \in Junk : SetWith(t, fails, junk)
  BY DEF cp210x_set_termios
<1>2. /\ cpState = "open" /\ cpState' = "open"
      /\ swappedFlag' = swappedFlag /\ swappedChip' = swappedChip
  BY DEF cp210x_set_termios
<1>3. t \in Termios /\ junk \in Word  BY CpAssumption
<1>4. /\ tios \in Termios /\ devBaud \in Nat /\ devFlow \in Flow /\ trusted \subseteq Settings
      /\ "baud" \in trusted => tios.ospeed = devBaud /\ quantise_baudrate(devBaud) = devBaud
      /\ "flow" \in trusted => tios.crtscts = devFlow.cts
  BY <1>2 DEF CInv, TermiosReflected, CpTypeOK, RateReflected
<1>5. t.ospeed \in Nat /\ tios.ospeed \in Nat  BY <1>3, <1>4 DEF Termios
<1> DEFINE speed == IF t.ospeed # tios.ospeed THEN change_speed(t, fails, tios.ospeed)
                    ELSE t.ospeed
<1>6. /\ speed \in Nat
      /\ t.ospeed # tios.ospeed /\ "setBaud" \notin fails => quantise_baudrate(speed) = speed
      /\ t.ospeed = tios.ospeed \/ "setBaud" \in fails => speed = tios.ospeed
  BY <1>5, SpeedIs, QuantiseOnce DEF change_speed
<1>7. tios' = [t EXCEPT !.ospeed = speed]  BY <1>1 DEF SetWith
<1>8. devBaud' = IF t.ospeed # tios.ospeed /\ "setBaud" \notin fails THEN tios'.ospeed ELSE devBaud
  BY <1>1 DEF SetWith
<1> HIDE DEF speed
<1>9. /\ tios'.csize = t.csize /\ tios'.parenb = t.parenb /\ tios'.parodd = t.parodd
      /\ tios'.cmspar = t.cmspar /\ tios'.cstopb = t.cstopb /\ tios'.crtscts = t.crtscts
      /\ tios'.ospeed = speed /\ tios' \in Termios
  BY <1>3, <1>6, <1>7 DEF Termios
<1>10. trusted' \subseteq Settings  BY <1>1, <1>4 DEF SetWith, Settings
<1>11. "baud" \in trusted' => "baud" \in trusted
                              \/ (t.ospeed # tios.ospeed /\ "setBaud" \notin fails)
  BY <1>1 DEF SetWith
<1>12. devBaud' \in Nat /\ ("baud" \in trusted' => tios'.ospeed = devBaud'
                                                   /\ quantise_baudrate(devBaud') = devBaud')
  BY <1>4, <1>6, <1>8, <1>9, <1>11
<1>13. devFlow' \in Flow /\ ("flow" \in trusted' => tios'.crtscts = devFlow'.cts)
  <2>1. devFlow' = IF t.crtscts # tios.crtscts /\ "setFlow" \notin fails
                   THEN [cts |-> t.crtscts, rts |-> IF t.crtscts THEN 2 ELSE 1,
                         limits |-> devFlow.limits /\ "getFlow" \notin fails]
                   ELSE devFlow
    BY <1>1 DEF SetWith
  <2>2. CASE t.crtscts # tios.crtscts /\ "setFlow" \notin fails
    <3> DEFINE lim == devFlow.limits /\ "getFlow" \notin fails
    <3>1. devFlow' = [cts |-> t.crtscts, rts |-> IF t.crtscts THEN 2 ELSE 1, limits |-> lim]
      BY <2>1, <2>2
    <3>2. lim \in BOOLEAN  OBVIOUS
    <3>3. t.crtscts \in BOOLEAN  BY <1>3 DEF Termios
    <3> HIDE DEF lim
    <3> QED  BY <1>9, <3>1, <3>2, <3>3 DEF Flow
  <2>3. CASE ~(t.crtscts # tios.crtscts /\ "setFlow" \notin fails)
    <3>1. devFlow' = devFlow  BY <2>1, <2>3
    <3>2. "flow" \in trusted' => "flow" \in trusted /\ t.crtscts = tios.crtscts
      BY <1>1, <2>3 DEF SetWith
    <3> QED  BY <1>4, <1>9, <3>1, <3>2
  <2> QED  BY <2>2, <2>3
<1>14. /\ devLine' \in Word
       /\ "line" \in trusted' =>
             /\ Data(devLine') = t.csize
             /\ Stop(devLine') = IF t.cstopb THEN 2 ELSE 0
             /\ Parity(devLine') \in
                   IF ~t.parenb THEN {0} ELSE IF t.parodd THEN {1, 3} ELSE {2, 4}
  BY <1>1, <1>2, <1>3, SetLineKeeps
<1>15. FramingReflected'  BY <1>9, <1>14 DEF FramingReflected
<1>16. RateReflected'  BY <1>12, <1>13 DEF RateReflected
<1>17. swappedChip' \in BOOLEAN /\ swappedFlag' \in BOOLEAN /\ swappedFlag' = swappedChip'
  BY <1>2 DEF CInv
<1>18. CpTypeOK'  BY <1>2, <1>9, <1>10, <1>12, <1>13, <1>14, <1>17 DEF CpTypeOK
<1> QED  BY <1>12, <1>15, <1>16, <1>17, <1>18 DEF CInv, TermiosReflected

(* The registers keep their values while the port is closed, and a chip    *)
(* put in its place starts over with nothing trusted.                      *)
LEMMA ClosedKeeps == ASSUME CInv, ClosePort \/ Replug \/ UNCHANGED cpVars PROVE CInv'
<1> USE DEF CInv, TermiosReflected, CpTypeOK, FramingReflected, RateReflected
<1>1. CASE ClosePort  BY <1>1 DEF ClosePort
<1>2. CASE Replug
  <2>1. [cts |-> FALSE, rts |-> 1, limits |-> TRUE] \in Flow  BY DEF Flow
  <2>2. devLine' \in Word /\ devBaud' \in Nat  BY <1>2, CpAssumption, SMT DEF Replug
  <2>3. devFlow' \in Flow /\ trusted' = {} /\ cpState' = "plugged" /\ tios' = tios
    BY <1>2, <2>1, SMT DEF Replug
  <2>4. swappedChip' \in BOOLEAN /\ ~swappedFlag'  BY <1>2, SMT DEF Replug
  <2>5. swappedFlag' = FALSE  BY <1>2, SMT DEF Replug
  <2> QED  BY <2>2, <2>3, <2>4, <2>5
<1>3. CASE UNCHANGED cpVars  BY <1>3 DEF cpVars
<1> QED  BY <1>1, <1>2, <1>3

(* The invariant of the driver's settings holds in every behaviour.        *)
THEOREM SettingsInvariance == CpSpec => []CInv
<1>1. CpInit => CInv
  <2> SUFFICES ASSUME CpInit PROVE CInv  OBVIOUS
  <2>1. devLine \in Word /\ devBaud \in Nat /\ devFlow \in Flow
    BY CpAssumption, SMT DEF CpInit
  <2>2. tios \in Termios  BY SMT DEF CpInit, Termios
  <2>3. swappedChip \in BOOLEAN /\ cpState = "plugged" /\ trusted = {}
    BY SMT DEF CpInit
  <2>4. swappedFlag = FALSE  BY SMT DEF CpInit
  <2> QED
    BY <2>1, <2>2, <2>3, <2>4
    DEF CInv, TermiosReflected, CpTypeOK, FramingReflected, RateReflected
<1>2. CInv /\ [CpNext]_cpVars => CInv'
  <2> SUFFICES ASSUME CInv, [CpNext]_cpVars PROVE CInv'  OBVIOUS
  <2>1. CASE Probe  BY <2>1, ProbeKeeps
  <2>2. CASE OpenPort  BY <2>2, OpenKeeps
  <2>3. CASE cp210x_set_termios  BY <2>3, SetKeeps
  <2>4. CASE ClosePort \/ Replug \/ UNCHANGED cpVars  BY <2>4, ClosedKeeps
  <2> QED  BY <2>1, <2>2, <2>3, <2>4 DEF CpNext
<1> QED  BY <1>1, <1>2, PTL DEF CpSpec

(* The termios of an open port say what the chip does, for every set of    *)
(* requests, of power-on registers, of stack contents and of messages that *)
(* may fail: the framing, the rate and the flow control read back are the  *)
(* chip's wherever the last message about them went well.                  *)
THEOREM TermiosTrue == CpSpec => []TermiosReflected
<1>1. CInv => TermiosReflected  BY DEF CInv
<1> QED  BY <1>1, SettingsInvariance, PTL

(* A probe that succeeds leaves LINE_CTL as it was, whichever byte order   *)
(* the chip has, and opening a port again keeps the rate it ran at.        *)
THEOREM SettingsStay == CpSpec => SettingsKept
<1> DEFINE P == cpState = "plugged" /\ cpState' = "probed" => devLine' = devLine
           R == cpState = "probed" /\ cpState' = "open" /\ tios.ospeed = devBaud
                /\ trusted = Settings /\ trusted' = Settings => devBaud' = devBaud
<1>1. CInv /\ [CpNext]_cpVars => [P]_cpVars
  <2> SUFFICES ASSUME CInv, [CpNext]_cpVars, cpState = "plugged", cpState' = "probed"
               PROVE  devLine' = devLine
    OBVIOUS
  <2>1. Probe
    BY DEF CpNext, OpenPort, cp210x_set_termios, ClosePort, Replug, cpVars
  <2> QED  BY <2>1, ProbeKeeps
<1>2. CInv /\ [CpNext]_cpVars => [R]_cpVars
  <2> SUFFICES ASSUME CInv, [CpNext]_cpVars, cpState = "probed", cpState' = "open",
                      tios.ospeed = devBaud, trusted = Settings, trusted' = Settings
               PROVE  devBaud' = devBaud
    OBVIOUS
  <2>1. OpenPort
    BY DEF CpNext, Probe, cp210x_set_termios, ClosePort, Replug, cpVars
  <2> QED  BY <2>1, OpenKeeps
<1>3. CpSpec => [][P]_cpVars  BY <1>1, SettingsInvariance, PTL DEF CpSpec
<1>4. CpSpec => [][R]_cpVars  BY <1>2, SettingsInvariance, PTL DEF CpSpec
<1> QED  BY <1>3, <1>4 DEF SettingsKept, ProbePreserves, ReopenKeepsRate
=============================================================================
