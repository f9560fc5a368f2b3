---------------------------- MODULE Ch34xProofs -----------------------------
(***************************************************************************)
(* Proofs about the CH34x driver: the modem lines for any number of tasks  *)
(* and the write path for any buffer, any URB size and any fault.          *)
(***************************************************************************)
EXTENDS Ch34xWrite, Ch34xLines, TLAPS

-----------------------------------------------------------------------------
(* Modem lines.  A task inside a call keeps the port open; as long as a    *)
(* task in TIOCMIWAIT has seen no change of its line, the line is as it    *)
(* remembers it.                                                           *)
InCallMeansOpen == ~portOpen => AllIdle
PrevIsCurrent ==
    \A t \in Tasks :
        taskPc[t] \in {"wait", "asleep", "look"} /\ ~seenChange[t]
        => ~Differs(t, taskPrev[t], lineStatus)
LInv ==
    /\ LinesTypeOK
    /\ taskLines \in [Tasks -> SUBSET CONTROL] /\ taskPrev \in [Tasks -> SUBSET Watched]
    /\ taskArg \in [Tasks -> SUBSET Watched] /\ seenChange \in [Tasks -> BOOLEAN]
    /\ InCallMeansOpen /\ PrevIsCurrent /\ ReturnedMeansChanged

(* A report that changes no line of a waiting task leaves that task's view *)
(* as it was: two sets of lines that agree with a third agree.             *)
LEMMA ReportKeepsPrev ==
    ASSUME LInv, Report
    PROVE  LInv'
<1> USE DEF LInv, LinesTypeOK, InCallMeansOpen, AllIdle
<1>1. PICK on \in SUBSET Watched :
         /\ lineStatus' = on /\ lineControl' \in Stored(on)
         /\ seenChange' = [t \in Tasks |-> taskPc[t] # "idle" /\
                              (seenChange[t] \/ Differs(t, on, lineStatus))]
  BY Zenon DEF Report
<1>2. UNCHANGED <<wireLines, portOpen, taskPc, taskLines, taskPrev, taskArg>> /\ waitFlag' = TRUE
  BY Zenon DEF Report
<1>3. lineControl' \subseteq CONTROL  BY <1>1, Zenon DEF Stored
<1>4. seenChange' \in [Tasks -> BOOLEAN]  BY <1>1, Zenon
<1>5. PrevIsCurrent'
  BY <1>1, <1>2, Zenon DEF PrevIsCurrent, Differs
<1>6. ReturnedMeansChanged'  BY <1>1, <1>2, Zenon DEF ReturnedMeansChanged
<1> QED  BY <1>1, <1>2, <1>3, <1>4, <1>5, <1>6, Zenon

(* A task that takes a step of TIOCMIWAIT.                                 *)
LEMMA IwaitKeepsPrev ==
    ASSUME LInv, NEW t \in Tasks,
           \/ \E arg \in SUBSET Watched \ {{}} : Iwait(t, arg)
           \/ IwaitPass(t) \/ IwaitSleep(t) \/ IwaitSignal(t) \/ IwaitLook(t) \/ IwaitReturn(t)
    PROVE  LInv'
<1> USE DEF LInv, LinesTypeOK, InCallMeansOpen, AllIdle, TaskTo, PrevIsCurrent,
            ReturnedMeansChanged, Differs
<1>1. CASE \E arg \in SUBSET Watched \ {{}} : Iwait(t, arg)  BY <1>1 DEF Iwait
<1>2. CASE IwaitPass(t)  BY <1>2, Zenon DEF IwaitPass
<1>3. CASE IwaitSleep(t)  BY <1>3, Zenon DEF IwaitSleep
<1>4. CASE IwaitSignal(t)  BY <1>4, Zenon DEF IwaitSignal, Forget
<1>5. CASE IwaitLook(t)  BY <1>5, Zenon DEF IwaitLook
<1>6. CASE IwaitReturn(t)  BY <1>6 DEF IwaitReturn, Forget
<1> QED  BY <1>1, <1>2, <1>3, <1>4, <1>5, <1>6, Zenon

(* Whatever the driver drives, TIOCMIWAIT is not confused by it.           *)
LEMMA ControlKeepsPrev ==
    ASSUME LInv,
           \/ OpenLines \/ CloseLines \/ BulkRead
           \/ \E t \in Tasks :
                 \/ \E B0 \in BOOLEAN : ch34x_set_termios(t, B0)
                 \/ \E set, clear \in SUBSET CONTROL : Tiocmset(t, set, clear)
                 \/ Message(t)
    PROVE  LInv'
<1> USE DEF LInv, LinesTypeOK, InCallMeansOpen, AllIdle, TaskTo, PrevIsCurrent,
            ReturnedMeansChanged, Differs
<1>1. CASE OpenLines  BY <1>1, Zenon DEF OpenLines
<1>2. CASE CloseLines  BY <1>2, Zenon DEF CloseLines
<1>3. CASE BulkRead  BY <1>3, Zenon DEF BulkRead
<1>4. ASSUME NEW t \in Tasks, NEW B0 \in BOOLEAN, ch34x_set_termios(t, B0)
      PROVE  LInv'
  BY <1>4 DEF ch34x_set_termios
<1>5. ASSUME NEW t \in Tasks, NEW set \in SUBSET CONTROL, NEW clear \in SUBSET CONTROL,
             Tiocmset(t, set, clear)
      PROVE  LInv'
  BY <1>5, Zenon DEF Tiocmset
<1>6. ASSUME NEW t \in Tasks, Message(t)  PROVE LInv'
  BY <1>6 DEF Message
<1> QED  BY <1>1, <1>2, <1>3, <1>4, <1>5, <1>6, Zenon

(* LInv is an invariant, for any number of tasks, lines and reports.       *)
THEOREM LinesInvariance ==
    LinesSpec => []LInv
<1>1. LinesInit => LInv
  BY Zenon DEF LinesInit, LInv, LinesTypeOK, InCallMeansOpen, AllIdle, PrevIsCurrent,
         ReturnedMeansChanged
<1>2. LInv /\ [LinesNext]_lineVars => LInv'
  <2>1. LInv /\ UNCHANGED lineVars => LInv'
    BY DEF LInv, LinesTypeOK, InCallMeansOpen, AllIdle, PrevIsCurrent,
           ReturnedMeansChanged, Differs, lineVars
  <2> QED  BY <2>1, ReportKeepsPrev, IwaitKeepsPrev, ControlKeepsPrev, Zenon DEF LinesNext, TaskStep
<1> QED  BY <1>1, <1>2, PTL DEF LinesSpec

(* With HUPCL set a closed port drives neither line, and TIOCMIWAIT        *)
(* returns 0 for a change of a line it was asked about and for no other,   *)
(* however many tasks share the one wait_flag.                             *)
THEOREM LinesAreSafe ==
    ASSUME HUPCL
    PROVE  LinesSpec => []LinesSafe
<1>1. LinesInit => ClosedLinesLow  BY Zenon DEF LinesInit, ClosedLinesLow
<1>2. LInv /\ ClosedLinesLow /\ [LinesNext]_lineVars => ClosedLinesLow'
  <2> SUFFICES ASSUME LInv, ClosedLinesLow, [LinesNext]_lineVars
               PROVE  ClosedLinesLow'
    BY Zenon
  <2> USE DEF ClosedLinesLow, LInv, InCallMeansOpen, AllIdle
  <2>1. CASE OpenLines \/ CloseLines \/ Report \/ BulkRead
    BY <2>1, Zenon DEF OpenLines, CloseLines, Report, BulkRead
  <2>2. ASSUME NEW t \in Tasks, Message(t)  PROVE ClosedLinesLow'
    BY <2>2, Zenon DEF Message, TaskTo
  <2>3. ASSUME NEW t \in Tasks, \/ \E B0 \in BOOLEAN : ch34x_set_termios(t, B0)
                                \/ \E set, clear \in SUBSET CONTROL : Tiocmset(t, set, clear)
        PROVE  ClosedLinesLow'
    BY <2>3, Zenon DEF ch34x_set_termios, Tiocmset
  <2>4. ASSUME NEW t \in Tasks,
               \/ \E arg \in SUBSET Watched \ {{}} : Iwait(t, arg)
               \/ IwaitSignal(t) \/ IwaitPass(t) \/ IwaitSleep(t) \/ IwaitLook(t)
               \/ IwaitReturn(t)
        PROVE  ClosedLinesLow'
    BY <2>4, Zenon DEF Iwait, IwaitSignal, IwaitPass, IwaitSleep, IwaitLook, IwaitReturn
  <2>5. CASE UNCHANGED lineVars  BY <2>5, Zenon DEF lineVars
  <2> QED  BY <2>1, <2>2, <2>3, <2>4, <2>5, Zenon DEF LinesNext, TaskStep
<1>3. LInv /\ ClosedLinesLow => LinesSafe  BY Zenon DEF LInv, LinesSafe
<1> QED  BY <1>1, <1>2, <1>3, LinesInvariance, PTL DEF LinesSpec

-----------------------------------------------------------------------------
(* The write path.  How far buf_put or a byte is from buf_get, going       *)
(* round.                                                                  *)
Index == 0 .. RingSize - 1
Dist(from, to) == IF to >= from THEN to - from ELSE RingSize + to - from
Held == ch34x_buf_data_avail

(* The buffer's two modular formulas.                                      *)
LEMMA AvailIsDistance ==
    ASSUME NEW get \in Index, NEW put \in Index
    PROVE  /\ (RingSize + put - get) % RingSize = Dist(get, put)
           /\ (RingSize + get - put - 1) % RingSize = RingSize - 1 - Dist(get, put)
BY Ch34xAssumption DEF Index, Dist

(* A distance is less than the size of the ring.                           *)
LEMMA DistIsIndex ==
    ASSUME NEW from \in Index, NEW to \in Index
    PROVE  Dist(from, to) \in Index /\ Dist(from, to) \in Nat
BY Ch34xAssumption DEF Index, Dist

(* What the wrapping of buf_put and buf_get does to distances.             *)
LEMMA WrapMoves ==
    ASSUME NEW at \in Index, NEW n \in Index
    PROVE  /\ Wrapped(at, n) \in Index
           /\ \A x \in Index : Dist(x, at) + n < RingSize
                               => Dist(x, Wrapped(at, n)) = Dist(x, at) + n
           /\ \A x \in Index : Dist(at, x) >= n
                               => Dist(Wrapped(at, n), x) = Dist(at, x) - n
BY Ch34xAssumption DEF Index, Dist, Wrapped

(* The position a given distance away.                                     *)
LEMMA PositionAt ==
    ASSUME NEW get \in Index, NEW k \in Index
    PROVE  (get + k) % RingSize \in Index /\ Dist(get, (get + k) % RingSize) = k
<1>1. CASE get + k < RingSize
  <2>1. (get + k) % RingSize = get + k  BY <1>1, Ch34xAssumption DEF Index
  <2> QED  BY <1>1, <2>1, Ch34xAssumption DEF Index, Dist
<1>2. CASE get + k >= RingSize
  <2>1. (get + k) % RingSize = get + k - RingSize  BY <1>2, Ch34xAssumption DEF Index
  <2> QED  BY <1>2, <2>1, Ch34xAssumption DEF Index, Dist
<1> QED  BY <1>1, <1>2, Ch34xAssumption DEF Index

(* Who has the write URB, and what each stage of ch34x_close has reached.  *)
UrbOwned ==
    /\ InUseExact /\ ClosedIsQuiet
    /\ sendPc["writer"] # "clear"
    /\ "write" \in urbs => \A s \in Sides : sendPc[s] \notin {"submit", "clear"}
    /\ sendPc["writer"] = "submit" => sendPc["handler"] \notin {"submit", "clear"}
    /\ chState # "open" => sendPc["writer"] = "idle"
    /\ chState = "closed" => sendPc["handler"] = "idle"
    /\ chState = "killRead" => "int" \notin urbs
    /\ chState = "killWrite" => urbs \subseteq {"write"}
    /\ chState = "drained" => urbs = {}
    /\ refused = IF chState = "drained" THEN {"write"} ELSE {}

(* What is where: the ring holds the last bytes written, the URB carries   *)
(* something exactly from ch34x_send to its completion, and both and what  *)
(* was delivered are in order.                                             *)
Oldest == nextByte - Held
Increasing(q) == \A i, j \in 1 .. Len(q) : i < j => q[i] < q[j]
BytesPlaced ==
    /\ nextByte \in 1 .. MaxBytes + 1 /\ Held < nextByte
    /\ delivered \in Seq(Nat) /\ urbData \in Seq(Nat)
    /\ \A i \in Index : Dist(bufGet, i) < Held => ring[i] = Oldest + Dist(bufGet, i)
    /\ Len(urbData) > 0 <=> "write" \in urbs \/ \E s \in Sides : sendPc[s] = "submit"
    /\ Increasing(delivered) /\ Increasing(urbData)
    /\ \A i \in 1 .. Len(delivered) : delivered[i] < Oldest
    /\ \A i \in 1 .. Len(urbData) : urbData[i] < Oldest
    /\ \A i \in 1 .. Len(delivered), j \in 1 .. Len(urbData) : delivered[i] < urbData[j]
    /\ ~lossy => Len(delivered) + Len(urbData) + Held = nextByte - 1

WInv == WriteTypeOK /\ UrbOwned /\ BytesPlaced

(* ch34x_buf_put appends to what the ring holds and overwrites nothing of  *)
(* it, wherever the copy is split.                                         *)
LEMMA WriteKeepsBytes ==
    ASSUME WInv, NEW count \in 1 .. RingSize, Write(count)
    PROVE  WInv'
<1> USE Ch34xAssumption DEF WInv, Index
<1> DEFINE n == Smaller(count, ch34x_buf_space_avail)
<1>1. bufGet \in Index /\ bufPut \in Index /\ ring \in [Index -> 0 .. MaxBytes]
  BY Zenon DEF WriteTypeOK
<1>2. Held = Dist(bufGet, bufPut) /\ ch34x_buf_space_avail = RingSize - 1 - Held
  BY <1>1, AvailIsDistance, Zenon DEF Held, ch34x_buf_data_avail, ch34x_buf_space_avail
<1>3. Held \in Index  BY <1>1, <1>2 DEF Dist
<1>4. n \in Index /\ Held + n < RingSize /\ n <= count  BY <1>2, <1>3 DEF Smaller
<1> HIDE DEF n
<1>5. /\ bufPut' = Wrapped(bufPut, n) /\ bufGet' = bufGet /\ nextByte' = nextByte + n
      /\ nextByte + count - 1 <= MaxBytes
      /\ ring' = [i \in Index |->
            IF Dist(bufPut, i) < n THEN nextByte + Dist(bufPut, i) ELSE ring[i]]
      /\ UNCHANGED <<inUse, urbData, urbs, refused, chState, delivered, opensLeft, lossy>>
      /\ sendPc' = [sendPc EXCEPT !["writer"] = "send"]
      /\ chState = "open" /\ sendPc["writer"] = "idle"
  <2>1. DOMAIN ring = Index  BY <1>1, Zenon
  <2>2. \A i \in Index : Dist(bufPut, i) = IF i >= bufPut THEN i - bufPut
                                           ELSE i + (RingSize - bufPut)
    BY <1>1 DEF Dist
  <2> QED  BY <2>1, <2>2, Zenon DEF Write, ch34x_buf_put, n
<1>6. bufPut' \in Index /\ Dist(bufGet, bufPut') = Held + n
  BY <1>1, <1>2, <1>4, <1>5, WrapMoves, Zenon
<1>7. Held' = Held + n
  <2>1. Held' = (RingSize + bufPut' - bufGet') % RingSize  BY Zenon DEF Held, ch34x_buf_data_avail
  <2> QED  BY <1>1, <1>5, <1>6, <2>1, AvailIsDistance, Zenon
<1>8. nextByte \in 1 .. MaxBytes + 1  BY Zenon DEF BytesPlaced
<1>9. Oldest' = Oldest /\ nextByte' \in 1 .. MaxBytes + 1
  BY <1>3, <1>4, <1>5, <1>7, <1>8 DEF Oldest
<1>10. ring' \in [Index -> 0 .. MaxBytes]
  <2>1. \A i \in Index : Dist(bufPut, i) < n => nextByte + Dist(bufPut, i) \in 0 .. MaxBytes
    BY <1>1, <1>4, <1>5, <1>8 DEF Dist
  <2> QED  BY <1>1, <1>5, <2>1, Zenon
<1>11. \A i \in Index : Dist(bufGet', i) < Held' => ring'[i] = Oldest' + Dist(bufGet', i)
  <2> SUFFICES ASSUME NEW i \in Index, Dist(bufGet, i) < Held + n
               PROVE  ring'[i] = Oldest + Dist(bufGet, i)
    BY <1>5, <1>7, <1>9, Zenon
  <2>1. CASE Dist(bufGet, i) < Held
    <3>1. ~(Dist(bufPut, i) < n)  BY <1>1, <1>2, <1>4, <2>1 DEF Dist
    <3>2. ring[i] = Oldest + Dist(bufGet, i)  BY <2>1, Zenon DEF BytesPlaced
    <3> QED  BY <1>5, <3>1, <3>2, Zenon
  <2>2. CASE Dist(bufGet, i) >= Held
    <3>1. Dist(bufPut, i) = Dist(bufGet, i) - Held  BY <1>1, <1>2, <2>2 DEF Dist
    <3>2. Dist(bufGet, i) \in Nat  BY <1>1 DEF Dist
    <3>3. ring'[i] = nextByte + Dist(bufPut, i)  BY <1>3, <1>4, <1>5, <3>1, <3>2
    <3> QED  BY <1>3, <1>8, <3>1, <3>2, <3>3 DEF Oldest
  <2> QED  BY <1>1, <1>3, <2>1, <2>2 DEF Dist
<1>12. WriteTypeOK'  BY <1>1, <1>5, <1>6, <1>10, Zenon DEF WriteTypeOK, Sides
<1>13. UrbOwned'  BY <1>5, Zenon DEF UrbOwned, InUseExact, ClosedIsQuiet, Sides, WriteTypeOK
<1>14. BytesPlaced'
  <2>1. (Held < nextByte)'  BY <1>3, <1>4, <1>5, <1>7, <1>8 DEF BytesPlaced
  <2>2. (\E s \in Sides : sendPc'[s] = "submit") <=> (\E s \in Sides : sendPc[s] = "submit")
    BY <1>5, Zenon DEF WriteTypeOK, Sides
  <2>3. (~lossy => Len(delivered) + Len(urbData) + Held = nextByte - 1)'
    <3>1. Len(delivered) \in Nat /\ Len(urbData) \in Nat  BY DEF BytesPlaced
    <3>2. ~lossy => Len(delivered) + Len(urbData) + Held = nextByte - 1  BY Zenon DEF BytesPlaced
    <3> QED  BY <1>3, <1>4, <1>5, <1>7, <1>8, <3>1, <3>2
  <2> QED  BY <1>5, <1>9, <1>11, <2>1, <2>2, <2>3, Zenon DEF BytesPlaced, Increasing
<1> QED  BY <1>12, <1>13, <1>14, Zenon

(* What the buffer's formulas say of a state in which WInv holds.          *)
LEMMA RingFacts ==
    ASSUME WInv
    PROVE  /\ bufGet \in Index /\ bufPut \in Index
           /\ Held = Dist(bufGet, bufPut) /\ Held \in Index
           /\ nextByte \in 1 .. MaxBytes + 1 /\ Oldest \in 1 .. nextByte
<1>1. bufGet \in Index /\ bufPut \in Index  BY Zenon DEF WInv, WriteTypeOK, Index
<1>2. Held = Dist(bufGet, bufPut)
  BY <1>1, AvailIsDistance, Zenon DEF Held, ch34x_buf_data_avail
<1>3. Held \in Index  BY <1>1, <1>2, Ch34xAssumption DEF Dist, Index
<1>4. nextByte \in 1 .. MaxBytes + 1 /\ Held < nextByte  BY Zenon DEF WInv, BytesPlaced
<1> QED  BY <1>1, <1>2, <1>3, <1>4, Ch34xAssumption DEF Oldest, Index

(* What ch34x_buf_get copies are the oldest bytes, without a gap.          *)
LEMMA ContentIs ==
    ASSUME WInv, NEW n \in 0 .. Held
    PROVE  /\ Content(n) \in Seq(Nat) /\ Len(Content(n)) = n
           /\ \A i \in 1 .. n : Content(n)[i] = Oldest + i - 1
<1>1. \A i \in 1 .. n : ring[(bufGet + i - 1) % RingSize] = Oldest + i - 1
  <2> SUFFICES ASSUME NEW i \in 1 .. n
               PROVE  ring[(bufGet + i - 1) % RingSize] = Oldest + i - 1
    BY Zenon
  <2>1. i - 1 \in Index /\ i - 1 < Held  BY RingFacts, Ch34xAssumption DEF Index
  <2> DEFINE at == (bufGet + (i - 1)) % RingSize
  <2>2. at \in Index /\ Dist(bufGet, at) = i - 1  BY <2>1, RingFacts, PositionAt, Zenon
  <2> HIDE DEF at
  <2>3. ring[at] = Oldest + (i - 1)  BY <2>1, <2>2, Zenon DEF WInv, BytesPlaced
  <2>4. at = (bufGet + i - 1) % RingSize
    <3>1. bufGet + (i - 1) = bufGet + i - 1  BY RingFacts, Zenon DEF Index
    <3> QED  BY <3>1, Zenon DEF at
  <2> QED  BY <2>3, <2>4, RingFacts, Zenon
<1>2. n \in Nat  BY RingFacts DEF Index
<1>3. \A i \in 1 .. n : Oldest + i - 1 \in Nat  BY <1>2, RingFacts, Ch34xAssumption
<1> QED  BY <1>1, <1>2, <1>3 DEF Content

(* ch34x_send moves the oldest bytes from the ring to the free URB.        *)
LEMMA SendKeepsBytes ==
    ASSUME WInv, NEW s \in Sides, Send34(s)
    PROVE  WInv'
<1> USE Ch34xAssumption
<1> DEFINE n == Smaller(BulkOut, ch34x_buf_data_avail)
<1>1. /\ sendPc[s] = "send"
      /\ UNCHANGED <<ring, bufPut, urbs, refused, chState, delivered, nextByte, opensLeft, lossy>>
  BY Zenon DEF Send34
<1>2. CASE sendPc' = [sendPc EXCEPT ![s] = "idle"] /\ UNCHANGED <<bufGet, inUse, urbData>>
  <2>1. WriteTypeOK'  BY <1>1, <1>2, Zenon DEF WInv, WriteTypeOK
  <2>2. UrbOwned'
    BY <1>1, <1>2, Zenon DEF WInv, WriteTypeOK, UrbOwned, InUseExact, ClosedIsQuiet, Sides
  <2>3. Held' = Held /\ Oldest' = Oldest
    BY <1>1, <1>2, Zenon DEF Oldest, Held, ch34x_buf_data_avail
  <2>4. (\E r \in Sides : sendPc'[r] = "submit") <=> (\E r \in Sides : sendPc[r] = "submit")
    BY <1>1, <1>2, Zenon DEF WInv, WriteTypeOK
  <2>5. BytesPlaced'
    BY <1>1, <1>2, <2>3, <2>4, Zenon DEF WInv, BytesPlaced, Increasing
  <2> QED  BY <2>1, <2>2, <2>5, Zenon DEF WInv
<1>3. CASE /\ ~inUse /\ ch34x_buf_data_avail # 0
           /\ urbData' = Content(n) /\ bufGet' = Wrapped(bufGet, n)
           /\ inUse' = TRUE /\ sendPc' = [sendPc EXCEPT ![s] = "submit"]
  <2>1. n \in 1 .. Held /\ n <= BulkOut /\ n \in Index
    BY <1>3, RingFacts DEF Smaller, Held, Index
  <2> HIDE DEF n
  <2>2. /\ urbData' \in Seq(Nat) /\ Len(urbData') = n
        /\ \A i \in 1 .. n : urbData'[i] = Oldest + i - 1
    BY <1>3, <2>1, ContentIs
  <2>0. n \in Nat /\ Held \in Nat /\ nextByte \in Nat /\ Oldest \in Nat
    BY <2>1, RingFacts DEF Index
  <2>3. bufGet' \in Index /\ Dist(bufGet', bufPut') = Held - n
    <3>1. Dist(bufGet, bufPut) >= n  BY <2>0, <2>1, RingFacts
    <3>2. /\ Wrapped(bufGet, n) \in Index
          /\ Dist(Wrapped(bufGet, n), bufPut) = Dist(bufGet, bufPut) - n
      BY <2>1, <3>1, RingFacts DEF Dist, Wrapped, Index
    <3> QED  BY <1>1, <1>3, <3>2, RingFacts, Zenon
  <2>4. Held' = Held - n
    <3>1. Held' = (RingSize + bufPut' - bufGet') % RingSize  BY Zenon DEF Held, ch34x_buf_data_avail
    <3> QED  BY <1>1, <2>3, <3>1, RingFacts, AvailIsDistance, Zenon
  <2>5. Oldest' = Oldest + n  BY <1>1, <2>1, <2>4, RingFacts DEF Oldest, Index
  <2>6. /\ urbs = urbs' /\ "write" \notin urbs /\ Len(urbData) = 0
        /\ \A r \in Sides : sendPc[r] \notin {"submit", "clear"}
    BY <1>1, <1>3 DEF WInv, UrbOwned, InUseExact, BytesPlaced
  <2>7. WriteTypeOK'
    BY <1>1, <1>3, <2>1, <2>2, <2>3, Zenon DEF WInv, WriteTypeOK, Index
  <2>8. UrbOwned'
    <3>1. chState # "closed" /\ (chState # "open" => s = "handler")
      BY <1>1, Zenon DEF WInv, UrbOwned, Sides
    <3> QED
      BY <1>1, <1>3, <2>6, <3>1, Zenon
         DEF WInv, WriteTypeOK, UrbOwned, InUseExact, ClosedIsQuiet, Sides
  <2>9. \A i \in Index : Dist(bufGet', i) < Held' => ring'[i] = Oldest' + Dist(bufGet', i)
    <3> SUFFICES ASSUME NEW i \in Index, Dist(bufGet', i) < Held - n
                 PROVE  ring[i] = Oldest + n + Dist(bufGet', i)
      BY <1>1, <2>4, <2>5, Zenon
    <3>1. Dist(bufGet, i) = Dist(bufGet', i) + n
      <4>1. bufGet' = Wrapped(bufGet, n)  BY <1>3, Zenon
      <4> QED  BY <4>1, <2>1, <2>3, RingFacts DEF Dist, Index, Wrapped
    <3>2. ring[i] = Oldest + Dist(bufGet, i)
      <4>1. Dist(bufGet, i) < Held  BY <3>1, <2>1, <2>3, RingFacts DEF Dist, Index
      <4> QED  BY <4>1, Zenon DEF WInv, BytesPlaced
    <3>3. Dist(bufGet', i) \in Nat
      <4>1. bufGet' \in Index  BY <2>3, Zenon
      <4> QED  BY <4>1, DistIsIndex, Zenon
    <3> QED  BY <3>1, <3>2, <3>3, <2>1, RingFacts
  <2>10. Increasing(urbData')
    BY <2>1, <2>2, RingFacts DEF Increasing
  <2>11. \A i \in 1 .. Len(urbData') : urbData'[i] < Oldest'
    BY <2>1, <2>2, <2>5, RingFacts
  <2>12. \A i \in 1 .. Len(delivered) :
            delivered[i] \in Nat /\ delivered[i] < Oldest /\ delivered[i] < Oldest'
    <3>1. \A i \in 1 .. Len(delivered) : delivered[i] \in Nat /\ delivered[i] < Oldest
      BY DEF WInv, BytesPlaced
    <3> QED  BY <3>1, <2>1, <2>5, RingFacts
  <2>13. \A i \in 1 .. Len(delivered), j \in 1 .. Len(urbData') : delivered[i] < urbData'[j]
    <3> SUFFICES ASSUME NEW i \in 1 .. Len(delivered), NEW j \in 1 .. n
                 PROVE  delivered[i] < Oldest + j - 1
      BY <2>2, Zenon
    <3>1. j \in Nat /\ j >= 1  BY <2>1
    <3> QED  BY <3>1, <2>12, RingFacts
  <2>14. ~lossy => Len(delivered) + Len(urbData') + Held' = nextByte - 1
    <3>1. Len(delivered) \in Nat  BY DEF WInv, BytesPlaced
    <3>2. ~lossy => Len(delivered) + Len(urbData) + Held = nextByte - 1
      BY Zenon DEF WInv, BytesPlaced
    <3> QED  BY <2>0, <2>2, <2>4, <2>6, <3>1, <3>2
  <2>15. nextByte' \in 1 .. MaxBytes + 1 /\ Held' < nextByte'
    BY <1>1, <2>1, <2>4, RingFacts DEF Index, WInv, BytesPlaced
  <2>16. Len(urbData') > 0 /\ \E r \in Sides : sendPc'[r] = "submit"
    BY <1>3, <2>1, <2>2 DEF WInv, WriteTypeOK
  <2>17. delivered' = delivered /\ delivered \in Seq(Nat) /\ Increasing(delivered) /\ lossy' = lossy
    BY <1>1, Zenon DEF WInv, BytesPlaced
  <2>18. BytesPlaced'
    <3>1. /\ (\A i \in 1 .. Len(delivered) : delivered[i] < Oldest)'
          /\ (\A i \in 1 .. Len(delivered), j \in 1 .. Len(urbData) :
                  delivered[i] < urbData[j])'
          /\ (~lossy => Len(delivered) + Len(urbData) + Held = nextByte - 1)'
      BY <2>12, <2>13, <2>14, <2>17, <1>1
    <3>2. Increasing(delivered)' /\ Increasing(urbData)'
      BY <2>10, <2>17, Zenon DEF Increasing
    <3> QED  BY <2>2, <2>9, <2>11, <2>15, <2>16, <2>17, <3>1, <3>2, Zenon DEF BytesPlaced
  <2> QED  BY <2>7, <2>8, <2>18, Zenon DEF WInv
<1> QED  BY <1>2, <1>3, Zenon DEF Send34

(* The write URB is somebody's: the device's, or ch34x_send's.             *)
UrbBusy == "write" \in urbs \/ \E s \in Sides : sendPc[s] = "submit"

(* Steps that move no byte keep the bytes where they are.                  *)
LEMMA IdleKeepsBytes ==
    ASSUME WInv, UNCHANGED <<bufVars34, nextByte, delivered, urbData, lossy>>, UrbBusy' <=> UrbBusy
    PROVE  BytesPlaced'
<1>1. Held' = Held /\ Oldest' = Oldest
  BY Zenon DEF Oldest, Held, ch34x_buf_data_avail, bufVars34
<1> QED  BY <1>1, Zenon DEF WInv, BytesPlaced, Increasing, bufVars34, UrbBusy

(* Steps that drop what the URB carries leave the rest in order.           *)
LEMMA DropKeepsBytes ==
    ASSUME WInv, UNCHANGED <<bufVars34, nextByte, delivered>>, urbData' = <<>>, lossy' = TRUE,
           ~UrbBusy'
    PROVE  BytesPlaced'
<1>1. Held' = Held /\ Oldest' = Oldest
  BY Zenon DEF Oldest, Held, ch34x_buf_data_avail, bufVars34
<1> QED  BY <1>1 DEF WInv, BytesPlaced, Increasing, bufVars34, UrbBusy

(* Completion delivers the bytes of the URB after all earlier ones.        *)
LEMMA DeliveryKeepsBytes ==
    ASSUME WInv, UNCHANGED <<bufVars34, nextByte, lossy>>,
           delivered' = delivered \o urbData, urbData' = <<>>, ~UrbBusy'
    PROVE  BytesPlaced'
<1> DEFINE d == Len(delivered)
           u == Len(urbData)
<1>1. Held' = Held /\ Oldest' = Oldest
  BY Zenon DEF Oldest, Held, ch34x_buf_data_avail, bufVars34
<1>2. /\ delivered' \in Seq(Nat) /\ Len(delivered') = d + u /\ d \in Nat /\ u \in Nat
      /\ \A i \in 1 .. d : delivered'[i] = delivered[i]
      /\ \A i \in d + 1 .. d + u : delivered'[i] = urbData[i - d] /\ i - d \in 1 .. u
  BY DEF WInv, BytesPlaced
<1> HIDE DEF d, u
<1>3. /\ \A i, j \in 1 .. d : i < j => delivered[i] < delivered[j]
      /\ \A i, j \in 1 .. u : i < j => urbData[i] < urbData[j]
      /\ \A i \in 1 .. d : delivered[i] < Oldest
      /\ \A i \in 1 .. u : urbData[i] < Oldest
      /\ \A i \in 1 .. d, j \in 1 .. u : delivered[i] < urbData[j]
  BY Zenon DEF WInv, BytesPlaced, Increasing, d, u
<1>4. Increasing(delivered')
  <2> SUFFICES ASSUME NEW i \in 1 .. d + u, NEW j \in 1 .. d + u, i < j
               PROVE  delivered'[i] < delivered'[j]
    BY <1>2, Zenon DEF Increasing
  <2>1. CASE j \in 1 .. d  BY <1>2, <1>3, <2>1
  <2>2. CASE i \in 1 .. d /\ j \in d + 1 .. d + u  BY <1>2, <1>3, <2>2, Zenon
  <2>3. CASE i \in d + 1 .. d + u /\ j \in d + 1 .. d + u
    <3>1. i - d < j - d  BY <1>2
    <3> QED  BY <1>2, <1>3, <2>3, <3>1, Zenon
  <2>4. \/ j \in 1 .. d \/ (i \in 1 .. d /\ j \in d + 1 .. d + u)
        \/ (i \in d + 1 .. d + u /\ j \in d + 1 .. d + u)
    BY <1>2
  <2> QED  BY <2>1, <2>2, <2>3, <2>4, Zenon
<1>5. \A i \in 1 .. Len(delivered') : delivered'[i] < Oldest
  <2> SUFFICES ASSUME NEW i \in 1 .. d + u  PROVE delivered'[i] < Oldest
    BY <1>2, Zenon
  <2>1. CASE i \in 1 .. d  BY <1>2, <1>3, <2>1, Zenon
  <2>2. CASE i \in d + 1 .. d + u
    <3>1. delivered'[i] = urbData[i - d] /\ i - d \in 1 .. u  BY <1>2, <2>2, Zenon
    <3>2. \A j \in 1 .. u : urbData[j] < Oldest  BY <1>3, Zenon
    <3> QED  BY <3>1, <3>2, Zenon
  <2> QED  BY <1>2, <2>1, <2>2
<1>6. ~lossy => d + u + Held = nextByte - 1  BY Zenon DEF WInv, BytesPlaced, d, u
<1>7. Len(urbData') = 0 /\ urbData' \in Seq(Nat) /\ Increasing(urbData')
  BY DEF Increasing
<1>8. (~lossy => Len(delivered) + Len(urbData) + Held = nextByte - 1)'
  BY <1>1, <1>2, <1>6, <1>7, RingFacts DEF Index
<1>9. (\A i \in Index : Dist(bufGet, i) < Held => ring[i] = Oldest + Dist(bufGet, i))'
  BY <1>1, Zenon DEF WInv, BytesPlaced, bufVars34
<1>10. (nextByte \in 1 .. MaxBytes + 1 /\ Held < nextByte)'
  BY <1>1, Zenon DEF WInv, BytesPlaced
<1> QED  BY <1>1, <1>2, <1>4, <1>5, <1>7, <1>8, <1>9, <1>10 DEF BytesPlaced, UrbBusy

(* usb_submit_urb in ch34x_send.                                           *)
LEMMA SubmitKeeps ==
    ASSUME WInv, NEW s \in Sides, Submit34(s)
    PROVE  WInv'
<1> USE DEF Sides
<1>1. /\ sendPc[s] = "submit" /\ sendPc' = [sendPc EXCEPT ![s] = "idle"]
      /\ UNCHANGED <<bufVars34, refused, chState, delivered, nextByte, opensLeft>>
  BY Zenon DEF Submit34
<1>2. CASE MaySubmit("write") /\ urbs' = urbs \cup {"write"} /\ UNCHANGED <<inUse, urbData, lossy>>
  <2>1. UrbBusy /\ UrbBusy'  BY <1>1, <1>2, Zenon DEF UrbBusy
  <2>2. WriteTypeOK'  BY <1>1, <1>2, Zenon DEF WInv, WriteTypeOK, bufVars34
  <2>3. UrbOwned'
    BY <1>1, <1>2, Zenon DEF WInv, WriteTypeOK, UrbOwned, InUseExact, ClosedIsQuiet, MaySubmit
  <2> QED  BY <1>1, <1>2, <2>1, <2>2, <2>3, IdleKeepsBytes, Zenon DEF WInv
<1>3. CASE inUse' = FALSE /\ urbData' = <<>> /\ lossy' = TRUE /\ UNCHANGED urbs
  <2>1. ~UrbBusy'
    BY <1>1, <1>3, Zenon DEF UrbBusy, WInv, WriteTypeOK, UrbOwned
  <2>2. WriteTypeOK'
    <3>1. Len(urbData') <= BulkOut  BY <1>3, Ch34xAssumption
    <3>2. sendPc' \in [Sides -> {"idle", "send", "submit", "clear"}]
      BY <1>1, Zenon DEF WInv, WriteTypeOK
    <3> QED  BY <1>1, <1>3, <3>1, <3>2, Zenon DEF WInv, WriteTypeOK, bufVars34
  <2>3. UrbOwned'
    BY <1>1, <1>3, Zenon DEF WInv, WriteTypeOK, UrbOwned, InUseExact, ClosedIsQuiet
  <2> QED  BY <1>1, <1>3, <2>1, <2>2, <2>3, DropKeepsBytes, Zenon DEF WInv
<1> QED  BY <1>2, <1>3, Zenon DEF Submit34

(* ch34x_write_bulk_callback.                                              *)
LEMMA DoneKeeps ==
    ASSUME WInv, WriteDone
    PROVE  WInv'
<1> USE DEF Sides
<1>1. /\ "write" \in urbs /\ sendPc["handler"] = "idle"
      /\ UNCHANGED <<bufVars34, inUse, refused, chState, nextByte, opensLeft>>
  BY Zenon DEF WriteDone
<1>2. CASE urbs' = urbs \ {"write"} /\ sendPc' = [sendPc EXCEPT !["handler"] = "clear"]
           /\ urbData' = <<>>
  <2>1. ~UrbBusy'
    BY <1>1, <1>2, Zenon DEF UrbBusy, WInv, WriteTypeOK, UrbOwned
  <2>2. WriteTypeOK'  BY <1>1, <1>2, Ch34xAssumption DEF WInv, WriteTypeOK, bufVars34
  <2>3. UrbOwned'
    BY <1>1, <1>2, Zenon DEF WInv, WriteTypeOK, UrbOwned, InUseExact, ClosedIsQuiet
  <2>4. CASE delivered' = delivered \o urbData /\ UNCHANGED lossy
    BY <1>1, <1>2, <2>1, <2>2, <2>3, <2>4, DeliveryKeepsBytes, Zenon DEF WInv
  <2>5. CASE lossy' = TRUE /\ UNCHANGED delivered
    BY <1>1, <1>2, <2>1, <2>2, <2>3, <2>5, DropKeepsBytes, Zenon DEF WInv
  <2> QED  BY <1>1, <1>2, <2>4, <2>5, Zenon DEF WriteDone
<1>3. CASE /\ urbData' = SubSeq(urbData, 1, 1) /\ lossy' = TRUE
           /\ UNCHANGED <<delivered, urbs, sendPc>>
  <2>1. Held' = Held /\ Oldest' = Oldest
    BY <1>1, Zenon DEF Oldest, Held, ch34x_buf_data_avail, bufVars34
  <2>2. Len(urbData) > 0 /\ urbData \in Seq(Nat)  BY <1>1, Zenon DEF WInv, BytesPlaced
  <2>3. Len(urbData') = 1 /\ urbData' \in Seq(Nat) /\ urbData'[1] = urbData[1]
    BY <1>3, <2>2
  <2>4. WriteTypeOK' /\ UrbOwned'
    BY <1>1, <1>3, <2>3, Ch34xAssumption
       DEF WInv, WriteTypeOK, UrbOwned, InUseExact, ClosedIsQuiet, bufVars34
  <2>5. BytesPlaced'
    BY <1>1, <1>3, <2>1, <2>2, <2>3 DEF WInv, BytesPlaced, Increasing, bufVars34
  <2> QED  BY <2>4, <2>5, Zenon DEF WInv
<1> QED  BY <1>2, <1>3, Zenon DEF WriteDone

(* Steps that move no byte: the rest of the handler, the reads, ch34x_open *)
(* and most of ch34x_close.                                                *)
LEMMA QuietStepKeeps ==
    ASSUME WInv,
           \/ HandlerClear \/ (\E u \in {"read", "int"} : ReadDone(u))
           \/ OpenRead \/ OpenInt \/ Close \/ KillWait
           \/ KillRead("int", "killInt", "killRead") \/ KillRead("read", "killRead", "killWrite")
    PROVE  WInv'
<1> USE DEF Sides, WInv, WriteTypeOK
<1>1. UNCHANGED <<bufVars34, nextByte, delivered, urbData, lossy>>
  BY Zenon DEF HandlerClear, ReadDone, OpenRead, OpenInt, Close, KillWait, KillRead
<1>2. UrbBusy' <=> UrbBusy
  BY Zenon DEF UrbBusy, HandlerClear, ReadDone, OpenRead, OpenInt, Close, KillWait, KillRead
<1>3. UrbOwned' /\ WriteTypeOK'
  <2> USE DEF UrbOwned, InUseExact, ClosedIsQuiet, bufVars34
  <2>1. CASE HandlerClear  BY <2>1, Zenon DEF HandlerClear
  <2>2. CASE \E u \in {"read", "int"} : ReadDone(u)  BY <2>2 DEF ReadDone
  <2>3. CASE OpenRead  BY <2>3, Zenon DEF OpenRead
  <2>4. CASE OpenInt  BY <2>4, Zenon DEF OpenInt
  <2>5. CASE Close  BY <2>5, Zenon DEF Close
  <2>6. CASE KillWait  BY <2>6, Zenon DEF KillWait
  <2>7. CASE KillRead("int", "killInt", "killRead")  BY <2>7, Zenon DEF KillRead
  <2>8. CASE KillRead("read", "killRead", "killWrite")  BY <2>8, Zenon DEF KillRead
  <2> QED  BY <2>1, <2>2, <2>3, <2>4, <2>5, <2>6, <2>7, <2>8, Zenon
<1> QED  BY <1>1, <1>2, <1>3, IdleKeepsBytes, Zenon

(* The two steps of ch34x_close that drop bytes.                           *)
LEMMA CloseKeeps ==
    ASSUME WInv, CloseClear \/ KillWrite
    PROVE  WInv'
<1> USE DEF Sides
<1>1. CASE CloseClear
  <2>1. /\ bufGet' = bufPut /\ lossy' = (lossy \/ Held > 0)
        /\ UNCHANGED <<ring, bufPut, inUse, sendPc, urbData, urbs, refused, delivered, nextByte>>
        /\ chState = "closing" /\ chState' = "killInt"
    BY <1>1, Zenon DEF CloseClear, Held
  <2>2. Held' = 0
    <3>1. Held' = (RingSize + bufPut' - bufGet') % RingSize  BY Zenon DEF Held, ch34x_buf_data_avail
    <3>2. Dist(bufPut, bufPut) = 0  BY RingFacts DEF Dist, Index
    <3> QED  BY <2>1, <3>1, <3>2, RingFacts, AvailIsDistance, Zenon
  <2>3. Oldest' = nextByte /\ Oldest <= nextByte  BY <2>1, <2>2, RingFacts DEF Oldest
  <2>4. WriteTypeOK' /\ UrbOwned'
    BY <2>1, Zenon DEF WInv, WriteTypeOK, UrbOwned, InUseExact, ClosedIsQuiet
  <2>5. /\ \A i \in 1 .. Len(delivered) : delivered[i] < nextByte
        /\ \A i \in 1 .. Len(urbData) : urbData[i] < nextByte
    <3>1. /\ \A i \in 1 .. Len(delivered) : delivered[i] \in Nat /\ delivered[i] < Oldest
          /\ \A i \in 1 .. Len(urbData) : urbData[i] \in Nat /\ urbData[i] < Oldest
      BY DEF WInv, BytesPlaced
    <3> QED  BY <2>3, <3>1, RingFacts
  <2>6. (~lossy => Len(delivered) + Len(urbData) + Held = nextByte - 1)'
    <3>1. ~lossy => Len(delivered) + Len(urbData) + Held = nextByte - 1
      BY Zenon DEF WInv, BytesPlaced
    <3>2. Held > 0 => lossy'  BY <2>1, Zenon
    <3>3. lossy => lossy'  BY <2>1, Zenon
    <3>4. Held \in Nat  BY RingFacts, Ch34xAssumption DEF Index
    <3>5. CASE Held > 0  BY <3>2, <3>5, Zenon
    <3>6. CASE Held = 0  BY <2>1, <2>2, <3>1, <3>3, <3>6, Zenon
    <3> QED  BY <3>4, <3>5, <3>6
  <2>7. (\A i \in Index : Dist(bufGet, i) < Held => ring[i] = Oldest + Dist(bufGet, i))'
    BY <2>1, <2>2, RingFacts, DistIsIndex DEF Index
  <2>8. nextByte \in 1 .. MaxBytes + 1 /\ Held' < nextByte
    <3>1. nextByte \in 1 .. MaxBytes + 1  BY Zenon DEF WInv, BytesPlaced
    <3> QED  BY <2>2, <3>1, Ch34xAssumption
  <2>9. BytesPlaced'
    BY <2>1, <2>3, <2>5, <2>6, <2>7, <2>8, Zenon DEF WInv, BytesPlaced, Increasing
  <2> QED  BY <2>4, <2>9, Zenon DEF WInv
<1>2. CASE KillWrite
  <2>1. WriteTypeOK' /\ UrbOwned'
    <3>1. Len(urbData') <= BulkOut
      BY <1>2, Ch34xAssumption DEF KillWrite, WInv, WriteTypeOK
    <3>2. WriteTypeOK'  BY <1>2, <3>1, Zenon DEF KillWrite, WInv, WriteTypeOK, bufVars34
    <3>3. UrbOwned'
      BY <1>2, Zenon DEF KillWrite, WInv, WriteTypeOK, UrbOwned, InUseExact, ClosedIsQuiet
    <3> QED  BY <3>2, <3>3, Zenon
  <2>2. UNCHANGED <<bufVars34, nextByte, delivered, sendPc>>  BY <1>2, Zenon DEF KillWrite
  <2>3. CASE "write" \in urbs
    <3>1. ~UrbBusy' /\ urbData' = <<>> /\ lossy' = TRUE
      BY <1>2, <2>3, Zenon DEF KillWrite, UrbBusy, WInv, UrbOwned
    <3> QED  BY <2>1, <2>2, <3>1, DropKeepsBytes, Zenon DEF WInv
  <2>4. CASE "write" \notin urbs
    <3>1. (UrbBusy' <=> UrbBusy) /\ UNCHANGED <<urbData, lossy>>
      BY <1>2, <2>4, Zenon DEF KillWrite, UrbBusy
    <3> QED  BY <2>1, <2>2, <3>1, IdleKeepsBytes, Zenon DEF WInv
  <2> QED  BY <2>3, <2>4, Zenon
<1> QED  BY <1>1, <1>2, Zenon

(* The elements of a concatenation.                                        *)
LEMMA ConcatIs ==
    ASSUME NEW a \in Seq(Nat), NEW b \in Seq(Nat)
    PROVE  /\ a \o b \in Seq(Nat) /\ Len(a \o b) = Len(a) + Len(b)
           /\ \A i \in 1 .. Len(a) : (a \o b)[i] = a[i]
           /\ \A i \in 1 .. Len(b) : (a \o b)[Len(a) + i] = b[i]
OBVIOUS

(* Bytes in order follow from where the bytes are.                         *)
LEMMA PlacedInOrder ==
    ASSUME WInv
    PROVE  BytesInOrder
<1> DEFINE d == Len(delivered)
           u == Len(urbData)
           c == Content(Held)
           P == (delivered \o urbData) \o c
<1>1. Held \in Nat /\ Held \in 0 .. Held  BY RingFacts, Ch34xAssumption DEF Index
<1>2. c \in Seq(Nat) /\ Len(c) = Held /\ \A i \in 1 .. Held : c[i] = Oldest + i - 1
  BY <1>1, ContentIs, Zenon
<1>3. delivered \in Seq(Nat) /\ urbData \in Seq(Nat) /\ d \in Nat /\ u \in Nat
  BY DEF WInv, BytesPlaced
<1> HIDE DEF c
<1>4. /\ P \in Seq(Nat) /\ Len(P) = d + u + Held
      /\ \A i \in 1 .. d : P[i] = delivered[i]
      /\ \A i \in 1 .. u : P[d + i] = urbData[i]
      /\ \A i \in 1 .. Held : P[d + u + i] = c[i]
  <2> DEFINE x == delivered \o urbData
  <2>1. /\ x \in Seq(Nat) /\ Len(x) = d + u
        /\ \A i \in 1 .. d : x[i] = delivered[i]
        /\ \A i \in 1 .. u : x[d + i] = urbData[i]
    BY <1>3
  <2> HIDE DEF x, d, u
  <2>2. /\ x \o c \in Seq(Nat) /\ Len(x \o c) = Len(x) + Len(c)
        /\ \A i \in 1 .. Len(x) : (x \o c)[i] = x[i]
        /\ \A i \in 1 .. Len(c) : (x \o c)[Len(x) + i] = c[i]
    BY <1>2, <2>1, ConcatIs, Zenon
  <2>3. \A i \in 1 .. d : (x \o c)[i] = delivered[i]
    <3>1. \A i \in 1 .. d : i \in 1 .. d + u  BY <1>3
    <3> QED  BY <2>1, <2>2, <3>1, Zenon
  <2>4. \A i \in 1 .. u : (x \o c)[d + i] = urbData[i]
    <3>1. \A i \in 1 .. u : d + i \in 1 .. d + u  BY <1>3
    <3> QED  BY <2>1, <2>2, <3>1, Zenon
  <2>5. P = x \o c  BY Zenon DEF x
  <2> HIDE DEF P
  <2> QED  BY <1>2, <2>1, <2>2, <2>3, <2>4, <2>5, Zenon
<1> HIDE DEF d, u, P
<1>5. /\ \A i, j \in 1 .. d : i < j => delivered[i] < delivered[j]
      /\ \A i, j \in 1 .. u : i < j => urbData[i] < urbData[j]
      /\ \A i \in 1 .. d : delivered[i] < Oldest
      /\ \A i \in 1 .. u : urbData[i] < Oldest
      /\ \A i \in 1 .. d, j \in 1 .. u : delivered[i] < urbData[j]
  BY Zenon DEF WInv, BytesPlaced, Increasing, d, u
<1>6. ASSUME NEW i \in 1 .. d + u + Held, NEW j \in 1 .. d + u + Held, i < j
      PROVE  P[i] < P[j]
  <2>1. CASE j <= d  BY <1>1, <1>3, <1>4, <1>5, <1>6, <2>1
  <2>2. CASE j > d /\ j <= d + u
    <3>1. j - d \in 1 .. u /\ P[j] = urbData[j - d]
      <4>1. j - d \in 1 .. u /\ d + (j - d) = j  BY <1>1, <1>3, <2>2
      <4> QED  BY <1>4, <4>1, Zenon
    <3>2. CASE i <= d
      <4>1. i \in 1 .. d  BY <1>1, <1>3, <3>2
      <4> QED  BY <1>4, <1>5, <3>1, <4>1, Zenon
    <3>3. CASE i > d
      <4>1. i - d \in 1 .. u /\ d + (i - d) = i /\ i - d < j - d  BY <1>1, <1>3, <1>6, <2>2, <3>3
      <4>2. P[i] = urbData[i - d]  BY <1>4, <4>1, Zenon
      <4> QED  BY <1>5, <3>1, <4>1, <4>2, Zenon
    <3> QED  BY <1>1, <1>3, <3>2, <3>3
  <2>3. CASE j > d + u
    <3>1. j - d - u \in 1 .. Held /\ d + u + (j - d - u) = j  BY <1>1, <1>3, <2>3
    <3>2. P[j] = Oldest + (j - d - u) - 1  BY <1>2, <1>4, <3>1, Zenon
    <3>3. P[j] >= Oldest  BY <3>1, <3>2, RingFacts, <1>1
    <3>4. CASE i <= d
      <4>1. i \in 1 .. d  BY <1>1, <1>3, <3>4
      <4>2. P[i] = delivered[i] /\ delivered[i] < Oldest /\ P[i] \in Nat
        BY <1>1, <1>3, <1>4, <1>5, <4>1
      <4> QED  BY <3>1, <3>2, <4>2, RingFacts
    <3>5. CASE i > d /\ i <= d + u
      <4>1. i - d \in 1 .. u /\ d + (i - d) = i  BY <1>1, <1>3, <3>5
      <4>2. P[i] = urbData[i - d] /\ urbData[i - d] < Oldest /\ P[i] \in Nat
        BY <1>1, <1>3, <1>4, <1>5, <4>1
      <4> QED  BY <3>1, <3>2, <4>2, RingFacts
    <3>6. CASE i > d + u
      <4>1. i - d - u \in 1 .. Held /\ d + u + (i - d - u) = i  BY <1>1, <1>3, <3>6, <2>3, <1>6
      <4>2. P[i] = Oldest + (i - d - u) - 1  BY <1>2, <1>4, <4>1, Zenon
      <4> QED  BY <1>1, <1>3, <1>6, <3>2, <4>2, RingFacts
    <3> QED  BY <1>1, <1>3, <3>4, <3>5, <3>6
  <2> QED  BY <1>1, <1>3, <2>1, <2>2, <2>3
<1>7. Pipeline = P  BY Zenon DEF Pipeline, P, c, Held
<1>8. DOMAIN P = 1 .. d + u + Held  BY <1>4
<1>9. ~lossy => Len(P) = nextByte - 1
  BY <1>4, Zenon DEF WInv, BytesPlaced, d, u
<1> QED  BY <1>6, <1>7, <1>8, <1>9, Zenon DEF BytesInOrder

(* The write side of the CH34x driver, for every size of the ring and of   *)
(* the URB, any number of writes, opens and closes, and whatever           *)
(* submissions and transfers fail: bytes reach the device in order and     *)
(* none twice, none is lost but for a failure or a close, write_urb_in_use *)
(* says who has the URB, and a closed port is quiet.                       *)
THEOREM WritePathSafe ==
    WriteSpec => []WriteSafe
<1>1. WriteInit => WInv
  <2> SUFFICES ASSUME WriteInit  PROVE WInv
    BY Zenon
  <2> USE Ch34xAssumption DEF WriteInit
  <2>1. WriteTypeOK
    <3>1. ring \in [0 .. RingSize - 1 -> 0 .. MaxBytes]  OBVIOUS
    <3>2. Len(urbData) <= BulkOut  OBVIOUS
    <3>3. sendPc \in [Sides -> {"idle", "send", "submit", "clear"}]  BY Zenon
    <3>4. bufGet \in 0 .. RingSize - 1 /\ bufPut \in 0 .. RingSize - 1  OBVIOUS
    <3> QED  BY <3>1, <3>2, <3>3, <3>4, Zenon DEF WriteTypeOK
  <2>2. UrbOwned  BY Zenon DEF UrbOwned, InUseExact, ClosedIsQuiet, Sides
  <2>3. Held = 0 /\ Oldest = 1
    BY AvailIsDistance DEF Held, ch34x_buf_data_avail, Dist, Index, Oldest
  <2>4. \A i \in Index : Dist(bufGet, i) >= 0  BY DEF Index, Dist
  <2>5. BytesPlaced
    BY <2>3, <2>4 DEF BytesPlaced, Increasing, Index, Dist
  <2> QED  BY <2>1, <2>2, <2>5, Zenon DEF WInv
<1>2. WInv /\ [WriteNext]_writeVars => WInv'
  <2>1. WInv /\ UNCHANGED writeVars => WInv'
    <3> SUFFICES ASSUME WInv, UNCHANGED writeVars  PROVE WInv'
      BY Zenon
    <3>1. WriteTypeOK' /\ UrbOwned'
      BY Zenon DEF WInv, WriteTypeOK, UrbOwned, InUseExact, ClosedIsQuiet, writeVars
    <3>2. UrbBusy' <=> UrbBusy  BY Zenon DEF UrbBusy, writeVars
    <3> QED  BY <3>1, <3>2, IdleKeepsBytes, Zenon DEF WInv, writeVars, bufVars34
  <2> QED
    BY <2>1, WriteKeepsBytes, SendKeepsBytes, SubmitKeeps, DoneKeeps, QuietStepKeeps,
       CloseKeeps, Zenon
       DEF WriteNext, Closing
<1>3. WInv => WriteSafe  BY PlacedInOrder, Zenon DEF WInv, UrbOwned, WriteSafe
<1> QED  BY <1>1, <1>2, <1>3, PTL DEF WriteSpec
=============================================================================
